----------------------------- MODULE FileLayout -----------------------------
(***************************************************************************)
(* What the two-phase writers of src/write promise of a file: while        *)
(* nothing is written ranges are reserved, each behind all the others;     *)
(* afterwards their pieces are put down, in the same order, each where its *)
(* range begins and within it.  A range may stay empty, and a piece may    *)
(* grow until its range ends; no byte of one range is ever written behind  *)
(* the start of the next.                                                  *)
(***************************************************************************)
EXTENDS Integers, Sequences

VARIABLES
    ranges,  \* the ranges reserved, in order: [offset, size]
    extent,  \* the length of what is written
    cur,     \* the last range whose turn it was, 0 while reserving
    pieces   \* where the pieces were put: [range, at]

vars == <<ranges, extent, cur, pieces>>

EndOf(r) == r.offset + r.size

Init == ranges = <<>> /\ extent = 0 /\ cur = 0 /\ pieces = <<>>

(* One more range, behind the last.                                        *)
Reserve ==
    LET r == ranges'[Len(ranges')] IN
    /\ cur = 0
    /\ ranges' # <<>> /\ ranges' = Append(ranges, r)
    /\ r.size >= 0
    /\ ranges # <<>> => EndOf(ranges[Len(ranges)]) <= r.offset
    /\ UNCHANGED <<extent, cur, pieces>>

(* The next piece, with as much of its range as is written at once.        *)
Put ==
    LET r == ranges[cur + 1] IN
    /\ cur < Len(ranges) /\ cur' = cur + 1
    /\ extent <= r.offset
    /\ extent' \in r.offset..EndOf(r)
    /\ pieces' = Append(pieces, [range |-> cur + 1, at |-> r.offset])
    /\ UNCHANGED ranges

(* Nothing is written of the next range.                                   *)
Skip ==
    /\ cur < Len(ranges) /\ cur' = cur + 1
    /\ UNCHANGED <<ranges, extent, pieces>>

(* More of the range whose turn it is.                                     *)
Fill ==
    /\ cur > 0
    /\ extent' \in extent..EndOf(ranges[cur])
    /\ UNCHANGED <<ranges, cur, pieces>>

Next == Reserve \/ Put \/ Skip \/ Fill

Spec == Init /\ [][Next]_vars
=============================================================================
