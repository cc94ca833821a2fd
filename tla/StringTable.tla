----------------------------- MODULE StringTable -----------------------------
(***************************************************************************)
(* The StringTable of write/string.rs, which every object writer uses for  *)
(* its section and symbol names.  Strings are interned by add; write sorts *)
(* them by their reversed bytes with a multi-key quicksort, so that a      *)
(* string which is the tail of another one follows it and shares its       *)
(* bytes.  The caller puts a header in front of the strings: a null byte   *)
(* in ELF and Mach-O, a little-endian length in COFF, a big-endian length  *)
(* in XCOFF.                                                               *)
(*                                                                         *)
(* Ids and positions count from 1, offsets into the table from 0.  The     *)
(* code sorts ids; here the strings themselves are sorted, which is the    *)
(* same since they are distinct.                                           *)
(***************************************************************************)
EXTENDS Naturals, Sequences, SequencesExt

CONSTANTS Byte,         \* the non-null bytes strings are made of
          MaxLen,       \* bound on the length of a string
          MaxStrings,   \* bound on the number of interned strings
          Formats       \* the callers: a subset of {"elf", "coff", "xcoff"}

ASSUME StringTableAssumption ==
    /\ Byte \subseteq Nat \ {0} /\ MaxLen \in Nat
    /\ Formats \subseteq {"elf", "coff", "xcoff"}

VARIABLES format, strings, offsets, image

vars == <<format, strings, offsets, image>>

String == BoundedSeq(Byte, MaxLen)

-------------------------------------------------------------------------------
(* Sorting *)

(* The byte at distance pos from the end of a string; past its start, a    *)
(* null byte, so that a tail sorts after what it is a tail of.             *)
ByteAt(s, pos) == IF Len(s) >= pos THEN s[Len(s) - pos + 1] ELSE 0

Swap(strs, i, j) == [strs EXCEPT ![i] = strs[j], ![j] = strs[i]]

(* One round of the three-way partition loop: strs[1..lower] are above the *)
(* pivot, strs[upper..] below it, and strs[i] is the next to be compared.  *)
Classify(p, pos, pivot) ==
    LET b == ByteAt(p.strs[p.i], pos) IN
    CASE b > pivot -> [strs  |-> Swap(p.strs, p.lower + 1, p.i),
                       lower |-> p.lower + 1, upper |-> p.upper, i |-> p.i + 1]
      [] b < pivot -> [strs  |-> Swap(p.strs, p.upper - 1, p.i),
                       lower |-> p.lower, upper |-> p.upper - 1, i |-> p.i]
      [] OTHER     -> [p EXCEPT !.i = p.i + 1]

(* The loop, while i < upper: each round brings them closer by one.        *)
Partition(strs, pos, pivot) ==
    LET after[n \in 0..(Len(strs) - 1)] ==
            IF n = 0 THEN [strs |-> strs, lower |-> 0, upper |-> Len(strs) + 1, i |-> 2]
            ELSE Classify(after[n - 1], pos, pivot)
    IN  after[Len(strs) - 1]

Jobs == [strs : Seq(Seq(Nat)), pos : Nat \ {0}]
Job(strs, pos) == [strs |-> strs, pos |-> pos]

(* sort, with sorted for the sorting of the three parts.                   *)
SortWith(sorted, strs, pos) ==
    IF Len(strs) <= 1 THEN strs
    ELSE LET pivot == ByteAt(strs[1], pos)
             p     == Partition(strs, pos, pivot)
             above == SubSeq(p.strs, 1, p.lower)
             equal == SubSeq(p.strs, p.lower + 1, p.upper - 1)
             below == SubSeq(p.strs, p.upper, Len(strs))
         IN  sorted[Job(above, pos)]
             \o (IF pivot = 0 THEN equal ELSE sorted[Job(equal, pos + 1)])
             \o sorted[Job(below, pos)]

(* With every level, there are either fewer strings or bytes to compare.   *)
Depth(strs) == Len(strs) + MaxLen

Sort(strs) ==
    LET sorted[depth \in 0..Depth(strs)] ==
            [job \in Jobs |-> IF depth = 0 THEN job.strs
                              ELSE SortWith(sorted[depth - 1], job.strs, job.pos)]
    IN  sorted[Depth(strs)][Job(strs, 1)]

-------------------------------------------------------------------------------
(* Layout *)

Base == IF format = "elf" THEN 1 ELSE 4

Assign(f, x, v) == [y \in DOMAIN f \cup {x} |-> IF y = x THEN v ELSE f[y]]

(* Emit a string at the end of the data.                                   *)
Emit(acc, s) ==
    [offsetOf |-> Assign(acc.offsetOf, s, acc.offset),
     data     |-> acc.data \o s \o <<0>>,
     offset   |-> acc.offset + Len(s) + 1,
     previous |-> s]

(* Mutant: the shared tail is looked for one byte too far.                  *)
Bug_Place(acc, s) ==
    IF IsSuffix(s, acc.previous)
    THEN [acc EXCEPT !.offsetOf = Assign(acc.offsetOf, s, acc.offset - Len(s))]
    ELSE Emit(acc, s)

(* One iteration of the loop of write: emit a string unless it is a tail   *)
(* of the one emitted last.  offsetOf is keyed by the string, not its id.  *)
Place(acc, s) ==
    IF IsSuffix(s, acc.previous)
    THEN [acc EXCEPT !.offsetOf = Assign(acc.offsetOf, s, acc.offset - Len(s) - 1)]
    ELSE Emit(acc, s)

(* The loop, over the strings in a given order.                            *)
PlaceAll(strs, base) ==
    LET placed[n \in 0..Len(strs)] ==
            IF n = 0 THEN [offsetOf |-> <<>>, data |-> <<>>, offset |-> base, previous |-> <<>>]
            ELSE Place(placed[n - 1], strs[n])
    IN  placed[Len(strs)]

(* Mutant: strings are emitted in insertion order.                         *)
Bug_Written(strs, base) == PlaceAll(strs, base)

Written(strs, base) == PlaceAll(Sort(strs), base)

(* Mutant: size forgets which string it counted last.                      *)
Bug_Count(acc, s) ==
    IF IsSuffix(s, acc.previous) THEN acc ELSE [acc EXCEPT !.size = @ + Len(s) + 1]

(* One iteration of the loop of size.                                      *)
Count(acc, s) ==
    IF IsSuffix(s, acc.previous) THEN acc
    ELSE [size |-> acc.size + Len(s) + 1, previous |-> s]

CountAll(strs, base) ==
    LET counted[n \in 0..Len(strs)] ==
            IF n = 0 THEN [size |-> base, previous |-> <<>>]
            ELSE Count(counted[n - 1], strs[n])
    IN  counted[Len(strs)]

(* size: the length write would produce, from a walk of its own.           *)
Size(strs, base) == CountAll(Sort(strs), base).size

(* What the caller writes before the strings (a short table fits in the    *)
(* low byte of the length).                                                *)
Header(fmt, data) ==
    CASE fmt = "elf"   -> <<0>>
      [] fmt = "coff"  -> <<Len(data) + 4, 0, 0, 0>>
      [] fmt = "xcoff" -> <<0, 0, 0, Len(data) + 4>>

-------------------------------------------------------------------------------
Init ==
    /\ format \in Formats
    /\ strings = <<>> /\ offsets = <<>> /\ image = <<>>

(* insert_full: a string that is already present keeps its id.             *)
Intern(strs, s) == IF Contains(strs, s) THEN strs ELSE Append(strs, s)

(* add: panics (no step) once offsets were computed, but not after an      *)
(* empty table was written.                                                *)
Add(s) ==
    /\ offsets = <<>>
    /\ strings' = Intern(strings, s)
    /\ Len(strings') <= MaxStrings
    /\ UNCHANGED <<format, offsets, image>>

(* write, with the header its caller puts in front.                        *)
Write ==
    /\ offsets = <<>>
    /\ LET w == Written(strings, Base) IN
        /\ offsets' = [id \in DOMAIN strings |-> w.offsetOf[strings[id]]]
        /\ image' = Header(format, w.data) \o w.data
    /\ UNCHANGED <<format, strings>>

Next == Write \/ \E s \in String : Add(s)

Spec == Init /\ [][Next]_vars

-------------------------------------------------------------------------------
Pool == INSTANCE StringPool

(* The table keeps the promise of StringPool: interning is all add does,   *)
(* and write hands out offsets at which a reader finds the strings.        *)
ImplementsPool == Pool!Spec

(* Tail merging is optimal: only strings that are the tail of no other     *)
(* string take room, each with its terminator, whatever the order they     *)
(* were added in.                                                          *)
Maximal == {s \in ToSet(strings) :
                \A t \in ToSet(strings) : IsSuffix(s, t) => s = t}

TailsMerged ==
    offsets # <<>> =>
        Len(image) = Base + MapThenSumSet(LAMBDA s : Len(s) + 1, Maximal \ {<<>>})

(* size, which build/elf.rs uses to lay out a section before it writes it, *)
(* announces the very length that write produces.                          *)
SizeAgrees == offsets # <<>> => Size(strings, Base) = Len(image)
===============================================================================
