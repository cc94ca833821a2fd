------------------------------ MODULE ReadCache ------------------------------
(***************************************************************************)
(* ReadCache of read/read_cache.rs: a reader of a stream that keeps what   *)
(* it has read, so that it can hand out references as the reader of a      *)
(* byte slice does (ReadRef for &[u8], read/read_ref.rs).  Readers of a    *)
(* part of the stream (ReadCacheRange) share the cache.                    *)
(*                                                                         *)
(* The stream is external.  Any of its operations may fail, a read may     *)
(* return less than was asked for, the position is shared by all reads,    *)
(* and the stream may have become shorter since its length was memoized.   *)
(* A call holds the RefCell until it returns, so calls do not interleave;  *)
(* the reads of one call are steps of their own.                           *)
(***************************************************************************)
EXTENDS Integers, Sequences, FiniteSets

CONSTANTS
    Ops,          \* the operations that are called: bytes, until
    Bytes,        \* the values of a byte
    Delims,       \* the delimiters that are looked for
    FileLen,      \* the length of the stream at first
    Lengths,      \* what lengths the stream may be cut to
    Chunk,        \* how much is read at a time for a string (256)
    Limit,        \* the longest search for a delimiter (4096)
    Direct,       \* the reader of the whole stream
    Offsets,      \* the offsets of the readers of a part of the stream
    WindowSize,   \* and their size
    MaxEntries    \* bound on the entries of the cache

ASSUME ReadCacheAssumption ==
    /\ Ops \subseteq {"bytes", "until"}
    /\ FileLen \in Nat /\ Chunk \in Nat \ {0} /\ Limit \in Nat \ {0}
    /\ Lengths \subseteq 0..FileLen
    /\ Offsets \subseteq Nat /\ WindowSize \in Nat
    /\ \A o \in Offsets : o + WindowSize <= FileLen
    /\ Direct \notin Offsets /\ Delims \subseteq Bytes

VARIABLES
    file,      \* the bytes of the stream
    size,      \* how many of them it still has
    pos,       \* its position
    len,       \* the memoized length, -1 if there is none
    entries,   \* the maps bufs and strings
    loop,      \* the search for a delimiter that is going on
    reply      \* history: the last call and its result

vars == <<file, size, pos, len, entries, loop, reply>>

(* A reader is Direct, or the offset of a ReadCacheRange.                  *)
Readers == Offsets \cup {Direct}
Base(r) == IF r = Direct THEN 0 ELSE r

(* read_bytes_at(from, to - from) and read_bytes_at_until(from..to, delim) *)
Calls ==
    [op : Ops \ {"until"}, reader : Readers, from : 0..FileLen, to : 0..FileLen + 1]
    \cup
    [op : Ops \ {"bytes"}, reader : Readers, from : 0..FileLen, to : 0..FileLen + 1,
     delim : Delims]

From(c) == Base(c.reader) + c.from
To(c) == Base(c.reader) + c.to

(* Mutant: reads that begin at the same offset share an entry.             *)
Bug_Key(c) == IF c.op = "bytes" THEN <<"bytes", From(c)>>
              ELSE <<"until", From(c), c.delim>>

(* bufs is keyed by offset and size, strings by offset and delimiter.      *)
Key(c) == IF c.op = "bytes" THEN <<"bytes", From(c), To(c) - From(c)>>
          ELSE <<"until", From(c), c.delim>>

None == [call |-> <<>>, got |-> <<>>]

NoReply == [call |-> <<>>, ok |-> FALSE, data |-> <<>>, failed |-> FALSE]

Init ==
    /\ file \in [1..FileLen -> Bytes] /\ size = FileLen
    /\ pos = 0 /\ len = -1
    /\ entries = [k \in {} |-> <<>>]
    /\ loop = None
    /\ reply = NoReply

-------------------------------------------------------------------------------
(* What a call does, up to its result *)

Smaller(m, n) == IF m < n THEN m ELSE n

Cached == DOMAIN entries

(* Mutant: the cache forgets what it has read before.                      *)
Bug_Insert(k, data) == entries' = [x \in {k} |-> data]

Insert(k, data) ==
    entries' = [x \in Cached \cup {k} |-> IF x = k THEN data ELSE entries[x]]

Ok(c, data) ==
    reply' = [call |-> c, ok |-> TRUE, data |-> data, failed |-> FALSE]

(* failed: the stream is to blame, for it failed or has become shorter.    *)
Err(c, failed) ==
    reply' = [call |-> c, ok |-> FALSE, data |-> <<>>,
              failed |-> failed \/ size < FileLen]

(* Mutant: a reader of a part returns all that was found.                  *)
Bug_Deliver(c, data) == Ok(c, data)

(* A reader of a part refuses what does not end in it.                     *)
Deliver(c, data) ==
    IF c.reader # Direct /\ c.from + Len(data) > WindowSize THEN Err(c, FALSE)
    ELSE Ok(c, data)

(* A call that is answered without the cache.                              *)
Refused(c) ==
    c.op = "bytes" /\ c.from # c.to /\ c.reader # Direct /\ c.to > WindowSize

AnswerEmpty(c) ==
    /\ c.op = "bytes" /\ c.from = c.to
    /\ Ok(c, <<>>) /\ UNCHANGED <<pos, len, entries>>

Refuse(c) ==
    Refused(c) /\ Err(c, FALSE) /\ UNCHANGED <<pos, len, entries>>

Reaches(c) == ~(c.op = "bytes" /\ c.from = c.to) /\ ~Refused(c)

(* len: a stream that is asked for its length is left at its end.          *)
Length == IF len = -1 THEN size ELSE len
After == IF len = -1 THEN size ELSE pos

(* Where an operation that fails may leave the stream.                     *)
Adrift == {pos, size}

LengthFails(c) ==
    /\ Reaches(c) /\ len = -1
    /\ Err(c, TRUE) /\ pos' \in Adrift /\ UNCHANGED <<len, entries>>

(* range_in_bounds                                                         *)
InBounds(c) == From(c) <= To(c) /\ To(c) <= Length

OutOfBounds(c) ==
    /\ Reaches(c) /\ ~InBounds(c)
    /\ Err(c, FALSE) /\ len' = Length /\ pos' = After /\ UNCHANGED entries

Hit(c) ==
    /\ Reaches(c) /\ InBounds(c) /\ Key(c) \in Cached
    /\ Deliver(c, entries[Key(c)])
    /\ len' = Length /\ pos' = After /\ UNCHANGED entries

Miss(c) ==
    /\ Reaches(c) /\ InBounds(c) /\ Key(c) \notin Cached
    /\ Cardinality(Cached) < MaxEntries
    /\ len' = Length

(* The stream fails to seek or to read, or there is no memory.             *)
MissFails(c) ==
    Miss(c) /\ Err(c, TRUE) /\ pos' \in Adrift /\ UNCHANGED entries

(* read_exact                                                              *)
ReadExact(c) ==
    LET p == From(c) n == To(c) - From(c) IN
    /\ c.op = "bytes" /\ Miss(c) /\ p + n <= size
    /\ Insert(Key(c), SubSeq(file, p + 1, p + n))
    /\ Ok(c, SubSeq(file, p + 1, p + n))
    /\ pos' = p + n

BeginSearch(c) ==
    /\ c.op = "until" /\ Miss(c)
    /\ loop' = [call |-> c, got |-> <<>>]
    /\ pos' = From(c) /\ reply' = NoReply
    /\ UNCHANGED entries

-------------------------------------------------------------------------------
(* The search for a delimiter *)

(* Mutant: the search is given up one byte too early.                      *)
Bug_MaxCheck == Smaller(loop.call.to - loop.call.from, Limit - 1)

MaxCheck == Smaller(loop.call.to - loop.call.from, Limit)

Room == Smaller(Chunk, MaxCheck - Len(loop.got))

(* What one read returns: nothing at the end of the stream, and otherwise  *)
(* any part of what was asked for.                                         *)
Reads == LET most == Smaller(Room, size - pos) IN
         IF most <= 0 THEN {<<>>}
         ELSE {SubSeq(file, pos + 1, pos + n) : n \in 1..most}

Ends(e) == loop' = None /\ e

Holds(b, data) == \E i \in DOMAIN data : data[i] = b

(* The bytes of data before the first b.                                   *)
Before(b, data) ==
    SubSeq(data, 1, CHOOSE n \in 0..Len(data) - 1 :
                        /\ data[n + 1] = b /\ \A i \in 1..n : data[i] # b)

(* Mutant: the end of the stream is not noticed.                           *)
Bug_AtEnd(data) == FALSE

AtEnd(data) == data = <<>>

Found(data) == loop.got \o Before(loop.call.delim, data)

ReadString(data) ==
    LET c == loop.call IN
    \/ AtEnd(data) /\ Ends(Err(c, FALSE)) /\ UNCHANGED entries
    \/ /\ ~AtEnd(data) /\ Holds(c.delim, data)
       /\ Insert(Key(c), Found(data)) /\ Ends(Deliver(c, Found(data)))
    \/ /\ ~AtEnd(data) /\ ~Holds(c.delim, data)
       /\ Len(loop.got \o data) >= MaxCheck
       /\ Ends(Err(c, FALSE)) /\ UNCHANGED entries
    \/ /\ ~AtEnd(data) /\ ~Holds(c.delim, data)
       /\ Len(loop.got \o data) < MaxCheck
       /\ loop' = [loop EXCEPT !.got = @ \o data]
       /\ UNCHANGED <<entries, reply>>

Search ==
    /\ loop # None
    /\ \E data \in Reads : ReadString(data) /\ pos' = pos + Len(data)
    /\ UNCHANGED <<file, size, len>>

SearchFails ==
    /\ loop # None
    /\ Ends(Err(loop.call, TRUE)) /\ pos' \in Adrift
    /\ UNCHANGED <<file, size, len, entries>>

-------------------------------------------------------------------------------
Call(c) ==
    /\ loop = None
    /\ c.op = "bytes" => c.from <= c.to
    /\ \/ /\ \/ AnswerEmpty(c) \/ Refuse(c) \/ LengthFails(c) \/ OutOfBounds(c)
             \/ Hit(c) \/ MissFails(c) \/ ReadExact(c)
          /\ UNCHANGED loop
       \/ BeginSearch(c)
    /\ UNCHANGED <<file, size>>

(* clear takes the cache by &mut: no reference is left.                    *)
Clear ==
    /\ loop = None
    /\ entries' = [k \in {x \in Cached : x[1] = "until"} |-> entries[k]]
    /\ reply' = NoReply
    /\ UNCHANGED <<file, size, pos, len, loop>>

(* The stream becomes shorter, once.                                       *)
Shrink ==
    /\ size = FileLen /\ size' \in Lengths
    /\ reply' = NoReply
    /\ UNCHANGED <<file, pos, len, entries, loop>>

Next == (\E c \in Calls : Call(c)) \/ Search \/ SearchFails \/ Clear \/ Shrink

(* A call that has begun a search goes on reading.                         *)
Spec == Init /\ [][Next]_vars /\ WF_vars(Search)

-------------------------------------------------------------------------------
(* Properties *)

(* What ReadRef for &[u8] returns for the slice d.                         *)
NotFound == [ok |-> FALSE, data |-> <<>>]

SliceBytes(d, from, to) ==
    IF from = to THEN [ok |-> TRUE, data |-> <<>>]
    ELSE IF to > Len(d) THEN NotFound
    ELSE [ok |-> TRUE, data |-> SubSeq(d, from + 1, to)]

SliceUntil(d, from, to, b) ==
    IF from > to \/ to > Len(d) \/ ~Holds(b, SubSeq(d, from + 1, to)) THEN NotFound
    ELSE [ok |-> TRUE, data |-> Before(b, SubSeq(d, from + 1, to))]

View(r) == IF r = Direct THEN file ELSE SubSeq(file, r + 1, r + WindowSize)

Expected ==
    LET c == reply.call IN
    IF c.op = "bytes" THEN SliceBytes(View(c.reader), c.from, c.to)
    ELSE SliceUntil(View(c.reader), c.from, c.to, c.delim)

Replied(op) == reply.call # <<>> /\ reply.call.op = op

(* read_bytes_at gives what a slice gives, whatever was read before, how   *)
(* the stream was read and where it was left; it refuses what a slice      *)
(* refuses, and nothing else unless the stream is to blame.                *)
BytesAgree ==
    Replied("bytes") =>
        IF reply.ok THEN Expected = [ok |-> TRUE, data |-> reply.data]
        ELSE reply.failed \/ ~Expected.ok

(* What read_bytes_at_until returns begins where it was asked to, is what  *)
(* comes before the next delimiter of the stream, and ends in the part     *)
(* that the reader is for.                                                 *)
UntilSound ==
    Replied("until") /\ reply.ok =>
        LET c == reply.call IN
        /\ SliceUntil(file, From(c), FileLen, c.delim)
               = [ok |-> TRUE, data |-> reply.data]
        /\ c.from + Len(reply.data) <= Len(View(c.reader))

(* It refuses what a slice refuses, strings that are longer than the limit *)
(* of the search, and nothing else unless the stream is to blame.          *)
UntilRefuses ==
    Replied("until") /\ ~reply.ok =>
        reply.failed \/ ~Expected.ok \/ Len(Expected.data) >= Limit

(* "Entries in the cache are never removed": references to them outlive    *)
(* the call.  Only clear, which nothing outlives, removes any.             *)
EntriesStay ==
    [][Clear \/ \A k \in Cached : k \in DOMAIN entries' /\ entries'[k] = entries[k]]_vars

(* A search ends, though the stream may end before the range does.         *)
SearchEnds == loop # None ~> loop = None

(* "Returns an error if the range is out of bounds or the delimiter is not *)
(* found in the range."                                                    *)
FoundInRange == Replied("until") /\ reply.ok => Expected.ok
===============================================================================
