--------------------------- MODULE ReadCacheProofs ---------------------------
(***************************************************************************)
(* ReadCache hands out references to its entries and extends their         *)
(* lifetime ("This is OK because we never mutate or remove entries").      *)
(* This module proves that it never does, for every stream, every set of   *)
(* readers and every way the stream answers or fails.                      *)
(*                                                                         *)
(* Insert replaces the entry of a key if there is one.  A read_exact does  *)
(* not, for the key was missing when the call began and the call is one    *)
(* step; a search takes many, and what is needed is that its key is still  *)
(* missing when it ends.                                                   *)
(*                                                                         *)
(* It also proves that the reader returns what a reader of a byte slice    *)
(* does, and refuses what that refuses.  The calls share the entries, so   *)
(* the invariant says of every entry what of the stream it holds, and of   *)
(* the bytes that a search has gathered so far the same.                   *)
(***************************************************************************)
EXTENDS ReadCache, Numbers, SequenceTheorems

(* The key of a search that is going on is in no entry.                    *)
Pending ==
    /\ loop \in [call : Calls \cup {<<>>}, got : {loop.got}]
    /\ loop # None => Key(loop.call) \notin Cached

Kept == \A k \in Cached : k \in DOMAIN entries' /\ entries'[k] = entries[k]

(* A key that is missing is added and the other entries are kept.          *)
LEMMA InsertKeeps ==
    ASSUME NEW k, NEW data, k \notin Cached, Insert(k, data)
    PROVE  Kept
BY DEF Insert, Kept, Cached

LEMMA InitPending == Init => Pending
BY DEF Init, Pending, None

(* The steps of a call that keep the entries or insert one.                *)
LEMMA CallKeeps ==
    ASSUME NEW c \in Calls, Call(c)
    PROVE  Kept /\ (Pending => Pending')
<1>1. CASE BeginSearch(c) /\ loop = None
  <2>1. loop' = [call |-> c, got |-> <<>>] /\ entries' = entries
    BY <1>1 DEF BeginSearch
  <2>2. Key(c) \notin Cached
    BY <1>1 DEF BeginSearch, Miss
  <2>3. loop'.call = c
    BY <2>1
  <2>4. Key(loop'.call) \notin DOMAIN entries'
    BY <2>1, <2>2, <2>3 DEF Cached
  <2>5. Kept
    BY <2>1 DEF Kept, Cached
  <2>6. loop' \in [call : Calls \cup {<<>>}, got : {loop'.got}]
    BY <2>1
  <2>7. Pending'
    BY <2>4, <2>6 DEF Pending, Cached, Key, From, To, Base
  <2> QED BY <2>5, <2>7
<1>2. CASE UNCHANGED loop /\ loop = None /\ UNCHANGED entries
  BY <1>2 DEF Kept, Cached, Pending, None
<1>3. CASE UNCHANGED loop /\ loop = None /\ ReadExact(c)
  <2>1. Kept
    <3>1. Key(c) \notin Cached
      BY <1>3 DEF ReadExact, Miss
    <3>2. \E data : Insert(Key(c), data)
      BY <1>3 DEF ReadExact
    <3> QED BY <3>1, <3>2, InsertKeeps
  <2>2. Pending => Pending'
    BY <1>3 DEF Pending, None
  <2> QED BY <2>1, <2>2
<1>4. \/ BeginSearch(c) /\ loop = None
      \/ UNCHANGED loop /\ loop = None /\ UNCHANGED entries
      \/ UNCHANGED loop /\ loop = None /\ ReadExact(c)
  BY DEF Call, AnswerEmpty, Refuse, LengthFails, OutOfBounds, Hit, MissFails
<1> QED BY <1>1, <1>2, <1>3, <1>4

LEMMA SearchKeeps ==
    ASSUME Pending, Search
    PROVE  Kept /\ Pending'
<1> DEFINE c == loop.call
<1>1. loop # None /\ Key(c) \notin Cached
  BY DEF Search, Pending
<1>2. PICK data \in Reads : ReadString(data)
  BY DEF Search
<1>3. CASE loop' = None /\ UNCHANGED entries
  BY <1>3 DEF Kept, Cached, Pending, None
<1>4. CASE loop' = None /\ Insert(Key(c), Found(data))
  <2>1. Kept
    BY <1>1, <1>4, InsertKeeps
  <2>2. Pending'
    BY <1>4 DEF Pending, None
  <2> QED BY <2>1, <2>2
<1>5. CASE loop' = [loop EXCEPT !.got = @ \o data] /\ UNCHANGED entries
  <2>1. loop'.call = loop.call
    BY <1>5 DEF Pending
  <2>2. loop' \in [call : Calls \cup {<<>>}, got : {loop'.got}]
    BY <1>5 DEF Pending
  <2>3. Key(loop'.call) \notin DOMAIN entries'
    BY <2>1, <1>1, <1>5 DEF Cached
  <2>4. Pending'
    BY <2>2, <2>3 DEF Pending, Cached, Key, From, To, Base
  <2> QED BY <2>4, <1>5 DEF Kept, Cached
<1> QED BY <1>2, <1>3, <1>4, <1>5 DEF ReadString, Ends

(* One step of the reader.                                                 *)
LEMMA Step ==
    ASSUME Pending, [Next]_vars
    PROVE  Pending' /\ (Clear \/ Kept)
<1>1. CASE \E c \in Calls : Call(c)
  BY <1>1, CallKeeps
<1>2. CASE Search
  BY <1>2, SearchKeeps
<1>3. CASE SearchFails
  BY <1>3 DEF SearchFails, Ends, Pending, None, Kept, Cached
<1>4. CASE Clear
  BY <1>4 DEF Clear, Pending, None
<1>5. CASE Shrink
  BY <1>5 DEF Shrink, Pending, None, Kept, Cached, Key, From, To, Base
<1>6. CASE UNCHANGED vars
  BY <1>6 DEF vars, Pending, None, Kept, Cached, Key, From, To, Base
<1> QED BY <1>1, <1>2, <1>3, <1>4, <1>5, <1>6 DEF Next

(* The entries that references point to are neither changed nor removed,   *)
(* until clear is called, which no reference outlives.                     *)
THEOREM ReferencesStay == Spec => EntriesStay
<1>1. Init => Pending
  BY InitPending
<1>2. Pending /\ [Next]_vars => Pending'
  BY Step
<1>3. Pending /\ [Next]_vars =>
          [Clear \/ \A k \in Cached :
                        k \in DOMAIN entries' /\ entries'[k] = entries[k]]_vars
  BY Step DEF Kept
<1> QED BY <1>1, <1>2, <1>3, PTL DEF Spec, EntriesStay
-------------------------------------------------------------------------------
(* What the slice of a reader holds *)

(* data is what the stream f holds at o, up to the next b.                 *)
IsString(f, o, b, data) ==
    /\ data \in Seq(Bytes) /\ o + Len(data) < FileLen
    /\ f[o + Len(data) + 1] = b
    /\ \A i \in 1..Len(data) : data[i] = f[o + i] /\ data[i] # b

(* What a call of either kind consists of.                                 *)
LEMMA CallTypes ==
    ASSUME NEW c \in Calls
    PROVE  /\ c.op \in {"bytes", "until"} /\ c.reader \in Readers
           /\ c.from \in 0..FileLen /\ c.to \in 0..FileLen + 1
           /\ c.op = "until" => c.delim \in Delims
           /\ Base(c.reader) \in Nat
           /\ From(c) = Base(c.reader) + c.from /\ To(c) = Base(c.reader) + c.to
           /\ From(c) \in Nat /\ To(c) \in Nat
<1>1. /\ c.op \in {"bytes", "until"} /\ c.reader \in Readers
      /\ c.from \in 0..FileLen /\ c.to \in 0..FileLen + 1
      /\ c.op = "until" => c.delim \in Delims
  BY ReadCacheAssumption DEF Calls
<1>2. Base(c.reader) \in Nat
  BY <1>1, ReadCacheAssumption DEF Base, Readers
<1> QED BY <1>1, <1>2, ReadCacheAssumption DEF From, To

(* A part of a sequence, counted from 0 as offsets are.                    *)
LEMMA RangeIs ==
    ASSUME NEW S, NEW s \in Seq(S), NEW m \in 0..Len(s), NEW n \in m..Len(s)
    PROVE  /\ SubSeq(s, m + 1, n) \in Seq(S) /\ Len(SubSeq(s, m + 1, n)) = n - m
           /\ \A i \in 1..n - m : SubSeq(s, m + 1, n)[i] = s[m + i]
<1> DEFINE t == SubSeq(s, m + 1, n)
<1>1. Len(s) \in Nat /\ \A i \in m + 1..n : s[i] \in S
  OBVIOUS
<1>2. /\ t \in Seq(S) /\ Len(t) = IF m + 1 <= n THEN n - (m + 1) + 1 ELSE 0
      /\ \A i \in 1..n - (m + 1) + 1 : t[i] = s[m + 1 + i - 1]
  BY <1>1, SubSeqProperties
<1> HIDE DEF t
<1>3. t \in Seq(S) /\ Len(t) = n - m /\ \A i \in 1..n - m : t[i] = s[m + i]
  BY <1>2, <1>1
<1> QED BY <1>3 DEF t

(* It holds b if one of the elements of the sequence there is b.           *)
LEMMA HoldsRange ==
    ASSUME NEW S, NEW s \in Seq(S), NEW b, NEW m \in 0..Len(s), NEW n \in m..Len(s)
    PROVE  Holds(b, SubSeq(s, m + 1, n)) <=> \E i \in m + 1..n : s[i] = b
<1> DEFINE t == SubSeq(s, m + 1, n)
<1>1. Len(s) \in Nat
  OBVIOUS
<1>2. t \in Seq(S) /\ Len(t) = n - m /\ \A i \in 1..n - m : t[i] = s[m + i]
  BY RangeIs
<1> HIDE DEF t
<1>3. DOMAIN t = 1..n - m
  BY <1>2, LenProperties
<1>4. ASSUME NEW i \in DOMAIN t, t[i] = b PROVE \E j \in m + 1..n : s[j] = b
  <2>1. m + i \in m + 1..n /\ s[m + i] = b
    BY <1>1, <1>2, <1>3, <1>4
  <2> QED BY <2>1
<1>5. ASSUME NEW j \in m + 1..n, s[j] = b PROVE \E i \in DOMAIN t : t[i] = b
  <2>1. j - m \in 1..n - m /\ m + (j - m) = j
    BY <1>1
  <2> QED BY <2>1, <1>2, <1>3, <1>5
<1>6. Holds(b, t) <=> \E j \in m + 1..n : s[j] = b
  BY <1>4, <1>5 DEF Holds
<1> QED BY <1>6 DEF t

(* Before stops at the first b.                                            *)
LEMMA BeforeIs ==
    ASSUME NEW S, NEW s \in Seq(S), NEW b, NEW n \in 0..Len(s) - 1,
           s[n + 1] = b, \A i \in 1..n : s[i] # b
    PROVE  Before(b, s) = SubSeq(s, 1, n)
<1> DEFINE P(k) == s[k + 1] = b /\ \A i \in 1..k : s[i] # b
<1>1. Len(s) \in Nat
  OBVIOUS
<1>2. ASSUME NEW k \in 0..Len(s) - 1, P(k) PROVE k = n
  <2>1. CASE k < n
    <3>1. k + 1 \in 1..n
      BY <2>1, <1>1
    <3> QED BY <3>1, <1>2
  <2>2. CASE n < k
    <3>1. n + 1 \in 1..k
      BY <2>2, <1>1
    <3> QED BY <3>1, <1>2
  <2> QED BY <2>1, <2>2, <1>1
<1>3. P(n)
  OBVIOUS
<1> HIDE DEF P
<1>4. (CHOOSE k \in 0..Len(s) - 1 : P(k)) = n
  BY <1>2, <1>3
<1> QED BY <1>4 DEF Before, P

(* A sequence that holds b holds a first one.                              *)
LEMMA FirstOne ==
    ASSUME NEW S, NEW s \in Seq(S), NEW b, Holds(b, s)
    PROVE  \E n \in 0..Len(s) - 1 : s[n + 1] = b /\ \A i \in 1..n : s[i] # b
<1> DEFINE T == {i \in 1..Len(s) : s[i] = b}
<1>1. Len(s) \in Nat /\ DOMAIN s = 1..Len(s)
  OBVIOUS
<1>2. T # {} /\ T \in SUBSET Nat
  BY <1>1 DEF Holds
<1>3. PICK x \in T : \A y \in T : x <= y
  BY <1>2, LeastNat
<1>4. x - 1 \in 0..Len(s) - 1 /\ s[(x - 1) + 1] = b
  BY <1>1, <1>3
<1>5. ASSUME NEW i \in 1..x - 1 PROVE s[i] # b
  <2>1. i \in 1..Len(s) /\ ~(x <= i)
    BY <1>1, <1>3
  <2> QED BY <2>1, <1>3
<1> QED BY <1>4, <1>5

-------------------------------------------------------------------------------
(* The replies that agree with a slice *)

Types ==
    /\ file \in [1..FileLen -> Bytes] /\ size \in 0..FileLen /\ pos \in 0..FileLen
    /\ len = -1 \/ len \in size..FileLen

(* r says of its call what UntilSound, UntilRefuses and BytesAgree say of  *)
(* the last reply.                                                         *)
Good(r) ==
    LET c == r.call
        v == View(c.reader)
        b == SliceBytes(v, c.from, c.to)
        u == SliceUntil(v, c.from, c.to, c.delim)
    IN
    /\ c.op = "bytes" =>
           IF r.ok THEN b = [ok |-> TRUE, data |-> r.data] ELSE r.failed \/ ~b.ok
    /\ c.op = "until" /\ r.ok =>
           /\ SliceUntil(file, From(c), FileLen, c.delim) = [ok |-> TRUE, data |-> r.data]
           /\ c.from + Len(r.data) <= Len(v)
    /\ c.op = "until" /\ ~r.ok => r.failed \/ ~u.ok \/ Len(u.data) >= Limit

Agree == reply.call # <<>> => Good(reply)

LEMMA AgreeIs == Agree => BytesAgree /\ UntilSound /\ UntilRefuses
BY DEF Agree, Good, BytesAgree, UntilSound, UntilRefuses, Expected, Replied

LEMMA FileIsSeq == Types => file \in Seq(Bytes) /\ Len(file) = FileLen
BY ReadCacheAssumption DEF Types

(* A reader of a part has the bytes of the stream from its offset on.      *)
LEMMA ViewIs ==
    ASSUME Types, NEW r \in Readers
    PROVE  /\ View(r) \in Seq(Bytes) /\ Len(View(r)) \in Nat /\ Base(r) \in Nat
           /\ Base(r) + Len(View(r)) <= FileLen
           /\ Len(View(r)) = IF r = Direct THEN FileLen ELSE WindowSize
           /\ \A i \in 1..Len(View(r)) : View(r)[i] = file[Base(r) + i]
<1>1. file \in Seq(Bytes) /\ Len(file) = FileLen /\ FileLen \in Nat
  BY FileIsSeq, ReadCacheAssumption
<1>2. CASE r = Direct
  BY <1>1, <1>2 DEF View, Base
<1>3. CASE r # Direct
  <2>1. r \in Nat /\ WindowSize \in Nat /\ r + WindowSize <= FileLen
    BY <1>3, ReadCacheAssumption DEF Readers
  <2>2. r \in 0..Len(file) /\ r + WindowSize \in r..Len(file)
    BY <1>1, <2>1
  <2>3. /\ SubSeq(file, r + 1, r + WindowSize) \in Seq(Bytes)
        /\ Len(SubSeq(file, r + 1, r + WindowSize)) = (r + WindowSize) - r
        /\ \A i \in 1..(r + WindowSize) - r :
               SubSeq(file, r + 1, r + WindowSize)[i] = file[r + i]
    BY <1>1, <2>2, RangeIs
  <2> QED BY <1>3, <2>1, <2>3 DEF View, Base
<1> QED BY <1>2, <1>3

(* What a call asks for, in the slice of its reader and in the stream.     *)
LEMMA ViewRange ==
    ASSUME Types, NEW c \in Calls, c.from <= c.to, c.to <= Len(View(c.reader))
    PROVE  LET s == SubSeq(View(c.reader), c.from + 1, c.to) IN
           /\ To(c) - From(c) = c.to - c.from /\ To(c) <= FileLen
           /\ s \in Seq(Bytes) /\ Len(s) = c.to - c.from
           /\ \A i \in 1..c.to - c.from : s[i] = file[From(c) + i]
<1> DEFINE v == View(c.reader)
           s == SubSeq(v, c.from + 1, c.to)
           B == Base(c.reader)
<1>1. /\ v \in Seq(Bytes) /\ Len(v) \in Nat /\ B \in Nat /\ B + Len(v) <= FileLen
  BY CallTypes, ViewIs
<1>2. \A i \in 1..Len(v) : v[i] = file[B + i]
  BY CallTypes, ViewIs
<1>3. /\ c.from \in Nat /\ c.to \in Nat /\ FileLen \in Nat
      /\ From(c) = B + c.from /\ To(c) = B + c.to
  BY CallTypes, ReadCacheAssumption
<1> DEFINE m == c.from
           n == c.to
<1>4. m <= n /\ n <= Len(v)
  OBVIOUS
<1> HIDE DEF v, B, m, n
<1>5. m \in 0..Len(v) /\ n \in m..Len(v)
  BY <1>1, <1>3, <1>4 DEF m, n
<1>6. /\ SubSeq(v, m + 1, n) \in Seq(Bytes) /\ Len(SubSeq(v, m + 1, n)) = n - m
      /\ \A i \in 1..n - m : SubSeq(v, m + 1, n)[i] = v[m + i]
  <2>1. v \in Seq(Bytes)
    BY <1>1
  <2> QED BY <1>5, <2>1, RangeIs
<1>7. /\ s \in Seq(Bytes) /\ Len(s) = n - m /\ \A i \in 1..n - m : s[i] = v[m + i]
  BY <1>6 DEF m, n
<1> HIDE DEF s
<1>8. ASSUME NEW i \in 1..n - m PROVE s[i] = file[From(c) + i]
  <2>1. m + i \in 1..Len(v) /\ B + (m + i) = From(c) + i
    BY <1>1, <1>3, <1>5, SMTT(30), ZenonT(30) DEF m, n
  <2>2. v[m + i] = file[B + (m + i)]
    BY <1>2, <2>1
  <2>3. s[i] = v[m + i]
    BY <1>7
  <2> QED BY <2>1, <2>2, <2>3
<1>9. To(c) - From(c) = c.to - c.from /\ To(c) <= FileLen
  BY <1>1, <1>3, <1>4 DEF m, n
<1> QED BY <1>7, <1>8, <1>9 DEF s, v, m, n

LEMMA EmptyGood ==
    ASSUME NEW c \in Calls, c.op = "bytes", c.from = c.to
    PROVE  Good([call |-> c, ok |-> TRUE, data |-> <<>>, failed |-> FALSE])
BY DEF Good, SliceBytes

LEMMA FailedGood ==
    ASSUME NEW c, NEW data
    PROVE  Good([call |-> c, ok |-> FALSE, data |-> data, failed |-> TRUE])
BY DEF Good

LEMMA BytesGood ==
    ASSUME Types, NEW c \in Calls, c.op = "bytes", c.from < c.to,
           c.to <= Len(View(c.reader))
    PROVE  Good([call |-> c, ok |-> TRUE,
                 data |-> SubSeq(file, From(c) + 1, To(c)), failed |-> FALSE])
<1> DEFINE v == View(c.reader)
           s == SubSeq(v, c.from + 1, c.to)
           t == SubSeq(file, From(c) + 1, To(c))
<1>1. /\ c.from \in Nat /\ c.to \in Nat /\ FileLen \in Nat
      /\ From(c) \in Nat /\ To(c) \in Nat
  BY CallTypes, ReadCacheAssumption
<1>2. Len(v) \in Nat /\ c.to <= Len(v) /\ c.from <= c.to /\ c.from # c.to
  BY <1>1, CallTypes, ViewIs
<1>3. /\ To(c) - From(c) = c.to - c.from /\ To(c) <= FileLen
      /\ s \in Seq(Bytes) /\ Len(s) = c.to - c.from
      /\ \A i \in 1..c.to - c.from : s[i] = file[From(c) + i]
  BY <1>2, ViewRange
<1>4. /\ t \in Seq(Bytes) /\ Len(t) = To(c) - From(c)
      /\ \A i \in 1..To(c) - From(c) : t[i] = file[From(c) + i]
  <2>1. file \in Seq(Bytes) /\ Len(file) = FileLen
    BY FileIsSeq
  <2>2. From(c) \in 0..Len(file) /\ To(c) \in From(c)..Len(file)
    BY <1>1, <1>2, <1>3, <2>1
  <2> QED BY <2>1, <2>2, RangeIs
<1> HIDE DEF s, t
<1>5. s = t
  <2>1. \A i \in 1..Len(s) : s[i] = t[i]
    BY <1>3, <1>4
  <2> QED BY <1>3, <1>4, <2>1, SeqEqual
<1> HIDE DEF v
<1>6. SliceBytes(v, c.from, c.to) = [ok |-> TRUE, data |-> s]
  <2>1. c.from # c.to /\ ~(c.to > Len(v))
    BY <1>1, <1>2
  <2> QED BY <2>1 DEF SliceBytes, s
<1> QED BY <1>5, <1>6 DEF Good, v, t

(* The string that begins at the offset of the call is what the slice of   *)
(* the whole stream gives.                                                 *)
LEMMA StringGood ==
    ASSUME Types, NEW c \in Calls, c.op = "until", NEW data,
           IsString(file, From(c), c.delim, data),
           c.from + Len(data) <= Len(View(c.reader))
    PROVE  Good([call |-> c, ok |-> TRUE, data |-> data, failed |-> FALSE])
<1> DEFINE o == From(c)
           b == c.delim
           w == SubSeq(file, o + 1, FileLen)
           n == Len(data)
<1>1. file \in Seq(Bytes) /\ Len(file) = FileLen /\ FileLen \in Nat /\ o \in Nat
  BY FileIsSeq, CallTypes, ReadCacheAssumption
<1>2. /\ data \in Seq(Bytes) /\ n \in Nat /\ o + n < FileLen /\ file[o + n + 1] = b
      /\ \A i \in 1..n : data[i] = file[o + i] /\ data[i] # b
  BY DEF IsString
<1> HIDE DEF o, b, n
<1>3. o \in 0..Len(file) /\ FileLen \in o..Len(file)
  BY <1>1, <1>2
<1>4. /\ w \in Seq(Bytes) /\ Len(w) = FileLen - o
      /\ \A i \in 1..FileLen - o : w[i] = file[o + i]
  BY <1>1, <1>3, RangeIs
<1>5. Holds(b, w)
  <2>1. o + n + 1 \in o + 1..FileLen
    BY <1>1, <1>2
  <2> QED BY <1>1, <1>2, <1>3, <2>1, HoldsRange
<1> HIDE DEF w
<1>6. n \in 0..Len(w) - 1 /\ w[n + 1] = b /\ \A i \in 1..n : w[i] # b
  <2>1. n + 1 \in 1..FileLen - o /\ o + (n + 1) = o + n + 1
    BY <1>1, <1>2
  <2>2. ASSUME NEW i \in 1..n PROVE w[i] # b
    <3>1. i \in 1..FileLen - o
      BY <1>1, <1>2
    <3> QED BY <1>2, <1>4, <3>1
  <2> QED BY <1>1, <1>2, <1>4, <2>1, <2>2
<1>7. Before(b, w) = SubSeq(w, 1, n)
  BY <1>4, <1>6, BeforeIs
<1>8. SubSeq(w, 1, n) = data
  <2> DEFINE u == SubSeq(w, 0 + 1, n)
  <2>1. 0 \in 0..Len(w) /\ n \in 0..Len(w)
    BY <1>1, <1>2, <1>4
  <2>2. u \in Seq(Bytes) /\ Len(u) = n - 0 /\ \A i \in 1..n - 0 : u[i] = w[0 + i]
    BY <1>4, <2>1, RangeIs
  <2> HIDE DEF u
  <2>3. ASSUME NEW i \in 1..n PROVE u[i] = data[i]
    <3>1. i \in 1..FileLen - o /\ i \in 1..n - 0 /\ 0 + i = i
      BY <1>1, <1>2
    <3> QED BY <1>2, <1>4, <2>2, <3>1
  <2>4. u = data
    BY <1>2, <2>2, <2>3, SeqEqual DEF n
  <2> QED BY <2>4 DEF u
<1>9. SliceUntil(file, o, FileLen, b) = [ok |-> TRUE, data |-> data]
  <2>1. ~(o > FileLen \/ FileLen > Len(file) \/ ~Holds(b, SubSeq(file, o + 1, FileLen)))
    BY <1>1, <1>2, <1>5 DEF w
  <2>2. SliceUntil(file, o, FileLen, b)
            = [ok |-> TRUE, data |-> Before(b, SubSeq(file, o + 1, FileLen))]
    BY <2>1 DEF SliceUntil
  <2>3. Before(b, SubSeq(file, o + 1, FileLen)) = data
    BY <1>7, <1>8 DEF w
  <2> QED BY <2>2, <2>3
<1> QED BY <1>9 DEF Good, o, b

(* A slice finds a delimiter after the bytes that hold none, if it finds   *)
(* any.                                                                    *)
LEMMA FoundAfter ==
    ASSUME Types, NEW c \in Calls, c.op = "until", NEW n \in Nat,
           \A i \in 1..n : From(c) + i <= FileLen => file[From(c) + i] # c.delim,
           SliceUntil(View(c.reader), c.from, c.to, c.delim).ok
    PROVE  /\ c.from <= c.to /\ c.to <= Len(View(c.reader)) /\ n < c.to - c.from
           /\ Len(SliceUntil(View(c.reader), c.from, c.to, c.delim).data) \in Nat
           /\ Len(SliceUntil(View(c.reader), c.from, c.to, c.delim).data) >= n
<1> DEFINE v == View(c.reader)
           e == c.delim
           t == SubSeq(v, c.from + 1, c.to)
<1>1. /\ c.from \in Nat /\ c.to \in Nat /\ FileLen \in Nat
      /\ From(c) \in Nat /\ To(c) \in Nat /\ Len(v) \in Nat
  BY CallTypes, ViewIs, ReadCacheAssumption
<1>2. SliceUntil(v, c.from, c.to, e).ok
  OBVIOUS
<1>3. \A i \in 1..n : From(c) + i <= FileLen => file[From(c) + i] # e
  OBVIOUS
<1> HIDE DEF v, e
<1>4. ~(c.from > c.to \/ c.to > Len(v) \/ ~Holds(e, t))
  BY <1>2 DEF SliceUntil, NotFound
<1>5. SliceUntil(v, c.from, c.to, e).data = Before(e, t)
  BY <1>4 DEF SliceUntil
<1>6. c.from <= c.to /\ c.to <= Len(v) /\ Holds(e, t)
  BY <1>1, <1>4
<1>7. /\ To(c) - From(c) = c.to - c.from /\ To(c) <= FileLen
      /\ t \in Seq(Bytes) /\ Len(t) = c.to - c.from
      /\ \A i \in 1..c.to - c.from : t[i] = file[From(c) + i]
  BY <1>6, ViewRange DEF v
<1> HIDE DEF t
<1>8. \E k \in 0..Len(t) - 1 : t[k + 1] = e /\ \A i \in 1..k : t[i] # e
  <2>1. Holds(e, t) /\ t \in Seq(Bytes)
    BY <1>6, <1>7
  <2> QED BY <2>1, FirstOne
<1>9. PICK k \in 0..Len(t) - 1 : t[k + 1] = e /\ \A i \in 1..k : t[i] # e
  BY <1>8
<1>10. k \in Nat /\ k < c.to - c.from
  BY <1>1, <1>6, <1>7
<1>11. n <= k
  <2> SUFFICES ASSUME k < n PROVE FALSE
    BY <1>10
  <2>1. /\ k + 1 \in 1..n /\ k + 1 \in 1..c.to - c.from
        /\ From(c) + (k + 1) <= FileLen
    BY <1>1, <1>6, <1>7, <1>10
  <2>2. t[k + 1] = file[From(c) + (k + 1)]
    BY <1>7, <2>1
  <2>3. file[From(c) + (k + 1)] # e
    BY <1>3, <2>1
  <2> QED BY <1>9, <2>2, <2>3
<1>12. Before(e, t) = SubSeq(t, 1, k)
  <2>1. t \in Seq(Bytes)
    BY <1>7
  <2> QED BY <1>9, <2>1, BeforeIs
<1>13. Len(SubSeq(t, 1, k)) = k
  <2>1. 0 \in 0..Len(t) /\ k \in 0..Len(t) /\ t \in Seq(Bytes)
    BY <1>1, <1>6, <1>7, <1>10
  <2>2. Len(SubSeq(t, 0 + 1, k)) = k - 0
    BY <2>1, RangeIs
  <2> QED BY <2>2, <1>10
<1>14. n < c.to - c.from
  BY <1>1, <1>10, <1>11
<1>15. /\ Len(SliceUntil(v, c.from, c.to, e).data) \in Nat
       /\ Len(SliceUntil(v, c.from, c.to, e).data) >= n
  BY <1>5, <1>10, <1>11, <1>12, <1>13
<1> QED BY <1>6, <1>14, <1>15 DEF v, e

LEMMA RefusedUntil ==
    ASSUME Types, NEW c \in Calls, c.op = "until", NEW n \in Nat, NEW data,
           \A i \in 1..n : From(c) + i <= FileLen => file[From(c) + i] # c.delim,
           \/ c.from > c.to \/ c.to > Len(View(c.reader))
           \/ n >= c.to - c.from \/ n >= Limit
    PROVE  Good([call |-> c, ok |-> FALSE, data |-> data, failed |-> FALSE])
<1> DEFINE u == SliceUntil(View(c.reader), c.from, c.to, c.delim)
<1>1. c.from \in Int /\ c.to \in Int /\ Limit \in Int
  BY CallTypes, ReadCacheAssumption
<1>2. Len(View(c.reader)) \in Nat
  BY CallTypes, ViewIs
<1>3. ASSUME u.ok PROVE Len(u.data) >= Limit
  <2>1. /\ c.from <= c.to /\ c.to <= Len(View(c.reader)) /\ n < c.to - c.from
        /\ Len(u.data) \in Nat /\ Len(u.data) >= n
    BY <1>3, FoundAfter
  <2>2. n >= Limit
    <3> HIDE DEF u
    <3> QED BY <1>1, <1>2, <2>1
  <2> HIDE DEF u
  <2> QED BY <1>1, <2>1, <2>2
<1> QED BY <1>3 DEF Good

-------------------------------------------------------------------------------
(* What the cache holds, and what a search has gathered *)

(* An entry holds the bytes of the stream that its key says.               *)
Held ==
    /\ \A o, n \in Nat : <<"bytes", o, n>> \in Cached =>
           entries[<<"bytes", o, n>>] = SubSeq(file, o + 1, o + n)
    /\ \A o \in Nat, b \in Delims : <<"until", o, b>> \in Cached =>
           IsString(file, o, b, entries[<<"until", o, b>>])

(* A search has read on from the offset of its call and has not met the    *)
(* delimiter; it has not read all that it may, unless that is nothing.     *)
Searching ==
    LET c == loop.call IN
    loop # None =>
        /\ c \in Calls /\ c.op = "until" /\ c.from <= c.to /\ To(c) <= FileLen
        /\ loop.got \in Seq(Bytes) /\ pos = From(c) + Len(loop.got)
        /\ loop.got = <<>> \/ Len(loop.got) < MaxCheck
        /\ \A i \in 1..Len(loop.got) :
               loop.got[i] = file[From(c) + i] /\ loop.got[i] # c.delim

IInv == Types /\ Pending /\ Held /\ Searching /\ Agree

LEMMA ReplyGood ==
    ASSUME NEW r, Good(r), reply' = r, file' = file
    PROVE  Agree'
<1> DEFINE c == r.call
           v == View(c.reader)
           b == SliceBytes(v, c.from, c.to)
           u == SliceUntil(v, c.from, c.to, c.delim)
           w == SliceUntil(file, From(c), FileLen, c.delim)
<1>1. v' = v
  BY DEF View
<1>2. b' = b
  BY <1>1 DEF SliceBytes, NotFound
<1>3. u' = u /\ w' = w
  BY <1>1 DEF SliceUntil, NotFound, Holds, Before, From, Base
<1>4. reply'.call # <<>> => Good(r)'
  <2> HIDE DEF b, u, v, w
  <2> QED BY <1>1, <1>2, <1>3 DEF Good, b, u, v, w
<1> QED BY <1>4 DEF Agree

LEMMA AgreeKept == Agree /\ file' = file /\ reply' = reply => Agree'
<1> SUFFICES ASSUME Agree, file' = file, reply' = reply PROVE Agree'
  OBVIOUS
<1>1. CASE reply.call = <<>>
  BY <1>1 DEF Agree
<1>2. CASE reply.call # <<>>
  <2>1. Good(reply)
    BY <1>2 DEF Agree
  <2> QED BY <2>1, ReplyGood
<1> QED BY <1>1, <1>2

LEMMA NoReplyGood == reply' = NoReply => Agree'
BY DEF Agree, NoReply

LEMMA FailedAgrees ==
    ASSUME NEW c, Err(c, TRUE), file' = file
    PROVE  Agree'
<1> DEFINE r == [call |-> c, ok |-> FALSE, data |-> <<>>, failed |-> TRUE]
<1>1. reply' = r
  BY DEF Err
<1>2. Good(r)
  BY FailedGood
<1> HIDE DEF r
<1> QED BY <1>1, <1>2, ReplyGood

(* A refusal may be wrong if the stream has become shorter.                *)
LEMMA ErrAgrees ==
    ASSUME Types, NEW c, Err(c, FALSE), file' = file,
           size = FileLen =>
               Good([call |-> c, ok |-> FALSE, data |-> <<>>, failed |-> FALSE])
    PROVE  Agree'
<1>1. CASE size = FileLen
  <2> DEFINE r == [call |-> c, ok |-> FALSE, data |-> <<>>, failed |-> FALSE]
  <2>0. ~(size < FileLen)
    BY <1>1, ReadCacheAssumption
  <2>1. reply' = r
    BY <2>0 DEF Err
  <2>2. Good(r)
    BY <1>1
  <2> HIDE DEF r
  <2> QED BY <2>1, <2>2, ReplyGood
<1>2. CASE size # FileLen
  <2>1. size < FileLen
    BY <1>2, ReadCacheAssumption DEF Types
  <2>2. Err(c, TRUE)
    BY <2>1 DEF Err
  <2> QED BY <2>2, FailedAgrees
<1> QED BY <1>1, <1>2

LEMMA OkBytesAgrees ==
    ASSUME Types, NEW c \in Calls, c.op = "bytes", c.from < c.to,
           c.to <= Len(View(c.reader)), NEW data,
           data = SubSeq(file, From(c) + 1, To(c)), Ok(c, data), file' = file
    PROVE  Agree'
<1> DEFINE r == [call |-> c, ok |-> TRUE, data |-> data, failed |-> FALSE]
<1>1. reply' = r
  BY DEF Ok
<1>2. Good(r)
  BY BytesGood
<1> HIDE DEF r
<1> QED BY <1>1, <1>2, ReplyGood

(* A string that ends outside of the part of the reader is refused, and    *)
(* the slice of the reader has no delimiter for it.                        *)
LEMMA DeliverAgrees ==
    ASSUME Types, NEW c \in Calls, c.op = "until", NEW data,
           IsString(file, From(c), c.delim, data), Deliver(c, data), file' = file
    PROVE  Agree'
<1> DEFINE v == View(c.reader)
           n == Len(data)
<1>1. /\ c.from \in Nat /\ c.to \in Nat /\ FileLen \in Nat /\ WindowSize \in Nat
      /\ From(c) \in Nat /\ Limit \in Nat
  BY CallTypes, ReadCacheAssumption
<1>2. Len(v) = IF c.reader = Direct THEN FileLen ELSE WindowSize
  BY CallTypes, ViewIs
<1>3. /\ n \in Nat /\ From(c) + n < FileLen
      /\ \A i \in 1..n : data[i] = file[From(c) + i] /\ data[i] # c.delim
  BY DEF IsString
<1> HIDE DEF n, v
<1>4. CASE c.reader # Direct /\ c.from + n > WindowSize
  <2>1. Err(c, FALSE)
    BY <1>4 DEF Deliver, n
  <2>2. \A i \in 1..n : From(c) + i <= FileLen => file[From(c) + i] # c.delim
    BY <1>3
  <2>3. c.from > c.to \/ c.to > Len(v) \/ n >= c.to - c.from
    BY <1>1, <1>2, <1>3, <1>4
  <2>4. Good([call |-> c, ok |-> FALSE, data |-> <<>>, failed |-> FALSE])
    BY <1>3, <2>2, <2>3, RefusedUntil DEF v
  <2> QED BY <2>1, <2>4, ErrAgrees
<1>5. CASE ~(c.reader # Direct /\ c.from + n > WindowSize)
  <2> DEFINE r == [call |-> c, ok |-> TRUE, data |-> data, failed |-> FALSE]
  <2>1. reply' = r
    BY <1>5 DEF Deliver, Ok, n
  <2>2. c.from + Len(data) <= Len(View(c.reader))
    <3>1. CASE c.reader = Direct
      <4>1. c.from <= From(c)
        BY CallTypes
      <4> QED BY <3>1, <4>1, <1>1, <1>2, <1>3 DEF v, n
    <3>2. CASE c.reader # Direct
      BY <3>2, <1>1, <1>2, <1>3, <1>5 DEF v, n
    <3> QED BY <3>1, <3>2
  <2>3. Good(r)
    BY <2>2, StringGood
  <2> HIDE DEF r
  <2> QED BY <2>1, <2>3, ReplyGood
<1> QED BY <1>4, <1>5

(* Nothing that is kept depends on more than the stream and the entries.   *)
LEMMA HeldKept == Held /\ file' = file /\ entries' = entries => Held'
BY DEF Held, Cached

LEMMA HeldBytes ==
    ASSUME Held, file' = file, NEW o \in Nat, NEW n \in Nat,
           Insert(<<"bytes", o, n>>, SubSeq(file, o + 1, o + n))
    PROVE  Held'
<1> DEFINE k == <<"bytes", o, n>>
<1>1. DOMAIN entries' = Cached \cup {k}
  BY DEF Insert
<1>2. entries'[k] = SubSeq(file, o + 1, o + n)
  BY DEF Insert
<1>3. \A x \in Cached : x # k => entries'[x] = entries[x]
  BY DEF Insert
<1> HIDE DEF k
<1>4. ASSUME NEW p \in Nat, NEW m \in Nat, <<"bytes", p, m>> \in DOMAIN entries'
      PROVE  entries'[<<"bytes", p, m>>] = SubSeq(file', p + 1, p + m)
  <2>1. CASE <<"bytes", p, m>> = k
    <3>1. p = o /\ m = n
      BY <2>1 DEF k
    <3> QED BY <2>1, <3>1, <1>2
  <2>2. CASE <<"bytes", p, m>> # k
    <3>1. <<"bytes", p, m>> \in Cached
      BY <2>2, <1>1, <1>4
    <3> QED BY <2>2, <3>1, <1>3 DEF Held
  <2> QED BY <2>1, <2>2
<1>5. ASSUME NEW p \in Nat, NEW b \in Delims, <<"until", p, b>> \in DOMAIN entries'
      PROVE  IsString(file', p, b, entries'[<<"until", p, b>>])
  <2>1. <<"until", p, b>> # k
    BY DEF k
  <2>2. <<"until", p, b>> \in Cached
    BY <2>1, <1>1, <1>5
  <2>3. entries'[<<"until", p, b>>] = entries[<<"until", p, b>>]
    BY <2>1, <2>2, <1>3
  <2> QED BY <2>2, <2>3 DEF Held
<1> QED BY <1>4, <1>5 DEF Held, Cached

LEMMA HeldString ==
    ASSUME Held, file' = file, NEW o \in Nat, NEW b \in Delims, NEW data,
           IsString(file, o, b, data), Insert(<<"until", o, b>>, data)
    PROVE  Held'
<1> DEFINE k == <<"until", o, b>>
<1>1. DOMAIN entries' = Cached \cup {k}
  BY DEF Insert
<1>2. entries'[k] = data
  BY DEF Insert
<1>3. \A x \in Cached : x # k => entries'[x] = entries[x]
  BY DEF Insert
<1> HIDE DEF k
<1>4. ASSUME NEW p \in Nat, NEW m \in Nat, <<"bytes", p, m>> \in DOMAIN entries'
      PROVE  entries'[<<"bytes", p, m>>] = SubSeq(file', p + 1, p + m)
  <2>1. <<"bytes", p, m>> # k
    BY DEF k
  <2>2. <<"bytes", p, m>> \in Cached
    BY <2>1, <1>1, <1>4
  <2> QED BY <2>1, <2>2, <1>3 DEF Held
<1>5. ASSUME NEW p \in Nat, NEW d \in Delims, <<"until", p, d>> \in DOMAIN entries'
      PROVE  IsString(file', p, d, entries'[<<"until", p, d>>])
  <2>1. CASE <<"until", p, d>> = k
    <3>1. p = o /\ d = b
      BY <2>1 DEF k
    <3> QED BY <2>1, <3>1, <1>2
  <2>2. CASE <<"until", p, d>> # k
    <3>1. <<"until", p, d>> \in Cached
      BY <2>2, <1>1, <1>5
    <3>2. entries'[<<"until", p, d>>] = entries[<<"until", p, d>>]
      BY <2>2, <3>1, <1>3
    <3> QED BY <3>1, <3>2 DEF Held
  <2> QED BY <2>1, <2>2
<1> QED BY <1>4, <1>5 DEF Held, Cached

-------------------------------------------------------------------------------
(* The steps *)

LEMMA LengthIs ==
    ASSUME Types
    PROVE  /\ Length \in size..FileLen /\ After \in 0..FileLen
           /\ size \in 0..FileLen /\ FileLen \in Nat
           /\ \A p \in Adrift : p \in 0..FileLen
BY ReadCacheAssumption DEF Types, Length, After, Adrift

LEMMA RefusedBytes ==
    ASSUME NEW c \in Calls, c.op = "bytes", c.from # c.to, c.to > Len(View(c.reader)),
           NEW data
    PROVE  Good([call |-> c, ok |-> FALSE, data |-> data, failed |-> FALSE])
BY DEF Good, SliceBytes, NotFound

(* A range that the stream does not have, no slice has.                    *)
LEMMA OutAgrees ==
    ASSUME Types, NEW c \in Calls, OutOfBounds(c), c.op = "bytes" => c.from <= c.to,
           file' = file
    PROVE  Agree'
<1> DEFINE v == View(c.reader)
           B == Base(c.reader)
<1>1. /\ c.from \in Nat /\ c.to \in Nat /\ FileLen \in Nat /\ Limit \in Nat
      /\ From(c) = B + c.from /\ To(c) = B + c.to /\ c.op \in {"bytes", "until"}
  BY CallTypes, ReadCacheAssumption
<1>2. Len(v) \in Nat /\ B \in Nat /\ B + Len(v) <= FileLen
  BY CallTypes, ViewIs
<1>3. Err(c, FALSE) /\ ~InBounds(c) /\ Reaches(c)
  BY DEF OutOfBounds
<1> SUFFICES ASSUME size = FileLen
             PROVE  Good([call |-> c, ok |-> FALSE, data |-> <<>>, failed |-> FALSE])
  BY <1>3, ErrAgrees
<1>4. Length = FileLen
  BY LengthIs
<1> HIDE DEF v, B
<1>5. c.from > c.to \/ c.to > Len(v)
  BY <1>1, <1>2, <1>3, <1>4 DEF InBounds
<1>6. CASE c.op = "bytes"
  <2>1. c.from # c.to /\ c.to > Len(v)
    BY <1>1, <1>2, <1>3, <1>5, <1>6 DEF Reaches
  <2> QED BY <1>6, <2>1, RefusedBytes DEF v
<1>7. CASE c.op = "until"
  <2>1. \A i \in 1..0 : From(c) + i <= FileLen => file[From(c) + i] # c.delim
    OBVIOUS
  <2>2. 0 \in Nat
    OBVIOUS
  <2> QED BY <1>5, <1>7, <2>1, <2>2, RefusedUntil DEF v
<1> QED BY <1>1, <1>6, <1>7

(* A call for bytes that reaches the cache, in a range the stream has,     *)
(* asks for some that its reader has.                                      *)
LEMMA ReachesBytes ==
    ASSUME Types, NEW c \in Calls, c.op = "bytes", Reaches(c), InBounds(c)
    PROVE  /\ c.from < c.to /\ c.to <= Len(View(c.reader))
           /\ c.reader # Direct => c.to <= WindowSize
           /\ To(c) - From(c) = c.to - c.from /\ To(c) - From(c) \in Nat
           /\ From(c) \in Nat /\ From(c) + (To(c) - From(c)) = To(c)
           /\ Key(c) = <<"bytes", From(c), To(c) - From(c)>>
<1>1. /\ c.from \in Nat /\ c.to \in Nat /\ FileLen \in Nat /\ WindowSize \in Nat
      /\ From(c) = Base(c.reader) + c.from /\ To(c) = Base(c.reader) + c.to
      /\ From(c) \in Nat /\ Base(c.reader) \in Nat
  BY CallTypes, ReadCacheAssumption
<1>2. Len(View(c.reader)) = IF c.reader = Direct THEN FileLen ELSE WindowSize
  BY CallTypes, ViewIs
<1>3. Length \in Nat /\ Length <= FileLen
  BY LengthIs
<1>4. From(c) <= To(c) /\ To(c) <= Length
  BY DEF InBounds
<1>5. c.from # c.to /\ (c.reader # Direct => ~(c.to > WindowSize))
  BY DEF Reaches, Refused
<1>6. c.reader = Direct => To(c) = c.to
  BY <1>1 DEF Base
<1>7. c.from < c.to /\ To(c) - From(c) = c.to - c.from /\ To(c) - From(c) \in Nat
  BY <1>1, <1>4, <1>5
<1>8. c.to <= Len(View(c.reader))
  BY <1>1, <1>2, <1>3, <1>4, <1>5, <1>6
<1> QED BY <1>1, <1>5, <1>7, <1>8 DEF Key

LEMMA HitAgrees ==
    ASSUME Types, Held, NEW c \in Calls, Hit(c), file' = file
    PROVE  Agree'
<1>1. /\ Reaches(c) /\ InBounds(c) /\ Key(c) \in Cached /\ Deliver(c, entries[Key(c)])
  BY DEF Hit
<1>2. c.op \in {"bytes", "until"} /\ From(c) \in Nat /\ c.from \in Nat /\ c.to \in Nat
  BY CallTypes
<1>3. CASE c.op = "bytes"
  <2> DEFINE data == entries[Key(c)]
             m == To(c) - From(c)
  <2>1. /\ c.from < c.to /\ c.to <= Len(View(c.reader))
        /\ c.reader # Direct => c.to <= WindowSize
        /\ m = c.to - c.from /\ m \in Nat
        /\ From(c) \in Nat /\ From(c) + m = To(c)
        /\ Key(c) = <<"bytes", From(c), m>>
    BY <1>1, <1>3, ReachesBytes
  <2>2. data = SubSeq(file, From(c) + 1, To(c))
    <3> HIDE DEF m
    <3>1. data = SubSeq(file, From(c) + 1, From(c) + m)
      BY <1>1, <2>1 DEF Held
    <3> QED BY <2>1, <3>1
  <2>3. Len(data) = m
    <3>1. file \in Seq(Bytes) /\ Len(file) = FileLen /\ FileLen \in Nat
      BY FileIsSeq, ReadCacheAssumption
    <3>2. Length <= FileLen /\ Length \in Nat /\ To(c) <= Length
      BY <1>1, LengthIs DEF InBounds
    <3>3. To(c) \in Nat
      BY CallTypes
    <3>4. From(c) \in 0..Len(file) /\ To(c) \in From(c)..Len(file)
      BY <2>1, <3>1, <3>2, <3>3
    <3> HIDE DEF data
    <3>5. Len(SubSeq(file, From(c) + 1, To(c))) = To(c) - From(c)
      BY <3>1, <3>4, RangeIs
    <3> QED BY <2>2, <3>5
  <2> HIDE DEF data, m
  <2>4. ~(c.reader # Direct /\ c.from + Len(data) > WindowSize)
    BY <1>2, <2>1, <2>3, ReadCacheAssumption
  <2>5. Ok(c, data)
    BY <1>1, <2>4 DEF Deliver, data
  <2> QED BY <1>3, <2>1, <2>2, <2>5, OkBytesAgrees
<1>4. CASE c.op = "until"
  <2>1. Key(c) = <<"until", From(c), c.delim>> /\ c.delim \in Delims
    BY <1>4, CallTypes DEF Key
  <2>2. IsString(file, From(c), c.delim, entries[Key(c)])
    BY <1>1, <1>2, <2>1 DEF Held
  <2> QED BY <1>1, <1>4, <2>2, DeliverAgrees
<1> QED BY <1>2, <1>3, <1>4

(* What read_exact reads.                                                  *)
LEMMA ReadExactInv ==
    ASSUME Types, Held, NEW c \in Calls, ReadExact(c), file' = file
    PROVE  Agree' /\ Held' /\ pos' \in 0..FileLen /\ len' = Length
<1> DEFINE m == To(c) - From(c)
           data == SubSeq(file, From(c) + 1, From(c) + m)
<1>1. /\ c.op = "bytes" /\ Reaches(c) /\ InBounds(c) /\ len' = Length
      /\ Insert(Key(c), data) /\ Ok(c, data) /\ pos' = From(c) + m /\ From(c) + m <= size
  BY DEF ReadExact, Miss
<1>2. /\ c.from < c.to /\ c.to <= Len(View(c.reader)) /\ m \in Nat
      /\ From(c) \in Nat /\ From(c) + m = To(c) /\ Key(c) = <<"bytes", From(c), m>>
  BY <1>1, ReachesBytes
<1> HIDE DEF m
<1>3. Agree'
  <2>1. data = SubSeq(file, From(c) + 1, To(c))
    BY <1>2
  <2> HIDE DEF data
  <2> QED BY <1>1, <1>2, <2>1, OkBytesAgrees
<1>4. Held'
  <2>1. Insert(<<"bytes", From(c), m>>, data)
    BY <1>1, <1>2
  <2> QED BY <1>2, <2>1, HeldBytes
<1>5. pos' \in 0..FileLen
  BY <1>1, <1>2, LengthIs
<1> QED BY <1>1, <1>3, <1>4, <1>5

LEMMA CallInv ==
    ASSUME Types, Held, NEW c \in Calls, Call(c)
    PROVE  Types' /\ Held' /\ Searching' /\ Agree'
<1>1. /\ loop = None /\ file' = file /\ size' = size
      /\ c.op = "bytes" => c.from <= c.to
  BY DEF Call
<1>2. /\ Length \in size..FileLen /\ After \in 0..FileLen
      /\ \A p \in Adrift : p \in 0..FileLen
  BY LengthIs
<1>3. ASSUME pos' \in 0..FileLen, len' = len \/ len' = Length PROVE Types'
  BY <1>1, <1>2, <1>3 DEF Types
<1>4. ASSUME loop' = loop PROVE Searching'
  BY <1>1, <1>4 DEF Searching, None
<1>5. CASE loop' = loop /\ AnswerEmpty(c)
  <2>1. pos' = pos /\ len' = len /\ entries' = entries
    BY <1>5 DEF AnswerEmpty
  <2>2. Agree'
    <3> DEFINE r == [call |-> c, ok |-> TRUE, data |-> <<>>, failed |-> FALSE]
    <3>1. reply' = r
      BY <1>5 DEF AnswerEmpty, Ok
    <3>2. Good(r)
      BY <1>5, EmptyGood DEF AnswerEmpty
    <3> HIDE DEF r
    <3> QED BY <1>1, <3>1, <3>2, ReplyGood
  <2>3. Types'
    BY <1>3, <2>1 DEF Types
  <2> QED BY <1>1, <1>4, <1>5, <2>1, <2>2, <2>3, HeldKept
<1>6. CASE loop' = loop /\ Refuse(c)
  <2>1. pos' = pos /\ len' = len /\ entries' = entries /\ Err(c, FALSE)
    BY <1>6 DEF Refuse
  <2>2. Agree'
    <3>1. c.op = "bytes" /\ c.from # c.to /\ c.to > WindowSize /\ c.reader # Direct
      BY <1>6 DEF Refuse, Refused
    <3>2. c.to > Len(View(c.reader))
      BY <3>1, CallTypes, ViewIs
    <3>3. Good([call |-> c, ok |-> FALSE, data |-> <<>>, failed |-> FALSE])
      BY <3>1, <3>2, RefusedBytes
    <3> QED BY <1>1, <2>1, <3>3, ErrAgrees
  <2>3. Types'
    BY <1>3, <2>1 DEF Types
  <2> QED BY <1>1, <1>4, <1>6, <2>1, <2>2, <2>3, HeldKept
<1>7. CASE loop' = loop /\ LengthFails(c)
  <2>1. pos' \in Adrift /\ len' = len /\ entries' = entries /\ Err(c, TRUE)
    BY <1>7 DEF LengthFails
  <2>2. Agree'
    BY <1>1, <2>1, FailedAgrees
  <2>3. Types'
    BY <1>2, <1>3, <2>1
  <2> QED BY <1>1, <1>4, <1>7, <2>1, <2>2, <2>3, HeldKept
<1>8. CASE loop' = loop /\ OutOfBounds(c)
  <2>1. pos' = After /\ len' = Length /\ entries' = entries
    BY <1>8 DEF OutOfBounds
  <2>2. Agree'
    BY <1>1, <1>8, OutAgrees
  <2>3. Types'
    BY <1>2, <1>3, <2>1
  <2> QED BY <1>1, <1>4, <1>8, <2>1, <2>2, <2>3, HeldKept
<1>9. CASE loop' = loop /\ Hit(c)
  <2>1. pos' = After /\ len' = Length /\ entries' = entries
    BY <1>9 DEF Hit
  <2>2. Agree'
    BY <1>1, <1>9, HitAgrees
  <2>3. Types'
    BY <1>2, <1>3, <2>1
  <2> QED BY <1>1, <1>4, <1>9, <2>1, <2>2, <2>3, HeldKept
<1>10. CASE loop' = loop /\ MissFails(c)
  <2>1. pos' \in Adrift /\ len' = Length /\ entries' = entries /\ Err(c, TRUE)
    BY <1>10 DEF MissFails, Miss
  <2>2. Agree'
    BY <1>1, <2>1, FailedAgrees
  <2>3. Types'
    BY <1>2, <1>3, <2>1
  <2> QED BY <1>1, <1>4, <1>10, <2>1, <2>2, <2>3, HeldKept
<1>11. CASE loop' = loop /\ ReadExact(c)
  <2>1. Agree' /\ Held' /\ pos' \in 0..FileLen /\ len' = Length
    BY <1>1, <1>11, ReadExactInv
  <2> QED BY <1>3, <1>4, <1>11, <2>1
<1>12. CASE BeginSearch(c)
  <2>1. /\ pos' = From(c) /\ len' = Length /\ entries' = entries /\ reply' = NoReply
        /\ loop' = [call |-> c, got |-> <<>>] /\ c.op = "until" /\ InBounds(c)
    BY <1>12 DEF BeginSearch, Miss
  <2>2. /\ From(c) \in Nat /\ To(c) \in Nat /\ From(c) <= To(c) /\ To(c) <= FileLen
        /\ c.from <= c.to /\ FileLen \in Nat
    <3>1. From(c) <= To(c) /\ To(c) <= Length
      BY <2>1 DEF InBounds
    <3>2. /\ From(c) \in Nat /\ To(c) \in Nat /\ c.from \in Nat /\ c.to \in Nat
          /\ From(c) = Base(c.reader) + c.from /\ To(c) = Base(c.reader) + c.to
          /\ Base(c.reader) \in Nat
      BY CallTypes
    <3> QED BY <3>1, <3>2, LengthIs
  <2>3. Types'
    BY <1>3, <2>1, <2>2
  <2>4. Searching'
    <3>1. /\ <<>> \in Seq(Bytes) /\ From(c) = From(c) + Len(<<>>)
          /\ \A i \in 1..Len(<<>>) : FALSE
      BY <2>2
    <3>2. loop'.call = c /\ loop'.got = <<>> /\ pos' = From(c)
      BY <2>1
    <3> QED BY <1>1, <2>1, <2>2, <3>1, <3>2 DEF Searching, From, To, Base
  <2>5. Agree'
    BY <2>1, NoReplyGood
  <2> QED BY <1>1, <2>1, <2>3, <2>4, <2>5, HeldKept
<1> QED BY <1>5, <1>6, <1>7, <1>8, <1>9, <1>10, <1>11, <1>12 DEF Call

(* What one read of a search returns.                                      *)
LEMMA ReadsIs ==
    ASSUME Types, Searching, loop # None, NEW data \in Reads
    PROVE  \/ data = <<>> /\ (loop.call.to = loop.call.from \/ size <= pos)
           \/ /\ data # <<>> /\ data \in Seq(Bytes) /\ Len(data) \in Nat
              /\ pos + Len(data) <= size /\ Len(loop.got) + Len(data) <= MaxCheck
              /\ \A i \in 1..Len(data) : data[i] = file[pos + i]
<1> DEFINE g == Len(loop.got)
           most == Smaller(Room, size - pos)
<1>1. /\ g \in Nat /\ size \in Nat /\ pos \in Nat /\ size <= FileLen /\ FileLen \in Nat
      /\ loop.call.from \in Nat /\ loop.call.to \in Nat /\ loop.call.from <= loop.call.to
      /\ Chunk \in Nat \ {0} /\ Limit \in Nat \ {0}
      /\ loop.got = <<>> \/ g < MaxCheck
  BY CallTypes, ReadCacheAssumption DEF Searching, Types
<1>2. g = 0 \/ g < MaxCheck
  BY <1>1
<1> HIDE DEF g
<1>3. /\ MaxCheck \in Nat /\ Room = Smaller(Chunk, MaxCheck - g)
      /\ MaxCheck = 0 => loop.call.to = loop.call.from
  BY <1>1 DEF MaxCheck, Smaller, Room, g
<1>4. /\ most \in Int /\ most <= size - pos /\ most <= MaxCheck - g
      /\ most <= 0 => size <= pos \/ MaxCheck <= g
  BY <1>1, <1>3 DEF Smaller
<1> HIDE DEF most
<1>5. CASE most <= 0
  <2>1. data = <<>>
    BY <1>5 DEF Reads, most
  <2> QED BY <1>1, <1>2, <1>3, <1>4, <1>5, <2>1
<1>6. CASE ~(most <= 0)
  <2>1. PICK n \in 1..most : data = SubSeq(file, pos + 1, pos + n)
    BY <1>6 DEF Reads, most
  <2>2. file \in Seq(Bytes) /\ Len(file) = FileLen
    BY FileIsSeq
  <2>3. pos \in 0..Len(file) /\ pos + n \in pos..Len(file) /\ n \in Nat /\ n >= 1
    BY <1>1, <1>4, <2>1, <2>2
  <2>4. /\ data \in Seq(Bytes) /\ Len(data) = (pos + n) - pos
        /\ \A i \in 1..(pos + n) - pos : data[i] = file[pos + i]
    BY <2>1, <2>2, <2>3, RangeIs
  <2>5. Len(data) = n
    BY <1>1, <2>3, <2>4
  <2>6. data # <<>>
    BY <2>3, <2>5
  <2>7. pos + n <= size /\ g + n <= MaxCheck
    BY <1>1, <1>3, <1>4, <2>1
  <2>8. \A i \in 1..n : data[i] = file[pos + i]
    BY <2>4, <2>5
  <2> QED BY <2>3, <2>4, <2>5, <2>6, <2>7, <2>8 DEF g
<1> QED BY <1>5, <1>6

(* What a search has gathered, with what it reads next.                    *)
LEMMA GotIs ==
    ASSUME Types, Searching, loop # None, NEW data \in Seq(Bytes),
           \A i \in 1..Len(data) : data[i] = file[pos + i]
    PROVE  LET c == loop.call
               t == loop.got \o data
           IN
           /\ t \in Seq(Bytes) /\ Len(t) = Len(loop.got) + Len(data)
           /\ Len(loop.got) \in Nat /\ Len(data) \in Nat
           /\ \A i \in 1..Len(t) : t[i] = file[From(c) + i]
           /\ ~Holds(c.delim, data) => \A i \in 1..Len(t) : t[i] # c.delim
<1> DEFINE c == loop.call
           g == loop.got
           t == g \o data
<1>1. /\ g \in Seq(Bytes) /\ pos = From(c) + Len(g) /\ From(c) \in Nat
      /\ \A i \in 1..Len(g) : g[i] = file[From(c) + i] /\ g[i] # c.delim
  BY CallTypes DEF Searching
<1>2. Len(g) \in Nat /\ Len(data) \in Nat
  BY <1>1
<1> HIDE DEF g, c
<1>3. /\ t \in Seq(Bytes) /\ Len(t) = Len(g) + Len(data)
      /\ \A i \in 1..Len(g) + Len(data) :
             t[i] = IF i <= Len(g) THEN g[i] ELSE data[i - Len(g)]
  BY <1>1, ConcatProperties
<1> HIDE DEF t
<1>4. ASSUME NEW i \in 1..Len(t)
      PROVE  /\ t[i] = file[From(c) + i]
             /\ ~Holds(c.delim, data) => t[i] # c.delim
  <2>1. CASE i <= Len(g)
    <3>1. i \in 1..Len(g) /\ t[i] = g[i]
      BY <1>2, <1>3, <2>1
    <3> QED BY <1>1, <3>1
  <2>2. CASE ~(i <= Len(g))
    <3> DEFINE j == i - Len(g)
    <3>1. j \in 1..Len(data) /\ t[i] = data[j] /\ pos + j = From(c) + i
      BY <1>1, <1>2, <1>3, <2>2
    <3> HIDE DEF j
    <3>2. data[j] = file[pos + j]
      BY <3>1
    <3>3. j \in DOMAIN data
      BY <3>1, LenProperties
    <3>4. ~Holds(c.delim, data) => data[j] # c.delim
      BY <3>3 DEF Holds
    <3> QED BY <3>1, <3>2, <3>4
  <2> QED BY <2>1, <2>2
<1> QED BY <1>2, <1>3, <1>4 DEF c, g, t

(* What is found is what the stream holds up to the delimiter.             *)
LEMMA FoundIs ==
    ASSUME Types, Searching, loop # None, NEW data \in Seq(Bytes),
           pos + Len(data) <= size, Holds(loop.call.delim, data),
           \A i \in 1..Len(data) : data[i] = file[pos + i]
    PROVE  IsString(file, From(loop.call), loop.call.delim, Found(data))
<1> DEFINE c == loop.call
           e == c.delim
           g == loop.got
<1>1. /\ g \in Seq(Bytes) /\ pos = From(c) + Len(g) /\ From(c) \in Nat
      /\ size <= FileLen /\ size \in Nat /\ FileLen \in Nat
      /\ \A i \in 1..Len(g) : g[i] = file[From(c) + i] /\ g[i] # e
  BY CallTypes, LengthIs DEF Searching
<1>2. Len(g) \in Nat /\ Len(data) \in Nat
  BY <1>1
<1>3. Holds(e, data) /\ Found(data) = g \o Before(e, data)
  BY DEF Found
<1> HIDE DEF c, e, g
<1>4. \E k \in 0..Len(data) - 1 : data[k + 1] = e /\ \A i \in 1..k : data[i] # e
  BY <1>3, FirstOne
<1>5. PICK k \in 0..Len(data) - 1 : data[k + 1] = e /\ \A i \in 1..k : data[i] # e
  BY <1>4
<1> DEFINE u == SubSeq(data, 0 + 1, k)
<1>6. u \in Seq(Bytes) /\ Len(u) = k /\ \A i \in 1..k : u[i] = data[i]
  <2>1. 0 \in 0..Len(data) /\ k \in 0..Len(data)
    BY <1>2, <1>5
  <2>2. u \in Seq(Bytes) /\ Len(u) = k - 0 /\ \A i \in 1..k - 0 : u[i] = data[0 + i]
    BY <2>1, RangeIs
  <2> HIDE DEF u
  <2> QED BY <2>1, <2>2
<1>7. Before(e, data) = u
  <2>1. Before(e, data) = SubSeq(data, 1, k)
    BY <1>5, BeforeIs
  <2>2. 0 + 1 = 1
    OBVIOUS
  <2> QED BY <2>1, <2>2
<1> HIDE DEF u
<1> DEFINE t == g \o u
<1>8. /\ t \in Seq(Bytes) /\ Len(t) = Len(g) + k
      /\ \A i \in 1..Len(g) + k : t[i] = IF i <= Len(g) THEN g[i] ELSE u[i - Len(g)]
  <2>1. g \in Seq(Bytes) /\ u \in Seq(Bytes) /\ Len(u) = k
    BY <1>1, <1>6
  <2> QED BY <2>1, ConcatProperties
<1>9. Found(data) = t
  BY <1>3, <1>7
<1> HIDE DEF t
<1>10. k + 1 \in 1..Len(data) /\ k \in Nat
  BY <1>2, <1>5
<1>11. ASSUME NEW i \in 1..Len(t) PROVE t[i] = file[From(c) + i] /\ t[i] # e
  <2>1. CASE i <= Len(g)
    <3>1. i \in 1..Len(g) /\ t[i] = g[i]
      BY <1>2, <1>8, <1>10, <2>1
    <3> QED BY <1>1, <3>1
  <2>2. CASE ~(i <= Len(g))
    <3> DEFINE j == i - Len(g)
    <3>1. /\ j \in 1..k /\ j \in 1..Len(data) /\ t[i] = u[j] /\ pos + j = From(c) + i
      BY <1>1, <1>2, <1>8, <1>10, <2>2, SMTT(40)
    <3> HIDE DEF j
    <3>2. data[j] = file[pos + j] /\ u[j] = data[j] /\ data[j] # e
      BY <1>5, <1>6, <3>1
    <3> QED BY <3>1, <3>2
  <2> QED BY <2>1, <2>2
<1>12. From(c) + Len(t) < FileLen /\ From(c) + Len(t) + 1 = pos + (k + 1)
  BY <1>1, <1>2, <1>8, <1>10
<1>13. file[From(c) + Len(t) + 1] = e
  <2>1. data[k + 1] = file[pos + (k + 1)]
    BY <1>10
  <2> QED BY <1>5, <1>12, <2>1
<1>14. IsString(file, From(c), e, t)
  BY <1>8, <1>11, <1>12, <1>13 DEF IsString
<1> QED BY <1>9, <1>14 DEF c, e

LEMMA SearchInv ==
    ASSUME Types, Pending, Held, Searching, Agree, Search
    PROVE  Types' /\ Held' /\ Searching' /\ Agree'
<1> DEFINE c == loop.call
           g == Len(loop.got)
<1>1. /\ loop # None /\ file' = file /\ size' = size /\ len' = len
      /\ c \in Calls /\ c.op = "until" /\ c.from <= c.to /\ To(c) <= FileLen
      /\ loop.got \in Seq(Bytes) /\ pos = From(c) + g
      /\ loop.got = <<>> \/ g < MaxCheck
      /\ \A i \in 1..g : loop.got[i] = file[From(c) + i] /\ loop.got[i] # c.delim
  BY DEF Search, Searching
<1>2. /\ c.from \in Nat /\ c.to \in Nat /\ From(c) \in Nat /\ To(c) \in Nat
      /\ To(c) - From(c) = c.to - c.from /\ c.delim \in Delims
      /\ size \in Nat /\ size <= FileLen /\ FileLen \in Nat /\ g \in Nat
      /\ Limit \in Nat \ {0} /\ pos \in Nat
  <2>1. /\ c.from \in Nat /\ c.to \in Nat /\ From(c) \in Nat /\ To(c) \in Nat
        /\ From(c) = Base(c.reader) + c.from /\ To(c) = Base(c.reader) + c.to
        /\ Base(c.reader) \in Nat /\ c.delim \in Delims
    BY <1>1, CallTypes, SMTT(40)
  <2>2. g \in Nat
    BY <1>1
  <2> HIDE DEF c, g
  <2>3. To(c) - From(c) = c.to - c.from
    BY <2>1
  <2> QED BY <2>1, <2>2, <2>3, LengthIs, ReadCacheAssumption DEF Types
<1>3. PICK data \in Reads : ReadString(data) /\ pos' = pos + Len(data)
  BY DEF Search
<1>4. ASSUME loop' = None PROVE Searching'
  BY <1>4 DEF Searching
<1>5. /\ Key(c) = <<"until", From(c), c.delim>>
  BY <1>1 DEF Key
<1>6. CASE AtEnd(data)
  <2>1. /\ data = <<>> /\ loop' = None /\ Err(c, FALSE) /\ entries' = entries
    BY <1>3, <1>6 DEF ReadString, AtEnd, Ends
  <2>2. c.to = c.from \/ size <= pos
    BY <1>1, <2>1, ReadsIs
  <2>3. pos' = pos
    BY <1>2, <1>3, <2>1
  <2>4. Types'
    BY <1>1, <2>3 DEF Types
  <2>5. ASSUME size = FileLen
        PROVE  Good([call |-> c, ok |-> FALSE, data |-> <<>>, failed |-> FALSE])
    <3>1. g >= c.to - c.from
      <4> HIDE DEF c, g
      <4> QED BY <1>1, <1>2, <2>2, <2>5
    <3>2. \A i \in 1..g : From(c) + i <= FileLen => file[From(c) + i] # c.delim
      BY <1>1
    <3> QED BY <1>1, <1>2, <3>1, <3>2, RefusedUntil
  <2>6. Agree'
    <3> HIDE DEF c
    <3> QED BY <1>1, <2>1, <2>5, ErrAgrees
  <2> QED BY <1>1, <1>4, <2>1, <2>4, <2>6, HeldKept
<1>7. CASE ~AtEnd(data)
  <2>1. /\ data # <<>> /\ data \in Seq(Bytes) /\ Len(data) \in Nat
        /\ pos + Len(data) <= size /\ g + Len(data) <= MaxCheck
        /\ \A i \in 1..Len(data) : data[i] = file[pos + i]
    BY <1>1, <1>7, ReadsIs DEF AtEnd
  <2>2. pos' \in 0..FileLen
    BY <1>2, <1>3, <2>1
  <2>3. Types'
    BY <1>1, <2>2 DEF Types
  <2> DEFINE t == loop.got \o data
  <2>4. /\ t \in Seq(Bytes) /\ Len(t) = g + Len(data)
        /\ \A i \in 1..Len(t) : t[i] = file[From(c) + i]
        /\ ~Holds(c.delim, data) => \A i \in 1..Len(t) : t[i] # c.delim
    BY <1>1, <2>1, GotIs
  <2>5. CASE Holds(c.delim, data)
    <3>1. Insert(Key(c), Found(data)) /\ loop' = None /\ Deliver(c, Found(data))
      BY <1>3, <1>7, <2>5 DEF ReadString, Ends
    <3>2. IsString(file, From(c), c.delim, Found(data))
      BY <1>1, <2>1, <2>5, FoundIs
    <3>3. Agree'
      <4> HIDE DEF c
      <4> QED BY <1>1, <3>1, <3>2, DeliverAgrees
    <3>4. Held'
      <4> HIDE DEF c
      <4> QED BY <1>1, <1>2, <1>5, <3>1, <3>2, HeldString
    <3> QED BY <1>4, <2>3, <3>1, <3>3, <3>4
  <2>6. CASE ~Holds(c.delim, data) /\ Len(t) >= MaxCheck
    <3>1. loop' = None /\ Err(c, FALSE) /\ entries' = entries
      <4>1. ~(Len(t) < MaxCheck)
        <5>1. MaxCheck \in Int
          BY <1>2 DEF MaxCheck, Smaller
        <5> HIDE DEF t, g
        <5> QED BY <1>2, <2>1, <2>4, <2>6, <5>1
      <4> QED BY <1>3, <1>7, <2>6, <4>1 DEF ReadString, Ends
    <3>2. Len(t) \in Nat /\ (Len(t) >= c.to - c.from \/ Len(t) >= Limit)
      <4>1. MaxCheck = Smaller(c.to - c.from, Limit)
        BY DEF MaxCheck
      <4> HIDE DEF t, c, g
      <4> QED BY <1>2, <2>1, <2>4, <2>6, <4>1 DEF Smaller
    <3>3. \A i \in 1..Len(t) : From(c) + i <= FileLen => file[From(c) + i] # c.delim
      <4> HIDE DEF t, c
      <4> QED BY <2>4, <2>6
    <3>4. Good([call |-> c, ok |-> FALSE, data |-> <<>>, failed |-> FALSE])
      <4> HIDE DEF t, c
      <4> QED BY <1>1, <3>2, <3>3, RefusedUntil
    <3>5. Agree'
      <4> HIDE DEF c
      <4> QED BY <1>1, <3>1, <3>4, ErrAgrees
    <3> QED BY <1>1, <1>4, <2>3, <3>1, <3>5, HeldKept
  <2>7. CASE ~Holds(c.delim, data) /\ ~(Len(t) >= MaxCheck)
    <3>1. /\ Len(t) < MaxCheck /\ loop' = [loop EXCEPT !.got = @ \o data]
          /\ entries' = entries /\ reply' = reply
      BY <1>3, <1>7, <2>7 DEF ReadString, Ends
    <3>2. loop'.call = c /\ loop'.got = t
      BY <3>1 DEF Pending
    <3>3. pos' = From(c) + Len(t)
      <4> HIDE DEF t, c, g
      <4> QED BY <1>1, <1>2, <1>3, <2>1, <2>4
    <3>4. \A i \in 1..Len(t) : t[i] = file[From(c) + i] /\ t[i] # c.delim
      <4> HIDE DEF t, c
      <4> QED BY <2>4, <2>7
    <3>5. Len(t) < MaxCheck'
      BY <3>1, <3>2 DEF MaxCheck
    <3>6. Searching'
      BY <1>1, <2>4, <3>2, <3>3, <3>4, <3>5 DEF Searching, From, To, Base
    <3>7. Agree'
      BY <1>1, <3>1, AgreeKept
    <3> QED BY <1>1, <2>3, <3>1, <3>6, <3>7, HeldKept
  <2> QED BY <2>5, <2>6, <2>7
<1> QED BY <1>6, <1>7

LEMMA InitInv == Init => IInv
<1> SUFFICES ASSUME Init PROVE IInv
  OBVIOUS
<1>1. Types
  BY ReadCacheAssumption DEF Init, Types
<1>2. Held
  BY DEF Init, Held, Cached
<1>3. Searching
  BY DEF Init, Searching
<1>4. Agree
  BY DEF Init, Agree, NoReply
<1> QED BY <1>1, <1>2, <1>3, <1>4, InitPending DEF IInv

LEMMA StepInv ==
    ASSUME IInv, [Next]_vars
    PROVE  IInv'
<1>1. Types /\ Pending /\ Held /\ Searching /\ Agree
  BY DEF IInv
<1>2. Pending'
  BY <1>1, Step
<1> SUFFICES Types' /\ Held' /\ Searching' /\ Agree'
  BY <1>2 DEF IInv
<1>3. CASE \E c \in Calls : Call(c)
  BY <1>1, <1>3, CallInv
<1>4. CASE Search
  BY <1>1, <1>4, SearchInv
<1>5. CASE SearchFails
  <2>1. /\ loop' = None /\ file' = file /\ size' = size /\ len' = len
        /\ entries' = entries /\ Err(loop.call, TRUE) /\ pos' \in Adrift
    BY <1>5 DEF SearchFails, Ends
  <2>2. Types'
    BY <1>1, <2>1, LengthIs DEF Types
  <2>3. Searching'
    BY <2>1 DEF Searching
  <2>4. Agree'
    BY <2>1, FailedAgrees
  <2> QED BY <1>1, <2>1, <2>2, <2>3, <2>4, HeldKept
<1>6. CASE Clear
  <2>1. /\ loop = None /\ loop' = loop /\ file' = file /\ size' = size
        /\ len' = len /\ pos' = pos /\ reply' = NoReply
    BY <1>6 DEF Clear
  <2>2. Types'
    BY <1>1, <2>1 DEF Types
  <2>3. Searching'
    BY <2>1 DEF Searching, None
  <2>4. \A k \in DOMAIN entries' : k \in Cached /\ entries'[k] = entries[k]
    BY <1>6 DEF Clear
  <2>5. Held'
    BY <1>1, <2>1, <2>4 DEF Held, Cached
  <2> QED BY <2>1, <2>2, <2>3, <2>5, NoReplyGood
<1>7. CASE Shrink
  <2>1. /\ size = FileLen /\ size' \in Lengths /\ reply' = NoReply /\ file' = file
        /\ pos' = pos /\ len' = len /\ entries' = entries /\ loop' = loop
    BY <1>7 DEF Shrink
  <2>2. Types'
    <3>1. size' \in 0..FileLen /\ FileLen \in Nat
      BY <2>1, ReadCacheAssumption
    <3>2. len = -1 \/ len = FileLen
      BY <1>1, <2>1, <3>1 DEF Types
    <3> QED BY <1>1, <2>1, <3>1, <3>2 DEF Types
  <2>3. Searching'
    BY <1>1, <2>1 DEF Searching, MaxCheck, From, To, Base
  <2> QED BY <1>1, <2>1, <2>2, <2>3, NoReplyGood, HeldKept
<1>8. CASE UNCHANGED vars
  <2>1. /\ size' = size /\ reply' = reply /\ file' = file
        /\ pos' = pos /\ len' = len /\ entries' = entries /\ loop' = loop
    BY <1>8 DEF vars
  <2>2. Types'
    BY <1>1, <2>1 DEF Types
  <2>3. Searching'
    BY <1>1, <2>1 DEF Searching, MaxCheck, From, To, Base
  <2>4. Agree'
    BY <1>1, <2>1, AgreeKept
  <2> QED BY <1>1, <2>1, <2>2, <2>3, <2>4, HeldKept
<1> QED BY <1>3, <1>4, <1>5, <1>6, <1>7, <1>8 DEF Next

LEMMA AlwaysAgree == Spec => []Agree
<1>1. Init => IInv
  BY InitInv
<1>2. IInv /\ [Next]_vars => IInv'
  BY StepInv
<1>3. IInv => Agree
  BY DEF IInv
<1> QED BY <1>1, <1>2, <1>3, PTL DEF Spec

(* read_bytes_at returns what it returns for a byte slice of the bytes     *)
(* that the stream had, though some come from the cache, the stream moves  *)
(* between the reads, and it may have been cut; it refuses what the slice  *)
(* refuses, and nothing else unless the stream fails or was cut.           *)
THEOREM SliceOfBytes == Spec => []BytesAgree
<1>1. Agree => BytesAgree
  BY AgreeIs
<1> QED BY <1>1, AlwaysAgree, PTL

(* read_bytes_at_until returns the bytes up to the next delimiter of the   *)
(* stream, however many reads it takes to find it and whoever found it     *)
(* first, and never more than its reader has.                              *)
THEOREM StringOfSlice == Spec => []UntilSound
<1>1. Agree => UntilSound
  BY AgreeIs
<1> QED BY <1>1, AlwaysAgree, PTL

(* It refuses only what a slice refuses and strings as long as the limit   *)
(* of the search, unless the stream is to blame.                           *)
THEOREM RefusalOfSlice == Spec => []UntilRefuses
<1>1. Agree => UntilRefuses
  BY AgreeIs
<1> QED BY <1>1, AlwaysAgree, PTL
===============================================================================
