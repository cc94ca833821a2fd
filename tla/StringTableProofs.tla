--------------------------- MODULE StringTableProofs ---------------------------
(***************************************************************************)
(* Proofs about the string table, for every set of strings: the sort is    *)
(* right, every string reads back from its offset, the announced size is   *)
(* the one that is written, and no room is wasted on tails.                *)
(*                                                                         *)
(* The loops and the recursion of the code are functions on numbers, so    *)
(* that what they keep is shown by induction over the rounds, or over the  *)
(* depth of the recursion.                                                 *)
(***************************************************************************)
EXTENDS StringTable, Numbers

Strs == Seq(Seq(Nat))

Distinct(s) == \A i, j \in 1..Len(s) : s[i] = s[j] => i = j

-------------------------------------------------------------------------------
(* Sequences *)

LEMMA InSet ==
    ASSUME NEW E, NEW s \in Seq(E)
    PROVE  /\ \A x : x \in ToSet(s) <=> \E i \in 1..Len(s) : s[i] = x
           /\ \A i \in 1..Len(s) : s[i] \in ToSet(s) /\ s[i] \in E
           /\ Len(s) \in Nat
<1>1. DOMAIN s = 1..Len(s) /\ Len(s) \in Nat
  OBVIOUS
<1> QED BY <1>1 DEF ToSet

LEMMA Swapping ==
    ASSUME NEW E, NEW s \in Seq(E), NEW i \in 1..Len(s), NEW j \in 1..Len(s)
    PROVE  /\ Swap(s, i, j) \in Seq(E) /\ Len(Swap(s, i, j)) = Len(s)
           /\ Swap(s, i, j)[i] = s[j] /\ Swap(s, i, j)[j] = s[i]
           /\ \A k \in 1..Len(s) : k # i /\ k # j => Swap(s, i, j)[k] = s[k]
           /\ ToSet(Swap(s, i, j)) = ToSet(s)
           /\ Distinct(s) => Distinct(Swap(s, i, j))
<1> DEFINE t == Swap(s, i, j)
<1>1. /\ t \in Seq(E) /\ Len(t) = Len(s) /\ Len(s) \in Nat
      /\ t[i] = s[j] /\ t[j] = s[i]
      /\ \A k \in 1..Len(s) : k # i /\ k # j => t[k] = s[k]
  BY DEF Swap
<1> HIDE DEF t
<1>2. ToSet(t) = ToSet(s)
  <2>1. ASSUME NEW x PROVE x \in ToSet(t) <=> x \in ToSet(s)
    <3>1. ASSUME NEW k \in 1..Len(s) PROVE \E m \in 1..Len(s) : t[m] = s[k] /\ s[m] = t[k]
      BY <1>1
    <3>2. x \in ToSet(t) <=> \E k \in 1..Len(s) : t[k] = x
      BY <1>1, InSet
    <3>3. x \in ToSet(s) <=> \E k \in 1..Len(s) : s[k] = x
      BY InSet
    <3> QED BY <3>1, <3>2, <3>3
  <2> QED BY <2>1
<1>3. ASSUME Distinct(s) PROVE Distinct(t)
  <2>1. ASSUME NEW k \in 1..Len(s), NEW m \in 1..Len(s), t[k] = t[m] PROVE k = m
    <3>1. \A x, y \in 1..Len(s) : s[x] = s[y] => x = y
      BY <1>3 DEF Distinct
    <3>2. CASE k = i /\ m = j
      BY <1>1, <2>1, <3>1, <3>2
    <3>3. CASE k = j /\ m = i
      BY <1>1, <2>1, <3>1, <3>3
    <3>4. CASE k = m
      BY <3>4
    <3>5. CASE k = i /\ m # i /\ m # j
      BY <1>1, <2>1, <3>1, <3>5
    <3>6. CASE k = j /\ m # i /\ m # j
      BY <1>1, <2>1, <3>1, <3>6
    <3>7. CASE k # i /\ k # j
      BY <1>1, <2>1, <3>1, <3>7
    <3> QED BY <3>2, <3>3, <3>4, <3>5, <3>6, <3>7
  <2> QED BY <1>1, <2>1 DEF Distinct
<1> QED BY <1>1, <1>2, <1>3 DEF t

LEMMA Joining ==
    ASSUME NEW E, NEW a \in Seq(E), NEW b \in Seq(E), NEW c \in Seq(E)
    PROVE  LET t == a \o b \o c IN
           /\ t \in Seq(E) /\ Len(t) = Len(a) + Len(b) + Len(c)
           /\ \A i \in 1..Len(a) : t[i] = a[i]
           /\ \A i \in (Len(a) + 1)..(Len(a) + Len(b)) : t[i] = b[i - Len(a)]
           /\ \A i \in (Len(a) + Len(b) + 1)..Len(t) : t[i] = c[i - Len(a) - Len(b)]
           /\ ToSet(t) = ToSet(a) \cup ToSet(b) \cup ToSet(c)
<1> DEFINE t == a \o b \o c
<1>1. /\ Len(a) \in Nat /\ Len(b) \in Nat /\ Len(c) \in Nat
      /\ t \in Seq(E) /\ Len(t) = Len(a) + Len(b) + Len(c)
  OBVIOUS
<1>2. /\ \A i \in 1..Len(a) : t[i] = a[i]
      /\ \A i \in (Len(a) + 1)..(Len(a) + Len(b)) : t[i] = b[i - Len(a)]
      /\ \A i \in (Len(a) + Len(b) + 1)..Len(t) : t[i] = c[i - Len(a) - Len(b)]
  BY <1>1
<1> HIDE DEF t
<1>3. ASSUME NEW x PROVE x \in ToSet(t) <=> x \in ToSet(a) \cup ToSet(b) \cup ToSet(c)
  <2>1. ASSUME x \in ToSet(t) PROVE x \in ToSet(a) \cup ToSet(b) \cup ToSet(c)
    <3>1. PICK i \in 1..Len(t) : t[i] = x
      BY <1>1, <2>1, InSet
    <3>2. CASE i <= Len(a)
      <4>1. i \in 1..Len(a) /\ a[i] = x
        BY <1>1, <1>2, <3>1, <3>2
      <4> QED BY <4>1, InSet
    <3>3. CASE i > Len(a) /\ i <= Len(a) + Len(b)
      <4>1. i - Len(a) \in 1..Len(b) /\ b[i - Len(a)] = x
        BY <1>1, <1>2, <3>1, <3>3
      <4> QED BY <4>1, InSet
    <3>4. CASE i > Len(a) + Len(b)
      <4>1. i - Len(a) - Len(b) \in 1..Len(c) /\ c[i - Len(a) - Len(b)] = x
        BY <1>1, <1>2, <3>1, <3>4
      <4> QED BY <4>1, InSet
    <3> QED BY <1>1, <3>1, <3>2, <3>3, <3>4
  <2>2. ASSUME x \in ToSet(a) PROVE x \in ToSet(t)
    <3>1. PICK i \in 1..Len(a) : a[i] = x
      BY <2>2, InSet
    <3>2. i \in 1..Len(t) /\ t[i] = x
      BY <1>1, <1>2, <3>1
    <3> QED BY <1>1, <3>2, InSet
  <2>3. ASSUME x \in ToSet(b) PROVE x \in ToSet(t)
    <3>1. PICK i \in 1..Len(b) : b[i] = x
      BY <2>3, InSet
    <3>2. i + Len(a) \in 1..Len(t) /\ t[i + Len(a)] = x
      <4> DEFINE k == i + Len(a)
      <4>1. k \in (Len(a) + 1)..(Len(a) + Len(b)) /\ k - Len(a) = i /\ k \in 1..Len(t)
        BY <1>1
      <4> HIDE DEF k
      <4>2. t[k] = b[k - Len(a)]
        BY <1>2, <4>1
      <4>3. t[k] = x
        BY <3>1, <4>1, <4>2
      <4> QED BY <4>1, <4>3 DEF k
    <3> QED BY <1>1, <3>2, InSet
  <2>4. ASSUME x \in ToSet(c) PROVE x \in ToSet(t)
    <3>1. PICK i \in 1..Len(c) : c[i] = x
      BY <2>4, InSet
    <3> DEFINE k == i + Len(a) + Len(b)
    <3>2. k \in (Len(a) + Len(b) + 1)..Len(t) /\ k - Len(a) - Len(b) = i
      BY <1>1
    <3>3. k \in 1..Len(t) /\ t[k] = x
      BY <1>1, <1>2, <3>1, <3>2
    <3> QED BY <1>1, <3>3, InSet
  <2> QED BY <2>1, <2>2, <2>3, <2>4
<1>4. ToSet(t) = ToSet(a) \cup ToSet(b) \cup ToSet(c)
  BY <1>3
<1> QED BY <1>1, <1>2, <1>4 DEF t

(* Part of a sequence.                                                     *)
LEMMA Cutting ==
    ASSUME NEW E, NEW s \in Seq(E), NEW m \in Nat, NEW n \in Nat,
           m >= 1, n <= Len(s), m <= n + 1
    PROVE  LET t == SubSeq(s, m, n) IN
           /\ t \in Seq(E) /\ Len(t) = n + 1 - m
           /\ \A i \in 1..Len(t) : t[i] = s[m + i - 1] /\ m + i - 1 \in m..n
           /\ \A i \in m..n : s[i] \in ToSet(t)
           /\ \A x \in ToSet(t) : \E i \in m..n : s[i] = x
           /\ Distinct(s) => Distinct(t)
<1> DEFINE t == SubSeq(s, m, n)
<1>1. Len(s) \in Nat /\ m..n \subseteq 1..Len(s)
  OBVIOUS
<1>2. t \in Seq(E) /\ Len(t) = n + 1 - m /\ \A i \in 1..Len(t) : t[i] = s[m + i - 1]
  <2>1. \A i \in m..n : s[i] \in E
    BY <1>1
  <2>2. t = [i \in 1..(n + 1 - m) |-> s[m + i - 1]]
    BY <1>1
  <2>3. n + 1 - m \in Nat /\ \A i \in 1..(n + 1 - m) : m + i - 1 \in m..n
    OBVIOUS
  <2> HIDE DEF t
  <2> QED BY <2>1, <2>2, <2>3
<1> HIDE DEF t
<1>3. ASSUME NEW i \in m..n PROVE s[i] \in ToSet(t)
  <2>1. i + 1 - m \in 1..Len(t) /\ m + (i + 1 - m) - 1 = i
    BY <1>2
  <2>2. t[i + 1 - m] = s[i]
    BY <1>2, <2>1
  <2> QED BY <1>2, <2>1, <2>2, InSet
<1>4. ASSUME NEW i \in 1..Len(t) PROVE m + i - 1 \in m..n
  BY <1>2
<1>5. ASSUME NEW x \in ToSet(t) PROVE \E i \in m..n : s[i] = x
  <2>1. PICK i \in 1..Len(t) : t[i] = x
    BY <1>2, InSet
  <2> QED BY <1>2, <1>4, <2>1
<1>6. ASSUME Distinct(s) PROVE Distinct(t)
  <2>1. ASSUME NEW i \in 1..Len(t), NEW j \in 1..Len(t), t[i] = t[j] PROVE i = j
    <3>1. s[m + i - 1] = s[m + j - 1] /\ m + i - 1 \in 1..Len(s) /\ m + j - 1 \in 1..Len(s)
      BY <1>1, <1>2, <1>4, <2>1
    <3>2. m + i - 1 = m + j - 1
      BY <1>6, <3>1 DEF Distinct
    <3> QED BY <3>2, <1>2
  <2> QED BY <2>1 DEF Distinct
<1> QED BY <1>2, <1>3, <1>4, <1>5, <1>6 DEF t

-------------------------------------------------------------------------------
(* The partition loop *)

LEMMA SwappingStrs ==
    ASSUME NEW s \in Strs, NEW i \in 1..Len(s), NEW j \in 1..Len(s)
    PROVE  /\ Swap(s, i, j) \in Strs /\ Len(Swap(s, i, j)) = Len(s)
           /\ Swap(s, i, j)[i] = s[j] /\ Swap(s, i, j)[j] = s[i]
           /\ \A k \in 1..Len(s) : k # i /\ k # j => Swap(s, i, j)[k] = s[k]
           /\ ToSet(Swap(s, i, j)) = ToSet(s)
           /\ Distinct(s) => Distinct(Swap(s, i, j))
BY Swapping DEF Strs

LEMMA ByteAtType ==
    ASSUME NEW s \in Seq(Nat), NEW pos \in Nat \ {0} PROVE ByteAt(s, pos) \in Nat
<1>1. CASE Len(s) >= pos
  <2>1. Len(s) - pos + 1 \in 1..Len(s)
    BY <1>1
  <2>2. s[Len(s) - pos + 1] \in Nat
    BY <2>1
  <2> QED BY <2>2, <1>1 DEF ByteAt
<1>2. CASE ~(Len(s) >= pos)
  BY <1>2 DEF ByteAt
<1> QED BY <1>1, <1>2

(* What the partition p of the strings s has come to: some strings are     *)
(* above the pivot, some are at it, some are below, and the others are     *)
(* still to be compared.                                                   *)
Parted(p, s, pos, pivot) ==
    /\ p \in [strs : Strs, lower : Nat, upper : Nat, i : Nat]
    /\ Len(p.strs) = Len(s) /\ ToSet(p.strs) = ToSet(s)
    /\ Distinct(s) => Distinct(p.strs)
    /\ p.lower + 2 <= p.i /\ p.i <= p.upper /\ p.upper <= Len(s) + 1
    /\ \A j \in 1..p.lower : ByteAt(p.strs[j], pos) > pivot
    /\ \A j \in (p.lower + 1)..(p.i - 1) : ByteAt(p.strs[j], pos) = pivot
    /\ \A j \in p.upper..Len(s) : ByteAt(p.strs[j], pos) < pivot

LEMMA ClassifyParts ==
    ASSUME NEW s \in Strs, NEW pos \in Nat \ {0}, NEW pivot \in Nat,
           NEW p, Parted(p, s, pos, pivot), p.i < p.upper
    PROVE  LET q == Classify(p, pos, pivot) IN
           Parted(q, s, pos, pivot) /\ q.upper - q.i = p.upper - p.i - 1
<1> DEFINE b == ByteAt(p.strs[p.i], pos)
           q == Classify(p, pos, pivot)
<1>1. /\ p.strs \in Strs /\ p.lower \in Nat /\ p.upper \in Nat /\ p.i \in Nat
      /\ Len(s) \in Nat /\ Len(p.strs) = Len(s) /\ ToSet(p.strs) = ToSet(s)
      /\ Distinct(s) => Distinct(p.strs)
      /\ p.lower + 2 <= p.i /\ p.i < p.upper /\ p.upper <= Len(s) + 1
      /\ p = [strs |-> p.strs, lower |-> p.lower, upper |-> p.upper, i |-> p.i]
  BY DEF Parted, Strs
<1>2. /\ \A j \in 1..p.lower : ByteAt(p.strs[j], pos) > pivot
      /\ \A j \in (p.lower + 1)..(p.i - 1) : ByteAt(p.strs[j], pos) = pivot
      /\ \A j \in p.upper..Len(s) : ByteAt(p.strs[j], pos) < pivot
  BY DEF Parted
<1>3. /\ p.i \in 1..Len(p.strs) /\ p.lower + 1 \in 1..Len(p.strs)
      /\ p.upper - 1 \in 1..Len(p.strs)
  BY <1>1
<1>4. b \in Nat
  <2>1. p.strs[p.i] \in Seq(Nat)
    BY <1>1, <1>3 DEF Strs
  <2> QED BY <2>1, ByteAtType
<1>5. CASE b > pivot
  <2> DEFINE t == Swap(p.strs, p.lower + 1, p.i)
  <2>1. q = [strs |-> t, lower |-> p.lower + 1, upper |-> p.upper, i |-> p.i + 1]
    BY <1>4, <1>5 DEF Classify
  <2>2. /\ t \in Strs /\ Len(t) = Len(s) /\ ToSet(t) = ToSet(s)
        /\ Distinct(s) => Distinct(t)
        /\ t[p.lower + 1] = p.strs[p.i] /\ t[p.i] = p.strs[p.lower + 1]
        /\ \A k \in 1..Len(s) : k # p.lower + 1 /\ k # p.i => t[k] = p.strs[k]
    <3> DEFINE u == p.strs  m == p.lower + 1  n == p.i
    <3>1. u \in Strs /\ m \in 1..Len(u) /\ n \in 1..Len(u)
      BY <1>1, <1>3
    <3> HIDE DEF u, m, n
    <3>2. /\ Swap(u, m, n) \in Strs /\ Len(Swap(u, m, n)) = Len(u)
          /\ Swap(u, m, n)[m] = u[n] /\ Swap(u, m, n)[n] = u[m]
          /\ \A k \in 1..Len(u) : k # m /\ k # n => Swap(u, m, n)[k] = u[k]
          /\ ToSet(Swap(u, m, n)) = ToSet(u)
          /\ Distinct(u) => Distinct(Swap(u, m, n))
      BY <3>1, SwappingStrs
    <3> QED BY <1>1, <3>2 DEF u, m, n
  <2> HIDE DEF t, q
  <2>3. ASSUME NEW j \in 1..(p.lower + 1) PROVE ByteAt(t[j], pos) > pivot
    <3>1. CASE j = p.lower + 1
      BY <1>5, <2>2, <3>1
    <3>2. CASE j # p.lower + 1
      <4>1. j \in 1..p.lower /\ j \in 1..Len(s) /\ j # p.i
        BY <1>1, <3>2
      <4> QED BY <1>2, <2>2, <3>2, <4>1
    <3> QED BY <3>1, <3>2
  <2>4. ASSUME NEW j \in (p.lower + 2)..p.i PROVE ByteAt(t[j], pos) = pivot
    <3>1. CASE j = p.i
      <4>1. p.lower + 1 \in (p.lower + 1)..(p.i - 1)
        BY <1>1
      <4> QED BY <1>2, <2>2, <3>1, <4>1
    <3>2. CASE j # p.i
      <4>1. j \in (p.lower + 1)..(p.i - 1) /\ j \in 1..Len(s) /\ j # p.lower + 1
        BY <1>1, <3>2
      <4> QED BY <1>2, <2>2, <3>2, <4>1
    <3> QED BY <3>1, <3>2
  <2>5. ASSUME NEW j \in p.upper..Len(s) PROVE ByteAt(t[j], pos) < pivot
    <3>1. j \in 1..Len(s) /\ j # p.lower + 1 /\ j # p.i
      BY <1>1
    <3> QED BY <1>2, <2>2, <3>1
  <2>6. /\ q.strs = t /\ q.lower = p.lower + 1 /\ q.upper = p.upper /\ q.i = p.i + 1
        /\ q \in [strs : Strs, lower : Nat, upper : Nat, i : Nat]
    BY <1>1, <2>1, <2>2, SMTT(40)
  <2>7. (p.i + 1) - 1 = p.i /\ (p.lower + 1) + 1 = p.lower + 2
    BY <1>1
  <2>8. Parted(q, s, pos, pivot)
    <3>1. \A j \in 1..q.lower : ByteAt(q.strs[j], pos) > pivot
      BY <2>3, <2>6
    <3>2. \A j \in (q.lower + 1)..(q.i - 1) : ByteAt(q.strs[j], pos) = pivot
      BY <2>4, <2>6, <2>7
    <3>3. \A j \in q.upper..Len(s) : ByteAt(q.strs[j], pos) < pivot
      BY <2>5, <2>6
    <3>4. q.lower + 2 <= q.i /\ q.i <= q.upper /\ q.upper <= Len(s) + 1
      BY <1>1, <2>6
    <3> QED BY <2>2, <2>6, <3>1, <3>2, <3>3, <3>4 DEF Parted
  <2>9. q.upper - q.i = p.upper - p.i - 1
    BY <1>1, <2>6
  <2> QED BY <2>8, <2>9 DEF q
<1>6. CASE b < pivot
  <2> DEFINE t == Swap(p.strs, p.upper - 1, p.i)
  <2>1. q = [strs |-> t, lower |-> p.lower, upper |-> p.upper - 1, i |-> p.i]
    BY <1>4, <1>6 DEF Classify
  <2>2. /\ t \in Strs /\ Len(t) = Len(s) /\ ToSet(t) = ToSet(s)
        /\ Distinct(s) => Distinct(t)
        /\ t[p.upper - 1] = p.strs[p.i] /\ t[p.i] = p.strs[p.upper - 1]
        /\ \A k \in 1..Len(s) : k # p.upper - 1 /\ k # p.i => t[k] = p.strs[k]
    <3> DEFINE u == p.strs  m == p.upper - 1  n == p.i
    <3>1. u \in Strs /\ m \in 1..Len(u) /\ n \in 1..Len(u)
      BY <1>1, <1>3
    <3> HIDE DEF u, m, n
    <3>2. /\ Swap(u, m, n) \in Strs /\ Len(Swap(u, m, n)) = Len(u)
          /\ Swap(u, m, n)[m] = u[n] /\ Swap(u, m, n)[n] = u[m]
          /\ \A k \in 1..Len(u) : k # m /\ k # n => Swap(u, m, n)[k] = u[k]
          /\ ToSet(Swap(u, m, n)) = ToSet(u)
          /\ Distinct(u) => Distinct(Swap(u, m, n))
      BY <3>1, SwappingStrs
    <3> QED BY <1>1, <3>2 DEF u, m, n
  <2> HIDE DEF t, q
  <2>3. ASSUME NEW j \in 1..p.lower PROVE ByteAt(t[j], pos) > pivot
    <3>1. j \in 1..Len(s) /\ j # p.upper - 1 /\ j # p.i
      BY <1>1
    <3> QED BY <1>2, <2>2, <3>1
  <2>4. ASSUME NEW j \in (p.lower + 1)..(p.i - 1) PROVE ByteAt(t[j], pos) = pivot
    <3>1. j \in 1..Len(s) /\ j # p.upper - 1 /\ j # p.i
      BY <1>1
    <3> QED BY <1>2, <2>2, <3>1
  <2>5. ASSUME NEW j \in (p.upper - 1)..Len(s) PROVE ByteAt(t[j], pos) < pivot
    <3>1. CASE j = p.upper - 1
      BY <1>6, <2>2, <3>1
    <3>2. CASE j # p.upper - 1
      <4>1. j \in p.upper..Len(s) /\ j \in 1..Len(s) /\ j # p.i
        BY <1>1, <3>2
      <4> QED BY <1>2, <2>2, <3>2, <4>1
    <3> QED BY <3>1, <3>2
  <2>6. /\ q.strs = t /\ q.lower = p.lower /\ q.upper = p.upper - 1 /\ q.i = p.i
        /\ q \in [strs : Strs, lower : Nat, upper : Nat, i : Nat]
    <3>1. p.upper - 1 \in Nat
      BY <1>1
    <3> QED BY <1>1, <2>1, <2>2, <3>1
  <2>7. Parted(q, s, pos, pivot)
    <3>1. q.lower + 2 <= q.i /\ q.i <= q.upper /\ q.upper <= Len(s) + 1
      BY <1>1, <2>6
    <3> QED BY <2>2, <2>3, <2>4, <2>5, <2>6, <3>1 DEF Parted
  <2>8. q.upper - q.i = p.upper - p.i - 1
    BY <1>1, <2>6
  <2> QED BY <2>7, <2>8 DEF q
<1>7. CASE b = pivot
  <2>1. q = [p EXCEPT !.i = p.i + 1]
    BY <1>4, <1>7 DEF Classify
  <2>2. /\ q.strs = p.strs /\ q.lower = p.lower /\ q.upper = p.upper /\ q.i = p.i + 1
        /\ q \in [strs : Strs, lower : Nat, upper : Nat, i : Nat]
    BY <1>1, <2>1
  <2> HIDE DEF q
  <2>3. ASSUME NEW j \in (p.lower + 1)..p.i PROVE ByteAt(p.strs[j], pos) = pivot
    <3>1. j \in (p.lower + 1)..(p.i - 1) \/ j = p.i
      BY <1>1
    <3> QED BY <1>2, <1>7, <3>1
  <2>4. (p.i + 1) - 1 = p.i
    BY <1>1
  <2>5. Parted(q, s, pos, pivot)
    <3>1. q.lower + 2 <= q.i /\ q.i <= q.upper /\ q.upper <= Len(s) + 1
      BY <1>1, <2>2
    <3> QED BY <1>1, <1>2, <2>2, <2>3, <2>4, <3>1 DEF Parted
  <2>6. q.upper - q.i = p.upper - p.i - 1
    BY <1>1, <2>2
  <2> QED BY <2>5, <2>6 DEF q
<1> QED BY <1>4, <1>5, <1>6, <1>7

(* The loop compares all the strings.                                      *)
LEMMA PartitionParts ==
    ASSUME NEW s \in Strs, Len(s) >= 1, NEW pos \in Nat \ {0}
    PROVE  LET p == Partition(s, pos, ByteAt(s[1], pos)) IN
           Parted(p, s, pos, ByteAt(s[1], pos)) /\ p.i = p.upper
<1> DEFINE pivot == ByteAt(s[1], pos)
           n == Len(s) - 1
           start == [strs |-> s, lower |-> 0, upper |-> Len(s) + 1, i |-> 2]
           R == [strs : Strs, lower : Nat, upper : Nat, i : Nat]
           T == [m \in 0..n |-> {p \in R : Parted(p, s, pos, pivot)
                                          /\ p.upper - p.i = n - m}]
           G == [m \in 1..n |-> [p \in T[m - 1] |-> Classify(p, pos, pivot)]]
           after[m \in 0..n] ==
               IF m = 0 THEN start ELSE Classify(after[m - 1], pos, pivot)
<1>1. Len(s) \in Nat /\ n \in Nat /\ s[1] \in Seq(Nat) /\ pivot \in Nat
  <2>1. Len(s) \in Nat /\ n \in Nat /\ s[1] \in Seq(Nat)
    BY DEF Strs
  <2> QED BY <2>1, ByteAtType
<1>2. start \in T[0]
  <2>1. /\ start.strs = s /\ start.lower = 0 /\ start.upper = Len(s) + 1
        /\ start.i = 2 /\ start \in R /\ start.upper - start.i = n - 0
    BY <1>1
  <2>2. Parted(start, s, pos, pivot)
    <3> HIDE DEF start, pivot
    <3>1. \A j \in (start.lower + 1)..(start.i - 1) : ByteAt(start.strs[j], pos) = pivot
      BY <2>1 DEF pivot
    <3>2. /\ start.lower + 2 <= start.i /\ start.i <= start.upper
          /\ start.upper <= Len(s) + 1
          /\ 1..start.lower = {} /\ start.upper..Len(s) = {}
      BY <1>1, <2>1
    <3> QED BY <2>1, <3>1, <3>2 DEF Parted
  <2>3. 0 \in 0..n
    BY <1>1
  <2> HIDE DEF start, R, n
  <2> QED BY <2>1, <2>2, <2>3
<1>3. ASSUME NEW m \in 1..n, NEW p \in T[m - 1] PROVE Classify(p, pos, pivot) \in T[m]
  <2> DEFINE q == Classify(p, pos, pivot)
  <2>1. m - 1 \in 0..n /\ m \in 0..n /\ m \in Nat
    BY <1>1
  <2>2. p \in R /\ Parted(p, s, pos, pivot) /\ p.upper - p.i = n - (m - 1)
    BY <2>1
  <2>3. p.i < p.upper
    BY <1>1, <2>1, <2>2
  <2>4. Parted(q, s, pos, pivot) /\ q.upper - q.i = p.upper - p.i - 1
    BY <1>1, <2>2, <2>3, ClassifyParts
  <2>5. q \in R
    BY <2>4 DEF Parted
  <2>6. q.upper - q.i = n - m
    BY <1>1, <2>1, <2>2, <2>4
  <2> HIDE DEF q, n, R
  <2>7. q \in T[m]
    BY <2>1, <2>4, <2>5, <2>6
  <2> QED BY <2>7 DEF q
<1> HIDE DEF start, R, T, n, pivot
<1>4. \E f : f = [m \in 0..n |-> IF m = 0 THEN start ELSE Classify(f[m - 1], pos, pivot)]
  <2>1. \A m \in 1..n : \A p \in T[m - 1] : G[m][p] \in T[m]
    BY <1>3
  <2>2. \A m \in 0..n : T[m] \subseteq R
    BY DEF T
  <2>3. Leads(n, R, T, G, start)
    <3> HIDE DEF G, after
    <3> QED BY <1>2, <2>1, <2>2 DEF Leads
  <2>4. PICK f : Solves(f, n, R, T, G, start)
    <3> HIDE DEF G, after
    <3>1. \E f : Solves(f, n, R, T, G, start)
      BY <1>1, <2>3, Iterates
    <3> QED BY <3>1
  <2> USE DEF Solves
  <2>5. ASSUME NEW m \in 0..n
        PROVE  f[m] = IF m = 0 THEN start ELSE Classify(f[m - 1], pos, pivot)
    <3>1. CASE m = 0
      BY <2>4, <3>1
    <3>2. CASE m # 0
      <4>1. m \in 1..n /\ m - 1 \in 0..n
        BY <1>1, <3>2
      <4>2. G[m][f[m - 1]] = Classify(f[m - 1], pos, pivot)
        BY <2>4, <4>1
      <4> HIDE DEF G
      <4> QED BY <2>4, <3>2, <4>1, <4>2
    <3> QED BY <3>1, <3>2
  <2>6. f = [m \in 0..n |-> f[m]]
    <3>1. f \in [0..n -> R]
      BY <2>4
    <3> QED BY <3>1
  <2> QED BY <2>5, <2>6
<1>5. after = [m \in 0..n |-> IF m = 0 THEN start ELSE Classify(after[m - 1], pos, pivot)]
  BY <1>4
<1>6. Partition(s, pos, pivot) = after[n]
  BY DEF Partition, start, n
<1> HIDE DEF after
<1>7. \A m \in 0..n : after[m] \in T[m]
  <2>1. \A m \in 0..n :
            after[m] = IF m = 0 THEN start ELSE Classify(after[m - 1], pos, pivot)
    BY <1>5
  <2>2. after[0] \in T[0]
    BY <1>1, <1>2, <2>1
  <2>3. ASSUME NEW m \in 1..n, after[m - 1] \in T[m - 1] PROVE after[m] \in T[m]
    <3>1. m \in 0..n /\ m # 0
      BY <1>1
    <3> QED BY <1>3, <2>1, <2>3, <3>1
  <2> QED BY <1>1, <2>2, <2>3, Stays
<1>8. after[n] \in T[n] /\ n \in 0..n
  BY <1>1, <1>7
<1> DEFINE p == after[n]
<1>9. p \in R /\ Parted(p, s, pos, pivot) /\ p.upper - p.i = n - n
  BY <1>8 DEF T
<1>10. p.i = p.upper
  BY <1>1, <1>9 DEF R
<1> QED BY <1>6, <1>9, <1>10 DEF pivot

-------------------------------------------------------------------------------
(* The sort *)

(* The string s comes before t, going by the bytes from pos on.            *)
Before(s, t, pos) ==
    \E k \in Nat : /\ k >= pos /\ ByteAt(s, k) > ByteAt(t, k)
                   /\ \A j \in pos..(k - 1) : ByteAt(s, j) = ByteAt(t, j)

Ordered(s, pos) == \A i, j \in 1..Len(s) : i < j => Before(s[i], s[j], pos)

(* Strings without null bytes.                                             *)
Names(S) == \A x \in S : x \in Seq(Nat \ {0}) /\ Len(x) <= MaxLen

(* Strings that do not differ in the bytes up to pos.                      *)
Alike(S, pos) ==
    \A x, y \in S : \A k \in 1..(pos - 1) : ByteAt(x, k) = ByteAt(y, k)

(* What a recursion of depth d sorts.                                      *)
Sortable(s, pos, d) ==
    /\ Distinct(s) /\ Names(ToSet(s)) /\ Alike(ToSet(s), pos)
    /\ Len(s) + MaxLen + 1 <= d + pos /\ pos <= MaxLen + 1

Sorts(f, d) ==
    /\ f \in [Jobs -> Strs]
    /\ \A job \in Jobs :
           /\ ToSet(f[job]) = ToSet(job.strs)
           /\ Sortable(job.strs, job.pos, d) => Ordered(f[job], job.pos)

LEMMA SortsJob ==
    ASSUME NEW f, NEW d, Sorts(f, d), NEW s \in Strs, NEW pos \in Nat \ {0}
    PROVE  /\ f[Job(s, pos)] \in Strs /\ ToSet(f[Job(s, pos)]) = ToSet(s)
           /\ Sortable(s, pos, d) => Ordered(f[Job(s, pos)], pos)
<1>1. Job(s, pos) \in Jobs /\ Job(s, pos).strs = s /\ Job(s, pos).pos = pos
  BY DEF Job, Jobs, Strs
<1> QED BY <1>1 DEF Sorts

LEMMA BeforeAtOnce ==
    ASSUME NEW x, NEW y, NEW pos \in Nat, ByteAt(x, pos) > ByteAt(y, pos)
    PROVE  Before(x, y, pos)
<1>1. pos..(pos - 1) = {}
  OBVIOUS
<1> QED BY <1>1 DEF Before

LEMMA BeforeLater ==
    ASSUME NEW x, NEW y, NEW pos \in Nat, ByteAt(x, pos) = ByteAt(y, pos),
           Before(x, y, pos + 1)
    PROVE  Before(x, y, pos)
<1>1. PICK k \in Nat :
          /\ k >= pos + 1 /\ ByteAt(x, k) > ByteAt(y, k)
          /\ \A j \in (pos + 1)..(k - 1) : ByteAt(x, j) = ByteAt(y, j)
  BY DEF Before
<1>2. k >= pos /\ \A j \in pos..(k - 1) : j = pos \/ j \in (pos + 1)..(k - 1)
  BY <1>1
<1> QED BY <1>1, <1>2 DEF Before

LEMMA NameByte ==
    ASSUME NEW x \in Seq(Nat \ {0}), NEW k \in Nat \ {0}
    PROVE  /\ x \in Seq(Nat) /\ Len(x) \in Nat
           /\ ByteAt(x, k) # 0 <=> k <= Len(x)
           /\ k <= Len(x) => ByteAt(x, k) = x[Len(x) - k + 1]
<1>1. x \in Seq(Nat) /\ Len(x) \in Nat
  OBVIOUS
<1>2. CASE k <= Len(x)
  <2>1. Len(x) - k + 1 \in 1..Len(x)
    BY <1>1, <1>2
  <2>2. x[Len(x) - k + 1] \in Nat \ {0}
    BY <2>1
  <2> QED BY <1>1, <1>2, <2>2 DEF ByteAt
<1>3. CASE ~(k <= Len(x))
  BY <1>1, <1>3 DEF ByteAt
<1> QED BY <1>1, <1>2, <1>3

(* Strings that have the same bytes are the same.                          *)
LEMMA SameBytes ==
    ASSUME NEW x \in Seq(Nat \ {0}), NEW y \in Seq(Nat \ {0}),
           \A k \in 1..(Len(x) + 1) : ByteAt(x, k) = ByteAt(y, k)
    PROVE  x = y
<1>1. Len(x) \in Nat /\ Len(y) \in Nat
  OBVIOUS
<1>2. Len(x) = Len(y)
  <2>1. ByteAt(x, Len(x) + 1) = 0 /\ ByteAt(y, Len(x) + 1) = 0
    <3>1. Len(x) + 1 \in 1..(Len(x) + 1) /\ Len(x) + 1 \in Nat \ {0}
      BY <1>1
    <3>2. ByteAt(x, Len(x) + 1) = 0
      BY <1>1, <3>1, NameByte
    <3> QED BY <3>1, <3>2
  <2>2. ~(Len(x) + 1 <= Len(y))
    <3>1. Len(x) + 1 \in Nat \ {0}
      BY <1>1
    <3> QED BY <2>1, <3>1, NameByte
  <2>3. CASE Len(x) = 0
    BY <1>1, <2>2, <2>3
  <2>4. CASE Len(x) # 0
    <3>1. Len(x) \in 1..(Len(x) + 1) /\ Len(x) \in Nat \ {0}
      BY <1>1, <2>4
    <3>2. ByteAt(x, Len(x)) # 0
      BY <1>1, <3>1, NameByte
    <3>3. Len(x) <= Len(y)
      BY <3>1, <3>2, NameByte
    <3> QED BY <1>1, <2>2, <3>3
  <2> QED BY <2>3, <2>4
<1>3. ASSUME NEW i \in 1..Len(x) PROVE x[i] = y[i]
  <2> DEFINE k == Len(x) - i + 1
  <2>1. k \in Nat \ {0} /\ k <= Len(x) /\ k \in 1..(Len(x) + 1) /\ Len(x) - k + 1 = i
    BY <1>1
  <2> HIDE DEF k
  <2>2. ByteAt(x, k) = x[i]
    BY <2>1, NameByte
  <2>3. ByteAt(y, k) = y[i]
    BY <1>2, <2>1, NameByte
  <2> QED BY <2>1, <2>2, <2>3
<1> DEFINE E == Nat \ {0}
<1>4. x \in Seq(E) /\ y \in Seq(E)
  OBVIOUS
<1> HIDE DEF E
<1> QED BY <1>2, <1>3, <1>4, SeqEqual

LEMMA JoinedOrder ==
    ASSUME NEW a \in Strs, NEW b \in Strs, NEW c \in Strs, NEW pos,
           Ordered(a, pos), Ordered(b, pos), Ordered(c, pos),
           \A x \in ToSet(a), y \in ToSet(b) : Before(x, y, pos),
           \A x \in ToSet(a), y \in ToSet(c) : Before(x, y, pos),
           \A x \in ToSet(b), y \in ToSet(c) : Before(x, y, pos)
    PROVE  Ordered(a \o b \o c, pos)
<1> DEFINE t == a \o b \o c
           l == Len(a)
           m == Len(a) + Len(b)
<1>1. /\ Len(a) \in Nat /\ Len(b) \in Nat /\ Len(c) \in Nat
      /\ Len(t) = Len(a) + Len(b) + Len(c)
      /\ \A i \in 1..l : t[i] = a[i]
      /\ \A i \in (l + 1)..m : t[i] = b[i - l]
      /\ \A i \in (m + 1)..Len(t) : t[i] = c[i - Len(a) - Len(b)]
  <2> DEFINE E == Seq(Nat)
  <2>1. a \in Seq(E) /\ b \in Seq(E) /\ c \in Seq(E)
    BY DEF Strs
  <2> HIDE DEF E
  <2>2. Len(a) \in Nat /\ Len(b) \in Nat /\ Len(c) \in Nat
    BY <2>1
  <2> QED BY <2>1, <2>2, Joining
<1> HIDE DEF t
<1>2. ASSUME NEW i \in 1..l PROVE t[i] = a[i] /\ t[i] \in ToSet(a)
  BY <1>1, InSet DEF Strs
<1>3. ASSUME NEW i \in (l + 1)..m
      PROVE  t[i] = b[i - l] /\ i - l \in 1..Len(b) /\ t[i] \in ToSet(b)
  <2>1. t[i] = b[i - l] /\ i - l \in 1..Len(b)
    BY <1>1
  <2> QED BY <2>1, InSet DEF Strs
<1>4. ASSUME NEW i \in (m + 1)..Len(t)
      PROVE  t[i] = c[i - m] /\ i - m \in 1..Len(c) /\ t[i] \in ToSet(c)
  <2>1. i - m = i - Len(a) - Len(b)
    BY <1>1
  <2>2. t[i] = c[i - m] /\ i - m \in 1..Len(c)
    BY <1>1, <2>1
  <2> QED BY <2>2, InSet DEF Strs
<1>5. ASSUME NEW i \in 1..Len(t), NEW j \in 1..Len(t), i < j
      PROVE  Before(t[i], t[j], pos)
  <2>0. /\ i \in 1..l \/ i \in (l + 1)..m \/ i \in (m + 1)..Len(t)
        /\ j \in 1..l \/ j \in (l + 1)..m \/ j \in (m + 1)..Len(t)
    BY <1>1
  <2> HIDE DEF m
  <2>1. CASE j \in 1..l
    <3>1. i \in 1..l
      BY <1>1, <1>5, <2>1
    <3> QED BY <1>2, <1>5, <2>1, <3>1 DEF Ordered
  <2>2. CASE i \in 1..l /\ j \in (l + 1)..m
    BY <1>2, <1>3, <2>2
  <2>3. CASE i \in 1..l /\ j \in (m + 1)..Len(t)
    BY <1>2, <1>4, <2>3
  <2>4. CASE i \in (l + 1)..m /\ j \in (l + 1)..m
    <3>1. i - l < j - l
      BY <1>1, <1>5
    <3>2. t[i] = b[i - l] /\ t[j] = b[j - l] /\ i - l \in 1..Len(b) /\ j - l \in 1..Len(b)
      BY <1>3, <2>4
    <3> QED BY <3>1, <3>2 DEF Ordered
  <2>5. CASE i \in (l + 1)..m /\ j \in (m + 1)..Len(t)
    BY <1>3, <1>4, <2>5
  <2>6. CASE i \in (m + 1)..Len(t) /\ j \in (m + 1)..Len(t)
    <3>1. i - m < j - m
      BY <1>1, <1>5 DEF m
    <3>2. t[i] = c[i - m] /\ t[j] = c[j - m] /\ i - m \in 1..Len(c) /\ j - m \in 1..Len(c)
      BY <1>4, <2>6
    <3> QED BY <3>1, <3>2 DEF Ordered
  <2>7. ~(i \in (m + 1)..Len(t) /\ j \in (l + 1)..m)
    <3>1. ASSUME i \in (m + 1)..Len(t), j \in (l + 1)..m PROVE FALSE
      BY <1>1, <1>5, <3>1 DEF m
    <3> QED BY <3>1
  <2> QED BY <2>0, <2>1, <2>2, <2>3, <2>4, <2>5, <2>6, <2>7
<1> QED BY <1>5 DEF Ordered, t

(* The three parts of strings that the recursion sorts.                    *)
Splits(s, pos, pivot, above, equal, below) ==
    /\ above \in Strs /\ equal \in Strs /\ below \in Strs
    /\ Len(above) < Len(s) /\ Len(equal) <= Len(s) /\ Len(below) < Len(s)
    /\ ToSet(above) \cup ToSet(equal) \cup ToSet(below) = ToSet(s)
    /\ Distinct(s) => Distinct(above) /\ Distinct(equal) /\ Distinct(below)
    /\ \A x \in ToSet(above) : ByteAt(x, pos) > pivot
    /\ \A x \in ToSet(equal) : ByteAt(x, pos) = pivot
    /\ \A x \in ToSet(below) : ByteAt(x, pos) < pivot

LEMMA CuttingStrs ==
    ASSUME NEW s \in Strs, NEW m \in Nat, NEW n \in Nat,
           m >= 1, n <= Len(s), m <= n + 1
    PROVE  LET t == SubSeq(s, m, n) IN
           /\ t \in Strs /\ Len(t) = n + 1 - m
           /\ \A i \in m..n : s[i] \in ToSet(t)
           /\ \A x \in ToSet(t) : \E i \in m..n : s[i] = x
           /\ Distinct(s) => Distinct(t)
<1> DEFINE E == Seq(Nat)
<1>1. s \in Seq(E) /\ Strs = Seq(E)
  BY DEF Strs
<1> HIDE DEF E
<1> QED BY <1>1, Cutting

LEMMA PartsSplit ==
    ASSUME NEW s \in Strs, Len(s) > 1, NEW pos \in Nat \ {0}
    PROVE  LET pivot == ByteAt(s[1], pos)
               p     == Partition(s, pos, pivot)
           IN  Splits(s, pos, pivot, SubSeq(p.strs, 1, p.lower),
                      SubSeq(p.strs, p.lower + 1, p.upper - 1),
                      SubSeq(p.strs, p.upper, Len(s)))
<1> DEFINE pivot == ByteAt(s[1], pos)
           p == Partition(s, pos, pivot)
           u == p.strs
           l == p.lower
           r == p.upper
           n == Len(s)
<1>1. Parted(p, s, pos, pivot) /\ p.i = p.upper
  BY PartitionParts
<1> HIDE DEF pivot, p
<1>2. /\ u \in Strs /\ l \in Nat /\ r \in Nat /\ n \in Nat
      /\ Len(u) = n /\ ToSet(u) = ToSet(s) /\ (Distinct(s) => Distinct(u))
      /\ l + 2 <= r /\ r <= n + 1
      /\ \A j \in 1..l : ByteAt(u[j], pos) > pivot
      /\ \A j \in (l + 1)..(r - 1) : ByteAt(u[j], pos) = pivot
      /\ \A j \in r..n : ByteAt(u[j], pos) < pivot
  BY <1>1 DEF Parted, Strs
<1> HIDE DEF u, l, r, n
<1> DEFINE above == SubSeq(u, 1, l)
           equal == SubSeq(u, l + 1, r - 1)
           below == SubSeq(u, r, n)
<1>3. /\ above \in Strs /\ Len(above) = l + 1 - 1
      /\ \A i \in 1..l : u[i] \in ToSet(above)
      /\ \A x \in ToSet(above) : \E i \in 1..l : u[i] = x
      /\ Distinct(u) => Distinct(above)
  <2>1. u \in Strs /\ l \in Nat /\ 1 \in Nat /\ 1 >= 1 /\ l <= Len(u) /\ 1 <= l + 1
    BY <1>2
  <2> QED BY <2>1, CuttingStrs
<1>4. /\ equal \in Strs /\ Len(equal) = (r - 1) + 1 - (l + 1)
      /\ \A i \in (l + 1)..(r - 1) : u[i] \in ToSet(equal)
      /\ \A x \in ToSet(equal) : \E i \in (l + 1)..(r - 1) : u[i] = x
      /\ Distinct(u) => Distinct(equal)
  <2>1. /\ u \in Strs /\ l + 1 \in Nat /\ r - 1 \in Nat /\ l + 1 >= 1
        /\ r - 1 <= Len(u) /\ l + 1 <= (r - 1) + 1
    BY <1>2
  <2> QED BY <2>1, CuttingStrs
<1>5. /\ below \in Strs /\ Len(below) = n + 1 - r
      /\ \A i \in r..n : u[i] \in ToSet(below)
      /\ \A x \in ToSet(below) : \E i \in r..n : u[i] = x
      /\ Distinct(u) => Distinct(below)
  <2>1. u \in Strs /\ r \in Nat /\ n \in Nat /\ r >= 1 /\ n <= Len(u) /\ r <= n + 1
    BY <1>2
  <2> QED BY <2>1, CuttingStrs
<1> HIDE DEF above, equal, below
<1>6. Len(above) < n /\ Len(equal) <= n /\ Len(below) < n
  BY <1>2, <1>3, <1>4, <1>5
<1>7. \A x : x \in ToSet(u) <=> \E i \in 1..n : u[i] = x
  BY <1>2, InSet DEF Strs
<1>8. \A i : i \in 1..n <=> i \in 1..l \/ i \in (l + 1)..(r - 1) \/ i \in r..n
  BY <1>2
<1>9. ToSet(above) \cup ToSet(equal) \cup ToSet(below) = ToSet(u)
  <2>1. ASSUME NEW x \in ToSet(u)
        PROVE  x \in ToSet(above) \cup ToSet(equal) \cup ToSet(below)
    <3>1. PICK i \in 1..n : u[i] = x
      BY <1>7
    <3> QED BY <1>3, <1>4, <1>5, <1>8, <3>1
  <2>2. ASSUME NEW x \in ToSet(above) \cup ToSet(equal) \cup ToSet(below)
        PROVE  x \in ToSet(u)
    <3>1. \E i \in 1..n : u[i] = x
      BY <1>3, <1>4, <1>5, <1>8
    <3> QED BY <1>7, <3>1
  <2> QED BY <2>1, <2>2
<1>10. /\ \A x \in ToSet(above) : ByteAt(x, pos) > pivot
       /\ \A x \in ToSet(equal) : ByteAt(x, pos) = pivot
       /\ \A x \in ToSet(below) : ByteAt(x, pos) < pivot
  BY <1>2, <1>3, <1>4, <1>5
<1>11. Splits(s, pos, pivot, above, equal, below)
  BY <1>2, <1>3, <1>4, <1>5, <1>6, <1>9, <1>10 DEF Splits, n
<1> QED BY <1>11 DEF above, equal, below, u, l, r, n, p, pivot

(* The parts are sortable one level further down.                          *)
LEMMA PartsSortable ==
    ASSUME NEW d \in Nat, NEW s \in Strs, NEW pos \in Nat \ {0}, NEW pivot \in Nat,
           NEW above, NEW equal, NEW below, Splits(s, pos, pivot, above, equal, below),
           Sortable(s, pos, d + 1), \E x \in ToSet(s) : ByteAt(x, pos) = pivot
    PROVE  /\ Sortable(above, pos, d) /\ Sortable(below, pos, d)
           /\ pivot # 0 => Sortable(equal, pos + 1, d)
<1>1. /\ ToSet(above) \subseteq ToSet(s) /\ ToSet(equal) \subseteq ToSet(s)
      /\ ToSet(below) \subseteq ToSet(s)
      /\ Len(s) \in Nat /\ Len(above) \in Nat /\ Len(equal) \in Nat /\ Len(below) \in Nat
      /\ Len(above) < Len(s) /\ Len(equal) <= Len(s) /\ Len(below) < Len(s)
      /\ Distinct(above) /\ Distinct(equal) /\ Distinct(below)
      /\ \A x \in ToSet(equal) : ByteAt(x, pos) = pivot
  BY DEF Splits, Strs, Sortable
<1>2. /\ Names(ToSet(s)) /\ Alike(ToSet(s), pos) /\ MaxLen \in Nat
      /\ Len(s) + MaxLen + 1 <= (d + 1) + pos /\ pos <= MaxLen + 1
  BY StringTableAssumption DEF Sortable
<1>3. ASSUME NEW S, S \subseteq ToSet(s) PROVE Names(S) /\ Alike(S, pos)
  BY <1>2, <1>3 DEF Names, Alike
<1>4. Sortable(above, pos, d) /\ Sortable(below, pos, d)
  <2>1. Len(above) + MaxLen + 1 <= d + pos /\ Len(below) + MaxLen + 1 <= d + pos
    BY <1>1, <1>2
  <2> QED BY <1>1, <1>2, <1>3, <2>1 DEF Sortable
<1>5. ASSUME pivot # 0 PROVE Sortable(equal, pos + 1, d)
  <2>1. pos <= MaxLen
    <3>1. PICK x \in ToSet(s) : ByteAt(x, pos) = pivot
      OBVIOUS
    <3>2. x \in Seq(Nat \ {0}) /\ Len(x) <= MaxLen
      BY <1>2, <3>1 DEF Names
    <3>3. pos <= Len(x) /\ Len(x) \in Nat
      BY <1>5, <3>1, <3>2, NameByte
    <3> QED BY <1>2, <3>2, <3>3
  <2>2. Alike(ToSet(equal), pos + 1)
    <3>1. ASSUME NEW x \in ToSet(equal), NEW y \in ToSet(equal), NEW k \in 1..((pos + 1) - 1)
          PROVE  ByteAt(x, k) = ByteAt(y, k)
      <4>1. k = pos \/ k \in 1..(pos - 1)
        OBVIOUS
      <4>2. Alike(ToSet(equal), pos)
        BY <1>1, <1>3
      <4> QED BY <1>1, <4>1, <4>2 DEF Alike
    <3> QED BY <3>1 DEF Alike
  <2>3. Len(equal) + MaxLen + 1 <= d + (pos + 1) /\ pos + 1 <= MaxLen + 1
    BY <1>1, <1>2, <2>1
  <2> QED BY <1>1, <1>3, <2>2, <2>3 DEF Sortable
<1> QED BY <1>4, <1>5

(* A string without bytes from pos on is known by its bytes before pos.    *)
LEMMA AllTheSame ==
    ASSUME NEW s \in Strs, NEW pos \in Nat \ {0}, Distinct(s), Names(ToSet(s)),
           Alike(ToSet(s), pos), \A x \in ToSet(s) : ByteAt(x, pos) = 0
    PROVE  Ordered(s, pos)
<1>1. ASSUME NEW x \in ToSet(s), NEW y \in ToSet(s) PROVE x = y
  <2>1. x \in Seq(Nat \ {0}) /\ y \in Seq(Nat \ {0})
    BY DEF Names
  <2>2. ~(pos <= Len(x)) /\ Len(x) \in Nat
    BY <2>1, NameByte
  <2>3. ASSUME NEW k \in 1..(Len(x) + 1) PROVE ByteAt(x, k) = ByteAt(y, k)
    <3>1. k = pos \/ k \in 1..(pos - 1)
      BY <2>2
    <3> QED BY <3>1 DEF Alike
  <2> QED BY <2>1, <2>3, SameBytes
<1>2. \A i \in 1..Len(s) : s[i] \in ToSet(s)
  BY InSet DEF Strs
<1>3. \A i, j \in 1..Len(s) : i = j
  BY <1>1, <1>2 DEF Distinct
<1>4. ASSUME NEW i \in 1..Len(s), NEW j \in 1..Len(s) PROVE ~(i < j)
  <2>1. i = j
    BY <1>3
  <2> QED BY <2>1
<1> QED BY <1>4 DEF Ordered

(* Strings alike at pos that are in order by their bytes after pos.        *)
LEMMA OrderedLater ==
    ASSUME NEW s \in Strs, NEW pos \in Nat \ {0}, NEW pivot, Ordered(s, pos + 1),
           \A x \in ToSet(s) : ByteAt(x, pos) = pivot
    PROVE  Ordered(s, pos)
<1>1. \A i \in 1..Len(s) : s[i] \in ToSet(s)
  BY InSet DEF Strs
<1>2. ASSUME NEW i \in 1..Len(s), NEW j \in 1..Len(s), i < j
      PROVE  Before(s[i], s[j], pos)
  <2>1. Before(s[i], s[j], pos + 1)
    BY <1>2 DEF Ordered
  <2>2. ByteAt(s[i], pos) = ByteAt(s[j], pos)
    BY <1>1
  <2> QED BY <2>1, <2>2, BeforeLater
<1> QED BY <1>2 DEF Ordered

LEMMA SortWithSorts ==
    ASSUME NEW d \in Nat, NEW f, Sorts(f, d), NEW s \in Strs, NEW pos \in Nat \ {0}
    PROVE  /\ SortWith(f, s, pos) \in Strs /\ ToSet(SortWith(f, s, pos)) = ToSet(s)
           /\ Sortable(s, pos, d + 1) => Ordered(SortWith(f, s, pos), pos)
<1>1. CASE Len(s) <= 1
  <2>1. SortWith(f, s, pos) = s
    BY <1>1 DEF SortWith
  <2>2. ASSUME NEW i \in 1..Len(s), NEW j \in 1..Len(s) PROVE ~(i < j)
    BY <1>1 DEF Strs
  <2> QED BY <2>1, <2>2 DEF Ordered
<1>2. CASE ~(Len(s) <= 1)
  <2> DEFINE pivot == ByteAt(s[1], pos)
             p == Partition(s, pos, pivot)
             above == SubSeq(p.strs, 1, p.lower)
             equal == SubSeq(p.strs, p.lower + 1, p.upper - 1)
             below == SubSeq(p.strs, p.upper, Len(s))
             a == f[Job(above, pos)]
             e == IF pivot = 0 THEN equal ELSE f[Job(equal, pos + 1)]
             b == f[Job(below, pos)]
  <2>1. SortWith(f, s, pos) = a \o e \o b
    BY <1>2 DEF SortWith
  <2>2. Splits(s, pos, pivot, above, equal, below)
    <3>1. Len(s) > 1
      BY <1>2 DEF Strs
    <3> QED BY <3>1, PartsSplit
  <2>3. pivot \in Nat /\ s[1] \in ToSet(s)
    <3>1. 1 \in 1..Len(s) /\ s[1] \in Seq(Nat)
      BY <1>2 DEF Strs
    <3>2. s[1] \in ToSet(s)
      BY <3>1, InSet DEF Strs
    <3> QED BY <3>1, <3>2, ByteAtType
  <2>4. \E x \in ToSet(s) : ByteAt(x, pos) = pivot
    BY <2>3
  <2> HIDE DEF pivot, p, above, equal, below
  <2>5. above \in Strs /\ equal \in Strs /\ below \in Strs /\ pos + 1 \in Nat \ {0}
    BY <2>2 DEF Splits
  <2>6. /\ a \in Strs /\ ToSet(a) = ToSet(above)
        /\ Sortable(above, pos, d) => Ordered(a, pos)
    BY <2>5, SortsJob
  <2>7. /\ b \in Strs /\ ToSet(b) = ToSet(below)
        /\ Sortable(below, pos, d) => Ordered(b, pos)
    BY <2>5, SortsJob
  <2>8. /\ e \in Strs /\ ToSet(e) = ToSet(equal)
        /\ pivot # 0 /\ Sortable(equal, pos + 1, d) => Ordered(e, pos + 1)
    <3>1. CASE pivot = 0
      BY <2>5, <3>1
    <3>2. CASE pivot # 0
      <4>1. e = f[Job(equal, pos + 1)]
        BY <3>2
      <4> HIDE DEF e
      <4> QED BY <2>5, <4>1, SortsJob
    <3> QED BY <3>1, <3>2
  <2>9. pivot = 0 => e = equal
    OBVIOUS
  <2> HIDE DEF a, b, e
  <2>10. a \o e \o b \in Strs /\ ToSet(a \o e \o b) = ToSet(s)
    <3>1. /\ a \o e \o b \in Strs
          /\ ToSet(a \o e \o b) = ToSet(a) \cup ToSet(e) \cup ToSet(b)
      <4> DEFINE E == Seq(Nat)
      <4>1. a \in Seq(E) /\ e \in Seq(E) /\ b \in Seq(E) /\ Strs = Seq(E)
        BY <2>6, <2>7, <2>8 DEF Strs
      <4> HIDE DEF E
      <4> QED BY <4>1, Joining
    <3> QED BY <2>2, <2>6, <2>7, <2>8, <3>1 DEF Splits
  <2>11. ASSUME Sortable(s, pos, d + 1) PROVE Ordered(a \o e \o b, pos)
    <3>1. /\ Sortable(above, pos, d) /\ Sortable(below, pos, d)
          /\ pivot # 0 => Sortable(equal, pos + 1, d)
      BY <2>2, <2>3, <2>4, <2>11, PartsSortable
    <3>2. Ordered(a, pos) /\ Ordered(b, pos)
      BY <2>6, <2>7, <3>1
    <3>3. Ordered(e, pos)
      <4>1. \A x \in ToSet(equal) : ByteAt(x, pos) = pivot
        BY <2>2 DEF Splits
      <4>2. CASE pivot = 0
        <5>1. Distinct(equal) /\ ToSet(equal) \subseteq ToSet(s)
          BY <2>2, <2>11 DEF Splits, Sortable
        <5>2. Names(ToSet(equal)) /\ Alike(ToSet(equal), pos)
          BY <2>11, <5>1 DEF Sortable, Names, Alike
        <5>3. Ordered(equal, pos)
          BY <2>5, <4>1, <4>2, <5>1, <5>2, AllTheSame
        <5> QED BY <2>9, <4>2, <5>3
      <4>3. CASE pivot # 0
        <5>1. Ordered(e, pos + 1)
          BY <2>8, <3>1, <4>3
        <5> QED BY <2>8, <4>1, <5>1, OrderedLater
      <4> QED BY <4>2, <4>3
    <3>4. /\ \A x \in ToSet(a), y \in ToSet(e) : Before(x, y, pos)
          /\ \A x \in ToSet(a), y \in ToSet(b) : Before(x, y, pos)
          /\ \A x \in ToSet(e), y \in ToSet(b) : Before(x, y, pos)
      <4>1. /\ \A x \in ToSet(a) : ByteAt(x, pos) > pivot
            /\ \A x \in ToSet(e) : ByteAt(x, pos) = pivot
            /\ \A x \in ToSet(b) : ByteAt(x, pos) < pivot
        BY <2>2, <2>6, <2>7, <2>8 DEF Splits
      <4>2. \A x \in ToSet(s) : ByteAt(x, pos) \in Nat
        <5>1. \A x \in ToSet(s) : x \in Seq(Nat)
          BY InSet DEF Strs
        <5> QED BY <5>1, ByteAtType
      <4>3. ToSet(a) \subseteq ToSet(s) /\ ToSet(b) \subseteq ToSet(s)
        BY <2>2, <2>6, <2>7 DEF Splits
      <4>4. \A x \in ToSet(a), y \in ToSet(e) : ByteAt(x, pos) > ByteAt(y, pos)
        BY <4>1
      <4>5. \A x \in ToSet(e), y \in ToSet(b) : ByteAt(x, pos) > ByteAt(y, pos)
        BY <4>1, <4>2, <4>3, <2>3
      <4>6. \A x \in ToSet(a), y \in ToSet(b) : ByteAt(x, pos) > ByteAt(y, pos)
        BY <4>1, <4>2, <4>3, <2>3
      <4> QED BY <4>4, <4>5, <4>6, BeforeAtOnce
    <3> QED BY <2>6, <2>7, <2>8, <3>2, <3>3, <3>4, JoinedOrder
  <2> QED BY <2>1, <2>10, <2>11
<1> QED BY <1>1, <1>2

LEMMA SortsNext ==
    ASSUME NEW d \in Nat, NEW f, Sorts(f, d)
    PROVE  Sorts([job \in Jobs |-> SortWith(f, job.strs, job.pos)], d + 1)
<1> DEFINE g == [job \in Jobs |-> SortWith(f, job.strs, job.pos)]
<1>1. ASSUME NEW job \in Jobs
      PROVE  /\ g[job] \in Strs /\ ToSet(g[job]) = ToSet(job.strs)
             /\ Sortable(job.strs, job.pos, d + 1) => Ordered(g[job], job.pos)
  <2> DEFINE s == job.strs
             pos == job.pos
  <2>1. g[job] = SortWith(f, s, pos) /\ s \in Strs /\ pos \in Nat \ {0}
    BY DEF Jobs, Strs
  <2> HIDE DEF g, s, pos
  <2>2. /\ g[job] \in Strs /\ ToSet(g[job]) = ToSet(s)
        /\ Sortable(s, pos, d + 1) => Ordered(g[job], pos)
    BY <2>1, SortWithSorts
  <2> QED BY <2>2 DEF s, pos
<1>2. g \in [Jobs -> Strs]
  <2>1. g = [job \in Jobs |-> g[job]]
    OBVIOUS
  <2> HIDE DEF g
  <2> QED BY <1>1, <2>1
<1> HIDE DEF g
<1>3. Sorts(g, d + 1)
  BY <1>1, <1>2 DEF Sorts
<1> QED BY <1>3 DEF g

LEMMA SortsNothing == Sorts([job \in Jobs |-> job.strs], 0)
<1> DEFINE f == [job \in Jobs |-> job.strs]
<1>1. ASSUME NEW job \in Jobs
      PROVE  /\ f[job] \in Strs /\ f[job] = job.strs
             /\ Sortable(job.strs, job.pos, 0) => Ordered(f[job], job.pos)
  <2>1. f[job] = job.strs /\ f[job] \in Strs
    BY DEF Jobs, Strs
  <2> DEFINE s == job.strs
             pos == job.pos
  <2>2. s \in Strs /\ pos \in Nat /\ f[job] = s
    BY <2>1 DEF Jobs, Strs
  <2> HIDE DEF f, s, pos
  <2>3. ASSUME Sortable(s, pos, 0) PROVE Ordered(s, pos)
    <3>1. Len(s) \in Nat /\ MaxLen \in Nat
      BY <2>2, StringTableAssumption DEF Strs
    <3>2. Len(s) + MaxLen + 1 <= 0 + pos /\ pos <= MaxLen + 1
      BY <2>3 DEF Sortable
    <3>3. 1..Len(s) = {}
      BY <2>2, <3>1, <3>2
    <3> QED BY <3>3 DEF Ordered
  <2> QED BY <2>1, <2>2, <2>3 DEF s, pos
<1>2. f \in [Jobs -> Strs]
  <2>1. f = [job \in Jobs |-> f[job]]
    OBVIOUS
  <2> HIDE DEF f
  <2> QED BY <1>1, <2>1
<1> HIDE DEF f
<1>3. Sorts(f, 0)
  BY <1>1, <1>2 DEF Sorts
<1> QED BY <1>3 DEF f

(* What the recursion over the depth of the sort computes.                 *)
LEMMA SortIs ==
    ASSUME NEW s \in Strs
    PROVE  \E f : Sorts(f, Depth(s)) /\ Sort(s) = f[Job(s, 1)]
<1> DEFINE n == Depth(s)
           start == [job \in Jobs |-> job.strs]
           Level(f) == [job \in Jobs |-> SortWith(f, job.strs, job.pos)]
           V == [Jobs -> Strs]
           T == [m \in 0..n |-> {f \in V : Sorts(f, m)}]
           G == [m \in 1..n |-> [f \in V |-> Level(f)]]
           sorted[m \in 0..n] ==
               [job \in Jobs |-> IF m = 0 THEN job.strs
                                 ELSE SortWith(sorted[m - 1], job.strs, job.pos)]
<1>1. n \in Nat
  BY StringTableAssumption DEF Depth, Strs
<1>2. start \in T[0]
  <2>1. 0 \in 0..n /\ Sorts(start, 0)
    BY <1>1, SortsNothing
  <2>2. start \in V
    BY <2>1 DEF Sorts
  <2> HIDE DEF start, V, n
  <2> QED BY <2>1, <2>2
<1>3. ASSUME NEW m \in 1..n, NEW f \in T[m - 1] PROVE Level(f) \in T[m]
  <2>1. m - 1 \in 0..n /\ m \in 0..n /\ m - 1 \in Nat /\ (m - 1) + 1 = m
    BY <1>1
  <2>2. Sorts(f, m - 1)
    BY <2>1
  <2>3. Sorts(Level(f), m)
    BY <2>1, <2>2, SortsNext
  <2>4. Level(f) \in V
    BY <2>3 DEF Sorts
  <2> HIDE DEF Level, V, n
  <2> QED BY <2>1, <2>3, <2>4
<1>4. \A m \in 0..n : T[m] \subseteq V
  BY DEF T
<1>5. \A m \in 1..n : \A f \in V : G[m][f] = Level(f)
  OBVIOUS
<1> HIDE DEF T, n, G, V, sorted
<1>6. Leads(n, V, T, G, start)
  <2>1. ASSUME NEW m \in 1..n, NEW f \in T[m - 1] PROVE G[m][f] \in T[m]
    <3>1. f \in V
      <4>1. m - 1 \in 0..n
        BY <1>1
      <4> QED BY <1>4, <4>1
    <3> HIDE DEF Level
    <3> QED BY <1>3, <1>5, <3>1
  <2> HIDE DEF start
  <2> QED BY <1>2, <1>4, <2>1 DEF Leads
<1>7. \E f : Solves(f, n, V, T, G, start)
  <2> HIDE DEF start
  <2> QED BY <1>1, <1>6, Iterates
<1>8. PICK f : Solves(f, n, V, T, G, start)
  BY <1>7
<1>9. ASSUME NEW m \in 0..n
      PROVE  f[m] = [job \in Jobs |-> IF m = 0 THEN job.strs
                                      ELSE SortWith(f[m - 1], job.strs, job.pos)]
  <2>1. CASE m = 0
    BY <1>8, <2>1 DEF Solves
  <2>2. CASE m # 0
    <3>1. m \in 1..n /\ m - 1 \in 0..n
      BY <1>1, <2>2
    <3>2. f[m] = G[m][f[m - 1]] /\ f[m - 1] \in V
      BY <1>8, <3>1 DEF Solves
    <3>3. f[m] = Level(f[m - 1])
      <4> HIDE DEF Level
      <4> QED BY <1>5, <3>1, <3>2
    <3> QED BY <2>2, <3>3
  <2> QED BY <2>1, <2>2
<1>10. f = [m \in 0..n |-> f[m]]
  BY <1>8 DEF Solves
<1>11. sorted = [m \in 0..n |-> [job \in Jobs |-> IF m = 0 THEN job.strs
                                      ELSE SortWith(sorted[m - 1], job.strs, job.pos)]]
  <2>1. f = [m \in 0..n |-> [job \in Jobs |-> IF m = 0 THEN job.strs
                                      ELSE SortWith(f[m - 1], job.strs, job.pos)]]
    BY <1>9, <1>10
  <2> QED BY <2>1 DEF sorted
<1>12. Sort(s) = sorted[n][Job(s, 1)]
  BY DEF Sort, n, sorted
<1>13. \A m \in 0..n : sorted[m] \in T[m]
  <2>1. \A m \in 0..n :
            sorted[m] = [job \in Jobs |-> IF m = 0 THEN job.strs
                                      ELSE SortWith(sorted[m - 1], job.strs, job.pos)]
    BY <1>11
  <2>2. sorted[0] \in T[0]
    <3>1. sorted[0] = start
      BY <1>1, <2>1
    <3> QED BY <1>2, <3>1
  <2>3. ASSUME NEW m \in 1..n, sorted[m - 1] \in T[m - 1] PROVE sorted[m] \in T[m]
    <3>1. m \in 0..n /\ m # 0
      BY <1>1
    <3>2. sorted[m] = Level(sorted[m - 1])
      BY <2>1, <3>1
    <3> HIDE DEF Level
    <3> QED BY <1>3, <2>3, <3>2
  <2> HIDE DEF start
  <2> QED BY <1>1, <2>2, <2>3, Stays
<1>14. sorted[n] \in T[n] /\ n \in 0..n
  BY <1>1, <1>13
<1>15. Sorts(sorted[n], n)
  BY <1>14 DEF T
<1> QED BY <1>12, <1>15 DEF n

(* Sort keeps the strings and puts them in order.                          *)
LEMMA SortSorts ==
    ASSUME NEW s \in Strs
    PROVE  /\ Sort(s) \in Strs /\ ToSet(Sort(s)) = ToSet(s)
           /\ Distinct(s) /\ Names(ToSet(s)) => Ordered(Sort(s), 1)
<1>1. PICK f : Sorts(f, Depth(s)) /\ Sort(s) = f[Job(s, 1)]
  <2>1. \E f : Sorts(f, Depth(s)) /\ Sort(s) = f[Job(s, 1)]
    BY SortIs
  <2> QED BY <2>1
<1>2. 1 \in Nat \ {0}
  OBVIOUS
<1>3. /\ Sort(s) \in Strs /\ ToSet(Sort(s)) = ToSet(s)
      /\ Sortable(s, 1, Depth(s)) => Ordered(Sort(s), 1)
  BY <1>1, <1>2, SortsJob
<1>4. ASSUME Distinct(s), Names(ToSet(s)) PROVE Sortable(s, 1, Depth(s))
  <2>1. Len(s) \in Nat /\ MaxLen \in Nat /\ 1..(1 - 1) = {}
    BY StringTableAssumption DEF Strs
  <2>2. Len(s) + MaxLen + 1 <= Depth(s) + 1 /\ 1 <= MaxLen + 1
    BY <2>1 DEF Depth
  <2>3. Alike(ToSet(s), 1)
    BY <2>1 DEF Alike
  <2> QED BY <1>4, <2>2, <2>3 DEF Sortable
<1> QED BY <1>3, <1>4

-------------------------------------------------------------------------------
(* The walk *)

Bytes == Seq(Nat)

LEMMA SuffixIs ==
    ASSUME NEW s \in Bytes, NEW t \in Bytes
    PROVE  IsSuffix(s, t) <=> /\ Len(s) <= Len(t)
                              /\ \A i \in 1..Len(s) : s[i] = t[Len(t) - Len(s) + i]
<1> DEFINE r == Reverse(s)
           q == Reverse(t)
<1>1. /\ Len(s) \in Nat /\ Len(t) \in Nat
      /\ r \in Seq(Nat) /\ Len(r) = Len(s) /\ \A i \in 1..Len(s) : r[i] = s[Len(s) - i + 1]
      /\ q \in Seq(Nat) /\ Len(q) = Len(t) /\ \A i \in 1..Len(t) : q[i] = t[Len(t) - i + 1]
  BY DEF Bytes, Reverse
<1>2. IsSuffix(s, t) <=> Len(r) <= Len(q) /\ SubSeq(r, 1, Len(r)) = SubSeq(q, 1, Len(r))
  BY DEF IsSuffix, IsPrefix
<1> HIDE DEF r, q
<1>3. ASSUME Len(s) <= Len(t)
      PROVE  SubSeq(r, 1, Len(r)) = SubSeq(q, 1, Len(r))
                <=> \A i \in 1..Len(s) : s[i] = t[Len(t) - Len(s) + i]
  <2> DEFINE u == SubSeq(r, 1, Len(r))
             v == SubSeq(q, 1, Len(r))
  <2>1. /\ u \in Seq(Nat) /\ Len(u) = Len(s) /\ \A i \in 1..Len(s) : u[i] = r[i]
        /\ v \in Seq(Nat) /\ Len(v) = Len(s) /\ \A i \in 1..Len(s) : v[i] = q[i]
    <3>1. ASSUME NEW a \in Seq(Nat), NEW n \in Nat, n <= Len(a)
          PROVE  /\ SubSeq(a, 1, n) \in Seq(Nat) /\ Len(SubSeq(a, 1, n)) = n
                 /\ \A i \in 1..n : SubSeq(a, 1, n)[i] = a[i]
      BY <3>1
    <3>2. Len(r) \in Nat /\ Len(r) <= Len(r) /\ Len(r) <= Len(q)
      BY <1>1, <1>3
    <3>3. u \in Seq(Nat) /\ Len(u) = Len(r) /\ \A i \in 1..Len(r) : u[i] = r[i]
      BY <1>1, <3>1, <3>2
    <3>4. v \in Seq(Nat) /\ Len(v) = Len(r) /\ \A i \in 1..Len(r) : v[i] = q[i]
      BY <1>1, <3>1, <3>2
    <3> HIDE DEF u, v
    <3> QED BY <1>1, <3>3, <3>4
  <2> HIDE DEF u, v
  <2>2. u = v <=> \A i \in 1..Len(s) : r[i] = q[i]
    <3>1. u = v => \A i \in 1..Len(s) : r[i] = q[i]
      BY <2>1
    <3>2. ASSUME \A i \in 1..Len(s) : r[i] = q[i] PROVE u = v
      BY <2>1, <3>2, SeqEqual
    <3> QED BY <3>1, <3>2
  <2>3. ASSUME \A i \in 1..Len(s) : r[i] = q[i], NEW i \in 1..Len(s)
        PROVE  s[i] = t[Len(t) - Len(s) + i]
    <3> DEFINE j == Len(s) - i + 1
    <3>1. /\ j \in 1..Len(s) /\ j \in 1..Len(t)
          /\ Len(s) - j + 1 = i /\ Len(t) - j + 1 = Len(t) - Len(s) + i
      BY <1>1, <1>3
    <3> HIDE DEF j
    <3>2. r[j] = s[i] /\ q[j] = t[Len(t) - Len(s) + i]
      BY <1>1, <3>1
    <3> QED BY <2>3, <3>1, <3>2
  <2>4. ASSUME \A i \in 1..Len(s) : s[i] = t[Len(t) - Len(s) + i], NEW j \in 1..Len(s)
        PROVE  r[j] = q[j]
    <3> DEFINE i == Len(s) - j + 1
    <3>1. /\ i \in 1..Len(s) /\ j \in 1..Len(t)
          /\ Len(s) - j + 1 = i /\ Len(t) - j + 1 = Len(t) - Len(s) + i
      BY <1>1, <1>3
    <3> HIDE DEF i
    <3>2. r[j] = s[i] /\ q[j] = t[Len(t) - Len(s) + i]
      BY <1>1, <3>1
    <3> QED BY <2>4, <3>1, <3>2
  <2> QED BY <2>2, <2>3, <2>4 DEF u, v
<1> QED BY <1>1, <1>2, <1>3

(* The string s and a null byte are found after the first k bytes; or, for *)
(* the empty string, in the last byte of what precedes the data.           *)
Found(data, k, s) ==
    \/ s = <<>> /\ k = -1
    \/ /\ k \in Nat /\ k + Len(s) + 1 <= Len(data)
       /\ data[k + Len(s) + 1] = 0 /\ \A i \in 1..Len(s) : data[k + i] = s[i]

Ends(data, s) ==
    \/ data = <<>> /\ s = <<>>
    \/ Found(data, Len(data) - Len(s) - 1, s) /\ data # <<>>

OffsetOfs == UNION {[S -> Nat] : S \in SUBSET Bytes}
Walks == [offsetOf : OffsetOfs, data : Bytes, offset : Nat, previous : Bytes]

(* What the walk over the strings of S has come to.                        *)
Walked(acc, S, base) ==
    /\ acc \in Walks
    /\ acc.offset = base + Len(acc.data)
    /\ Ends(acc.data, acc.previous)
    /\ acc.offsetOf \in [S -> Nat]
    /\ \A s \in S : Found(acc.data, acc.offsetOf[s] - base, s)

LEMMA FoundStill ==
    ASSUME NEW data \in Bytes, NEW t \in Bytes, NEW s \in Bytes, NEW k \in Int,
           Found(data, k, s)
    PROVE  Found(data \o t \o <<0>>, k, s)
<1> DEFINE d == data \o t \o <<0>>
<1>1. /\ Len(data) \in Nat /\ Len(t) \in Nat /\ Len(s) \in Nat
      /\ Len(d) = Len(data) + Len(t) + 1
      /\ \A i \in 1..Len(data) : d[i] = data[i]
  BY DEF Bytes
<1> HIDE DEF d
<1>2. CASE s = <<>> /\ k = -1
  BY <1>2 DEF Found, d
<1>3. CASE ~(s = <<>> /\ k = -1)
  <2>1. /\ k \in Nat /\ k + Len(s) + 1 <= Len(data)
        /\ data[k + Len(s) + 1] = 0 /\ \A i \in 1..Len(s) : data[k + i] = s[i]
    BY <1>3 DEF Found
  <2>2. /\ k + Len(s) + 1 \in 1..Len(data)
        /\ \A i \in 1..Len(s) : k + i \in 1..Len(data)
    BY <1>1, <2>1
  <2>3. Found(d, k, s)
    BY <1>1, <2>1, <2>2 DEF Found
  <2> QED BY <2>3 DEF d
<1> QED BY <1>2, <1>3

LEMMA FoundLast ==
    ASSUME NEW data \in Bytes, NEW s \in Bytes
    PROVE  LET d == data \o s \o <<0>> IN
           /\ d \in Bytes /\ Len(d) = Len(data) + Len(s) + 1 /\ d # <<>>
           /\ Found(d, Len(data), s)
<1> DEFINE d == data \o s \o <<0>>
<1>1. /\ Len(data) \in Nat /\ Len(s) \in Nat /\ d \in Bytes
      /\ Len(d) = Len(data) + Len(s) + 1 /\ d[Len(data) + Len(s) + 1] = 0
      /\ \A i \in 1..Len(s) : d[Len(data) + i] = s[i]
  BY DEF Bytes
<1>2. d # <<>>
  <2> HIDE DEF d
  <2> QED BY <1>1
<1> HIDE DEF d
<1>3. Found(d, Len(data), s)
  BY <1>1 DEF Found
<1> QED BY <1>1, <1>2, <1>3 DEF d

(* A tail of the string that ends the data ends the data.                  *)
LEMMA FoundTail ==
    ASSUME NEW data \in Bytes, NEW t \in Bytes, NEW s \in Bytes,
           Ends(data, t), IsSuffix(s, t)
    PROVE  Found(data, Len(data) - Len(s) - 1, s)
<1>1. /\ Len(data) \in Nat /\ Len(t) \in Nat /\ Len(s) \in Nat
      /\ Len(s) <= Len(t) /\ \A i \in 1..Len(s) : s[i] = t[Len(t) - Len(s) + i]
  BY SuffixIs DEF Bytes
<1>2. CASE data = <<>> /\ t = <<>>
  <2>1. Len(data) = 0 /\ Len(s) = 0 /\ s = <<>>
    BY <1>1, <1>2 DEF Bytes
  <2>2. Len(data) - Len(s) - 1 = -1
    BY <2>1
  <2> QED BY <2>1, <2>2 DEF Found
<1>3. CASE data # <<>>
  <2> DEFINE l == Len(data) - Len(t) - 1
             k == Len(data) - Len(s) - 1
  <2>0. l + Len(t) + 1 = Len(data) /\ k + Len(s) + 1 = Len(data) /\ l \in Int /\ k \in Int
    BY <1>1
  <2>1. /\ l \in Nat /\ data[Len(data)] = 0
        /\ \A i \in 1..Len(t) : data[l + i] = t[i]
    <3>1. Found(data, l, t)
      BY <1>3 DEF Ends
    <3>2. ~(t = <<>> /\ l = -1)
      <4>1. Len(data) # 0
        BY <1>3 DEF Bytes
      <4>2. ASSUME t = <<>>, l = -1 PROVE FALSE
        <5>1. Len(t) = 0
          BY <4>2
        <5> QED BY <4>1, <4>2, <5>1, <1>1
      <4> QED BY <4>2
    <3> HIDE DEF l
    <3> QED BY <2>0, <3>1, <3>2 DEF Found
  <2>2. k \in Nat
    BY <1>1, <2>1
  <2>3. ASSUME NEW i \in 1..Len(s) PROVE data[k + i] = s[i]
    <3>1. Len(t) - Len(s) + i \in 1..Len(t) /\ l + (Len(t) - Len(s) + i) = k + i
      BY <1>1
    <3>2. data[l + (Len(t) - Len(s) + i)] = t[Len(t) - Len(s) + i]
      BY <2>1, <3>1
    <3>3. data[k + i] = t[Len(t) - Len(s) + i]
      BY <3>1, <3>2
    <3> QED BY <1>1, <3>3
  <2> HIDE DEF l, k
  <2>4. Found(data, k, s)
    <3>1. k + Len(s) + 1 <= Len(data)
      BY <1>1, <2>0
    <3> QED BY <2>0, <2>1, <2>2, <2>3, <3>1 DEF Found
  <2> QED BY <2>4 DEF k
<1> QED BY <1>2, <1>3 DEF Ends

LEMMA PlaceWalks ==
    ASSUME NEW base \in Nat \ {0}, NEW S \in SUBSET Bytes, NEW acc,
           Walked(acc, S, base), NEW s \in Bytes
    PROVE  Walked(Place(acc, s), S \cup {s}, base)
<1> DEFINE q == Place(acc, s)
           f == acc.offsetOf
           d == acc.data
           o == acc.offset
           p == acc.previous
<1>1. /\ f \in [S -> Nat] /\ d \in Bytes /\ o \in Nat /\ p \in Bytes
      /\ o = base + Len(d) /\ Len(d) \in Nat /\ Len(s) \in Nat
      /\ Ends(d, p) /\ \A x \in S : Found(d, f[x] - base, x)
      /\ acc = [offsetOf |-> f, data |-> d, offset |-> o, previous |-> p]
  BY DEF Walked, Walks, Bytes
<1>2. CASE IsSuffix(s, p)
  <2> DEFINE g == Assign(f, s, o - Len(s) - 1)
  <2>1. q = [offsetOf |-> g, data |-> d, offset |-> o, previous |-> p]
    BY <1>1, <1>2 DEF Place
  <2>2. Found(d, Len(d) - Len(s) - 1, s)
    BY <1>1, <1>2, FoundTail
  <2>3. o - Len(s) - 1 \in Nat /\ (o - Len(s) - 1) - base = Len(d) - Len(s) - 1
    <3>1. (o - Len(s) - 1) - base = Len(d) - Len(s) - 1 /\ Len(d) - Len(s) - 1 \in Int
      BY <1>1
    <3>2. Len(d) - Len(s) - 1 >= -1
      <4>1. \A k \in Int : Found(d, k, s) => k >= -1
        BY DEF Found
      <4> QED BY <2>2, <3>1, <4>1
    <3> QED BY <1>1, <3>1, <3>2
  <2> HIDE DEF q, f, d, o, p
  <2>4. /\ g \in [S \cup {s} -> Nat]
        /\ g[s] = o - Len(s) - 1 /\ \A y \in S : y # s => g[y] = f[y]
        /\ g \in OffsetOfs
    <3>1. /\ g \in [S \cup {s} -> Nat]
          /\ g[s] = o - Len(s) - 1 /\ \A y \in S : y # s => g[y] = f[y]
      BY <1>1, <2>3 DEF Assign
    <3>2. S \cup {s} \in SUBSET Bytes
      OBVIOUS
    <3> HIDE DEF g
    <3> QED BY <3>1, <3>2 DEF OffsetOfs
  <2> HIDE DEF g
  <2>5. \A y \in S \cup {s} : Found(d, g[y] - base, y)
    <3>1. ASSUME NEW y \in S \cup {s}, y = s PROVE Found(d, g[y] - base, y)
      <4>1. g[y] = o - Len(s) - 1
        BY <2>4, <3>1
      <4>2. g[y] - base = Len(d) - Len(s) - 1
        BY <2>3, <4>1
      <4> QED BY <2>2, <3>1, <4>2
    <3>2. ASSUME NEW y \in S \cup {s}, y # s PROVE Found(d, g[y] - base, y)
      BY <1>1, <2>4, <3>2
    <3> QED BY <3>1, <3>2
  <2>6. q \in Walks
    BY <1>1, <2>1, <2>4 DEF Walks
  <2>7. Walked(q, S \cup {s}, base)
    BY <1>1, <2>1, <2>4, <2>5, <2>6 DEF Walked
  <2> QED BY <2>7 DEF q
<1>3. CASE ~IsSuffix(s, p)
  <2> DEFINE g == Assign(f, s, o)
             e == d \o s \o <<0>>
  <2>1. q = [offsetOf |-> g, data |-> e, offset |-> o + Len(s) + 1, previous |-> s]
    BY <1>3 DEF Place, Emit
  <2> HIDE DEF q, f, d, o, p
  <2>2. /\ e \in Bytes /\ Len(e) = Len(d) + Len(s) + 1 /\ e # <<>>
        /\ Found(e, Len(d), s)
    BY <1>1, FoundLast
  <2>3. /\ g \in [S \cup {s} -> Nat]
        /\ g[s] = o /\ \A y \in S : y # s => g[y] = f[y]
        /\ g \in OffsetOfs
    <3>1. /\ g \in [S \cup {s} -> Nat]
          /\ g[s] = o /\ \A y \in S : y # s => g[y] = f[y]
      BY <1>1 DEF Assign
    <3>2. S \cup {s} \in SUBSET Bytes
      OBVIOUS
    <3> HIDE DEF g
    <3> QED BY <3>1, <3>2 DEF OffsetOfs
  <2>4. \A y \in S : Found(e, f[y] - base, y)
    <3>1. ASSUME NEW y \in S PROVE Found(e, f[y] - base, y)
      <4>1. f[y] - base \in Int /\ y \in Bytes
        BY <1>1
      <4>2. Found(d, f[y] - base, y)
        BY <1>1
      <4> QED BY <1>1, <4>1, <4>2, FoundStill
    <3> QED BY <3>1
  <2> HIDE DEF g, e
  <2>5. \A y \in S \cup {s} : Found(e, g[y] - base, y)
    <3>1. ASSUME NEW y \in S \cup {s}, y = s PROVE Found(e, g[y] - base, y)
      <4>1. g[y] = o
        BY <2>3, <3>1
      <4>2. g[y] - base = Len(d)
        BY <1>1, <4>1
      <4> QED BY <2>2, <3>1, <4>2
    <3>2. ASSUME NEW y \in S \cup {s}, y # s PROVE Found(e, g[y] - base, y)
      BY <2>3, <2>4, <3>2
    <3> QED BY <3>1, <3>2
  <2>6. Ends(e, s)
    <3>1. Len(e) - Len(s) - 1 = Len(d)
      BY <1>1, <2>2
    <3> QED BY <2>2, <3>1 DEF Ends
  <2>7. o + Len(s) + 1 \in Nat /\ o + Len(s) + 1 = base + Len(e)
    BY <1>1, <2>2
  <2>8. q \in Walks
    BY <1>1, <2>1, <2>2, <2>3, <2>7 DEF Walks
  <2>9. Walked(q, S \cup {s}, base)
    BY <2>1, <2>3, <2>5, <2>6, <2>7, <2>8 DEF Walked
  <2> QED BY <2>9 DEF q
<1> QED BY <1>2, <1>3

(* The walk, string after string.                                          *)
Start(base) == [offsetOf |-> <<>>, data |-> <<>>, offset |-> base, previous |-> <<>>]

Placing(f, strs, base) ==
    /\ f[0] = Start(base)
    /\ \A m \in 1..Len(strs) : f[m] = Place(f[m - 1], strs[m])
    /\ \A m \in 0..Len(strs) : Walked(f[m], {strs[i] : i \in 1..m}, base)

LEMMA PlaceAllIs ==
    ASSUME NEW base \in Nat \ {0}, NEW strs \in Strs
    PROVE  \E f : Placing(f, strs, base) /\ PlaceAll(strs, base) = f[Len(strs)]
<1> DEFINE n == Len(strs)
           start == Start(base)
           S(m) == {strs[i] : i \in 1..m}
           T == [m \in 0..n |-> {p \in Walks : Walked(p, S(m), base)}]
           G == [m \in 1..n |-> [p \in Walks |-> Place(p, strs[m])]]
           placed[m \in 0..n] ==
               IF m = 0 THEN start ELSE Place(placed[m - 1], strs[m])
<1>1. n \in Nat /\ \A m \in 1..n : strs[m] \in Bytes
  BY DEF Strs, Bytes
<1>2. start \in T[0]
  <2>1. S(0) = {} /\ 0 \in 0..n
    BY <1>1
  <2>2. start.offsetOf \in OffsetOfs /\ start.offsetOf \in [{} -> Nat]
    <3>1. <<>> \in [{} -> Nat] /\ {} \in SUBSET Bytes
      OBVIOUS
    <3> QED BY <3>1 DEF OffsetOfs, Start
  <2>3. /\ start = [offsetOf |-> start.offsetOf, data |-> <<>>, offset |-> base,
                    previous |-> <<>>]
        /\ <<>> \in Bytes /\ Len(<<>>) = 0
    BY DEF Bytes, Start
  <2> HIDE DEF start
  <2>4. start \in Walks
    BY <2>2, <2>3 DEF Walks
  <2>5. Walked(start, {}, base)
    BY <2>2, <2>3, <2>4 DEF Walked, Ends
  <2> QED BY <2>1, <2>4, <2>5
<1>3. ASSUME NEW m \in 1..n, NEW p, Walked(p, S(m - 1), base)
      PROVE  Walked(Place(p, strs[m]), S(m), base)
  <2>1. S(m - 1) \in SUBSET Bytes /\ S(m) = S(m - 1) \cup {strs[m]}
    <3>1. \A i : i \in 1..m <=> i \in 1..(m - 1) \/ i = m
      BY <1>1
    <3>2. \A i \in 1..m : strs[i] \in Bytes
      BY <1>1
    <3> QED BY <3>1, <3>2
  <2> HIDE DEF S
  <2>2. strs[m] \in Bytes
    BY <1>1
  <2> QED BY <1>3, <2>1, <2>2, PlaceWalks
<1>4. \A m \in 0..n : T[m] \subseteq Walks /\ \A p \in T[m] : Walked(p, S(m), base)
  OBVIOUS
<1>5. ASSUME NEW m \in 0..n, NEW p, Walked(p, S(m), base) PROVE p \in T[m]
  BY <1>5 DEF Walked
<1>6. \A m \in 1..n : \A p \in Walks : G[m][p] = Place(p, strs[m])
  OBVIOUS
<1> HIDE DEF T, n, G, S, placed, start
<1>7. ASSUME NEW m \in 1..n, NEW p \in T[m - 1]
      PROVE  p \in Walks /\ Place(p, strs[m]) \in T[m]
  <2>1. m - 1 \in 0..n /\ m \in 0..n
    BY <1>1
  <2> QED BY <1>3, <1>4, <1>5, <2>1
<1>8. Leads(n, Walks, T, G, start)
  BY <1>2, <1>4, <1>6, <1>7 DEF Leads
<1>9. \E f : Solves(f, n, Walks, T, G, start)
  BY <1>1, <1>8, Iterates
<1>10. PICK f : Solves(f, n, Walks, T, G, start)
  BY <1>9
<1>11. ASSUME NEW m \in 0..n
       PROVE  f[m] = IF m = 0 THEN start ELSE Place(f[m - 1], strs[m])
  <2>1. CASE m = 0
    BY <1>10, <2>1 DEF Solves
  <2>2. CASE m # 0
    <3>1. m \in 1..n /\ m - 1 \in 0..n
      BY <1>1, <2>2
    <3>2. f[m] = G[m][f[m - 1]] /\ f[m - 1] \in Walks
      BY <1>10, <3>1 DEF Solves
    <3> QED BY <1>6, <2>2, <3>1, <3>2
  <2> QED BY <2>1, <2>2
<1>12. f = [m \in 0..n |-> f[m]]
  BY <1>10 DEF Solves
<1>13. placed = [m \in 0..n |-> IF m = 0 THEN start ELSE Place(placed[m - 1], strs[m])]
  <2>1. f = [m \in 0..n |-> IF m = 0 THEN start ELSE Place(f[m - 1], strs[m])]
    BY <1>11, <1>12
  <2> QED BY <2>1 DEF placed
<1>14. PlaceAll(strs, base) = placed[n]
  BY DEF PlaceAll, n, placed, start, Start
<1>15. \A m \in 0..n : placed[m] = IF m = 0 THEN start ELSE Place(placed[m - 1], strs[m])
  BY <1>13
<1>16. /\ placed[0] = start
       /\ \A m \in 1..n : placed[m] = Place(placed[m - 1], strs[m])
  <2>1. 0 \in 0..n /\ \A m \in 1..n : m \in 0..n /\ m # 0
    BY <1>1
  <2> QED BY <1>15, <2>1
<1>17. \A m \in 0..n : placed[m] \in T[m]
  <2>1. placed[0] \in T[0]
    BY <1>2, <1>16
  <2>2. ASSUME NEW m \in 1..n, placed[m - 1] \in T[m - 1] PROVE placed[m] \in T[m]
    BY <1>7, <1>16, <2>2
  <2> QED BY <1>1, <2>1, <2>2, Stays
<1>18. Placing(placed, strs, base)
  BY <1>4, <1>16, <1>17 DEF Placing, n, S, start
<1> QED BY <1>14, <1>18 DEF n

Counting(f, strs, base) ==
    /\ f[0] = [size |-> base, previous |-> <<>>]
    /\ \A m \in 1..Len(strs) : f[m] = Count(f[m - 1], strs[m])

LEMMA CountAllIs ==
    ASSUME NEW base \in Nat, NEW strs \in Strs
    PROVE  \E f : Counting(f, strs, base) /\ CountAll(strs, base) = f[Len(strs)]
<1> DEFINE n == Len(strs)
           start == [size |-> base, previous |-> <<>>]
           R == [size : Nat, previous : Bytes]
           T == [m \in 0..n |-> R]
           G == [m \in 1..n |-> [p \in R |-> Count(p, strs[m])]]
           counted[m \in 0..n] ==
               IF m = 0 THEN start ELSE Count(counted[m - 1], strs[m])
<1>1. n \in Nat /\ \A m \in 1..n : strs[m] \in Bytes
  BY DEF Strs, Bytes
<1>2. start \in R
  BY DEF Bytes
<1>3. ASSUME NEW m \in 1..n, NEW p \in R PROVE Count(p, strs[m]) \in R
  <2>1. strs[m] \in Bytes /\ Len(strs[m]) \in Nat
    BY <1>1 DEF Bytes
  <2>2. p.size + Len(strs[m]) + 1 \in Nat
    BY <2>1
  <2> QED BY <2>1, <2>2 DEF Count
<1>4. \A m \in 0..n : T[m] = R
  OBVIOUS
<1>5. \A m \in 1..n : \A p \in R : G[m][p] = Count(p, strs[m])
  OBVIOUS
<1> HIDE DEF T, n, G, R, counted, start
<1>6. Leads(n, R, T, G, start)
  <2>1. 0 \in 0..n /\ \A m \in 1..n : m - 1 \in 0..n /\ m \in 0..n
    BY <1>1
  <2> QED BY <1>2, <1>3, <1>4, <1>5, <2>1 DEF Leads
<1>7. \E f : Solves(f, n, R, T, G, start)
  BY <1>1, <1>6, Iterates
<1>8. PICK f : Solves(f, n, R, T, G, start)
  BY <1>7
<1>9. ASSUME NEW m \in 0..n
      PROVE  f[m] = IF m = 0 THEN start ELSE Count(f[m - 1], strs[m])
  <2>1. CASE m = 0
    BY <1>8, <2>1 DEF Solves
  <2>2. CASE m # 0
    <3>1. m \in 1..n /\ m - 1 \in 0..n
      BY <1>1, <2>2
    <3>2. f[m] = G[m][f[m - 1]] /\ f[m - 1] \in R
      BY <1>8, <3>1 DEF Solves
    <3> QED BY <1>5, <2>2, <3>1, <3>2
  <2> QED BY <2>1, <2>2
<1>10. f = [m \in 0..n |-> f[m]]
  BY <1>8 DEF Solves
<1>11. counted = [m \in 0..n |-> IF m = 0 THEN start ELSE Count(counted[m - 1], strs[m])]
  <2>1. f = [m \in 0..n |-> IF m = 0 THEN start ELSE Count(f[m - 1], strs[m])]
    BY <1>9, <1>10
  <2> QED BY <2>1 DEF counted
<1>12. CountAll(strs, base) = counted[n]
  BY DEF CountAll, n, counted, start
<1>13. \A m \in 0..n : counted[m] = IF m = 0 THEN start ELSE Count(counted[m - 1], strs[m])
  BY <1>11
<1>14. Counting(counted, strs, base)
  <2>1. 0 \in 0..n /\ \A m \in 1..n : m \in 0..n /\ m # 0
    BY <1>1
  <2>2. counted[0] = start /\ \A m \in 1..n : counted[m] = Count(counted[m - 1], strs[m])
    BY <1>13, <2>1
  <2> QED BY <2>2 DEF Counting, n, start
<1> QED BY <1>12, <1>14 DEF n

(* size walks as write does.                                               *)
LEMMA SameWalk ==
    ASSUME NEW base \in Nat \ {0}, NEW strs \in Strs
    PROVE  CountAll(strs, base).size = PlaceAll(strs, base).offset
<1> DEFINE n == Len(strs)
<1>1. n \in Nat
  BY DEF Strs
<1>2. PICK p : Placing(p, strs, base) /\ PlaceAll(strs, base) = p[n]
  <2>1. \E p : Placing(p, strs, base) /\ PlaceAll(strs, base) = p[n]
    BY PlaceAllIs
  <2> QED BY <2>1
<1>3. PICK c : Counting(c, strs, base) /\ CountAll(strs, base) = c[n]
  <2>1. \E c : Counting(c, strs, base) /\ CountAll(strs, base) = c[n]
    BY CountAllIs
  <2> QED BY <2>1
<1> DEFINE Same(m) == c[m].size = p[m].offset /\ c[m].previous = p[m].previous
           S == {m \in Nat : m <= n => Same(m)}
<1>4. 0 \in S
  BY <1>2, <1>3 DEF Placing, Counting, Start
<1>5. ASSUME NEW m \in Nat, m \in S PROVE m + 1 \in S
  <2>1. ASSUME m + 1 <= n PROVE Same(m + 1)
    <3> DEFINE s == strs[m + 1]
               x == p[m]
               y == c[m]
    <3>1. m + 1 \in 1..n /\ m \in 0..n /\ (m + 1) - 1 = m /\ Same(m)
      BY <1>1, <1>5, <2>1
    <3>2. p[m + 1] = Place(x, s) /\ c[m + 1] = Count(y, s)
      BY <1>2, <1>3, <3>1 DEF Placing, Counting
    <3>3. x \in Walks
      BY <1>2, <3>1 DEF Placing, Walked
    <3>4. y.size = x.offset /\ y.previous = x.previous
      BY <3>1
    <3> HIDE DEF s, x, y
    <3>5. CASE IsSuffix(s, x.previous)
      <4>1. Count(y, s) = y
        BY <3>4, <3>5 DEF Count
      <4>2. Place(x, s).offset = x.offset /\ Place(x, s).previous = x.previous
        BY <3>3, <3>5 DEF Place, Walks
      <4> QED BY <3>2, <3>4, <4>1, <4>2
    <3>6. CASE ~IsSuffix(s, x.previous)
      BY <3>2, <3>4, <3>6 DEF Count, Place, Emit
    <3> QED BY <3>5, <3>6
  <2> QED BY <2>1
<1>6. n \in S
  <2> HIDE DEF S, n
  <2> QED BY <1>1, <1>4, <1>5, SetInduction
<1> QED BY <1>2, <1>3, <1>6

-------------------------------------------------------------------------------
(* The table *)

Entries == Seq(Nat \ {0})

LEMMA ReadBack ==
    ASSUME NEW h \in Bytes, h # <<>>, h[Len(h)] = 0, NEW data \in Bytes,
           NEW s \in Entries, NEW offset \in Nat, Found(data, offset - Len(h), s)
    PROVE  Pool!ReadAt(h \o data, offset) = s
<1> DEFINE t == h \o data
           nulls == {j \in (offset + 1)..Len(t) : t[j] = 0}
           e == offset + Len(s) + 1
<1>1. /\ Len(h) \in Nat /\ Len(h) # 0 /\ Len(data) \in Nat /\ Len(s) \in Nat
      /\ t \in Seq(Nat) /\ Len(t) = Len(h) + Len(data)
      /\ \A i \in 1..Len(h) : t[i] = h[i]
      /\ \A i \in 1..Len(data) : t[Len(h) + i] = data[i]
      /\ \A i \in 1..Len(s) : s[i] \in Nat \ {0}
  BY DEF Bytes, Entries
<1>2. Pool!ReadAt(t, offset) = IF nulls = {} THEN Pool!NoString
                               ELSE SubSeq(t, offset + 1, Pool!Min(nulls) - 1)
  BY DEF Pool!ReadAt
<1> HIDE DEF t
<1>3. /\ e \in Nat /\ e <= Len(t) /\ t[e] = 0
      /\ \A i \in 1..Len(s) : t[offset + i] = s[i]
  <2>1. CASE s = <<>> /\ offset - Len(h) = -1
    <3>1. e = Len(h) /\ Len(s) = 0 /\ Len(h) \in 1..Len(h)
      BY <1>1, <2>1
    <3> QED BY <1>1, <3>1
  <2>2. CASE ~(s = <<>> /\ offset - Len(h) = -1)
    <3> DEFINE k == offset - Len(h)
    <3>1. /\ k \in Nat /\ k + Len(s) + 1 <= Len(data)
          /\ data[k + Len(s) + 1] = 0 /\ \A i \in 1..Len(s) : data[k + i] = s[i]
      BY <2>2 DEF Found
    <3>2. /\ k + Len(s) + 1 \in 1..Len(data) /\ Len(h) + (k + Len(s) + 1) = e
          /\ \A i \in 1..Len(s) : k + i \in 1..Len(data) /\ Len(h) + (k + i) = offset + i
      <4>1. offset = Len(h) + k /\ k \in Nat /\ Len(h) \in Nat
        BY <1>1, <3>1
      <4> HIDE DEF k
      <4>2. Len(h) + (k + Len(s) + 1) = e /\ \A i \in 1..Len(s) : Len(h) + (k + i) = offset + i
        BY <1>1, <4>1
      <4> HIDE DEF e
      <4>3. k + Len(s) + 1 \in 1..Len(data) /\ \A i \in 1..Len(s) : k + i \in 1..Len(data)
        BY <1>1, <3>1, SMTT(40)
      <4> QED BY <4>2, <4>3
    <3> HIDE DEF k, e
    <3>3. t[e] = 0
      BY <1>1, <3>1, <3>2
    <3>4. ASSUME NEW i \in 1..Len(s) PROVE t[offset + i] = s[i]
      <4>1. t[Len(h) + (k + i)] = data[k + i]
        BY <1>1, <3>2
      <4> QED BY <3>1, <3>2, <4>1
    <3>5. e \in Nat /\ e <= Len(t)
      BY <1>1, <3>2
    <3> QED BY <3>3, <3>4, <3>5
  <2> QED BY <2>1, <2>2
<1>4. e \in nulls
  BY <1>1, <1>3
<1>5. ASSUME NEW j \in nulls PROVE e <= j
  <2>1. j \in (offset + 1)..Len(t) /\ t[j] = 0
    OBVIOUS
  <2>2. ASSUME j < e PROVE FALSE
    <3>1. j - offset \in 1..Len(s) /\ offset + (j - offset) = j
      BY <1>1, <2>1, <2>2
    <3>2. t[offset + (j - offset)] = s[j - offset]
      BY <1>3, <3>1
    <3> QED BY <1>1, <2>1, <3>1, <3>2
  <2> HIDE DEF e, nulls
  <2>3. j \in Nat
    BY <2>1
  <2> QED BY <1>3, <2>2, <2>3
<1>6. nulls \subseteq Nat
  OBVIOUS
<1> HIDE DEF nulls
<1>7. Pool!Min(nulls) = e
  <2> HIDE DEF e
  <2>1. ASSUME NEW x \in nulls, \A y \in nulls : x <= y PROVE x = e
    <3>1. x <= e /\ e <= x
      BY <1>4, <1>5, <2>1
    <3> QED BY <1>3, <1>6, <3>1
  <2> QED BY <1>4, <1>5, <2>1 DEF Pool!Min
<1>8. SubSeq(t, offset + 1, e - 1) = s
  <2> DEFINE v == SubSeq(t, offset + 1, e - 1)
  <2>1. e - 1 = offset + Len(s) /\ e - 1 \in Nat
    BY <1>1
  <2>2. v \in Seq(Nat) /\ Len(v) = Len(s) /\ \A i \in 1..Len(s) : v[i] = t[offset + i]
    <3>1. ASSUME NEW k \in Nat, NEW l \in Nat, k + l <= Len(t)
          PROVE  LET u == SubSeq(t, k + 1, k + l) IN
                 u \in Seq(Nat) /\ Len(u) = l /\ \A i \in 1..l : u[i] = t[k + i]
      BY <1>1, <3>1
    <3>2. v = SubSeq(t, offset + 1, offset + Len(s))
      BY <2>1
    <3>3. offset + Len(s) <= Len(t) /\ Len(s) \in Nat
      BY <1>1, <1>3
    <3> HIDE DEF v, e
    <3> QED BY <3>1, <3>2, <3>3
  <2> HIDE DEF v, e
  <2>3. \A i \in 1..Len(s) : v[i] = s[i]
    BY <1>3, <2>2
  <2>4. s \in Seq(Nat)
    BY DEF Entries
  <2>5. v = s
    BY <2>2, <2>3, <2>4, SeqEqual
  <2> QED BY <2>5 DEF v
<1> HIDE DEF e
<1>9. nulls # {}
  BY <1>4
<1> QED BY <1>2, <1>7, <1>8, <1>9 DEF t

(* What add keeps: the interned strings are distinct names.                *)
Interned ==
    /\ format \in Formats
    /\ strings \in Seq(String) /\ Distinct(strings)

LEMMA StringIs ==
    /\ \A s \in String : s \in Entries /\ s \in Bytes /\ Len(s) <= MaxLen
    /\ \A s \in Seq(String) : s \in Strs /\ Names(ToSet(s))
<1>1. ASSUME NEW s \in String PROVE s \in Entries /\ s \in Bytes /\ Len(s) <= MaxLen
  <2>1. PICK m \in 0..MaxLen : s \in [1..m -> Byte]
    BY DEF String, BoundedSeq, SeqOf
  <2>2. m \in Nat /\ s \in Seq(Byte) /\ Len(s) = m /\ m <= MaxLen
    BY <2>1, StringTableAssumption
  <2>3. s \in Seq(Nat \ {0}) /\ s \in Seq(Nat)
    <3>1. \A i \in 1..m : s[i] \in Nat \ {0} /\ s[i] \in Nat
      BY <2>1, StringTableAssumption
    <3>2. s = [i \in 1..m |-> s[i]]
      BY <2>1
    <3>3. s \in [1..m -> Nat \ {0}] /\ s \in [1..m -> Nat]
      BY <3>1, <3>2
    <3> QED BY <2>2, <3>3
  <2> QED BY <2>2, <2>3 DEF Entries, Bytes
<1>2. ASSUME NEW s \in Seq(String) PROVE s \in Strs /\ Names(ToSet(s))
  <2>1. s \in Strs
    BY <1>1 DEF Strs, Bytes
  <2>2. \A x \in ToSet(s) : x \in String
    BY InSet
  <2> QED BY <1>1, <2>1, <2>2 DEF Names, Entries
<1> QED BY <1>1, <1>2

(* What write lays out.                                                    *)
LEMMA WrittenIs ==
    ASSUME NEW base \in Nat \ {0}, NEW strs \in Seq(String)
    PROVE  LET w == Written(strs, base) IN
           /\ Walked(w, ToSet(strs), base)
           /\ Size(strs, base) = base + Len(w.data)
<1> DEFINE w == Written(strs, base)
           order == Sort(strs)
<1>1. strs \in Strs /\ order \in Strs /\ ToSet(order) = ToSet(strs)
  BY StringIs, SortSorts
<1>2. w = PlaceAll(order, base) /\ Size(strs, base) = CountAll(order, base).size
  BY DEF Written, Size
<1> HIDE DEF w, order
<1>3. PICK f : Placing(f, order, base) /\ PlaceAll(order, base) = f[Len(order)]
  <2>1. \E f : Placing(f, order, base) /\ PlaceAll(order, base) = f[Len(order)]
    BY <1>1, PlaceAllIs
  <2> QED BY <2>1
<1>4. Walked(w, ToSet(strs), base)
  <2>1. Len(order) \in 0..Len(order) /\ DOMAIN order = 1..Len(order)
    BY <1>1 DEF Strs
  <2>2. ToSet(order) = {order[i] : i \in 1..Len(order)}
    BY <2>1 DEF ToSet
  <2> QED BY <1>1, <1>2, <1>3, <2>1, <2>2 DEF Placing
<1>5. Size(strs, base) = w.offset
  BY <1>1, <1>2, SameWalk
<1> QED BY <1>4, <1>5 DEF w, Walked

LEMMA HeaderIs ==
    ASSUME format \in Formats, NEW data \in Bytes
    PROVE  /\ Header(format, data) \in Bytes /\ Len(Header(format, data)) = Base
           /\ Base \in Nat \ {0}
           /\ format # "xcoff" => Header(format, data)[Base] = 0
<1>1. Len(data) + 4 \in Nat
  BY DEF Bytes
<1>2. format \in {"elf", "coff", "xcoff"}
  BY StringTableAssumption
<1>3. CASE format = "elf"
  BY <1>3 DEF Header, Base, Bytes
<1>4. CASE format = "coff"
  BY <1>1, <1>4 DEF Header, Base, Bytes
<1>5. CASE format = "xcoff"
  BY <1>1, <1>5 DEF Header, Base, Bytes
<1> QED BY <1>2, <1>3, <1>4, <1>5

(* Interning keeps the strings distinct, for every sequence of calls.      *)
THEOREM Interning == Spec => []Interned
<1>1. Init => Interned
  BY DEF Init, Interned, Distinct
<1>2. Interned /\ [Next]_vars => Interned'
  <2> SUFFICES ASSUME Interned, [Next]_vars PROVE Interned'
    OBVIOUS
  <2>1. CASE UNCHANGED vars
    BY <2>1 DEF Interned, vars
  <2>2. CASE Write
    BY <2>2 DEF Interned, Write
  <2>3. ASSUME NEW s \in String, Add(s) PROVE Interned'
    <3>1. format' = format /\ strings' = Intern(strings, s)
      BY <2>3 DEF Add
    <3>2. CASE Contains(strings, s)
      BY <3>1, <3>2 DEF Interned, Intern
    <3>3. CASE ~Contains(strings, s)
      <4>1. /\ strings' = Append(strings, s) /\ strings \in Seq(String)
            /\ \A i \in 1..Len(strings) : strings[i] # s
        BY <3>1, <3>3 DEF Interned, Intern, Contains
      <4>2. /\ strings' \in Seq(String) /\ Len(strings') = Len(strings) + 1
            /\ Len(strings) \in Nat /\ strings'[Len(strings) + 1] = s
            /\ \A i \in 1..Len(strings) : strings'[i] = strings[i]
        BY <4>1
      <4>3. \A i \in 1..Len(strings') : i \in 1..Len(strings) \/ i = Len(strings) + 1
        BY <4>2
      <4>4. \A i, j \in 1..Len(strings) : strings[i] = strings[j] => i = j
        BY DEF Interned, Distinct
      <4>5. ASSUME NEW i \in 1..Len(strings'), NEW j \in 1..Len(strings'),
                   strings'[i] = strings'[j]
            PROVE  i = j
        BY <4>1, <4>2, <4>3, <4>4, <4>5
      <4> QED BY <3>1, <4>2, <4>5 DEF Interned, Distinct
    <3> QED BY <3>2, <3>3
  <2> QED BY <2>1, <2>2, <2>3 DEF Next
<1> QED BY <1>1, <1>2, PTL DEF Spec

(* What write puts in the file, whoever calls it.                          *)
LEMMA WriteLays ==
    ASSUME Interned, Write
    PROVE  /\ Size(strings, Base) = Len(image')
           /\ DOMAIN offsets' = DOMAIN strings
           /\ format # "xcoff" => \A id \in DOMAIN strings :
                  Pool!ReadAt(image', offsets'[id]) = strings[id]
<1> DEFINE w == Written(strings, Base)
           h == Header(format, w.data)
<1>1. /\ offsets' = [id \in DOMAIN strings |-> w.offsetOf[strings[id]]]
      /\ image' = h \o w.data
  BY DEF Write
<1>2. strings \in Seq(String) /\ format \in Formats
  BY DEF Interned
<1>3. Base \in Nat \ {0}
  BY <1>2, StringTableAssumption DEF Base
<1>4. Walked(w, ToSet(strings), Base) /\ Size(strings, Base) = Base + Len(w.data)
  BY <1>2, <1>3, WrittenIs
<1> HIDE DEF w
<1>5. w.data \in Bytes
  BY <1>4 DEF Walked, Walks
<1>6. h \in Bytes /\ Len(h) = Base /\ (format # "xcoff" => h[Len(h)] = 0)
  <2>1. h \in Bytes /\ Len(h) = Base /\ (format # "xcoff" => h[Base] = 0)
    BY <1>2, <1>5, HeaderIs
  <2> HIDE DEF h
  <2> QED BY <2>1
<1> HIDE DEF h
<1>7. Size(strings, Base) = Len(image')
  <2> DEFINE d == w.data
  <2>0. image' = h \o d /\ Len(h) = Base
    BY <1>1, <1>6
  <2>1. d \in Seq(Nat) /\ h \in Seq(Nat)
    BY <1>5, <1>6 DEF Bytes
  <2>2. Size(strings, Base) = Base + Len(d)
    BY <1>4
  <2> HIDE DEF d
  <2>3. Len(h \o d) = Len(h) + Len(d)
    BY <2>1
  <2> QED BY <2>0, <2>2, <2>3
<1>8. ASSUME format # "xcoff", NEW id \in DOMAIN strings
      PROVE  Pool!ReadAt(image', offsets'[id]) = strings[id]
  <2> DEFINE s == strings[id]
             o == w.offsetOf[s]
  <2>1. s \in ToSet(strings) /\ s \in String
    BY <1>2 DEF ToSet
  <2>2. s \in Entries
    BY <2>1, StringIs
  <2>3. o \in Nat /\ Found(w.data, o - Base, s)
    BY <1>4, <2>1 DEF Walked
  <2>4. offsets'[id] = o
    BY <1>1
  <2> HIDE DEF s, o
  <2>5. h # <<>>
    BY <1>3, <1>6
  <2>6. Found(w.data, o - Len(h), s)
    BY <1>6, <2>3
  <2>7. Pool!ReadAt(h \o w.data, o) = s
    BY <1>5, <1>6, <1>8, <2>2, <2>3, <2>5, <2>6, ReadBack
  <2> QED BY <1>1, <2>4, <2>7 DEF s
<1> QED BY <1>1, <1>7, <1>8

(* However strings are interned and laid out, a reader finds every one of  *)
(* them at the offset that write handed out for it: the table implements   *)
(* StringPool.  In XCOFF, the last byte of the length is not null, and an  *)
(* empty string that is alone in the table is read from it.                *)
THEOREM Implementation ==
    ASSUME "xcoff" \notin Formats PROVE Spec => ImplementsPool
<1>1. Init => Pool!Init
  BY DEF Init, Pool!Init
<1>2. Interned /\ [Next]_vars => [Pool!Next]_(Pool!vars)
  <2> SUFFICES ASSUME Interned, [Next]_vars PROVE [Pool!Next]_(Pool!vars)
    OBVIOUS
  <2>1. CASE UNCHANGED vars
    BY <2>1 DEF vars, Pool!vars
  <2>2. CASE Write
    <3>1. format # "xcoff"
      BY DEF Interned
    <3>2. offsets = <<>> /\ UNCHANGED strings
      BY <2>2 DEF Write
    <3>3. Pool!Lay
      BY <2>2, <3>1, <3>2, WriteLays DEF Pool!Lay
    <3> QED BY <3>3 DEF Pool!Next
  <2>3. ASSUME NEW s \in String, Add(s) PROVE Pool!Add(s)
    BY <2>3 DEF Add, Intern, Contains, Pool!Add, Pool!Contains
  <2> QED BY <2>1, <2>2, <2>3 DEF Next, Pool!Next
<1>3. Spec => []Interned
  BY Interning
<1> QED BY <1>1, <1>2, <1>3, PTL DEF Spec, ImplementsPool, Pool!Spec

(* The size that build/elf.rs reserves for a table before it is written is *)
(* the size of what is written, for every set of strings.                  *)
THEOREM Announced == Spec => []SizeAgrees
<1>1. Init => SizeAgrees
  BY DEF Init, SizeAgrees
<1>2. Interned /\ SizeAgrees /\ [Next]_vars => SizeAgrees'
  <2> SUFFICES ASSUME Interned, SizeAgrees, [Next]_vars PROVE SizeAgrees'
    OBVIOUS
  <2>1. CASE UNCHANGED vars
    BY <2>1 DEF SizeAgrees, vars, Base
  <2>2. CASE Write
    <3>1. Size(strings, Base) = Len(image')
      BY <2>2, WriteLays
    <3>2. strings' = strings /\ Base' = Base
      BY <2>2 DEF Write, Base
    <3> QED BY <3>1, <3>2 DEF SizeAgrees
  <2>3. ASSUME NEW s \in String, Add(s) PROVE SizeAgrees'
    BY <2>3 DEF Add, SizeAgrees
  <2> QED BY <2>1, <2>2, <2>3 DEF Next
<1>3. Spec => []Interned
  BY Interning
<1> QED BY <1>1, <1>2, <1>3, PTL DEF Spec

-------------------------------------------------------------------------------
(* Tails *)

(* What the strings of A take, in the order of a list of strings.          *)
Room(list, A) == [i \in 1..Len(list) |-> IF list[i] \in A THEN Len(list[i]) + 1 ELSE 0]

LEMMA RoomIs ==
    ASSUME NEW list \in Strs, NEW A
    PROVE  /\ Len(list) \in Nat /\ \A i \in 1..Len(list) : Room(list, A)[i] \in Nat
           /\ SumTo(Room(list, A), Len(list)) \in Nat
<1>1. Len(list) \in Nat /\ \A i \in 1..Len(list) : Len(list[i]) \in Nat
  BY DEF Strs
<1>2. \A i \in 1..Len(list) : Room(list, A)[i] \in Nat
  BY <1>1 DEF Room
<1> QED BY <1>1, <1>2, SumToType

LEMMA RoomWithout ==
    ASSUME NEW list \in Strs, Distinct(list), NEW A, A \subseteq ToSet(list), NEW x \in A
    PROVE  /\ SumTo(Room(list, A), Len(list))
                  = (Len(x) + 1) + SumTo(Room(list, A \ {x}), Len(list))
           /\ Len(x) \in Nat
<1> DEFINE n == Len(list)
           e == Room(list, A)
           d == Room(list, A \ {x})
<1>1. PICK k \in 1..n : list[k] = x
  BY InSet DEF Strs
<1>2. n \in Nat /\ \A i \in 1..n : e[i] \in Nat /\ d[i] \in Nat
  BY RoomIs
<1>3. SumTo(e, n) \in Nat /\ SumTo(d, n) \in Nat
  BY RoomIs
<1>4. Len(x) \in Nat
  BY <1>1 DEF Strs
<1>5. e[k] = Len(x) + 1 /\ d[k] = 0
  BY <1>1 DEF Room
<1>6. ASSUME NEW i \in 1..n, i # k PROVE e[i] = d[i]
  <2>1. list[i] # x
    BY <1>1, <1>6 DEF Distinct
  <2> QED BY <2>1 DEF Room
<1> HIDE DEF n, e, d
<1>7. SumTo(e, n) + d[k] = SumTo(d, n) + e[k]
  BY <1>2, <1>6, SumToApart
<1>8. SumTo(e, n) = (Len(x) + 1) + SumTo(d, n)
  BY <1>3, <1>4, <1>5, <1>7
<1> QED BY <1>4, <1>8 DEF n, e, d

(* The sum over a set of strings, however it is listed.                    *)
LEMMA SumOverSet ==
    ASSUME NEW list \in Strs, Distinct(list), NEW A, A \subseteq ToSet(list)
    PROVE  MapThenSumSet(LAMBDA s : Len(s) + 1, A) = SumTo(Room(list, A), Len(list))
<1> DEFINE h == [B \in SUBSET A |-> SumTo(Room(list, B), Len(list))]
           iter[B \in SUBSET A] ==
               IF B = {} THEN 0
               ELSE LET x == CHOOSE x \in B : TRUE IN (Len(x) + 1) + iter[B \ {x}]
<1>1. MapThenSumSet(LAMBDA s : Len(s) + 1, A) = iter[A]
  BY DEF MapThenSumSet, MapThenFoldSet
<1>2. ASSUME NEW B \in SUBSET A, NEW x \in B
      PROVE  B \ {x} \in SUBSET A /\ h[B] = (Len(x) + 1) + h[B \ {x}] /\ Len(x) \in Nat
  <2>1. B \ {x} \in SUBSET A /\ B \subseteq ToSet(list)
    OBVIOUS
  <2>2. h[B] = SumTo(Room(list, B), Len(list))
        /\ h[B \ {x}] = SumTo(Room(list, B \ {x}), Len(list))
    BY <2>1
  <2> HIDE DEF h
  <2>3. /\ SumTo(Room(list, B), Len(list))
                  = (Len(x) + 1) + SumTo(Room(list, B \ {x}), Len(list))
        /\ Len(x) \in Nat
    BY <2>1, RoomWithout
  <2> QED BY <2>1, <2>2, <2>3
<1>3. h[{}] = 0
  <2>1. \A i \in 1..Len(list) : Room(list, {})[i] = 0
    BY DEF Room
  <2>2. SumTo(Room(list, {}), Len(list)) = 0
    BY <2>1, RoomIs, SumToZero
  <2> QED BY <2>2
<1>4. \A B \in SUBSET A : h[B] \in Nat
  BY RoomIs
<1>5. h = [B \in SUBSET A |-> h[B]]
  OBVIOUS
<1> HIDE DEF h, iter
<1>6. ASSUME NEW B \in SUBSET A
      PROVE  h[B] = IF B = {} THEN 0
                    ELSE LET x == CHOOSE x \in B : TRUE IN (Len(x) + 1) + h[B \ {x}]
  <2>1. CASE B = {}
    BY <1>3, <2>1
  <2>2. CASE B # {}
    <3> DEFINE x == CHOOSE x \in B : TRUE
    <3>1. x \in B
      BY <2>2
    <3> HIDE DEF x
    <3>2. h[B] = (Len(x) + 1) + h[B \ {x}]
      BY <1>2, <3>1
    <3> QED BY <2>2, <3>2 DEF x
  <2> QED BY <2>1, <2>2
<1>7. iter = [B \in SUBSET A |->
                 IF B = {} THEN 0
                 ELSE LET x == CHOOSE x \in B : TRUE IN (Len(x) + 1) + iter[B \ {x}]]
  <2>1. h = [B \in SUBSET A |->
                IF B = {} THEN 0
                ELSE LET x == CHOOSE x \in B : TRUE IN (Len(x) + 1) + h[B \ {x}]]
    BY <1>5, <1>6
  <2> QED BY <2>1 DEF iter
<1>8. \A B \in SUBSET A :
          iter[B] = IF B = {} THEN 0
                    ELSE LET x == CHOOSE x \in B : TRUE IN (Len(x) + 1) + iter[B \ {x}]
  BY <1>7
<1> DEFINE S == {m \in Nat : \A B \in SUBSET A : h[B] <= m => iter[B] = h[B]}
<1>9. ASSUME NEW B \in SUBSET A, B = {} PROVE iter[B] = h[B]
  BY <1>3, <1>8, <1>9
<1>10. ASSUME NEW B \in SUBSET A, B # {}
       PROVE  \E C \in SUBSET A : h[C] < h[B] /\ (iter[C] = h[C] => iter[B] = h[B])
  <2> DEFINE x == CHOOSE x \in B : TRUE
  <2>1. x \in B
    BY <1>10
  <2>2. iter[B] = (Len(x) + 1) + iter[B \ {x}]
    BY <1>8, <1>10
  <2> HIDE DEF x
  <2>3. B \ {x} \in SUBSET A /\ h[B] = (Len(x) + 1) + h[B \ {x}] /\ Len(x) \in Nat
    BY <1>2, <2>1
  <2>4. h[B \ {x}] \in Nat
    BY <1>4, <2>3
  <2>5. h[B \ {x}] < h[B]
    BY <2>3, <2>4
  <2> QED BY <2>2, <2>3, <2>5
<1>11. 0 \in S
  <2>1. ASSUME NEW B \in SUBSET A, h[B] <= 0 PROVE iter[B] = h[B]
    <3>1. CASE B = {}
      BY <1>9, <3>1
    <3>2. CASE B # {}
      <4>1. PICK C \in SUBSET A : h[C] < h[B]
        BY <1>10, <3>2
      <4>2. h[C] \in Nat /\ h[B] \in Nat
        BY <1>4
      <4> QED BY <2>1, <4>1, <4>2
    <3> QED BY <3>1, <3>2
  <2> QED BY <2>1
<1>12. ASSUME NEW m \in Nat, m \in S PROVE m + 1 \in S
  <2>1. ASSUME NEW B \in SUBSET A, h[B] <= m + 1 PROVE iter[B] = h[B]
    <3>1. CASE B = {}
      BY <1>9, <3>1
    <3>2. CASE B # {}
      <4>1. PICK C \in SUBSET A : h[C] < h[B] /\ (iter[C] = h[C] => iter[B] = h[B])
        BY <1>10, <3>2
      <4>2. h[C] \in Nat /\ h[B] \in Nat
        BY <1>4
      <4>3. h[C] <= m
        BY <2>1, <4>1, <4>2
      <4> QED BY <1>12, <4>1, <4>3
    <3> QED BY <3>1, <3>2
  <2> QED BY <2>1
<1>13. A \in SUBSET A /\ h[A] \in Nat
  BY <1>4
<1>14. h[A] \in S
  <2> HIDE DEF S
  <2> QED BY <1>11, <1>12, <1>13, SetInduction
<1>15. iter[A] = h[A]
  BY <1>13, <1>14
<1> QED BY <1>1, <1>15 DEF h

(* A tail has the last bytes.                                              *)
LEMMA TailBytes ==
    ASSUME NEW s \in Entries, NEW t \in Entries
    PROVE  IsSuffix(s, t) <=> \A k \in 1..Len(s) : ByteAt(s, k) = ByteAt(t, k)
<1>1. Len(s) \in Nat /\ Len(t) \in Nat /\ s \in Bytes /\ t \in Bytes
  BY DEF Entries, Bytes
<1>2. /\ \A k \in 1..Len(s) : ByteAt(s, k) = s[Len(s) - k + 1] /\ ByteAt(s, k) # 0
      /\ \A k \in 1..Len(t) : ByteAt(t, k) = t[Len(t) - k + 1]
      /\ \A k \in Nat \ {0} : ByteAt(t, k) # 0 => k <= Len(t)
  BY <1>1, NameByte DEF Entries
<1>3. ASSUME Len(s) <= Len(t), \A i \in 1..Len(s) : s[i] = t[Len(t) - Len(s) + i],
             NEW k \in 1..Len(s)
      PROVE  ByteAt(s, k) = ByteAt(t, k)
  <2> DEFINE i == Len(s) - k + 1
  <2>1. i \in 1..Len(s) /\ k \in 1..Len(t) /\ Len(t) - Len(s) + i = Len(t) - k + 1
    BY <1>1, <1>3
  <2>2. ByteAt(s, k) = s[i] /\ ByteAt(t, k) = t[Len(t) - k + 1]
    BY <1>2, <2>1
  <2> HIDE DEF i
  <2>3. s[i] = t[Len(t) - Len(s) + i]
    BY <1>3, <2>1
  <2> QED BY <2>1, <2>2, <2>3
<1>4. ASSUME \A k \in 1..Len(s) : ByteAt(s, k) = ByteAt(t, k)
      PROVE  Len(s) <= Len(t) /\ \A i \in 1..Len(s) : s[i] = t[Len(t) - Len(s) + i]
  <2>1. Len(s) <= Len(t)
    <3>1. CASE Len(s) = 0
      BY <1>1, <3>1
    <3>2. CASE Len(s) # 0
      <4>1. Len(s) \in 1..Len(s) /\ Len(s) \in Nat \ {0}
        BY <1>1, <3>2
      <4>2. ByteAt(t, Len(s)) # 0
        BY <1>2, <1>4, <4>1
      <4> QED BY <1>2, <4>1, <4>2
    <3> QED BY <3>1, <3>2
  <2>2. ASSUME NEW i \in 1..Len(s) PROVE s[i] = t[Len(t) - Len(s) + i]
    <3> DEFINE k == Len(s) - i + 1
    <3>1. /\ k \in 1..Len(s) /\ k \in 1..Len(t)
          /\ Len(s) - k + 1 = i /\ Len(t) - k + 1 = Len(t) - Len(s) + i
      BY <1>1, <2>1
    <3> HIDE DEF k
    <3>2. ByteAt(s, k) = s[Len(s) - k + 1] /\ ByteAt(t, k) = t[Len(t) - k + 1]
      BY <1>2, <3>1
    <3> QED BY <1>4, <3>1, <3>2
  <2> QED BY <2>1, <2>2
<1> QED BY <1>1, <1>3, <1>4, SuffixIs

LEMMA TailOfTail ==
    ASSUME NEW s \in Entries, NEW t \in Entries, NEW u \in Entries,
           IsSuffix(s, t), IsSuffix(t, u)
    PROVE  IsSuffix(s, u)
<1>1. /\ \A k \in 1..Len(s) : ByteAt(s, k) = ByteAt(t, k)
      /\ \A k \in 1..Len(t) : ByteAt(t, k) = ByteAt(u, k)
  BY TailBytes
<1>2. Len(s) <= Len(t) /\ Len(s) \in Nat /\ Len(t) \in Nat
  <2>1. s \in Bytes /\ t \in Bytes /\ Len(s) \in Nat /\ Len(t) \in Nat
    BY DEF Entries, Bytes
  <2> QED BY <2>1, SuffixIs
<1>3. \A k \in 1..Len(s) : ByteAt(s, k) = ByteAt(u, k)
  BY <1>1, <1>2
<1> QED BY <1>3, TailBytes

LEMMA EntryBytes ==
    ASSUME NEW s \in Entries, NEW k \in Nat \ {0}
    PROVE  ByteAt(s, k) \in Nat /\ (ByteAt(s, k) = 0 <=> k > Len(s)) /\ Len(s) \in Nat
<1>1. s \in Seq(Nat) /\ Len(s) \in Nat /\ (ByteAt(s, k) # 0 <=> k <= Len(s))
  BY NameByte DEF Entries
<1> QED BY <1>1, ByteAtType

(* The order is strict, and a tail comes after what it is a tail of.       *)
LEMMA TailAfter ==
    ASSUME NEW s \in Entries, NEW t \in Entries, IsSuffix(s, t)
    PROVE  ~Before(s, t, 1)
<1>1. ASSUME NEW k \in Nat, k >= 1, ByteAt(s, k) > ByteAt(t, k) PROVE FALSE
  <2>1. k \in Nat \ {0}
    BY <1>1
  <2>2. /\ ByteAt(s, k) \in Nat /\ ByteAt(t, k) \in Nat /\ Len(s) \in Nat
        /\ ByteAt(s, k) = 0 <=> k > Len(s)
    BY <2>1, EntryBytes
  <2>3. \A j \in 1..Len(s) : ByteAt(s, j) = ByteAt(t, j)
    BY TailBytes
  <2>4. ~(k > Len(s))
    BY <1>1, <2>2
  <2>5. k \in 1..Len(s)
    BY <2>1, <2>2, <2>4
  <2>6. ByteAt(s, k) = ByteAt(t, k)
    BY <2>3, <2>5
  <2> QED BY <1>1, <2>2, <2>6
<1> QED BY <1>1 DEF Before

(* What lies between a string and a tail of it has that tail.              *)
LEMMA Between ==
    ASSUME NEW t \in Entries, NEW u \in Entries, NEW s \in Entries,
           Before(t, u, 1), Before(u, s, 1), IsSuffix(s, t)
    PROVE  IsSuffix(s, u)
<1>1. PICK a \in Nat : /\ a >= 1 /\ ByteAt(t, a) > ByteAt(u, a)
                       /\ \A j \in 1..(a - 1) : ByteAt(t, j) = ByteAt(u, j)
  BY DEF Before
<1>2. PICK b \in Nat : /\ b >= 1 /\ ByteAt(u, b) > ByteAt(s, b)
                       /\ \A j \in 1..(b - 1) : ByteAt(u, j) = ByteAt(s, j)
  BY DEF Before
<1>3. /\ \A j \in 1..Len(s) : ByteAt(s, j) = ByteAt(t, j)
      /\ Len(s) \in Nat
  BY TailBytes DEF Entries
<1>4. /\ a \in Nat \ {0} /\ b \in Nat \ {0}
      /\ ByteAt(t, a) \in Nat /\ ByteAt(u, a) \in Nat /\ ByteAt(s, a) \in Nat
      /\ ByteAt(t, b) \in Nat /\ ByteAt(u, b) \in Nat /\ ByteAt(s, b) \in Nat
  <2>1. a \in Nat \ {0} /\ b \in Nat \ {0}
    BY <1>1, <1>2
  <2> QED BY <2>1, EntryBytes
<1>5. ASSUME a <= Len(s) PROVE FALSE
  <2>1. ByteAt(s, a) = ByteAt(t, a)
    BY <1>3, <1>4, <1>5
  <2>2. CASE b < a
    <3>1. ByteAt(t, b) = ByteAt(u, b)
      BY <1>1, <1>4, <2>2
    <3>2. ByteAt(s, b) = ByteAt(t, b)
      BY <1>3, <1>4, <1>5, <2>2
    <3> QED BY <1>2, <1>4, <3>1, <3>2
  <2>3. CASE b = a
    BY <1>1, <1>2, <1>4, <2>1, <2>3
  <2>4. CASE b > a
    <3>1. ByteAt(u, a) = ByteAt(s, a)
      BY <1>2, <1>4, <2>4
    <3> QED BY <1>1, <1>4, <2>1, <3>1
  <2> QED BY <1>4, <2>2, <2>3, <2>4
<1>6. ASSUME NEW k \in 1..Len(s) PROVE ByteAt(s, k) = ByteAt(u, k)
  <2>1. k \in 1..(a - 1)
    BY <1>3, <1>4, <1>5
  <2> QED BY <1>1, <1>3, <2>1
<1> QED BY <1>6, TailBytes

LEMMA OrderedDistinct ==
    ASSUME NEW list \in Strs, Ordered(list, 1), \A x \in ToSet(list) : x \in Entries
    PROVE  Distinct(list)
<1>1. \A i \in 1..Len(list) : list[i] \in Entries
  BY InSet DEF Strs
<1>2. \A x \in Entries : ~Before(x, x, 1)
  <2>1. ASSUME NEW x \in Entries PROVE ~Before(x, x, 1)
    <3>1. IsSuffix(x, x)
      BY TailBytes
    <3> QED BY <3>1, TailAfter
  <2> QED BY <2>1
<1>3. ASSUME NEW i \in 1..Len(list), NEW j \in 1..Len(list), list[i] = list[j]
      PROVE  i = j
  <2>1. ~(i < j) /\ ~(j < i)
    BY <1>1, <1>2, <1>3 DEF Ordered
  <2>2. i \in Nat /\ j \in Nat
    BY DEF Strs
  <2> QED BY <2>1, <2>2
<1> QED BY <1>3 DEF Distinct

(* The strings of S that are no tails of others.                           *)
Tops(S) == {s \in S : \A t \in S : IsSuffix(s, t) => s = t} \ {<<>>}

(* The string at m is a tail of the one emitted last before it exactly     *)
(* when it is a tail of any string at all.                                 *)
Reached(list, previous, m) ==
    /\ previous = <<>> \/ \E i \in 1..m : previous = list[i]
    /\ m >= 1 => IsSuffix(list[m], previous)

LEMMA EmptyTail ==
    /\ <<>> \in Entries
    /\ \A t \in Entries : IsSuffix(<<>>, t)
    /\ \A s \in Entries : IsSuffix(s, <<>>) => s = <<>>
<1>1. <<>> \in Entries /\ Len(<<>>) = 0 /\ <<>> \in Bytes
  BY DEF Entries, Bytes
<1>2. ASSUME NEW t \in Entries PROVE IsSuffix(<<>>, t)
  <2>1. \A k \in 1..Len(<<>>) : ByteAt(<<>>, k) = ByteAt(t, k)
    BY <1>1
  <2> QED BY <1>1, <2>1, TailBytes
<1>3. ASSUME NEW s \in Entries, IsSuffix(s, <<>>) PROVE s = <<>>
  <2>1. s \in Bytes /\ Len(s) \in Nat
    BY DEF Entries, Bytes
  <2>2. Len(s) <= 0
    BY <1>1, <1>3, <2>1, SuffixIs
  <2> QED BY <2>1, <2>2 DEF Bytes
<1> QED BY <1>1, <1>2, <1>3

LEMMA TopsReached ==
    ASSUME NEW list \in Strs, Ordered(list, 1), \A x \in ToSet(list) : x \in Entries,
           NEW m \in 1..Len(list), NEW previous, Reached(list, previous, m - 1)
    PROVE  /\ list[m] \in Tops(ToSet(list)) <=> ~IsSuffix(list[m], previous)
           /\ IsSuffix(list[m], previous) => Reached(list, previous, m)
           /\ Reached(list, list[m], m)
<1> DEFINE s == list[m]
           S == ToSet(list)
<1>1. /\ \A i \in 1..Len(list) : list[i] \in S /\ list[i] \in Entries
      /\ \A x \in S : \E i \in 1..Len(list) : list[i] = x
      /\ Len(list) \in Nat
  <2>1. /\ \A x : x \in ToSet(list) <=> \E i \in 1..Len(list) : list[i] = x
        /\ \A i \in 1..Len(list) : list[i] \in ToSet(list)
        /\ Len(list) \in Nat
    BY InSet DEF Strs
  <2> QED BY <2>1
<1>2. Distinct(list)
  BY OrderedDistinct
<1>3. previous \in Entries
  <2>1. \A i \in 1..(m - 1) : i \in 1..Len(list)
    BY <1>1
  <2> QED BY <1>1, <2>1, EmptyTail DEF Reached
<1>4. s \in Entries /\ s \in S
  BY <1>1
<1> HIDE DEF s, S
<1>5. ASSUME s \in Tops(S) PROVE ~IsSuffix(s, previous)
  <2>1. CASE previous = <<>>
    BY <1>4, <1>5, <2>1, EmptyTail DEF Tops
  <2>2. ASSUME NEW i \in 1..(m - 1), previous = list[i] PROVE ~IsSuffix(s, previous)
    <3>1. i \in 1..Len(list) /\ i # m
      BY <1>1
    <3>2. previous \in S /\ previous # s
      BY <1>1, <1>2, <2>2, <3>1 DEF Distinct, s
    <3> QED BY <1>5, <3>2 DEF Tops
  <2> QED BY <2>1, <2>2 DEF Reached
<1>6. ASSUME s \notin Tops(S) PROVE IsSuffix(s, previous)
  <2>1. CASE s = <<>>
    BY <1>3, <2>1, EmptyTail
  <2>2. CASE s # <<>>
    <3>1. PICK t \in S : IsSuffix(s, t) /\ s # t
      BY <1>4, <1>6, <2>2 DEF Tops
    <3>2. PICK k \in 1..Len(list) : list[k] = t
      BY <1>1
    <3>3. t \in Entries
      BY <1>1, <3>2
    <3>4. k < m
      <4>1. ~(m < k)
        <5>1. ASSUME m < k PROVE Before(s, t, 1)
          BY <3>2, <5>1 DEF Ordered, s
        <5> QED BY <1>4, <3>1, <3>3, <5>1, TailAfter
      <4>2. m # k
        BY <3>1, <3>2 DEF s
      <4> QED BY <1>1, <4>1, <4>2
    <3> DEFINE u == list[m - 1]
    <3>5. m - 1 \in 1..Len(list) /\ m - 1 >= 1 /\ u \in Entries /\ m - 1 < m
      <4>1. m - 1 \in 1..Len(list) /\ m - 1 >= 1 /\ m - 1 < m
        BY <1>1, <3>4
      <4> QED BY <1>1, <4>1
    <3>6. IsSuffix(u, previous)
      BY <3>5 DEF Reached
    <3>7. Before(u, s, 1)
      BY <3>5 DEF Ordered, s
    <3>8. IsSuffix(s, u)
      <4>1. CASE k = m - 1
        BY <3>1, <3>2, <4>1
      <4>2. CASE k # m - 1
        <5>1. k < m - 1
          BY <1>1, <3>4, <4>2
        <5>2. Before(t, u, 1)
          BY <3>2, <3>5, <5>1 DEF Ordered
        <5> HIDE DEF u
        <5> QED BY <1>4, <3>1, <3>3, <3>5, <3>7, <5>2, Between
      <4> QED BY <4>1, <4>2
    <3> HIDE DEF u
    <3> QED BY <1>3, <1>4, <3>5, <3>6, <3>8, TailOfTail
  <2> QED BY <2>1, <2>2
<1>7. ASSUME IsSuffix(s, previous) PROVE Reached(list, previous, m)
  <2>1. \A i \in 1..(m - 1) : i \in 1..m
    BY <1>1
  <2> QED BY <1>7, <2>1 DEF Reached, s
<1>8. Reached(list, s, m)
  <2>1. m \in 1..m
    BY <1>1
  <2>2. IsSuffix(s, s)
    BY <1>4, TailBytes
  <2> QED BY <2>1, <2>2 DEF Reached, s
<1> QED BY <1>5, <1>6, <1>7, <1>8 DEF s, S

(* The walk over strings in order emits those that are no tails.           *)
LEMMA WalkMerges ==
    ASSUME NEW base \in Nat \ {0}, NEW list \in Strs, Ordered(list, 1),
           \A x \in ToSet(list) : x \in Entries
    PROVE  Len(PlaceAll(list, base).data)
               = SumTo(Room(list, Tops(ToSet(list))), Len(list))
<1> DEFINE n == Len(list)
           e == Room(list, Tops(ToSet(list)))
<1>1. PICK f : Placing(f, list, base) /\ PlaceAll(list, base) = f[n]
  <2>1. \E f : Placing(f, list, base) /\ PlaceAll(list, base) = f[n]
    BY PlaceAllIs
  <2> QED BY <2>1
<1>2. n \in Nat /\ \A i \in 1..n : e[i] \in Nat
  BY RoomIs
<1>3. PICK g : SumSteps(g, e, n)
  <2>1. \E g : SumSteps(g, e, n)
    <3> HIDE DEF n, e
    <3> QED BY <1>2, SumToSteps
  <2> QED BY <2>1
<1>4. \A i \in 1..n : e[i] = IF list[i] \in Tops(ToSet(list)) THEN Len(list[i]) + 1 ELSE 0
  BY DEF Room
<1> HIDE DEF e
<1> DEFINE Merged(m) == Reached(list, f[m].previous, m) /\ Len(f[m].data) = g[m]
           S == {m \in Nat : m <= n => Merged(m)}
<1>5. 0 \in S
  <2>1. f[0] = Start(base) /\ g[0] = 0
    BY <1>1, <1>3 DEF Placing, SumSteps
  <2>2. f[0].previous = <<>> /\ Len(f[0].data) = 0
    BY <2>1 DEF Start
  <2>3. Reached(list, f[0].previous, 0)
    BY <2>2 DEF Reached
  <2> QED BY <2>1, <2>2, <2>3
<1>6. ASSUME NEW m \in Nat, m \in S PROVE m + 1 \in S
  <2>1. ASSUME m + 1 <= n PROVE Merged(m + 1)
    <3> DEFINE s == list[m + 1]
               x == f[m]
               y == f[m + 1]
    <3>1. m + 1 \in 1..n /\ m \in 0..n /\ (m + 1) - 1 = m /\ Merged(m)
      BY <1>2, <1>6, <2>1
    <3>2. y = Place(x, s) /\ x \in Walks
      BY <1>1, <3>1 DEF Placing, Walked
    <3>3. g[m + 1] = g[m] + e[m + 1]
      BY <1>3, <3>1 DEF SumSteps
    <3>4. Reached(list, x.previous, m) /\ Len(x.data) = g[m]
      BY <3>1
    <3>5. s \in Bytes /\ e[m + 1] = IF s \in Tops(ToSet(list)) THEN Len(s) + 1 ELSE 0
      <4>1. s \in Bytes
        BY <3>1 DEF Strs, Bytes
      <4> QED BY <1>4, <3>1, <4>1
    <3>6. /\ s \in Tops(ToSet(list)) <=> ~IsSuffix(s, x.previous)
          /\ IsSuffix(s, x.previous) => Reached(list, x.previous, m + 1)
          /\ Reached(list, s, m + 1)
      <4> DEFINE p == x.previous
      <4>1. Reached(list, p, (m + 1) - 1) /\ m + 1 \in 1..Len(list)
        BY <3>1, <3>4
      <4> HIDE DEF p
      <4>2. /\ list[m + 1] \in Tops(ToSet(list)) <=> ~IsSuffix(list[m + 1], p)
            /\ IsSuffix(list[m + 1], p) => Reached(list, p, m + 1)
            /\ Reached(list, list[m + 1], m + 1)
        BY <4>1, TopsReached
      <4> QED BY <4>2 DEF p
    <3> HIDE DEF s, x, y
    <3>7. CASE IsSuffix(s, x.previous)
      <4>1. y.data = x.data /\ y.previous = x.previous
        BY <3>2, <3>7 DEF Place, Walks
      <4>2. e[m + 1] = 0 /\ g[m] \in Nat
        BY <3>2, <3>4, <3>5, <3>6, <3>7 DEF Walks, Bytes
      <4>3. Len(y.data) = g[m + 1]
        BY <3>3, <3>4, <4>1, <4>2
      <4> QED BY <3>6, <3>7, <4>1, <4>3 DEF y
    <3>8. CASE ~IsSuffix(s, x.previous)
      <4>1. y.data = x.data \o s \o <<0>> /\ y.previous = s
        BY <3>2, <3>8 DEF Place, Emit
      <4>2. e[m + 1] = Len(s) + 1
        BY <3>5, <3>6, <3>8
      <4> DEFINE d == x.data
      <4>3. d \in Bytes /\ Len(d) = g[m] /\ Len(d) \in Nat /\ Len(s) \in Nat
        BY <3>2, <3>4, <3>5 DEF Walks, Bytes
      <4> HIDE DEF d
      <4>4. Len(d \o s \o <<0>>) = Len(d) + Len(s) + 1
        BY <3>5, <4>3, FoundLast
      <4>5. Len(y.data) = g[m + 1]
        <5>1. Len(y.data) = Len(d \o s \o <<0>>)
          BY <4>1 DEF d
        <5>2. Len(y.data) = Len(d) + Len(s) + 1
          BY <4>4, <5>1
        <5>3. g[m + 1] = Len(d) + (Len(s) + 1)
          BY <3>3, <4>2, <4>3
        <5> QED BY <4>3, <5>2, <5>3
      <4> QED BY <3>6, <4>1, <4>5 DEF y
    <3> QED BY <3>7, <3>8
  <2> QED BY <2>1
<1>7. n \in S
  <2> HIDE DEF S, n
  <2> QED BY <1>2, <1>5, <1>6, SetInduction
<1> QED BY <1>1, <1>2, <1>3, <1>7 DEF SumSteps, e

(* What the strings of A take.                                             *)
Taken(A) == MapThenSumSet(LAMBDA s : Len(s) + 1, A)

LEMMA WriteMerges ==
    ASSUME Interned, Write
    PROVE  Len(image') = Base + Taken(Tops(ToSet(strings)))
<1> DEFINE list == Sort(strings)
           A == Tops(ToSet(strings))
<1>1. strings \in Seq(String) /\ Distinct(strings) /\ Base \in Nat \ {0}
  BY StringTableAssumption DEF Interned, Base
<1>2. strings \in Strs /\ Names(ToSet(strings))
  BY <1>1, StringIs
<1>3. list \in Strs /\ ToSet(list) = ToSet(strings) /\ Ordered(list, 1)
  BY <1>1, <1>2, SortSorts
<1>4. \A x \in ToSet(list) : x \in Entries
  BY <1>2, <1>3 DEF Names, Entries
<1>5. Len(image') = Base + Len(Written(strings, Base).data)
  BY <1>1, WriteLays, WrittenIs
<1>6. Written(strings, Base) = PlaceAll(list, Base)
  BY DEF Written
<1> HIDE DEF list
<1>7. Len(PlaceAll(list, Base).data) = SumTo(Room(list, A), Len(list))
  BY <1>1, <1>3, <1>4, WalkMerges
<1>8. Distinct(list) /\ A \subseteq ToSet(list)
  BY <1>3, <1>4, OrderedDistinct DEF Tops
<1> HIDE DEF A
<1>9. MapThenSumSet(LAMBDA s : Len(s) + 1, A) = SumTo(Room(list, A), Len(list))
  BY <1>3, <1>8, SumOverSet
<1>10. Len(image') = Base + MapThenSumSet(LAMBDA s : Len(s) + 1, A)
  BY <1>5, <1>6, <1>7, <1>9
<1> QED BY <1>10 DEF A, Taken

(* No room is wasted on tails: whatever strings are interned, and in which *)
(* order, the table has one copy of every string that is the tail of no    *)
(* other, and nothing else.  The sort is what makes it so: every string    *)
(* between one and its tail has that tail.                                 *)
THEOREM Merging == Spec => []TailsMerged
<1> DEFINE Merged == offsets # <<>> => Len(image) = Base + Taken(Maximal \ {<<>>})
<1>0. Merged <=> TailsMerged
  BY DEF TailsMerged, Taken
<1>1. Init => Merged
  BY DEF Init
<1>2. Interned /\ Merged /\ [Next]_vars => Merged'
  <2> SUFFICES ASSUME Interned, Merged, [Next]_vars PROVE Merged'
    OBVIOUS
  <2>1. CASE UNCHANGED vars
    <3>1. Maximal' = Maximal /\ Base' = Base /\ offsets' = offsets /\ image' = image
      BY <2>1 DEF Maximal, Base, vars
    <3> QED BY <3>1
  <2>2. CASE Write
    <3>1. Len(image') = Base + Taken(Tops(ToSet(strings)))
      BY <2>2, WriteMerges
    <3>2. strings' = strings /\ Base' = Base
      BY <2>2 DEF Write, Base
    <3>3. Tops(ToSet(strings)) = Maximal \ {<<>>}
      BY DEF Tops, Maximal
    <3>4. Maximal' = Maximal
      BY <3>2 DEF Maximal
    <3> QED BY <3>1, <3>2, <3>3, <3>4
  <2>3. ASSUME NEW s \in String, Add(s) PROVE Merged'
    BY <2>3 DEF Add
  <2> QED BY <2>1, <2>2, <2>3 DEF Next
<1>3. Spec => []Interned
  BY Interning
<1> QED BY <1>0, <1>1, <1>2, <1>3, PTL DEF Spec
===============================================================================
