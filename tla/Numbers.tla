------------------------------- MODULE Numbers -------------------------------
(***************************************************************************)
(* Facts about numbers: products and remainders, rounding up to an         *)
(* alignment, induction, sums, and sequences that grow.                     *)
(***************************************************************************)
EXTENDS Sums, SequenceTheorems, WellFoundedInduction, TLAPS

LEMMA Product == ASSUME NEW m \in Nat, NEW n \in Nat PROVE m * n \in Nat
OBVIOUS

LEMMA MultipleMod ==
    ASSUME NEW a \in Nat \ {0}, NEW m \in Int PROVE (a * m) % a = 0
<1> DEFINE q == (a * m) \div a
           r == (a * m) % a
<1>1. q \in Int /\ r \in 0..(a - 1) /\ a * m = a * q + r
  OBVIOUS
<1> HIDE DEF q, r
<1>2. a * (m - q) = r
  BY <1>1
<1>3. ASSUME NEW d \in Int, d >= 1 PROVE a * d >= a
  <2>1. a * (d - 1) \in Nat
    BY <1>3, Product
  <2> QED BY <2>1
<1>4. ASSUME NEW d \in Int, d <= -1 PROVE a * d <= -a
  <2>1. a * (-d - 1) \in Nat
    BY <1>4, Product
  <2> QED BY <2>1
<1>5. m - q \in Int /\ (m - q >= 1 \/ m - q <= -1 \/ m - q = 0)
  BY <1>1
<1>6. m - q = 0
  BY <1>1, <1>2, <1>3, <1>4, <1>5
<1>7. r = 0
  BY <1>2, <1>6
<1> QED BY <1>7 DEF r

(* What util::align computes: the least multiple of a that is not below n. *)
LEMMA RoundUp ==
    ASSUME NEW n \in Int, NEW a \in Nat \ {0}
    PROVE  /\ n + ((-n) % a) \in Int
           /\ n + ((-n) % a) >= n /\ n + ((-n) % a) < n + a
           /\ (n + ((-n) % a)) % a = 0
<1> DEFINE q == (-n) \div a
           r == (-n) % a
<1>1. q \in Int /\ r \in 0..(a - 1) /\ -n = a * q + r
  OBVIOUS
<1> HIDE DEF q, r
<1>3. PICK m \in Int : n + r = a * m
  <2>1. -q \in Int /\ n + r = a * (-q)
    BY <1>1
  <2> QED BY <2>1
<1>4. (a * m) % a = 0
  BY MultipleMod
<1>5. n + r \in Int /\ n + r >= n /\ n + r < n + a /\ (n + r) % a = 0
  BY <1>1, <1>3, <1>4
<1> QED BY <1>5 DEF r

LEMMA IsMultiple ==
    ASSUME NEW a \in Nat \ {0}, NEW x \in Int, x % a = 0
    PROVE  \E m \in Int : x = a * m
<1> DEFINE q == x \div a
           r == x % a
<1>1. q \in Int /\ r = 0 /\ x = a * q + r
  OBVIOUS
<1> HIDE DEF q, r
<1> QED BY <1>1

(* Multiples of a that differ are at least a apart.                        *)
LEMMA MultiplesApart ==
    ASSUME NEW a \in Nat \ {0}, NEW x \in Int, NEW y \in Int,
           x % a = 0, y % a = 0, x < y
    PROVE  x + a <= y
<1>1. PICK m \in Int : x = a * m
  BY IsMultiple
<1>2. PICK n \in Int : y = a * n
  BY IsMultiple
<1>3. n - m >= 1
  <2>1. CASE n <= m
    <3>1. a * (m - n) \in Nat
      BY <2>1, Product
    <3> QED BY <3>1, <1>1, <1>2
  <2> QED BY <2>1
<1>4. a * (n - m - 1) \in Nat
  BY <1>3, Product
<1> QED BY <1>1, <1>2, <1>4

LEMMA MultiplesAdd ==
    ASSUME NEW a \in Nat \ {0}, NEW x \in Int, NEW y \in Int,
           x % a = 0, y % a = 0
    PROVE  (x + y) % a = 0 /\ (x - y) % a = 0
<1>1. PICK m \in Int : x = a * m
  BY IsMultiple
<1>2. PICK n \in Int : y = a * n
  BY IsMultiple
<1>3. x + y = a * (m + n) /\ x - y = a * (m - n) /\ m + n \in Int /\ m - n \in Int
  BY <1>1, <1>2
<1> QED BY <1>3, MultipleMod

(* Every set of naturals has a least element.                              *)
LEMMA LeastNat ==
    ASSUME NEW T \in SUBSET Nat, T # {}
    PROVE  \E x \in T : \A y \in T : x <= y
<1> DEFINE R == {ss \in Nat \X Nat : ss[1] < ss[2]}
<1>1. IsWellFoundedOn(R, Nat)
  BY NatLessThanWellFounded DEF OpToRel
<1> HIDE DEF R
<1>2. PICK x \in T : \A y \in T : ~(<<y, x>> \in R)
  BY <1>1, WFMin
<1>3. ASSUME NEW y \in T PROVE x <= y
  <2>1. <<y, x>> \in Nat \X Nat /\ <<y, x>>[1] = y /\ <<y, x>>[2] = x
    OBVIOUS
  <2>2. ~(y < x)
    BY <1>2, <2>1 DEF R
  <2> QED BY <2>2
<1> QED BY <1>3

(* Induction, with a set in the place of a predicate.                      *)
LEMMA SetInduction ==
    ASSUME NEW S, 0 \in S, \A n \in Nat : n \in S => n + 1 \in S
    PROVE  \A n \in Nat : n \in S
<1> DEFINE T == {n \in Nat : n \notin S}
<1> SUFFICES T = {} OBVIOUS
<1> SUFFICES ASSUME T # {} PROVE FALSE OBVIOUS
<1>1. PICK x \in T : \A y \in T : x <= y
  BY LeastNat
<1>2. x # 0 /\ x - 1 \in Nat OBVIOUS
<1>3. x - 1 \in S
  BY <1>1, <1>2
<1>4. (x - 1) + 1 \in S BY <1>2, <1>3
<1> QED BY <1>4

(* f is the sums of the beginnings of e.                                   *)
IsSums(f, e, n) ==
    /\ f \in [0..n -> Nat]
    /\ \A i \in 0..n : f[i] = IF i = 0 THEN 0 ELSE f[i - 1] + e[i]

LEMMA SumsExtend ==
    ASSUME NEW n \in Nat, NEW e, NEW f, IsSums(f, e, n), e[n + 1] \in Nat
    PROVE  \E h : IsSums(h, e, n + 1)
<1> DEFINE h == [i \in 0..(n + 1) |-> IF i = n + 1 THEN f[n] + e[n + 1] ELSE f[i]]
<1>1. h \in [0..(n + 1) -> Nat]
  BY DEF IsSums
<1>2. ASSUME NEW i \in 0..(n + 1)
      PROVE  h[i] = IF i = 0 THEN 0 ELSE h[i - 1] + e[i]
  <2>1. CASE i = n + 1
    BY <2>1
  <2>2. CASE i # n + 1
    <3>1. i \in 0..n /\ (i # 0 => i - 1 \in 0..n)
      BY <2>2
    <3>2. h[i] = f[i] /\ (i # 0 => h[i - 1] = f[i - 1])
      BY <3>1, <2>2
    <3> QED BY <3>1, <3>2 DEF IsSums
  <2> QED BY <2>1, <2>2
<1> QED BY <1>1, <1>2 DEF IsSums

LEMMA SumsExist ==
    ASSUME NEW n \in Nat, NEW e, \A i \in 1..n : e[i] \in Nat
    PROVE  \E f : IsSums(f, e, n)
<1> DEFINE P(m) == m <= n => \E f : IsSums(f, e, m)
           S == {m \in Nat : P(m)}
<1>1. 0 \in S
  <2>1. IsSums([i \in 0..0 |-> 0], e, 0)
    BY DEF IsSums
  <2> QED BY <2>1
<1>2. ASSUME NEW m \in Nat, m \in S PROVE m + 1 \in S
  <2>1. P(m)
    BY <1>2
  <2>2. ASSUME m + 1 <= n PROVE \E f : IsSums(f, e, m + 1)
    <3>1. PICK f : IsSums(f, e, m)
      BY <2>1, <2>2
    <3>2. e[m + 1] \in Nat
      BY <2>2
    <3> QED BY <3>1, <3>2, SumsExtend
  <2> QED BY <2>2
<1>3. n \in S
  <2> HIDE DEF S
  <2> QED BY <1>1, <1>2, SetInduction
<1> QED BY <1>3

(* Whatever is defined by that recursion has natural values.               *)
LEMMA SumsNatural ==
    ASSUME NEW n \in Nat, NEW e, \A i \in 1..n : e[i] \in Nat,
           NEW f, f = [i \in 0..n |-> IF i = 0 THEN 0 ELSE f[i - 1] + e[i]]
    PROVE  f[n] \in Nat
<1> DEFINE S == {m \in Nat : m <= n => f[m] \in Nat}
<1>1. \A i \in 0..n : f[i] = IF i = 0 THEN 0 ELSE f[i - 1] + e[i]
  OBVIOUS
<1>2. 0 \in S
  BY <1>1
<1>3. ASSUME NEW m \in Nat, m \in S PROVE m + 1 \in S
  <2>1. ASSUME m + 1 <= n PROVE f[m + 1] \in Nat
    <3>1. f[m] \in Nat /\ e[m + 1] \in Nat
      BY <1>3, <2>1
    <3>2. f[m + 1] = f[m] + e[m + 1]
      BY <1>1, <2>1
    <3> QED BY <3>1, <3>2
  <2> QED BY <2>1
<1>4. n \in S
  <2> HIDE DEF S
  <2> QED BY <1>2, <1>3, SetInduction
<1> QED BY <1>4

(* The sum satisfies its recursion.                                        *)
LEMMA SumToIs ==
    ASSUME NEW n \in Nat, NEW e, \A i \in 1..n : e[i] \in Nat
    PROVE  \E f : /\ f = [i \in 0..n |-> IF i = 0 THEN 0 ELSE f[i - 1] + e[i]]
                  /\ SumTo(e, n) = f[n]
<1> DEFINE f[i \in 0..n] == IF i = 0 THEN 0 ELSE f[i - 1] + e[i]
<1>1. PICK g : IsSums(g, e, n)
  BY SumsExist
<1>2. g = [i \in 0..n |-> IF i = 0 THEN 0 ELSE g[i - 1] + e[i]]
  BY <1>1 DEF IsSums
<1>3. f = [i \in 0..n |-> IF i = 0 THEN 0 ELSE f[i - 1] + e[i]]
  BY <1>2
<1>4. SumTo(e, n) = f[n]
  BY DEF SumTo
<1> HIDE DEF f
<1> QED BY <1>3, <1>4

LEMMA SumToType ==
    ASSUME NEW n \in Nat, NEW e, \A i \in 1..n : e[i] \in Nat
    PROVE  SumTo(e, n) \in Nat
<1>1. \E f : /\ f = [i \in 0..n |-> IF i = 0 THEN 0 ELSE f[i - 1] + e[i]]
             /\ SumTo(e, n) = f[n]
  BY SumToIs
<1> QED BY <1>1, SumsNatural, ZenonT(40)

(* A sum of one number more.                                               *)
LEMMA SumToExtends ==
    ASSUME NEW n \in Nat, NEW e, NEW d, \A i \in 1..n : e[i] \in Nat /\ d[i] = e[i],
           d[n + 1] \in Nat
    PROVE  SumTo(d, n + 1) = SumTo(e, n) + d[n + 1]
<1>1. \E f : /\ f = [i \in 0..n |-> IF i = 0 THEN 0 ELSE f[i - 1] + e[i]]
             /\ SumTo(e, n) = f[n]
  BY SumToIs
<1>2. \E g : /\ g = [i \in 0..(n + 1) |-> IF i = 0 THEN 0 ELSE g[i - 1] + d[i]]
             /\ SumTo(d, n + 1) = g[n + 1]
  <2>1. \A i \in 1..(n + 1) : d[i] \in Nat
    <3> SUFFICES ASSUME NEW i \in 1..(n + 1) PROVE d[i] \in Nat
      OBVIOUS
    <3>1. i \in 1..n \/ i = n + 1
      OBVIOUS
    <3> QED BY <3>1
  <2>2. n + 1 \in Nat
    OBVIOUS
  <2> QED BY <2>1, <2>2, SumToIs
<1>3. PICK f : /\ f = [i \in 0..n |-> IF i = 0 THEN 0 ELSE f[i - 1] + e[i]]
               /\ SumTo(e, n) = f[n]
  BY <1>1
<1>4. PICK g : /\ g = [i \in 0..(n + 1) |-> IF i = 0 THEN 0 ELSE g[i - 1] + d[i]]
               /\ SumTo(d, n + 1) = g[n + 1]
  BY <1>2
<1>5. /\ \A i \in 0..n : f[i] = IF i = 0 THEN 0 ELSE f[i - 1] + e[i]
      /\ \A i \in 0..(n + 1) : g[i] = IF i = 0 THEN 0 ELSE g[i - 1] + d[i]
  BY <1>3, <1>4
<1> DEFINE S == {m \in Nat : m <= n => g[m] = f[m]}
<1>6. 0 \in S
  BY <1>5
<1>7. ASSUME NEW m \in Nat, m \in S PROVE m + 1 \in S
  <2>1. ASSUME m + 1 <= n PROVE g[m + 1] = f[m + 1]
    <3>1. g[m] = f[m] /\ d[m + 1] = e[m + 1]
      BY <1>7, <2>1
    <3>2. f[m + 1] = f[m] + e[m + 1] /\ g[m + 1] = g[m] + d[m + 1]
      BY <1>5, <2>1
    <3> QED BY <3>1, <3>2
  <2> QED BY <2>1
<1>8. n \in S
  <2> HIDE DEF S
  <2> QED BY <1>6, <1>7, SetInduction
<1>9. g[n] = f[n] /\ g[n + 1] = g[n] + d[n + 1]
  BY <1>5, <1>8
<1> QED BY <1>3, <1>4, <1>9

(* A function that grows by its next value is an Append.                   *)
LEMMA Appended ==
    ASSUME NEW S, NEW s \in Seq(S), NEW t \in Seq(S), Len(t) = Len(s) + 1,
           \A i \in 1..Len(s) : t[i] = s[i]
    PROVE  t = Append(s, t[Len(t)]) /\ t[Len(t)] \in S /\ t # <<>>
<1>1. Len(s) \in Nat /\ t[Len(t)] \in S
  OBVIOUS
<1>2. Append(s, t[Len(t)]) \in Seq(S)
  BY <1>1
<1>3. ASSUME NEW i \in 1..Len(t) PROVE t[i] = Append(s, t[Len(t)])[i]
  <2>1. i \in 1..Len(s) \/ i = Len(s) + 1
    BY <1>1
  <2> QED BY <1>1, <2>1
<1>4. Len(Append(s, t[Len(t)])) = Len(t)
  BY <1>1
<1> QED BY <1>1, <1>2, <1>3, <1>4, SeqEqual

(* A recursion over 0..n has a solution: the values from T[0] on, each     *)
(* step of which leads from T[i - 1] to T[i].                              *)
Leads(n, V, T, G, x) ==
    /\ x \in T[0] /\ \A i \in 0..n : T[i] \subseteq V
    /\ \A i \in 1..n : \A y \in T[i - 1] : G[i][y] \in T[i]

Solves(f, n, V, T, G, x) ==
    /\ f \in [0..n -> V]
    /\ f[0] = x /\ \A i \in 1..n : f[i] = G[i][f[i - 1]]
    /\ \A i \in 0..n : f[i] \in T[i]

LEMMA Iterates ==
    ASSUME NEW n \in Nat, NEW V, NEW T, NEW G, NEW x, Leads(n, V, T, G, x)
    PROVE  \E f : Solves(f, n, V, T, G, x)
<1> USE DEF Leads
<1> DEFINE Is(f, m) == /\ f \in [0..m -> V]
                       /\ f[0] = x /\ \A i \in 1..m : f[i] = G[i][f[i - 1]]
                       /\ \A i \in 0..m : f[i] \in T[i]
           S == {m \in Nat : m <= n => \E f : Is(f, m)}
<1>1. 0 \in S
  <2> DEFINE f == [i \in 0..0 |-> x]
  <2>1. Is(f, 0)
    OBVIOUS
  <2> QED BY <2>1
<1>2. ASSUME NEW m \in Nat, m \in S PROVE m + 1 \in S
  <2>1. ASSUME m + 1 <= n PROVE \E f : Is(f, m + 1)
    <3>1. PICK g : Is(g, m)
      BY <1>2, <2>1
    <3> DEFINE v == G[m + 1][g[m]]
               f == [i \in 0..(m + 1) |-> IF i = m + 1 THEN v ELSE g[i]]
    <3>2. v \in T[m + 1] /\ v \in V
      <4>1. g[m] \in T[(m + 1) - 1] /\ m + 1 \in 1..n /\ m + 1 \in 0..n
        BY <3>1, <2>1
      <4> QED BY <4>1
    <3>3. ASSUME NEW i \in 1..(m + 1) PROVE f[i] = G[i][f[i - 1]]
      <4>1. CASE i = m + 1
        <5>1. f[i] = v /\ f[i - 1] = g[m]
          BY <4>1
        <5> QED BY <5>1, <4>1
      <4>2. CASE i # m + 1
        <5>1. i \in 1..m /\ i - 1 \in 0..m
          BY <4>2
        <5>2. f[i] = g[i] /\ f[i - 1] = g[i - 1]
          BY <5>1, <4>2
        <5> QED BY <5>1, <5>2, <3>1
      <4> QED BY <4>1, <4>2
    <3>4. ASSUME NEW i \in 0..(m + 1) PROVE f[i] \in T[i] /\ f[i] \in V
      <4>1. i = m + 1 \/ i \in 0..m
        OBVIOUS
      <4> QED BY <3>1, <3>2, <4>1
    <3>5. f \in [0..(m + 1) -> V] /\ f[0] = x
      <4>1. f[0] = g[0] /\ g[0] = x
        BY <3>1
      <4>2. f = [i \in 0..(m + 1) |-> f[i]]
        OBVIOUS
      <4> HIDE DEF f
      <4> QED BY <3>4, <4>1, <4>2
    <3> HIDE DEF f
    <3>6. Is(f, m + 1)
      BY <3>3, <3>4, <3>5
    <3> QED BY <3>6
  <2> QED BY <2>1
<1>3. n \in S
  <2> HIDE DEF S
  <2> QED BY <1>1, <1>2, SetInduction
<1> QED BY <1>3 DEF Solves

(* A function that begins in T[0] and steps from T[i - 1] to T[i] stays.   *)
LEMMA Stays ==
    ASSUME NEW n \in Nat, NEW T, NEW f, f[0] \in T[0],
           \A i \in 1..n : f[i - 1] \in T[i - 1] => f[i] \in T[i]
    PROVE  \A i \in 0..n : f[i] \in T[i]
<1> DEFINE S == {m \in Nat : m <= n => f[m] \in T[m]}
<1>1. 0 \in S
  OBVIOUS
<1>2. ASSUME NEW m \in Nat, m \in S PROVE m + 1 \in S
  <2>1. ASSUME m + 1 <= n PROVE f[m + 1] \in T[m + 1]
    <3>1. m + 1 \in 1..n /\ (m + 1) - 1 = m /\ f[m] \in T[m]
      BY <1>2, <2>1
    <3> QED BY <3>1
  <2> QED BY <2>1
<1>3. \A m \in Nat : m \in S
  <2> HIDE DEF S
  <2> QED BY <1>1, <1>2, SetInduction
<1> QED BY <1>3

(* The sums that SumTo comes to.                                           *)
SumSteps(g, e, n) ==
    /\ g[0] = 0 /\ \A i \in 1..n : g[i] = g[i - 1] + e[i]
    /\ SumTo(e, n) = g[n]

LEMMA SumToSteps ==
    ASSUME NEW n \in Nat, NEW e, \A i \in 1..n : e[i] \in Nat
    PROVE  \E g : SumSteps(g, e, n)
<1>1. \E f : /\ f = [i \in 0..n |-> IF i = 0 THEN 0 ELSE f[i - 1] + e[i]]
             /\ SumTo(e, n) = f[n]
  BY SumToIs
<1>2. PICK g : /\ g = [i \in 0..n |-> IF i = 0 THEN 0 ELSE g[i - 1] + e[i]]
               /\ SumTo(e, n) = g[n]
  BY <1>1
<1>3. \A i \in 0..n : g[i] = IF i = 0 THEN 0 ELSE g[i - 1] + e[i]
  BY <1>2
<1>4. 0 \in 0..n /\ \A i \in 1..n : i \in 0..n /\ i # 0
  OBVIOUS
<1>5. g[0] = 0 /\ \A i \in 1..n : g[i] = g[i - 1] + e[i]
  BY <1>3, <1>4
<1> QED BY <1>2, <1>5 DEF SumSteps

LEMMA SumToZero ==
    ASSUME NEW n \in Nat, NEW e, \A i \in 1..n : e[i] = 0
    PROVE  SumTo(e, n) = 0
<1>1. \E g : SumSteps(g, e, n)
  BY SumToSteps
<1>2. PICK g : SumSteps(g, e, n)
  BY <1>1
<1> DEFINE S == {m \in Nat : m <= n => g[m] = 0}
<1>3. 0 \in S
  BY <1>2 DEF SumSteps
<1>4. ASSUME NEW m \in Nat, m \in S PROVE m + 1 \in S
  <2>1. ASSUME m + 1 <= n PROVE g[m + 1] = 0
    <3>1. m + 1 \in 1..n /\ (m + 1) - 1 = m /\ g[m] = 0
      BY <1>4, <2>1
    <3>2. g[m + 1] = g[m] + e[m + 1] /\ e[m + 1] = 0
      BY <1>2, <3>1 DEF SumSteps
    <3> QED BY <3>1, <3>2
  <2> QED BY <2>1
<1>5. n \in S
  <2> HIDE DEF S
  <2> QED BY <1>3, <1>4, SetInduction
<1> QED BY <1>2, <1>5 DEF SumSteps

(* Sums of numbers that differ in one place.                               *)
LEMMA SumToApart ==
    ASSUME NEW n \in Nat, NEW e, NEW d, NEW k \in 1..n,
           \A i \in 1..n : e[i] \in Nat /\ d[i] \in Nat,
           \A i \in 1..n : i # k => e[i] = d[i]
    PROVE  SumTo(e, n) + d[k] = SumTo(d, n) + e[k]
<1>1. (\E f : SumSteps(f, e, n)) /\ \E g : SumSteps(g, d, n)
  BY SumToSteps
<1>2. PICK f : SumSteps(f, e, n)
  BY <1>1
<1>3. PICK g : SumSteps(g, d, n)
  BY <1>1
<1> DEFINE S == {m \in Nat : m <= n => /\ f[m] \in Nat /\ g[m] \in Nat
                                       /\ m < k => f[m] = g[m]
                                       /\ m >= k => f[m] + d[k] = g[m] + e[k]}
<1>4. 0 \in S
  BY <1>2, <1>3 DEF SumSteps
<1>5. ASSUME NEW m \in Nat, m \in S PROVE m + 1 \in S
  <2>1. ASSUME m + 1 <= n
        PROVE  /\ f[m + 1] \in Nat /\ g[m + 1] \in Nat
               /\ m + 1 < k => f[m + 1] = g[m + 1]
               /\ m + 1 >= k => f[m + 1] + d[k] = g[m + 1] + e[k]
    <3>1. /\ m + 1 \in 1..n /\ (m + 1) - 1 = m /\ f[m] \in Nat /\ g[m] \in Nat
          /\ m < k => f[m] = g[m]
          /\ m >= k => f[m] + d[k] = g[m] + e[k]
      BY <1>5, <2>1
    <3>2. f[m + 1] = f[m] + e[m + 1] /\ g[m + 1] = g[m] + d[m + 1]
      BY <1>2, <1>3, <3>1 DEF SumSteps
    <3>3. e[m + 1] \in Nat /\ d[m + 1] \in Nat /\ e[k] \in Nat /\ d[k] \in Nat
      BY <3>1
    <3>4. CASE m + 1 = k
      BY <3>1, <3>2, <3>3, <3>4
    <3>5. CASE m + 1 # k
      <4>1. e[m + 1] = d[m + 1]
        BY <3>1, <3>5
      <4> QED BY <3>1, <3>2, <3>3, <3>5, <4>1
    <3> QED BY <3>4, <3>5
  <2> QED BY <2>1
<1>6. n \in S
  <2> HIDE DEF S
  <2> QED BY <1>4, <1>5, SetInduction
<1> QED BY <1>2, <1>3, <1>6 DEF SumSteps
===============================================================================
