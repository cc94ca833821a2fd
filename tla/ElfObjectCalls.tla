--------------------------- MODULE ElfObjectCalls ---------------------------
(***************************************************************************)
(* Lemmas about the calls that elf_write makes for an object: the parts    *)
(* they come in, what is picked of them, and the lists of symbols and      *)
(* sections that they arrange.                                             *)
(***************************************************************************)
EXTENDS ElfObjectWrite, Numbers, SequenceTheorems

-------------------------------------------------------------------------------
(* Sequences of sequences *)

FlatSteps(f, ss, S) ==
    /\ \A i \in 1..Len(ss) : f[i] \in Seq(S)
    /\ Len(ss) # 0 => f[1] = ss[1]
    /\ \A i \in 2..Len(ss) : f[i] = f[i - 1] \o ss[i]
    /\ FlattenSeq(ss) = IF Len(ss) = 0 THEN <<>> ELSE f[Len(ss)]

LEMMA FlattenSteps ==
    ASSUME NEW S, NEW ss \in Seq(Seq(S)) PROVE \E f : FlatSteps(f, ss, S)
<1>1. CASE Len(ss) = 0
  <2>1. ss = <<>>
    BY <1>1
  <2>2. FlattenSeq(ss) = <<>>
    BY <2>1 DEF FlattenSeq
  <2> QED BY <2>1, <2>2 DEF FlatSteps
<1>2. CASE Len(ss) # 0
  <2> DEFINE n == Len(ss) - 1
             V == Seq(S)
             T == [i \in 0..n |-> V]
             G == [i \in 1..n |-> [y \in V |-> y \o ss[i + 1]]]
  <2>1. n \in Nat /\ Len(ss) = n + 1 /\ \A i \in 1..(n + 1) : ss[i] \in Seq(S)
    BY <1>2
  <2>2. Leads(n, V, T, G, ss[1])
    <3>1. ss[1] \in T[0] /\ \A i \in 0..n : T[i] \subseteq V
      BY <2>1
    <3>2. ASSUME NEW i \in 1..n, NEW y \in T[i - 1] PROVE G[i][y] \in T[i]
      <4>1. i - 1 \in 0..n /\ i \in 0..n /\ i + 1 \in 1..(n + 1)
        <5> HIDE DEF n
        <5> QED BY <2>1
      <4>2. T[i - 1] = V /\ T[i] = V
        BY <4>1
      <4>3. y \in Seq(S) /\ ss[i + 1] \in Seq(S)
        BY <2>1, <4>1, <4>2
      <4>4. G[i][y] = y \o ss[i + 1]
        BY <4>2
      <4>5. y \o ss[i + 1] \in Seq(S)
        BY <4>3
      <4> QED BY <4>2, <4>4, <4>5
    <3> HIDE DEF n, V, T, G
    <3> QED BY <3>1, <3>2 DEF Leads
  <2>3. \E f : Solves(f, n, V, T, G, ss[1])
    <3> HIDE DEF n, V, T, G
    <3> QED BY <2>1, <2>2, Iterates
  <2>4. PICK h : Solves(h, n, V, T, G, ss[1])
    BY <2>3
  <2> DEFINE g == [i \in 1..(n + 1) |-> h[i - 1]]
             f[i \in 1..Len(ss)] == IF i = 1 THEN ss[i] ELSE f[i - 1] \o ss[i]
  <2>5. h[0] = ss[1] /\ (\A i \in 0..n : h[i] \in Seq(S))
    BY <2>4 DEF Solves
  <2>6. ASSUME NEW i \in 1..n PROVE h[i] = h[i - 1] \o ss[i + 1]
    <3>1. h[i] = G[i][h[i - 1]] /\ h[i - 1] \in V
      <4> HIDE DEF G, V, T
      <4> QED BY <2>1, <2>4, <2>5 DEF Solves, V
    <3> QED BY <3>1
  <2>7. ASSUME NEW i \in 1..(n + 1)
        PROVE  g[i] = IF i = 1 THEN ss[i] ELSE g[i - 1] \o ss[i]
    <3>1. CASE i = 1
      BY <2>5, <3>1
    <3>2. CASE i # 1
      <4>1. i - 1 \in 1..n /\ g[i] = h[i - 1] /\ g[i - 1] = h[(i - 1) - 1]
            /\ (i - 1) + 1 = i
        BY <2>1, <3>2
      <4>2. h[i - 1] = h[(i - 1) - 1] \o ss[(i - 1) + 1]
        BY <2>6, <4>1
      <4> HIDE DEF g
      <4> QED BY <3>2, <4>1, <4>2
    <3> QED BY <3>1, <3>2
  <2>8. g = [i \in 1..Len(ss) |-> IF i = 1 THEN ss[i] ELSE g[i - 1] \o ss[i]]
    BY <2>1, <2>7
  <2>9. f = [i \in 1..Len(ss) |-> IF i = 1 THEN ss[i] ELSE f[i - 1] \o ss[i]]
    <3> HIDE DEF g
    <3> QED BY <2>8
  <2>10. FlattenSeq(ss) = f[Len(ss)]
    BY <1>2 DEF FlattenSeq
  <2> HIDE DEF f
  <2>11. \A i \in 1..Len(ss) : f[i] = IF i = 1 THEN ss[i] ELSE f[i - 1] \o ss[i]
    BY <2>9
  <2> DEFINE Q == {m \in Nat : m < Len(ss) => f[m + 1] \in Seq(S)}
  <2>12. 0 \in Q
    BY <2>1, <2>11
  <2>13. ASSUME NEW m \in Nat, m \in Q PROVE m + 1 \in Q
    <3>1. ASSUME m + 1 < Len(ss) PROVE f[(m + 1) + 1] \in Seq(S)
      <4>1. f[m + 1] \in Seq(S) /\ (m + 1) + 1 \in 1..Len(ss) /\ (m + 1) + 1 # 1
            /\ ((m + 1) + 1) - 1 = m + 1
        BY <2>1, <2>13, <3>1
      <4>2. f[(m + 1) + 1] = f[m + 1] \o ss[(m + 1) + 1] /\ ss[(m + 1) + 1] \in Seq(S)
        <5>1. f[(m + 1) + 1] = f[((m + 1) + 1) - 1] \o ss[(m + 1) + 1]
          BY <2>11, <4>1
        <5>2. ss[(m + 1) + 1] \in Seq(S)
          BY <2>1, <4>1
        <5> QED BY <4>1, <5>1, <5>2
      <4> QED BY <4>1, <4>2
    <3> QED BY <3>1
  <2>14. \A m \in Nat : m \in Q
    <3> HIDE DEF Q
    <3> QED BY <2>12, <2>13, SetInduction
  <2>15. ASSUME NEW i \in 1..Len(ss) PROVE f[i] \in Seq(S)
    <3>1. i - 1 \in Nat /\ i - 1 < Len(ss) /\ (i - 1) + 1 = i
      BY <2>1
    <3>2. i - 1 \in Q
      <4> HIDE DEF Q
      <4> QED BY <2>14, <3>1
    <3> QED BY <3>1, <3>2
  <2>16. FlatSteps(f, ss, S)
    <3>1. f[1] = ss[1]
      BY <2>1, <2>11
    <3>2. ASSUME NEW i \in 2..Len(ss) PROVE f[i] = f[i - 1] \o ss[i]
      <4>1. i \in 1..Len(ss) /\ i # 1
        OBVIOUS
      <4> QED BY <2>11, <4>1
    <3> QED BY <1>2, <2>10, <2>15, <3>1, <3>2 DEF FlatSteps
  <2> QED BY <2>16
<1> QED BY <1>1, <1>2

LEMMA FlattenType ==
    ASSUME NEW S, NEW ss \in Seq(Seq(S)) PROVE FlattenSeq(ss) \in Seq(S)
<1>1. PICK f : FlatSteps(f, ss, S)
  BY FlattenSteps
<1>2. Len(ss) \in Nat /\ <<>> \in Seq(S)
  OBVIOUS
<1> QED BY <1>1, <1>2 DEF FlatSteps

LEMMA FlattenEmpty == FlattenSeq(<<>>) = <<>>
BY DEF FlattenSeq

LEMMA FlattenAppend ==
    ASSUME NEW S, NEW ss \in Seq(Seq(S)), NEW x \in Seq(S)
    PROVE  FlattenSeq(Append(ss, x)) = FlattenSeq(ss) \o x
<1> DEFINE n == Len(ss)
           tt == Append(ss, x)
<1>1. /\ tt \in Seq(Seq(S)) /\ n \in Nat /\ Len(tt) = n + 1 /\ tt[n + 1] = x
      /\ \A i \in 1..n : tt[i] = ss[i]
  OBVIOUS
<1> HIDE DEF tt
<1>2. PICK f : FlatSteps(f, ss, S)
  BY FlattenSteps
<1>3. PICK g : FlatSteps(g, tt, S)
  BY <1>1, FlattenSteps
<1>4. CASE n = 0
  <2>1. FlattenSeq(tt) = x /\ FlattenSeq(ss) = <<>>
    BY <1>1, <1>2, <1>3, <1>4 DEF FlatSteps
  <2> QED BY <2>1 DEF tt
<1>5. CASE n # 0
  <2> DEFINE Q == {m \in Nat : m < n => g[m + 1] = f[m + 1]}
  <2>1. 0 \in Q
    BY <1>1, <1>2, <1>3, <1>5 DEF FlatSteps
  <2>2. ASSUME NEW m \in Nat, m \in Q PROVE m + 1 \in Q
    <3>1. ASSUME m + 1 < n PROVE g[(m + 1) + 1] = f[(m + 1) + 1]
      <4>1. /\ (m + 1) + 1 \in 2..n /\ (m + 1) + 1 \in 2..(n + 1)
            /\ ((m + 1) + 1) - 1 = m + 1 /\ (m + 1) + 1 \in 1..n
        BY <3>1
      <4>2. g[m + 1] = f[m + 1]
        BY <2>2, <3>1
      <4>3. g[(m + 1) + 1] = g[m + 1] \o tt[(m + 1) + 1]
            /\ f[(m + 1) + 1] = f[m + 1] \o ss[(m + 1) + 1]
        BY <1>1, <1>2, <1>3, <4>1 DEF FlatSteps
      <4> QED BY <1>1, <4>1, <4>2, <4>3
    <3> QED BY <3>1
  <2>3. n - 1 \in Q
    <3>1. n - 1 \in Nat
      BY <1>1, <1>5
    <3> HIDE DEF Q, n
    <3> QED BY <2>1, <2>2, <3>1, SetInduction
  <2>4. g[n] = f[n]
    <3>1. n - 1 < n /\ (n - 1) + 1 = n
      BY <1>1
    <3> QED BY <2>3, <3>1
  <2>5. g[n + 1] = g[n] \o x /\ FlattenSeq(tt) = g[n + 1] /\ FlattenSeq(ss) = f[n]
    <3>1. n + 1 \in 2..(n + 1) /\ (n + 1) - 1 = n /\ n + 1 # 0
      BY <1>1, <1>5
    <3> QED BY <1>1, <1>2, <1>3, <1>5, <3>1 DEF FlatSteps
  <2> QED BY <2>4, <2>5 DEF tt
<1> QED BY <1>4, <1>5

(* What holds of <<>>, of the parts, and with two sequences of their       *)
(* concatenation, holds of the whole.                                      *)
LEMMA FlattenIn ==
    ASSUME NEW S, NEW Q, <<>> \in Q, \A s, t \in Q : s \o t \in Q,
           NEW ss \in Seq(Seq(S)), \A i \in DOMAIN ss : ss[i] \in Q
    PROVE  FlattenSeq(ss) \in Q
<1>1. PICK f : FlatSteps(f, ss, S)
  BY FlattenSteps
<1> DEFINE n == Len(ss)
           R == {m \in Nat : m < n => f[m + 1] \in Q}
<1>2. n \in Nat /\ DOMAIN ss = 1..n
  OBVIOUS
<1>3. 0 \in R
  BY <1>1, <1>2 DEF FlatSteps
<1>4. ASSUME NEW m \in Nat, m \in R PROVE m + 1 \in R
  <2>1. ASSUME m + 1 < n PROVE f[(m + 1) + 1] \in Q
    <3>1. m + 1 < n /\ (m + 1) + 1 \in 2..n /\ (m + 1) + 1 \in 1..n
          /\ ((m + 1) + 1) - 1 = m + 1 /\ m < n
      <4> HIDE DEF n
      <4> QED BY <1>2, <2>1
    <3>3. f[m + 1] \in Q /\ ss[(m + 1) + 1] \in Q
      <4>1. ss[(m + 1) + 1] \in Q
        <5> HIDE DEF n
        <5> QED BY <1>2, <3>1
      <4> QED BY <1>4, <3>1, <4>1
    <3>2. f[(m + 1) + 1] = f[m + 1] \o ss[(m + 1) + 1]
      BY <1>1, <3>1 DEF FlatSteps
    <3> QED BY <3>2, <3>3
  <2> QED BY <2>1
<1>5. CASE n = 0
  BY <1>1, <1>5 DEF FlatSteps
<1>6. CASE n # 0
  <2>1. n - 1 \in R
    <3>1. n - 1 \in Nat
      BY <1>2, <1>6
    <3> HIDE DEF R, n
    <3> QED BY <1>3, <1>4, <3>1, SetInduction
  <2>2. n - 1 < n /\ (n - 1) + 1 = n
    BY <1>2
  <2>3. f[n] \in Q
    BY <2>1, <2>2
  <2> QED BY <1>1, <1>6, <2>3 DEF FlatSteps
<1> QED BY <1>5, <1>6

LEMMA FlattenHas ==
    ASSUME NEW S, NEW ss \in Seq(Seq(S)), NEW i \in 1..Len(ss),
           NEW j \in 1..Len(ss[i])
    PROVE  \E k \in 1..Len(FlattenSeq(ss)) : FlattenSeq(ss)[k] = ss[i][j]
<1>1. PICK f : FlatSteps(f, ss, S)
  BY FlattenSteps
<1> DEFINE n == Len(ss)
           x == ss[i][j]
           Has(t) == \E k \in 1..Len(t) : t[k] = x
           R == {m \in Nat : i <= m + 1 /\ m + 1 <= n => Has(f[m + 1])}
<1>2. n \in Nat /\ DOMAIN ss = 1..n /\ i \in Nat
  OBVIOUS
<1>3. Has(ss[i])
  OBVIOUS
<1>4. ASSUME NEW s \in Seq(S), NEW t \in Seq(S), Has(s) \/ Has(t) PROVE Has(s \o t)
  <2>1. CASE Has(s)
    <3>1. PICK k \in 1..Len(s) : s[k] = x
      BY <2>1
    <3> HIDE DEF x
    <3>2. k \in 1..Len(s \o t) /\ (s \o t)[k] = x
      BY <3>1
    <3> QED BY <3>2
  <2>2. CASE Has(t)
    <3>1. PICK k \in 1..Len(t) : t[k] = x
      BY <2>2
    <3> HIDE DEF x
    <3>2. Len(s) + k \in 1..Len(s \o t) /\ (s \o t)[Len(s) + k] = x
      BY <3>1
    <3> QED BY <3>2
  <2> QED BY <1>4, <2>1, <2>2
<1> HIDE DEF x, Has
<1>5. 0 \in R
  <2>1. i = 1 => Has(f[1])
    BY <1>1, <1>2, <1>3 DEF FlatSteps
  <2> HIDE DEF n
  <2> QED BY <1>2, <2>1
<1>6. ASSUME NEW m \in Nat, m \in R PROVE m + 1 \in R
  <2>1. ASSUME i <= (m + 1) + 1, (m + 1) + 1 <= n PROVE Has(f[(m + 1) + 1])
    <3>1. m + 1 < n /\ (m + 1) + 1 \in 2..n /\ (m + 1) + 1 \in 1..n /\ m + 1 \in 1..n
          /\ ((m + 1) + 1) - 1 = m + 1 /\ (i <= m + 1 \/ i = (m + 1) + 1)
      <4> HIDE DEF n
      <4> QED BY <1>2, <2>1
    <3>2. f[(m + 1) + 1] = f[m + 1] \o ss[(m + 1) + 1]
          /\ f[m + 1] \in Seq(S)
      BY <1>1, <3>1 DEF FlatSteps
    <3>3. ss[(m + 1) + 1] \in Seq(S)
      <4> DEFINE E == Seq(S)
      <4>1. ss \in Seq(E)
        OBVIOUS
      <4> HIDE DEF E
      <4>2. ss[(m + 1) + 1] \in E
        BY <3>1, <4>1
      <4> QED BY <4>2 DEF E
    <3>4. Has(f[m + 1]) \/ Has(ss[(m + 1) + 1])
      <4>1. CASE i <= m + 1
        BY <1>6, <3>1, <4>1
      <4>2. CASE i = (m + 1) + 1
        BY <1>3, <4>2
      <4> QED BY <3>1, <4>1, <4>2
    <3> QED BY <1>4, <3>2, <3>3, <3>4
  <2> QED BY <2>1
<1>7. n - 1 \in R /\ (n - 1) + 1 = n /\ n # 0
  <2>1. n - 1 \in Nat /\ (n - 1) + 1 = n /\ n # 0
    <3> HIDE DEF n
    <3> QED BY <1>2 DEF n
  <2> HIDE DEF R, n
  <2> QED BY <1>5, <1>6, <2>1, SetInduction
<1>8. Has(f[n])
  <2> HIDE DEF n
  <2> QED BY <1>2, <1>7 DEF n
<1>9. FlattenSeq(ss) = f[n]
  BY <1>1, <1>7 DEF FlatSteps
<1> QED BY <1>8, <1>9 DEF Has, x

-------------------------------------------------------------------------------
(* Calls, and what is picked of them *)

CallNames == {
    "file_header", "comdat_index", "comdat", "section_index", "data", "reloc_index",
    "null_symbol", "symbol", "num_local", "string", "symtab_index", "symtab",
    "symtab_shndx_index", "symtab_shndx", "strtab_index", "strtab", "relocations",
    "shstrtab_index", "shstrtab", "section_headers", "write_file_header",
    "write_comdat", "write_comdat_entry", "write_data", "write_null_symbol",
    "write_symbol", "write_symtab_shndx", "write_strtab", "write_align_relocation",
    "write_relocation", "write_shstrtab", "write_null_header", "write_comdat_header",
    "write_section_header", "write_reloc_header", "write_symtab_header",
    "write_symtab_shndx_header", "write_strtab_header", "write_shstrtab_header"}

CallSet == [call : CallNames, i : Nat, k : Nat]

(* What is picked: numbers, or sections by their kind and their id.        *)
Items == Nat \cup ({"comdat", "data", "reloc", "symtab", "symtab_shndx", "strtab",
                    "shstrtab"} \X Nat)

Picks == [CallSet -> Seq(Items)]

(* Of each of the calls t, in their order, what the function F has for it. *)
Pick(F, t) == FlattenSeq([k \in DOMAIN t |-> F[t[k]]])

LEMMA PickedType ==
    ASSUME NEW F \in Picks, NEW t \in Seq(CallSet)
    PROVE  [k \in DOMAIN t |-> F[t[k]]] \in Seq(Seq(Items))
<1> DEFINE E == Seq(Items)
<1>1. F \in [CallSet -> E]
  BY DEF Picks
<1> HIDE DEF E
<1>2. [k \in DOMAIN t |-> F[t[k]]] \in Seq(E)
  <2>1. DOMAIN t = 1..Len(t) /\ Len(t) \in Nat /\ \A k \in 1..Len(t) : t[k] \in CallSet
    OBVIOUS
  <2>2. \A k \in 1..Len(t) : F[t[k]] \in E
    BY <1>1, <2>1
  <2> QED BY <2>1, <2>2
<1> QED BY <1>2 DEF E

LEMMA PickType ==
    ASSUME NEW F \in Picks, NEW t \in Seq(CallSet) PROVE Pick(F, t) \in Seq(Items)
BY PickedType, FlattenType DEF Pick

LEMMA NoElements ==
    ASSUME NEW S, NEW a \in Seq(S), DOMAIN a = {} PROVE a = <<>>
<1>1. Len(a) \in Nat /\ DOMAIN a = 1..Len(a)
  BY LenProperties
<1>2. ASSUME Len(a) # 0 PROVE FALSE
  <2>1. 1 \in DOMAIN a
    BY <1>1, <1>2
  <2> QED BY <2>1
<1> QED BY <1>2, EmptySeq

LEMMA PickEmpty == ASSUME NEW F PROVE Pick(F, <<>>) = <<>>
<1> DEFINE a == [k \in DOMAIN <<>> |-> F[<<>>[k]]]
<1>1. a = [k \in 1..0 |-> a[k]]
  OBVIOUS
<1>2. a = <<>>
  <2> HIDE DEF a
  <2>1. a \in Seq({})
    BY <1>1
  <2>2. DOMAIN a = {}
    BY <1>1
  <2> QED BY <2>1, <2>2, NoElements
<1> QED BY <1>2, FlattenEmpty DEF Pick

LEMMA PickAppend ==
    ASSUME NEW F \in Picks, NEW t \in Seq(CallSet), NEW c \in CallSet
    PROVE  Pick(F, Append(t, c)) = Pick(F, t) \o F[c]
<1> DEFINE G(s) == [k \in DOMAIN s |-> F[s[k]]]
<1>1. G(t) \in Seq(Seq(Items)) /\ G(Append(t, c)) \in Seq(Seq(Items))
  <2>1. Append(t, c) \in Seq(CallSet)
    OBVIOUS
  <2>2. G(t) \in Seq(Seq(Items))
    BY PickedType
  <2>3. G(Append(t, c)) \in Seq(Seq(Items))
    BY <2>1, PickedType
  <2> QED BY <2>2, <2>3
<1>2. F[c] \in Seq(Items)
  BY DEF Picks
<1>3. G(Append(t, c)) = Append(G(t), F[c])
  <2> DEFINE E == Seq(Items)
  <2>1. G(t) \in Seq(E) /\ G(Append(t, c)) \in Seq(E) /\ F[c] \in E
    BY <1>1, <1>2
  <2>2. /\ DOMAIN t = 1..Len(t) /\ DOMAIN Append(t, c) = 1..(Len(t) + 1)
        /\ Len(t) \in Nat
    OBVIOUS
  <2>3. Len(G(t)) = Len(t) /\ Len(G(Append(t, c))) = Len(t) + 1
    BY <2>2
  <2> DEFINE a == Append(G(t), F[c])
  <2>4. a \in Seq(E) /\ Len(a) = Len(t) + 1 /\ a[Len(t) + 1] = F[c]
        /\ \A k \in 1..Len(t) : a[k] = G(t)[k]
    <3> HIDE DEF G, E
    <3> QED BY <2>1, <2>3
  <2>5. \A k \in 1..Len(t) : a[k] = F[t[k]]
    <3>1. \A k \in 1..Len(t) : G(t)[k] = F[t[k]]
      BY <2>2
    <3> HIDE DEF a
    <3> QED BY <2>4, <3>1
  <2>6. ASSUME NEW k \in 1..(Len(t) + 1) PROVE G(Append(t, c))[k] = a[k]
    <3>1. G(Append(t, c))[k] = F[Append(t, c)[k]]
      BY <2>2
    <3>2. k \in 1..Len(t) \/ k = Len(t) + 1
      BY <2>2
    <3>3. (k \in 1..Len(t) => Append(t, c)[k] = t[k]) /\ Append(t, c)[Len(t) + 1] = c
      OBVIOUS
    <3> HIDE DEF a, G
    <3> QED BY <2>4, <2>5, <3>1, <3>2, <3>3
  <2> HIDE DEF a, G, E
  <2>7. G(Append(t, c)) = a
    BY <2>1, <2>3, <2>4, <2>6, SeqEqual
  <2> QED BY <2>7 DEF a
<1> HIDE DEF G
<1>4. FlattenSeq(Append(G(t), F[c])) = FlattenSeq(G(t)) \o F[c]
  BY <1>1, <1>2, FlattenAppend
<1> QED BY <1>3, <1>4 DEF Pick, G

LEMMA PickConcat ==
    ASSUME NEW F \in Picks, NEW s \in Seq(CallSet), NEW t \in Seq(CallSet)
    PROVE  Pick(F, s \o t) = Pick(F, s) \o Pick(F, t)
<1> DEFINE Q == {m \in Nat : \A u \in Seq(CallSet) : Len(u) = m =>
                                 Pick(F, s \o u) = Pick(F, s) \o Pick(F, u)}
<1>1. 0 \in Q
  <2> SUFFICES ASSUME NEW u \in Seq(CallSet), Len(u) = 0
               PROVE  Pick(F, s \o u) = Pick(F, s) \o Pick(F, u)
    OBVIOUS
  <2>1. u = <<>> /\ s \o u = s
    OBVIOUS
  <2>2. Pick(F, s) \o <<>> = Pick(F, s)
    <3>1. Pick(F, s) \in Seq(Items)
      BY PickType
    <3> QED BY <3>1
  <2> QED BY <2>1, <2>2, PickEmpty
<1>2. ASSUME NEW m \in Nat, m \in Q PROVE m + 1 \in Q
  <2> SUFFICES ASSUME NEW u \in Seq(CallSet), Len(u) = m + 1
               PROVE  Pick(F, s \o u) = Pick(F, s) \o Pick(F, u)
    OBVIOUS
  <2> DEFINE v == SubSeq(u, 1, m)
             c == u[m + 1]
  <2>1. v \in Seq(CallSet) /\ Len(v) = m /\ c \in CallSet /\ u = Append(v, c)
    OBVIOUS
  <2> HIDE DEF v, c
  <2>2. s \o u = Append(s \o v, c) /\ s \o v \in Seq(CallSet)
    BY <2>1
  <2>3. Pick(F, s \o v) = Pick(F, s) \o Pick(F, v)
    BY <1>2, <2>1
  <2>4. Pick(F, s \o u) = (Pick(F, s) \o Pick(F, v)) \o F[c]
    BY <2>1, <2>2, <2>3, PickAppend
  <2>5. Pick(F, u) = Pick(F, v) \o F[c]
    BY <2>1, PickAppend
  <2>6. Pick(F, s) \in Seq(Items) /\ Pick(F, v) \in Seq(Items) /\ F[c] \in Seq(Items)
    BY <2>1, PickType DEF Picks
  <2>7. (Pick(F, s) \o Pick(F, v)) \o F[c] = Pick(F, s) \o (Pick(F, v) \o F[c])
    <3> DEFINE x == Pick(F, s)
               y == Pick(F, v)
               z == F[c]
    <3>1. x \in Seq(Items) /\ y \in Seq(Items) /\ z \in Seq(Items)
      BY <2>6
    <3> HIDE DEF x, y, z
    <3>2. (x \o y) \o z = x \o (y \o z)
      BY <3>1, ConcatAssociative
    <3> QED BY <3>2 DEF x, y, z
  <2> QED BY <2>4, <2>5, <2>7
<1>3. Len(t) \in Q
  <2>1. Len(t) \in Nat
    OBVIOUS
  <2> HIDE DEF Q
  <2> QED BY <1>1, <1>2, <2>1, SetInduction
<1> QED BY <1>3

LEMMA PickFlatten ==
    ASSUME NEW F \in Picks, NEW tt \in Seq(Seq(CallSet))
    PROVE  Pick(F, FlattenSeq(tt)) = FlattenSeq([n \in DOMAIN tt |-> Pick(F, tt[n])])
<1> DEFINE Q == {m \in Nat : \A u \in Seq(Seq(CallSet)) : Len(u) = m =>
                     Pick(F, FlattenSeq(u))
                         = FlattenSeq([n \in DOMAIN u |-> Pick(F, u[n])])}
           E == Seq(CallSet)
           Y == Seq(Items)
<1>1. 0 \in Q
  <2> SUFFICES ASSUME NEW u \in Seq(Seq(CallSet)), Len(u) = 0
               PROVE  Pick(F, FlattenSeq(u))
                          = FlattenSeq([n \in DOMAIN u |-> Pick(F, u[n])])
    OBVIOUS
  <2> DEFINE a == [n \in DOMAIN u |-> Pick(F, u[n])]
  <2>1. u = <<>>
    OBVIOUS
  <2>2. DOMAIN a = {} /\ a = [n \in 1..0 |-> a[n]]
    <3>1. DOMAIN u = 1..0
      OBVIOUS
    <3> QED BY <3>1
  <2>3. a = <<>>
    <3> HIDE DEF a, Y
    <3>1. a \in Seq({})
      BY <2>2
    <3> QED BY <2>2, <3>1, NoElements
  <2> HIDE DEF a
  <2> QED BY <2>1, <2>3, FlattenEmpty, PickEmpty DEF a
<1>2. ASSUME NEW m \in Nat, m \in Q PROVE m + 1 \in Q
  <2> SUFFICES ASSUME NEW u \in Seq(Seq(CallSet)), Len(u) = m + 1
               PROVE  Pick(F, FlattenSeq(u))
                          = FlattenSeq([n \in DOMAIN u |-> Pick(F, u[n])])
    OBVIOUS
  <2> DEFINE v == SubSeq(u, 1, m)
             c == u[m + 1]
             P(w) == [n \in DOMAIN w |-> Pick(F, w[n])]
  <2>1. v \in Seq(E) /\ Len(v) = m /\ c \in E /\ u = Append(v, c)
    <3>1. u \in Seq(E)
      OBVIOUS
    <3> HIDE DEF E
    <3> QED BY <3>1
  <2> HIDE DEF v, c
  <2>2. FlattenSeq(u) = FlattenSeq(v) \o c /\ FlattenSeq(v) \in Seq(CallSet)
        /\ c \in Seq(CallSet)
    BY <2>1, FlattenAppend, FlattenType
  <2>3. Pick(F, FlattenSeq(u)) = Pick(F, FlattenSeq(v)) \o Pick(F, c)
    BY <2>2, PickConcat
  <2>4. Pick(F, FlattenSeq(v)) = FlattenSeq(P(v))
    BY <1>2, <2>1
  <2>5. ASSUME NEW w \in Seq(E) PROVE P(w) \in Seq(Y) /\ Len(P(w)) = Len(w)
    <3>1. DOMAIN w = 1..Len(w) /\ Len(w) \in Nat /\ \A n \in 1..Len(w) : w[n] \in E
      <4> HIDE DEF E
      <4> QED OBVIOUS
    <3>2. \A n \in 1..Len(w) : Pick(F, w[n]) \in Y
      BY <3>1, PickType
    <3> HIDE DEF Y, E
    <3> QED BY <3>1, <3>2
  <2>6. P(u) = Append(P(v), Pick(F, c))
    <3> DEFINE a == Append(P(v), Pick(F, c))
    <3>1. P(u) \in Seq(Y) /\ Len(P(u)) = m + 1 /\ P(v) \in Seq(Y) /\ Len(P(v)) = m
          /\ Pick(F, c) \in Y
      <4>1. u \in Seq(E)
        OBVIOUS
      <4> HIDE DEF P
      <4> QED BY <2>1, <2>2, <2>5, <4>1, PickType
    <3>2. a \in Seq(Y) /\ Len(a) = m + 1 /\ a[m + 1] = Pick(F, c)
          /\ \A n \in 1..m : a[n] = P(v)[n]
      <4> HIDE DEF P, Y
      <4> QED BY <3>1
    <3>3. /\ \A n \in 1..m : u[n] = v[n] /\ P(v)[n] = Pick(F, v[n])
          /\ u[m + 1] = c
      <4> HIDE DEF E
      <4> QED BY <2>1
    <3>4. ASSUME NEW n \in 1..(m + 1) PROVE P(u)[n] = a[n]
      <4>1. P(u)[n] = Pick(F, u[n])
        OBVIOUS
      <4> HIDE DEF a, P
      <4>2. n \in 1..m \/ n = m + 1
        OBVIOUS
      <4> QED BY <3>2, <3>3, <4>1, <4>2
    <3> HIDE DEF a, P, Y
    <3> QED BY <3>1, <3>2, <3>4, SeqEqual DEF a
  <2>7. FlattenSeq(P(u)) = FlattenSeq(P(v)) \o Pick(F, c)
    <3>1. P(v) \in Seq(Seq(Items)) /\ Pick(F, c) \in Seq(Items)
      BY <2>1, <2>2, <2>5, PickType
    <3> HIDE DEF P
    <3> QED BY <2>6, <3>1, FlattenAppend
  <2> HIDE DEF P
  <2> QED BY <2>3, <2>4, <2>7 DEF P
<1>3. Len(tt) \in Q
  <2>1. Len(tt) \in Nat
    OBVIOUS
  <2> HIDE DEF Q
  <2> QED BY <1>1, <1>2, <2>1, SetInduction
<1> QED BY <1>3

-------------------------------------------------------------------------------
(* What a sequence of sequences comes to *)

LEMMA FlattenNone ==
    ASSUME NEW S, NEW ss \in Seq(Seq(S)), \A i \in DOMAIN ss : ss[i] = <<>>
    PROVE  FlattenSeq(ss) = <<>>
<1> DEFINE Q == {<<>>}
<1>1. <<>> \in Q /\ \A i \in DOMAIN ss : ss[i] \in Q
  OBVIOUS
<1>2. ASSUME NEW s \in Q, NEW t \in Q PROVE s \o t \in Q
  OBVIOUS
<1>3. \A s, t \in Q : s \o t \in Q
  BY <1>2
<1> HIDE DEF Q
<1>4. FlattenSeq(ss) \in Q
  BY <1>1, <1>3, FlattenIn
<1> QED BY <1>4 DEF Q

Blank(ss, i, j) == \A k \in i..j : ss[k] = <<>>

LEMMA FlattenJump ==
    ASSUME NEW S, NEW ss \in Seq(Seq(S)), NEW f, FlatSteps(f, ss, S),
           NEW i \in 1..Len(ss), NEW j \in i..Len(ss), Blank(ss, i + 1, j)
    PROVE  f[j] = f[i]
<1> DEFINE R == {m \in Nat : i + m <= j => f[i + m] = f[i]}
<1>1. 0 \in R /\ Len(ss) \in Nat
  OBVIOUS
<1>2. ASSUME NEW m \in Nat, m \in R PROVE m + 1 \in R
  <2>1. ASSUME i + (m + 1) <= j PROVE f[i + (m + 1)] = f[i]
    <3> DEFINE k == i + (m + 1)
    <3>1. k \in 2..Len(ss) /\ k - 1 = i + m /\ i + m <= j /\ k \in (i + 1)..j
          /\ i + m \in 1..Len(ss)
      BY <1>1, <2>1
    <3>2. f[k] = f[k - 1] \o ss[k]
      BY <3>1 DEF FlatSteps
    <3>3. f[i + m] = f[i] /\ f[i + m] \in Seq(S)
      BY <1>2, <3>1 DEF FlatSteps
    <3>4. ss[k] = <<>>
      BY <3>1 DEF Blank
    <3> HIDE DEF k
    <3>5. f[k] = f[i]
      BY <3>1, <3>2, <3>3, <3>4
    <3> QED BY <3>5 DEF k
  <2> QED BY <2>1
<1>3. j - i \in R
  <2>1. j - i \in Nat
    OBVIOUS
  <2> HIDE DEF R
  <2> QED BY <1>1, <1>2, <2>1, SetInduction
<1>4. i + (j - i) = j
  OBVIOUS
<1> QED BY <1>3, <1>4

LEMMA FlattenOnly ==
    ASSUME NEW S, NEW ss \in Seq(Seq(S)), NEW i \in 1..Len(ss),
           \A k \in 1..Len(ss) : k # i => ss[k] = <<>>
    PROVE  FlattenSeq(ss) = ss[i]
<1>1. PICK f : FlatSteps(f, ss, S)
  BY FlattenSteps
<1>2. Len(ss) \in Nat /\ Len(ss) # 0 /\ 1 \in 1..Len(ss)
  OBVIOUS
<1>3. f[i] = ss[i]
  <2>1. CASE i = 1
    BY <1>1, <1>2, <2>1 DEF FlatSteps
  <2>2. CASE i # 1
    <3>1. i \in 2..Len(ss) /\ i - 1 \in 1..Len(ss) /\ Blank(ss, 1 + 1, i - 1)
      BY <2>2 DEF Blank
    <3>2. f[i - 1] = f[1]
      <4>1. PICK j \in 1..Len(ss) : j = i - 1
        BY <3>1
      <4>2. Blank(ss, 1 + 1, j)
        BY <3>1, <4>1
      <4>3. f[j] = f[1]
        BY <1>1, <1>2, <4>2, FlattenJump
      <4> QED BY <4>1, <4>3
    <3>3. f[1] = <<>> /\ f[i] = f[i - 1] \o ss[i]
      BY <1>1, <1>2, <2>2, <3>1 DEF FlatSteps
    <3>4. ss[i] \in Seq(S)
      <4> DEFINE E == Seq(S)
      <4>1. ss \in Seq(E)
        OBVIOUS
      <4> HIDE DEF E
      <4>2. ss[i] \in E
        BY <4>1
      <4> QED BY <4>2 DEF E
    <3> DEFINE y == ss[i]
    <3>5. y \in Seq(S) /\ f[i] = <<>> \o y
      BY <3>2, <3>3, <3>4
    <3> HIDE DEF y
    <3>6. f[i] = y
      BY <3>5
    <3> QED BY <3>6 DEF y
  <2> QED BY <2>1, <2>2
<1>4. f[Len(ss)] = f[i]
  <2>1. Len(ss) \in i..Len(ss) /\ Blank(ss, i + 1, Len(ss))
    BY <1>2 DEF Blank
  <2> QED BY <1>1, <2>1, FlattenJump
<1> QED BY <1>1, <1>2, <1>3, <1>4 DEF FlatSteps

LEMMA FlattenSingles ==
    ASSUME NEW S, NEW e \in Seq(S)
    PROVE  FlattenSeq([k \in DOMAIN e |-> <<e[k]>>]) = e
<1> DEFINE ss == [k \in DOMAIN e |-> <<e[k]>>]
           n == Len(e)
<1>1. n \in Nat /\ DOMAIN e = 1..n /\ \A k \in 1..n : e[k] \in S /\ ss[k] = <<e[k]>>
  OBVIOUS
<1>2. ss \in Seq(Seq(S)) /\ Len(ss) = n
  <2>1. \A k \in 1..n : <<e[k]>> \in Seq(S)
    BY <1>1
  <2> QED BY <1>1, <2>1
<1> HIDE DEF ss, n
<1>3. PICK f : FlatSteps(f, ss, S)
  BY <1>2, FlattenSteps
<1>4. CASE n = 0
  <2>1. e = <<>>
    BY <1>4, EmptySeq DEF n
  <2> QED BY <1>2, <1>3, <1>4, <2>1 DEF FlatSteps, ss
<1>5. CASE n # 0
  <2> DEFINE R == {m \in Nat : m + 1 <= n => f[m + 1] = SubSeq(e, 1, m + 1)}
  <2>1. 0 \in R
    <3>1. f[1] = <<e[1]>> /\ 1 <= n
      BY <1>1, <1>2, <1>3, <1>5 DEF FlatSteps
    <3>2. SubSeq(e, 1, 1) = <<e[1]>>
      <4> DEFINE a == SubSeq(e, 1, 1)
                 b == <<e[1]>>
      <4>1. a \in Seq(S) /\ b \in Seq(S) /\ Len(a) = 1 /\ Len(b) = 1 /\ a[1] = b[1]
        BY <1>1, <3>1 DEF n
      <4> HIDE DEF a, b
      <4>2. \A k \in 1..Len(a) : a[k] = b[k]
        BY <4>1
      <4>3. a = b
        BY <4>1, <4>2, SeqEqual
      <4> QED BY <4>3 DEF a, b
    <3> QED BY <3>1, <3>2
  <2>2. ASSUME NEW m \in Nat, m \in R PROVE m + 1 \in R
    <3>1. ASSUME (m + 1) + 1 <= n PROVE f[(m + 1) + 1] = SubSeq(e, 1, (m + 1) + 1)
      <4> DEFINE k == (m + 1) + 1
      <4>1. k \in 2..n /\ k - 1 = m + 1 /\ m + 1 <= n /\ k \in 1..n /\ m + 1 \in 1..n
        BY <1>1, <3>1
      <4>2. f[k] = f[k - 1] \o ss[k] /\ f[m + 1] = SubSeq(e, 1, m + 1)
        BY <1>2, <1>3, <2>2, <4>1 DEF FlatSteps
      <4>3. SubSeq(e, 1, m + 1) \o <<e[k]>> = SubSeq(e, 1, k)
        <5> DEFINE a == SubSeq(e, 1, m + 1) \o <<e[k]>>
                   b == SubSeq(e, 1, k)
        <5>1. a \in Seq(S) /\ b \in Seq(S) /\ Len(a) = k /\ Len(b) = k
          BY <1>1, <4>1 DEF n
        <5>2. ASSUME NEW p \in 1..k PROVE a[p] = b[p]
          BY <1>1, <4>1 DEF n
        <5> HIDE DEF a, b
        <5>3. a = b
          BY <5>1, <5>2, SeqEqual
        <5> QED BY <5>3 DEF a, b
      <4> HIDE DEF k
      <4>4. f[k] = SubSeq(e, 1, k)
        BY <1>1, <4>1, <4>2, <4>3
      <4> QED BY <4>4 DEF k
    <3> QED BY <3>1
  <2>3. n - 1 \in R /\ (n - 1) + 1 = n
    <3>1. n - 1 \in Nat /\ (n - 1) + 1 = n
      BY <1>1, <1>5
    <3> HIDE DEF R
    <3> QED BY <2>1, <2>2, <3>1, SetInduction
  <2>4. f[n] = SubSeq(e, 1, n)
    BY <1>1, <2>3
  <2>5. SubSeq(e, 1, n) = e
    BY DEF n
  <2> QED BY <1>2, <1>3, <1>5, <2>4, <2>5 DEF FlatSteps, ss
<1> QED BY <1>4, <1>5

-------------------------------------------------------------------------------
(* The symbols in the order of the table: those that are local, then the   *)
(* others.                                                                 *)

Chosen(B, m) == FlattenSeq([y \in 1..m |-> IF y \in B THEN <<y>> ELSE <<>>])

(* The sequence s holds in ascending order what is in B of 1..k.       *)
Ascends(s, B, k) ==
    /\ s \in Seq(1..k)
    /\ \A p \in 1..Len(s) : s[p] \in B
    /\ \A p, q \in 1..Len(s) : p < q => s[p] < s[q]
    /\ \A y \in 1..k : y \in B => \E p \in 1..Len(s) : s[p] = y

LEMMA AscendsSkip ==
    ASSUME NEW B, NEW k \in Nat, NEW s, Ascends(s, B, k), k + 1 \notin B
    PROVE  Ascends(s, B, k + 1)
<1>1. s \in Seq(1..(k + 1))
  <2>1. s \in Seq(1..k) /\ 1..k \subseteq 1..(k + 1)
    BY DEF Ascends
  <2> QED BY <2>1
<1>2. \A y \in 1..(k + 1) : y \in 1..k \/ y = k + 1
  OBVIOUS
<1> QED BY <1>1, <1>2 DEF Ascends

LEMMA AscendsAdd ==
    ASSUME NEW B, NEW k \in Nat, NEW s, Ascends(s, B, k), k + 1 \in B
    PROVE  Ascends(s \o <<k + 1>>, B, k + 1)
<1> DEFINE t == s \o <<k + 1>>
<1>1. s \in Seq(1..k) /\ Len(s) \in Nat /\ \A p \in 1..Len(s) : s[p] \in 1..k
  BY DEF Ascends
<1>2. s \in Seq(1..(k + 1)) /\ <<k + 1>> \in Seq(1..(k + 1))
  <2>1. 1..k \subseteq 1..(k + 1) /\ k + 1 \in 1..(k + 1)
    OBVIOUS
  <2> QED BY <1>1, <2>1
<1>3. /\ t \in Seq(1..(k + 1)) /\ Len(t) = Len(s) + 1 /\ t[Len(s) + 1] = k + 1
      /\ \A p \in 1..Len(s) : t[p] = s[p]
  BY <1>1, <1>2
<1> HIDE DEF t
<1>4. \A p \in 1..Len(t) : p \in 1..Len(s) \/ p = Len(s) + 1
  BY <1>1, <1>3
<1>5. \A p \in 1..Len(t) : t[p] \in B
  BY <1>3, <1>4 DEF Ascends
<1>6. ASSUME NEW p \in 1..Len(t), NEW q \in 1..Len(t), p < q PROVE t[p] < t[q]
  <2>1. p \in 1..Len(s)
    BY <1>1, <1>3, <1>6
  <2>2. CASE q \in 1..Len(s)
    BY <1>3, <1>6, <2>1, <2>2 DEF Ascends
  <2>3. CASE q = Len(s) + 1
    <3>1. s[p] \in 1..k
      BY <1>1, <2>1
    <3> QED BY <1>3, <2>1, <2>3, <3>1
  <2> QED BY <1>4, <2>2, <2>3
<1>7. ASSUME NEW y \in 1..(k + 1), y \in B PROVE \E p \in 1..Len(t) : t[p] = y
  <2>1. CASE y \in 1..k
    <3>1. PICK p \in 1..Len(s) : s[p] = y
      BY <1>7, <2>1 DEF Ascends
    <3>2. p \in 1..Len(t) /\ t[p] = y
      BY <1>1, <1>3, <3>1
    <3> QED BY <3>2
  <2>2. CASE y = k + 1
    <3>1. Len(s) + 1 \in 1..Len(t)
      BY <1>1, <1>3
    <3> QED BY <1>3, <2>2, <3>1
  <2> QED BY <2>1, <2>2
<1>8. Ascends(t, B, k + 1)
  BY <1>3, <1>5, <1>6, <1>7 DEF Ascends
<1> QED BY <1>8 DEF t

LEMMA ChosenSplit ==
    ASSUME NEW m \in Nat, NEW B, NEW C, \A y \in 1..m : y \in C <=> y \notin B
    PROVE  /\ Ascends(Chosen(B, m), B, m)
           /\ Ascends(Chosen(C, m), C, m)
           /\ Len(Chosen(B, m)) + Len(Chosen(C, m)) = m
<1> DEFINE v == [y \in 1..m |-> IF y \in B THEN <<y>> ELSE <<>>]
           w == [y \in 1..m |-> IF y \in C THEN <<y>> ELSE <<>>]
<1>1. v \in Seq(Seq(Nat)) /\ Len(v) = m /\ w \in Seq(Seq(Nat)) /\ Len(w) = m
  <2>1. \A y \in 1..m : <<y>> \in Seq(Nat) /\ <<>> \in Seq(Nat)
    OBVIOUS
  <2> QED BY <2>1
<1>2. Chosen(B, m) = FlattenSeq(v) /\ Chosen(C, m) = FlattenSeq(w)
  BY DEF Chosen
<1>w. \A y \in 1..m : /\ v[y] = IF y \in B THEN <<y>> ELSE <<>>
                      /\ w[y] = IF y \in C THEN <<y>> ELSE <<>>
  OBVIOUS
<1> HIDE DEF v, w
<1>4. (\E f : FlatSteps(f, v, Nat)) /\ \E g : FlatSteps(g, w, Nat)
  BY <1>1, FlattenSteps
<1>5. PICK f : FlatSteps(f, v, Nat)
  BY <1>4
<1>6. PICK g : FlatSteps(g, w, Nat)
  BY <1>4
<1> DEFINE Both(x, y, k) == /\ Ascends(x, B, k) /\ Ascends(y, C, k)
                            /\ Len(x) + Len(y) = k
<1>e. Ascends(<<>>, B, 0) /\ Ascends(<<>>, C, 0)
  BY DEF Ascends
<1>7. ASSUME NEW k \in Nat, NEW x, NEW y, Both(x, y, k), k + 1 <= m
      PROVE  Both(x \o v[k + 1], y \o w[k + 1], k + 1)
  <2>1. k + 1 \in 1..m /\ x \in Seq(1..k) /\ y \in Seq(1..k)
    BY <1>7 DEF Ascends
  <2>2. CASE k + 1 \in B
    <3>1. v[k + 1] = <<k + 1>> /\ w[k + 1] = <<>> /\ k + 1 \notin C
      BY <1>w, <2>1, <2>2
    <3>2. y \o <<>> = y /\ Len(x \o <<k + 1>>) = Len(x) + 1
          /\ Len(x) \in Nat /\ Len(y) \in Nat
      BY <2>1
    <3>3. Ascends(x \o <<k + 1>>, B, k + 1)
      BY <1>7, <2>2, AscendsAdd
    <3>4. Ascends(y, C, k + 1)
      BY <1>7, <3>1, AscendsSkip
    <3> QED BY <1>7, <3>1, <3>2, <3>3, <3>4
  <2>3. CASE k + 1 \in C
    <3>1. w[k + 1] = <<k + 1>> /\ v[k + 1] = <<>> /\ k + 1 \notin B
      BY <1>w, <2>1, <2>3
    <3>2. x \o <<>> = x /\ Len(y \o <<k + 1>>) = Len(y) + 1
          /\ Len(x) \in Nat /\ Len(y) \in Nat
      BY <2>1
    <3>3. Ascends(y \o <<k + 1>>, C, k + 1)
      BY <1>7, <2>3, AscendsAdd
    <3>4. Ascends(x, B, k + 1)
      BY <1>7, <3>1, AscendsSkip
    <3> QED BY <1>7, <3>1, <3>2, <3>3, <3>4
  <2> QED BY <2>1, <2>2, <2>3
<1>8. CASE m = 0
  <2>1. Chosen(B, m) = <<>> /\ Chosen(C, m) = <<>>
    BY <1>1, <1>2, <1>5, <1>6, <1>8 DEF FlatSteps
  <2> QED BY <1>8, <1>e, <2>1
<1>9. CASE m # 0
  <2> DEFINE R == {k \in Nat : k + 1 <= m => Both(f[k + 1], g[k + 1], k + 1)}
  <2> HIDE DEF Both
  <2>1. 0 \in R
    <3>1. 0 + 1 <= m /\ f[1] = v[1] /\ g[1] = w[1]
      BY <1>1, <1>5, <1>6, <1>9 DEF FlatSteps
    <3>2. v[1] = <<>> \o v[1] /\ w[1] = <<>> \o w[1]
      <4>1. 1 \in 1..m
        BY <1>9
      <4>2. v[1] \in Seq(Nat) /\ w[1] \in Seq(Nat)
        <5>1. <<1>> \in Seq(Nat) /\ <<>> \in Seq(Nat)
          OBVIOUS
        <5>2. v[1] \in {<<1>>, <<>>} /\ w[1] \in {<<1>>, <<>>}
          BY <1>w, <4>1
        <5> QED BY <5>1, <5>2
      <4> DEFINE x == v[1]
                 y == w[1]
      <4>3. x \in Seq(Nat) /\ y \in Seq(Nat)
        BY <4>2
      <4> HIDE DEF x, y
      <4>4. x = <<>> \o x /\ y = <<>> \o y
        BY <4>3
      <4> QED BY <4>4 DEF x, y
    <3>3. Both(<<>>, <<>>, 0) /\ 0 \in Nat
      BY <1>e DEF Both
    <3>4. Both(<<>> \o v[0 + 1], <<>> \o w[0 + 1], 0 + 1)
      BY <1>7, <3>1, <3>3
    <3>5. 0 + 1 = 1
      OBVIOUS
    <3> QED BY <3>1, <3>2, <3>4, <3>5
  <2>2. ASSUME NEW k \in Nat, k \in R PROVE k + 1 \in R
    <3>1. ASSUME (k + 1) + 1 <= m 
                 PROVE  Both(f[(k + 1) + 1], g[(k + 1) + 1], (k + 1) + 1)
      <4>1. k + 1 <= m /\ k + 1 \in Nat /\ (k + 1) + 1 \in 2..m
            /\ ((k + 1) + 1) - 1 = k + 1
        BY <3>1
      <4>2. f[(k + 1) + 1] = f[k + 1] \o v[(k + 1) + 1]
            /\ g[(k + 1) + 1] = g[k + 1] \o w[(k + 1) + 1]
        BY <1>1, <1>5, <1>6, <4>1 DEF FlatSteps
      <4>3. Both(f[k + 1], g[k + 1], k + 1)
        BY <2>2, <4>1
      <4> QED BY <1>7, <3>1, <4>1, <4>2, <4>3
    <3> QED BY <3>1
  <2>3. m - 1 \in R /\ (m - 1) + 1 = m
    <3>1. m - 1 \in Nat /\ (m - 1) + 1 = m
      BY <1>9
    <3> HIDE DEF R
    <3> QED BY <2>1, <2>2, <3>1, SetInduction
  <2>4. Both(f[m], g[m], m)
    BY <2>3
  <2> QED BY <1>1, <1>2, <1>5, <1>6, <1>9, <2>4 DEF FlatSteps, Both
<1> QED BY <1>8, <1>9

(* Each of the symbols 1..m is in s, and is there once.                    *)
Arranges(s, m) ==
    /\ s \in Seq(1..m) /\ Len(s) = m
    /\ \A p, q \in 1..m : s[p] = s[q] => p = q
    /\ \A y \in 1..m : \E p \in 1..m : s[p] = y

LEMMA ChosenArranges ==
    ASSUME NEW m \in Nat, NEW B, NEW C, \A y \in 1..m : y \in C <=> y \notin B
    PROVE  Arranges(Chosen(B, m) \o Chosen(C, m), m)
<1> DEFINE u == Chosen(B, m)
           v == Chosen(C, m)
           s == u \o v
<1>1. /\ Ascends(u, B, m) /\ Ascends(v, C, m)
      /\ Len(u) + Len(v) = m
  BY ChosenSplit
<1> HIDE DEF u, v
<1>2. /\ u \in Seq(1..m) /\ v \in Seq(1..m)
      /\ \A p \in 1..Len(u) : u[p] \in 1..m
      /\ \A p \in 1..Len(v) : v[p] \in 1..m
      /\ Len(u) \in Nat /\ Len(v) \in Nat
  BY <1>1, SMTT(30), ZenonT(30) DEF Ascends
<1>3. /\ s \in Seq(1..m) /\ Len(s) = m
      /\ \A p \in 1..Len(u) : s[p] = u[p]
      /\ \A p \in (Len(u) + 1)..m : s[p] = v[p - Len(u)] /\ p - Len(u) \in 1..Len(v)
  BY <1>1, <1>2
<1> HIDE DEF s
<1>4. \A p \in 1..m : p \in 1..Len(u) \/ p \in (Len(u) + 1)..m
  BY <1>2
<1>5. \A p, q \in 1..Len(u) : u[p] = u[q] => p = q
  <2> SUFFICES ASSUME NEW p \in 1..Len(u), NEW q \in 1..Len(u), u[p] = u[q], p # q
               PROVE  FALSE
    OBVIOUS
  <2>1. u[p] \in Nat /\ u[q] \in Nat /\ (p < q \/ q < p)
    BY <1>2
  <2> QED BY <1>1, <2>1, SMTT(30), ZenonT(30) DEF Ascends
<1>6. \A p, q \in 1..Len(v) : v[p] = v[q] => p = q
  <2> SUFFICES ASSUME NEW p \in 1..Len(v), NEW q \in 1..Len(v), v[p] = v[q], p # q
               PROVE  FALSE
    OBVIOUS
  <2>1. v[p] \in Nat /\ v[q] \in Nat /\ (p < q \/ q < p)
    BY <1>2
  <2> QED BY <1>1, <2>1, SMTT(30), ZenonT(30) DEF Ascends
<1>7. ASSUME NEW p \in 1..m, NEW q \in 1..m, s[p] = s[q] PROVE p = q
  <2>1. CASE p \in 1..Len(u) /\ q \in 1..Len(u)
    BY <1>3, <1>5, <1>7, <2>1
  <2>2. CASE p \in (Len(u) + 1)..m /\ q \in (Len(u) + 1)..m
    <3>1. p - Len(u) = q - Len(u)
      BY <1>3, <1>6, <1>7, <2>2, SMTT(30), ZenonT(30)
    <3> QED BY <1>2, <3>1
  <2>3. CASE p \in 1..Len(u) /\ q \in (Len(u) + 1)..m
    <3>1. s[p] \in B /\ s[q] \in C /\ s[q] \in 1..m
      BY <1>1, <1>2, <1>3, <2>3 DEF Ascends
    <3> QED BY <1>7, <3>1
  <2>4. CASE q \in 1..Len(u) /\ p \in (Len(u) + 1)..m
    <3>1. s[q] \in B /\ s[p] \in C /\ s[p] \in 1..m
      BY <1>1, <1>2, <1>3, <2>4 DEF Ascends
    <3> QED BY <1>7, <3>1
  <2> QED BY <1>4, <2>1, <2>2, <2>3, <2>4
<1>8. ASSUME NEW y \in 1..m PROVE \E p \in 1..m : s[p] = y
  <2>1. CASE y \in B
    <3>1. PICK p \in 1..Len(u) : u[p] = y
      BY <1>1, <2>1 DEF Ascends
    <3>2. p \in 1..m /\ s[p] = y
      BY <1>1, <1>2, <1>3, <3>1, SMTT(30), ZenonT(30)
    <3> QED BY <3>2
  <2>2. CASE y \in C
    <3>1. PICK p \in 1..Len(v) : v[p] = y
      BY <1>1, <2>2 DEF Ascends
    <3>2. Len(u) + p \in (Len(u) + 1)..m /\ (Len(u) + p) - Len(u) = p
          /\ Len(u) + p \in 1..m
      BY <1>1, <1>2
    <3>3. s[Len(u) + p] = y
      BY <1>3, <3>1, <3>2
    <3> QED BY <3>2, <3>3
  <2> QED BY <2>1, <2>2
<1>9. Arranges(s, m)
  BY <1>3, <1>7, <1>8 DEF Arranges
<1> QED BY <1>9 DEF s, u, v

-------------------------------------------------------------------------------
(* The calls for an object, in parts                                       *)

(* What the initial states say of an object.                               *)
Valid(o) ==
    /\ Len(o.comdats) \in Nat /\ DOMAIN o.comdats = 1..Len(o.comdats)
    /\ Len(o.sections) \in Nat /\ DOMAIN o.sections = 1..Len(o.sections)
    /\ Len(o.symbols) \in Nat /\ DOMAIN o.symbols = 1..Len(o.symbols)
    /\ \A i \in 1..Len(o.comdats) :
        /\ o.comdats[i].signature \in 1..Len(o.symbols)
        /\ o.comdats[i].members \in Seq(1..Len(o.sections))
        /\ Len(o.comdats[i].members) \in Counts
    /\ \A i \in 1..Len(o.sections) :
        /\ o.sections[i].size \in Counts /\ o.sections[i].align \in Aligns
        /\ o.sections[i].relocs \in Seq(1..Len(o.symbols))
        /\ Len(o.sections[i].relocs) \in Counts
    /\ \A y \in 1..Len(o.symbols) :
        /\ o.symbols[y].local \in BOOLEAN
        /\ o.symbols[y].section \in 0..Len(o.sections)

Calls(o) == ReserveCalls(o) \o WriteCalls(o) \o HeaderCalls(o)

ComdatReserves(o) == FlattenSeq([i \in DOMAIN o.comdats |->
    <<Call("comdat_index", i, 0), Call("comdat", i, 0)>>])

SectionReserves(o) == FlattenSeq([i \in DOMAIN o.sections |->
    <<Call("section_index", i, 0), Call("data", i, 0)>>
    \o RelocCalls(o, i, <<Call("reloc_index", i, 0)>>)])

StringAdds(o) == FlattenSeq([y \in DOMAIN o.symbols |-> <<Call("string", y, 0)>>])

RelocReserves(o) == FlattenSeq([i \in DOMAIN o.sections |->
    RelocCalls(o, i, <<Call("relocations", i, 0)>>)])

Members(o, i) == FlattenSeq([k \in DOMAIN o.comdats[i].members |->
    <<Call("write_comdat_entry", i, k)>>])

ComdatWrites(o) == FlattenSeq([i \in DOMAIN o.comdats |->
    <<Call("write_comdat", i, 0)>> \o Members(o, i)])

DataWrites(o) == FlattenSeq([i \in DOMAIN o.sections |->
    <<Call("write_data", i, 0)>>])

Relocs(o, i) == FlattenSeq([k \in DOMAIN o.sections[i].relocs |->
    <<Call("write_relocation", i, k)>>])

RelocWrites(o) == FlattenSeq([i \in DOMAIN o.sections |->
    RelocCalls(o, i, <<Call("write_align_relocation", i, 0)>> \o Relocs(o, i))])

ComdatHeaders(o) == FlattenSeq([i \in DOMAIN o.comdats |->
    <<Call("write_comdat_header", i, 0)>>])

DataHeaders(o) == FlattenSeq([i \in DOMAIN o.sections |->
    <<Call("write_section_header", i, 0)>>
    \o RelocCalls(o, i, <<Call("write_reloc_header", i, 0)>>)])

Parts(o) == <<
    Once(<<"file_header">>),                                           \* 1
    ComdatReserves(o),
    SectionReserves(o),
    Once(<<"null_symbol">>),
    SymbolCalls(o, "symbol", TRUE),                                    \* 5
    Once(<<"num_local">>),
    SymbolCalls(o, "symbol", FALSE),
    StringAdds(o),
    Once(<<"symtab_index", "symtab", "symtab_shndx_index", "symtab_shndx",
           "strtab_index", "strtab">>),
    RelocReserves(o),                                                  \* 10
    Once(<<"shstrtab_index", "shstrtab", "section_headers">>),
    Once(<<"write_file_header">>),
    ComdatWrites(o),
    DataWrites(o),
    Once(<<"write_null_symbol">>),                                     \* 15
    SymbolCalls(o, "write_symbol", TRUE),
    SymbolCalls(o, "write_symbol", FALSE),
    Once(<<"write_symtab_shndx", "write_strtab">>),
    RelocWrites(o),
    Once(<<"write_shstrtab">>),                                        \* 20
    Once(<<"write_null_header">>),
    ComdatHeaders(o),
    DataHeaders(o),
    Once(<<"write_symtab_header", "write_symtab_shndx_header",
           "write_strtab_header", "write_shstrtab_header">>)>>

Local(o, y) == o.symbols[y].local = TRUE

(* The part that a call is in.                                             *)
PartOf(o, c) ==
    CASE c.call = "file_header" -> 1
      [] c.call \in {"comdat_index", "comdat"} -> 2
      [] c.call \in {"section_index", "data", "reloc_index"} -> 3
      [] c.call = "null_symbol" -> 4
      [] c.call = "symbol" /\ Local(o, c.i) -> 5
      [] c.call = "num_local" -> 6
      [] c.call = "symbol" /\ ~Local(o, c.i) -> 7
      [] c.call = "string" -> 8
      [] c.call \in {"symtab_index", "symtab", "symtab_shndx_index",
                     "symtab_shndx", "strtab_index", "strtab"} -> 9
      [] c.call = "relocations" -> 10
      [] c.call \in {"shstrtab_index", "shstrtab", "section_headers"} -> 11
      [] c.call = "write_file_header" -> 12
      [] c.call \in {"write_comdat", "write_comdat_entry"} -> 13
      [] c.call = "write_data" -> 14
      [] c.call = "write_null_symbol" -> 15
      [] c.call = "write_symbol" /\ Local(o, c.i) -> 16
      [] c.call = "write_symbol" /\ ~Local(o, c.i) -> 17
      [] c.call \in {"write_symtab_shndx", "write_strtab"} -> 18
      [] c.call \in {"write_align_relocation", "write_relocation"} -> 19
      [] c.call = "write_shstrtab" -> 20
      [] c.call = "write_null_header" -> 21
      [] c.call = "write_comdat_header" -> 22
      [] c.call \in {"write_section_header", "write_reloc_header"} -> 23
      [] OTHER -> 24

(* The calls that may be made for an object.                               *)
Legal(o) == {c \in CallSet :
    /\ c.call \in {"comdat_index", "comdat", "write_comdat", "write_comdat_entry",
                   "write_comdat_header"} => c.i \in 1..Len(o.comdats)
    /\ c.call \in {"section_index", "data", "write_data", "write_section_header"} =>
           c.i \in 1..Len(o.sections)
    /\ c.call \in {"reloc_index", "relocations", "write_align_relocation",
                   "write_relocation", "write_reloc_header"} =>
           c.i \in 1..Len(o.sections) /\ o.sections[c.i].relocs # <<>>
    /\ c.call \in {"symbol", "string", "write_symbol"} => c.i \in 1..Len(o.symbols)
    /\ c.call = "write_comdat_entry" => c.k \in DOMAIN o.comdats[c.i].members
    /\ c.call = "write_relocation" => c.k \in DOMAIN o.sections[c.i].relocs}

(* Those of part n.                                                        *)
PartCalls(o, n) == {c \in Legal(o) : PartOf(o, c) = n}

LEMMA CallFields ==
    ASSUME NEW f \in CallNames, NEW i \in Nat, NEW k \in Nat
    PROVE  /\ Call(f, i, k) \in CallSet
           /\ Call(f, i, k).call = f /\ Call(f, i, k).i = i /\ Call(f, i, k).k = k
BY DEF Call, CallSet

LEMMA PartsShape ==
    ASSUME NEW o
    PROVE  /\ Len(Parts(o)) = 24 /\ DOMAIN Parts(o) = 1..24
           /\ Parts(o)[1] = Once(<<"file_header">>)
           /\ Parts(o)[2] = ComdatReserves(o)
           /\ Parts(o)[3] = SectionReserves(o)
           /\ Parts(o)[4] = Once(<<"null_symbol">>)
           /\ Parts(o)[5] = SymbolCalls(o, "symbol", TRUE)
           /\ Parts(o)[6] = Once(<<"num_local">>)
           /\ Parts(o)[7] = SymbolCalls(o, "symbol", FALSE)
           /\ Parts(o)[8] = StringAdds(o)
           /\ Parts(o)[9] = Once(<<"symtab_index", "symtab", "symtab_shndx_index",
                                   "symtab_shndx", "strtab_index", "strtab">>)
           /\ Parts(o)[10] = RelocReserves(o)
           /\ Parts(o)[11] = Once(<<"shstrtab_index", "shstrtab", "section_headers">>)
           /\ Parts(o)[12] = Once(<<"write_file_header">>)
           /\ Parts(o)[13] = ComdatWrites(o)
           /\ Parts(o)[14] = DataWrites(o)
           /\ Parts(o)[15] = Once(<<"write_null_symbol">>)
           /\ Parts(o)[16] = SymbolCalls(o, "write_symbol", TRUE)
           /\ Parts(o)[17] = SymbolCalls(o, "write_symbol", FALSE)
           /\ Parts(o)[18] = Once(<<"write_symtab_shndx", "write_strtab">>)
           /\ Parts(o)[19] = RelocWrites(o)
           /\ Parts(o)[20] = Once(<<"write_shstrtab">>)
           /\ Parts(o)[21] = Once(<<"write_null_header">>)
           /\ Parts(o)[22] = ComdatHeaders(o)
           /\ Parts(o)[23] = DataHeaders(o)
           /\ Parts(o)[24] = Once(<<"write_symtab_header", "write_symtab_shndx_header",
                                    "write_strtab_header", "write_shstrtab_header">>)
BY DEF Parts

LEMMA CallsParts ==
    ASSUME NEW o
    PROVE  /\ ReserveCalls(o) =
                Parts(o)[1] \o Parts(o)[2] \o Parts(o)[3] \o Parts(o)[4]
                \o Parts(o)[5] \o Parts(o)[6] \o Parts(o)[7] \o Parts(o)[8]
                \o Parts(o)[9] \o Parts(o)[10] \o Parts(o)[11]
           /\ WriteCalls(o) =
                Parts(o)[12] \o Parts(o)[13] \o Parts(o)[14] \o Parts(o)[15]
                \o Parts(o)[16] \o Parts(o)[17] \o Parts(o)[18] \o Parts(o)[19]
                \o Parts(o)[20]
           /\ HeaderCalls(o) =
                Parts(o)[21] \o Parts(o)[22] \o Parts(o)[23] \o Parts(o)[24]
<1>1. /\ ForEach(o.comdats, LAMBDA i :
             <<Call("comdat_index", i, 0), Call("comdat", i, 0)>>) = ComdatReserves(o)
      /\ ForEach(o.sections, LAMBDA i :
             <<Call("section_index", i, 0), Call("data", i, 0)>>
             \o RelocCalls(o, i, <<Call("reloc_index", i, 0)>>)) = SectionReserves(o)
      /\ ForEach(o.symbols, LAMBDA y : <<Call("string", y, 0)>>) = StringAdds(o)
      /\ ForEach(o.sections, LAMBDA i :
             RelocCalls(o, i, <<Call("relocations", i, 0)>>)) = RelocReserves(o)
  BY DEF ForEach, ComdatReserves, SectionReserves, StringAdds, RelocReserves
<1>2. ReserveCalls(o) =
        Once(<<"file_header">>) \o ComdatReserves(o) \o SectionReserves(o)
        \o Once(<<"null_symbol">>) \o SymbolCalls(o, "symbol", TRUE)
        \o Once(<<"num_local">>) \o SymbolCalls(o, "symbol", FALSE) \o StringAdds(o)
        \o Once(<<"symtab_index", "symtab", "symtab_shndx_index", "symtab_shndx",
                  "strtab_index", "strtab">>)
        \o RelocReserves(o) \o Once(<<"shstrtab_index", "shstrtab", "section_headers">>)
  BY <1>1 DEF ReserveCalls
<1>3. /\ ForEach(o.comdats, LAMBDA i :
             <<Call("write_comdat", i, 0)>>
             \o ForEach(o.comdats[i].members, LAMBDA k :
                    <<Call("write_comdat_entry", i, k)>>)) = ComdatWrites(o)
      /\ ForEach(o.sections, LAMBDA i : <<Call("write_data", i, 0)>>) = DataWrites(o)
      /\ ForEach(o.sections, LAMBDA i : RelocCalls(o, i,
             <<Call("write_align_relocation", i, 0)>>
             \o ForEach(o.sections[i].relocs, LAMBDA k :
                    <<Call("write_relocation", i, k)>>))) = RelocWrites(o)
  BY DEF ForEach, ComdatWrites, Members, DataWrites, RelocWrites, Relocs
<1>4. WriteCalls(o) =
        Once(<<"write_file_header">>) \o ComdatWrites(o) \o DataWrites(o)
        \o Once(<<"write_null_symbol">>) \o SymbolCalls(o, "write_symbol", TRUE)
        \o SymbolCalls(o, "write_symbol", FALSE)
        \o Once(<<"write_symtab_shndx", "write_strtab">>) \o RelocWrites(o)
        \o Once(<<"write_shstrtab">>)
  BY <1>3 DEF WriteCalls
<1>5. /\ ForEach(o.comdats, LAMBDA i : <<Call("write_comdat_header", i, 0)>>)
             = ComdatHeaders(o)
      /\ ForEach(o.sections, LAMBDA i :
             <<Call("write_section_header", i, 0)>>
             \o RelocCalls(o, i, <<Call("write_reloc_header", i, 0)>>)) = DataHeaders(o)
  BY DEF ForEach, ComdatHeaders, DataHeaders
<1>6. HeaderCalls(o) =
        Once(<<"write_null_header">>) \o ComdatHeaders(o) \o DataHeaders(o)
        \o Once(<<"write_symtab_header", "write_symtab_shndx_header",
                  "write_strtab_header", "write_shstrtab_header">>)
  BY <1>5 DEF HeaderCalls
<1>7. ReserveCalls(o) =
        Parts(o)[1] \o Parts(o)[2] \o Parts(o)[3] \o Parts(o)[4]
        \o Parts(o)[5] \o Parts(o)[6] \o Parts(o)[7] \o Parts(o)[8]
        \o Parts(o)[9] \o Parts(o)[10] \o Parts(o)[11]
  BY <1>2, PartsShape
<1>8. WriteCalls(o) =
        Parts(o)[12] \o Parts(o)[13] \o Parts(o)[14] \o Parts(o)[15]
        \o Parts(o)[16] \o Parts(o)[17] \o Parts(o)[18] \o Parts(o)[19]
        \o Parts(o)[20]
  BY <1>4, PartsShape
<1>9. HeaderCalls(o) =
        Parts(o)[21] \o Parts(o)[22] \o Parts(o)[23] \o Parts(o)[24]
  BY <1>6, PartsShape
<1> QED BY <1>7, <1>8, <1>9

LEMMA Elements ==
    ASSUME NEW S, NEW n \in Nat, NEW e, e = [i \in 1..n |-> e[i]],
           \A i \in 1..n : e[i] \in Seq(S)
    PROVE  e \in Seq(Seq(S)) /\ FlattenSeq(e) \in Seq(S)
<1> DEFINE V == Seq(S)
<1>1. \A i \in 1..n : e[i] \in V
  OBVIOUS
<1> HIDE DEF V
<1>2. e \in Seq(V)
  BY <1>1
<1>3. e \in Seq(Seq(S))
  BY <1>2 DEF V
<1> QED BY <1>3, FlattenType

LEMMA OnceType ==
    ASSUME NEW S, NEW fs \in Seq(CallNames), \A n \in 1..Len(fs) : Call(fs[n], 0, 0) \in S
    PROVE  Once(fs) \in Seq(S)
<1>1. Once(fs) = [n \in 1..Len(fs) |-> Call(fs[n], 0, 0)] /\ Len(fs) \in Nat
  BY DEF Once
<1> QED BY <1>1

LEMMA LegalOnce ==
    ASSUME NEW o, NEW c \in CallSet,
           c.call \in {"file_header", "null_symbol", "num_local", "symtab_index",
                       "symtab", "symtab_shndx_index", "symtab_shndx", "strtab_index",
                       "strtab", "shstrtab_index", "shstrtab", "section_headers",
                       "write_file_header", "write_null_symbol", "write_symtab_shndx",
                       "write_strtab", "write_shstrtab", "write_null_header",
                       "write_symtab_header", "write_symtab_shndx_header",
                       "write_strtab_header", "write_shstrtab_header"}
    PROVE  c \in Legal(o)
BY DEF Legal

LEMMA PartsOnce ==
    ASSUME NEW o, NEW n \in {1, 4, 6, 9, 11, 12, 15, 18, 20, 21, 24}
    PROVE  Parts(o)[n] \in Seq(PartCalls(o, n))
<1>1. CASE n = 1
  <2> DEFINE fs == <<"file_header">>
             F == {"file_header"}
  <2>1. fs \in Seq(CallNames) /\ \A k \in 1..Len(fs) : fs[k] \in F
    BY DEF CallNames
  <2>2. ASSUME NEW f \in F PROVE Call(f, 0, 0) \in PartCalls(o, 1)
    <3> DEFINE c == Call(f, 0, 0)
    <3>1. c \in CallSet /\ c.call = f
      BY CallFields DEF CallNames
    <3> HIDE DEF c
    <3>2. c \in Legal(o)
      BY <3>1, LegalOnce
    <3>3. PartOf(o, c) = 1
      BY <3>1 DEF PartOf
    <3> QED BY <3>2, <3>3 DEF PartCalls, c
  <2>3. Parts(o)[1] = Once(fs)
    BY PartsShape
  <2> HIDE DEF fs, F
  <2> QED BY <1>1, <2>1, <2>2, <2>3, OnceType
<1>2. CASE n = 4
  <2> DEFINE fs == <<"null_symbol">>
             F == {"null_symbol"}
  <2>1. fs \in Seq(CallNames) /\ \A k \in 1..Len(fs) : fs[k] \in F
    BY DEF CallNames
  <2>2. ASSUME NEW f \in F PROVE Call(f, 0, 0) \in PartCalls(o, 4)
    <3> DEFINE c == Call(f, 0, 0)
    <3>1. c \in CallSet /\ c.call = f
      BY CallFields DEF CallNames
    <3> HIDE DEF c
    <3>2. c \in Legal(o)
      BY <3>1, LegalOnce
    <3>3. PartOf(o, c) = 4
      BY <3>1 DEF PartOf
    <3> QED BY <3>2, <3>3 DEF PartCalls, c
  <2>3. Parts(o)[4] = Once(fs)
    BY PartsShape
  <2> HIDE DEF fs, F
  <2> QED BY <1>2, <2>1, <2>2, <2>3, OnceType
<1>3. CASE n = 6
  <2> DEFINE fs == <<"num_local">>
             F == {"num_local"}
  <2>1. fs \in Seq(CallNames) /\ \A k \in 1..Len(fs) : fs[k] \in F
    BY DEF CallNames
  <2>2. ASSUME NEW f \in F PROVE Call(f, 0, 0) \in PartCalls(o, 6)
    <3> DEFINE c == Call(f, 0, 0)
    <3>1. c \in CallSet /\ c.call = f
      BY CallFields DEF CallNames
    <3> HIDE DEF c
    <3>2. c \in Legal(o)
      BY <3>1, LegalOnce
    <3>3. PartOf(o, c) = 6
      BY <3>1 DEF PartOf
    <3> QED BY <3>2, <3>3 DEF PartCalls, c
  <2>3. Parts(o)[6] = Once(fs)
    BY PartsShape
  <2> HIDE DEF fs, F
  <2> QED BY <1>3, <2>1, <2>2, <2>3, OnceType
<1>4. CASE n = 9
  <2> DEFINE fs == <<"symtab_index", "symtab", "symtab_shndx_index",
                     "symtab_shndx", "strtab_index", "strtab">>
             F == {"symtab_index", "symtab", "symtab_shndx_index",
                   "symtab_shndx", "strtab_index", "strtab"}
  <2>1. fs \in Seq(CallNames) /\ \A k \in 1..Len(fs) : fs[k] \in F
    BY DEF CallNames
  <2>2. ASSUME NEW f \in F PROVE Call(f, 0, 0) \in PartCalls(o, 9)
    <3> DEFINE c == Call(f, 0, 0)
    <3>1. c \in CallSet /\ c.call = f
      BY CallFields DEF CallNames
    <3> HIDE DEF c
    <3>2. c \in Legal(o)
      BY <3>1, LegalOnce
    <3>3. PartOf(o, c) = 9
      BY <3>1 DEF PartOf
    <3> QED BY <3>2, <3>3 DEF PartCalls, c
  <2>3. Parts(o)[9] = Once(fs)
    BY PartsShape
  <2> HIDE DEF fs, F
  <2> QED BY <1>4, <2>1, <2>2, <2>3, OnceType
<1>5. CASE n = 11
  <2> DEFINE fs == <<"shstrtab_index", "shstrtab", "section_headers">>
             F == {"shstrtab_index", "shstrtab", "section_headers"}
  <2>1. fs \in Seq(CallNames) /\ \A k \in 1..Len(fs) : fs[k] \in F
    BY DEF CallNames
  <2>2. ASSUME NEW f \in F PROVE Call(f, 0, 0) \in PartCalls(o, 11)
    <3> DEFINE c == Call(f, 0, 0)
    <3>1. c \in CallSet /\ c.call = f
      BY CallFields DEF CallNames
    <3> HIDE DEF c
    <3>2. c \in Legal(o)
      BY <3>1, LegalOnce
    <3>3. PartOf(o, c) = 11
      BY <3>1 DEF PartOf
    <3> QED BY <3>2, <3>3 DEF PartCalls, c
  <2>3. Parts(o)[11] = Once(fs)
    BY PartsShape
  <2> HIDE DEF fs, F
  <2> QED BY <1>5, <2>1, <2>2, <2>3, OnceType
<1>6. CASE n = 12
  <2> DEFINE fs == <<"write_file_header">>
             F == {"write_file_header"}
  <2>1. fs \in Seq(CallNames) /\ \A k \in 1..Len(fs) : fs[k] \in F
    BY DEF CallNames
  <2>2. ASSUME NEW f \in F PROVE Call(f, 0, 0) \in PartCalls(o, 12)
    <3> DEFINE c == Call(f, 0, 0)
    <3>1. c \in CallSet /\ c.call = f
      BY CallFields DEF CallNames
    <3> HIDE DEF c
    <3>2. c \in Legal(o)
      BY <3>1, LegalOnce
    <3>3. PartOf(o, c) = 12
      BY <3>1 DEF PartOf
    <3> QED BY <3>2, <3>3 DEF PartCalls, c
  <2>3. Parts(o)[12] = Once(fs)
    BY PartsShape
  <2> HIDE DEF fs, F
  <2> QED BY <1>6, <2>1, <2>2, <2>3, OnceType
<1>7. CASE n = 15
  <2> DEFINE fs == <<"write_null_symbol">>
             F == {"write_null_symbol"}
  <2>1. fs \in Seq(CallNames) /\ \A k \in 1..Len(fs) : fs[k] \in F
    BY DEF CallNames
  <2>2. ASSUME NEW f \in F PROVE Call(f, 0, 0) \in PartCalls(o, 15)
    <3> DEFINE c == Call(f, 0, 0)
    <3>1. c \in CallSet /\ c.call = f
      BY CallFields DEF CallNames
    <3> HIDE DEF c
    <3>2. c \in Legal(o)
      BY <3>1, LegalOnce
    <3>3. PartOf(o, c) = 15
      BY <3>1 DEF PartOf
    <3> QED BY <3>2, <3>3 DEF PartCalls, c
  <2>3. Parts(o)[15] = Once(fs)
    BY PartsShape
  <2> HIDE DEF fs, F
  <2> QED BY <1>7, <2>1, <2>2, <2>3, OnceType
<1>8. CASE n = 18
  <2> DEFINE fs == <<"write_symtab_shndx", "write_strtab">>
             F == {"write_symtab_shndx", "write_strtab"}
  <2>1. fs \in Seq(CallNames) /\ \A k \in 1..Len(fs) : fs[k] \in F
    BY DEF CallNames
  <2>2. ASSUME NEW f \in F PROVE Call(f, 0, 0) \in PartCalls(o, 18)
    <3> DEFINE c == Call(f, 0, 0)
    <3>1. c \in CallSet /\ c.call = f
      BY CallFields DEF CallNames
    <3> HIDE DEF c
    <3>2. c \in Legal(o)
      BY <3>1, LegalOnce
    <3>3. PartOf(o, c) = 18
      BY <3>1 DEF PartOf
    <3> QED BY <3>2, <3>3 DEF PartCalls, c
  <2>3. Parts(o)[18] = Once(fs)
    BY PartsShape
  <2> HIDE DEF fs, F
  <2> QED BY <1>8, <2>1, <2>2, <2>3, OnceType
<1>9. CASE n = 20
  <2> DEFINE fs == <<"write_shstrtab">>
             F == {"write_shstrtab"}
  <2>1. fs \in Seq(CallNames) /\ \A k \in 1..Len(fs) : fs[k] \in F
    BY DEF CallNames
  <2>2. ASSUME NEW f \in F PROVE Call(f, 0, 0) \in PartCalls(o, 20)
    <3> DEFINE c == Call(f, 0, 0)
    <3>1. c \in CallSet /\ c.call = f
      BY CallFields DEF CallNames
    <3> HIDE DEF c
    <3>2. c \in Legal(o)
      BY <3>1, LegalOnce
    <3>3. PartOf(o, c) = 20
      BY <3>1 DEF PartOf
    <3> QED BY <3>2, <3>3 DEF PartCalls, c
  <2>3. Parts(o)[20] = Once(fs)
    BY PartsShape
  <2> HIDE DEF fs, F
  <2> QED BY <1>9, <2>1, <2>2, <2>3, OnceType
<1>10. CASE n = 21
  <2> DEFINE fs == <<"write_null_header">>
             F == {"write_null_header"}
  <2>1. fs \in Seq(CallNames) /\ \A k \in 1..Len(fs) : fs[k] \in F
    BY DEF CallNames
  <2>2. ASSUME NEW f \in F PROVE Call(f, 0, 0) \in PartCalls(o, 21)
    <3> DEFINE c == Call(f, 0, 0)
    <3>1. c \in CallSet /\ c.call = f
      BY CallFields DEF CallNames
    <3> HIDE DEF c
    <3>2. c \in Legal(o)
      BY <3>1, LegalOnce
    <3>3. PartOf(o, c) = 21
      BY <3>1 DEF PartOf
    <3> QED BY <3>2, <3>3 DEF PartCalls, c
  <2>3. Parts(o)[21] = Once(fs)
    BY PartsShape
  <2> HIDE DEF fs, F
  <2> QED BY <1>10, <2>1, <2>2, <2>3, OnceType
<1>11. CASE n = 24
  <2> DEFINE fs == <<"write_symtab_header", "write_symtab_shndx_header",
                     "write_strtab_header", "write_shstrtab_header">>
             F == {"write_symtab_header", "write_symtab_shndx_header",
                   "write_strtab_header", "write_shstrtab_header"}
  <2>1. fs \in Seq(CallNames) /\ \A k \in 1..Len(fs) : fs[k] \in F
    BY DEF CallNames
  <2>2. ASSUME NEW f \in F PROVE Call(f, 0, 0) \in PartCalls(o, 24)
    <3> DEFINE c == Call(f, 0, 0)
    <3>1. c \in CallSet /\ c.call = f
      BY CallFields DEF CallNames
    <3> HIDE DEF c
    <3>2. c \in Legal(o)
      BY <3>1, LegalOnce
    <3>3. PartOf(o, c) = 24
      BY <3>1 DEF PartOf
    <3> QED BY <3>2, <3>3 DEF PartCalls, c
  <2>3. Parts(o)[24] = Once(fs)
    BY PartsShape
  <2> HIDE DEF fs, F
  <2> QED BY <1>11, <2>1, <2>2, <2>3, OnceType
<1> QED BY <1>1, <1>2, <1>3, <1>4, <1>5, <1>6, <1>7, <1>8, <1>9, <1>10, <1>11

LEMMA PartComdatReserves ==
    ASSUME NEW o, Valid(o) PROVE Parts(o)[2] \in Seq(PartCalls(o, 2))
<1> DEFINE S == PartCalls(o, 2)
           m == Len(o.comdats)
           e == [i \in DOMAIN o.comdats |-> <<Call("comdat_index", i, 0), Call("comdat", i, 0)>>]
<1>1. m \in Nat /\ DOMAIN o.comdats = 1..m
  BY DEF Valid
<1>2. ASSUME NEW i \in 1..m PROVE e[i] \in Seq(S)
  <2>1. Call("comdat_index", i, 0) \in S
    <3> DEFINE c == Call("comdat_index", i, 0)
    <3>1. c \in CallSet /\ c.call = "comdat_index" /\ c.i = i /\ c.k = 0
      BY <1>1, CallFields DEF CallNames
    <3> HIDE DEF c
    <3>2. c \in Legal(o) /\ PartOf(o, c) = 2
      BY <1>1, <3>1 DEF Legal, PartOf, m
    <3> QED BY <3>2 DEF PartCalls, c
  <2>2. Call("comdat", i, 0) \in S
    <3> DEFINE c == Call("comdat", i, 0)
    <3>1. c \in CallSet /\ c.call = "comdat" /\ c.i = i /\ c.k = 0
      BY <1>1, CallFields DEF CallNames
    <3> HIDE DEF c
    <3>2. c \in Legal(o) /\ PartOf(o, c) = 2
      BY <1>1, <3>1 DEF Legal, PartOf, m
    <3> QED BY <3>2 DEF PartCalls, c
  <2> HIDE DEF S
  <2> QED BY <1>1, <2>1, <2>2
<1>3. e = [i \in 1..m |-> e[i]]
  BY <1>1
<1> HIDE DEF e, S, m
<1>4. FlattenSeq(e) \in Seq(S)
  BY <1>1, <1>2, <1>3, Elements
<1> QED BY <1>4, PartsShape DEF e, S, ComdatReserves

LEMMA PartSectionReserves ==
    ASSUME NEW o, Valid(o) PROVE Parts(o)[3] \in Seq(PartCalls(o, 3))
<1> DEFINE S == PartCalls(o, 3)
           m == Len(o.sections)
           e == [i \in DOMAIN o.sections |-> <<Call("section_index", i, 0), Call("data", i, 0)>>
                   \o RelocCalls(o, i, <<Call("reloc_index", i, 0)>>)]
<1>1. m \in Nat /\ DOMAIN o.sections = 1..m
  BY DEF Valid
<1>2. ASSUME NEW i \in 1..m PROVE e[i] \in Seq(S)
  <2>1. Call("section_index", i, 0) \in S
    <3> DEFINE c == Call("section_index", i, 0)
    <3>1. c \in CallSet /\ c.call = "section_index" /\ c.i = i /\ c.k = 0
      BY <1>1, CallFields DEF CallNames
    <3> HIDE DEF c
    <3>2. c \in Legal(o) /\ PartOf(o, c) = 3
      BY <1>1, <3>1 DEF Legal, PartOf, m
    <3> QED BY <3>2 DEF PartCalls, c
  <2>2. Call("data", i, 0) \in S
    <3> DEFINE c == Call("data", i, 0)
    <3>1. c \in CallSet /\ c.call = "data" /\ c.i = i /\ c.k = 0
      BY <1>1, CallFields DEF CallNames
    <3> HIDE DEF c
    <3>2. c \in Legal(o) /\ PartOf(o, c) = 3
      BY <1>1, <3>1 DEF Legal, PartOf, m
    <3> QED BY <3>2 DEF PartCalls, c
  <2>3. ASSUME o.sections[i].relocs # <<>> PROVE Call("reloc_index", i, 0) \in S
    <3> DEFINE c == Call("reloc_index", i, 0)
    <3>1. c \in CallSet /\ c.call = "reloc_index" /\ c.i = i /\ c.k = 0
      BY <1>1, CallFields DEF CallNames
    <3> HIDE DEF c
    <3>2. c \in Legal(o) /\ PartOf(o, c) = 3
      BY <1>1, <2>3, <3>1 DEF Legal, PartOf, m
    <3> QED BY <3>2 DEF PartCalls, c
  <2> HIDE DEF S
  <2>4. RelocCalls(o, i, <<Call("reloc_index", i, 0)>>) \in Seq(S)
    BY <2>3 DEF RelocCalls
  <2>5. <<Call("section_index", i, 0), Call("data", i, 0)>> \in Seq(S)
    BY <2>1, <2>2
  <2> QED BY <1>1, <2>4, <2>5
<1>3. e = [i \in 1..m |-> e[i]]
  BY <1>1
<1> HIDE DEF e, S, m
<1>4. FlattenSeq(e) \in Seq(S)
  BY <1>1, <1>2, <1>3, Elements
<1> QED BY <1>4, PartsShape DEF e, S, SectionReserves

LEMMA PartStringAdds ==
    ASSUME NEW o, Valid(o) PROVE Parts(o)[8] \in Seq(PartCalls(o, 8))
<1> DEFINE S == PartCalls(o, 8)
           m == Len(o.symbols)
           e == [y \in DOMAIN o.symbols |-> <<Call("string", y, 0)>>]
<1>1. m \in Nat /\ DOMAIN o.symbols = 1..m
  BY DEF Valid
<1>2. ASSUME NEW y \in 1..m PROVE e[y] \in Seq(S)
  <2>1. Call("string", y, 0) \in S
    <3> DEFINE c == Call("string", y, 0)
    <3>1. c \in CallSet /\ c.call = "string" /\ c.i = y /\ c.k = 0
      BY <1>1, CallFields DEF CallNames
    <3> HIDE DEF c
    <3>2. c \in Legal(o) /\ PartOf(o, c) = 8
      BY <1>1, <3>1 DEF Legal, PartOf, m
    <3> QED BY <3>2 DEF PartCalls, c
  <2> HIDE DEF S
  <2> QED BY <1>1, <2>1
<1>3. e = [y \in 1..m |-> e[y]]
  BY <1>1
<1> HIDE DEF e, S, m
<1>4. FlattenSeq(e) \in Seq(S)
  BY <1>1, <1>2, <1>3, Elements
<1> QED BY <1>4, PartsShape DEF e, S, StringAdds

LEMMA PartRelocReserves ==
    ASSUME NEW o, Valid(o) PROVE Parts(o)[10] \in Seq(PartCalls(o, 10))
<1> DEFINE S == PartCalls(o, 10)
           m == Len(o.sections)
           e == [i \in DOMAIN o.sections |-> RelocCalls(o, i, <<Call("relocations", i, 0)>>)]
<1>1. m \in Nat /\ DOMAIN o.sections = 1..m
  BY DEF Valid
<1>2. ASSUME NEW i \in 1..m PROVE e[i] \in Seq(S)
  <2>1. ASSUME o.sections[i].relocs # <<>> PROVE Call("relocations", i, 0) \in S
    <3> DEFINE c == Call("relocations", i, 0)
    <3>1. c \in CallSet /\ c.call = "relocations" /\ c.i = i /\ c.k = 0
      BY <1>1, CallFields DEF CallNames
    <3> HIDE DEF c
    <3>2. c \in Legal(o) /\ PartOf(o, c) = 10
      BY <1>1, <2>1, <3>1 DEF Legal, PartOf, m
    <3> QED BY <3>2 DEF PartCalls, c
  <2> HIDE DEF S
  <2>2. RelocCalls(o, i, <<Call("relocations", i, 0)>>) \in Seq(S)
    BY <2>1 DEF RelocCalls
  <2> QED BY <1>1, <2>2
<1>3. e = [i \in 1..m |-> e[i]]
  BY <1>1
<1> HIDE DEF e, S, m
<1>4. FlattenSeq(e) \in Seq(S)
  BY <1>1, <1>2, <1>3, Elements
<1> QED BY <1>4, PartsShape DEF e, S, RelocReserves

LEMMA PartComdatWrites ==
    ASSUME NEW o, Valid(o) PROVE Parts(o)[13] \in Seq(PartCalls(o, 13))
<1> DEFINE S == PartCalls(o, 13)
           m == Len(o.comdats)
           e == [i \in DOMAIN o.comdats |-> <<Call("write_comdat", i, 0)>> \o Members(o, i)]
<1>1. m \in Nat /\ DOMAIN o.comdats = 1..m
  BY DEF Valid
<1>2. ASSUME NEW i \in 1..m PROVE e[i] \in Seq(S)
  <2>1. Call("write_comdat", i, 0) \in S
    <3> DEFINE c == Call("write_comdat", i, 0)
    <3>1. c \in CallSet /\ c.call = "write_comdat" /\ c.i = i /\ c.k = 0
      BY <1>1, CallFields DEF CallNames
    <3> HIDE DEF c
    <3>2. c \in Legal(o) /\ PartOf(o, c) = 13
      BY <1>1, <3>1 DEF Legal, PartOf, m
    <3> QED BY <3>2 DEF PartCalls, c
  <2>2. Members(o, i) \in Seq(S)
    <3> DEFINE ks == o.comdats[i].members
               p == Len(ks)
               d == [k \in DOMAIN ks |-> <<Call("write_comdat_entry", i, k)>>]
    <3>1. p \in Nat /\ DOMAIN ks = 1..p
      BY DEF Valid, m
    <3>2. ASSUME NEW k \in 1..p PROVE d[k] \in Seq(S)
      <4> DEFINE c == Call("write_comdat_entry", i, k)
      <4>0. i \in Nat /\ k \in Nat
        <5> HIDE DEF m, p
        <5> QED BY <1>1, <3>1
      <4>1. c \in CallSet /\ c.call = "write_comdat_entry" /\ c.i = i /\ c.k = k
        BY <4>0, CallFields, SMTT(30), ZenonT(30) DEF CallNames
      <4>2. d[k] = <<c>> /\ k \in DOMAIN ks
        BY <3>1
      <4> HIDE DEF c, d
      <4>3. c \in Legal(o) /\ PartOf(o, c) = 13
        BY <1>1, <4>1, <4>2 DEF Legal, PartOf, m
      <4>4. c \in S
        BY <4>3 DEF PartCalls
      <4> QED BY <4>2, <4>4
    <3>3. d = [k \in 1..p |-> d[k]]
      BY <3>1
    <3> HIDE DEF d, S, p
    <3>4. FlattenSeq(d) \in Seq(S)
      BY <3>1, <3>2, <3>3, Elements
    <3> QED BY <3>4 DEF d, Members
  <2> HIDE DEF S
  <2> QED BY <1>1, <2>1, <2>2
<1>3. e = [i \in 1..m |-> e[i]]
  BY <1>1
<1> HIDE DEF e, S, m
<1>4. FlattenSeq(e) \in Seq(S)
  BY <1>1, <1>2, <1>3, Elements
<1> QED BY <1>4, PartsShape DEF e, S, ComdatWrites

LEMMA PartDataWrites ==
    ASSUME NEW o, Valid(o) PROVE Parts(o)[14] \in Seq(PartCalls(o, 14))
<1> DEFINE S == PartCalls(o, 14)
           m == Len(o.sections)
           e == [i \in DOMAIN o.sections |-> <<Call("write_data", i, 0)>>]
<1>1. m \in Nat /\ DOMAIN o.sections = 1..m
  BY DEF Valid
<1>2. ASSUME NEW i \in 1..m PROVE e[i] \in Seq(S)
  <2>1. Call("write_data", i, 0) \in S
    <3> DEFINE c == Call("write_data", i, 0)
    <3>1. c \in CallSet /\ c.call = "write_data" /\ c.i = i /\ c.k = 0
      BY <1>1, CallFields DEF CallNames
    <3> HIDE DEF c
    <3>2. c \in Legal(o) /\ PartOf(o, c) = 14
      BY <1>1, <3>1 DEF Legal, PartOf, m
    <3> QED BY <3>2 DEF PartCalls, c
  <2> HIDE DEF S
  <2> QED BY <1>1, <2>1
<1>3. e = [i \in 1..m |-> e[i]]
  BY <1>1
<1> HIDE DEF e, S, m
<1>4. FlattenSeq(e) \in Seq(S)
  BY <1>1, <1>2, <1>3, Elements
<1> QED BY <1>4, PartsShape DEF e, S, DataWrites

LEMMA PartRelocWrites ==
    ASSUME NEW o, Valid(o) PROVE Parts(o)[19] \in Seq(PartCalls(o, 19))
<1> DEFINE S == PartCalls(o, 19)
           m == Len(o.sections)
           e == [i \in DOMAIN o.sections |-> RelocCalls(o, i,
                   <<Call("write_align_relocation", i, 0)>> \o Relocs(o, i))]
<1>1. m \in Nat /\ DOMAIN o.sections = 1..m
  BY DEF Valid
<1>2. ASSUME NEW i \in 1..m PROVE e[i] \in Seq(S)
  <2>1. ASSUME o.sections[i].relocs # <<>> PROVE Call("write_align_relocation", i, 0) \in S
    <3> DEFINE c == Call("write_align_relocation", i, 0)
    <3>1. c \in CallSet /\ c.call = "write_align_relocation" /\ c.i = i /\ c.k = 0
      BY <1>1, CallFields DEF CallNames
    <3> HIDE DEF c
    <3>2. c \in Legal(o) /\ PartOf(o, c) = 19
      BY <1>1, <2>1, <3>1 DEF Legal, PartOf, m
    <3> QED BY <3>2 DEF PartCalls, c
  <2>2. ASSUME o.sections[i].relocs # <<>> PROVE Relocs(o, i) \in Seq(S)
    <3> DEFINE ks == o.sections[i].relocs
               p == Len(ks)
               d == [k \in DOMAIN ks |-> <<Call("write_relocation", i, k)>>]
    <3>1. p \in Nat /\ DOMAIN ks = 1..p
      BY DEF Valid, m
    <3>2. ASSUME NEW k \in 1..p PROVE d[k] \in Seq(S)
      <4> DEFINE c == Call("write_relocation", i, k)
      <4>0. i \in Nat /\ k \in Nat
        <5> HIDE DEF m, p
        <5> QED BY <1>1, <3>1
      <4>1. c \in CallSet /\ c.call = "write_relocation" /\ c.i = i /\ c.k = k
        BY <4>0, CallFields, SMTT(30), ZenonT(30) DEF CallNames
      <4>2. d[k] = <<c>> /\ k \in DOMAIN ks
        BY <3>1
      <4> HIDE DEF c, d
      <4>3. c \in Legal(o) /\ PartOf(o, c) = 19
        BY <1>1, <2>2, <4>1, <4>2 DEF Legal, PartOf, m
      <4>4. c \in S
        BY <4>3 DEF PartCalls
      <4> QED BY <4>2, <4>4
    <3>3. d = [k \in 1..p |-> d[k]]
      BY <3>1
    <3> HIDE DEF d, S, p
    <3>4. FlattenSeq(d) \in Seq(S)
      BY <3>1, <3>2, <3>3, Elements
    <3> QED BY <3>4 DEF d, Relocs
  <2> HIDE DEF S
  <2>3. RelocCalls(o, i, <<Call("write_align_relocation", i, 0)>> \o Relocs(o, i))
            \in Seq(S)
    <3>1. ASSUME o.sections[i].relocs # <<>>
          PROVE  <<Call("write_align_relocation", i, 0)>> \o Relocs(o, i) \in Seq(S)
      BY <2>1, <2>2, <3>1
    <3> QED BY <3>1 DEF RelocCalls
  <2> QED BY <1>1, <2>3
<1>3. e = [i \in 1..m |-> e[i]]
  BY <1>1
<1> HIDE DEF e, S, m
<1>4. FlattenSeq(e) \in Seq(S)
  BY <1>1, <1>2, <1>3, Elements
<1> QED BY <1>4, PartsShape DEF e, S, RelocWrites

LEMMA PartComdatHeaders ==
    ASSUME NEW o, Valid(o) PROVE Parts(o)[22] \in Seq(PartCalls(o, 22))
<1> DEFINE S == PartCalls(o, 22)
           m == Len(o.comdats)
           e == [i \in DOMAIN o.comdats |-> <<Call("write_comdat_header", i, 0)>>]
<1>1. m \in Nat /\ DOMAIN o.comdats = 1..m
  BY DEF Valid
<1>2. ASSUME NEW i \in 1..m PROVE e[i] \in Seq(S)
  <2>1. Call("write_comdat_header", i, 0) \in S
    <3> DEFINE c == Call("write_comdat_header", i, 0)
    <3>1. c \in CallSet /\ c.call = "write_comdat_header" /\ c.i = i /\ c.k = 0
      BY <1>1, CallFields DEF CallNames
    <3> HIDE DEF c
    <3>2. c \in Legal(o) /\ PartOf(o, c) = 22
      BY <1>1, <3>1 DEF Legal, PartOf, m
    <3> QED BY <3>2 DEF PartCalls, c
  <2> HIDE DEF S
  <2> QED BY <1>1, <2>1
<1>3. e = [i \in 1..m |-> e[i]]
  BY <1>1
<1> HIDE DEF e, S, m
<1>4. FlattenSeq(e) \in Seq(S)
  BY <1>1, <1>2, <1>3, Elements
<1> QED BY <1>4, PartsShape DEF e, S, ComdatHeaders

LEMMA PartDataHeaders ==
    ASSUME NEW o, Valid(o) PROVE Parts(o)[23] \in Seq(PartCalls(o, 23))
<1> DEFINE S == PartCalls(o, 23)
           m == Len(o.sections)
           e == [i \in DOMAIN o.sections |-> <<Call("write_section_header", i, 0)>>
                   \o RelocCalls(o, i, <<Call("write_reloc_header", i, 0)>>)]
<1>1. m \in Nat /\ DOMAIN o.sections = 1..m
  BY DEF Valid
<1>2. ASSUME NEW i \in 1..m PROVE e[i] \in Seq(S)
  <2>1. Call("write_section_header", i, 0) \in S
    <3> DEFINE c == Call("write_section_header", i, 0)
    <3>1. c \in CallSet /\ c.call = "write_section_header" /\ c.i = i /\ c.k = 0
      BY <1>1, CallFields DEF CallNames
    <3> HIDE DEF c
    <3>2. c \in Legal(o) /\ PartOf(o, c) = 23
      BY <1>1, <3>1 DEF Legal, PartOf, m
    <3> QED BY <3>2 DEF PartCalls, c
  <2>2. ASSUME o.sections[i].relocs # <<>> PROVE Call("write_reloc_header", i, 0) \in S
    <3> DEFINE c == Call("write_reloc_header", i, 0)
    <3>1. c \in CallSet /\ c.call = "write_reloc_header" /\ c.i = i /\ c.k = 0
      BY <1>1, CallFields DEF CallNames
    <3> HIDE DEF c
    <3>2. c \in Legal(o) /\ PartOf(o, c) = 23
      BY <1>1, <2>2, <3>1 DEF Legal, PartOf, m
    <3> QED BY <3>2 DEF PartCalls, c
  <2> HIDE DEF S
  <2>3. RelocCalls(o, i, <<Call("write_reloc_header", i, 0)>>) \in Seq(S)
    BY <2>2 DEF RelocCalls
  <2> QED BY <1>1, <2>1, <2>3
<1>3. e = [i \in 1..m |-> e[i]]
  BY <1>1
<1> HIDE DEF e, S, m
<1>4. FlattenSeq(e) \in Seq(S)
  BY <1>1, <1>2, <1>3, Elements
<1> QED BY <1>4, PartsShape DEF e, S, DataHeaders

LEMMA PartSymbols ==
    ASSUME NEW o, Valid(o), NEW f \in {"symbol", "write_symbol"}, NEW local \in BOOLEAN
    PROVE  SymbolCalls(o, f, local) \in
               Seq({c \in Legal(o) : c.call = f /\ (Local(o, c.i) <=> local)})
<1> DEFINE S == {c \in Legal(o) : c.call = f /\ (Local(o, c.i) <=> local)}
           m == Len(o.symbols)
           e == [y \in DOMAIN o.symbols |-> IF o.symbols[y].local = local
                                            THEN <<Call(f, y, 0)>> ELSE <<>>]
<1>1. m \in Nat /\ DOMAIN o.symbols = 1..m
  BY DEF Valid
<1>2. ASSUME NEW y \in 1..m PROVE e[y] \in Seq(S)
  <2>1. ASSUME o.symbols[y].local = local PROVE Call(f, y, 0) \in S
    <3> DEFINE c == Call(f, y, 0)
    <3>0. f \in CallNames /\ y \in Nat
      <4> HIDE DEF m
      <4> QED BY <1>1 DEF CallNames
    <3>1. c \in CallSet /\ c.call = f /\ c.i = y /\ c.k = 0
      BY <3>0, CallFields
    <3> HIDE DEF c
    <3>2. c \in Legal(o)
      BY <1>1, <3>1 DEF Legal, m
    <3>3. Local(o, c.i) <=> local
      BY <2>1, <3>1 DEF Local
    <3> QED BY <3>1, <3>2, <3>3 DEF c
  <2> HIDE DEF S
  <2> QED BY <1>1, <2>1
<1>3. e = [y \in 1..m |-> e[y]]
  BY <1>1
<1>4. SymbolCalls(o, f, local) = FlattenSeq(e)
  BY DEF SymbolCalls, ForEach
<1> HIDE DEF e, S, m
<1>5. FlattenSeq(e) \in Seq(S)
  BY <1>1, <1>2, <1>3, Elements
<1> QED BY <1>4, <1>5 DEF S

LEMMA PartsLegal ==
    ASSUME NEW o, Valid(o), NEW n \in 1..24
    PROVE  Parts(o)[n] \in Seq(PartCalls(o, n))
<1>1. ASSUME NEW f \in {"symbol", "write_symbol"}, NEW local \in BOOLEAN, NEW p,
             p = IF f = "symbol" THEN (IF local THEN 5 ELSE 7)
                 ELSE (IF local THEN 16 ELSE 17)
      PROVE  SymbolCalls(o, f, local) \in Seq(PartCalls(o, p))
  <2> DEFINE S == {c \in Legal(o) : c.call = f /\ (Local(o, c.i) <=> local)}
  <2>1. ASSUME NEW c \in S PROVE c \in PartCalls(o, p)
    BY <1>1, <2>1 DEF PartCalls, PartOf
  <2>2. S \subseteq PartCalls(o, p)
    BY <2>1
  <2>3. SymbolCalls(o, f, local) \in Seq(S)
    BY PartSymbols
  <2> HIDE DEF S
  <2> QED BY <2>2, <2>3
<1>2. CASE n \in {1, 4, 6, 9, 11, 12, 15, 18, 20, 21, 24}
  BY <1>2, PartsOnce
<1>3. CASE n \in {5, 7, 16, 17}
  <2>1. /\ SymbolCalls(o, "symbol", TRUE) \in Seq(PartCalls(o, 5))
        /\ SymbolCalls(o, "symbol", FALSE) \in Seq(PartCalls(o, 7))
        /\ SymbolCalls(o, "write_symbol", TRUE) \in Seq(PartCalls(o, 16))
        /\ SymbolCalls(o, "write_symbol", FALSE) \in Seq(PartCalls(o, 17))
    BY <1>1
  <2> QED BY <1>3, <2>1, PartsShape, SMTT(30), ZenonT(30)
<1>4. CASE n \in {2, 3, 8, 10, 13, 14, 19, 22, 23}
  BY <1>4, PartComdatReserves, PartSectionReserves, PartStringAdds, PartRelocReserves,
     PartComdatWrites, PartDataWrites, PartRelocWrites, PartComdatHeaders,
     PartDataHeaders
<1> QED BY <1>2, <1>3, <1>4

LEMMA PartsType ==
    ASSUME NEW o, Valid(o)
    PROVE  /\ Parts(o) \in Seq(Seq(CallSet))
           /\ \A n \in 1..24 : Parts(o)[n] \in Seq(CallSet)
<1>1. \A n \in 1..24 : Parts(o)[n] \in Seq(CallSet)
  <2> SUFFICES ASSUME NEW n \in 1..24 PROVE Parts(o)[n] \in Seq(CallSet)
    OBVIOUS
  <2>1. Parts(o)[n] \in Seq(PartCalls(o, n))
    BY PartsLegal
  <2>2. PartCalls(o, n) \subseteq CallSet
    BY DEF PartCalls, Legal
  <2> QED BY <2>1, <2>2
<1>2. Parts(o) = [n \in 1..24 |-> Parts(o)[n]]
  BY DEF Parts
<1>3. Parts(o) \in Seq(Seq(CallSet))
  <2> DEFINE E == Seq(CallSet)
  <2>1. \A n \in 1..24 : Parts(o)[n] \in E
    BY <1>1
  <2> HIDE DEF E
  <2>2. Parts(o) \in Seq(E)
    BY <1>2, <2>1
  <2> QED BY <2>2 DEF E
<1> QED BY <1>1, <1>3

(* The sequence e is d followed by c.                                      *)
Glued(e, d, c) == e = d \o c

LEMMA Regroup ==
    ASSUME NEW S, NEW a \in Seq(S), NEW b \in Seq(S), NEW c \in Seq(S),
           NEW d, NEW e, Glued(d, a, b), Glued(e, d, c)
    PROVE  Glued(e, a, b \o c) /\ b \o c \in Seq(S)
<1>1. (a \o b) \o c = a \o (b \o c)
  BY ConcatAssociative
<1>2. b \o c \in Seq(S)
  OBVIOUS
<1>3. e = a \o (b \o c)
  BY <1>1, Zenon DEF Glued
<1> QED BY <1>2, <1>3, Zenon DEF Glued

LEMMA CallsFlatten ==
    ASSUME NEW o, Valid(o) PROVE Calls(o) = FlattenSeq(Parts(o))
<1> DEFINE p == Parts(o)
<1>1. /\ p \in Seq(Seq(CallSet)) /\ Len(p) = 24
      /\ \A n \in 1..24 : p[n] \in Seq(CallSet)
  BY PartsType, PartsShape
<1>2. /\ ReserveCalls(o) = p[1] \o p[2] \o p[3] \o p[4] \o p[5] \o p[6] \o p[7]
                           \o p[8] \o p[9] \o p[10] \o p[11]
      /\ WriteCalls(o) = p[12] \o p[13] \o p[14] \o p[15] \o p[16] \o p[17]
                         \o p[18] \o p[19] \o p[20]
      /\ HeaderCalls(o) = p[21] \o p[22] \o p[23] \o p[24]
  BY CallsParts
<1> HIDE DEF p
<1>3. PICK f : FlatSteps(f, p, CallSet)
  BY <1>1, FlattenSteps
<1>4. /\ f[1] = p[1] /\ FlattenSeq(p) = f[24]
      /\ \A n \in 1..24 : f[n] \in Seq(CallSet)
      /\ \A n \in 2..24 : f[n] = f[n - 1] \o p[n]
  <2> DEFINE N == Len(p)
  <2>1. /\ \A i \in 1..N : f[i] \in Seq(CallSet)
        /\ N # 0 => f[1] = p[1]
        /\ \A i \in 2..N : f[i] = f[i - 1] \o p[i]
        /\ FlattenSeq(p) = IF N = 0 THEN <<>> ELSE f[N]
    BY <1>3, Zenon DEF FlatSteps
  <2>2. N = 24
    BY <1>1
  <2> HIDE DEF N
  <2>3. FlattenSeq(p) = f[24] /\ f[1] = p[1]
    BY <2>1, <2>2
  <2>4. \A n \in 1..24 : f[n] \in Seq(CallSet)
    BY <2>1, <2>2, Zenon
  <2>5. \A n \in 2..24 : f[n] = f[n - 1] \o p[n]
    BY <2>1, <2>2, Zenon
  <2> QED BY <2>3, <2>4, <2>5
<1>5. ASSUME NEW n \in 2..24, NEW m, m = n - 1
      PROVE  Glued(f[n], f[m], p[n]) /\ p[n] \in Seq(CallSet)
  <2>1. n \in 1..24
    OBVIOUS
  <2> QED BY <1>1, <1>4, <1>5, <2>1, Zenon DEF Glued
<1>s2. Glued(f[2], f[1], p[2]) /\ p[2] \in Seq(CallSet)
  <2>1. 2 \in 2..24 /\ 1 = 2 - 1
    OBVIOUS
  <2> QED BY <1>5, <2>1, Zenon
<1>s3. Glued(f[3], f[2], p[3]) /\ p[3] \in Seq(CallSet)
  <2>1. 3 \in 2..24 /\ 2 = 3 - 1
    OBVIOUS
  <2> QED BY <1>5, <2>1, Zenon
<1>s4. Glued(f[4], f[3], p[4]) /\ p[4] \in Seq(CallSet)
  <2>1. 4 \in 2..24 /\ 3 = 4 - 1
    OBVIOUS
  <2> QED BY <1>5, <2>1, Zenon
<1>s5. Glued(f[5], f[4], p[5]) /\ p[5] \in Seq(CallSet)
  <2>1. 5 \in 2..24 /\ 4 = 5 - 1
    OBVIOUS
  <2> QED BY <1>5, <2>1, Zenon
<1>s6. Glued(f[6], f[5], p[6]) /\ p[6] \in Seq(CallSet)
  <2>1. 6 \in 2..24 /\ 5 = 6 - 1
    OBVIOUS
  <2> QED BY <1>5, <2>1, Zenon
<1>s7. Glued(f[7], f[6], p[7]) /\ p[7] \in Seq(CallSet)
  <2>1. 7 \in 2..24 /\ 6 = 7 - 1
    OBVIOUS
  <2> QED BY <1>5, <2>1, Zenon
<1>s8. Glued(f[8], f[7], p[8]) /\ p[8] \in Seq(CallSet)
  <2>1. 8 \in 2..24 /\ 7 = 8 - 1
    OBVIOUS
  <2> QED BY <1>5, <2>1, Zenon
<1>s9. Glued(f[9], f[8], p[9]) /\ p[9] \in Seq(CallSet)
  <2>1. 9 \in 2..24 /\ 8 = 9 - 1
    OBVIOUS
  <2> QED BY <1>5, <2>1, Zenon
<1>s10. Glued(f[10], f[9], p[10]) /\ p[10] \in Seq(CallSet)
  <2>1. 10 \in 2..24 /\ 9 = 10 - 1
    OBVIOUS
  <2> QED BY <1>5, <2>1, Zenon
<1>s11. Glued(f[11], f[10], p[11]) /\ p[11] \in Seq(CallSet)
  <2>1. 11 \in 2..24 /\ 10 = 11 - 1
    OBVIOUS
  <2> QED BY <1>5, <2>1, Zenon
<1>s12. Glued(f[12], f[11], p[12]) /\ p[12] \in Seq(CallSet)
  <2>1. 12 \in 2..24 /\ 11 = 12 - 1
    OBVIOUS
  <2> QED BY <1>5, <2>1, Zenon
<1>s13. Glued(f[13], f[12], p[13]) /\ p[13] \in Seq(CallSet)
  <2>1. 13 \in 2..24 /\ 12 = 13 - 1
    OBVIOUS
  <2> QED BY <1>5, <2>1, Zenon
<1>s14. Glued(f[14], f[13], p[14]) /\ p[14] \in Seq(CallSet)
  <2>1. 14 \in 2..24 /\ 13 = 14 - 1
    OBVIOUS
  <2> QED BY <1>5, <2>1, Zenon
<1>s15. Glued(f[15], f[14], p[15]) /\ p[15] \in Seq(CallSet)
  <2>1. 15 \in 2..24 /\ 14 = 15 - 1
    OBVIOUS
  <2> QED BY <1>5, <2>1, Zenon
<1>s16. Glued(f[16], f[15], p[16]) /\ p[16] \in Seq(CallSet)
  <2>1. 16 \in 2..24 /\ 15 = 16 - 1
    OBVIOUS
  <2> QED BY <1>5, <2>1, Zenon
<1>s17. Glued(f[17], f[16], p[17]) /\ p[17] \in Seq(CallSet)
  <2>1. 17 \in 2..24 /\ 16 = 17 - 1
    OBVIOUS
  <2> QED BY <1>5, <2>1, Zenon
<1>s18. Glued(f[18], f[17], p[18]) /\ p[18] \in Seq(CallSet)
  <2>1. 18 \in 2..24 /\ 17 = 18 - 1
    OBVIOUS
  <2> QED BY <1>5, <2>1, Zenon
<1>s19. Glued(f[19], f[18], p[19]) /\ p[19] \in Seq(CallSet)
  <2>1. 19 \in 2..24 /\ 18 = 19 - 1
    OBVIOUS
  <2> QED BY <1>5, <2>1, Zenon
<1>s20. Glued(f[20], f[19], p[20]) /\ p[20] \in Seq(CallSet)
  <2>1. 20 \in 2..24 /\ 19 = 20 - 1
    OBVIOUS
  <2> QED BY <1>5, <2>1, Zenon
<1>s21. Glued(f[21], f[20], p[21]) /\ p[21] \in Seq(CallSet)
  <2>1. 21 \in 2..24 /\ 20 = 21 - 1
    OBVIOUS
  <2> QED BY <1>5, <2>1, Zenon
<1>s22. Glued(f[22], f[21], p[22]) /\ p[22] \in Seq(CallSet)
  <2>1. 22 \in 2..24 /\ 21 = 22 - 1
    OBVIOUS
  <2> QED BY <1>5, <2>1, Zenon
<1>s23. Glued(f[23], f[22], p[23]) /\ p[23] \in Seq(CallSet)
  <2>1. 23 \in 2..24 /\ 22 = 23 - 1
    OBVIOUS
  <2> QED BY <1>5, <2>1, Zenon
<1>s24. Glued(f[24], f[23], p[24]) /\ p[24] \in Seq(CallSet)
  <2>1. 24 \in 2..24 /\ 23 = 24 - 1
    OBVIOUS
  <2> QED BY <1>5, <2>1, Zenon
<1>7. f[11] = ReserveCalls(o)
  <2> DEFINE a2 == p[1] \o p[2]
  <2>2. f[2] = a2
    BY <1>s2, <1>4, Zenon DEF Glued
  <2> HIDE DEF a2
  <2> DEFINE a3 == a2 \o p[3]
  <2>3. f[3] = a3
    BY <1>s3, <2>2, Zenon DEF Glued
  <2> HIDE DEF a3
  <2> DEFINE a4 == a3 \o p[4]
  <2>4. f[4] = a4
    BY <1>s4, <2>3, Zenon DEF Glued
  <2> HIDE DEF a4
  <2> DEFINE a5 == a4 \o p[5]
  <2>5. f[5] = a5
    BY <1>s5, <2>4, Zenon DEF Glued
  <2> HIDE DEF a5
  <2> DEFINE a6 == a5 \o p[6]
  <2>6. f[6] = a6
    BY <1>s6, <2>5, Zenon DEF Glued
  <2> HIDE DEF a6
  <2> DEFINE a7 == a6 \o p[7]
  <2>7. f[7] = a7
    BY <1>s7, <2>6, Zenon DEF Glued
  <2> HIDE DEF a7
  <2> DEFINE a8 == a7 \o p[8]
  <2>8. f[8] = a8
    BY <1>s8, <2>7, Zenon DEF Glued
  <2> HIDE DEF a8
  <2> DEFINE a9 == a8 \o p[9]
  <2>9. f[9] = a9
    BY <1>s9, <2>8, Zenon DEF Glued
  <2> HIDE DEF a9
  <2> DEFINE a10 == a9 \o p[10]
  <2>10. f[10] = a10
    BY <1>s10, <2>9, Zenon DEF Glued
  <2> HIDE DEF a10
  <2> DEFINE a11 == a10 \o p[11]
  <2>11. f[11] = a11
    BY <1>s11, <2>10, Zenon DEF Glued
  <2> HIDE DEF a11
  <2> QED BY <1>2, <2>11, Zenon DEF a2, a3, a4, a5, a6, a7, a8, a9, a10, a11
<1>9. f[20] = ReserveCalls(o) \o WriteCalls(o)
  <2> DEFINE a == ReserveCalls(o)
  <2>1. a \in Seq(CallSet) /\ p[12] \in Seq(CallSet) /\ Glued(f[12], a, p[12])
    <3>1. 11 \in 1..24
      OBVIOUS
    <3> QED BY <1>4, <1>s12, <1>7, <3>1, Zenon
  <2> HIDE DEF a
  <2> DEFINE b13 == p[12] \o p[13]
  <2>2. Glued(f[13], a, b13) /\ b13 \in Seq(CallSet)
    BY <1>s13, Regroup, <2>1, Zenon
  <2> HIDE DEF b13
  <2> DEFINE b14 == b13 \o p[14]
  <2>3. Glued(f[14], a, b14) /\ b14 \in Seq(CallSet)
    BY <1>s14, Regroup, <2>1, <2>2, Zenon
  <2> HIDE DEF b14
  <2> DEFINE b15 == b14 \o p[15]
  <2>4. Glued(f[15], a, b15) /\ b15 \in Seq(CallSet)
    BY <1>s15, Regroup, <2>1, <2>3, Zenon
  <2> HIDE DEF b15
  <2> DEFINE b16 == b15 \o p[16]
  <2>5. Glued(f[16], a, b16) /\ b16 \in Seq(CallSet)
    BY <1>s16, Regroup, <2>1, <2>4, Zenon
  <2> HIDE DEF b16
  <2> DEFINE b17 == b16 \o p[17]
  <2>6. Glued(f[17], a, b17) /\ b17 \in Seq(CallSet)
    BY <1>s17, Regroup, <2>1, <2>5, Zenon
  <2> HIDE DEF b17
  <2> DEFINE b18 == b17 \o p[18]
  <2>7. Glued(f[18], a, b18) /\ b18 \in Seq(CallSet)
    BY <1>s18, Regroup, <2>1, <2>6, Zenon
  <2> HIDE DEF b18
  <2> DEFINE b19 == b18 \o p[19]
  <2>8. Glued(f[19], a, b19) /\ b19 \in Seq(CallSet)
    BY <1>s19, Regroup, <2>1, <2>7, Zenon
  <2> HIDE DEF b19
  <2> DEFINE b20 == b19 \o p[20]
  <2>9. Glued(f[20], a, b20) /\ b20 \in Seq(CallSet)
    BY <1>s20, Regroup, <2>1, <2>8, Zenon
  <2> HIDE DEF b20
  <2>10. WriteCalls(o) = b20
    BY <1>2, Zenon DEF b13, b14, b15, b16, b17, b18, b19, b20
  <2> QED BY <2>9, <2>10, Zenon DEF a, Glued
<1>10. f[24] = (ReserveCalls(o) \o WriteCalls(o)) \o HeaderCalls(o)
  <2> DEFINE a == ReserveCalls(o) \o WriteCalls(o)
  <2>1. a \in Seq(CallSet) /\ p[21] \in Seq(CallSet) /\ Glued(f[21], a, p[21])
    <3>1. 20 \in 1..24
      OBVIOUS
    <3> QED BY <1>4, <1>s21, <1>9, <3>1, Zenon
  <2> HIDE DEF a
  <2> DEFINE b22 == p[21] \o p[22]
  <2>2. Glued(f[22], a, b22) /\ b22 \in Seq(CallSet)
    BY <1>s22, Regroup, <2>1, Zenon
  <2> HIDE DEF b22
  <2> DEFINE b23 == b22 \o p[23]
  <2>3. Glued(f[23], a, b23) /\ b23 \in Seq(CallSet)
    BY <1>s23, Regroup, <2>1, <2>2, Zenon
  <2> HIDE DEF b23
  <2> DEFINE b24 == b23 \o p[24]
  <2>4. Glued(f[24], a, b24) /\ b24 \in Seq(CallSet)
    BY <1>s24, Regroup, <2>1, <2>3, Zenon
  <2> HIDE DEF b24
  <2>5. HeaderCalls(o) = b24
    BY <1>2, Zenon DEF b22, b23, b24
  <2> QED BY <2>4, <2>5, Zenon DEF a, Glued
<1> QED BY <1>4, <1>10, Zenon DEF Calls, p

LEMMA CallsType ==
    ASSUME NEW o, Valid(o) PROVE Calls(o) \in Seq(Legal(o)) /\ Calls(o) \in Seq(CallSet)
<1> DEFINE S == Legal(o)
           V == Seq(S)
<1>1. \A n \in 1..24 : Parts(o)[n] \in V
  <2> SUFFICES ASSUME NEW n \in 1..24 PROVE Parts(o)[n] \in Seq(S)
    OBVIOUS
  <2>1. Parts(o)[n] \in Seq(PartCalls(o, n)) /\ PartCalls(o, n) \subseteq S
    BY PartsLegal DEF PartCalls
  <2> HIDE DEF S
  <2> QED BY <2>1
<1>2. Parts(o) = [n \in 1..24 |-> Parts(o)[n]]
  BY DEF Parts
<1>3. Parts(o) \in Seq(Seq(S))
  <2> HIDE DEF V
  <2>1. Parts(o) \in Seq(V)
    BY <1>1, <1>2
  <2> QED BY <2>1 DEF V
<1>4. Calls(o) \in Seq(S)
  <2> HIDE DEF S
  <2> QED BY <1>3, CallsFlatten, FlattenType
<1>5. S \subseteq CallSet
  BY DEF Legal
<1> HIDE DEF S
<1>6. Calls(o) \in Seq(CallSet)
  BY <1>4, <1>5
<1> QED BY <1>4, <1>6 DEF S

(* The calls come part by part.                                            *)
Sorted(o, t) ==
    \A a, b \in 1..Len(t) : a < b => PartOf(o, t[a]) <= PartOf(o, t[b])

LEMMA PartOfType == ASSUME NEW o, NEW c PROVE PartOf(o, c) \in 1..24
BY DEF PartOf

LEMMA CallsSorted ==
    ASSUME NEW o, Valid(o) PROVE Sorted(o, Calls(o))
<1> DEFINE p == Parts(o)
           Upto(t, n) == /\ t \in Seq(CallSet) /\ Sorted(o, t)
                         /\ \A a \in 1..Len(t) : PartOf(o, t[a]) <= n
<1>1. /\ p \in Seq(Seq(CallSet)) /\ Len(p) = 24
      /\ \A n \in 1..24 : p[n] \in Seq(CallSet)
  BY PartsType, PartsShape
<1>2. ASSUME NEW n \in 1..24, NEW a \in 1..Len(p[n]) PROVE PartOf(o, p[n][a]) = n
  <2>1. p[n] \in Seq(PartCalls(o, n))
    BY PartsLegal
  <2>2. p[n][a] \in PartCalls(o, n)
    BY <2>1
  <2> QED BY <2>2 DEF PartCalls
<1> HIDE DEF p
<1>3. PICK f : FlatSteps(f, p, CallSet)
  BY <1>1, FlattenSteps
<1>4. /\ f[1] = p[1] /\ FlattenSeq(p) = f[24]
      /\ \A n \in 2..24 : f[n] = f[n - 1] \o p[n]
  <2> DEFINE N == Len(p)
  <2>1. /\ N # 0 => f[1] = p[1]
        /\ \A i \in 2..N : f[i] = f[i - 1] \o p[i]
        /\ FlattenSeq(p) = IF N = 0 THEN <<>> ELSE f[N]
    BY <1>3, Zenon DEF FlatSteps
  <2>2. N = 24
    BY <1>1
  <2> HIDE DEF N
  <2>3. FlattenSeq(p) = f[24] /\ f[1] = p[1]
    BY <2>1, <2>2
  <2>4. \A n \in 2..24 : f[n] = f[n - 1] \o p[n]
    BY <2>1, <2>2, Zenon
  <2> QED BY <2>3, <2>4
<1>5. Upto(f[1], 1)
  <2> DEFINE t == p[1]
  <2>1. t \in Seq(CallSet) /\ \A a \in 1..Len(t) : PartOf(o, t[a]) = 1
    <3>1. 1 \in 1..24
      OBVIOUS
    <3> QED BY <1>1, <1>2, <3>1, Zenon
  <2> HIDE DEF t
  <2>2. Upto(t, 1)
    BY <2>1 DEF Sorted
  <2> QED BY <1>4, <2>2 DEF t
<1>6. ASSUME NEW n \in 2..24, Upto(f[n - 1], n - 1) PROVE Upto(f[n], n)
  <2> DEFINE s == f[n - 1]
             t == p[n]
             u == s \o t
  <2>1. f[n] = u /\ t \in Seq(CallSet) /\ \A a \in 1..Len(t) : PartOf(o, t[a]) = n
    <3>1. n \in 1..24
      OBVIOUS
    <3> QED BY <1>1, <1>2, <1>4, <3>1, Zenon
  <2>2. s \in Seq(CallSet) /\ Sorted(o, s) /\ n \in Nat
        /\ \A a \in 1..Len(s) : PartOf(o, s[a]) <= n - 1 /\ PartOf(o, s[a]) \in Nat
    <3>1. s \in Seq(CallSet) /\ Sorted(o, s)
      BY <1>6
    <3>2. n \in Nat
      OBVIOUS
    <3>3. \A a \in 1..Len(s) : PartOf(o, s[a]) <= n - 1
      BY <1>6, Zenon
    <3>4. \A a \in 1..Len(s) : PartOf(o, s[a]) \in Nat
      <4>1. ASSUME NEW c PROVE PartOf(o, c) \in Nat
        <5>1. PartOf(o, c) \in 1..24
          BY PartOfType
        <5> HIDE DEF s
        <5> QED BY <5>1
      <4> QED BY <4>1, Zenon
    <3> HIDE DEF s
    <3> QED BY <3>1, <3>2, <3>3, <3>4
  <2> HIDE DEF s, t
  <2>3. /\ u \in Seq(CallSet) /\ Len(u) = Len(s) + Len(t)
        /\ Len(s) \in Nat /\ Len(t) \in Nat
        /\ \A a \in 1..Len(s) : u[a] = s[a]
        /\ \A a \in (Len(s) + 1)..Len(u) : u[a] = t[a - Len(s)] /\ a - Len(s) \in 1..Len(t)
    BY <2>1, <2>2
  <2> HIDE DEF u
  <2>4. ASSUME NEW a \in 1..Len(u)
        PROVE  a \in 1..Len(s) \/ (a \in (Len(s) + 1)..Len(u) /\ PartOf(o, u[a]) = n)
    BY <2>1, <2>3
  <2>5. \A a \in 1..Len(u) : PartOf(o, u[a]) <= n
    <3> SUFFICES ASSUME NEW a \in 1..Len(u) PROVE PartOf(o, u[a]) <= n
      OBVIOUS
    <3>1. CASE a \in 1..Len(s)
      BY <2>2, <2>3, <3>1
    <3> QED BY <2>2, <2>4, <3>1
  <2>6. ASSUME NEW a \in 1..Len(u), NEW b \in 1..Len(u), a < b
        PROVE  PartOf(o, u[a]) <= PartOf(o, u[b])
    <3>1. CASE b \in 1..Len(s)
      <4>1. a \in 1..Len(s)
        BY <2>3, <2>6, <3>1
      <4> QED BY <2>2, <2>3, <2>6, <3>1, <4>1 DEF Sorted
    <3>2. CASE PartOf(o, u[b]) = n
      BY <2>5, <3>2
    <3> QED BY <2>4, <3>1, <3>2
  <2> QED BY <2>1, <2>3, <2>5, <2>6 DEF Sorted
<1> HIDE DEF Upto
<1>7. Upto(f[24], 24)
  <2> DEFINE R == {m \in Nat : m + 1 <= 24 => Upto(f[m + 1], m + 1)}
  <2>1. 0 \in R
    BY <1>5
  <2>2. ASSUME NEW m \in Nat, m \in R PROVE m + 1 \in R
    <3>1. ASSUME (m + 1) + 1 <= 24 PROVE Upto(f[(m + 1) + 1], (m + 1) + 1)
      <4>1. (m + 1) + 1 \in 2..24 /\ ((m + 1) + 1) - 1 = m + 1 /\ m + 1 <= 24
        BY <3>1
      <4>2. Upto(f[m + 1], m + 1)
        BY <2>2, <4>1
      <4> QED BY <1>6, <4>1, <4>2
    <3> QED BY <3>1
  <2>3. 23 \in R
    <3>1. 23 \in Nat
      OBVIOUS
    <3> HIDE DEF R
    <3> QED BY <2>1, <2>2, <3>1, SetInduction
  <2> QED BY <2>3
<1> QED BY <1>4, <1>7, CallsFlatten DEF Upto, p

-------------------------------------------------------------------------------
(* What the client still has to do, and what it has done                   *)

(* What is left of the sequence a when n of its elements are done.         *)
Suffix(s, a, n) ==
    n \in Nat /\ Len(a) = n + Len(s) /\ \A k \in 1..Len(s) : s[k] = a[n + k]

(* The calls t are to do what F has of the sequence a, n of it is done.    *)
Left(F, a, t, n) == Suffix(Pick(F, t), a, n)

Sel(f) == [c \in CallSet |-> IF c.call = f THEN <<c.i>> ELSE <<>>]

SelK(f, i) == [c \in CallSet |-> IF c.call = f /\ c.i = i THEN <<c.k>> ELSE <<>>]

(* The sections that the calls reserve an index for, and those that they   *)
(* write the header of; x is 1 if there are extended section indices.      *)
Indexed(x) == [c \in CallSet |->
    CASE c.call = "comdat_index"   -> <<<<"comdat", c.i>>>>
      [] c.call = "section_index"  -> <<<<"data", c.i>>>>
      [] c.call = "reloc_index"    -> <<<<"reloc", c.i>>>>
      [] c.call = "symtab_index"   -> <<<<"symtab", 0>>>>
      [] c.call = "symtab_shndx_index" /\ x = 1 -> <<<<"symtab_shndx", 0>>>>
      [] c.call = "strtab_index"   -> <<<<"strtab", 0>>>>
      [] c.call = "shstrtab_index" -> <<<<"shstrtab", 0>>>>
      [] OTHER                     -> <<>>]

Headed(x) == [c \in CallSet |->
    CASE c.call = "write_comdat_header"  -> <<<<"comdat", c.i>>>>
      [] c.call = "write_section_header" -> <<<<"data", c.i>>>>
      [] c.call = "write_reloc_header"   -> <<<<"reloc", c.i>>>>
      [] c.call = "write_symtab_header"  -> <<<<"symtab", 0>>>>
      [] c.call = "write_symtab_shndx_header" /\ x = 1 -> <<<<"symtab_shndx", 0>>>>
      [] c.call = "write_strtab_header"   -> <<<<"strtab", 0>>>>
      [] c.call = "write_shstrtab_header" -> <<<<"shstrtab", 0>>>>
      [] OTHER                            -> <<>>]

To(n) == [k \in 1..n |-> k]

(* The order of the symbols in .symtab, and that of the sections.          *)
Table(o) ==
    LET B == {y \in 1..Len(o.symbols) : Local(o, y)}
        C == {y \in 1..Len(o.symbols) : ~Local(o, y)}
    IN  Chosen(B, Len(o.symbols)) \o Chosen(C, Len(o.symbols))

GroupItems(o) == [i \in 1..Len(o.comdats) |-> <<"comdat", i>>]

SectionItems(o) == FlattenSeq([i \in 1..Len(o.sections) |->
    <<<<"data", i>>>> \o (IF o.sections[i].relocs = <<>> THEN <<>>
                          ELSE <<<<"reloc", i>>>>)])

TableItems(x) ==
    (<<<<"symtab", 0>>>> \o (IF x = 1 THEN <<<<"symtab_shndx", 0>>>> ELSE <<>>))
    \o <<<<"strtab", 0>>, <<"shstrtab", 0>>>>

Directory(o, x) == (GroupItems(o) \o SectionItems(o)) \o TableItems(x)

(* The ranges of the client's own sections are reserved right after their  *)
(* indices.                                                                *)
Chained(t) == \A k \in 2..Len(t) :
    /\ t[k].call = "comdat" => t[k - 1].call = "comdat_index" /\ t[k - 1].i = t[k].i
    /\ t[k].call = "data" => t[k - 1].call = "section_index" /\ t[k - 1].i = t[k].i

-------------------------------------------------------------------------------
(* One call after the other                                                *)

LEMMA SelType ==
    ASSUME NEW f
    PROVE  /\ Sel(f) \in Picks
           /\ \A c \in CallSet : Sel(f)[c] = IF c.call = f THEN <<c.i>> ELSE <<>>
<1>1. \A c \in CallSet : c.i \in Items
  BY DEF CallSet, Items
<1> QED BY <1>1 DEF Sel, Picks

LEMMA SelKType ==
    ASSUME NEW f, NEW i
    PROVE  /\ SelK(f, i) \in Picks
           /\ \A c \in CallSet :
                  SelK(f, i)[c] = IF c.call = f /\ c.i = i THEN <<c.k>> ELSE <<>>
<1>1. \A c \in CallSet : c.k \in Items
  BY DEF CallSet, Items
<1> QED BY <1>1 DEF SelK, Picks

LEMMA ItemsType ==
    ASSUME NEW i \in Nat,
           NEW k \in {"comdat", "data", "reloc", "symtab", "symtab_shndx", "strtab",
                      "shstrtab"}
    PROVE  <<<<k, i>>>> \in Seq(Items)
<1>1. <<k, i>> \in Items
  BY DEF Items
<1> QED BY <1>1

LEMMA IndexedType ==
    ASSUME NEW x PROVE Indexed(x) \in Picks
<1> SUFFICES ASSUME NEW c \in CallSet PROVE Indexed(x)[c] \in Seq(Items)
  BY DEF Indexed, Picks
<1>1. c.i \in Nat /\ 0 \in Nat
  BY DEF CallSet
<1>2. /\ <<<<"comdat", c.i>>>> \in Seq(Items) /\ <<<<"data", c.i>>>> \in Seq(Items)
      /\ <<<<"reloc", c.i>>>> \in Seq(Items)
  BY <1>1, ItemsType
<1>3. \A k \in {"symtab", "symtab_shndx", "strtab", "shstrtab"} :
          <<<<k, 0>>>> \in Seq(Items)
  BY <1>1, ItemsType
<1>4. <<>> \in Seq(Items)
  OBVIOUS
<1> QED BY <1>2, <1>3, <1>4 DEF Indexed

LEMMA HeadedType ==
    ASSUME NEW x PROVE Headed(x) \in Picks
<1> SUFFICES ASSUME NEW c \in CallSet PROVE Headed(x)[c] \in Seq(Items)
  BY DEF Headed, Picks
<1>1. c.i \in Nat /\ 0 \in Nat
  BY DEF CallSet
<1>2. /\ <<<<"comdat", c.i>>>> \in Seq(Items) /\ <<<<"data", c.i>>>> \in Seq(Items)
      /\ <<<<"reloc", c.i>>>> \in Seq(Items)
  BY <1>1, ItemsType
<1>3. \A k \in {"symtab", "symtab_shndx", "strtab", "shstrtab"} :
          <<<<k, 0>>>> \in Seq(Items)
  BY <1>1, ItemsType
<1>4. <<>> \in Seq(Items)
  OBVIOUS
<1> QED BY <1>2, <1>3, <1>4 DEF Headed

LEMMA PickOne ==
    ASSUME NEW F \in Picks, NEW c \in CallSet PROVE Pick(F, <<c>>) = F[c]
<1>1. F[c] \in Seq(Items)
  BY DEF Picks
<1>2. Append(<<>>, c) = <<c>> /\ <<>> \in Seq(CallSet)
  OBVIOUS
<1>3. Pick(F, Append(<<>>, c)) = Pick(F, <<>>) \o F[c]
  BY <1>2, PickAppend
<1>4. Pick(F, <<>>) = <<>>
  BY PickEmpty
<1>5. <<>> \o F[c] = F[c]
  BY <1>1
<1> QED BY <1>2, <1>3, <1>4, <1>5, Zenon

LEMMA PickIn ==
    ASSUME NEW F \in Picks, NEW t \in Seq(CallSet), NEW B,
           \A k \in 1..Len(t) : F[t[k]] \in Seq(B)
    PROVE  Pick(F, t) \in Seq(B)
<1> DEFINE e == [k \in DOMAIN t |-> F[t[k]]]
           Q == Seq(B)
<1>1. e \in Seq(Seq(Items))
  BY PickedType
<1>2. \A k \in DOMAIN e : e[k] \in Q
  OBVIOUS
<1>3. <<>> \in Q
  OBVIOUS
<1>4. \A s, u \in Q : s \o u \in Q
  OBVIOUS
<1> HIDE DEF e, Q
<1>5. FlattenSeq(e) \in Q
  BY <1>1, <1>2, <1>3, <1>4, FlattenIn
<1> QED BY <1>5 DEF e, Q, Pick

LEMMA PickIdle ==
    ASSUME NEW F \in Picks, NEW t \in Seq(CallSet),
           \A k \in 1..Len(t) : F[t[k]] = <<>>
    PROVE  Pick(F, t) = <<>>
<1>1. Pick(F, t) \in Seq({})
  <2>1. \A k \in 1..Len(t) : F[t[k]] \in Seq({})
    <3>1. <<>> \in Seq({})
      OBVIOUS
    <3> QED BY <3>1, Zenon
  <2> QED BY <2>1, PickIn
<1>2. DOMAIN Pick(F, t) = {}
  <2> DEFINE s == Pick(F, t)
  <2> HIDE DEF s
  <2>1. s \in Seq({})
    BY <1>1 DEF s
  <2>2. \A k \in 1..Len(s) : s[k] \in {}
    BY <2>1
  <2>3. DOMAIN s = {}
    BY <2>1, <2>2
  <2> QED BY <2>3 DEF s
<1> QED BY <1>1, <1>2, NoElements

LEMMA PickHead ==
    ASSUME NEW F \in Picks, NEW t \in Seq(CallSet), t # <<>>
    PROVE  Pick(F, t) = F[Head(t)] \o Pick(F, Tail(t))
<1>1. Head(t) \in CallSet /\ Tail(t) \in Seq(CallSet) /\ <<Head(t)>> \in Seq(CallSet)
  OBVIOUS
<1>2. t = <<Head(t)>> \o Tail(t)
  <2> DEFINE s == <<Head(t)>> \o Tail(t)
  <2>1. s \in Seq(CallSet) /\ Len(s) = Len(t) /\ \A k \in 1..Len(t) : s[k] = t[k]
    OBVIOUS
  <2> HIDE DEF s
  <2>2. s = t
    BY <2>1, SeqEqual
  <2> QED BY <2>2 DEF s
<1>3. Pick(F, <<Head(t)>> \o Tail(t)) = Pick(F, <<Head(t)>>) \o Pick(F, Tail(t))
  BY <1>1, PickConcat
<1>4. Pick(F, <<Head(t)>>) = F[Head(t)]
  BY <1>1, PickOne
<1> QED BY <1>2, <1>3, <1>4, Zenon

(* A call that F has nothing for leaves the rest as it is ...              *)
LEMMA LeftSkip ==
    ASSUME NEW F \in Picks, NEW t \in Seq(CallSet), t # <<>>, F[Head(t)] = <<>>,
           NEW a, NEW n, Left(F, a, t, n)
    PROVE  Pick(F, Tail(t)) = Pick(F, t) /\ Left(F, a, Tail(t), n)
<1>1. Tail(t) \in Seq(CallSet)
  OBVIOUS
<1>2. Pick(F, Tail(t)) \in Seq(Items)
  BY <1>1, PickType
<1>3. Pick(F, t) = <<>> \o Pick(F, Tail(t))
  BY PickHead
<1>4. Pick(F, t) = Pick(F, Tail(t))
  BY <1>2, <1>3
<1> QED BY <1>4 DEF Left

(* ... and one that it has an element for does the next.                   *)
LEMMA LeftStep ==
    ASSUME NEW F \in Picks, NEW t \in Seq(CallSet), t # <<>>, NEW y, F[Head(t)] = <<y>>,
           NEW a, NEW n, Left(F, a, t, n)
    PROVE  /\ Left(F, a, Tail(t), n + 1)
           /\ n + 1 \in 1..Len(a) /\ a[n + 1] = y
           /\ Len(Pick(F, t)) = 1 + Len(Pick(F, Tail(t)))
<1> DEFINE s == Pick(F, t)
           u == Pick(F, Tail(t))
<1>1. Tail(t) \in Seq(CallSet) /\ Head(t) \in CallSet
  OBVIOUS
<1>2. u \in Seq(Items) /\ F[Head(t)] \in Seq(Items)
  BY <1>1, PickType DEF Picks
<1>3. s = <<y>> \o u
  BY PickHead
<1> HIDE DEF s, u
<1>4. y \in Items
  <2>1. <<y>> \in Seq(Items)
    BY <1>2
  <2> QED BY <2>1
<1>5. Len(s) = 1 + Len(u) /\ s[1] = y /\ (\A k \in 1..Len(u) : s[k + 1] = u[k])
      /\ Len(u) \in Nat
  BY <1>2, <1>3, <1>4
<1>6. n \in Nat /\ Len(a) = n + Len(s) /\ \A k \in 1..Len(s) : s[k] = a[n + k]
  BY DEF Left, Suffix, s
<1>7. Len(a) = (n + 1) + Len(u) /\ n + 1 \in 1..Len(a)
  BY <1>5, <1>6
<1>8. a[n + 1] = y
  BY <1>5, <1>6
<1>9. ASSUME NEW k \in 1..Len(u) PROVE u[k] = a[(n + 1) + k]
  <2>1. k + 1 \in 1..Len(s) /\ n + (k + 1) = (n + 1) + k
    BY <1>5, <1>6
  <2>2. s[k + 1] = a[n + (k + 1)]
    BY <1>6, <2>1, Zenon
  <2>3. u[k] = s[k + 1]
    BY <1>5
  <2>4. n \in Int /\ k \in Int
    BY <1>6
  <2> QED BY <2>2, <2>3, <2>4
<1>10. Suffix(u, a, n + 1)
  <2>1. n + 1 \in Nat
    BY <1>6
  <2>2. \A k \in 1..Len(u) : u[k] = a[(n + 1) + k]
    BY <1>9
  <2> QED BY <1>7, <2>1, <2>2, Zenon DEF Suffix
<1>11. Left(F, a, Tail(t), n + 1)
  BY <1>10 DEF Left, u
<1> QED BY <1>5, <1>7, <1>8, <1>11 DEF s, u

(* When F has nothing for the calls that are left, all of it is done.      *)
LEMMA LeftEnd ==
    ASSUME NEW F \in Picks, NEW t \in Seq(CallSet),
           \A k \in 1..Len(t) : F[t[k]] = <<>>,
           NEW a, NEW n, Left(F, a, t, n)
    PROVE  n = Len(a)
<1>1. Pick(F, t) = <<>>
  BY PickIdle
<1> QED BY <1>1 DEF Left, Suffix

-------------------------------------------------------------------------------
(* What is picked of all the calls for an object                           *)

Picked(F, o) == [n \in 1..24 |-> Pick(F, Parts(o)[n])]

LEMMA PickedParts ==
    ASSUME NEW F \in Picks, NEW o, Valid(o)
    PROVE  /\ Picked(F, o) \in Seq(Seq(Items)) /\ Len(Picked(F, o)) = 24
           /\ Pick(F, Calls(o)) = FlattenSeq(Picked(F, o))
<1> DEFINE E == Seq(Items)
<1>1. ASSUME NEW n \in 1..24 PROVE Pick(F, Parts(o)[n]) \in E
  <2>1. Parts(o)[n] \in Seq(CallSet)
    BY PartsType
  <2> QED BY <2>1, PickType
<1> HIDE DEF E
<1>2. Picked(F, o) \in Seq(E) /\ Len(Picked(F, o)) = 24
  BY <1>1 DEF Picked
<1>3. Parts(o) \in Seq(Seq(CallSet)) /\ DOMAIN Parts(o) = 1..24
  BY PartsType, PartsShape
<1>4. Pick(F, FlattenSeq(Parts(o))) = FlattenSeq([n \in DOMAIN Parts(o) |-> Pick(F, Parts(o)[n])])
  BY <1>3, PickFlatten
<1>5. Pick(F, Calls(o)) = FlattenSeq(Picked(F, o))
  BY <1>3, <1>4, CallsFlatten DEF Picked
<1> QED BY <1>2, <1>5 DEF E

(* The part n has nothing for F.                                           *)
Idle(F, o, n) == \A c \in Legal(o) : PartOf(o, c) = n => F[c] = <<>>

LEMMA IdlePart ==
    ASSUME NEW F \in Picks, NEW o, Valid(o), NEW n \in 1..24, Idle(F, o, n)
    PROVE  Picked(F, o)[n] = <<>>
<1> DEFINE t == Parts(o)[n]
<1>1. t \in Seq(CallSet) /\ t \in Seq(PartCalls(o, n))
  BY PartsType, PartsLegal
<1> HIDE DEF t
<1>2. \A k \in 1..Len(t) : F[t[k]] = <<>>
  <2> SUFFICES ASSUME NEW k \in 1..Len(t) PROVE F[t[k]] = <<>>
    OBVIOUS
  <2>1. t[k] \in PartCalls(o, n)
    BY <1>1
  <2> QED BY <2>1 DEF PartCalls, Idle
<1>3. Pick(F, t) = <<>>
  BY <1>1, <1>2, PickIdle
<1> QED BY <1>3 DEF Picked, t

LEMMA OnePart ==
    ASSUME NEW F \in Picks, NEW o, Valid(o), NEW n \in 1..24,
           \A k \in 1..24 : k # n => Idle(F, o, k)
    PROVE  Pick(F, Calls(o)) = Pick(F, Parts(o)[n])
<1> DEFINE ss == Picked(F, o)
<1>1. ss \in Seq(Seq(Items)) /\ Len(ss) = 24 /\ Pick(F, Calls(o)) = FlattenSeq(ss)
  BY PickedParts
<1>2. \A k \in 1..24 : k # n => ss[k] = <<>>
  BY IdlePart
<1>3. ss[n] = Pick(F, Parts(o)[n])
  BY DEF Picked
<1> HIDE DEF ss
<1>4. FlattenSeq(ss) = ss[n]
  BY <1>1, <1>2, FlattenOnly, SMTT(30), ZenonT(30)
<1> QED BY <1>1, <1>3, <1>4

LEMMA FirstPart ==
    ASSUME NEW ss \in Seq(Seq(Items)), NEW f, FlatSteps(f, ss, Items),
           NEW m \in 2..Len(ss), Blank(ss, 1, m - 1)
    PROVE  f[m] = ss[m]
<1> DEFINE E == Seq(Items)
<1>1. ss \in Seq(E) /\ Len(ss) \in Nat
  OBVIOUS
<1> HIDE DEF E
<1>2. 1 \in 1..Len(ss) /\ m - 1 \in 1..Len(ss) /\ m \in 1..Len(ss) /\ Len(ss) # 0
      /\ m - 1 \in 1..(m - 1) /\ 1 \in 1..(m - 1)
  BY <1>1
<1>3. f[1] = ss[1] /\ f[m] = f[m - 1] \o ss[m]
  BY <1>2 DEF FlatSteps
<1>4. f[m - 1] = f[1]
  <2>1. Blank(ss, 1 + 1, m - 1) /\ m - 1 \in 1..Len(ss)
    BY <1>1, <1>2 DEF Blank
  <2> DEFINE b == 1
             j == m - 1
  <2>2. b \in 1..Len(ss) /\ j \in b..Len(ss) /\ Blank(ss, b + 1, j)
    BY <1>2, <2>1
  <2> HIDE DEF b, j
  <2>3. f[j] = f[b]
    BY <2>2, FlattenJump
  <2> QED BY <2>3 DEF b, j
<1>5. ss[1] = <<>> /\ ss[m] \in E
  BY <1>1, <1>2 DEF Blank
<1>6. ss[m] \in Seq(Items)
  BY <1>5 DEF E
<1>7. <<>> \o ss[m] = ss[m]
  BY <1>6
<1> QED BY <1>3, <1>4, <1>5, <1>7, Zenon

LEMMA NextPart ==
    ASSUME NEW ss \in Seq(Seq(Items)), NEW f, FlatSteps(f, ss, Items),
           NEW i \in 1..Len(ss), NEW m \in (i + 1)..Len(ss),
           Blank(ss, i + 1, m - 1)
    PROVE  f[m] = f[i] \o ss[m]
<1> DEFINE E == Seq(Items)
<1>1. ss \in Seq(E) /\ Len(ss) \in Nat
  OBVIOUS
<1> HIDE DEF E
<1>2. m - 1 \in i..Len(ss) /\ m \in 2..Len(ss)
  BY <1>1
<1>3. f[m] = f[m - 1] \o ss[m]
  BY <1>2 DEF FlatSteps
<1>4. f[m - 1] = f[i]
  BY <1>2, FlattenJump, SMTT(30), ZenonT(30)
<1> QED BY <1>3, <1>4, Zenon

LEMMA LastPart ==
    ASSUME NEW ss \in Seq(Seq(Items)), NEW f, FlatSteps(f, ss, Items),
           NEW i \in 1..Len(ss), Blank(ss, i + 1, Len(ss))
    PROVE  FlattenSeq(ss) = f[i]
<1>1. Len(ss) \in i..Len(ss) /\ Len(ss) # 0
  OBVIOUS
<1>2. f[Len(ss)] = f[i]
  BY <1>1, FlattenJump
<1>3. FlattenSeq(ss) = f[Len(ss)]
  BY <1>1 DEF FlatSteps
<1> QED BY <1>2, <1>3, Zenon

LEMMA TwoParts ==
    ASSUME NEW F \in Picks, NEW o, Valid(o), NEW n \in 2..24, NEW m \in (n + 1)..24,
           \A k \in 1..24 : k # n /\ k # m => Idle(F, o, k)
    PROVE  Pick(F, Calls(o)) = Pick(F, Parts(o)[n]) \o Pick(F, Parts(o)[m])
<1> DEFINE ss == Picked(F, o)
<1>1. ss \in Seq(Seq(Items)) /\ Len(ss) = 24 /\ Pick(F, Calls(o)) = FlattenSeq(ss)
  BY PickedParts
<1>2. \A k \in 1..24 : k # n /\ k # m => ss[k] = <<>>
  BY IdlePart
<1>3. n \in 1..24 /\ m \in 1..24 /\ m \in Int /\ n \in Int
  OBVIOUS
<1>4. ss[n] = Pick(F, Parts(o)[n]) /\ ss[m] = Pick(F, Parts(o)[m])
  BY <1>3 DEF Picked
<1> HIDE DEF ss
<1>5. PICK f : FlatSteps(f, ss, Items)
  BY <1>1, FlattenSteps
<1>6. f[n] = ss[n]
  <2>1. n \in 2..Len(ss) /\ Blank(ss, 1, n - 1)
    <3>1. ASSUME NEW k \in 1..(n - 1) PROVE ss[k] = <<>>
      <4>1. k \in 1..24 /\ k # n /\ k # m
        BY <1>3
      <4> QED BY <1>2, <4>1, Zenon
    <3> QED BY <1>1, <1>3, <3>1 DEF Blank
  <2> QED BY <1>1, <1>5, <2>1, FirstPart, SMTT(30), ZenonT(30)
<1>7. f[m] = f[n] \o ss[m]
  <2>1. n \in 1..Len(ss) /\ m \in (n + 1)..Len(ss)
        /\ Blank(ss, n + 1, m - 1)
    <3>1. ASSUME NEW k \in (n + 1)..(m - 1) PROVE ss[k] = <<>>
      <4>1. k \in 1..24 /\ k # n /\ k # m
        BY <1>3
      <4> QED BY <1>2, <4>1, Zenon
    <3> QED BY <1>1, <1>3, <3>1 DEF Blank
  <2> QED BY <1>1, <1>5, <2>1, NextPart
<1>8. FlattenSeq(ss) = f[m]
  <2>1. m \in 1..Len(ss) /\ Blank(ss, m + 1, Len(ss))
    <3>1. ASSUME NEW k \in (m + 1)..24 PROVE ss[k] = <<>>
      <4>1. k \in 1..24 /\ k # n /\ k # m
        BY <1>3
      <4> QED BY <1>2, <4>1, Zenon
    <3> QED BY <1>1, <1>3, <3>1 DEF Blank
  <2> QED BY <1>1, <1>5, <2>1, LastPart, SMTT(30), ZenonT(30)
<1> QED BY <1>1, <1>4, <1>6, <1>7, <1>8, Zenon

LEMMA PickEach ==
    ASSUME NEW F \in Picks, NEW n \in Nat, NEW e, NEW r,
           e = [i \in 1..n |-> e[i]], r = [i \in 1..n |-> r[i]],
           \A i \in 1..n : e[i] \in Seq(CallSet) /\ Pick(F, e[i]) = r[i]
    PROVE  Pick(F, FlattenSeq(e)) = FlattenSeq(r)
<1>1. e \in Seq(Seq(CallSet))
  BY Elements
<1>2. DOMAIN e = 1..n
  OBVIOUS
<1>3. Pick(F, FlattenSeq(e)) = FlattenSeq([i \in DOMAIN e |-> Pick(F, e[i])])
  BY <1>1, PickFlatten
<1>4. [i \in DOMAIN e |-> Pick(F, e[i])] = r
  BY <1>2
<1> QED BY <1>3, <1>4

LEMMA ToType ==
    ASSUME NEW n \in Nat
    PROVE  /\ To(n) \in Seq(Nat) /\ Len(To(n)) = n /\ \A k \in 1..n : To(n)[k] = k
           /\ FlattenSeq([i \in 1..n |-> <<i>>]) = To(n)
<1>1. To(n) \in Seq(Nat) /\ Len(To(n)) = n /\ \A k \in 1..n : To(n)[k] = k
  BY DEF To
<1>2. FlattenSeq([k \in DOMAIN To(n) |-> <<To(n)[k]>>]) = To(n)
  BY <1>1, FlattenSingles
<1>3. [k \in DOMAIN To(n) |-> <<To(n)[k]>>] = [i \in 1..n |-> <<i>>]
  BY DEF To
<1> QED BY <1>1, <1>2, <1>3

LEMMA PickPair ==
    ASSUME NEW F \in Picks, NEW c \in CallSet, NEW d \in CallSet
    PROVE  Pick(F, <<c, d>>) = F[c] \o F[d]
<1>1. <<c>> \in Seq(CallSet)
  OBVIOUS
<1>4. Append(<<c>>, d) = <<c, d>>
  <2> DEFINE a == Append(<<c>>, d)
             b == <<c, d>>
  <2>1. a \in Seq(CallSet) /\ b \in Seq(CallSet) /\ Len(a) = 2 /\ Len(b) = 2
        /\ a[1] = b[1] /\ a[2] = b[2]
    OBVIOUS
  <2> HIDE DEF a, b
  <2>2. \A k \in 1..Len(a) : a[k] = b[k]
    BY <2>1
  <2>3. a = b
    BY <2>1, <2>2, SeqEqual
  <2> QED BY <2>3 DEF a, b
<1>2. Pick(F, Append(<<c>>, d)) = Pick(F, <<c>>) \o F[d]
  BY <1>1, PickAppend
<1>3. Pick(F, <<c>>) = F[c]
  BY PickOne
<1> QED BY <1>2, <1>3, <1>4, Zenon

LEMMA PickOnce ==
    ASSUME NEW F \in Picks, NEW fs \in Seq(CallNames), NEW f \in CallNames
    PROVE  Pick(F, Once(Append(fs, f))) = Pick(F, Once(fs)) \o F[Call(f, 0, 0)]
<1>1. \A g \in CallNames : Call(g, 0, 0) \in CallSet
  BY CallFields
<1>2. Once(fs) \in Seq(CallSet)
  BY <1>1, OnceType
<1>3. Once(Append(fs, f)) = Append(Once(fs), Call(f, 0, 0))
  <2> DEFINE a == Once(Append(fs, f))
             b == Append(Once(fs), Call(f, 0, 0))
  <2>1. a \in Seq(CallSet)
    <3> DEFINE gs == Append(fs, f)
    <3>1. gs \in Seq(CallNames)
      OBVIOUS
    <3> HIDE DEF gs
    <3>2. \A n \in 1..Len(gs) : Call(gs[n], 0, 0) \in CallSet
      BY <1>1, <3>1
    <3>3. Once(gs) \in Seq(CallSet)
      BY <3>1, <3>2, OnceType
    <3> QED BY <3>3 DEF gs
  <2>2. b \in Seq(CallSet)
    BY <1>1, <1>2
  <2>3. Len(a) = Len(fs) + 1 /\ Len(b) = Len(fs) + 1 /\ Len(fs) \in Nat
    BY <1>2 DEF Once
  <2>4. \A k \in 1..Len(a) : a[k] = b[k]
    BY <1>2, <2>3 DEF Once
  <2> HIDE DEF a, b
  <2>5. a = b
    BY <2>1, <2>2, <2>3, <2>4, SeqEqual
  <2> QED BY <2>5 DEF a, b
<1> QED BY <1>1, <1>2, <1>3, PickAppend

LEMMA OnceOne ==
    ASSUME NEW F \in Picks, NEW f \in CallNames
    PROVE  Pick(F, Once(<<f>>)) = F[Call(f, 0, 0)]
<1>1. Call(f, 0, 0) \in CallSet
  BY CallFields
<1>2. Once(<<f>>) = <<Call(f, 0, 0)>>
  BY DEF Once
<1> QED BY <1>1, <1>2, PickOne

(* What is picked of a call.                                               *)
LEMMA SelCall ==
    ASSUME NEW f, NEW g \in CallNames, NEW i \in Nat, NEW k \in Nat
    PROVE  /\ Call(g, i, k) \in CallSet
           /\ g = f => Sel(f)[Call(g, i, k)] = <<i>>
           /\ g # f => Sel(f)[Call(g, i, k)] = <<>>
<1>1. /\ Call(g, i, k) \in CallSet /\ Call(g, i, k).call = g
      /\ Call(g, i, k).i = i
  BY CallFields
<1> QED BY <1>1, SelType

LEMMA SelKCall ==
    ASSUME NEW f, NEW j, NEW g \in CallNames, NEW i \in Nat, NEW k \in Nat
    PROVE  /\ Call(g, i, k) \in CallSet
           /\ g = f /\ i = j => SelK(f, j)[Call(g, i, k)] = <<k>>
           /\ g # f \/ i # j => SelK(f, j)[Call(g, i, k)] = <<>>
<1>1. /\ Call(g, i, k) \in CallSet /\ Call(g, i, k).call = g
      /\ Call(g, i, k).i = i /\ Call(g, i, k).k = k
  BY CallFields
<1> DEFINE c == Call(g, i, k)
<1>2. c \in CallSet /\ c.call = g /\ c.i = i /\ c.k = k
  BY <1>1
<1> HIDE DEF c
<1>3. SelK(f, j)[c] = IF c.call = f /\ c.i = j THEN <<c.k>> ELSE <<>>
  BY <1>2, SelKType
<1>4. /\ g = f /\ i = j => SelK(f, j)[c] = <<k>>
      /\ g # f \/ i # j => SelK(f, j)[c] = <<>>
  BY <1>2, <1>3
<1> QED BY <1>2, <1>4 DEF c

(* The functions for the calls of f only.                                  *)
LEMMA SelIdle ==
    ASSUME NEW f, NEW o, NEW n \in 1..24, NEW k \in 1..24, k # n,
           \A c \in Legal(o) : c.call = f => PartOf(o, c) = n
    PROVE  Idle(Sel(f), o, k)
<1> SUFFICES ASSUME NEW c \in Legal(o), PartOf(o, c) = k PROVE Sel(f)[c] = <<>>
  BY DEF Idle
<1>1. c \in CallSet /\ c.call # f
  BY DEF Legal
<1> QED BY <1>1, SelType

LEMMA SelKIdle ==
    ASSUME NEW f, NEW j, NEW o, NEW n \in 1..24, NEW k \in 1..24, k # n,
           \A c \in Legal(o) : c.call = f => PartOf(o, c) = n
    PROVE  Idle(SelK(f, j), o, k)
<1> SUFFICES ASSUME NEW c \in Legal(o), PartOf(o, c) = k PROVE SelK(f, j)[c] = <<>>
  BY DEF Idle
<1>1. c \in CallSet /\ c.call # f
  BY DEF Legal
<1> QED BY <1>1, SelKType

-------------------------------------------------------------------------------
(* What is picked of the parts                                             *)

LEMMA PickComdats ==
    ASSUME NEW F \in Picks, NEW o, Valid(o)
    PROVE  Pick(F, Parts(o)[2])
               = FlattenSeq([i \in 1..Len(o.comdats) |->
                     F[Call("comdat_index", i, 0)] \o F[Call("comdat", i, 0)]])
<1> DEFINE n == Len(o.comdats)
           e == [i \in 1..n |-> <<Call("comdat_index", i, 0), Call("comdat", i, 0)>>]
           r == [i \in 1..n |-> F[Call("comdat_index", i, 0)] \o F[Call("comdat", i, 0)]]
<1>1. n \in Nat /\ DOMAIN o.comdats = 1..n
  BY DEF Valid
<1>2. ASSUME NEW i \in 1..n PROVE e[i] \in Seq(CallSet) /\ Pick(F, e[i]) = r[i]
  <2> DEFINE c == Call("comdat_index", i, 0)
             d == Call("comdat", i, 0)
  <2>1. c \in CallSet /\ d \in CallSet
    BY <1>1, CallFields DEF CallNames
  <2>2. e[i] = <<c, d>> /\ r[i] = F[c] \o F[d]
    OBVIOUS
  <2> HIDE DEF c, d, e, r
  <2>3. <<c, d>> \in Seq(CallSet)
    BY <2>1
  <2>4. Pick(F, <<c, d>>) = F[c] \o F[d]
    BY <2>1, PickPair
  <2> QED BY <2>2, <2>3, <2>4, Zenon
<1>3. Parts(o)[2] = FlattenSeq(e)
  BY <1>1, PartsShape DEF ComdatReserves
<1>4. e = [i \in 1..n |-> e[i]] /\ r = [i \in 1..n |-> r[i]]
  OBVIOUS
<1> HIDE DEF e, r, n
<1>5. Pick(F, FlattenSeq(e)) = FlattenSeq(r)
  BY <1>1, <1>2, <1>4, PickEach
<1> QED BY <1>3, <1>5 DEF r, n

LEMMA PickSections ==
    ASSUME NEW F \in Picks, NEW o, Valid(o)
    PROVE  Pick(F, Parts(o)[3])
               = FlattenSeq([i \in 1..Len(o.sections) |->
                     (F[Call("section_index", i, 0)] \o F[Call("data", i, 0)])
                     \o (IF o.sections[i].relocs = <<>> THEN <<>>
                         ELSE F[Call("reloc_index", i, 0)])])
<1> DEFINE n == Len(o.sections)
           e == [i \in 1..n |-> <<Call("section_index", i, 0), Call("data", i, 0)>>
                                \o RelocCalls(o, i, <<Call("reloc_index", i, 0)>>)]
           r == [i \in 1..n |->
                     (F[Call("section_index", i, 0)] \o F[Call("data", i, 0)])
                     \o (IF o.sections[i].relocs = <<>> THEN <<>>
                         ELSE F[Call("reloc_index", i, 0)])]
<1>1. n \in Nat /\ DOMAIN o.sections = 1..n
  BY DEF Valid
<1>2. ASSUME NEW i \in 1..n PROVE e[i] \in Seq(CallSet) /\ Pick(F, e[i]) = r[i]
  <2> DEFINE c == Call("section_index", i, 0)
             d == Call("data", i, 0)
             b == Call("reloc_index", i, 0)
             s == <<c, d>>
             t == RelocCalls(o, i, <<b>>)
             u == IF o.sections[i].relocs = <<>> THEN <<>> ELSE F[b]
  <2>1. c \in CallSet /\ d \in CallSet /\ b \in CallSet
    BY <1>1, CallFields DEF CallNames
  <2>2. e[i] = s \o t /\ r[i] = (F[c] \o F[d]) \o u
    OBVIOUS
  <2> HIDE DEF c, d, b, e, r
  <2>3. s \in Seq(CallSet) /\ t \in Seq(CallSet)
    BY <2>1 DEF RelocCalls
  <2>4. Pick(F, s) = F[c] \o F[d]
    BY <2>1, PickPair
  <2>5. Pick(F, t) = u
    <3>1. CASE o.sections[i].relocs = <<>>
      BY <3>1, PickEmpty DEF RelocCalls
    <3>2. CASE o.sections[i].relocs # <<>>
      BY <2>1, <3>2, PickOne DEF RelocCalls
    <3> QED BY <3>1, <3>2
  <2> HIDE DEF s, t, u
  <2>6. Pick(F, s \o t) = Pick(F, s) \o Pick(F, t) /\ s \o t \in Seq(CallSet)
    BY <2>3, PickConcat
  <2> QED BY <2>2, <2>4, <2>5, <2>6, Zenon
<1>3. Parts(o)[3] = FlattenSeq(e)
  BY <1>1, PartsShape DEF SectionReserves
<1>4. e = [i \in 1..n |-> e[i]] /\ r = [i \in 1..n |-> r[i]]
  OBVIOUS
<1> HIDE DEF e, r
<1>5. Pick(F, FlattenSeq(e)) = FlattenSeq(r)
  <2> HIDE DEF n
  <2> QED BY <1>1, <1>2, <1>4, PickEach
<1> QED BY <1>3, <1>5 DEF r

LEMMA PickComdatHeaders ==
    ASSUME NEW F \in Picks, NEW o, Valid(o)
    PROVE  Pick(F, Parts(o)[22])
               = FlattenSeq([i \in 1..Len(o.comdats) |->
                     F[Call("write_comdat_header", i, 0)]])
<1> DEFINE n == Len(o.comdats)
           e == [i \in 1..n |-> <<Call("write_comdat_header", i, 0)>>]
           r == [i \in 1..n |-> F[Call("write_comdat_header", i, 0)]]
<1>1. n \in Nat /\ DOMAIN o.comdats = 1..n
  BY DEF Valid
<1>2. ASSUME NEW i \in 1..n PROVE e[i] \in Seq(CallSet) /\ Pick(F, e[i]) = r[i]
  <2> DEFINE c == Call("write_comdat_header", i, 0)
  <2>1. c \in CallSet
    BY <1>1, CallFields DEF CallNames
  <2>2. e[i] = <<c>> /\ r[i] = F[c]
    OBVIOUS
  <2> HIDE DEF c, e, r
  <2> QED BY <2>1, <2>2, PickOne
<1>3. Parts(o)[22] = FlattenSeq(e)
  BY <1>1, PartsShape DEF ComdatHeaders
<1>4. e = [i \in 1..n |-> e[i]] /\ r = [i \in 1..n |-> r[i]]
  OBVIOUS
<1> HIDE DEF e, r, n
<1>5. Pick(F, FlattenSeq(e)) = FlattenSeq(r)
  BY <1>1, <1>2, <1>4, PickEach
<1> QED BY <1>3, <1>5 DEF r, n

LEMMA PickDataHeaders ==
    ASSUME NEW F \in Picks, NEW o, Valid(o)
    PROVE  Pick(F, Parts(o)[23])
               = FlattenSeq([i \in 1..Len(o.sections) |->
                     F[Call("write_section_header", i, 0)]
                     \o (IF o.sections[i].relocs = <<>> THEN <<>>
                         ELSE F[Call("write_reloc_header", i, 0)])])
<1> DEFINE n == Len(o.sections)
           e == [i \in 1..n |-> <<Call("write_section_header", i, 0)>>
                                \o RelocCalls(o, i, <<Call("write_reloc_header", i, 0)>>)]
           r == [i \in 1..n |-> F[Call("write_section_header", i, 0)]
                     \o (IF o.sections[i].relocs = <<>> THEN <<>>
                         ELSE F[Call("write_reloc_header", i, 0)])]
<1>1. n \in Nat /\ DOMAIN o.sections = 1..n
  BY DEF Valid
<1>2. ASSUME NEW i \in 1..n PROVE e[i] \in Seq(CallSet) /\ Pick(F, e[i]) = r[i]
  <2> DEFINE c == Call("write_section_header", i, 0)
             b == Call("write_reloc_header", i, 0)
             s == <<c>>
             t == RelocCalls(o, i, <<b>>)
             u == IF o.sections[i].relocs = <<>> THEN <<>> ELSE F[b]
  <2>1. c \in CallSet /\ b \in CallSet
    BY <1>1, CallFields DEF CallNames
  <2>2. e[i] = s \o t /\ r[i] = F[c] \o u
    OBVIOUS
  <2> HIDE DEF c, b, e, r
  <2>3. s \in Seq(CallSet) /\ t \in Seq(CallSet)
    BY <2>1 DEF RelocCalls
  <2>4. Pick(F, s) = F[c]
    BY <2>1, PickOne
  <2>5. Pick(F, t) = u
    <3>1. CASE o.sections[i].relocs = <<>>
      BY <3>1, PickEmpty DEF RelocCalls
    <3>2. CASE o.sections[i].relocs # <<>>
      BY <2>1, <3>2, PickOne DEF RelocCalls
    <3> QED BY <3>1, <3>2
  <2> HIDE DEF s, t, u
  <2>6. Pick(F, s \o t) = Pick(F, s) \o Pick(F, t) /\ s \o t \in Seq(CallSet)
    BY <2>3, PickConcat
  <2> QED BY <2>2, <2>4, <2>5, <2>6, Zenon
<1>3. Parts(o)[23] = FlattenSeq(e)
  BY <1>1, PartsShape DEF DataHeaders
<1>4. e = [i \in 1..n |-> e[i]] /\ r = [i \in 1..n |-> r[i]]
  OBVIOUS
<1> HIDE DEF e, r
<1>5. Pick(F, FlattenSeq(e)) = FlattenSeq(r)
  <2> HIDE DEF n
  <2> QED BY <1>1, <1>2, <1>4, PickEach
<1> QED BY <1>3, <1>5 DEF r

LEMMA LeftStart ==
    ASSUME NEW F \in Picks, NEW o, Valid(o), NEW a, Pick(F, Calls(o)) = a
    PROVE  Left(F, a, Calls(o), 0)
<1> DEFINE s == Pick(F, Calls(o))
<1>1. s \in Seq(Items)
  BY CallsType, PickType
<1>2. a = s
  OBVIOUS
<1> HIDE DEF s
<1>3. Suffix(s, a, 0)
  BY <1>1, <1>2 DEF Suffix
<1> QED BY <1>3 DEF Left, s

LEMMA SelOne ==
    ASSUME NEW f, NEW o, Valid(o), NEW n \in 1..24,
           \A c \in Legal(o) : c.call = f => PartOf(o, c) = n
    PROVE  Pick(Sel(f), Calls(o)) = Pick(Sel(f), Parts(o)[n])
<1>1. \A k \in 1..24 : k # n => Idle(Sel(f), o, k)
  BY SelIdle
<1>2. Sel(f) \in Picks
  BY SelType
<1> QED BY <1>1, <1>2, OnePart

(* The ids of the groups and of the sections, in their order.              *)
LEMMA ComdatsLeft ==
    ASSUME NEW o, Valid(o)
    PROVE  Left(Sel("comdat"), To(Len(o.comdats)), Calls(o), 0)
<1> DEFINE f == "comdat"
           F == Sel(f)
           n == Len(o.comdats)
           r == [i \in 1..n |-> F[Call("comdat_index", i, 0)] \o F[Call("comdat", i, 0)]]
<1>1. n \in Nat /\ F \in Picks
  BY SelType DEF Valid
<1>2. Pick(F, Calls(o)) = Pick(F, Parts(o)[2])
  <2>1. \A c \in Legal(o) : c.call = f => PartOf(o, c) = 2
    BY DEF PartOf
  <2>2. 2 \in 1..24
    OBVIOUS
  <2> HIDE DEF f
  <2> QED BY <2>1, <2>2, SelOne
<1>3. Pick(F, Parts(o)[2]) = FlattenSeq(r)
  BY <1>1, PickComdats
<1>4. r = [i \in 1..n |-> <<i>>]
  <2>1. ASSUME NEW i \in 1..n PROVE r[i] = <<i>>
    <3>1. F[Call("comdat_index", i, 0)] = <<>> /\ F[Call("comdat", i, 0)] = <<i>>
      <4>1. i \in Nat /\ 0 \in Nat /\ "comdat" \in CallNames
            /\ "comdat_index" \in CallNames /\ f # "comdat_index"
        BY <1>1 DEF CallNames
      <4> QED BY <4>1, SelCall
    <3>2. <<>> \o <<i>> = <<i>>
      OBVIOUS
    <3> QED BY <3>1, <3>2, Zenon
  <2> HIDE DEF n, F
  <2> QED BY <2>1
<1> HIDE DEF r
<1>5. Pick(F, Calls(o)) = To(n)
  BY <1>1, <1>2, <1>3, <1>4, ToType, Zenon
<1> HIDE DEF F, n
<1>6. Left(F, To(n), Calls(o), 0)
  BY <1>1, <1>5, LeftStart
<1> QED BY <1>6 DEF F, n

LEMMA SectionsLeft ==
    ASSUME NEW o, Valid(o), NEW f \in {"section_index", "data"}
    PROVE  Left(Sel(f), To(Len(o.sections)), Calls(o), 0)
<1> DEFINE F == Sel(f)
           n == Len(o.sections)
           r == [i \in 1..n |-> (F[Call("section_index", i, 0)] \o F[Call("data", i, 0)])
                     \o (IF o.sections[i].relocs = <<>> THEN <<>>
                         ELSE F[Call("reloc_index", i, 0)])]
<1>1. n \in Nat /\ F \in Picks
  BY SelType DEF Valid
<1>2. Pick(F, Calls(o)) = Pick(F, Parts(o)[3])
  <2>1. \A c \in Legal(o) : c.call = f => PartOf(o, c) = 3
    BY DEF PartOf
  <2>2. 3 \in 1..24
    OBVIOUS
  <2> QED BY <2>1, <2>2, SelOne
<1>3. Pick(F, Parts(o)[3]) = FlattenSeq(r)
  BY <1>1, PickSections
<1>4. r = [i \in 1..n |-> <<i>>]
  <2>1. ASSUME NEW i \in 1..n PROVE r[i] = <<i>>
    <3> DEFINE u == F[Call("section_index", i, 0)]
               v == F[Call("data", i, 0)]
               w == F[Call("reloc_index", i, 0)]
               t == IF o.sections[i].relocs = <<>> THEN <<>> ELSE w
    <3>1. /\ f = "section_index" => u = <<i>> /\ v = <<>>
          /\ f = "data" => u = <<>> /\ v = <<i>>
          /\ w = <<>>
      <4>1. i \in Nat /\ 0 \in Nat /\ "section_index" \in CallNames
            /\ "data" \in CallNames /\ "reloc_index" \in CallNames
        BY <1>1 DEF CallNames
      <4> QED BY <4>1, SelCall
    <3>2. r[i] = (u \o v) \o t
      OBVIOUS
    <3> HIDE DEF u, v, w, r
    <3>3. t = <<>>
      BY <3>1
    <3> HIDE DEF t
    <3>4. <<>> \o <<i>> = <<i>> /\ <<i>> \o <<>> = <<i>>
      OBVIOUS
    <3> QED BY <3>1, <3>2, <3>3, <3>4, Zenon
  <2> HIDE DEF n, F
  <2> QED BY <2>1
<1> HIDE DEF r
<1>5. Pick(F, Calls(o)) = To(n)
  BY <1>1, <1>2, <1>3, <1>4, ToType, Zenon
<1> HIDE DEF F, n
<1>6. Left(F, To(n), Calls(o), 0)
  BY <1>1, <1>5, LeftStart
<1> QED BY <1>6 DEF F, n

(* The ids of the symbols, in the order of the table.                      *)
LEMMA PickSymbols ==
    ASSUME NEW o, Valid(o), NEW f \in {"symbol", "write_symbol"}, NEW local \in BOOLEAN,
           NEW B, \A y \in 1..Len(o.symbols) : y \in B <=> o.symbols[y].local = local
    PROVE  Pick(Sel(f), SymbolCalls(o, f, local)) = Chosen(B, Len(o.symbols))
<1> DEFINE F == Sel(f)
           m == Len(o.symbols)
           e == [y \in DOMAIN o.symbols |-> IF o.symbols[y].local = local
                                            THEN <<Call(f, y, 0)>> ELSE <<>>]
           r == [y \in 1..m |-> IF y \in B THEN <<y>> ELSE <<>>]
<1>1. m \in Nat /\ DOMAIN o.symbols = 1..m /\ F \in Picks
  BY SelType DEF Valid
<1>2. ASSUME NEW y \in 1..m PROVE e[y] \in Seq(CallSet) /\ Pick(F, e[y]) = r[y]
  <2> DEFINE c == Call(f, y, 0)
  <2>1. c \in CallSet /\ F[c] = <<y>>
    <3>1. f \in CallNames /\ y \in Nat /\ 0 \in Nat /\ f = f
      <4> HIDE DEF m
      <4> QED BY <1>1 DEF CallNames
    <3> QED BY <3>1, SelCall
  <2>2. CASE y \in B
    <3>1. o.symbols[y].local = local
      BY <2>2
    <3>2. e[y] = <<c>> /\ r[y] = <<y>>
      BY <1>1, <2>2, <3>1
    <3> HIDE DEF c, e, r, F
    <3>3. Pick(F, <<c>>) = F[c]
      BY <1>1, <2>1, PickOne
    <3> QED BY <2>1, <3>2, <3>3
  <2>3. CASE y \notin B
    <3>1. ~(o.symbols[y].local = local)
      BY <2>3
    <3>2. e[y] = <<>> /\ r[y] = <<>>
      BY <1>1, <2>3, <3>1
    <3> HIDE DEF c, e, r, F
    <3>3. Pick(F, <<>>) = <<>>
      BY PickEmpty
    <3> QED BY <3>2, <3>3
  <2> QED BY <2>2, <2>3
<1>3. e = [y \in 1..m |-> e[y]] /\ r = [y \in 1..m |-> r[y]]
  BY <1>1
<1>4. SymbolCalls(o, f, local) = FlattenSeq(e)
  BY DEF SymbolCalls, ForEach
<1>5. Chosen(B, m) = FlattenSeq(r)
  BY DEF Chosen
<1> HIDE DEF e, r, m, F
<1>6. Pick(F, FlattenSeq(e)) = FlattenSeq(r)
  BY <1>1, <1>2, <1>3, PickEach
<1> QED BY <1>4, <1>5, <1>6 DEF F, m

LEMMA SymbolsLeft ==
    ASSUME NEW o, Valid(o), NEW f \in {"symbol", "write_symbol"}
    PROVE  /\ Arranges(Table(o), Len(o.symbols))
           /\ Left(Sel(f), Table(o), Calls(o), 0)
<1> DEFINE F == Sel(f)
           m == Len(o.symbols)
           B == {y \in 1..m : Local(o, y)}
           C == {y \in 1..m : ~Local(o, y)}
           n == IF f = "symbol" THEN 5 ELSE 16
           p == IF f = "symbol" THEN 7 ELSE 17
<1>1. m \in Nat /\ F \in Picks
  BY SelType DEF Valid
<1>2. Table(o) = Chosen(B, m) \o Chosen(C, m)
  BY DEF Table
<1>3. Arranges(Table(o), m)
  <2>1. \A y \in 1..m : y \in C <=> y \notin B
    OBVIOUS
  <2> HIDE DEF B, C, m
  <2> QED BY <1>1, <1>2, <2>1, ChosenArranges
<1>4. /\ \A y \in 1..m : y \in B <=> o.symbols[y].local = TRUE
      /\ \A y \in 1..m : y \in C <=> o.symbols[y].local = FALSE
  BY DEF Valid, Local
<1>5. /\ Pick(F, SymbolCalls(o, f, TRUE)) = Chosen(B, m)
      /\ Pick(F, SymbolCalls(o, f, FALSE)) = Chosen(C, m)
  <2>1. TRUE \in BOOLEAN /\ FALSE \in BOOLEAN
    OBVIOUS
  <2> HIDE DEF B, C
  <2>2. Pick(F, SymbolCalls(o, f, TRUE)) = Chosen(B, m)
    BY <1>4, <2>1, PickSymbols
  <2>3. Pick(F, SymbolCalls(o, f, FALSE)) = Chosen(C, m)
    BY <1>4, <2>1, PickSymbols
  <2> QED BY <2>2, <2>3
<1>6. /\ Parts(o)[n] = SymbolCalls(o, f, TRUE)
      /\ Parts(o)[p] = SymbolCalls(o, f, FALSE)
      /\ n \in 2..24 /\ p \in (n + 1)..24
  <2>1. CASE f = "symbol"
    <3>1. n = 5 /\ p = 7
      BY <2>1
    <3>2. 5 \in 2..24 /\ 7 \in (5 + 1)..24
      OBVIOUS
    <3>3. /\ Parts(o)[5] = SymbolCalls(o, "symbol", TRUE)
          /\ Parts(o)[7] = SymbolCalls(o, "symbol", FALSE)
      BY PartsShape
    <3> HIDE DEF n, p
    <3> QED BY <2>1, <3>1, <3>2, <3>3, Zenon
  <2>2. CASE f = "write_symbol"
    <3>1. n = 16 /\ p = 17
      BY <2>2
    <3>2. 16 \in 2..24 /\ 17 \in (16 + 1)..24
      OBVIOUS
    <3>3. /\ Parts(o)[16] = SymbolCalls(o, "write_symbol", TRUE)
          /\ Parts(o)[17] = SymbolCalls(o, "write_symbol", FALSE)
      BY PartsShape
    <3> HIDE DEF n, p
    <3> QED BY <2>2, <3>1, <3>2, <3>3, Zenon
  <2> QED BY <2>1, <2>2
<1>7. Pick(F, Calls(o)) = Pick(F, Parts(o)[n]) \o Pick(F, Parts(o)[p])
  <2>1. ASSUME NEW k \in 1..24, k # n /\ k # p PROVE Idle(F, o, k)
    <3> SUFFICES ASSUME NEW c \in Legal(o), PartOf(o, c) = k PROVE F[c] = <<>>
      BY DEF Idle
    <3>1. c \in CallSet
      BY DEF Legal
    <3>2. c.call # f
      BY <2>1 DEF PartOf
    <3> QED BY <3>1, <3>2, SelType
  <2> HIDE DEF n, p, F
  <2> QED BY <1>1, <1>6, <2>1, TwoParts
<1> HIDE DEF n, p, F, m, B, C
<1>8. Pick(F, Calls(o)) = Table(o)
  BY <1>2, <1>5, <1>6, <1>7, Zenon
<1>9. Left(F, Table(o), Calls(o), 0)
  BY <1>1, <1>8, LeftStart
<1> QED BY <1>3, <1>9 DEF F, m

(* The calls that each of the n elements makes, and what is picked of them. *)
Matches(F, n, e, r) ==
    /\ n \in Nat /\ e = [i \in 1..n |-> e[i]] /\ r = [i \in 1..n |-> r[i]]
    /\ \A i \in 1..n : e[i] \in Seq(CallSet) /\ Pick(F, e[i]) = r[i]

LEMMA PickMatches ==
    ASSUME NEW F \in Picks, NEW n, NEW e, NEW r, Matches(F, n, e, r)
    PROVE  FlattenSeq(e) \in Seq(CallSet) /\ Pick(F, FlattenSeq(e)) = FlattenSeq(r)
<1>1. /\ n \in Nat /\ e = [i \in 1..n |-> e[i]] /\ r = [i \in 1..n |-> r[i]]
      /\ \A i \in 1..n : e[i] \in Seq(CallSet) /\ Pick(F, e[i]) = r[i]
  BY DEF Matches
<1>2. Pick(F, FlattenSeq(e)) = FlattenSeq(r)
  BY <1>1, PickEach
<1>3. FlattenSeq(e) \in Seq(CallSet)
  BY <1>1, Elements
<1> QED BY <1>2, <1>3

(* The entries of a group and of a section's relocations.                  *)
LEMMA EntriesPick ==
    ASSUME NEW f \in CallNames, NEW i \in Nat, NEW j \in Nat, NEW n \in Nat, NEW e,
           e = [k \in 1..n |-> <<Call(f, i, k)>>]
    PROVE  /\ FlattenSeq(e) \in Seq(CallSet)
           /\ i = j => Pick(SelK(f, j), FlattenSeq(e)) = To(n)
           /\ i # j => Pick(SelK(f, j), FlattenSeq(e)) = <<>>
<1> DEFINE F == SelK(f, j)
           r == IF i = j THEN [k \in 1..n |-> <<k>>] ELSE [k \in 1..n |-> <<>>]
<1>1. F \in Picks
  BY SelKType
<1>2. ASSUME NEW k \in 1..n PROVE e[k] \in Seq(CallSet) /\ Pick(F, e[k]) = r[k]
  <2> DEFINE c == Call(f, i, k)
  <2>1. c \in CallSet /\ (i = j => F[c] = <<k>>) /\ (i # j => F[c] = <<>>)
    BY SelKCall
  <2>2. e[k] = <<c>>
    OBVIOUS
  <2>3. (i = j => r[k] = <<k>>) /\ (i # j => r[k] = <<>>)
    OBVIOUS
  <2> HIDE DEF c, F, r
  <2>4. Pick(F, <<c>>) = F[c]
    BY <1>1, <2>1, PickOne
  <2>5. <<c>> \in Seq(CallSet)
    BY <2>1
  <2> QED BY <2>1, <2>2, <2>3, <2>4, <2>5, Zenon
<1>3. e = [k \in 1..n |-> e[k]] /\ r = [k \in 1..n |-> r[k]]
  OBVIOUS
<1>4. FlattenSeq(e) \in Seq(CallSet)
  BY <1>2, <1>3, Elements
<1>5. Pick(F, FlattenSeq(e)) = FlattenSeq(r)
  <2> HIDE DEF r, F
  <2>1. Matches(F, n, e, r)
    BY <1>2, <1>3 DEF Matches
  <2> QED BY <1>1, <2>1, PickMatches, Zenon
<1>6. i = j => FlattenSeq(r) = To(n)
  BY ToType
<1>7. i # j => FlattenSeq(r) = <<>>
  <2> SUFFICES ASSUME i # j PROVE FlattenSeq(r) = <<>>
    OBVIOUS
  <2> DEFINE E == Seq(Nat)
  <2>1. r = [k \in 1..n |-> <<>>] /\ <<>> \in E
    OBVIOUS
  <2> HIDE DEF r, E
  <2>2. r \in Seq(E) /\ \A k \in DOMAIN r : r[k] = <<>>
    BY <2>1
  <2>3. r \in Seq(Seq(Nat))
    BY <2>2 DEF E
  <2> QED BY <2>2, <2>3, FlattenNone
<1> HIDE DEF F, r
<1> QED BY <1>4, <1>5, <1>6, <1>7 DEF F

LEMMA GroupsLeft ==
    ASSUME NEW o, Valid(o), NEW j \in 1..Len(o.comdats)
    PROVE  Left(SelK("write_comdat_entry", j), To(Len(o.comdats[j].members)), Calls(o), 0)
<1> DEFINE f == "write_comdat_entry"
           F == SelK(f, j)
           n == Len(o.comdats)
           e == [i \in 1..n |-> <<Call("write_comdat", i, 0)>> \o Members(o, i)]
           a == To(Len(o.comdats[j].members))
           r == [i \in 1..n |-> IF i = j THEN a ELSE <<>>]
<1>1. n \in Nat /\ F \in Picks /\ DOMAIN o.comdats = 1..n
  BY SelKType DEF Valid
<1>2. ASSUME NEW i \in 1..n PROVE e[i] \in Seq(CallSet) /\ Pick(F, e[i]) = r[i]
  <2> DEFINE c == Call("write_comdat", i, 0)
             m == Len(o.comdats[i].members)
             d == [k \in 1..m |-> <<Call(f, i, k)>>]
             t == Members(o, i)
  <2>1. m \in Nat /\ i \in Nat /\ j \in Nat /\ 0 \in Nat /\ f \in CallNames
        /\ "write_comdat" \in CallNames /\ f # "write_comdat"
    BY <1>1 DEF CallNames, Valid
  <2>2. c \in CallSet /\ F[c] = <<>>
    BY <2>1, SelKCall
  <2>3. t = FlattenSeq(d)
    <3>1. DOMAIN o.comdats[i].members = 1..m
      BY DEF Valid
    <3> QED BY <3>1 DEF Members
  <2>4. e[i] = <<c>> \o t
    OBVIOUS
  <2>5. (i = j => r[i] = To(m)) /\ (i # j => r[i] = <<>>)
    OBVIOUS
  <2> HIDE DEF c, m, t, F, e, r, f
  <2>6. d = [k \in 1..m |-> d[k]] /\ d = [k \in 1..m |-> <<Call(f, i, k)>>]
    OBVIOUS
  <2> HIDE DEF d
  <2>7. t \in Seq(CallSet) /\ Pick(F, t) = r[i]
    <3>1. /\ t \in Seq(CallSet)
          /\ i = j => Pick(F, t) = To(m)
          /\ i # j => Pick(F, t) = <<>>
      BY <2>1, <2>3, <2>6, EntriesPick, SMTT(30), ZenonT(30) DEF F
    <3> QED BY <2>5, <3>1
  <2>8. <<c>> \in Seq(CallSet) /\ Pick(F, <<c>>) = <<>>
    <3>1. <<c>> \in Seq(CallSet)
      BY <2>2
    <3>2. Pick(F, <<c>>) = F[c]
      BY <1>1, <2>2, PickOne
    <3> QED BY <2>2, <3>1, <3>2
  <2>9. Pick(F, <<c>> \o t) = Pick(F, <<c>>) \o Pick(F, t) /\ <<c>> \o t \in Seq(CallSet)
    <3> DEFINE s == <<c>>
    <3>1. s \in Seq(CallSet)
      BY <2>8
    <3> HIDE DEF s
    <3>2. t \in Seq(CallSet)
      BY <2>7
    <3>3. Pick(F, s \o t) = Pick(F, s) \o Pick(F, t)
      BY <1>1, <3>1, <3>2, PickConcat
    <3>4. s \o t \in Seq(CallSet)
      BY <3>1, <3>2
    <3> QED BY <3>3, <3>4 DEF s
  <2>10. Pick(F, t) \in Seq(Items)
    BY <1>1, <2>7, PickType
  <2>11. <<>> \o Pick(F, t) = Pick(F, t)
    BY <2>10
  <2> QED BY <2>4, <2>7, <2>8, <2>9, <2>11, Zenon
<1>3. Parts(o)[13] = FlattenSeq(e)
  BY <1>1, PartsShape DEF ComdatWrites
<1>4. e = [i \in 1..n |-> e[i]] /\ r = [i \in 1..n |-> r[i]] /\ Len(r) = n
  BY <1>1
<1>5. a \in Seq(Nat)
  <2>1. Len(o.comdats[j].members) \in Nat
    BY DEF Valid
  <2> QED BY <2>1, ToType
<1>6. r \in Seq(Seq(Nat)) /\ r[j] = a /\ \A k \in 1..n : k # j => r[k] = <<>>
  <2> HIDE DEF a
  <2> DEFINE E == Seq(Nat)
  <2>1. a \in E /\ <<>> \in E
    BY <1>5
  <2> HIDE DEF E, n
  <2>2. r \in Seq(E)
    BY <1>1, <2>1
  <2>3. r[j] = a /\ \A k \in 1..n : k # j => r[k] = <<>>
    BY DEF n
  <2> QED BY <2>2, <2>3 DEF E
<1>7. FlattenSeq(r) = a
  <2> HIDE DEF r, a
  <2> QED BY <1>4, <1>6, FlattenOnly
<1>8. Pick(F, Parts(o)[13]) = FlattenSeq(r)
  <2> HIDE DEF e, r, n, F
  <2> QED BY <1>1, <1>2, <1>3, <1>4, PickEach
<1>9. Pick(F, Calls(o)) = Pick(F, Parts(o)[13])
  <2>1. \A c \in Legal(o) : c.call = f => PartOf(o, c) = 13
    BY DEF PartOf
  <2>2. 13 \in 1..24
    OBVIOUS
  <2>3. ASSUME NEW k \in 1..24, k # 13 PROVE Idle(F, o, k)
    <3> HIDE DEF f
    <3> QED BY <2>1, <2>2, <2>3, SelKIdle
  <2> HIDE DEF F
  <2> QED BY <1>1, <2>2, <2>3, OnePart
<1> HIDE DEF F, a, r
<1>10. Left(F, a, Calls(o), 0)
  BY <1>1, <1>7, <1>8, <1>9, LeftStart
<1> QED BY <1>10 DEF F, a

LEMMA ToEmpty == To(0) = <<>>
<1>1. To(0) \in Seq(Nat) /\ Len(To(0)) = 0
  BY ToType
<1> QED BY <1>1, EmptySeq

LEMMA RelocsLeft ==
    ASSUME NEW o, Valid(o), NEW j \in 1..Len(o.sections)
    PROVE  Left(SelK("write_relocation", j), To(Len(o.sections[j].relocs)), Calls(o), 0)
<1> DEFINE f == "write_relocation"
           F == SelK(f, j)
           n == Len(o.sections)
           e == [i \in 1..n |-> RelocCalls(o, i,
                     <<Call("write_align_relocation", i, 0)>> \o Relocs(o, i))]
           a == To(Len(o.sections[j].relocs))
           r == [i \in 1..n |-> IF i = j THEN a ELSE <<>>]
<1>1. n \in Nat /\ F \in Picks /\ DOMAIN o.sections = 1..n
  BY SelKType DEF Valid
<1>2. ASSUME NEW i \in 1..n PROVE e[i] \in Seq(CallSet) /\ Pick(F, e[i]) = r[i]
  <2> DEFINE c == Call("write_align_relocation", i, 0)
             m == Len(o.sections[i].relocs)
             d == [k \in 1..m |-> <<Call(f, i, k)>>]
             t == Relocs(o, i)
             s == <<c>>
  <2>1. m \in Nat /\ i \in Nat /\ j \in Nat /\ 0 \in Nat /\ f \in CallNames
        /\ "write_align_relocation" \in CallNames /\ f # "write_align_relocation"
    BY <1>1 DEF CallNames, Valid
  <2>2. c \in CallSet /\ F[c] = <<>>
    BY <2>1, SelKCall
  <2>3. t = FlattenSeq(d)
    <3>1. DOMAIN o.sections[i].relocs = 1..m
      BY DEF Valid
    <3> QED BY <3>1 DEF Relocs
  <2>4. /\ m = 0 => e[i] = <<>>
        /\ m # 0 => e[i] = s \o t
    <3>1. m = 0 <=> o.sections[i].relocs = <<>>
      BY DEF Valid
    <3> QED BY <3>1 DEF RelocCalls
  <2>5. (i = j => r[i] = To(m)) /\ (i # j => r[i] = <<>>)
    OBVIOUS
  <2> HIDE DEF c, m, t, F, e, r, f
  <2>6. d = [k \in 1..m |-> d[k]] /\ d = [k \in 1..m |-> <<Call(f, i, k)>>]
    OBVIOUS
  <2> HIDE DEF d
  <2>7. t \in Seq(CallSet) /\ Pick(F, t) = r[i]
    <3>1. /\ t \in Seq(CallSet)
          /\ i = j => Pick(F, t) = To(m)
          /\ i # j => Pick(F, t) = <<>>
      <4>1. F = SelK(f, j)
        BY DEF F
      <4> HIDE DEF F, s, a, n
      <4> QED BY <2>1, <2>3, <2>6, <4>1, EntriesPick, SMTT(30), ZenonT(30)
    <3> QED BY <2>5, <3>1
  <2>8. s \in Seq(CallSet)
    BY <2>2
  <2>9. Pick(F, s) = <<>>
    <3>1. Pick(F, <<c>>) = F[c]
      BY <1>1, <2>2, PickOne
    <3> QED BY <2>2, <3>1
  <2> HIDE DEF s
  <2>10. t \in Seq(CallSet)
    BY <2>7
  <2>11. Pick(F, s \o t) = Pick(F, s) \o Pick(F, t)
    BY <1>1, <2>8, <2>10, PickConcat
  <2>12. s \o t \in Seq(CallSet)
    BY <2>8, <2>10
  <2>13. Pick(F, t) \in Seq(Items)
    BY <1>1, <2>10, PickType
  <2>14. <<>> \o Pick(F, t) = Pick(F, t)
    BY <2>13
  <2>15. CASE m = 0
    <3>1. r[i] = <<>>
      BY <2>5, <2>15, ToEmpty
    <3>2. Pick(F, <<>>) = <<>>
      BY PickEmpty
    <3>3. <<>> \in Seq(CallSet)
      OBVIOUS
    <3> QED BY <2>4, <2>15, <3>1, <3>2, <3>3, Zenon
  <2>16. CASE m # 0
    BY <2>4, <2>7, <2>9, <2>11, <2>12, <2>14, <2>16, Zenon
  <2> QED BY <2>15, <2>16
<1>3. Parts(o)[19] = FlattenSeq(e)
  BY <1>1, PartsShape DEF RelocWrites
<1>4. e = [i \in 1..n |-> e[i]] /\ r = [i \in 1..n |-> r[i]] /\ Len(r) = n
  BY <1>1
<1>5. a \in Seq(Nat)
  <2>1. Len(o.sections[j].relocs) \in Nat
    BY DEF Valid
  <2> QED BY <2>1, ToType
<1>6. r \in Seq(Seq(Nat)) /\ r[j] = a /\ \A k \in 1..n : k # j => r[k] = <<>>
  <2> HIDE DEF a
  <2> DEFINE E == Seq(Nat)
  <2>1. a \in E /\ <<>> \in E
    BY <1>5
  <2> HIDE DEF E, n
  <2>2. r \in Seq(E)
    BY <1>1, <2>1
  <2>3. r[j] = a /\ \A k \in 1..n : k # j => r[k] = <<>>
    BY DEF n
  <2> QED BY <2>2, <2>3 DEF E
<1>7. FlattenSeq(r) = a
  <2> HIDE DEF r, a
  <2> QED BY <1>4, <1>6, FlattenOnly
<1>8. Pick(F, Parts(o)[19]) = FlattenSeq(r)
  <2> HIDE DEF e, r, n, F
  <2>1. Matches(F, n, e, r)
    BY <1>1, <1>2, <1>4 DEF Matches
  <2> QED BY <1>1, <1>3, <2>1, PickMatches, Zenon
<1>9. Pick(F, Calls(o)) = Pick(F, Parts(o)[19])
  <2>1. \A c \in Legal(o) : c.call = f => PartOf(o, c) = 19
    BY DEF PartOf
  <2>2. 19 \in 1..24
    OBVIOUS
  <2>3. ASSUME NEW k \in 1..24, k # 19 PROVE Idle(F, o, k)
    <3> HIDE DEF f
    <3> QED BY <2>1, <2>2, <2>3, SelKIdle
  <2> HIDE DEF F
  <2> QED BY <1>1, <2>2, <2>3, OnePart
<1> HIDE DEF F, a, r
<1>10. Left(F, a, Calls(o), 0)
  BY <1>1, <1>7, <1>8, <1>9, LeftStart
<1> QED BY <1>10 DEF F, a

LEMMA AppendIs ==
    ASSUME NEW S, NEW a \in Seq(S), NEW x \in S, NEW b \in Seq(S),
           Len(b) = Len(a) + 1, b[Len(b)] = x, \A k \in 1..Len(a) : b[k] = a[k]
    PROVE  Append(a, x) = b
<1> DEFINE c == Append(a, x)
<1>1. c \in Seq(S) /\ Len(c) = Len(b) /\ \A k \in 1..Len(c) : c[k] = b[k]
  OBVIOUS
<1> HIDE DEF c
<1>2. c = b
  BY <1>1, SeqEqual
<1> QED BY <1>2 DEF c

(* The calls that are made once.                                           *)
LEMMA PickThree ==
    ASSUME NEW F \in Picks, NEW f \in CallNames, NEW g \in CallNames, NEW h \in CallNames
    PROVE  Pick(F, Once(<<f, g, h>>))
               = (F[Call(f, 0, 0)] \o F[Call(g, 0, 0)]) \o F[Call(h, 0, 0)]
<1>1. <<f>> \in Seq(CallNames) /\ <<f, g>> \in Seq(CallNames)
  OBVIOUS
<1>2. Append(<<f>>, g) = <<f, g>> /\ Append(<<f, g>>, h) = <<f, g, h>>
  <2> DEFINE r == <<f>>
             s == <<f, g>>
             t == <<f, g, h>>
  <2>1. /\ r \in Seq(CallNames) /\ s \in Seq(CallNames) /\ t \in Seq(CallNames)
        /\ Len(s) = Len(r) + 1 /\ s[Len(s)] = g /\ (\A k \in 1..Len(r) : s[k] = r[k])
        /\ Len(t) = Len(s) + 1 /\ t[Len(t)] = h /\ (\A k \in 1..Len(s) : t[k] = s[k])
    OBVIOUS
  <2> HIDE DEF r, s, t
  <2>2. Append(r, g) = s /\ Append(s, h) = t
    BY <2>1, AppendIs
  <2> QED BY <2>2 DEF r, s, t
<1>3. Pick(F, Once(<<f>>)) = F[Call(f, 0, 0)]
  BY OnceOne
<1>4. Pick(F, Once(Append(<<f>>, g))) = Pick(F, Once(<<f>>)) \o F[Call(g, 0, 0)]
  BY <1>1, PickOnce
<1>5. Pick(F, Once(Append(<<f, g>>, h))) = Pick(F, Once(<<f, g>>)) \o F[Call(h, 0, 0)]
  BY <1>1, PickOnce
<1> QED BY <1>2, <1>3, <1>4, <1>5, Zenon

(* The names gs are fs and then f.                                         *)
Longer(fs, f, gs) ==
    /\ fs \in Seq(CallNames) /\ gs \in Seq(CallNames) /\ f \in CallNames
    /\ Len(gs) = Len(fs) + 1 /\ gs[Len(gs)] = f
    /\ \A k \in 1..Len(fs) : gs[k] = fs[k]

LEMMA PickLonger ==
    ASSUME NEW F \in Picks, NEW fs, NEW f, NEW gs, Longer(fs, f, gs)
    PROVE  Pick(F, Once(gs)) = Pick(F, Once(fs)) \o F[Call(f, 0, 0)]
<1>1. /\ fs \in Seq(CallNames) /\ gs \in Seq(CallNames) /\ f \in CallNames
      /\ Len(gs) = Len(fs) + 1 /\ gs[Len(gs)] = f
      /\ \A k \in 1..Len(fs) : gs[k] = fs[k]
  BY DEF Longer
<1>2. Append(fs, f) = gs
  BY <1>1, AppendIs
<1>3. Pick(F, Once(Append(fs, f))) = Pick(F, Once(fs)) \o F[Call(f, 0, 0)]
  BY <1>1, PickOnce
<1> QED BY <1>2, <1>3, Zenon

LEMMA SingleCall ==
    ASSUME NEW o, Valid(o), NEW f \in {"null_symbol", "num_local"}
    PROVE  Pick(Sel(f), Calls(o)) = <<0>>
<1> DEFINE n == IF f = "null_symbol" THEN 4 ELSE 6
<1>1. /\ n \in 1..24 /\ \A c \in Legal(o) : c.call = f => PartOf(o, c) = n
      /\ f \in CallNames /\ 0 \in Nat /\ Sel(f) \in Picks
  BY SelType DEF PartOf, CallNames
<1>2. Parts(o)[n] = Once(<<f>>)
  <2>1. Parts(o)[4] = Once(<<"null_symbol">>) /\ Parts(o)[6] = Once(<<"num_local">>)
    BY PartsShape
  <2> QED BY <2>1
<1> HIDE DEF n
<1>3. Sel(f)[Call(f, 0, 0)] = <<0>>
  <2>1. f \in CallNames /\ 0 \in Nat
    BY <1>1
  <2> QED BY <2>1, SelCall
<1>4. Pick(Sel(f), Once(<<f>>)) = Sel(f)[Call(f, 0, 0)]
  BY <1>1, OnceOne
<1>5. Pick(Sel(f), Calls(o)) = Pick(Sel(f), Parts(o)[n])
  BY <1>1, SelOne
<1> QED BY <1>2, <1>3, <1>4, <1>5, Zenon

(* What is picked of the calls for the tables.                             *)
LEMMA PartNine ==
    ASSUME NEW F \in Picks, NEW o
    PROVE  Pick(F, Parts(o)[9]) =
               ((((F[Call("symtab_index", 0, 0)] \o F[Call("symtab", 0, 0)])
               \o F[Call("symtab_shndx_index", 0, 0)]) \o F[Call("symtab_shndx", 0, 0)])
               \o F[Call("strtab_index", 0, 0)]) \o F[Call("strtab", 0, 0)]
<1> DEFINE n1 == "symtab_index"
           n2 == "symtab"
           n3 == "symtab_shndx_index"
           n4 == "symtab_shndx"
           n5 == "strtab_index"
           n6 == "strtab"
           s3 == <<n1, n2, n3>>
           s4 == <<n1, n2, n3, n4>>
           s5 == <<n1, n2, n3, n4, n5>>
           s6 == <<n1, n2, n3, n4, n5, n6>>
<1>1. /\ n1 \in CallNames /\ n2 \in CallNames /\ n3 \in CallNames
      /\ n4 \in CallNames /\ n5 \in CallNames /\ n6 \in CallNames
  BY DEF CallNames
<1>2. Parts(o)[9] = Once(s6)
  BY PartsShape
<1> HIDE DEF n1, n2, n3, n4, n5, n6
<1>3. Pick(F, Once(s3)) = (F[Call(n1, 0, 0)] \o F[Call(n2, 0, 0)]) \o F[Call(n3, 0, 0)]
  BY <1>1, PickThree, SMTT(30), ZenonT(30)
<1>4. Longer(s3, n4, s4) /\ Longer(s4, n5, s5) /\ Longer(s5, n6, s6)
  BY <1>1 DEF Longer
<1> HIDE DEF s3, s4, s5, s6
<1>5. /\ Pick(F, Once(s4)) = Pick(F, Once(s3)) \o F[Call(n4, 0, 0)]
      /\ Pick(F, Once(s5)) = Pick(F, Once(s4)) \o F[Call(n5, 0, 0)]
      /\ Pick(F, Once(s6)) = Pick(F, Once(s5)) \o F[Call(n6, 0, 0)]
  BY <1>4, PickLonger
<1>6. Pick(F, Parts(o)[9]) =
          ((((F[Call(n1, 0, 0)] \o F[Call(n2, 0, 0)]) \o F[Call(n3, 0, 0)])
          \o F[Call(n4, 0, 0)]) \o F[Call(n5, 0, 0)]) \o F[Call(n6, 0, 0)]
  BY <1>2, <1>3, <1>5, Zenon
<1> QED BY <1>6 DEF n1, n2, n3, n4, n5, n6

LEMMA PartLast ==
    ASSUME NEW F \in Picks, NEW o
    PROVE  /\ Pick(F, Parts(o)[11]) =
                  (F[Call("shstrtab_index", 0, 0)] \o F[Call("shstrtab", 0, 0)])
                  \o F[Call("section_headers", 0, 0)]
           /\ Pick(F, Parts(o)[24]) =
                  ((F[Call("write_symtab_header", 0, 0)]
                  \o F[Call("write_symtab_shndx_header", 0, 0)])
                  \o F[Call("write_strtab_header", 0, 0)])
                  \o F[Call("write_shstrtab_header", 0, 0)]
<1>1. Pick(F, Parts(o)[11]) =
          (F[Call("shstrtab_index", 0, 0)] \o F[Call("shstrtab", 0, 0)])
          \o F[Call("section_headers", 0, 0)]
  <2> DEFINE n1 == "shstrtab_index"
             n2 == "shstrtab"
             n3 == "section_headers"
  <2>1. n1 \in CallNames /\ n2 \in CallNames /\ n3 \in CallNames
    BY DEF CallNames
  <2>2. Parts(o)[11] = Once(<<n1, n2, n3>>)
    BY PartsShape
  <2> HIDE DEF n1, n2, n3
  <2>3. Pick(F, Once(<<n1, n2, n3>>))
            = (F[Call(n1, 0, 0)] \o F[Call(n2, 0, 0)]) \o F[Call(n3, 0, 0)]
    BY <2>1, PickThree
  <2> QED BY <2>2, <2>3 DEF n1, n2, n3
<1>2. Pick(F, Parts(o)[24]) =
          ((F[Call("write_symtab_header", 0, 0)]
          \o F[Call("write_symtab_shndx_header", 0, 0)])
          \o F[Call("write_strtab_header", 0, 0)])
          \o F[Call("write_shstrtab_header", 0, 0)]
  <2> DEFINE n1 == "write_symtab_header"
             n2 == "write_symtab_shndx_header"
             n3 == "write_strtab_header"
             n4 == "write_shstrtab_header"
             s3 == <<n1, n2, n3>>
             s4 == <<n1, n2, n3, n4>>
  <2>1. n1 \in CallNames /\ n2 \in CallNames /\ n3 \in CallNames /\ n4 \in CallNames
    BY DEF CallNames
  <2>2. Parts(o)[24] = Once(s4)
    BY PartsShape
  <2> HIDE DEF n1, n2, n3, n4
  <2>3. Pick(F, Once(s3)) = (F[Call(n1, 0, 0)] \o F[Call(n2, 0, 0)]) \o F[Call(n3, 0, 0)]
    BY <2>1, PickThree
  <2>4. Longer(s3, n4, s4)
    BY <2>1 DEF Longer
  <2> HIDE DEF s3, s4
  <2>5. Pick(F, Once(s4)) = Pick(F, Once(s3)) \o F[Call(n4, 0, 0)]
    BY <2>4, PickLonger
  <2>6. Pick(F, Parts(o)[24]) =
            ((F[Call(n1, 0, 0)] \o F[Call(n2, 0, 0)]) \o F[Call(n3, 0, 0)])
            \o F[Call(n4, 0, 0)]
    BY <2>2, <2>3, <2>5, Zenon
  <2> QED BY <2>6 DEF n1, n2, n3, n4
<1> QED BY <1>1, <1>2

LEMMA ShndxCall ==
    ASSUME NEW o, Valid(o)
    PROVE  Pick(Sel("symtab_shndx_index"), Calls(o)) = <<0>>
<1> DEFINE f == "symtab_shndx_index"
           F == Sel(f)
<1>1. \A x \in Legal(o) : x.call = f => PartOf(o, x) = 9
  BY DEF PartOf
<1>2. /\ "symtab_index" \in CallNames /\ "symtab" \in CallNames /\ f \in CallNames
      /\ "symtab_shndx" \in CallNames /\ "strtab_index" \in CallNames
      /\ "strtab" \in CallNames
  BY DEF CallNames
<1>3. F[Call(f, 0, 0)] = <<0>>
  BY <1>2, SelCall
<1>4. /\ F[Call("symtab_index", 0, 0)] = <<>> /\ F[Call("symtab", 0, 0)] = <<>>
      /\ F[Call("symtab_shndx", 0, 0)] = <<>> /\ F[Call("strtab_index", 0, 0)] = <<>>
      /\ F[Call("strtab", 0, 0)] = <<>>
  BY <1>2, SelCall
<1>5. F \in Picks /\ 9 \in 1..24
  BY SelType
<1>6. Pick(F, Calls(o)) = Pick(F, Parts(o)[9])
  <2> HIDE DEF f
  <2> QED BY <1>1, <1>5, SelOne
<1>7. <<>> \o <<>> = <<>> /\ <<>> \o <<0>> = <<0>> /\ <<0>> \o <<>> = <<0>>
  OBVIOUS
<1>8. Pick(F, Parts(o)[9]) =
               ((((F[Call("symtab_index", 0, 0)] \o F[Call("symtab", 0, 0)])
               \o F[Call(f, 0, 0)]) \o F[Call("symtab_shndx", 0, 0)])
               \o F[Call("strtab_index", 0, 0)]) \o F[Call("strtab", 0, 0)]
  BY <1>5, PartNine
<1> HIDE DEF F
<1>9. Pick(F, Parts(o)[9]) = <<0>>
  BY <1>3, <1>4, <1>7, <1>8, Zenon
<1> QED BY <1>6, <1>9 DEF F

-------------------------------------------------------------------------------
(* The sections, in the order of their indices                             *)

LEMMA JoinOne ==
    ASSUME NEW S, NEW s \in Seq(S), NEW x \in S, NEW t \in Seq(S),
           Len(t) = Len(s) + 1, t[Len(t)] = x, \A k \in 1..Len(s) : t[k] = s[k]
    PROVE  s \o <<x>> = t
<1>1. Append(s, x) = t
  BY AppendIs
<1>2. s \o <<x>> = Append(s, x)
  <2> DEFINE a == s \o <<x>>
             b == Append(s, x)
  <2>1. a \in Seq(S) /\ b \in Seq(S) /\ Len(a) = Len(b) /\ \A k \in 1..Len(a) : a[k] = b[k]
    OBVIOUS
  <2> HIDE DEF a, b
  <2>2. a = b
    BY <2>1, SeqEqual
  <2> QED BY <2>2 DEF a, b
<1> QED BY <1>1, <1>2

LEMMA JoinPair ==
    ASSUME NEW S, NEW u \in S, NEW v \in S PROVE <<u>> \o <<v>> = <<u, v>>
<1> DEFINE r == <<u>>
           s == <<u, v>>
<1>1. /\ r \in Seq(S) /\ s \in Seq(S)
      /\ Len(s) = Len(r) + 1 /\ s[Len(s)] = v /\ (\A k \in 1..Len(r) : s[k] = r[k])
  OBVIOUS
<1> HIDE DEF r, s
<1>2. r \o <<v>> = s
  BY <1>1, JoinOne
<1> QED BY <1>2 DEF r, s

LEMMA JoinThree ==
    ASSUME NEW S, NEW u \in S, NEW v \in S, NEW w \in S
    PROVE  /\ <<u>> \o <<v, w>> = <<u, v, w>>
           /\ <<u, v>> \o <<w>> = <<u, v, w>>
<1> DEFINE r == <<u>>
           s == <<u, v>>
           t == <<u, v, w>>
           l == <<v, w>>
<1>1. /\ r \in Seq(S) /\ s \in Seq(S) /\ t \in Seq(S) /\ l \in Seq(S)
      /\ Len(t) = Len(s) + 1 /\ t[Len(t)] = w /\ (\A k \in 1..Len(s) : t[k] = s[k])
  OBVIOUS
<1>2. s \o <<w>> = t
  <2> HIDE DEF s, t
  <2> QED BY <1>1, JoinOne
<1>3. r \o l = t
  <2> DEFINE a == r \o l
  <2>1. a \in Seq(S) /\ Len(a) = Len(t) /\ \A k \in 1..Len(a) : a[k] = t[k]
    OBVIOUS
  <2> HIDE DEF a, r, l, t
  <2>2. a = t
    BY <1>1, <2>1, SeqEqual
  <2> QED BY <2>2 DEF a
<1> QED BY <1>2, <1>3

LEMMA JoinPairs ==
    ASSUME NEW S, NEW s \in Seq(S), Len(s) = 2, NEW t \in Seq(S), Len(t) = 2
    PROVE  s \o t = <<s[1], s[2], t[1], t[2]>>
<1> DEFINE a == s \o t
           b == <<s[1], s[2], t[1], t[2]>>
<1>1. s[1] \in S /\ s[2] \in S /\ t[1] \in S /\ t[2] \in S
  OBVIOUS
<1>2. b \in Seq(S) /\ Len(b) = 4 /\ b[1] = s[1] /\ b[2] = s[2] /\ b[3] = t[1] /\ b[4] = t[2]
  BY <1>1
<1>3. a \in Seq(S) /\ Len(a) = 4 /\ a[1] = s[1] /\ a[2] = s[2] /\ a[3] = t[1] /\ a[4] = t[2]
  <2>1. /\ a \in Seq(S) /\ Len(a) = Len(s) + Len(t)
        /\ \A k \in 1..(Len(s) + Len(t)) :
               a[k] = IF k <= Len(s) THEN s[k] ELSE t[k - Len(s)]
    BY ConcatProperties
  <2> HIDE DEF a
  <2>2. Len(a) = 4
    BY <2>1
  <2>3. a[1] = s[1] /\ a[2] = s[2]
    BY <2>1
  <2>4. a[3] = t[3 - 2] /\ a[4] = t[4 - 2]
    BY <2>1
  <2> QED BY <2>1, <2>2, <2>3, <2>4
<1> HIDE DEF a, b
<1>4. \A k \in 1..4 : a[k] = b[k]
  <2>1. \A k \in 1..4 : k = 1 \/ k = 2 \/ k = 3 \/ k = 4
    OBVIOUS
  <2> QED BY <1>2, <1>3, <2>1
<1>5. a = b
  BY <1>2, <1>3, <1>4, SeqEqual
<1> QED BY <1>5 DEF a, b

(* The tables: with extended section indices, and without.                 *)
LEMMA TableItemsAre ==
    /\ TableItems(0) = <<<<"symtab", 0>>, <<"strtab", 0>>, <<"shstrtab", 0>>>>
    /\ TableItems(1) = <<<<"symtab", 0>>, <<"symtab_shndx", 0>>, <<"strtab", 0>>,
                         <<"shstrtab", 0>>>>
    /\ <<"symtab", 0>> \in Items /\ <<"symtab_shndx", 0>> \in Items
    /\ <<"strtab", 0>> \in Items /\ <<"shstrtab", 0>> \in Items
<1> DEFINE u == <<"symtab", 0>>
           v == <<"symtab_shndx", 0>>
           w == <<"strtab", 0>>
           z == <<"shstrtab", 0>>
<1>1. u \in Items /\ v \in Items /\ w \in Items /\ z \in Items
  BY DEF Items
<1>2. /\ TableItems(0) = (<<u>> \o <<>>) \o <<w, z>>
      /\ TableItems(1) = (<<u>> \o <<v>>) \o <<w, z>>
  BY DEF TableItems
<1> HIDE DEF u, v, w, z
<1>3. <<u>> \o <<>> = <<u>>
  OBVIOUS
<1>4. <<u>> \o <<v>> = <<u, v>> /\ <<u, v>> \o <<w, z>> = <<u, v, w, z>>
  <2>1. <<u>> \o <<v>> = <<u, v>>
    BY <1>1, JoinPair
  <2>2. <<u, v>> \o <<w, z>> = <<u, v, w, z>>
    <3> DEFINE s == <<u, v>>
               t == <<w, z>>
    <3>1. /\ s \in Seq(Items) /\ Len(s) = 2 /\ s[1] = u /\ s[2] = v
          /\ t \in Seq(Items) /\ Len(t) = 2 /\ t[1] = w /\ t[2] = z
      BY <1>1
    <3> HIDE DEF s, t
    <3>2. s \o t = <<s[1], s[2], t[1], t[2]>>
      BY <3>1, JoinPairs
    <3>3. s \o t = <<u, v, w, z>>
      BY <3>1, <3>2
    <3> QED BY <3>3 DEF s, t
  <2> QED BY <2>1, <2>2
<1>5. <<u>> \o <<w, z>> = <<u, w, z>>
  BY <1>1, JoinThree
<1>6. TableItems(0) = <<u, w, z>> /\ TableItems(1) = <<u, v, w, z>>
  BY <1>2, <1>3, <1>4, <1>5, Zenon
<1> QED BY <1>1, <1>6 DEF u, v, w, z

(* All the parts from i to j have nothing for F.                           *)
Rest(F, o, i, j) == \A k \in i..j : Idle(F, o, k)

LEMMA RestBlank ==
    ASSUME NEW F \in Picks, NEW o, Valid(o), NEW i \in 1..25, NEW j \in 0..24, Rest(F, o, i, j)
    PROVE  Blank(Picked(F, o), i, j)
<1> SUFFICES ASSUME NEW k \in i..j PROVE Picked(F, o)[k] = <<>>
  BY DEF Blank
<1>1. k \in 1..24 /\ Idle(F, o, k)
  BY DEF Rest
<1> QED BY <1>1, IdlePart

LEMMA ThreeParts ==
    ASSUME NEW F \in Picks, NEW o, Valid(o),
           NEW n \in 2..24, NEW m \in (n + 1)..24, NEW p \in (m + 1)..24,
           Rest(F, o, 1, n - 1), Rest(F, o, n + 1, m - 1), Rest(F, o, m + 1, p - 1),
           NEW f, FlatSteps(f, Picked(F, o), Items)
    PROVE  f[p] = (Picked(F, o)[n] \o Picked(F, o)[m]) \o Picked(F, o)[p]
<1> DEFINE ss == Picked(F, o)
<1>1. ss \in Seq(Seq(Items)) /\ Len(ss) = 24 /\ FlatSteps(f, ss, Items)
  BY PickedParts
<1>2. /\ n \in 2..24 /\ m \in (n + 1)..24 /\ p \in (m + 1)..24
      /\ n \in 1..24 /\ m \in 1..24 /\ p \in 1..24
      /\ n - 1 \in 0..24 /\ m - 1 \in 0..24 /\ p - 1 \in 0..24
      /\ n + 1 \in 1..25 /\ m + 1 \in 1..25 /\ 1 \in 1..25
  OBVIOUS
<1>3. Blank(ss, 1, n - 1) /\ Blank(ss, n + 1, m - 1) /\ Blank(ss, m + 1, p - 1)
  BY <1>2, RestBlank
<1> HIDE DEF ss
<1>4. f[n] = ss[n]
  <2>1. n \in 2..Len(ss)
    BY <1>1, <1>2
  <2> QED BY <1>1, <1>3, <2>1, FirstPart, SMTT(30), ZenonT(30)
<1>5. f[m] = f[n] \o ss[m]
  <2>1. n \in 1..Len(ss) /\ m \in (n + 1)..Len(ss)
    BY <1>1, <1>2
  <2> QED BY <1>1, <1>3, <2>1, NextPart
<1>6. f[p] = f[m] \o ss[p]
  <2>1. m \in 1..Len(ss) /\ p \in (m + 1)..Len(ss)
    BY <1>1, <1>2
  <2> QED BY <1>1, <1>3, <2>1, NextPart
<1>7. f[p] = (ss[n] \o ss[m]) \o ss[p]
  BY <1>4, <1>5, <1>6, Zenon
<1> QED BY <1>7 DEF ss

(* Each element has the one item that the sequence a has there.            *)
LEMMA FlattenItems ==
    ASSUME NEW n \in Nat, NEW a \in Seq(Items), Len(a) = n, NEW r,
           r = [i \in 1..n |-> r[i]], \A i \in 1..n : r[i] = <<a[i]>>
    PROVE  FlattenSeq(r) = a
<1>1. r = [k \in DOMAIN a |-> <<a[k]>>]
  OBVIOUS
<1> QED BY <1>1, FlattenSingles

LEMMA GroupItemsType ==
    ASSUME NEW o, Valid(o)
    PROVE  GroupItems(o) \in Seq(Items) /\ Len(GroupItems(o)) = Len(o.comdats)
<1>1. Len(o.comdats) \in Nat
  BY DEF Valid
<1>2. \A i \in 1..Len(o.comdats) : <<"comdat", i>> \in Items
  BY <1>1 DEF Items
<1> QED BY <1>1, <1>2 DEF GroupItems

LEMMA IndexedCall ==
    ASSUME NEW x, NEW f \in CallNames, NEW i \in Nat
    PROVE  /\ f = "comdat_index" => Indexed(x)[Call(f, i, 0)] = <<<<"comdat", i>>>>
           /\ f = "section_index" => Indexed(x)[Call(f, i, 0)] = <<<<"data", i>>>>
           /\ f = "reloc_index" => Indexed(x)[Call(f, i, 0)] = <<<<"reloc", i>>>>
           /\ f = "symtab_index" => Indexed(x)[Call(f, i, 0)] = <<<<"symtab", 0>>>>
           /\ f = "symtab_shndx_index" =>
                  Indexed(x)[Call(f, i, 0)] = IF x = 1 THEN <<<<"symtab_shndx", 0>>>> ELSE <<>>
           /\ f = "strtab_index" => Indexed(x)[Call(f, i, 0)] = <<<<"strtab", 0>>>>
           /\ f = "shstrtab_index" => Indexed(x)[Call(f, i, 0)] = <<<<"shstrtab", 0>>>>
           /\ f \notin {"comdat_index", "section_index", "reloc_index",
                      "symtab_index", "symtab_shndx_index",
                      "strtab_index", "shstrtab_index"} =>
                  Indexed(x)[Call(f, i, 0)] = <<>>
<1> DEFINE c == Call(f, i, 0)
<1>1. c \in CallSet /\ c.call = f /\ c.i = i
  BY CallFields
<1> HIDE DEF c
<1>2. /\ f = "comdat_index" => Indexed(x)[c] = <<<<"comdat", i>>>>
      /\ f = "section_index" => Indexed(x)[c] = <<<<"data", i>>>>
      /\ f = "reloc_index" => Indexed(x)[c] = <<<<"reloc", i>>>>
      /\ f = "symtab_index" => Indexed(x)[c] = <<<<"symtab", 0>>>>
      /\ f = "symtab_shndx_index" =>
             Indexed(x)[c] = IF x = 1 THEN <<<<"symtab_shndx", 0>>>> ELSE <<>>
      /\ f = "strtab_index" => Indexed(x)[c] = <<<<"strtab", 0>>>>
      /\ f = "shstrtab_index" => Indexed(x)[c] = <<<<"shstrtab", 0>>>>
      /\ f \notin {"comdat_index", "section_index", "reloc_index",
                 "symtab_index", "symtab_shndx_index",
                 "strtab_index", "shstrtab_index"} =>
             Indexed(x)[c] = <<>>
  BY <1>1 DEF Indexed
<1> QED BY <1>2 DEF c

LEMMA HeadedCall ==
    ASSUME NEW x, NEW f \in CallNames, NEW i \in Nat
    PROVE  /\ f = "write_comdat_header" => Headed(x)[Call(f, i, 0)] = <<<<"comdat", i>>>>
           /\ f = "write_section_header" => Headed(x)[Call(f, i, 0)] = <<<<"data", i>>>>
           /\ f = "write_reloc_header" => Headed(x)[Call(f, i, 0)] = <<<<"reloc", i>>>>
           /\ f = "write_symtab_header" => Headed(x)[Call(f, i, 0)] = <<<<"symtab", 0>>>>
           /\ f = "write_symtab_shndx_header" =>
                  Headed(x)[Call(f, i, 0)] = IF x = 1 THEN <<<<"symtab_shndx", 0>>>> ELSE <<>>
           /\ f = "write_strtab_header" => Headed(x)[Call(f, i, 0)] = <<<<"strtab", 0>>>>
           /\ f = "write_shstrtab_header" => Headed(x)[Call(f, i, 0)] = <<<<"shstrtab", 0>>>>
           /\ f \notin {"write_comdat_header", "write_section_header", "write_reloc_header",
                      "write_symtab_header", "write_symtab_shndx_header",
                      "write_strtab_header", "write_shstrtab_header"} =>
                  Headed(x)[Call(f, i, 0)] = <<>>
<1> DEFINE c == Call(f, i, 0)
<1>1. c \in CallSet /\ c.call = f /\ c.i = i
  BY CallFields
<1> HIDE DEF c
<1>2. /\ f = "write_comdat_header" => Headed(x)[c] = <<<<"comdat", i>>>>
      /\ f = "write_section_header" => Headed(x)[c] = <<<<"data", i>>>>
      /\ f = "write_reloc_header" => Headed(x)[c] = <<<<"reloc", i>>>>
      /\ f = "write_symtab_header" => Headed(x)[c] = <<<<"symtab", 0>>>>
      /\ f = "write_symtab_shndx_header" =>
             Headed(x)[c] = IF x = 1 THEN <<<<"symtab_shndx", 0>>>> ELSE <<>>
      /\ f = "write_strtab_header" => Headed(x)[c] = <<<<"strtab", 0>>>>
      /\ f = "write_shstrtab_header" => Headed(x)[c] = <<<<"shstrtab", 0>>>>
      /\ f \notin {"write_comdat_header", "write_section_header", "write_reloc_header",
                 "write_symtab_header", "write_symtab_shndx_header",
                 "write_strtab_header", "write_shstrtab_header"} =>
             Headed(x)[c] = <<>>
  BY <1>1 DEF Headed
<1> QED BY <1>2 DEF c

LEMMA GroupsIndexed ==
    ASSUME NEW x, NEW o, Valid(o) PROVE Picked(Indexed(x), o)[2] = GroupItems(o)
<1> DEFINE F == Indexed(x)
           n == Len(o.comdats)
           r == [i \in 1..n |-> F[Call("comdat_index", i, 0)] \o F[Call("comdat", i, 0)]]
           a == GroupItems(o)
<1>1. n \in Nat /\ F \in Picks /\ a \in Seq(Items) /\ Len(a) = n
  BY IndexedType, GroupItemsType DEF Valid
<1>2. Pick(F, Parts(o)[2]) = FlattenSeq(r)
  BY <1>1, PickComdats
<1>3. ASSUME NEW i \in 1..n PROVE r[i] = <<a[i]>>
  <2>1. i \in Nat /\ "comdat_index" \in CallNames /\ "comdat" \in CallNames
    BY <1>1 DEF CallNames
  <2> DEFINE g == "comdat_index"
             h == "comdat"
             v == <<<<"comdat", i>>>>
  <2>2. F[Call(g, i, 0)] = v
    BY <2>1, IndexedCall
  <2>3. F[Call(h, i, 0)] = <<>>
    BY <2>1, IndexedCall
  <2>4. v \o <<>> = v /\ v = <<a[i]>>
    BY DEF GroupItems
  <2>5. r[i] = F[Call(g, i, 0)] \o F[Call(h, i, 0)]
    OBVIOUS
  <2> HIDE DEF F, a, r, g, h, v
  <2> QED BY <2>2, <2>3, <2>4, <2>5, Zenon
<1>4. r = [i \in 1..n |-> r[i]]
  OBVIOUS
<1> HIDE DEF r, n, a, F
<1>5. FlattenSeq(r) = a
  BY <1>1, <1>3, <1>4, FlattenItems
<1>6. Pick(F, Parts(o)[2]) = a
  BY <1>2, <1>5
<1>7. Picked(F, o)[2] = Pick(F, Parts(o)[2])
  BY DEF Picked
<1> QED BY <1>6, <1>7 DEF a, F

LEMMA GroupsHeaded ==
    ASSUME NEW x, NEW o, Valid(o) PROVE Picked(Headed(x), o)[22] = GroupItems(o)
<1> DEFINE F == Headed(x)
           n == Len(o.comdats)
           r == [i \in 1..n |-> F[Call("write_comdat_header", i, 0)]]
           a == GroupItems(o)
<1>1. n \in Nat /\ F \in Picks /\ a \in Seq(Items) /\ Len(a) = n
  BY HeadedType, GroupItemsType DEF Valid
<1>2. Pick(F, Parts(o)[22]) = FlattenSeq(r)
  BY <1>1, PickComdatHeaders
<1>3. ASSUME NEW i \in 1..n PROVE r[i] = <<a[i]>>
  <2>1. i \in Nat /\ "write_comdat_header" \in CallNames
    BY <1>1 DEF CallNames
  <2>2. F[Call("write_comdat_header", i, 0)] = <<<<"comdat", i>>>>
    BY <2>1, HeadedCall
  <2> QED BY <2>2 DEF GroupItems
<1>4. r = [i \in 1..n |-> r[i]]
  OBVIOUS
<1> HIDE DEF r, n, a, F
<1>5. FlattenSeq(r) = a
  BY <1>1, <1>3, <1>4, FlattenItems
<1>6. Pick(F, Parts(o)[22]) = a
  BY <1>2, <1>5
<1>7. Picked(F, o)[22] = Pick(F, Parts(o)[22])
  BY DEF Picked
<1> QED BY <1>6, <1>7 DEF a, F

LEMMA SectionItemsType ==
    ASSUME NEW o, Valid(o) PROVE SectionItems(o) \in Seq(Items)
<1> DEFINE n == Len(o.sections)
           e == [i \in 1..n |-> <<<<"data", i>>>> \o (IF o.sections[i].relocs = <<>>
                                                    THEN <<>> ELSE <<<<"reloc", i>>>>)]
<1>1. n \in Nat
  BY DEF Valid
<1>2. ASSUME NEW i \in 1..n PROVE e[i] \in Seq(Items)
  <2>1. <<"data", i>> \in Items /\ <<"reloc", i>> \in Items
    BY <1>1 DEF Items
  <2> DEFINE u == <<"data", i>>
             v == <<"reloc", i>>
  <2>2. u \in Items /\ v \in Items
    BY <2>1
  <2>3. e[i] = <<u>> \o (IF o.sections[i].relocs = <<>> THEN <<>> ELSE <<v>>)
    OBVIOUS
  <2> HIDE DEF u, v, e
  <2> QED BY <2>2, <2>3
<1>3. e = [i \in 1..n |-> e[i]]
  OBVIOUS
<1>4. SectionItems(o) = FlattenSeq(e)
  BY DEF SectionItems
<1> HIDE DEF e, n
<1> QED BY <1>1, <1>2, <1>3, <1>4, Elements

LEMMA SectionsIndexed ==
    ASSUME NEW x, NEW o, Valid(o) PROVE Picked(Indexed(x), o)[3] = SectionItems(o)
<1> DEFINE F == Indexed(x)
           n == Len(o.sections)
           r == [i \in 1..n |-> (F[Call("section_index", i, 0)] \o F[Call("data", i, 0)])
                     \o (IF o.sections[i].relocs = <<>> THEN <<>>
                         ELSE F[Call("reloc_index", i, 0)])]
           e == [i \in 1..n |-> <<<<"data", i>>>> \o (IF o.sections[i].relocs = <<>>
                                                    THEN <<>> ELSE <<<<"reloc", i>>>>)]
<1>1. n \in Nat /\ F \in Picks
  BY IndexedType DEF Valid
<1>2. Pick(F, Parts(o)[3]) = FlattenSeq(r)
  BY <1>1, PickSections
<1>3. SectionItems(o) = FlattenSeq(e)
  BY DEF SectionItems
<1>4. ASSUME NEW i \in 1..n PROVE r[i] = e[i]
  <2>1. i \in Nat /\ "section_index" \in CallNames /\ "data" \in CallNames
        /\ "reloc_index" \in CallNames
    BY <1>1 DEF CallNames
  <2> DEFINE g == F[Call("section_index", i, 0)]
             h == F[Call("data", i, 0)]
             b == F[Call("reloc_index", i, 0)]
             v == <<<<"data", i>>>>
             w == <<<<"reloc", i>>>>
  <2>2. g = v
    BY <2>1, IndexedCall
  <2>3. h = <<>>
    BY <2>1, IndexedCall
  <2>4. b = w
    BY <2>1, IndexedCall
  <2>5. v \o <<>> = v
    OBVIOUS
  <2>6. /\ r[i] = (g \o h) \o (IF o.sections[i].relocs = <<>> THEN <<>> ELSE b)
        /\ e[i] = v \o (IF o.sections[i].relocs = <<>> THEN <<>> ELSE w)
    OBVIOUS
  <2> HIDE DEF F, r, e, g, h, b, v, w
  <2> QED BY <2>2, <2>3, <2>4, <2>5, <2>6, Zenon
<1>5. r = e
  BY <1>4
<1> HIDE DEF r, e, n, F
<1>6. Pick(F, Parts(o)[3]) = SectionItems(o)
  BY <1>2, <1>3, <1>5
<1>7. Picked(F, o)[3] = Pick(F, Parts(o)[3])
  BY DEF Picked
<1> QED BY <1>6, <1>7 DEF F

LEMMA SectionsHeaded ==
    ASSUME NEW x, NEW o, Valid(o) PROVE Picked(Headed(x), o)[23] = SectionItems(o)
<1> DEFINE F == Headed(x)
           n == Len(o.sections)
           r == [i \in 1..n |-> F[Call("write_section_header", i, 0)]
                     \o (IF o.sections[i].relocs = <<>> THEN <<>>
                         ELSE F[Call("write_reloc_header", i, 0)])]
           e == [i \in 1..n |-> <<<<"data", i>>>> \o (IF o.sections[i].relocs = <<>>
                                                    THEN <<>> ELSE <<<<"reloc", i>>>>)]
<1>1. n \in Nat /\ F \in Picks
  BY HeadedType DEF Valid
<1>2. Pick(F, Parts(o)[23]) = FlattenSeq(r)
  BY <1>1, PickDataHeaders
<1>3. SectionItems(o) = FlattenSeq(e)
  BY DEF SectionItems
<1>4. ASSUME NEW i \in 1..n PROVE r[i] = e[i]
  <2>1. i \in Nat /\ "write_section_header" \in CallNames
        /\ "write_reloc_header" \in CallNames
    BY <1>1 DEF CallNames
  <2> DEFINE g == F[Call("write_section_header", i, 0)]
             b == F[Call("write_reloc_header", i, 0)]
             v == <<<<"data", i>>>>
             w == <<<<"reloc", i>>>>
  <2>2. g = v
    BY <2>1, HeadedCall
  <2>3. b = w
    BY <2>1, HeadedCall
  <2>4. /\ r[i] = g \o (IF o.sections[i].relocs = <<>> THEN <<>> ELSE b)
        /\ e[i] = v \o (IF o.sections[i].relocs = <<>> THEN <<>> ELSE w)
    OBVIOUS
  <2> HIDE DEF F, r, e, g, b, v, w
  <2> QED BY <2>2, <2>3, <2>4, Zenon
<1>5. r = e
  BY <1>4
<1> HIDE DEF r, e, n, F
<1>6. Pick(F, Parts(o)[23]) = SectionItems(o)
  BY <1>2, <1>3, <1>5
<1>7. Picked(F, o)[23] = Pick(F, Parts(o)[23])
  BY DEF Picked
<1> QED BY <1>6, <1>7 DEF F

LEMMA TablesIndexed ==
    ASSUME NEW x \in {0, 1}, NEW o, Valid(o)
    PROVE  /\ Picked(Indexed(x), o)[9] \o Picked(Indexed(x), o)[11] = TableItems(x)
           /\ Picked(Indexed(x), o)[9] \in Seq(Items) /\ Picked(Indexed(x), o)[11] \in Seq(Items)
<1> DEFINE F == Indexed(x)
           u == <<"symtab", 0>>
           v == <<"symtab_shndx", 0>>
           w == <<"strtab", 0>>
           z == <<"shstrtab", 0>>
           s == IF x = 1 THEN <<v>> ELSE <<>>
<1>1. F \in Picks /\ u \in Items /\ v \in Items /\ w \in Items /\ z \in Items
  BY IndexedType, TableItemsAre
<1>2. /\ Picked(F, o)[9] = Pick(F, Parts(o)[9]) /\ Picked(F, o)[11] = Pick(F, Parts(o)[11])
  BY DEF Picked
<1>3. /\ "symtab_index" \in CallNames /\ "symtab" \in CallNames
      /\ "symtab_shndx_index" \in CallNames
      /\ "symtab_shndx" \in CallNames /\ "strtab_index" \in CallNames
      /\ "strtab" \in CallNames /\ "shstrtab_index" \in CallNames
      /\ "shstrtab" \in CallNames /\ "section_headers" \in CallNames
  BY DEF CallNames
<1>4. /\ F[Call("symtab_index", 0, 0)] = <<u>> /\ F[Call("strtab_index", 0, 0)] = <<w>>
      /\ F[Call("shstrtab_index", 0, 0)] = <<z>>
      /\ F[Call("symtab_shndx_index", 0, 0)] = s
  BY <1>3, IndexedCall
<1>5. /\ F[Call("symtab", 0, 0)] = <<>> /\ F[Call("symtab_shndx", 0, 0)] = <<>>
      /\ F[Call("strtab", 0, 0)] = <<>> /\ F[Call("shstrtab", 0, 0)] = <<>>
      /\ F[Call("section_headers", 0, 0)] = <<>>
  BY <1>3, IndexedCall
<1>6. Pick(F, Parts(o)[9]) =
          ((((F[Call("symtab_index", 0, 0)] \o F[Call("symtab", 0, 0)])
          \o F[Call("symtab_shndx_index", 0, 0)]) \o F[Call("symtab_shndx", 0, 0)])
          \o F[Call("strtab_index", 0, 0)]) \o F[Call("strtab", 0, 0)]
  BY <1>1, PartNine
<1>7. Pick(F, Parts(o)[11]) =
          (F[Call("shstrtab_index", 0, 0)] \o F[Call("shstrtab", 0, 0)])
          \o F[Call("section_headers", 0, 0)]
  BY <1>1, PartLast
<1> HIDE DEF F
<1>8. Pick(F, Parts(o)[9]) = ((((<<u>> \o <<>>) \o s) \o <<>>) \o <<w>>) \o <<>>
  BY <1>4, <1>5, <1>6, Zenon
<1>9. Pick(F, Parts(o)[11]) = (<<z>> \o <<>>) \o <<>>
  BY <1>4, <1>5, <1>7, Zenon
<1>10. /\ TableItems(0) = <<u, w, z>> /\ TableItems(1) = <<u, v, w, z>>
  BY TableItemsAre
<1> HIDE DEF u, v, w, z
<1>11. \A t \in Seq(Items) : t \o <<>> = t
  OBVIOUS
<1>12. <<u>> \in Seq(Items) /\ <<z>> \in Seq(Items) /\ <<u, v>> \in Seq(Items)
       /\ <<u, w>> \in Seq(Items) /\ <<u, v, w>> \in Seq(Items)
  BY <1>1
<1>13. Pick(F, Parts(o)[11]) = <<z>>
  BY <1>9, <1>11, <1>12, Zenon
<1>14. CASE x = 1
  <2>1. s = <<v>>
    BY <1>14
  <2> HIDE DEF s
  <2>2. <<u>> \o <<v>> = <<u, v>>
    BY <1>1, JoinPair
  <2>3. <<u, v>> \o <<w>> = <<u, v, w>>
    BY <1>1, JoinThree
  <2>4. Pick(F, Parts(o)[9]) = <<u, v, w>>
    BY <1>8, <1>11, <1>12, <2>1, <2>2, <2>3, Zenon
  <2>5. <<u, v, w>> \o <<z>> = <<u, v, w, z>>
    <3> DEFINE a == <<u, v, w>>
               b == <<u, v, w, z>>
    <3>1. a \in Seq(Items) /\ b \in Seq(Items) /\ Len(b) = Len(a) + 1 /\ b[Len(b)] = z
          /\ \A k \in 1..Len(a) : b[k] = a[k]
      BY <1>1
    <3> HIDE DEF a, b
    <3>2. a \o <<z>> = b
      BY <1>1, <3>1, JoinOne
    <3> QED BY <3>2 DEF a, b
  <2>6. Picked(F, o)[9] \o Picked(F, o)[11] = TableItems(x)
    BY <1>2, <1>10, <1>13, <1>14, <2>4, <2>5, Zenon
  <2>7. Picked(F, o)[9] \in Seq(Items) /\ Picked(F, o)[11] \in Seq(Items)
    BY <1>2, <1>12, <1>13, <2>4, Zenon
  <2> QED BY <2>6, <2>7 DEF F
<1>15. CASE x = 0
  <2>1. s = <<>>
    BY <1>15
  <2> HIDE DEF s
  <2>2. <<u>> \o <<w>> = <<u, w>>
    BY <1>1, JoinPair
  <2>3. <<u, w>> \o <<z>> = <<u, w, z>>
    BY <1>1, JoinThree
  <2>4. Pick(F, Parts(o)[9]) = <<u, w>>
    BY <1>8, <1>11, <1>12, <2>1, <2>2, <2>3, Zenon
  <2>5. Picked(F, o)[9] \o Picked(F, o)[11] = TableItems(x)
    BY <1>2, <1>10, <1>13, <1>15, <2>3, <2>4, Zenon
  <2>6. Picked(F, o)[9] \in Seq(Items) /\ Picked(F, o)[11] \in Seq(Items)
    BY <1>2, <1>12, <1>13, <2>4, Zenon
  <2> QED BY <2>5, <2>6 DEF F
<1> QED BY <1>14, <1>15

LEMMA TablesHeaded ==
    ASSUME NEW x \in {0, 1}, NEW o, Valid(o)
    PROVE  Picked(Headed(x), o)[24] = TableItems(x)
<1> DEFINE F == Headed(x)
           u == <<"symtab", 0>>
           v == <<"symtab_shndx", 0>>
           w == <<"strtab", 0>>
           z == <<"shstrtab", 0>>
           s == IF x = 1 THEN <<v>> ELSE <<>>
<1>1. F \in Picks /\ u \in Items /\ v \in Items /\ w \in Items /\ z \in Items
  BY HeadedType, TableItemsAre
<1>2. Picked(F, o)[24] = Pick(F, Parts(o)[24])
  BY DEF Picked
<1>3. /\ "write_symtab_header" \in CallNames /\ "write_symtab_shndx_header" \in CallNames
      /\ "write_strtab_header" \in CallNames /\ "write_shstrtab_header" \in CallNames
  BY DEF CallNames
<1>4. /\ F[Call("write_symtab_header", 0, 0)] = <<u>>
      /\ F[Call("write_strtab_header", 0, 0)] = <<w>>
      /\ F[Call("write_shstrtab_header", 0, 0)] = <<z>>
      /\ F[Call("write_symtab_shndx_header", 0, 0)] = s
  BY <1>3, HeadedCall
<1>6. Pick(F, Parts(o)[24]) =
          ((F[Call("write_symtab_header", 0, 0)]
          \o F[Call("write_symtab_shndx_header", 0, 0)])
          \o F[Call("write_strtab_header", 0, 0)])
          \o F[Call("write_shstrtab_header", 0, 0)]
  BY <1>1, PartLast
<1> HIDE DEF F
<1>8. Pick(F, Parts(o)[24]) = ((<<u>> \o s) \o <<w>>) \o <<z>>
  BY <1>4, <1>6, Zenon
<1>10. /\ TableItems(0) = <<u, w, z>> /\ TableItems(1) = <<u, v, w, z>>
  BY TableItemsAre
<1> HIDE DEF u, v, w, z
<1>11. <<u>> \o <<>> = <<u>>
  OBVIOUS
<1>14. CASE x = 1
  <2>1. s = <<v>>
    BY <1>14
  <2> HIDE DEF s
  <2>2. <<u>> \o <<v>> = <<u, v>>
    BY <1>1, JoinPair
  <2>3. <<u, v>> \o <<w>> = <<u, v, w>>
    BY <1>1, JoinThree
  <2>5. <<u, v, w>> \o <<z>> = <<u, v, w, z>>
    <3> DEFINE a == <<u, v, w>>
               b == <<u, v, w, z>>
    <3>1. a \in Seq(Items) /\ b \in Seq(Items) /\ Len(b) = Len(a) + 1 /\ b[Len(b)] = z
          /\ \A k \in 1..Len(a) : b[k] = a[k]
      BY <1>1
    <3> HIDE DEF a, b
    <3>2. a \o <<z>> = b
      BY <1>1, <3>1, JoinOne
    <3> QED BY <3>2 DEF a, b
  <2>6. Picked(F, o)[24] = TableItems(x)
    BY <1>2, <1>8, <1>10, <1>14, <2>1, <2>2, <2>3, <2>5, Zenon
  <2> QED BY <2>6 DEF F
<1>15. CASE x = 0
  <2>1. s = <<>>
    BY <1>15
  <2> HIDE DEF s
  <2>2. <<u>> \o <<w>> = <<u, w>>
    BY <1>1, JoinPair
  <2>3. <<u, w>> \o <<z>> = <<u, w, z>>
    BY <1>1, JoinThree
  <2>5. Picked(F, o)[24] = TableItems(x)
    BY <1>2, <1>8, <1>10, <1>11, <1>15, <2>1, <2>2, <2>3, Zenon
  <2> QED BY <2>5 DEF F
<1> QED BY <1>14, <1>15

LEMMA DirectoryType ==
    ASSUME NEW x \in {0, 1}, NEW o, Valid(o)
    PROVE  /\ GroupItems(o) \in Seq(Items) /\ SectionItems(o) \in Seq(Items)
           /\ TableItems(x) \in Seq(Items) /\ Len(TableItems(x)) >= 3
           /\ Directory(o, x) \in Seq(Items)
           /\ Len(Directory(o, x)) = Len(GroupItems(o)) + Len(SectionItems(o))
                                     + Len(TableItems(x))
<1>1. GroupItems(o) \in Seq(Items) /\ SectionItems(o) \in Seq(Items)
  BY GroupItemsType, SectionItemsType
<1>2. TableItems(x) \in Seq(Items) /\ Len(TableItems(x)) >= 3
  <2> DEFINE u == <<"symtab", 0>>
             v == <<"symtab_shndx", 0>>
             w == <<"strtab", 0>>
             z == <<"shstrtab", 0>>
  <2>1. /\ u \in Items /\ v \in Items /\ w \in Items /\ z \in Items
        /\ TableItems(0) = <<u, w, z>> /\ TableItems(1) = <<u, v, w, z>>
    BY TableItemsAre
  <2> HIDE DEF u, v, w, z
  <2>2. <<u, w, z>> \in Seq(Items) /\ <<u, v, w, z>> \in Seq(Items)
        /\ Len(<<u, w, z>>) = 3 /\ Len(<<u, v, w, z>>) = 4
    BY <2>1
  <2>3. /\ TableItems(0) \in Seq(Items) /\ TableItems(1) \in Seq(Items)
        /\ Len(TableItems(0)) = 3 /\ Len(TableItems(1)) = 4
    BY <2>1, <2>2, Zenon
  <2> QED BY <2>3, SMTT(30), ZenonT(30)
<1> DEFINE a == GroupItems(o)
           b == SectionItems(o)
           c == TableItems(x)
<1>3. Directory(o, x) = (a \o b) \o c
  BY DEF Directory
<1> HIDE DEF a, b, c
<1>4. a \in Seq(Items) /\ b \in Seq(Items) /\ c \in Seq(Items)
  BY <1>1, <1>2 DEF a, b, c
<1>5. a \o b \in Seq(Items) /\ Len(a \o b) = Len(a) + Len(b)
  BY <1>4
<1>6. (a \o b) \o c \in Seq(Items) /\ Len((a \o b) \o c) = Len(a \o b) + Len(c)
  BY <1>4, <1>5
<1> QED BY <1>1, <1>2, <1>3, <1>5, <1>6 DEF a, b, c

LEMMA DirectoryHeaded ==
    ASSUME NEW x \in {0, 1}, NEW o, Valid(o)
    PROVE  Left(Headed(x), Directory(o, x), Calls(o), 0)
<1> DEFINE F == Headed(x)
           ss == Picked(F, o)
           n == 22
           m == 23
           p == 24
<1>1. F \in Picks
  BY HeadedType
<1>2. ss \in Seq(Seq(Items)) /\ Len(ss) = 24 /\ Pick(F, Calls(o)) = FlattenSeq(ss)
  BY <1>1, PickedParts
<1>3. ASSUME NEW k \in 1..21 PROVE Idle(F, o, k)
  <2> SUFFICES ASSUME NEW c \in Legal(o), PartOf(o, c) = k PROVE F[c] = <<>>
    BY DEF Idle
  <2>1. c \in CallSet
    BY DEF Legal
  <2>2. c.call \notin {"write_comdat_header", "write_section_header", "write_reloc_header",
                       "write_symtab_header", "write_symtab_shndx_header",
                       "write_strtab_header", "write_shstrtab_header"}
    BY DEF PartOf
  <2> QED BY <2>1, <2>2 DEF Headed
<1>4. /\ n \in 2..24 /\ m \in (n + 1)..24 /\ p \in (m + 1)..24
      /\ Rest(F, o, 1, n - 1) /\ Rest(F, o, n + 1, m - 1) /\ Rest(F, o, m + 1, p - 1)
  BY <1>3 DEF Rest
<1>5. ss[22] = GroupItems(o) /\ ss[23] = SectionItems(o) /\ ss[24] = TableItems(x)
  BY GroupsHeaded, SectionsHeaded, TablesHeaded
<1>6. PICK f : FlatSteps(f, ss, Items)
  <2> HIDE DEF ss
  <2> QED BY <1>2, FlattenSteps
<1>7. FlattenSeq(ss) = f[24]
  BY <1>2, <1>6, SMTT(30), ZenonT(30) DEF FlatSteps
<1> HIDE DEF F, n, m, p
<1>8. f[p] = (ss[n] \o ss[m]) \o ss[p]
  BY <1>1, <1>4, <1>6, ThreeParts, SMTT(30), ZenonT(30)
<1>9. Pick(F, Calls(o)) = Directory(o, x)
  <2> HIDE DEF ss
  <2>1. f[24] = (ss[22] \o ss[23]) \o ss[24]
    BY <1>8 DEF n, m, p
  <2> QED BY <1>2, <1>5, <1>7, <2>1, Zenon DEF Directory
<1>10. Left(F, Directory(o, x), Calls(o), 0)
  BY <1>1, <1>9, LeftStart
<1> QED BY <1>10 DEF F

LEMMA DirectoryIndexed ==
    ASSUME NEW x \in {0, 1}, NEW o, Valid(o)
    PROVE  Left(Indexed(x), Directory(o, x), Calls(o), 0)
<1> DEFINE F == Indexed(x)
           ss == Picked(F, o)
           n == 2
           m == 3
           p == 9
           q == 11
           G == GroupItems(o)
           S == SectionItems(o)
           A == ss[9]
           B == ss[11]
<1>1. F \in Picks
  BY IndexedType
<1>2. ss \in Seq(Seq(Items)) /\ Len(ss) = 24 /\ Pick(F, Calls(o)) = FlattenSeq(ss)
  BY <1>1, PickedParts
<1>3. ASSUME NEW k \in 1..24, k \notin {2, 3, 9, 11} PROVE Idle(F, o, k)
  <2> SUFFICES ASSUME NEW c \in Legal(o), PartOf(o, c) = k PROVE F[c] = <<>>
    BY DEF Idle
  <2>1. c \in CallSet
    BY DEF Legal
  <2>2. c.call \notin {"comdat_index", "section_index", "reloc_index", "symtab_index",
                       "symtab_shndx_index", "strtab_index", "shstrtab_index"}
    BY <1>3 DEF PartOf
  <2> QED BY <2>1, <2>2 DEF Indexed
<1>4. /\ n \in 2..24 /\ m \in (n + 1)..24 /\ p \in (m + 1)..24
      /\ Rest(F, o, 1, n - 1) /\ Rest(F, o, n + 1, m - 1) /\ Rest(F, o, m + 1, p - 1)
  BY <1>3 DEF Rest
<1>5. Rest(F, o, p + 1, q - 1) /\ Rest(F, o, q + 1, 24)
  BY <1>3 DEF Rest
<1>6. ss[2] = G /\ ss[3] = S /\ A \o B = TableItems(x) /\ A \in Seq(Items) /\ B \in Seq(Items)
  BY GroupsIndexed, SectionsIndexed, TablesIndexed
<1>7. PICK f : FlatSteps(f, ss, Items)
  <2> HIDE DEF ss
  <2> QED BY <1>2, FlattenSteps
<1>8. Blank(ss, p + 1, q - 1) /\ Blank(ss, q + 1, 24)
  BY <1>1, <1>5, RestBlank
<1>9. p \in 1..Len(ss) /\ q \in (p + 1)..Len(ss) /\ q \in 1..Len(ss)
  BY <1>2
<1> HIDE DEF F, n, m, p, q
<1>10. f[p] = (ss[n] \o ss[m]) \o ss[p]
  BY <1>1, <1>4, <1>7, ThreeParts, SMTT(30), ZenonT(30)
<1> HIDE DEF ss
<1>11. f[q] = f[p] \o ss[q]
  BY <1>2, <1>7, <1>8, <1>9, NextPart
<1>12. FlattenSeq(ss) = f[q]
  BY <1>2, <1>7, <1>8, <1>9, LastPart
<1>13. FlattenSeq(ss) = ((G \o S) \o A) \o B
  <2>1. f[q] = ((ss[2] \o ss[3]) \o ss[9]) \o ss[11]
    BY <1>10, <1>11, Zenon DEF n, m, p, q
  <2> QED BY <1>6, <1>12, <2>1, Zenon
<1>14. G \in Seq(Items) /\ S \in Seq(Items)
  BY DirectoryType
<1>15. Pick(F, Calls(o)) = Directory(o, x)
  <2> HIDE DEF G, S, A, B
  <2> DEFINE H == G \o S
  <2>1. H \in Seq(Items)
    BY <1>14
  <2> HIDE DEF H
  <2>2. (H \o A) \o B = H \o (A \o B)
    <3>1. A \in Seq(Items) /\ B \in Seq(Items)
      BY <1>6
    <3> QED BY <2>1, <3>1, ConcatAssociative
  <2>3. Directory(o, x) = H \o (A \o B)
    BY <1>6, Zenon DEF Directory, H, G, S
  <2> QED BY <1>2, <1>13, <2>2, <2>3, Zenon DEF H
<1>16. Left(F, Directory(o, x), Calls(o), 0)
  BY <1>1, <1>15, LeftStart
<1> QED BY <1>16 DEF F

(* The sequences where a relocation section follows its section.           *)
Follows == {s \in Seq(Items) : \A k \in 1..Len(s) :
                s[k][1] = "reloc" => k > 1 /\ s[k - 1] = <<"data", s[k][2]>>}

LEMMA FollowsJoin ==
    ASSUME NEW s \in Follows, NEW t \in Follows PROVE s \o t \in Follows
<1> DEFINE a == s \o t
<1>1. s \in Seq(Items) /\ t \in Seq(Items) /\ Len(s) \in Nat /\ Len(t) \in Nat
  BY DEF Follows
<1>2. /\ a \in Seq(Items) /\ Len(a) = Len(s) + Len(t)
      /\ \A k \in 1..(Len(s) + Len(t)) : a[k] = IF k <= Len(s) THEN s[k] ELSE t[k - Len(s)]
  BY <1>1, ConcatProperties
<1> HIDE DEF a
<1>3. ASSUME NEW k \in 1..Len(a), a[k][1] = "reloc"
      PROVE  k > 1 /\ a[k - 1] = <<"data", a[k][2]>>
  <2>1. CASE k <= Len(s)
    <3>1. k \in 1..Len(s) /\ a[k] = s[k]
      BY <1>1, <1>2, <2>1
    <3>2. k > 1 /\ s[k - 1] = <<"data", s[k][2]>>
      BY <1>3, <3>1 DEF Follows
    <3>3. a[k - 1] = s[k - 1]
      BY <1>1, <1>2, <2>1, <3>2
    <3> QED BY <3>1, <3>2, <3>3
  <2>2. CASE k > Len(s)
    <3> DEFINE j == k - Len(s)
    <3>1. j \in 1..Len(t) /\ a[k] = t[j]
      BY <1>1, <1>2, <2>2
    <3> HIDE DEF j
    <3>2. j > 1 /\ t[j - 1] = <<"data", t[j][2]>>
      BY <1>3, <3>1 DEF Follows
    <3>3. k - 1 \in 1..(Len(s) + Len(t)) /\ ~(k - 1 <= Len(s)) /\ (k - 1) - Len(s) = j - 1
          /\ k > 1
      BY <1>1, <1>2, <2>2, <3>1, <3>2 DEF j
    <3>4. a[k - 1] = t[j - 1]
      BY <1>2, <3>3
    <3> QED BY <3>1, <3>2, <3>3, <3>4
  <2> QED BY <1>1, <1>2, <2>1, <2>2
<1>4. a \in Follows
  BY <1>2, <1>3 DEF Follows
<1> QED BY <1>4 DEF a

(* The elements of a section.                                              *)
SectionItem(o, i) == <<<<"data", i>>>> \o (IF o.sections[i].relocs = <<>>
                                           THEN <<>> ELSE <<<<"reloc", i>>>>)

LEMMA SectionItemType ==
    ASSUME NEW o, Valid(o), NEW i \in 1..Len(o.sections)
    PROVE  /\ SectionItem(o, i) \in Follows
           /\ SectionItem(o, i) \in Seq({"data", "reloc"} \X (1..Len(o.sections)))
           /\ SectionItem(o, i) \in Seq(Items)
           /\ 1 \in 1..Len(SectionItem(o, i)) /\ SectionItem(o, i)[1] = <<"data", i>>
           /\ o.sections[i].relocs # <<>> =>
                  2 \in 1..Len(SectionItem(o, i)) /\ SectionItem(o, i)[2] = <<"reloc", i>>
<1> DEFINE u == <<"data", i>>
           v == <<"reloc", i>>
           D == {"data", "reloc"} \X (1..Len(o.sections))
           s == SectionItem(o, i)
<1>1. /\ u \in D /\ v \in D /\ D \subseteq Items
      /\ u[1] = "data" /\ u[2] = i /\ v[1] = "reloc" /\ v[2] = i /\ u = <<"data", v[2]>>
      /\ u[1] # "reloc"
  <2>1. Len(o.sections) \in Nat
    BY DEF Valid
  <2>2. 1..Len(o.sections) \subseteq Nat
    BY <2>1
  <2> QED BY <2>2 DEF Items
<1>2. s = <<u>> \o (IF o.sections[i].relocs = <<>> THEN <<>> ELSE <<v>>)
  BY DEF SectionItem
<1> HIDE DEF u, v, D, s
<1>3. CASE o.sections[i].relocs = <<>>
  <2>1. s = <<u>>
    BY <1>2, <1>3
  <2>2. s \in Seq(D) /\ Len(s) = 1 /\ s[1] = u
    BY <1>1, <2>1
  <2>3. s \in Seq(Items)
    BY <1>1, <2>2
  <2>4. ASSUME NEW k \in 1..Len(s), s[k][1] = "reloc" PROVE FALSE
    <3>1. k = 1
      BY <2>2
    <3> QED BY <1>1, <2>2, <2>4, <3>1
  <2>5. s \in Follows
    BY <2>3, <2>4 DEF Follows
  <2> QED BY <1>3, <2>2, <2>3, <2>5 DEF s, D, u
<1>4. CASE o.sections[i].relocs # <<>>
  <2>1. s = <<u>> \o <<v>>
    BY <1>2, <1>4
  <2>2. s = <<u, v>>
    BY <1>1, <2>1, JoinPair
  <2>3. s \in Seq(D) /\ Len(s) = 2 /\ s[1] = u /\ s[2] = v
    BY <1>1, <2>2
  <2>4. s \in Seq(Items)
    BY <1>1, <2>3
  <2>5. ASSUME NEW k \in 1..Len(s), s[k][1] = "reloc"
        PROVE  k > 1 /\ s[k - 1] = <<"data", s[k][2]>>
    <3>1. k = 1 \/ k = 2
      BY <2>3
    <3>2. k = 2
      BY <1>1, <2>3, <2>5, <3>1
    <3>3. k > 1 /\ s[k - 1] = s[1] /\ s[k] = v
      BY <2>3, <3>2
    <3> QED BY <1>1, <2>3, <3>3
  <2>6. s \in Follows
    BY <2>4, <2>5 DEF Follows
  <2> QED BY <2>3, <2>4, <2>6 DEF s, D, u, v
<1> QED BY <1>3, <1>4

LEMMA SectionItemsFacts ==
    ASSUME NEW o, Valid(o)
    PROVE  /\ SectionItems(o) \in Follows
           /\ SectionItems(o) \in Seq({"data", "reloc"} \X (1..Len(o.sections)))
           /\ \A i \in 1..Len(o.sections) :
                /\ \E k \in 1..Len(SectionItems(o)) : SectionItems(o)[k] = <<"data", i>>
                /\ o.sections[i].relocs # <<>> =>
                       \E k \in 1..Len(SectionItems(o)) : SectionItems(o)[k] = <<"reloc", i>>
<1> DEFINE n == Len(o.sections)
           D == {"data", "reloc"} \X (1..Len(o.sections))
           e == [i \in 1..n |-> SectionItem(o, i)]
           E == Seq(Items)
           V == Seq(D)
<1>1. n \in Nat
  BY DEF Valid
<1>2. ASSUME NEW i \in 1..n
      PROVE  e[i] = SectionItem(o, i) /\ e[i] \in Follows /\ e[i] \in V /\ e[i] \in E
  BY SectionItemType
<1>3. SectionItems(o) = FlattenSeq(e)
  BY DEF SectionItems, SectionItem
<1>4. \A s, t \in Follows : s \o t \in Follows
  BY FollowsJoin
<1>5. \A s, t \in V : s \o t \in V
  <2> HIDE DEF D
  <2> QED OBVIOUS
<1>6. <<>> \in Follows /\ <<>> \in V
  <2>1. <<>> \in Seq(Items) /\ \A k \in 1..Len(<<>>) : FALSE
    OBVIOUS
  <2>2. <<>> \in Follows
    BY <2>1 DEF Follows
  <2> QED BY <2>2
<1> HIDE DEF E, V
<1>7. e \in Seq(E) /\ Len(e) = n /\ DOMAIN e = 1..n
  <2>1. e = [i \in 1..n |-> e[i]]
    OBVIOUS
  <2> HIDE DEF e, n
  <2> QED BY <1>1, <1>2, <2>1
<1>8. e \in Seq(Seq(Items))
  BY <1>7 DEF E
<1> HIDE DEF e, n, D
<1>9. \A i \in DOMAIN e : e[i] \in Follows
  BY <1>2, <1>7
<1>10. FlattenSeq(e) \in Follows
  BY <1>4, <1>6, <1>8, <1>9, FlattenIn
<1>11. \A i \in DOMAIN e : e[i] \in V
  BY <1>2, <1>7
<1>12. FlattenSeq(e) \in V
  BY <1>5, <1>6, <1>8, <1>11, FlattenIn
<1>13. ASSUME NEW i \in 1..n
       PROVE  /\ \E k \in 1..Len(FlattenSeq(e)) : FlattenSeq(e)[k] = <<"data", i>>
              /\ o.sections[i].relocs # <<>> =>
                     \E k \in 1..Len(FlattenSeq(e)) : FlattenSeq(e)[k] = <<"reloc", i>>
  <2>1. i \in 1..Len(e)
    BY <1>7
  <2>2. e[i] = SectionItem(o, i) /\ i \in 1..Len(o.sections)
    BY <1>2 DEF n
  <2>3. \A j \in 1..Len(e[i]) : \E k \in 1..Len(FlattenSeq(e)) : FlattenSeq(e)[k] = e[i][j]
    BY <1>8, <2>1, FlattenHas
  <2>4. 1 \in 1..Len(e[i]) /\ e[i][1] = <<"data", i>>
    BY <2>2, SectionItemType
  <2>5. \E k \in 1..Len(FlattenSeq(e)) : FlattenSeq(e)[k] = <<"data", i>>
    <3>1. PICK k \in 1..Len(FlattenSeq(e)) : FlattenSeq(e)[k] = e[i][1]
      BY <2>3, <2>4
    <3> QED BY <2>4, <3>1
  <2>6. ASSUME o.sections[i].relocs # <<>>
        PROVE  \E k \in 1..Len(FlattenSeq(e)) : FlattenSeq(e)[k] = <<"reloc", i>>
    <3>1. 2 \in 1..Len(e[i]) /\ e[i][2] = <<"reloc", i>>
      BY <2>2, <2>6, SectionItemType
    <3>2. PICK k \in 1..Len(FlattenSeq(e)) : FlattenSeq(e)[k] = e[i][2]
      BY <2>3, <3>1
    <3> QED BY <3>1, <3>2
  <2> QED BY <2>5, <2>6
<1> QED BY <1>3, <1>10, <1>12, <1>13 DEF n, V, D

(* What d lists: the groups, then the sections with their relocations, and *)
(* the tables.                                                             *)
Lists(o, d) ==
    /\ d \in Seq(Items) /\ Len(d) >= 3 /\ Len(o.comdats) <= Len(d)
    /\ \A q \in 1..Len(d) :
        \/ q <= Len(o.comdats) /\ d[q] = <<"comdat", q>>
        \/ q > Len(o.comdats) /\ d[q] \in {"data", "reloc"} \X (1..Len(o.sections))
        \/ /\ q > Len(o.comdats)
           /\ d[q] \in {"symtab", "symtab_shndx", "strtab", "shstrtab"} \X {0}
    /\ \A q \in 1..Len(d) :
           d[q][1] = "reloc" => q > 1 /\ d[q - 1] = <<"data", d[q][2]>>
    /\ \A i \in 1..Len(o.sections) :
        /\ \E q \in 1..Len(d) : d[q] = <<"data", i>>
        /\ o.sections[i].relocs # <<>> => \E q \in 1..Len(d) : d[q] = <<"reloc", i>>

LEMMA DirectoryLists ==
    ASSUME NEW x \in {0, 1}, NEW o, Valid(o) PROVE Lists(o, Directory(o, x))
<1> DEFINE G == GroupItems(o)
           S == SectionItems(o)
           T == TableItems(x)
           H == G \o S
           d == H \o T
           g == Len(o.comdats)
           n == Len(o.sections)
           B == {"data", "reloc"} \X (1..n)
           C == {"symtab", "symtab_shndx", "strtab", "shstrtab"} \X {0}
<1>1. /\ G \in Seq(Items) /\ S \in Seq(Items) /\ T \in Seq(Items) /\ Len(T) >= 3
      /\ Len(G) = g /\ \A q \in 1..g : G[q] = <<"comdat", q>>
  BY DirectoryType, GroupItemsType DEF GroupItems
<1>2. d = Directory(o, x)
  BY DEF Directory
<1>3. S \in Follows /\ S \in Seq(B)
      /\ \A i \in 1..n : /\ \E k \in 1..Len(S) : S[k] = <<"data", i>>
                         /\ o.sections[i].relocs # <<>> =>
                                \E k \in 1..Len(S) : S[k] = <<"reloc", i>>
  BY SectionItemsFacts
<1>4. T \in Seq(C)
  <2> DEFINE u == <<"symtab", 0>>
             v == <<"symtab_shndx", 0>>
             w == <<"strtab", 0>>
             z == <<"shstrtab", 0>>
  <2>1. u \in C /\ v \in C /\ w \in C /\ z \in C
    OBVIOUS
  <2>2. TableItems(0) = <<u, w, z>> /\ TableItems(1) = <<u, v, w, z>>
    BY TableItemsAre
  <2> HIDE DEF u, v, w, z, C
  <2>3. <<u, w, z>> \in Seq(C) /\ <<u, v, w, z>> \in Seq(C)
    BY <2>1
  <2>4. TableItems(0) \in Seq(C) /\ TableItems(1) \in Seq(C)
    BY <2>2, <2>3, Zenon
  <2> QED BY <2>4
<1>5. /\ \A y \in C : y[1] \notin {"comdat", "data", "reloc"}
      /\ \A y \in B : y[1] # "comdat"
  OBVIOUS
<1>6. G \in Follows
  <2>1. \A k \in 1..Len(G) : G[k][1] = "comdat"
    BY <1>1
  <2> QED BY <1>1, <2>1 DEF Follows
<1>7. T \in Follows
  <2> HIDE DEF T, C
  <2>1. ASSUME NEW k \in 1..Len(T) PROVE T[k][1] # "reloc"
    <3>1. T[k] \in C
      BY <1>4
    <3> QED BY <1>5, <3>1
  <2> QED BY <1>1, <2>1 DEF Follows
<1>8. g \in Nat /\ n \in Nat
  BY DEF Valid
<1> HIDE DEF G, S, T, B, C, g, n
<1>9. d \in Follows
  <2>1. H \in Follows
    BY <1>3, <1>6, FollowsJoin
  <2> HIDE DEF H
  <2> QED BY <1>7, <2>1, FollowsJoin
<1>10. /\ H \in Seq(Items) /\ Len(H) = g + Len(S)
       /\ \A k \in 1..(g + Len(S)) : H[k] = IF k <= g THEN G[k] ELSE S[k - g]
  BY <1>1, ConcatProperties
<1>11. Len(S) \in Nat /\ Len(T) \in Nat
  BY <1>1
<1> HIDE DEF H
<1>12. /\ d \in Seq(Items) /\ Len(d) = Len(H) + Len(T)
       /\ \A k \in 1..(Len(H) + Len(T)) : d[k] = IF k <= Len(H) THEN H[k] ELSE T[k - Len(H)]
  <2>1. H \in Seq(Items) /\ T \in Seq(Items)
    BY <1>1, <1>10
  <2> QED BY <2>1, ConcatProperties
<1> HIDE DEF d
<1>13. Len(d) >= 3 /\ g <= Len(d)
  BY <1>1, <1>8, <1>10, <1>11, <1>12
<1>14. ASSUME NEW q \in 1..Len(d)
       PROVE  \/ q <= g /\ d[q] = <<"comdat", q>>
              \/ q > g /\ d[q] \in B
              \/ q > g /\ d[q] \in C
  <2>1. CASE q <= g
    <3>1. q \in 1..(g + Len(S)) /\ q \in 1..g /\ q \in 1..(Len(H) + Len(T)) /\ q <= Len(H)
      BY <1>8, <1>10, <1>11, <1>12, <2>1
    <3>2. d[q] = H[q] /\ H[q] = G[q]
      BY <1>10, <1>12, <2>1, <3>1
    <3>3. G[q] = <<"comdat", q>>
      BY <1>1, <3>1
    <3> QED BY <2>1, <3>2, <3>3
  <2>2. CASE q > g /\ q <= Len(H)
    <3>1. q \in 1..(g + Len(S)) /\ q - g \in 1..Len(S) /\ ~(q <= g)
          /\ q \in 1..(Len(H) + Len(T))
      BY <1>8, <1>10, <1>11, <1>12, <2>2
    <3>2. d[q] = H[q] /\ H[q] = S[q - g]
      BY <1>10, <1>12, <2>2, <3>1
    <3>3. S[q - g] \in B
      BY <1>3, <3>1
    <3> QED BY <2>2, <3>2, <3>3
  <2>3. CASE q > Len(H)
    <3>1. q - Len(H) \in 1..Len(T) /\ ~(q <= Len(H)) /\ q \in 1..(Len(H) + Len(T)) /\ q > g
      BY <1>8, <1>10, <1>11, <1>12, <2>3
    <3>2. d[q] = T[q - Len(H)]
      BY <1>12, <3>1
    <3>3. T[q - Len(H)] \in C
      BY <1>4, <3>1
    <3> QED BY <3>1, <3>2, <3>3
  <2> QED BY <1>8, <1>10, <1>11, <1>12, <2>1, <2>2, <2>3
<1>15. \A q \in 1..Len(d) : d[q][1] = "reloc" => q > 1 /\ d[q - 1] = <<"data", d[q][2]>>
  BY <1>9 DEF Follows
<1>16. ASSUME NEW k \in 1..Len(S) PROVE g + k \in 1..Len(d) /\ d[g + k] = S[k]
  <2>1. g + k \in 1..(g + Len(S)) /\ ~(g + k <= g) /\ (g + k) - g = k
        /\ g + k \in 1..(Len(H) + Len(T)) /\ g + k <= Len(H)
    BY <1>8, <1>10, <1>11
  <2>2. H[g + k] = S[k]
    BY <1>10, <2>1
  <2> QED BY <1>12, <2>1, <2>2
<1>17. ASSUME NEW i \in 1..n
       PROVE  /\ \E q \in 1..Len(d) : d[q] = <<"data", i>>
              /\ o.sections[i].relocs # <<>> => \E q \in 1..Len(d) : d[q] = <<"reloc", i>>
  <2>1. \E q \in 1..Len(d) : d[q] = <<"data", i>>
    <3>1. PICK k \in 1..Len(S) : S[k] = <<"data", i>>
      BY <1>3
    <3> QED BY <1>16, <3>1
  <2>2. ASSUME o.sections[i].relocs # <<>> PROVE \E q \in 1..Len(d) : d[q] = <<"reloc", i>>
    <3>1. PICK k \in 1..Len(S) : S[k] = <<"reloc", i>>
      BY <1>3, <2>2
    <3> QED BY <1>16, <3>1
  <2> QED BY <2>1, <2>2
<1>18. Lists(o, d)
  BY <1>12, <1>13, <1>14, <1>15, <1>17 DEF Lists, B, C, g, n
<1> QED BY <1>2, <1>18

-------------------------------------------------------------------------------
(* The ranges of the sections are reserved right after their indices.      *)

Linked == {t \in Seq(CallSet) :
    Chained(t) /\ (Len(t) # 0 => t[1].call \notin {"comdat", "data"})}

LEMMA LinkedJoin ==
    ASSUME NEW s \in Linked, NEW t \in Linked PROVE s \o t \in Linked
<1> DEFINE a == s \o t
           Fits(c, b) == /\ c.call = "comdat" => b.call = "comdat_index" /\ b.i = c.i
                         /\ c.call = "data" => b.call = "section_index" /\ b.i = c.i
<1>1. s \in Seq(CallSet) /\ t \in Seq(CallSet) /\ Len(s) \in Nat /\ Len(t) \in Nat
  BY DEF Linked
<1>2. /\ a \in Seq(CallSet) /\ Len(a) = Len(s) + Len(t)
      /\ \A k \in 1..(Len(s) + Len(t)) : a[k] = IF k <= Len(s) THEN s[k] ELSE t[k - Len(s)]
  BY <1>1, ConcatProperties
<1> HIDE DEF a
<1>3. /\ \A k \in 2..Len(s) : Fits(s[k], s[k - 1])
      /\ \A k \in 2..Len(t) : Fits(t[k], t[k - 1])
      /\ Len(s) # 0 => s[1].call \notin {"comdat", "data"}
      /\ Len(t) # 0 => t[1].call \notin {"comdat", "data"}
  BY DEF Linked, Chained
<1>4. \A c, b : c.call \notin {"comdat", "data"} => Fits(c, b)
  OBVIOUS
<1> HIDE DEF Fits
<1>5. ASSUME NEW k \in 2..Len(a) PROVE Fits(a[k], a[k - 1])
  <2>1. CASE k <= Len(s)
    <3>1. k \in 2..Len(s) /\ a[k] = s[k] /\ a[k - 1] = s[k - 1]
      BY <1>1, <1>2, <2>1
    <3> QED BY <1>3, <3>1
  <2>2. CASE k = Len(s) + 1
    <3>1. a[k] = t[1] /\ Len(t) # 0
      BY <1>1, <1>2, <2>2
    <3> QED BY <1>3, <1>4, <3>1
  <2>3. CASE k > Len(s) + 1
    <3>1. k - Len(s) \in 2..Len(t) /\ a[k] = t[k - Len(s)] /\ a[k - 1] = t[(k - Len(s)) - 1]
      BY <1>1, <1>2, <2>3
    <3> QED BY <1>3, <3>1
  <2> QED BY <1>1, <1>2, <2>1, <2>2, <2>3
<1>6. Chained(a)
  BY <1>5 DEF Chained, Fits
<1>7. Len(a) # 0 => a[1].call \notin {"comdat", "data"}
  <2>1. CASE Len(s) # 0
    BY <1>1, <1>2, <1>3, <2>1
  <2>2. CASE Len(s) = 0
    BY <1>1, <1>2, <1>3, <2>2
  <2> QED BY <2>1, <2>2
<1>8. a \in Linked
  BY <1>2, <1>6, <1>7 DEF Linked
<1> QED BY <1>8 DEF a

LEMMA LinkedFree ==
    ASSUME NEW t \in Seq(CallSet), \A k \in 1..Len(t) : t[k].call \notin {"comdat", "data"}
    PROVE  t \in Linked
<1>1. Chained(t)
  <2>1. \A k \in 2..Len(t) : k \in 1..Len(t)
    OBVIOUS
  <2> QED BY <2>1 DEF Chained
<1> QED BY <1>1 DEF Linked

LEMMA CallsLinked ==
    ASSUME NEW o, Valid(o) PROVE Calls(o) \in Linked
<1>1. \A s, t \in Linked : s \o t \in Linked
  BY LinkedJoin
<1>2. <<>> \in Linked
  <2>1. <<>> \in Seq(CallSet) /\ \A k \in 1..Len(<<>>) : FALSE
    OBVIOUS
  <2> DEFINE t == <<>>
  <2> HIDE DEF t
  <2>2. t \in Seq(CallSet) /\ \A k \in 1..Len(t) : t[k].call \notin {"comdat", "data"}
    BY <2>1 DEF t
  <2>3. t \in Linked
    BY <2>2, LinkedFree
  <2> QED BY <2>3 DEF t
<1>3. ASSUME NEW e, NEW m \in Nat, e = [i \in 1..m |-> e[i]],
             \A i \in 1..m : e[i] \in Linked
      PROVE  FlattenSeq(e) \in Linked
  <2>1. \A i \in 1..m : e[i] \in Seq(CallSet)
    BY <1>3 DEF Linked
  <2>2. e \in Seq(Seq(CallSet)) /\ DOMAIN e = 1..m
    BY <1>3, <2>1, Elements
  <2>3. \A i \in DOMAIN e : e[i] \in Linked
    BY <1>3, <2>2
  <2> QED BY <1>1, <1>2, <2>2, <2>3, FlattenIn
<1>4. Parts(o)[2] \in Linked
  <2> DEFINE m == Len(o.comdats)
             e == [i \in 1..m |-> <<Call("comdat_index", i, 0), Call("comdat", i, 0)>>]
  <2>1. m \in Nat /\ DOMAIN o.comdats = 1..m
    BY DEF Valid
  <2>2. Parts(o)[2] = FlattenSeq(e)
    BY <2>1, PartsShape DEF ComdatReserves
  <2>3. ASSUME NEW i \in 1..m PROVE e[i] \in Linked
    <3> DEFINE c == Call("comdat_index", i, 0)
               d == Call("comdat", i, 0)
               t == <<c, d>>
    <3>1. i \in Nat /\ 0 \in Nat /\ "comdat_index" \in CallNames /\ "comdat" \in CallNames
      BY <2>1 DEF CallNames
    <3>2. /\ c \in CallSet /\ c.call = "comdat_index" /\ c.i = i
          /\ d \in CallSet /\ d.call = "comdat" /\ d.i = i
      BY <3>1, CallFields
    <3> HIDE DEF c, d
    <3>3. t \in Seq(CallSet) /\ Len(t) = 2 /\ t[1] = c /\ t[2] = d
      BY <3>2
    <3>4. Chained(t)
      <4>1. \A k \in 2..2 : k = 2 /\ k - 1 = 1
        OBVIOUS
      <4> QED BY <3>2, <3>3, <4>1 DEF Chained
    <3>5. t \in Linked
      BY <3>2, <3>3, <3>4 DEF Linked
    <3> QED BY <3>5 DEF c, d
  <2>4. e = [i \in 1..m |-> e[i]]
    OBVIOUS
  <2> HIDE DEF e, m
  <2> QED BY <1>3, <2>1, <2>2, <2>3, <2>4
<1>5. Parts(o)[3] \in Linked
  <2> DEFINE m == Len(o.sections)
             e == [i \in 1..m |-> <<Call("section_index", i, 0), Call("data", i, 0)>>
                                  \o RelocCalls(o, i, <<Call("reloc_index", i, 0)>>)]
  <2>1. m \in Nat /\ DOMAIN o.sections = 1..m
    BY DEF Valid
  <2>2. Parts(o)[3] = FlattenSeq(e)
    BY <2>1, PartsShape DEF SectionReserves
  <2>3. ASSUME NEW i \in 1..m PROVE e[i] \in Linked
    <3> DEFINE c == Call("section_index", i, 0)
               d == Call("data", i, 0)
               b == Call("reloc_index", i, 0)
               t == <<c, d>>
               u == RelocCalls(o, i, <<b>>)
    <3>1. i \in Nat /\ 0 \in Nat /\ "section_index" \in CallNames /\ "data" \in CallNames
          /\ "reloc_index" \in CallNames
      BY <2>1 DEF CallNames
    <3>2. /\ c \in CallSet /\ c.call = "section_index" /\ c.i = i
          /\ d \in CallSet /\ d.call = "data" /\ d.i = i
          /\ b \in CallSet /\ b.call = "reloc_index"
      BY <3>1, CallFields
    <3>3. e[i] = t \o u
      OBVIOUS
    <3> HIDE DEF c, d, b, e
    <3>4. t \in Seq(CallSet) /\ Len(t) = 2 /\ t[1] = c /\ t[2] = d
      BY <3>2
    <3>5. Chained(t)
      <4>1. \A k \in 2..2 : k = 2 /\ k - 1 = 1
        OBVIOUS
      <4> QED BY <3>2, <3>4, <4>1 DEF Chained
    <3>6. t \in Linked
      BY <3>2, <3>4, <3>5 DEF Linked
    <3>7. u \in Linked
      <4>1. <<b>> \in Linked
        <5> DEFINE v == <<b>>
        <5>1. v \in Seq(CallSet) /\ \A k \in 1..Len(v) : v[k] = b
          BY <3>2
        <5> HIDE DEF v
        <5>2. \A k \in 1..Len(v) : v[k].call \notin {"comdat", "data"}
          BY <3>2, <5>1
        <5>3. v \in Linked
          BY <5>1, <5>2, LinkedFree
        <5> QED BY <5>3 DEF v
      <4> QED BY <1>2, <4>1 DEF RelocCalls
    <3> HIDE DEF t, u
    <3> QED BY <1>1, <3>3, <3>6, <3>7
  <2>4. e = [i \in 1..m |-> e[i]]
    OBVIOUS
  <2> HIDE DEF e, m
  <2> QED BY <1>3, <2>1, <2>2, <2>3, <2>4
<1>6. ASSUME NEW n \in 1..24, n \notin {2, 3} PROVE Parts(o)[n] \in Linked
  <2>1. Parts(o)[n] \in Seq(PartCalls(o, n)) /\ Parts(o)[n] \in Seq(CallSet)
    BY PartsLegal, PartsType
  <2>2. ASSUME NEW c \in PartCalls(o, n) PROVE c.call \notin {"comdat", "data"}
    BY <1>6 DEF PartCalls, PartOf
  <2> DEFINE t == Parts(o)[n]
  <2>3. t \in Seq(PartCalls(o, n)) /\ t \in Seq(CallSet)
    BY <2>1
  <2> HIDE DEF t
  <2>4. \A k \in 1..Len(t) : t[k] \in PartCalls(o, n)
    BY <2>3
  <2>5. \A k \in 1..Len(t) : t[k].call \notin {"comdat", "data"}
    BY <2>2, <2>4
  <2>6. t \in Linked
    BY <2>3, <2>5, LinkedFree
  <2> QED BY <2>6 DEF t
<1>7. \A n \in 1..24 : Parts(o)[n] \in Linked
  BY <1>4, <1>5, <1>6
<1>8. Parts(o) = [n \in 1..24 |-> Parts(o)[n]]
  BY DEF Parts
<1> DEFINE p == Parts(o)
           m == 24
<1>9. p = [n \in 1..m |-> p[n]] /\ m \in Nat /\ \A n \in 1..m : p[n] \in Linked
  BY <1>7, <1>8
<1> HIDE DEF p, m
<1>10. FlattenSeq(p) \in Linked
  BY <1>3, <1>9
<1> QED BY <1>10, CallsFlatten DEF p
===============================================================================
