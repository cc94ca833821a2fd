---------------------------- MODULE ObjectProofs ----------------------------
(***************************************************************************)
(* What Object keeps, for every target: any sections, data, sizes,         *)
(* alignments, addends and places, with no bound on what a client adds.    *)
(*                                                                         *)
(* An operation of the builder calls others, so the invariant is a         *)
(* predicate on an object, and there is a lemma for each operation that    *)
(* all of them are made of: a section changes, a section or a symbol is    *)
(* added, a symbol is defined.  Every operation also extends the object:   *)
(* what has been defined, and the relocations there are, stay as they are. *)
(* Stubs and thread-local variables consist of several parts that are made *)
(* one after the other, and that is what keeps them together from then on. *)
(***************************************************************************)
EXTENDS Object, Numbers, FiniteSetTheorems

(* What looks like a section (the segment, name and kind of it).           *)
Infos == (UNION {t.infos : t \in Targets}) \cup AllStandard \cup {"refptr"}

Sections == [info : Infos, size : Nat, align : Nat \ {0}, data : Seq(Int),
             given : Seq(Int), relocs : Seq(Relocs), symbol : Nat]

Typed(o) ==
    /\ o \in [sections : Seq(Sections), symbols : Seq(Symbols),
              std : {o.std}, stubs : {o.stubs}, boot : Nat]
    /\ o.std \in [DOMAIN o.std -> Nat] /\ o.stubs \in [DOMAIN o.stubs -> Nat]

(* StandardFirst, of an object.                                            *)
StdOk(o) ==
    /\ DOMAIN o.std \subseteq AllStandard
    /\ \A s \in DOMAIN o.std :
           /\ o.std[s] \in 1..Len(o.sections) /\ o.sections[o.std[s]].info = Info(s)
           /\ \A i \in 1..Len(o.sections) :
                  o.sections[i].info = Info(s) => o.std[s] <= i
    /\ \A s \in AllStandard \ DOMAIN o.std :
           \A i \in 1..Len(o.sections) : o.sections[i].info # Info(s)

(* The addend of the k-th relocation of s was stored in the n-th cell.     *)
At(s, k, n) ==
    target.implicit /\ s.relocs[k].asked # 0 /\ s.relocs[k].offset + 1 = n

(* The addend of the relocation r of s is in one place.                    *)
RelocSafe(s, r) ==
    IF target.implicit THEN r.addend = 0 /\ (r.asked # 0 => r.offset < Len(s.data))
    ELSE r.addend = r.asked

AsGiven(s, n) == s.data[n] = s.given[n] /\ \A k \in 1..Len(s.relocs) : ~At(s, k, n)

Replaced(s, n, k) ==
    /\ At(s, k, n) /\ s.data[n] = s.relocs[k].asked
    /\ \A m \in 1..Len(s.relocs) : At(s, m, n) => m <= k

CellOk(s, n) == AsGiven(s, n) \/ \E k \in 1..Len(s.relocs) : Replaced(s, n, k)

(* AddendsKept, of a section, which has as much data as its size is unless *)
(* it has none at all.                                                     *)
SectionOk(s) ==
    /\ Len(s.data) = IF IsBss(s.info) THEN 0 ELSE s.size
    /\ Len(s.given) = Len(s.data)
    /\ \A k \in 1..Len(s.relocs) : RelocSafe(s, s.relocs[k])
    /\ \A n \in 1..Len(s.data) : CellOk(s, n)

SectionsOk(o) == \A i \in 1..Len(o.sections) : SectionOk(o.sections[i])

(* Sections and their symbols know each other.                             *)
SymbolsOk(o) ==
    /\ \A y \in 1..Len(o.symbols) :
           LET v == o.symbols[y] IN
           /\ v.section \in 0..Len(o.sections)
           /\ v.section = 0 => v.align = 0
           /\ v.kind = "Section" =>
                  /\ v.section # 0 /\ v.value = 0 /\ v.align = 0
                  /\ o.sections[v.section].symbol = y
    /\ \A i \in 1..Len(o.sections) : o.sections[i].symbol # 0 =>
           LET y == o.sections[i].symbol IN
           y \in 1..Len(o.symbols) /\ o.symbols[y].kind = "Section"
                                   /\ o.symbols[y].section = i

(* The symbol v takes cells of a section.                                  *)
Takes(v) == v.align # 0 /\ v.size # 0

Apart(v, w) == v.value + v.size <= w.value \/ w.value + w.size <= v.value

PlacedOk(o) ==
    \A y \in 1..Len(o.symbols) :
        LET v == o.symbols[y] s == o.sections[v.section] IN
        /\ v.align # 0 /\ target.viaSymbols => v.size # 0
        /\ Takes(v) =>
               /\ v.value % v.align = 0 /\ v.align <= s.align
               /\ v.value + v.size <= s.size
               /\ \A z \in 1..Len(o.symbols) :
                      z # y /\ Takes(o.symbols[z])
                            /\ o.symbols[z].section = v.section => Apart(v, o.symbols[z])

(* StubsResolve, of an object.                                             *)
StubOk(o, y) ==
    LET v == o.symbols[o.stubs[y]] s == o.sections[v.section] IN
    /\ o.stubs[y] \in 1..Len(o.symbols) /\ v.section \in 1..Len(o.sections)
    /\ s.info = "refptr" /\ Len(s.relocs) # 0
    /\ s.relocs[1].offset = v.value /\ s.relocs[1].symbol = y

(* Nothing refers to section i, and it refers to nothing.                  *)
Idle(o, i) ==
    /\ Len(o.sections[i].relocs) = 0
    /\ \A y \in 1..Len(o.symbols) : o.symbols[y].section # i

StubsOk(o) ==
    /\ \A y \in DOMAIN o.stubs : StubOk(o, y)
    /\ \A i \in 1..Len(o.sections) : o.sections[i].info = "refptr" =>
           IF target.relocates
           THEN \E y \in DOMAIN o.stubs : o.symbols[o.stubs[y]].section = i
           ELSE Idle(o, i)
    /\ ~target.relocates => DOMAIN o.stubs = {}

(* All but the stubs, of which the parts are made one after the other.     *)
Sound(o) == Typed(o) /\ StdOk(o) /\ SectionsOk(o) /\ SymbolsOk(o) /\ PlacedOk(o)

ObjectOk(o) == Sound(o) /\ StubsOk(o)

(* The relocations at an entry of __thread_vars.                           *)
Entry(o, v, unknown) ==
    LET s == o.sections[v.section] IN
    /\ "TlsVariables" \in DOMAIN o.std
    /\ v.section = o.std["TlsVariables"] /\ v.size = 3 * Pointer
    /\ o.boot # 0
    /\ \E k \in 1..Len(s.relocs) :
           s.relocs[k].offset = v.value /\ s.relocs[k].symbol = o.boot
    /\ \E k \in 1..Len(s.relocs) :
           LET z == s.relocs[k].symbol IN
           /\ s.relocs[k].offset = v.value + 2 * Pointer
           /\ z \in unknown /\ o.symbols[z].kind = "Tls" /\ o.symbols[z].section # 0

(* ThreadVars, of an object of which the symbols ys are known.             *)
VarsOk(o, ys) ==
    /\ ys \subseteq 1..Len(o.symbols)
    /\ Format = "macho" => \A y \in ys :
           o.symbols[y].kind = "Tls" /\ o.symbols[y].section # 0 =>
               Entry(o, o.symbols[y], 1..Len(o.symbols) \ ys)

IInv == target \in Targets /\ ObjectOk(obj) /\ VarsOk(obj, known)

-------------------------------------------------------------------------------
(* What the operations do, as far as the others can tell *)

Object(sections, symbols, std, stubs, boot) ==
    [sections |-> sections, symbols |-> symbols, std |-> std, stubs |-> stubs,
     boot |-> boot]

LEMMA TypedFields ==
    ASSUME NEW o, Typed(o)
    PROVE  /\ o = Object(o.sections, o.symbols, o.std, o.stubs, o.boot)
           /\ o.sections \in Seq(Sections) /\ o.symbols \in Seq(Symbols)
           /\ o.boot \in Nat /\ o.std \in [DOMAIN o.std -> Nat]
           /\ o.stubs \in [DOMAIN o.stubs -> Nat]
           /\ Len(o.sections) \in Nat /\ Len(o.symbols) \in Nat
           /\ \A i \in 1..Len(o.sections) : o.sections[i] \in Sections
           /\ \A y \in 1..Len(o.symbols) : o.symbols[y] \in Symbols
BY DEF Typed, Object

LEMMA SectionTypes ==
    ASSUME NEW o, Typed(o), NEW i \in 1..Len(o.sections)
    PROVE  LET s == o.sections[i] IN
           /\ s \in Sections /\ s.info \in Infos /\ s.size \in Nat /\ s.align \in Nat \ {0}
           /\ s.data \in Seq(Int) /\ Len(s.data) \in Nat
           /\ s.given \in Seq(Int) /\ Len(s.given) \in Nat
           /\ s.relocs \in Seq(Relocs) /\ Len(s.relocs) \in Nat /\ s.symbol \in Nat
<1>1. o.sections[i] \in Sections
  BY TypedFields
<1> QED BY <1>1, SMTT(30), ZenonT(30) DEF Sections

LEMMA TypedObject ==
    ASSUME NEW sections \in Seq(Sections), NEW symbols \in Seq(Symbols),
           NEW std, NEW stubs, NEW boot \in Nat,
           std \in [DOMAIN std -> Nat], stubs \in [DOMAIN stubs -> Nat]
    PROVE  Typed(Object(sections, symbols, std, stubs, boot))
BY DEF Typed, Object

(* What a refused relocation has left stays idle.                          *)
Leaves(o, p) ==
    ~target.relocates =>
        \A i \in 1..Len(o.sections) :
            o.sections[i].info = "refptr" /\ Idle(o, i) => Idle(p, i)

(* A section that is not one of those.                                     *)
Free(o, i) == target.relocates \/ o.sections[i].info # "refptr"

(* What has been defined stays, and relocations stay where they are.       *)
Extends(o, p) ==
    /\ Len(o.sections) <= Len(p.sections)
    /\ \A i \in 1..Len(o.sections) :
           /\ p.sections[i].info = o.sections[i].info
           /\ Len(o.sections[i].relocs) <= Len(p.sections[i].relocs)
           /\ \A k \in 1..Len(o.sections[i].relocs) :
                  p.sections[i].relocs[k] = o.sections[i].relocs[k]
    /\ Len(o.symbols) <= Len(p.symbols)
    /\ \A y \in 1..Len(o.symbols) :
           /\ p.symbols[y].kind = o.symbols[y].kind
           /\ o.symbols[y].section # 0 => p.symbols[y] = o.symbols[y]
    /\ \A s \in DOMAIN o.std : s \in DOMAIN p.std /\ p.std[s] = o.std[s]
    /\ \A y \in DOMAIN o.stubs : y \in DOMAIN p.stubs /\ p.stubs[y] = o.stubs[y]
    /\ o.boot # 0 => p.boot = o.boot
    /\ Leaves(o, p)

LEMMA ExtendsItself == ASSUME NEW o, Typed(o) PROVE Extends(o, o)
<1>1. Leaves(o, o)
  BY DEF Leaves
<1> QED BY <1>1, TypedFields DEF Extends, Sections

(* Sections and symbols that keep to themselves.                           *)
LEMMA LeavesIdle ==
    ASSUME NEW o, NEW p,
           \A i \in 1..Len(o.sections) :
               o.sections[i].info = "refptr" /\ ~target.relocates =>
                   /\ Len(p.sections[i].relocs) = Len(o.sections[i].relocs)
                   /\ \A y \in 1..Len(p.symbols) :
                          p.symbols[y].section = i =>
                              y \in 1..Len(o.symbols) /\ o.symbols[y].section = i
    PROVE  Leaves(o, p)
BY DEF Leaves, Idle

LEMMA ExtendsTransitive ==
    ASSUME NEW o, NEW p, NEW q, Typed(o), Typed(p), Typed(q),
           Extends(o, p), Extends(p, q)
    PROVE  Extends(o, q)
<1>1. /\ Len(o.sections) \in Nat /\ Len(p.sections) \in Nat /\ Len(q.sections) \in Nat
      /\ Len(o.symbols) \in Nat /\ Len(p.symbols) \in Nat /\ Len(q.symbols) \in Nat
  BY TypedFields
<1>2. ASSUME NEW i \in 1..Len(o.sections)
      PROVE  /\ q.sections[i].info = o.sections[i].info
             /\ Len(o.sections[i].relocs) <= Len(q.sections[i].relocs)
             /\ \A k \in 1..Len(o.sections[i].relocs) :
                    q.sections[i].relocs[k] = o.sections[i].relocs[k]
  <2>1. i \in 1..Len(p.sections) /\ i \in 1..Len(q.sections)
    BY <1>1 DEF Extends
  <2>2. /\ Len(o.sections[i].relocs) \in Nat /\ Len(p.sections[i].relocs) \in Nat
        /\ Len(q.sections[i].relocs) \in Nat
    <3>1. Len(o.sections[i].relocs) \in Nat
      BY SectionTypes
    <3>2. Len(p.sections[i].relocs) \in Nat
      BY <2>1, SectionTypes
    <3>3. Len(q.sections[i].relocs) \in Nat
      BY <2>1, SectionTypes
    <3> QED BY <3>1, <3>2, <3>3
  <2>3. /\ q.sections[i].info = p.sections[i].info
        /\ Len(p.sections[i].relocs) <= Len(q.sections[i].relocs)
        /\ \A k \in 1..Len(p.sections[i].relocs) :
               q.sections[i].relocs[k] = p.sections[i].relocs[k]
    BY <2>1 DEF Extends
  <2>4. /\ p.sections[i].info = o.sections[i].info
        /\ Len(o.sections[i].relocs) <= Len(p.sections[i].relocs)
        /\ \A k \in 1..Len(o.sections[i].relocs) :
               p.sections[i].relocs[k] = o.sections[i].relocs[k]
    BY DEF Extends
  <2> DEFINE l == Len(o.sections[i].relocs)
             m == Len(p.sections[i].relocs)
             n == Len(q.sections[i].relocs)
  <2>5. l \in Nat /\ m \in Nat /\ n \in Nat /\ l <= m /\ m <= n
    BY <2>2, <2>3, <2>4
  <2>6. l <= n
    <3> HIDE DEF l, m, n
    <3> QED BY <2>5
  <2>7. ASSUME NEW k \in 1..l PROVE q.sections[i].relocs[k] = o.sections[i].relocs[k]
    <3>1. k \in 1..m
      <4> HIDE DEF l, m, n
      <4> QED BY <2>5
    <3> QED BY <3>1, <2>3, <2>4
  <2> QED BY <2>3, <2>4, <2>6, <2>7
<1>3. ASSUME NEW y \in 1..Len(o.symbols)
      PROVE  /\ q.symbols[y].kind = o.symbols[y].kind
             /\ o.symbols[y].section # 0 => q.symbols[y] = o.symbols[y]
  <2>1. y \in 1..Len(p.symbols)
    BY <1>1 DEF Extends
  <2> QED BY <2>1 DEF Extends
<1>4. Len(o.sections) <= Len(q.sections) /\ Len(o.symbols) <= Len(q.symbols)
  BY <1>1 DEF Extends
<1>5. /\ \A s \in DOMAIN o.std : s \in DOMAIN q.std /\ q.std[s] = o.std[s]
      /\ \A y \in DOMAIN o.stubs : y \in DOMAIN q.stubs /\ q.stubs[y] = o.stubs[y]
      /\ o.boot # 0 => q.boot = o.boot
  BY DEF Extends
<1>6. Leaves(o, q)
  <2>1. \A i \in 1..Len(o.sections) :
            i \in 1..Len(p.sections) /\ p.sections[i].info = o.sections[i].info
    BY <1>1 DEF Extends
  <2>2. Leaves(o, p) /\ Leaves(p, q)
    BY DEF Extends
  <2> QED BY <2>1, <2>2 DEF Leaves
<1> QED BY <1>2, <1>3, <1>4, <1>5, <1>6 DEF Extends

(* Stubs stay stubs, and so do thread-local variables.                     *)
LEMMA StubKept ==
    ASSUME NEW o, NEW p, Typed(o), Typed(p), StubsOk(o), Extends(o, p),
           NEW y \in DOMAIN o.stubs
    PROVE  StubOk(p, y) /\ p.symbols[p.stubs[y]] = o.symbols[o.stubs[y]]
<1> DEFINE z == o.stubs[y]
           v == o.symbols[z]
           i == v.section
<1>1. /\ Len(o.sections) \in Nat /\ Len(p.sections) \in Nat
      /\ Len(o.symbols) \in Nat /\ Len(p.symbols) \in Nat
  BY TypedFields
<1>2. /\ z \in 1..Len(o.symbols) /\ i \in 1..Len(o.sections)
      /\ o.sections[i].info = "refptr" /\ Len(o.sections[i].relocs) # 0
      /\ o.sections[i].relocs[1].offset = v.value
      /\ o.sections[i].relocs[1].symbol = y
  BY DEF StubsOk, StubOk
<1>3. p.stubs[y] = z
  BY DEF Extends
<1> HIDE DEF z, i
<1>4. z \in 1..Len(p.symbols) /\ i \in 1..Len(p.sections) /\ i # 0
  BY <1>1, <1>2 DEF Extends
<1>5. p.symbols[z] = v
  BY <1>2, <1>4 DEF Extends, i
<1>6. Len(o.sections[i].relocs) \in Nat
  BY <1>2, SectionTypes
<1>7. Len(p.sections[i].relocs) \in Nat
  BY <1>4, SectionTypes
<1>8. 1 \in 1..Len(o.sections[i].relocs)
  BY <1>2, <1>6
<1>9. /\ p.sections[i].info = "refptr" /\ Len(p.sections[i].relocs) # 0
      /\ p.sections[i].relocs[1] = o.sections[i].relocs[1]
  BY <1>2, <1>6, <1>7, <1>8 DEF Extends
<1> QED BY <1>2, <1>3, <1>4, <1>5, <1>9 DEF z, i, StubOk

LEMMA StubsKept ==
    ASSUME NEW o, NEW p, Typed(o), Typed(p), StubsOk(o), Extends(o, p),
           p.stubs = o.stubs,
           \A i \in 1..Len(p.sections) :
               i > Len(o.sections) => p.sections[i].info # "refptr"
    PROVE  StubsOk(p)
<1>1. Len(o.sections) \in Nat /\ Len(p.sections) \in Nat
  BY TypedFields
<1>2. ASSUME NEW y \in DOMAIN p.stubs
      PROVE  StubOk(p, y) /\ p.symbols[p.stubs[y]] = o.symbols[o.stubs[y]]
  BY <1>2, StubKept
<1>3. ASSUME NEW i \in 1..Len(p.sections), p.sections[i].info = "refptr"
      PROVE  IF target.relocates
             THEN \E y \in DOMAIN p.stubs : p.symbols[p.stubs[y]].section = i
             ELSE Idle(p, i)
  <2>1. i \in 1..Len(o.sections)
    BY <1>1, <1>3
  <2>2. o.sections[i].info = "refptr"
    BY <1>3, <2>1 DEF Extends
  <2>3. CASE target.relocates
    <3>1. PICK y \in DOMAIN o.stubs : o.symbols[o.stubs[y]].section = i
      BY <2>1, <2>2, <2>3 DEF StubsOk
    <3> QED BY <1>2, <2>3, <3>1
  <2>4. CASE ~target.relocates
    <3>1. Idle(o, i)
      BY <2>1, <2>2, <2>4 DEF StubsOk
    <3>2. Leaves(o, p)
      BY DEF Extends
    <3> QED BY <2>1, <2>2, <2>4, <3>1, <3>2 DEF Leaves
  <2> QED BY <2>3, <2>4
<1>4. ~target.relocates => DOMAIN p.stubs = {}
  BY DEF StubsOk
<1> QED BY <1>2, <1>3, <1>4 DEF StubsOk

LEMMA EntryKept ==
    ASSUME NEW o, NEW p, Typed(o), Typed(p), Extends(o, p),
           NEW v \in Symbols, v.section \in 1..Len(o.sections),
           NEW T, NEW U, T \subseteq 1..Len(o.symbols), T \subseteq U, Entry(o, v, T)
    PROVE  Entry(p, v, U)
<1> DEFINE i == v.section
           r == o.sections[i].relocs
           s == p.sections[i].relocs
<1>1. Len(r) \in Nat /\ Len(s) \in Nat /\ Len(r) <= Len(s) /\ \A k \in 1..Len(r) : s[k] = r[k]
  <2>1. i \in 1..Len(o.sections) /\ i \in 1..Len(p.sections)
    BY TypedFields DEF Extends
  <2>2. Len(r) \in Nat /\ Len(s) \in Nat
    BY <2>1, SectionTypes
  <2> QED BY <2>1, <2>2 DEF Extends
<1>2. /\ "TlsVariables" \in DOMAIN p.std /\ i = p.std["TlsVariables"]
      /\ v.size = 3 * Pointer /\ p.boot = o.boot /\ o.boot # 0
  BY DEF Entry, Extends
<1>3. PICK k \in 1..Len(r) : r[k].offset = v.value /\ r[k].symbol = o.boot
  BY DEF Entry
<1>4. PICK m \in 1..Len(r) :
          /\ r[m].offset = v.value + 2 * Pointer /\ r[m].symbol \in T
          /\ o.symbols[r[m].symbol].kind = "Tls" /\ o.symbols[r[m].symbol].section # 0
  BY DEF Entry
<1> HIDE DEF i, r, s
<1>5. k \in 1..Len(s) /\ m \in 1..Len(s) /\ s[k] = r[k] /\ s[m] = r[m]
  BY <1>1
<1>6. /\ r[m].symbol \in U /\ p.symbols[r[m].symbol].kind = "Tls"
      /\ p.symbols[r[m].symbol].section # 0
  BY <1>4 DEF Extends
<1> QED BY <1>2, <1>3, <1>4, <1>5, <1>6 DEF Entry, i, r, s

(* Sections do not shrink, and what takes cells in p did so in o, or lies  *)
(* beyond what o had.                                                      *)
Keeps(o, p) ==
    /\ \A i \in 1..Len(o.sections) :
           /\ o.sections[i].size <= p.sections[i].size
           /\ o.sections[i].align <= p.sections[i].align
    /\ \A z \in 1..Len(p.symbols) :
           LET w == p.symbols[z] IN
           Takes(w) => \/ z \in 1..Len(o.symbols) /\ w = o.symbols[z]
                       \/ w.section \in 1..Len(o.sections) =>
                              w.value >= o.sections[w.section].size

(* n cells of section i at v are taken by no symbol.                       *)
Spot(o, i, v, n, a) ==
    /\ i \in 1..Len(o.sections) /\ Free(o, i) /\ v \in Nat /\ v % a = 0
    /\ v + n <= o.sections[i].size /\ a <= o.sections[i].align
    /\ \A z \in 1..Len(o.symbols) :
           LET w == o.symbols[z] IN
           Takes(w) /\ w.section = i => w.value + w.size <= v \/ v + n <= w.value

LEMMA SpotKept ==
    ASSUME NEW o, NEW p, Typed(o), Typed(p), Extends(o, p), Keeps(o, p),
           NEW i, NEW v, NEW n \in Nat, NEW a \in Nat, Spot(o, i, v, n, a)
    PROVE  Spot(p, i, v, n, a)
<1>1. /\ i \in 1..Len(o.sections) /\ v \in Nat /\ v % a = 0
      /\ v + n <= o.sections[i].size /\ a <= o.sections[i].align
  BY DEF Spot
<1>2. i \in 1..Len(p.sections)
  BY <1>1, TypedFields DEF Extends
<1>3. /\ o.sections[i].size \in Nat /\ o.sections[i].align \in Nat
      /\ p.sections[i].size \in Nat /\ p.sections[i].align \in Nat
  <2>1. o.sections[i].size \in Nat /\ o.sections[i].align \in Nat
    BY <1>1, SectionTypes
  <2>2. p.sections[i].size \in Nat /\ p.sections[i].align \in Nat
    BY <1>2, SectionTypes
  <2> QED BY <2>1, <2>2
<1>4. o.sections[i].size <= p.sections[i].size /\ o.sections[i].align <= p.sections[i].align
  BY <1>1 DEF Keeps
<1>5. v + n <= p.sections[i].size /\ a <= p.sections[i].align
  BY <1>1, <1>3, <1>4, SMTT(40)
<1>6. ASSUME NEW z \in 1..Len(p.symbols), Takes(p.symbols[z]), p.symbols[z].section = i
      PROVE  \/ p.symbols[z].value + p.symbols[z].size <= v
             \/ v + n <= p.symbols[z].value
  <2> DEFINE w == p.symbols[z]
  <2>1. \/ z \in 1..Len(o.symbols) /\ w = o.symbols[z]
        \/ w.section \in 1..Len(o.sections) => w.value >= o.sections[w.section].size
    BY <1>6 DEF Keeps
  <2>2. w.value \in Nat
    BY TypedFields DEF Symbols
  <2>3. CASE z \in 1..Len(o.symbols) /\ w = o.symbols[z]
    BY <1>6, <2>3 DEF Spot
  <2>4. CASE w.section \in 1..Len(o.sections) => w.value >= o.sections[w.section].size
    <3>1. w.value >= o.sections[i].size
      BY <1>1, <1>6, <2>4
    <3> HIDE DEF w
    <3>2. v + n <= w.value
      BY <1>1, <1>3, <2>2, <3>1
    <3> QED BY <3>2 DEF w
  <2> QED BY <2>1, <2>3, <2>4
<1>7. Free(p, i)
  <2>1. Free(o, i)
    BY DEF Spot
  <2>2. p.sections[i].info = o.sections[i].info
    BY <1>1 DEF Extends
  <2> QED BY <2>1, <2>2 DEF Free
<1> QED BY <1>1, <1>2, <1>5, <1>6, <1>7 DEF Spot

LEMMA KeepsTransitive ==
    ASSUME NEW o, NEW p, NEW q, Typed(o), Typed(p), Typed(q), Extends(o, p),
           Keeps(o, p), Keeps(p, q), Extends(p, q)
    PROVE  Keeps(o, q)
<1>1. /\ Len(o.sections) \in Nat /\ Len(p.sections) \in Nat /\ Len(q.sections) \in Nat
      /\ Len(o.sections) <= Len(p.sections) /\ Len(p.sections) <= Len(q.sections)
  BY TypedFields DEF Extends
<1>2. ASSUME NEW i \in 1..Len(o.sections)
      PROVE  /\ o.sections[i].size <= p.sections[i].size
             /\ o.sections[i].size <= q.sections[i].size
             /\ o.sections[i].align <= q.sections[i].align
             /\ o.sections[i].size \in Nat /\ p.sections[i].size \in Nat
  <2>1. i \in 1..Len(p.sections) /\ i \in 1..Len(q.sections)
    BY <1>1
  <2>2. o.sections[i].size \in Nat /\ o.sections[i].align \in Nat
    BY SectionTypes
  <2>3. p.sections[i].size \in Nat /\ p.sections[i].align \in Nat
    BY <2>1, SectionTypes
  <2>4. q.sections[i].size \in Nat /\ q.sections[i].align \in Nat
    BY <2>1, SectionTypes
  <2>5. /\ o.sections[i].size <= p.sections[i].size
        /\ o.sections[i].align <= p.sections[i].align
    BY DEF Keeps
  <2>6. /\ p.sections[i].size <= q.sections[i].size
        /\ p.sections[i].align <= q.sections[i].align
    BY <2>1 DEF Keeps
  <2> QED BY <2>2, <2>3, <2>4, <2>5, <2>6
<1>3. ASSUME NEW z \in 1..Len(q.symbols), Takes(q.symbols[z])
      PROVE  \/ z \in 1..Len(o.symbols) /\ q.symbols[z] = o.symbols[z]
             \/ q.symbols[z].section \in 1..Len(o.sections) =>
                    q.symbols[z].value >= o.sections[q.symbols[z].section].size
  <2> DEFINE w == q.symbols[z]
  <2>1. /\ w.section \in Nat /\ w.value \in Nat
    BY TypedFields DEF Symbols
  <2>2. \/ z \in 1..Len(p.symbols) /\ w = p.symbols[z]
        \/ w.section \in 1..Len(p.sections) => w.value >= p.sections[w.section].size
    BY <1>3 DEF Keeps
  <2>3. CASE z \in 1..Len(p.symbols) /\ w = p.symbols[z]
    BY <1>3, <2>3 DEF Keeps
  <2>4. CASE w.section \in 1..Len(p.sections) => w.value >= p.sections[w.section].size
    <3> SUFFICES ASSUME w.section \in 1..Len(o.sections)
                 PROVE  w.value >= o.sections[w.section].size
      OBVIOUS
    <3> HIDE DEF w
    <3>1. w.section \in 1..Len(p.sections)
      BY <1>1
    <3>2. w.value >= p.sections[w.section].size
      BY <2>4, <3>1
    <3> DEFINE m == o.sections[w.section].size
               n == p.sections[w.section].size
    <3>3. m \in Nat /\ n \in Nat /\ m <= n
      BY <1>2
    <3> HIDE DEF m, n
    <3>4. w.value >= m
      BY <2>1, <3>2, <3>3 DEF n
    <3> QED BY <3>4 DEF m
  <2> QED BY <2>2, <2>3, <2>4
<1> QED BY <1>2, <1>3 DEF Keeps

LEMMA KeepsItself == ASSUME NEW o, Typed(o) PROVE Keeps(o, o)
<1>1. ASSUME NEW i \in 1..Len(o.sections)
      PROVE  /\ o.sections[i].size <= o.sections[i].size
             /\ o.sections[i].align <= o.sections[i].align
  BY SectionTypes
<1> QED BY <1>1 DEF Keeps

(* Which sections are the standard ones depends on what sections look like *)
(* only, and what symbols and sections know of each other on no more than  *)
(* that either.                                                            *)
LEMMA StdKept ==
    ASSUME NEW o, NEW p, StdOk(o), p.std = o.std, Len(p.sections) = Len(o.sections),
           \A i \in 1..Len(o.sections) : p.sections[i].info = o.sections[i].info
    PROVE  StdOk(p)
<1>1. \A s \in DOMAIN o.std :
          /\ o.std[s] \in 1..Len(p.sections) /\ p.sections[o.std[s]].info = Info(s)
          /\ \A i \in 1..Len(p.sections) : p.sections[i].info = Info(s) => o.std[s] <= i
  BY DEF StdOk
<1>2. \A s \in AllStandard \ DOMAIN o.std :
          \A i \in 1..Len(p.sections) : p.sections[i].info # Info(s)
  BY DEF StdOk
<1>3. DOMAIN o.std \subseteq AllStandard
  BY DEF StdOk
<1> QED BY <1>1, <1>2, <1>3 DEF StdOk

LEMMA SymbolsKept ==
    ASSUME NEW o, NEW p, SymbolsOk(o), p.symbols = o.symbols,
           Len(p.sections) = Len(o.sections),
           \A i \in 1..Len(o.sections) : p.sections[i].symbol = o.sections[i].symbol,
           Len(o.sections) \in Nat
    PROVE  SymbolsOk(p)
<1>1. ASSUME NEW y \in 1..Len(p.symbols)
      PROVE  LET v == p.symbols[y] IN
             /\ v.section \in 0..Len(p.sections)
             /\ v.section = 0 => v.align = 0
             /\ v.kind = "Section" =>
                    /\ v.section # 0 /\ v.value = 0 /\ v.align = 0
                    /\ p.sections[v.section].symbol = y
  <2> DEFINE v == o.symbols[y]
  <2>1. /\ v.section \in 0..Len(o.sections)
        /\ v.section = 0 => v.align = 0
        /\ v.kind = "Section" =>
               /\ v.section # 0 /\ v.value = 0 /\ v.align = 0
               /\ o.sections[v.section].symbol = y
    BY DEF SymbolsOk
  <2>2. v.section # 0 => v.section \in 1..Len(o.sections)
    BY <2>1
  <2> HIDE DEF v
  <2>3. p.symbols[y] = v
    BY DEF v
  <2> QED BY <2>1, <2>2, <2>3
<1>2. ASSUME NEW i \in 1..Len(p.sections), p.sections[i].symbol # 0
      PROVE  LET y == p.sections[i].symbol IN
             /\ y \in 1..Len(p.symbols) /\ p.symbols[y].kind = "Section"
             /\ p.symbols[y].section = i
  BY <1>2 DEF SymbolsOk
<1> QED BY <1>1, <1>2 DEF SymbolsOk

-------------------------------------------------------------------------------
(* A section changes: set_data, append_data, append_bss, add_relocation *)

(* s is what section i of o may become.                                    *)
Successor(o, i, s) ==
    /\ s \in Sections /\ SectionOk(s)
    /\ s.info = o.sections[i].info /\ s.symbol = o.sections[i].symbol
    /\ Len(o.sections[i].relocs) <= Len(s.relocs)
    /\ \A k \in 1..Len(o.sections[i].relocs) : s.relocs[k] = o.sections[i].relocs[k]

Grows(o, i, s) == o.sections[i].size <= s.size /\ o.sections[i].align <= s.align

Changed(o, i, s) ==
    Object([o.sections EXCEPT ![i] = s], o.symbols, o.std, o.stubs, o.boot)

LEMMA ChangedTyped ==
    ASSUME NEW o, Typed(o), NEW i \in 1..Len(o.sections), NEW s \in Sections
    PROVE  LET p == Changed(o, i, s) IN
           /\ Typed(p) /\ Len(p.sections) = Len(o.sections)
           /\ \A j \in 1..Len(o.sections) :
                  p.sections[j] = IF j = i THEN s ELSE o.sections[j]
           /\ p.symbols = o.symbols /\ p.std = o.std /\ p.stubs = o.stubs
           /\ p.boot = o.boot
<1> DEFINE t == [o.sections EXCEPT ![i] = s]
           p == Changed(o, i, s)
<1>1. /\ o.sections \in Seq(Sections) /\ o.symbols \in Seq(Symbols)
      /\ o.boot \in Nat /\ o.std \in [DOMAIN o.std -> Nat]
      /\ o.stubs \in [DOMAIN o.stubs -> Nat]
  BY TypedFields
<1>2. /\ t \in Seq(Sections) /\ Len(t) = Len(o.sections)
      /\ \A j \in 1..Len(o.sections) : t[j] = IF j = i THEN s ELSE o.sections[j]
  BY <1>1, ExceptSeq
<1>3. /\ p.sections = t /\ p.symbols = o.symbols /\ p.std = o.std
      /\ p.stubs = o.stubs /\ p.boot = o.boot
  BY DEF Changed, Object
<1>4. Typed(p)
  <2> HIDE DEF t
  <2>1. Typed(Object(t, o.symbols, o.std, o.stubs, o.boot))
    BY <1>1, <1>2, TypedObject
  <2> QED BY <2>1 DEF Changed, t
<1> HIDE DEF t, p
<1> QED BY <1>2, <1>3, <1>4 DEF p

LEMMA SectionChanges ==
    ASSUME NEW o, Sound(o), NEW i \in 1..Len(o.sections), NEW s, Successor(o, i, s),
           Grows(o, i, s) \/ o.sections[i].size = 0,
           Free(o, i) \/ s.relocs = o.sections[i].relocs
    PROVE  LET p == Changed(o, i, s) IN
           /\ Sound(p) /\ (StubsOk(o) => StubsOk(p))
           /\ Extends(o, p) /\ (Grows(o, i, s) => Keeps(o, p))
<1> DEFINE p == Changed(o, i, s)
<1>1. /\ Typed(o) /\ StdOk(o) /\ SectionsOk(o) /\ SymbolsOk(o) /\ PlacedOk(o)
  BY DEF Sound
<1>2. /\ Typed(p) /\ Len(p.sections) = Len(o.sections)
      /\ \A j \in 1..Len(o.sections) :
             p.sections[j] = IF j = i THEN s ELSE o.sections[j]
      /\ p.symbols = o.symbols /\ p.std = o.std /\ p.stubs = o.stubs
      /\ p.boot = o.boot
  BY <1>1, ChangedTyped DEF Successor
<1> HIDE DEF p
<1>3. /\ s.info = o.sections[i].info /\ s.symbol = o.sections[i].symbol
      /\ Len(o.sections[i].relocs) <= Len(s.relocs)
      /\ \A k \in 1..Len(o.sections[i].relocs) : s.relocs[k] = o.sections[i].relocs[k]
  BY DEF Successor
<1>4. ASSUME NEW j \in 1..Len(o.sections)
      PROVE  /\ p.sections[j].info = o.sections[j].info
             /\ p.sections[j].symbol = o.sections[j].symbol
             /\ Len(o.sections[j].relocs) <= Len(p.sections[j].relocs)
             /\ \A k \in 1..Len(o.sections[j].relocs) :
                    p.sections[j].relocs[k] = o.sections[j].relocs[k]
  <2>1. CASE j = i
    BY <1>2, <1>3, <2>1
  <2>2. CASE j # i
    <3>1. p.sections[j] = o.sections[j]
      BY <1>2, <2>2
    <3>2. Len(o.sections[j].relocs) \in Nat
      BY <1>1, SectionTypes
    <3> QED BY <3>1, <3>2
  <2> QED BY <2>1, <2>2
<1>5. Len(o.sections) \in Nat /\ Len(o.symbols) \in Nat
  BY <1>1, TypedFields
<1>6. Extends(o, p)
  <2>1. ASSUME NEW j \in 1..Len(o.sections), o.sections[j].info = "refptr",
               ~target.relocates
        PROVE  Len(p.sections[j].relocs) = Len(o.sections[j].relocs)
    BY <1>2, <2>1 DEF Free
  <2>2. Leaves(o, p)
    BY <1>2, <2>1, LeavesIdle
  <2> QED BY <1>2, <1>4, <1>5, <2>2 DEF Extends
<1>7. StdOk(p)
  BY <1>1, <1>2, <1>4, StdKept
<1>8. SectionsOk(p)
  BY <1>1, <1>2 DEF SectionsOk, Successor
<1>9. SymbolsOk(p)
  BY <1>1, <1>2, <1>4, <1>5, SymbolsKept
<1>10. PlacedOk(p)
  <2> SUFFICES ASSUME NEW y \in 1..Len(o.symbols), Takes(o.symbols[y])
               PROVE  LET v == o.symbols[y] u == p.sections[v.section] IN
                      v.align <= u.align /\ v.value + v.size <= u.size
    BY <1>1, <1>2 DEF PlacedOk
  <2> DEFINE v == o.symbols[y]
             r == o.sections[v.section]
  <2>1. v.align <= r.align /\ v.value + v.size <= r.size
    BY <1>1 DEF PlacedOk
  <2>2. v.section \in 1..Len(o.sections)
    BY <1>1, <1>5 DEF SymbolsOk, Takes
  <2>3. /\ v.align \in Nat /\ v.value \in Nat /\ v.size \in Nat /\ v.size # 0
    BY <1>1, TypedFields DEF Symbols, Takes
  <2>4. CASE v.section # i
    BY <1>2, <2>1, <2>2, <2>4
  <2>5. CASE v.section = i
    <3>1. p.sections[i] = s
      BY <1>2
    <3>2. r.size \in Nat /\ r.align \in Nat /\ s.size \in Nat /\ s.align \in Nat
      <4>1. r.size \in Nat /\ r.align \in Nat
        BY <1>1, <2>2, SectionTypes
      <4> QED BY <4>1 DEF Successor, Sections
    <3>3. r.size # 0
      <4> HIDE DEF v, r
      <4> QED BY <2>1, <2>3, <3>2
    <3>4. r.size <= s.size /\ r.align <= s.align
      BY <2>5, <3>3 DEF Grows
    <3>5. v.align <= s.align /\ v.value + v.size <= s.size
      <4> HIDE DEF v, r
      <4> QED BY <2>1, <2>3, <3>2, <3>4
    <3> QED BY <2>5, <3>1, <3>5
  <2> QED BY <2>4, <2>5
<1>11. ASSUME StubsOk(o) PROVE StubsOk(p)
  BY <1>1, <1>2, <1>6, <1>11, StubsKept
<1>12. ASSUME Grows(o, i, s) PROVE Keeps(o, p)
  <2>1. ASSUME NEW j \in 1..Len(o.sections)
        PROVE  /\ o.sections[j].size <= p.sections[j].size
               /\ o.sections[j].align <= p.sections[j].align
    <3>1. CASE j = i
      BY <1>2, <1>12, <3>1 DEF Grows
    <3>2. CASE j # i
      <4>1. p.sections[j] = o.sections[j]
        BY <1>2, <3>2
      <4>2. o.sections[j].size \in Nat /\ o.sections[j].align \in Nat
        BY <1>1, SectionTypes
      <4> QED BY <4>1, <4>2
    <3> QED BY <3>1, <3>2
  <2> QED BY <1>2, <2>1 DEF Keeps
<1> QED BY <1>1, <1>2, <1>6, <1>7, <1>8, <1>9, <1>10, <1>11, <1>12 DEF Sound, p

-------------------------------------------------------------------------------
(* A section is added: add_section, section_id *)

LEMMA AddSectionIs ==
    ASSUME NEW o, Typed(o), NEW info \in Infos
    PROVE  LET p == AddSection(o, info)
               new == {s \in AllStandard : Info(s) = info} \ DOMAIN o.std
           IN
           /\ Typed(p) /\ Len(p.sections) = Len(o.sections) + 1
           /\ \A i \in 1..Len(o.sections) : p.sections[i] = o.sections[i]
           /\ p.sections[Len(o.sections) + 1] = Section(info)
           /\ p.symbols = o.symbols /\ p.stubs = o.stubs /\ p.boot = o.boot
           /\ DOMAIN p.std = DOMAIN o.std \cup new
           /\ \A s \in DOMAIN o.std : p.std[s] = o.std[s]
           /\ \A s \in new : p.std[s] = Len(o.sections) + 1
<1> DEFINE id == Len(o.sections) + 1
           new == {s \in AllStandard : Info(s) = info} \ DOMAIN o.std
           t == Append(o.sections, Section(info))
           std == [s \in DOMAIN o.std \cup new |-> IF s \in new THEN id ELSE o.std[s]]
           p == AddSection(o, info)
<1>1. /\ o = Object(o.sections, o.symbols, o.std, o.stubs, o.boot)
      /\ o.sections \in Seq(Sections) /\ o.symbols \in Seq(Symbols)
      /\ o.boot \in Nat /\ o.std \in [DOMAIN o.std -> Nat]
      /\ o.stubs \in [DOMAIN o.stubs -> Nat] /\ Len(o.sections) \in Nat
  BY TypedFields
<1>2. Section(info) \in Sections
  BY DEF Section, Sections
<1>3. /\ t \in Seq(Sections) /\ Len(t) = id /\ t[id] = Section(info)
      /\ \A i \in 1..Len(o.sections) : t[i] = o.sections[i]
  BY <1>1, <1>2, AppendProperties
<1>4. /\ std \in [DOMAIN std -> Nat] /\ DOMAIN std = DOMAIN o.std \cup new
      /\ \A s \in DOMAIN o.std : std[s] = o.std[s]
      /\ \A s \in new : std[s] = id
  BY <1>1
<1>5. p = Object(t, o.symbols, std, o.stubs, o.boot)
  <2>1. p = [o EXCEPT !.sections = t, !.std = std]
    BY DEF AddSection
  <2> HIDE DEF t, std, p
  <2> QED BY <1>1, <2>1 DEF Object
<1> HIDE DEF t, std
<1>6. /\ p.sections = t /\ p.symbols = o.symbols /\ p.std = std
      /\ p.stubs = o.stubs /\ p.boot = o.boot
  BY <1>5 DEF Object
<1>7. Typed(p)
  BY <1>1, <1>3, <1>4, <1>5, TypedObject
<1> HIDE DEF p, new
<1> QED BY <1>3, <1>4, <1>6, <1>7 DEF p, new

LEMMA SectionAdded ==
    ASSUME NEW o, ObjectOk(o), NEW info \in Infos
    PROVE  LET p == AddSection(o, info) IN
           /\ Sound(p) /\ (info # "refptr" => StubsOk(p))
           /\ Extends(o, p) /\ Keeps(o, p)
<1> DEFINE p == AddSection(o, info)
           new == {s \in AllStandard : Info(s) = info} \ DOMAIN o.std
           L == Len(o.sections)
<1>1. /\ Typed(o) /\ StdOk(o) /\ SectionsOk(o) /\ SymbolsOk(o) /\ PlacedOk(o)
      /\ StubsOk(o)
  BY DEF ObjectOk, Sound
<1>2. /\ Typed(p) /\ Len(p.sections) = L + 1
      /\ \A i \in 1..L : p.sections[i] = o.sections[i]
      /\ p.sections[L + 1] = Section(info)
      /\ p.symbols = o.symbols /\ p.stubs = o.stubs /\ p.boot = o.boot
  BY <1>1, AddSectionIs
<1>3. /\ DOMAIN p.std = DOMAIN o.std \cup new
      /\ \A s \in DOMAIN o.std : p.std[s] = o.std[s]
      /\ \A s \in new : p.std[s] = L + 1
  BY <1>1, AddSectionIs
<1> HIDE DEF p
<1>4. L \in Nat /\ Len(o.symbols) \in Nat
  BY <1>1, TypedFields
<1> HIDE DEF L
<1>5. p.sections[L + 1].info = info /\ p.sections[L + 1].symbol = 0
  BY <1>2 DEF Section
<1>6. \A i \in 1..L + 1 : i \in 1..L \/ i = L + 1
  BY <1>4
<1>7. StdOk(p)
  <2>1. DOMAIN p.std \subseteq AllStandard
    BY <1>1, <1>3 DEF StdOk
  <2>2. ASSUME NEW s \in DOMAIN p.std
        PROVE  /\ p.std[s] \in 1..L + 1 /\ p.sections[p.std[s]].info = Info(s)
               /\ \A i \in 1..L + 1 : p.sections[i].info = Info(s) => p.std[s] <= i
    <3>1. CASE s \in DOMAIN o.std
      <4>1. /\ o.std[s] \in 1..L /\ o.sections[o.std[s]].info = Info(s)
            /\ \A i \in 1..L : o.sections[i].info = Info(s) => o.std[s] <= i
        BY <1>1, <3>1 DEF StdOk, L
      <4>2. p.std[s] = o.std[s]
        BY <1>3, <3>1
      <4> QED BY <1>2, <1>4, <1>6, <4>1, <4>2
    <3>2. CASE s \notin DOMAIN o.std
      <4>1. s \in new /\ p.std[s] = L + 1 /\ Info(s) = info /\ s \in AllStandard
        BY <1>3, <3>2
      <4>2. \A i \in 1..L : o.sections[i].info # Info(s)
        BY <1>1, <3>2, <4>1 DEF StdOk, L
      <4>3. \A i \in 1..L : p.sections[i].info # Info(s)
        BY <1>2, <4>2
      <4> QED BY <1>4, <1>5, <1>6, <4>1, <4>3
    <3> QED BY <3>1, <3>2
  <2>3. ASSUME NEW s \in AllStandard \ DOMAIN p.std, NEW i \in 1..L + 1
        PROVE  p.sections[i].info # Info(s)
    <3>1. s \notin DOMAIN o.std /\ Info(s) # info
      BY <1>3
    <3>2. \A j \in 1..L : o.sections[j].info # Info(s)
      BY <1>1, <3>1 DEF StdOk, L
    <3> QED BY <1>2, <1>5, <1>6, <3>1, <3>2
  <2> QED BY <1>2, <2>1, <2>2, <2>3 DEF StdOk
<1>8. SectionsOk(p)
  <2>1. SectionOk(p.sections[L + 1])
    <3> DEFINE s == Section(info)
    <3>1. /\ s.info = info /\ s.size = 0 /\ Len(s.data) = 0 /\ Len(s.given) = 0
          /\ Len(s.relocs) = 0
      BY DEF Section
    <3> HIDE DEF s
    <3>2. SectionOk(s)
      BY <3>1 DEF SectionOk
    <3> QED BY <1>2, <3>2 DEF s
  <2>2. \A i \in 1..L : SectionOk(o.sections[i])
    BY <1>1 DEF SectionsOk, L
  <2> QED BY <1>2, <1>6, <2>1, <2>2 DEF SectionsOk
<1>9. SymbolsOk(p)
  <2>1. ASSUME NEW y \in 1..Len(o.symbols)
        PROVE  LET v == o.symbols[y] IN
               /\ v.section \in 0..L + 1
               /\ v.section = 0 => v.align = 0
               /\ v.kind = "Section" =>
                      /\ v.section # 0 /\ v.value = 0 /\ v.align = 0
                      /\ p.sections[v.section].symbol = y
    <3> DEFINE v == o.symbols[y]
    <3>1. /\ v.section \in 0..L
          /\ v.section = 0 => v.align = 0
          /\ v.kind = "Section" =>
                 /\ v.section # 0 /\ v.value = 0 /\ v.align = 0
                 /\ o.sections[v.section].symbol = y
      BY <1>1 DEF SymbolsOk, L
    <3>2. v.section \in 0..L + 1 /\ (v.section # 0 => v.section \in 1..L)
      BY <1>4, <3>1
    <3> QED BY <1>2, <3>1, <3>2
  <2>2. ASSUME NEW i \in 1..L + 1, p.sections[i].symbol # 0
        PROVE  LET y == p.sections[i].symbol IN
               /\ y \in 1..Len(o.symbols) /\ o.symbols[y].kind = "Section"
               /\ o.symbols[y].section = i
    <3>1. i \in 1..L /\ p.sections[i] = o.sections[i]
      BY <1>2, <1>5, <1>6, <2>2
    <3> QED BY <1>1, <2>2, <3>1 DEF SymbolsOk, L
  <2> QED BY <1>2, <2>1, <2>2 DEF SymbolsOk
<1>10. \A y \in 1..Len(o.symbols) : Takes(o.symbols[y]) =>
           p.sections[o.symbols[y].section] = o.sections[o.symbols[y].section]
  <2> SUFFICES ASSUME NEW y \in 1..Len(o.symbols), Takes(o.symbols[y])
               PROVE  o.symbols[y].section \in 1..L
    BY <1>2
  <2> QED BY <1>1, <1>4 DEF SymbolsOk, Takes, L
<1>11. PlacedOk(p)
  BY <1>1, <1>2, <1>10, SMTT(30), ZenonT(30) DEF PlacedOk
<1>12. Extends(o, p)
  <2>1. ASSUME NEW i \in 1..L PROVE Len(o.sections[i].relocs) \in Nat
    BY <1>1, SectionTypes DEF L
  <2>2. Leaves(o, p)
    BY <1>2, LeavesIdle DEF L
  <2> QED BY <1>2, <1>3, <1>4, <2>1, <2>2, SMTT(30), ZenonT(30) DEF Extends, L
<1>13. Keeps(o, p)
  <2>1. Keeps(o, o)
    BY <1>1, KeepsItself
  <2> QED BY <1>2, <2>1 DEF Keeps, L
<1>14. ASSUME info # "refptr" PROVE StubsOk(p)
  <2>1. \A i \in 1..Len(p.sections) : i > Len(o.sections) => p.sections[i].info # "refptr"
    BY <1>2, <1>4, <1>5, <1>14 DEF L
  <2> QED BY <1>1, <1>2, <1>12, <2>1, StubsKept
<1> QED BY <1>2, <1>7, <1>8, <1>9, <1>11, <1>12, <1>13, <1>14 DEF p, Sound

-------------------------------------------------------------------------------
(* A symbol is added: add_symbol, and the symbols that the builder adds *)

LEMMA AddRawSymbolIs ==
    ASSUME NEW o, Typed(o), NEW z \in Symbols
    PROVE  LET p == AddRawSymbol(o, z) IN
           /\ Typed(p) /\ Len(p.symbols) = Len(o.symbols) + 1
           /\ \A y \in 1..Len(o.symbols) : p.symbols[y] = o.symbols[y]
           /\ p.symbols[Len(o.symbols) + 1] = z
           /\ p.sections = o.sections /\ p.std = o.std /\ p.stubs = o.stubs
           /\ p.boot = o.boot
<1> DEFINE t == Append(o.symbols, z)
           p == AddRawSymbol(o, z)
<1>1. /\ o = Object(o.sections, o.symbols, o.std, o.stubs, o.boot)
      /\ o.sections \in Seq(Sections) /\ o.symbols \in Seq(Symbols)
      /\ o.boot \in Nat /\ o.std \in [DOMAIN o.std -> Nat]
      /\ o.stubs \in [DOMAIN o.stubs -> Nat]
  BY TypedFields
<1>2. /\ t \in Seq(Symbols) /\ Len(t) = Len(o.symbols) + 1
      /\ t[Len(o.symbols) + 1] = z
      /\ \A y \in 1..Len(o.symbols) : t[y] = o.symbols[y]
  BY <1>1, AppendProperties
<1>3. p = [o EXCEPT !.symbols = t]
  BY DEF AddRawSymbol
<1> HIDE DEF t, p
<1>4. p = Object(o.sections, t, o.std, o.stubs, o.boot)
  BY <1>1, <1>3 DEF Object
<1>5. /\ p.sections = o.sections /\ p.symbols = t /\ p.std = o.std
      /\ p.stubs = o.stubs /\ p.boot = o.boot
  BY <1>4 DEF Object
<1>6. Typed(p)
  BY <1>1, <1>2, <1>4, TypedObject
<1> QED BY <1>2, <1>5, <1>6 DEF p

(* A symbol that has no section yet, and is no section symbol.             *)
Unplaced(z) == z.kind # "Section" /\ z.section = 0 /\ z.align = 0

LEMMA SymbolAdded ==
    ASSUME NEW o, Sound(o), NEW z \in Symbols, Unplaced(z)
    PROVE  LET p == AddRawSymbol(o, z) IN
           Sound(p) /\ (StubsOk(o) => StubsOk(p)) /\ Extends(o, p) /\ Keeps(o, p)
<1> DEFINE p == AddRawSymbol(o, z)
           L == Len(o.symbols)
<1>1. /\ Typed(o) /\ StdOk(o) /\ SectionsOk(o) /\ SymbolsOk(o) /\ PlacedOk(o)
  BY DEF Sound
<1>2. /\ Typed(p) /\ Len(p.symbols) = L + 1
      /\ \A y \in 1..L : p.symbols[y] = o.symbols[y]
      /\ p.symbols[L + 1] = z
      /\ p.sections = o.sections /\ p.std = o.std /\ p.stubs = o.stubs
      /\ p.boot = o.boot
  BY <1>1, AddRawSymbolIs
<1>3. L \in Nat /\ Len(o.sections) \in Nat
  BY <1>1, TypedFields
<1> HIDE DEF p, L
<1>4. \A y \in 1..L + 1 : y \in 1..L \/ y = L + 1
  BY <1>3
<1>5. z.kind # "Section" /\ z.section = 0 /\ z.align = 0 /\ ~Takes(z)
  BY DEF Unplaced, Takes
<1>6. StdOk(p) /\ SectionsOk(p)
  <2>1. \A i \in 1..Len(o.sections) : p.sections[i].info = o.sections[i].info
    BY <1>2
  <2>2. StdOk(p)
    BY <1>1, <1>2, <2>1, StdKept
  <2> QED BY <1>1, <1>2, <2>2 DEF SectionsOk
<1>7. SymbolsOk(p)
  <2>1. ASSUME NEW y \in 1..L + 1
        PROVE  LET v == p.symbols[y] IN
               /\ v.section \in 0..Len(o.sections)
               /\ v.section = 0 => v.align = 0
               /\ v.kind = "Section" =>
                      /\ v.section # 0 /\ v.value = 0 /\ v.align = 0
                      /\ o.sections[v.section].symbol = y
    <3>1. CASE y \in 1..L
      BY <1>1, <1>2, <3>1 DEF SymbolsOk, L
    <3>2. CASE y = L + 1
      BY <1>2, <1>3, <1>5, <3>2
    <3> QED BY <1>4, <3>1, <3>2
  <2>2. ASSUME NEW i \in 1..Len(o.sections), o.sections[i].symbol # 0
        PROVE  LET y == o.sections[i].symbol IN
               /\ y \in 1..L + 1 /\ p.symbols[y].kind = "Section"
               /\ p.symbols[y].section = i
    <3> DEFINE y == o.sections[i].symbol
    <3>1. /\ y \in 1..L /\ o.symbols[y].kind = "Section" /\ o.symbols[y].section = i
      BY <1>1, <2>2 DEF SymbolsOk, L
    <3> HIDE DEF y
    <3>2. /\ y \in 1..L + 1 /\ p.symbols[y] = o.symbols[y]
      BY <1>2, <1>3, <3>1
    <3> QED BY <3>1, <3>2 DEF y
  <2> QED BY <1>2, <2>1, <2>2 DEF SymbolsOk
<1>8. \A y \in 1..L + 1 : Takes(p.symbols[y]) => y \in 1..L /\ p.symbols[y] = o.symbols[y]
  BY <1>2, <1>4, <1>5
<1>9. PlacedOk(p)
  <2>1. ASSUME NEW y \in 1..L + 1, p.symbols[y].align # 0 /\ target.viaSymbols
        PROVE  p.symbols[y].size # 0
    <3>1. y \in 1..L
      BY <1>2, <1>4, <1>5, <2>1
    <3> QED BY <1>1, <1>2, <2>1, <3>1 DEF PlacedOk, L
  <2>2. ASSUME NEW y \in 1..L + 1, Takes(p.symbols[y])
        PROVE  LET v == p.symbols[y] s == o.sections[v.section] IN
               /\ v.value % v.align = 0 /\ v.align <= s.align
               /\ v.value + v.size <= s.size
    BY <1>1, <1>8, <2>2 DEF PlacedOk, L
  <2>3. ASSUME NEW y \in 1..L + 1, Takes(p.symbols[y]),
               NEW x \in 1..L + 1, x # y, Takes(p.symbols[x]),
               p.symbols[x].section = p.symbols[y].section
        PROVE  Apart(p.symbols[y], p.symbols[x])
    <3>1. /\ x \in 1..L /\ p.symbols[x] = o.symbols[x]
          /\ y \in 1..L /\ p.symbols[y] = o.symbols[y]
      BY <1>8, <2>3
    <3> QED BY <1>1, <2>3, <3>1 DEF PlacedOk, L
  <2> QED BY <1>2, <2>1, <2>2, <2>3 DEF PlacedOk
<1>10. Extends(o, p)
  <2>1. Extends(o, o)
    BY <1>1, ExtendsItself
  <2>2. Leaves(o, p)
    <3>1. ASSUME NEW i \in 1..Len(o.sections), NEW y \in 1..L + 1,
                 p.symbols[y].section = i
          PROVE  y \in 1..L /\ o.symbols[y].section = i
      <4>1. i # 0
        BY <1>3
      <4> QED BY <1>2, <1>4, <1>5, <3>1, <4>1
    <3> QED BY <1>2, <3>1, LeavesIdle DEF L
  <2> QED BY <1>2, <1>3, <2>1, <2>2 DEF Extends, L
<1>11. Keeps(o, p)
  <2>1. Keeps(o, o)
    BY <1>1, KeepsItself
  <2> QED BY <1>2, <1>8, <2>1 DEF Keeps, L
<1>12. ASSUME StubsOk(o) PROVE StubsOk(p)
  <2>1. \A i \in 1..Len(p.sections) : i > Len(o.sections) => p.sections[i].info # "refptr"
    BY <1>2, <1>3
  <2> QED BY <1>1, <1>2, <1>10, <2>1, <1>12, StubsKept
<1> QED BY <1>2, <1>6, <1>7, <1>9, <1>10, <1>11, <1>12 DEF Sound, p

-------------------------------------------------------------------------------
(* A symbol is defined: set_symbol_data *)

(* Its new state, with the kind that it has.                               *)
Placement(k, i, v, n, a) ==
    [kind |-> k, section |-> i, value |-> v, size |-> n, align |-> a]

Redefined(o, y, w) ==
    Object(o.sections, [o.symbols EXCEPT ![y] = w], o.std, o.stubs, o.boot)

LEMMA DefineAs ==
    ASSUME NEW o, Typed(o), NEW y \in 1..Len(o.symbols), NEW i, NEW v, NEW n, NEW a
    PROVE  Define(o, y, i, v, n, a) =
               Redefined(o, y, Placement(o.symbols[y].kind, i, v, n, a))
<1> DEFINE w == [o.symbols[y] EXCEPT !.section = i, !.value = v, !.size = n, !.align = a]
           t == [o.symbols EXCEPT ![y] = w]
<1>1. o = Object(o.sections, o.symbols, o.std, o.stubs, o.boot)
  BY TypedFields
<1>2. o.symbols[y] \in Symbols
  BY TypedFields
<1>3. w = Placement(o.symbols[y].kind, i, v, n, a)
  <2> DEFINE z == o.symbols[y]
  <2>1. z = [kind |-> z.kind, section |-> z.section, value |-> z.value,
             size |-> z.size, align |-> z.align]
    BY <1>2 DEF Symbols
  <2>2. w = [z EXCEPT !.section = i, !.value = v, !.size = n, !.align = a]
    OBVIOUS
  <2> HIDE DEF z, w
  <2>3. w = Placement(z.kind, i, v, n, a)
    BY <2>1, <2>2 DEF Placement
  <2> QED BY <2>3 DEF z
<1>4. Define(o, y, i, v, n, a) = [o EXCEPT !.symbols = t]
  BY DEF Define
<1> HIDE DEF w
<1>5. t = [o.symbols EXCEPT ![y] = Placement(o.symbols[y].kind, i, v, n, a)]
  BY <1>3
<1> HIDE DEF t
<1>6. [o EXCEPT !.symbols = t] = Object(o.sections, t, o.std, o.stubs, o.boot)
  BY <1>1 DEF Object
<1> QED BY <1>4, <1>5, <1>6 DEF Redefined

LEMMA RedefinedIs ==
    ASSUME NEW o, Typed(o), NEW y \in 1..Len(o.symbols), NEW w \in Symbols
    PROVE  LET p == Redefined(o, y, w) IN
           /\ Typed(p) /\ Len(p.symbols) = Len(o.symbols)
           /\ \A x \in 1..Len(o.symbols) :
                  p.symbols[x] = IF x = y THEN w ELSE o.symbols[x]
           /\ p.sections = o.sections /\ p.std = o.std /\ p.stubs = o.stubs
           /\ p.boot = o.boot
<1> DEFINE t == [o.symbols EXCEPT ![y] = w]
           p == Redefined(o, y, w)
<1>1. /\ o.sections \in Seq(Sections) /\ o.symbols \in Seq(Symbols)
      /\ o.boot \in Nat /\ o.std \in [DOMAIN o.std -> Nat]
      /\ o.stubs \in [DOMAIN o.stubs -> Nat]
  BY TypedFields
<1>2. /\ t \in Seq(Symbols) /\ Len(t) = Len(o.symbols)
      /\ \A x \in 1..Len(o.symbols) : t[x] = IF x = y THEN w ELSE o.symbols[x]
  BY <1>1, ExceptSeq
<1>3. p = Object(o.sections, t, o.std, o.stubs, o.boot)
  BY DEF Redefined
<1> HIDE DEF t, p
<1>4. /\ p.sections = o.sections /\ p.symbols = t /\ p.std = o.std
      /\ p.stubs = o.stubs /\ p.boot = o.boot
  BY <1>3 DEF Object
<1>5. Typed(p)
  BY <1>1, <1>2, <1>3, TypedObject
<1> QED BY <1>2, <1>4, <1>5 DEF p

(* A symbol that takes cells nobody took is apart from all others.         *)
LEMMA SymbolDefined ==
    ASSUME NEW o, Sound(o), NEW y \in 1..Len(o.symbols),
           o.symbols[y].kind # "Section", o.symbols[y].section = 0,
           NEW i, NEW v, NEW n \in Nat, NEW a \in Nat \ {0}, Spot(o, i, v, n, a),
           target.viaSymbols => n # 0
    PROVE  LET p == Define(o, y, i, v, n, a) IN
           Sound(p) /\ (StubsOk(o) => StubsOk(p)) /\ Extends(o, p)
<1> DEFINE p == Define(o, y, i, v, n, a)
           u == Placement(o.symbols[y].kind, i, v, n, a)
           L == Len(o.symbols)
<1>1. /\ Typed(o) /\ StdOk(o) /\ SectionsOk(o) /\ SymbolsOk(o) /\ PlacedOk(o)
  BY DEF Sound
<1>2. L \in Nat /\ Len(o.sections) \in Nat
  BY <1>1, TypedFields
<1>3. /\ i \in 1..Len(o.sections) /\ v \in Nat /\ v % a = 0
      /\ v + n <= o.sections[i].size /\ a <= o.sections[i].align
  BY DEF Spot
<1>4. i \in Nat /\ i # 0 /\ i \in 0..Len(o.sections)
  BY <1>2, <1>3
<1>5. /\ Typed(p) /\ Len(p.symbols) = L
      /\ \A x \in 1..L : p.symbols[x] = IF x = y THEN u ELSE o.symbols[x]
      /\ p.sections = o.sections /\ p.std = o.std /\ p.stubs = o.stubs
      /\ p.boot = o.boot
  <2>1. p = Redefined(o, y, u)
    BY <1>1, DefineAs
  <2>2. o.symbols[y].kind \in {"Text", "Tls", "Section", "Other"}
    BY <1>1, TypedFields DEF Symbols
  <2>3. u \in Symbols
    BY <1>3, <1>4, <2>2 DEF Symbols, Placement
  <2> HIDE DEF p, u
  <2> QED BY <1>1, <2>1, <2>3, RedefinedIs
<1>6. /\ p.symbols[y].kind = o.symbols[y].kind
      /\ p.symbols[y].section = i /\ p.symbols[y].value = v
      /\ p.symbols[y].size = n /\ p.symbols[y].align = a
  BY <1>5 DEF Placement
<1> HIDE DEF p, L, u
<1>7. StdOk(p) /\ SectionsOk(p)
  <2>1. StdOk(p)
    BY <1>1, <1>5, StdKept
  <2> QED BY <1>1, <1>5, <2>1 DEF SectionsOk
<1>8. SymbolsOk(p)
  <2>1. ASSUME NEW x \in 1..L
        PROVE  LET w == p.symbols[x] IN
               /\ w.section \in 0..Len(o.sections)
               /\ w.section = 0 => w.align = 0
               /\ w.kind = "Section" =>
                      /\ w.section # 0 /\ w.value = 0 /\ w.align = 0
                      /\ o.sections[w.section].symbol = x
    <3>1. CASE x = y
      BY <1>4, <1>6, <3>1
    <3>2. CASE x # y
      BY <1>1, <1>5, <3>2, SMTT(40) DEF SymbolsOk, L
    <3> QED BY <3>1, <3>2
  <2>2. ASSUME NEW j \in 1..Len(o.sections), o.sections[j].symbol # 0
        PROVE  LET x == o.sections[j].symbol IN
               /\ x \in 1..L /\ p.symbols[x].kind = "Section"
               /\ p.symbols[x].section = j
    <3> DEFINE x == o.sections[j].symbol
    <3>1. x \in 1..L /\ o.symbols[x].kind = "Section" /\ o.symbols[x].section = j
      BY <1>1, <2>2 DEF SymbolsOk, L
    <3>2. x # y
      BY <3>1
    <3> HIDE DEF x
    <3>3. p.symbols[x] = o.symbols[x]
      BY <1>5, <3>1, <3>2
    <3>4. x \in 1..L /\ p.symbols[x].kind = "Section" /\ p.symbols[x].section = j
      BY <3>1, <3>3
    <3> QED BY <3>4 DEF x
  <2>3. Len(p.symbols) = L /\ p.sections = o.sections
    BY <1>5
  <2> QED BY <2>1, <2>2, <2>3, SMTT(90) DEF SymbolsOk
<1>9. PlacedOk(p)
  <2>1. ASSUME NEW x \in 1..L, p.symbols[x].align # 0 /\ target.viaSymbols
        PROVE  p.symbols[x].size # 0
    BY <1>1, <1>5, <1>6, <2>1 DEF PlacedOk, L
  <2>2. ASSUME NEW x \in 1..L, Takes(p.symbols[x])
        PROVE  LET w == p.symbols[x] s == o.sections[w.section] IN
               /\ w.value % w.align = 0 /\ w.align <= s.align
               /\ w.value + w.size <= s.size
    <3>1. CASE x = y
      BY <1>3, <1>6, <3>1
    <3>2. CASE x # y
      BY <1>1, <1>5, <2>2, <3>2 DEF PlacedOk, L
    <3> QED BY <3>1, <3>2
  <2>3. ASSUME NEW x \in 1..L, x # y, Takes(o.symbols[x]), o.symbols[x].section = i
        PROVE  Apart(p.symbols[y], o.symbols[x]) /\ Apart(o.symbols[x], p.symbols[y])
    <3>1. \/ o.symbols[x].value + o.symbols[x].size <= v
          \/ v + n <= o.symbols[x].value
      BY <2>3 DEF Spot, L
    <3> QED BY <1>6, <3>1 DEF Apart
  <2>4. ASSUME NEW x \in 1..L, Takes(p.symbols[x]),
               NEW z \in 1..L, z # x, Takes(p.symbols[z]),
               p.symbols[z].section = p.symbols[x].section
        PROVE  Apart(p.symbols[x], p.symbols[z])
    <3>1. CASE x = y
      BY <1>5, <1>6, <2>3, <2>4, <3>1
    <3>2. CASE z = y
      BY <1>5, <1>6, <2>3, <2>4, <3>2
    <3>3. CASE x # y /\ z # y
      BY <1>1, <1>5, <2>4, <3>3 DEF PlacedOk, L
    <3> QED BY <3>1, <3>2, <3>3
  <2> QED BY <1>5, <2>1, <2>2, <2>3, <2>4 DEF PlacedOk
<1>10. Extends(o, p)
  <2>1. Extends(o, o)
    BY <1>1, ExtendsItself
  <2>2. ASSUME NEW x \in 1..L
        PROVE  /\ p.symbols[x].kind = o.symbols[x].kind
               /\ o.symbols[x].section # 0 => p.symbols[x] = o.symbols[x]
    BY <1>5, <1>6
  <2>3. Leaves(o, p)
    <3>1. Free(o, i)
      BY DEF Spot
    <3>2. ASSUME NEW j \in 1..Len(o.sections), o.sections[j].info = "refptr",
                 ~target.relocates, NEW x \in 1..L, p.symbols[x].section = j
          PROVE  o.symbols[x].section = j
      <4>1. j # i
        BY <3>1, <3>2 DEF Free
      <4> QED BY <1>5, <1>6, <3>2, <4>1
    <3> QED BY <1>5, <3>2, LeavesIdle DEF L
  <2> QED BY <1>2, <1>5, <2>1, <2>2, <2>3 DEF Extends, L
<1>11. ASSUME StubsOk(o) PROVE StubsOk(p)
  <2>1. \A j \in 1..Len(p.sections) : j > Len(o.sections) => p.sections[j].info # "refptr"
    BY <1>2, <1>5
  <2> QED BY <1>1, <1>5, <1>10, <2>1, <1>11, StubsKept
<1> QED BY <1>5, <1>7, <1>8, <1>9, <1>10, <1>11 DEF Sound, p

Defined(o, p, y, i, v, n) ==
    /\ p.symbols[y].section = i /\ p.symbols[y].value = v /\ p.symbols[y].size = n
    /\ p.symbols[y].kind = o.symbols[y].kind
    /\ \A x \in 1..Len(o.symbols) : x # y => p.symbols[x] = o.symbols[x]
    /\ Len(p.symbols) = Len(o.symbols) /\ p.sections = o.sections
    /\ p.std = o.std /\ p.boot = o.boot

LEMMA DefineFields ==
    ASSUME NEW o, Typed(o), NEW y \in 1..Len(o.symbols), NEW i \in Nat, NEW v \in Nat,
           NEW n \in Nat, NEW a \in Nat
    PROVE  Defined(o, Define(o, y, i, v, n, a), y, i, v, n)
<1> DEFINE p == Define(o, y, i, v, n, a)
           u == Placement(o.symbols[y].kind, i, v, n, a)
<1>1. p = Redefined(o, y, u)
  BY DefineAs
<1>2. o.symbols[y].kind \in {"Text", "Tls", "Section", "Other"}
  BY TypedFields DEF Symbols
<1>3. u \in Symbols
  BY <1>2 DEF Symbols, Placement
<1>4. u.section = i /\ u.value = v /\ u.size = n /\ u.kind = o.symbols[y].kind
  BY DEF Placement
<1> HIDE DEF p, u
<1>5. /\ Len(p.symbols) = Len(o.symbols)
      /\ \A x \in 1..Len(o.symbols) : p.symbols[x] = IF x = y THEN u ELSE o.symbols[x]
      /\ p.sections = o.sections /\ p.std = o.std /\ p.boot = o.boot
  BY <1>1, <1>3, RedefinedIs
<1>6. p.symbols[y] = u
  BY <1>5
<1> QED BY <1>4, <1>5, <1>6 DEF p, Defined

LEMMA DefineKeeps ==
    ASSUME NEW o, NEW q, Typed(o), Typed(q), Keeps(o, q),
           NEW y \in 1..Len(q.symbols), NEW i \in Nat, NEW v \in Nat,
           NEW n \in Nat, NEW a \in Nat,
           i \in 1..Len(o.sections) => v >= o.sections[i].size
    PROVE  Keeps(o, Define(q, y, i, v, n, a))
<1> DEFINE p == Define(q, y, i, v, n, a)
           u == Placement(q.symbols[y].kind, i, v, n, a)
<1>1. /\ Len(p.symbols) = Len(q.symbols)
      /\ \A x \in 1..Len(q.symbols) : x # y => p.symbols[x] = q.symbols[x]
      /\ p.symbols[y].section = i /\ p.symbols[y].value = v
      /\ p.sections = q.sections
  <2>1. p = Redefined(q, y, u)
    BY DefineAs
  <2>2. q.symbols[y].kind \in {"Text", "Tls", "Section", "Other"}
    BY TypedFields DEF Symbols
  <2>3. u \in Symbols
    BY <2>2 DEF Symbols, Placement
  <2>4. u.section = i /\ u.value = v
    BY DEF Placement
  <2> HIDE DEF p, u
  <2> QED BY <2>1, <2>3, <2>4, RedefinedIs
<1> HIDE DEF p, u
<1>2. ASSUME NEW z \in 1..Len(p.symbols), Takes(p.symbols[z])
      PROVE  \/ z \in 1..Len(o.symbols) /\ p.symbols[z] = o.symbols[z]
             \/ p.symbols[z].section \in 1..Len(o.sections) =>
                    p.symbols[z].value >= o.sections[p.symbols[z].section].size
  <2>1. CASE z = y
    BY <1>1, <2>1
  <2>2. CASE z # y
    <3>1. z \in 1..Len(q.symbols) /\ p.symbols[z] = q.symbols[z] /\ Takes(q.symbols[z])
      BY <1>1, <1>2, <2>2
    <3> QED BY <3>1 DEF Keeps
  <2> QED BY <2>1, <2>2
<1>3. Keeps(o, p)
  BY <1>1, <1>2 DEF Keeps
<1> QED BY <1>3 DEF p

-------------------------------------------------------------------------------
(* The symbols that the builder adds for itself: section_symbol and        *)
(* macho_tlv_bootstrap *)

(* A section of which only the symbol is set.                              *)
LEMMA SymbolSet ==
    ASSUME NEW s \in Sections, SectionOk(s), NEW y \in Nat
    PROVE  LET t == [s EXCEPT !.symbol = y] IN
           /\ t \in Sections /\ SectionOk(t)
           /\ t.info = s.info /\ t.size = s.size /\ t.align = s.align
           /\ t.relocs = s.relocs /\ t.symbol = y
<1> DEFINE t == [s EXCEPT !.symbol = y]
<1>1. /\ t \in Sections /\ t.info = s.info /\ t.size = s.size /\ t.align = s.align
      /\ t.data = s.data /\ t.given = s.given /\ t.relocs = s.relocs /\ t.symbol = y
  BY DEF Sections
<1> HIDE DEF t
<1>2. \A k \in 1..Len(s.relocs), n \in 1..Len(s.data) : At(t, k, n) = At(s, k, n)
  BY <1>1 DEF At
<1>3. SectionOk(t)
  BY <1>1, <1>2 DEF SectionOk, RelocSafe, CellOk, AsGiven, Replaced
<1> QED BY <1>1, <1>3 DEF t

LEMMA SectionSymbolIs ==
    ASSUME NEW o, Typed(o), NEW i \in 1..Len(o.sections), o.sections[i].symbol = 0
    PROVE  SectionSymbol(o, i) =
               Changed(AddRawSymbol(o, [Undefined("Section") EXCEPT !.section = i]),
                       i, [o.sections[i] EXCEPT !.symbol = Len(o.symbols) + 1])
<1> DEFINE u == [Undefined("Section") EXCEPT !.section = i]
           q == AddRawSymbol(o, u)
           s == [o.sections[i] EXCEPT !.symbol = Len(o.symbols) + 1]
<1>1. SectionSymbol(o, i) = [q EXCEPT !.sections[i].symbol = Len(o.symbols) + 1]
  BY DEF SectionSymbol
<1>2. o = Object(o.sections, o.symbols, o.std, o.stubs, o.boot)
  BY TypedFields
<1>3. q = Object(o.sections, Append(o.symbols, u), o.std, o.stubs, o.boot)
  BY <1>2, SMTT(20) DEF AddRawSymbol, Object
<1> HIDE DEF q
<1>4. q.sections = o.sections
  BY <1>3 DEF Object
<1>5. [q EXCEPT !.sections[i].symbol = Len(o.symbols) + 1] =
          [q EXCEPT !.sections = [q.sections EXCEPT ![i] = s]]
  BY <1>4
<1> HIDE DEF s
<1> DEFINE t == [q.sections EXCEPT ![i] = s]
<1>6. [q EXCEPT !.sections = t] = Object(t, q.symbols, q.std, q.stubs, q.boot)
  <2>1. q = Object(q.sections, q.symbols, q.std, q.stubs, q.boot)
    BY <1>3 DEF Object
  <2> HIDE DEF t
  <2> QED BY <2>1 DEF Object
<1>7. [q EXCEPT !.sections = t] = Changed(q, i, s)
  BY <1>6 DEF Changed
<1> HIDE DEF t
<1>8. [q EXCEPT !.sections[i].symbol = Len(o.symbols) + 1] = [q EXCEPT !.sections = t]
  BY <1>5 DEF t
<1> QED BY <1>1, <1>7, <1>8 DEF q, s

LEMMA SectionSymbolAdded ==
    ASSUME NEW o, ObjectOk(o), NEW i \in 1..Len(o.sections), Free(o, i)
    PROVE  LET p == SectionSymbol(o, i) y == p.sections[i].symbol IN
           /\ ObjectOk(p) /\ Extends(o, p) /\ Keeps(o, p)
           /\ y \in 1..Len(p.symbols) /\ p.symbols[y].kind = "Section"
           /\ \A x \in 1..Len(o.symbols) : p.symbols[x] = o.symbols[x]
<1> DEFINE p == SectionSymbol(o, i)
           L == Len(o.symbols)
           u == [Undefined("Section") EXCEPT !.section = i]
           q == AddRawSymbol(o, u)
           s == [o.sections[i] EXCEPT !.symbol = L + 1]
<1>1. /\ Typed(o) /\ StdOk(o) /\ SectionsOk(o) /\ SymbolsOk(o) /\ PlacedOk(o)
      /\ StubsOk(o)
  BY DEF ObjectOk, Sound
<1>2. CASE o.sections[i].symbol # 0
  <2>1. p = o
    BY <1>2 DEF SectionSymbol
  <2>2. /\ o.sections[i].symbol \in 1..Len(o.symbols)
        /\ o.symbols[o.sections[i].symbol].kind = "Section"
    BY <1>1, <1>2 DEF SymbolsOk
  <2> HIDE DEF p
  <2> QED BY <1>1, <2>1, <2>2, ExtendsItself, KeepsItself DEF p
<1>3. CASE o.sections[i].symbol = 0
  <2>1. L \in Nat /\ Len(o.sections) \in Nat
    BY <1>1, TypedFields
  <2>2. /\ u.kind = "Section" /\ u.section = i /\ u.value = 0 /\ u.align = 0
        /\ u \in Symbols
    BY <2>1 DEF Undefined, Symbols
  <2>3. o.sections[i] \in Sections /\ SectionOk(o.sections[i])
    BY <1>1, SectionTypes DEF SectionsOk
  <2>4. /\ s \in Sections /\ SectionOk(s)
        /\ s.info = o.sections[i].info /\ s.size = o.sections[i].size
        /\ s.align = o.sections[i].align
        /\ s.relocs = o.sections[i].relocs /\ s.symbol = L + 1
    <3>1. L + 1 \in Nat
      BY <2>1
    <3> QED BY <2>3, <3>1, SymbolSet
  <2>5. p = Changed(q, i, s)
    BY <1>1, <1>3, SectionSymbolIs
  <2> HIDE DEF u
  <2>6. /\ Typed(q) /\ Len(q.symbols) = L + 1
        /\ \A y \in 1..L : q.symbols[y] = o.symbols[y]
        /\ q.symbols[L + 1] = u
        /\ q.sections = o.sections /\ q.std = o.std /\ q.stubs = o.stubs
        /\ q.boot = o.boot
    BY <1>1, <2>2, AddRawSymbolIs
  <2> HIDE DEF p, L, q, s
  <2>7. /\ Typed(p) /\ Len(p.sections) = Len(q.sections)
        /\ \A j \in 1..Len(q.sections) :
               p.sections[j] = IF j = i THEN s ELSE q.sections[j]
        /\ p.symbols = q.symbols /\ p.std = q.std /\ p.stubs = q.stubs
        /\ p.boot = q.boot
    <3>1. i \in 1..Len(q.sections)
      BY <2>6
    <3> QED BY <2>4, <2>5, <2>6, <3>1, ChangedTyped
  <2>8. ASSUME NEW j \in 1..Len(o.sections)
        PROVE  /\ p.sections[j].info = o.sections[j].info
               /\ p.sections[j].size = o.sections[j].size
               /\ p.sections[j].align = o.sections[j].align
               /\ p.sections[j].relocs = o.sections[j].relocs
               /\ SectionOk(p.sections[j])
               /\ p.sections[j].symbol = IF j = i THEN L + 1 ELSE o.sections[j].symbol
    <3>1. CASE j = i
      BY <2>4, <2>6, <2>7, <3>1
    <3>2. CASE j # i
      BY <1>1, <2>6, <2>7, <3>2 DEF SectionsOk
    <3> QED BY <3>1, <3>2
  <2>9. \A y \in 1..L + 1 : y \in 1..L \/ y = L + 1
    BY <2>1
  <2>10. Len(p.sections) = Len(o.sections) /\ Len(p.symbols) = L + 1
    BY <2>6, <2>7
  <2>11. StdOk(p) /\ SectionsOk(p)
    <3>1. StdOk(p)
      BY <1>1, <2>6, <2>7, <2>8, StdKept
    <3> QED BY <2>8, <2>10, <3>1 DEF SectionsOk
  <2>12. SymbolsOk(p)
    <3>1. ASSUME NEW y \in 1..L + 1
          PROVE  LET v == p.symbols[y] IN
                 /\ v.section \in 0..Len(o.sections)
                 /\ v.section = 0 => v.align = 0
                 /\ v.kind = "Section" =>
                        /\ v.section # 0 /\ v.value = 0 /\ v.align = 0
                        /\ p.sections[v.section].symbol = y
      <4>1. CASE y \in 1..L
        <5> DEFINE v == o.symbols[y]
        <5>1. /\ v.section \in 0..Len(o.sections)
              /\ v.section = 0 => v.align = 0
              /\ v.kind = "Section" =>
                     /\ v.section # 0 /\ v.value = 0 /\ v.align = 0
                     /\ o.sections[v.section].symbol = y
          BY <1>1, <4>1 DEF SymbolsOk, L
        <5>2. p.symbols[y] = v
          BY <2>6, <2>7, <4>1
        <5> HIDE DEF v
        <5>3. ASSUME v.kind = "Section" PROVE p.sections[v.section].symbol = y
          <6>1. y # 0
            BY <2>1, <4>1
          <6>2. v.section # i /\ v.section \in 1..Len(o.sections)
            BY <1>3, <5>1, <5>3, <6>1
          <6> QED BY <2>8, <5>1, <5>3, <6>2
        <5> QED BY <5>1, <5>2, <5>3
      <4>2. CASE y = L + 1
        BY <2>1, <2>2, <2>6, <2>7, <2>8, <4>2
      <4> QED BY <2>9, <4>1, <4>2
    <3>2. ASSUME NEW j \in 1..Len(o.sections), p.sections[j].symbol # 0
          PROVE  LET y == p.sections[j].symbol IN
                 /\ y \in 1..L + 1 /\ p.symbols[y].kind = "Section"
                 /\ p.symbols[y].section = j
      <4>1. CASE j = i
        BY <2>1, <2>2, <2>6, <2>7, <2>8, <4>1, SMTT(20)
      <4>2. CASE j # i
        <5> DEFINE y == o.sections[j].symbol
        <5>1. p.sections[j].symbol = y
          BY <2>8, <4>2
        <5>2. y \in 1..L /\ o.symbols[y].kind = "Section" /\ o.symbols[y].section = j
          BY <1>1, <3>2, <5>1 DEF SymbolsOk, L
        <5> HIDE DEF y
        <5>3. y \in 1..L + 1 /\ p.symbols[y] = o.symbols[y]
          BY <2>1, <2>6, <2>7, <5>2
        <5> QED BY <5>1, <5>2, <5>3
      <4> QED BY <4>1, <4>2
    <3> QED BY <2>10, <3>1, <3>2 DEF SymbolsOk
  <2>13. \A y \in 1..L + 1 :
             p.symbols[y].align # 0 => y \in 1..L /\ p.symbols[y] = o.symbols[y]
    BY <2>2, <2>6, <2>7, <2>9
  <2>14. PlacedOk(p)
    <3>1. ASSUME NEW y \in 1..L + 1, p.symbols[y].align # 0 /\ target.viaSymbols
          PROVE  p.symbols[y].size # 0
      BY <1>1, <2>13, <3>1 DEF PlacedOk, L
    <3>2. ASSUME NEW y \in 1..L + 1, Takes(p.symbols[y])
          PROVE  LET v == p.symbols[y] t == p.sections[v.section] IN
                 /\ v.value % v.align = 0 /\ v.align <= t.align
                 /\ v.value + v.size <= t.size
      <4> DEFINE v == o.symbols[y]
      <4>1. y \in 1..L /\ p.symbols[y] = v
        BY <2>13, <3>2 DEF Takes
      <4>2. v.section \in 1..Len(o.sections)
        BY <1>1, <2>1, <3>2, <4>1 DEF SymbolsOk, Takes, L
      <4>3. /\ p.sections[v.section].size = o.sections[v.section].size
            /\ p.sections[v.section].align = o.sections[v.section].align
        BY <2>8, <4>2
      <4>4. /\ v.value % v.align = 0 /\ v.align <= o.sections[v.section].align
            /\ v.value + v.size <= o.sections[v.section].size
        BY <1>1, <3>2, <4>1 DEF PlacedOk, L
      <4> QED BY <4>1, <4>3, <4>4
    <3>3. ASSUME NEW y \in 1..L + 1, Takes(p.symbols[y]),
                 NEW z \in 1..L + 1, z # y, Takes(p.symbols[z]),
                 p.symbols[z].section = p.symbols[y].section
          PROVE  Apart(p.symbols[y], p.symbols[z])
      <4>1. /\ y \in 1..L /\ p.symbols[y] = o.symbols[y]
            /\ z \in 1..L /\ p.symbols[z] = o.symbols[z]
        BY <2>13, <3>3 DEF Takes
      <4> QED BY <1>1, <3>3, <4>1 DEF PlacedOk, L
    <3> QED BY <2>10, <3>1, <3>2, <3>3 DEF PlacedOk
  <2>15. Extends(o, p)
    <3>1. Extends(o, o)
      BY <1>1, ExtendsItself
    <3>2. L <= Len(p.symbols)
      BY <2>1, <2>10
    <3>3. Leaves(o, p)
      <4>1. ASSUME NEW j \in 1..Len(o.sections), o.sections[j].info = "refptr",
                   ~target.relocates, NEW y \in 1..L + 1, p.symbols[y].section = j
            PROVE  y \in 1..L /\ o.symbols[y].section = j
        <5>1. j # i
          BY <4>1 DEF Free
        <5>2. y # L + 1
          BY <2>2, <2>6, <2>7, <4>1, <5>1
        <5> QED BY <2>6, <2>7, <2>9, <4>1, <5>2
      <4> QED BY <2>8, <2>10, <4>1, LeavesIdle DEF L
    <3> QED BY <2>6, <2>7, <2>8, <2>10, <3>1, <3>2, <3>3 DEF Extends, L
  <2>16. Keeps(o, p)
    <3>1. Keeps(o, o)
      BY <1>1, KeepsItself
    <3>2. \A z \in 1..L + 1 : Takes(p.symbols[z]) =>
              z \in 1..L /\ p.symbols[z] = o.symbols[z]
      BY <2>13 DEF Takes
    <3> QED BY <2>8, <2>10, <3>1, <3>2 DEF Keeps, L
  <2>17. StubsOk(p)
    <3>1. \A j \in 1..Len(p.sections) : j > Len(o.sections) => p.sections[j].info # "refptr"
      BY <2>1, <2>10
    <3>2. p.stubs = o.stubs
      BY <2>6, <2>7
    <3> QED BY <1>1, <2>7, <2>15, <3>1, <3>2, StubsKept
  <2>18. ObjectOk(p)
    BY <2>7, <2>11, <2>12, <2>14, <2>17 DEF ObjectOk, Sound
  <2>19. /\ p.sections[i].symbol = L + 1 /\ L + 1 \in 1..Len(p.symbols)
         /\ p.symbols[L + 1].kind = "Section"
         /\ \A x \in 1..L : p.symbols[x] = o.symbols[x]
    BY <2>1, <2>2, <2>6, <2>7, <2>8, <2>10
  <2> QED BY <2>15, <2>16, <2>18, <2>19 DEF p, L
<1> QED BY <1>2, <1>3

LEMMA BootSet ==
    ASSUME NEW o, ObjectOk(o), o.boot = 0, NEW b \in Nat
    PROVE  LET p == Object(o.sections, o.symbols, o.std, o.stubs, b) IN
           ObjectOk(p) /\ Extends(o, p) /\ Keeps(o, p)
<1> DEFINE p == Object(o.sections, o.symbols, o.std, o.stubs, b)
<1>1. /\ Typed(o) /\ StdOk(o) /\ SectionsOk(o) /\ SymbolsOk(o) /\ PlacedOk(o)
      /\ StubsOk(o)
  BY DEF ObjectOk, Sound
<1>2. /\ p.sections = o.sections /\ p.symbols = o.symbols /\ p.std = o.std
      /\ p.stubs = o.stubs
  BY DEF Object
<1>3. Typed(p)
  BY <1>1, TypedFields, TypedObject
<1> HIDE DEF p
<1>4. StdOk(p) /\ SectionsOk(p)
  <2>1. StdOk(p)
    BY <1>1, <1>2, StdKept
  <2> QED BY <1>1, <1>2, <2>1 DEF SectionsOk
<1>5. SymbolsOk(p)
  BY <1>1, <1>2, TypedFields, SymbolsKept
<1>6. PlacedOk(p)
  BY <1>1, <1>2 DEF PlacedOk
<1>7. Extends(o, p)
  <2>1. Extends(o, o)
    BY <1>1, ExtendsItself
  <2>2. Leaves(o, p)
    BY <1>2, LeavesIdle
  <2> QED BY <1>2, <2>1, <2>2 DEF Extends
<1>8. StubsOk(p)
  <2>1. \A j \in 1..Len(p.sections) : j > Len(o.sections) => p.sections[j].info # "refptr"
    BY <1>1, <1>2, TypedFields
  <2> QED BY <1>1, <1>2, <1>3, <1>7, <2>1, StubsKept
<1>9. Keeps(o, p)
  <2>1. Keeps(o, o)
    BY <1>1, KeepsItself
  <2> QED BY <1>2, <2>1 DEF Keeps
<1> QED BY <1>3, <1>4, <1>5, <1>6, <1>7, <1>8, <1>9 DEF ObjectOk, Sound, p

LEMMA BootstrapAdded ==
    ASSUME NEW o, ObjectOk(o)
    PROVE  LET p == TlvBootstrap(o) IN
           /\ ObjectOk(p) /\ Extends(o, p) /\ Keeps(o, p) /\ p.boot # 0
           /\ p.sections = o.sections /\ p.std = o.std
           /\ \A x \in 1..Len(o.symbols) : p.symbols[x] = o.symbols[x]
<1> DEFINE p == TlvBootstrap(o)
           q == AddRawSymbol(o, Undefined("Text"))
           b == Len(o.symbols) + 1
<1>1. Typed(o)
  BY DEF ObjectOk, Sound
<1>2. CASE o.boot # 0
  BY <1>1, <1>2, ExtendsItself, KeepsItself DEF TlvBootstrap
<1>3. CASE o.boot = 0
  <2>1. Undefined("Text") \in Symbols /\ Unplaced(Undefined("Text"))
    BY DEF Undefined, Symbols, Unplaced
  <2>2. ObjectOk(q) /\ Extends(o, q) /\ Keeps(o, q)
    BY <2>1, SymbolAdded DEF ObjectOk
  <2>3. /\ Typed(q) /\ q.sections = o.sections /\ q.std = o.std /\ q.boot = 0
        /\ \A x \in 1..Len(o.symbols) : q.symbols[x] = o.symbols[x]
    BY <1>1, <1>3, <2>1, AddRawSymbolIs
  <2>4. b \in Nat /\ b # 0
    BY <1>1, TypedFields
  <2>5. p = [q EXCEPT !.boot = b]
    BY <1>3 DEF TlvBootstrap
  <2> HIDE DEF p, q, b
  <2>6. p = Object(q.sections, q.symbols, q.std, q.stubs, b)
    <3>1. q = Object(q.sections, q.symbols, q.std, q.stubs, q.boot)
      BY <2>3, TypedFields
    <3> QED BY <2>5, <3>1 DEF Object
  <2>7. ObjectOk(p) /\ Extends(q, p) /\ Keeps(q, p)
    BY <2>2, <2>3, <2>4, <2>6, BootSet
  <2>8. Typed(p)
    BY <2>7 DEF ObjectOk, Sound
  <2>9. Extends(o, p)
    BY <1>1, <2>2, <2>3, <2>7, <2>8, ExtendsTransitive
  <2>10. Keeps(o, p)
    BY <1>1, <2>2, <2>3, <2>7, <2>8, KeepsTransitive
  <2>11. p.boot = b /\ p.sections = q.sections /\ p.std = q.std /\ p.symbols = q.symbols
    BY <2>6 DEF Object
  <2> QED BY <2>3, <2>4, <2>7, <2>9, <2>10, <2>11 DEF p
<1> QED BY <1>2, <1>3

-------------------------------------------------------------------------------
(* Data is added: set_data, append_data, append_bss *)

LEMMA ZerosAre ==
    ASSUME NEW n \in Nat
    PROVE  Zeros(n) \in Seq(Int) /\ Len(Zeros(n)) = n
BY DEF Zeros

(* Of a section that gets data, what it had stays, and what is new is as   *)
(* it was given.                                                           *)
Lengthened(s, t) ==
    /\ Len(s.data) <= Len(t.data) /\ Len(t.given) = Len(t.data)
    /\ \A n \in 1..Len(s.data) : t.data[n] = s.data[n] /\ t.given[n] = s.given[n]
    /\ \A n \in 1..Len(t.data) : n > Len(s.data) => t.data[n] = t.given[n]

LEMMA CellsKept ==
    ASSUME NEW s \in Sections, SectionOk(s), NEW t \in Sections,
           t.info = s.info, t.relocs = s.relocs,
           Len(t.data) = IF IsBss(t.info) THEN 0 ELSE t.size, Lengthened(s, t)
    PROVE  SectionOk(t)
<1> DEFINE L == Len(s.data)
           M == Len(t.data)
<1>1. /\ s.data \in Seq(Int) /\ t.data \in Seq(Int) /\ s.relocs \in Seq(Relocs)
  BY DEF Sections
<1>2. L \in Nat /\ M \in Nat /\ L <= M
  BY <1>1 DEF Lengthened
<1>3. ASSUME NEW k \in 1..Len(s.relocs)
      PROVE  s.relocs[k].offset \in Nat /\ RelocSafe(s, s.relocs[k])
  <2>1. s.relocs[k] \in Relocs
    BY <1>1
  <2> QED BY <2>1 DEF Relocs, SectionOk
<1> HIDE DEF L, M
<1>4. ASSUME NEW k \in 1..Len(t.relocs) PROVE RelocSafe(t, t.relocs[k])
  <2> DEFINE r == s.relocs[k]
  <2>1. t.relocs[k] = r /\ r.offset \in Nat /\ RelocSafe(s, r)
    BY <1>3
  <2> HIDE DEF r
  <2>2. r.offset < L => r.offset < M
    BY <1>2, <2>1
  <2>3. RelocSafe(t, r)
    BY <2>1, <2>2 DEF RelocSafe, L, M
  <2> QED BY <2>1, <2>3
<1>5. \A k, n : At(t, k, n) <=> At(s, k, n)
  BY DEF At
<1>6. ASSUME NEW n \in 1..M PROVE CellOk(t, n)
  <2>1. CASE n \in 1..L
    <3>1. t.data[n] = s.data[n] /\ t.given[n] = s.given[n]
      BY <2>1 DEF Lengthened, L
    <3>2. CellOk(s, n)
      BY <2>1 DEF SectionOk, L
    <3>3. CASE AsGiven(s, n)
      BY <1>5, <3>1, <3>3 DEF CellOk, AsGiven
    <3>4. ASSUME NEW k \in 1..Len(s.relocs), Replaced(s, n, k) PROVE CellOk(t, n)
      <4>1. Replaced(t, n, k)
        BY <1>5, <3>1, <3>4 DEF Replaced
      <4> QED BY <4>1 DEF CellOk
    <3> QED BY <3>2, <3>3, <3>4 DEF CellOk
  <2>2. CASE n \notin 1..L
    <3>1. n > L
      BY <1>2, <2>2
    <3>2. t.data[n] = t.given[n]
      BY <3>1 DEF Lengthened, L, M
    <3>3. ASSUME NEW k \in 1..Len(t.relocs) PROVE ~At(t, k, n)
      <4> DEFINE r == s.relocs[k]
      <4>1. t.relocs[k] = r /\ r.offset \in Nat /\ RelocSafe(s, r)
        BY <1>3
      <4> HIDE DEF r
      <4>2. target.implicit /\ r.asked # 0 => r.offset < L
        BY <4>1 DEF RelocSafe, L
      <4>3. target.implicit /\ r.asked # 0 => r.offset + 1 # n
        BY <1>2, <3>1, <4>1, <4>2
      <4> QED BY <4>1, <4>3 DEF At
    <3> QED BY <3>2, <3>3 DEF CellOk, AsGiven
  <2> QED BY <2>1, <2>2
<1>7. Len(t.given) = Len(t.data)
  BY DEF Lengthened
<1> QED BY <1>4, <1>6, <1>7 DEF SectionOk, M

(* Section i of p is that of o with n cells of data.                       *)
HasData(o, p, i, n, a) ==
    /\ p.symbols = o.symbols /\ p.std = o.std /\ p.stubs = o.stubs /\ p.boot = o.boot
    /\ Len(p.sections) = Len(o.sections)
    /\ \A j \in 1..Len(o.sections) : j # i => p.sections[j] = o.sections[j]
    /\ p.sections[i].info = o.sections[i].info
    /\ p.sections[i].size = n /\ p.sections[i].align = a
    /\ p.sections[i].relocs = o.sections[i].relocs

LEMMA DataSet ==
    ASSUME NEW o, Sound(o), NEW i \in 1..Len(o.sections),
           ~IsBss(o.sections[i].info), o.sections[i].data = <<>>,
           NEW d \in Seq(Int), NEW a \in Nat \ {0}
    PROVE  LET p == SetData(o, i, d, a) IN
           /\ Sound(p) /\ (StubsOk(o) => StubsOk(p))
           /\ Extends(o, p) /\ HasData(o, p, i, Len(d), a)
<1> DEFINE s == o.sections[i]
           n == Len(d)
           t == [s EXCEPT !.data = d, !.given = d, !.size = n, !.align = a]
           p == SetData(o, i, d, a)
<1>1. Typed(o) /\ SectionOk(s)
  BY DEF Sound, SectionsOk
<1>2. s \in Sections /\ s.size \in Nat /\ s.relocs \in Seq(Relocs) /\ Len(s.relocs) \in Nat
  BY <1>1, SectionTypes
<1>3. s.size = 0
  <2>1. Len(s.data) = 0 /\ ~IsBss(s.info)
    OBVIOUS
  <2> HIDE DEF s
  <2> QED BY <1>1, <2>1 DEF SectionOk
<1>4. p = Changed(o, i, t)
  <2>1. o = Object(o.sections, o.symbols, o.std, o.stubs, o.boot)
    BY <1>1, TypedFields
  <2>2. p = [o EXCEPT !.sections = [o.sections EXCEPT ![i] = t]]
    BY DEF SetData
  <2> HIDE DEF p, t
  <2> DEFINE u == [o.sections EXCEPT ![i] = t]
  <2>3. p = [o EXCEPT !.sections = u]
    BY <2>2
  <2> HIDE DEF u
  <2>4. p = Object(u, o.symbols, o.std, o.stubs, o.boot)
    BY <2>1, <2>3 DEF Object
  <2> QED BY <2>4 DEF Changed, u
<1>5. n \in Nat
  OBVIOUS
<1>6. /\ t \in Sections /\ t.data = d /\ t.given = d /\ t.size = n /\ t.align = a
      /\ t.info = s.info /\ t.relocs = s.relocs /\ t.symbol = s.symbol
  <2> HIDE DEF s, n
  <2> QED BY <1>2, <1>5 DEF Sections
<1>7. ~IsBss(s.info) /\ s.data = <<>>
  OBVIOUS
<1> HIDE DEF s, t
<1>8. Lengthened(s, t)
  <2>1. Len(s.data) = 0 /\ \A m \in 1..Len(s.data) : FALSE
    BY <1>7
  <2> QED BY <1>5, <1>6, <2>1 DEF Lengthened
<1>9. SectionOk(t)
  <2>1. Len(t.data) = IF IsBss(t.info) THEN 0 ELSE t.size
    BY <1>5, <1>6, <1>7
  <2> QED BY <1>1, <1>2, <1>6, <1>8, <2>1, CellsKept
<1>10. Successor(o, i, t)
  BY <1>2, <1>6, <1>9 DEF Successor, s
<1>11. /\ Sound(Changed(o, i, t)) /\ (StubsOk(o) => StubsOk(Changed(o, i, t)))
       /\ Extends(o, Changed(o, i, t))
  BY <1>3, <1>6, <1>10, SectionChanges DEF s
<1> DEFINE q == Changed(o, i, t)
<1>12. /\ Len(q.sections) = Len(o.sections)
       /\ \A j \in 1..Len(o.sections) : q.sections[j] = IF j = i THEN t ELSE o.sections[j]
       /\ q.symbols = o.symbols /\ q.std = o.std /\ q.stubs = o.stubs /\ q.boot = o.boot
  BY <1>1, <1>6, ChangedTyped
<1> HIDE DEF q
<1>13. HasData(o, q, i, n, a)
  BY <1>6, <1>12 DEF HasData, s
<1> HIDE DEF p
<1> QED BY <1>4, <1>11, <1>13 DEF p, q, n

LEMMA OffsetIs ==
    ASSUME NEW o, Typed(o), NEW i \in 1..Len(o.sections), NEW a \in Nat \ {0}
    PROVE  LET v == Offset(o, i, a) IN
           v \in Nat /\ v >= o.sections[i].size /\ v % a = 0
<1> DEFINE n == o.sections[i].size
<1>1. n \in Nat
  BY SectionTypes
<1> HIDE DEF n
<1> DEFINE v == n + ((-n) % a)
<1>2. v \in Int /\ v >= n /\ v % a = 0
  <2>1. n \in Int
    BY <1>1
  <2>2. /\ n + ((-n) % a) \in Int
        /\ n + ((-n) % a) >= n /\ n + ((-n) % a) < n + a
        /\ (n + ((-n) % a)) % a = 0
    BY <2>1, RoundUp
  <2> QED BY <2>2
<1> HIDE DEF v
<1>3. v \in Nat
  BY <1>1, <1>2
<1> QED BY <1>2, <1>3 DEF Offset, AlignUp, n, v

(* What is appended is taken by no symbol.                                 *)
LEMMA SpaceAdded ==
    ASSUME NEW o, ObjectOk(o), NEW i \in 1..Len(o.sections), Free(o, i),
           NEW n \in Nat, NEW a \in Nat \ {0}, NEW t \in Sections, SectionOk(t),
           t.info = o.sections[i].info, t.symbol = o.sections[i].symbol,
           t.relocs = o.sections[i].relocs,
           t.align = Larger(o.sections[i].align, a), t.size = Offset(o, i, a) + n
    PROVE  LET p == Changed(o, i, t) IN
           /\ ObjectOk(p) /\ Extends(o, p) /\ Keeps(o, p)
           /\ Spot(p, i, Offset(o, i, a), n, a)
           /\ p.symbols = o.symbols /\ p.std = o.std
           /\ Len(p.sections) = Len(o.sections) /\ p.sections[i] = t
<1> DEFINE s == o.sections[i]
           v == Offset(o, i, a)
           p == Changed(o, i, t)
<1>1. Typed(o) /\ PlacedOk(o)
  BY DEF ObjectOk, Sound
<1>2. s.size \in Nat /\ s.align \in Nat /\ Len(s.relocs) \in Nat
  BY <1>1, SectionTypes
<1>3. v \in Nat /\ v >= s.size /\ v % a = 0
  BY <1>1, OffsetIs
<1>4. t.align \in Nat /\ t.align >= s.align /\ t.align >= a
  <2> HIDE DEF s
  <2> QED BY <1>2 DEF Larger, s
<1> HIDE DEF v
<1>5. t.size = v + n
  BY DEF v
<1>6. Grows(o, i, t)
  <2>1. s.size <= v + n
    <3> HIDE DEF s
    <3> QED BY <1>2, <1>3
  <2> QED BY <1>4, <1>5, <2>1 DEF Grows
<1>7. Successor(o, i, t)
  BY <1>2 DEF Successor
<1>8. ObjectOk(p) /\ Extends(o, p) /\ Keeps(o, p)
  BY <1>6, <1>7, SectionChanges DEF ObjectOk
<1>9. /\ p.symbols = o.symbols /\ p.std = o.std
      /\ Len(p.sections) = Len(o.sections) /\ p.sections[i] = t
  BY <1>1, ChangedTyped
<1> HIDE DEF p
<1>10. ASSUME NEW z \in 1..Len(o.symbols), Takes(o.symbols[z]), o.symbols[z].section = i
       PROVE  o.symbols[z].value + o.symbols[z].size <= v
  <2> DEFINE w == o.symbols[z]
  <2>1. w.value + w.size <= s.size
    BY <1>1, <1>10 DEF PlacedOk
  <2>2. w.value \in Nat /\ w.size \in Nat
    BY <1>1, TypedFields DEF Symbols
  <2> HIDE DEF w, s
  <2>3. w.value + w.size <= v
    BY <1>2, <1>3, <2>1, <2>2
  <2> QED BY <2>3 DEF w
<1>11. Spot(p, i, v, n, a)
  <2>1. v + n <= t.size /\ a <= t.align
    BY <1>3, <1>4, <1>5
  <2>2. Free(p, i)
    BY <1>9 DEF Free
  <2> QED BY <1>3, <1>9, <1>10, <2>1, <2>2 DEF Spot
<1> QED BY <1>8, <1>9, <1>11 DEF p, v

LEMMA Joined ==
    ASSUME NEW e \in Seq(Int), NEW f \in Seq(Int)
    PROVE  /\ e \o f \in Seq(Int) /\ Len(e \o f) = Len(e) + Len(f)
           /\ \A j \in 1..Len(e) : (e \o f)[j] = e[j]
           /\ \A j \in 1..Len(e) + Len(f) :
                  j > Len(e) => (e \o f)[j] = f[j - Len(e)]
<1>1. Len(e) \in Nat /\ Len(f) \in Nat
  OBVIOUS
<1>2. /\ e \o f \in Seq(Int) /\ Len(e \o f) = Len(e) + Len(f)
      /\ \A j \in 1..Len(e) + Len(f) :
             (e \o f)[j] = IF j <= Len(e) THEN e[j] ELSE f[j - Len(e)]
  BY ConcatProperties
<1> QED BY <1>1, <1>2

LEMMA DataAppended ==
    ASSUME NEW o, ObjectOk(o), NEW i \in 1..Len(o.sections), Free(o, i),
           ~IsBss(o.sections[i].info), NEW d \in Seq(Int), NEW a \in Nat \ {0}
    PROVE  LET p == AppendData(o, i, d, a) IN
           /\ ObjectOk(p) /\ Extends(o, p) /\ Keeps(o, p)
           /\ Spot(p, i, Offset(o, i, a), Len(d), a)
           /\ p.symbols = o.symbols /\ p.std = o.std
           /\ Len(p.sections) = Len(o.sections)
           /\ p.sections[i].info = o.sections[i].info
           /\ p.sections[i].size = Offset(o, i, a) + Len(d)
           /\ Len(p.sections[i].data) = p.sections[i].size
<1> DEFINE s == o.sections[i]
           n == Len(d)
           v == Offset(o, i, a)
           more == Zeros(v - Len(s.data)) \o d
           e == s.data \o more
           f == s.given \o more
           t == [s EXCEPT !.align = Larger(s.align, a), !.data = e, !.given = f,
                          !.size = v + n]
           p == AppendData(o, i, d, a)
<1>1. Typed(o) /\ SectionOk(s)
  BY DEF ObjectOk, Sound, SectionsOk
<1>2. /\ s \in Sections /\ s.size \in Nat /\ s.align \in Nat \ {0} /\ s.data \in Seq(Int)
      /\ s.given \in Seq(Int) /\ Len(s.data) \in Nat
  BY <1>1, SectionTypes
<1>3. v \in Nat /\ v >= s.size
  BY <1>1, OffsetIs
<1>4. ~IsBss(s.info) /\ Len(s.data) = s.size /\ Len(s.given) = Len(s.data)
  <2>1. ~IsBss(s.info)
    OBVIOUS
  <2> HIDE DEF s
  <2> QED BY <1>1, <2>1 DEF SectionOk
<1>5. p = Changed(o, i, t)
  <2>1. o = Object(o.sections, o.symbols, o.std, o.stubs, o.boot)
    BY <1>1, TypedFields
  <2>2. p = [o EXCEPT !.sections = [o.sections EXCEPT ![i] = t]]
    BY DEF AppendData
  <2> HIDE DEF p, t
  <2> DEFINE u == [o.sections EXCEPT ![i] = t]
  <2>3. p = [o EXCEPT !.sections = u]
    BY <2>2
  <2> HIDE DEF u
  <2>4. p = Object(u, o.symbols, o.std, o.stubs, o.boot)
    BY <2>1, <2>3 DEF Object
  <2> QED BY <2>4 DEF Changed, u
<1>6. n \in Nat
  OBVIOUS
<1> HIDE DEF p, v, n
<1>7. more \in Seq(Int) /\ Len(s.data) + Len(more) = v + n
  <2> DEFINE m == v - Len(s.data)
  <2>1. m \in Nat /\ Len(s.data) + m = v
    <3> HIDE DEF s
    <3> QED BY <1>2, <1>3, <1>4, SMTT(30), ZenonT(30)
  <2> HIDE DEF m
  <2>2. Zeros(m) \in Seq(Int) /\ Len(Zeros(m)) = m
    BY <2>1, ZerosAre
  <2> DEFINE z == Zeros(m)
  <2> HIDE DEF z
  <2>3. z \o d \in Seq(Int) /\ Len(z \o d) = m + n
    BY <2>2, Joined DEF z, n
  <2>4. more = z \o d
    BY DEF z, m
  <2> HIDE DEF more, s
  <2>5. more \in Seq(Int) /\ Len(more) = m + n
    BY <2>3, <2>4
  <2> DEFINE l == Len(s.data)
  <2>6. l \in Nat /\ l + m = v
    BY <1>2, <2>1
  <2> HIDE DEF l
  <2>7. l + (m + n) = v + n
    BY <1>3, <1>6, <2>1, <2>6
  <2> QED BY <2>5, <2>7 DEF l
<1> HIDE DEF more
<1>8. /\ e \in Seq(Int) /\ Len(e) = v + n
      /\ \A j \in 1..Len(s.data) : e[j] = s.data[j]
      /\ \A j \in 1..v + n : j > Len(s.data) => e[j] = more[j - Len(s.data)]
  <2> HIDE DEF s
  <2>1. /\ s.data \o more \in Seq(Int)
        /\ Len(s.data \o more) = Len(s.data) + Len(more)
        /\ \A j \in 1..Len(s.data) : (s.data \o more)[j] = s.data[j]
        /\ \A j \in 1..Len(s.data) + Len(more) :
               j > Len(s.data) => (s.data \o more)[j] = more[j - Len(s.data)]
    BY <1>2, <1>7, Joined
  <2> QED BY <1>7, <2>1
<1>9. /\ f \in Seq(Int) /\ Len(f) = v + n
      /\ \A j \in 1..Len(s.data) : f[j] = s.given[j]
      /\ \A j \in 1..v + n : j > Len(s.data) => f[j] = more[j - Len(s.data)]
  <2> HIDE DEF s
  <2>1. /\ s.given \o more \in Seq(Int)
        /\ Len(s.given \o more) = Len(s.given) + Len(more)
        /\ \A j \in 1..Len(s.given) : (s.given \o more)[j] = s.given[j]
        /\ \A j \in 1..Len(s.given) + Len(more) :
               j > Len(s.given) => (s.given \o more)[j] = more[j - Len(s.given)]
    BY <1>2, <1>7, Joined
  <2> QED BY <1>4, <1>7, <2>1
<1> HIDE DEF e, f
<1>10. Larger(s.align, a) \in Nat \ {0}
  <2> HIDE DEF s
  <2> QED BY <1>2 DEF Larger
<1>11. /\ t \in Sections /\ t.data = e /\ t.given = f /\ t.size = v + n
       /\ t.align = Larger(s.align, a)
       /\ t.info = s.info /\ t.relocs = s.relocs /\ t.symbol = s.symbol
  <2> DEFINE b == Larger(s.align, a)
             m == v + n
  <2>1. b \in Nat \ {0} /\ m \in Nat
    BY <1>3, <1>6, <1>10
  <2> HIDE DEF b, m, s
  <2>2. t = [s EXCEPT !.align = b, !.data = e, !.given = f, !.size = m]
    BY DEF b, m
  <2> HIDE DEF t
  <2>3. /\ t \in Sections /\ t.data = e /\ t.given = f /\ t.size = m /\ t.align = b
        /\ t.info = s.info /\ t.relocs = s.relocs /\ t.symbol = s.symbol
    BY <1>2, <1>8, <1>9, <2>1, <2>2 DEF Sections
  <2> QED BY <2>3 DEF b, m
<1> HIDE DEF t
<1>12. Lengthened(s, t)
  <2> HIDE DEF s
  <2>1. Len(s.data) <= v + n
    BY <1>2, <1>3, <1>4, <1>6
  <2>2. \A j \in 1..v + n : j > Len(s.data) => e[j] = f[j]
    BY <1>8, <1>9
  <2> QED BY <1>8, <1>9, <1>11, <2>1, <2>2 DEF Lengthened
<1>13. SectionOk(t)
  <2>1. Len(t.data) = IF IsBss(t.info) THEN 0 ELSE t.size
    BY <1>4, <1>8, <1>11
  <2> HIDE DEF s
  <2> QED BY <1>1, <1>2, <1>11, <1>12, <2>1, CellsKept
<1>14. /\ ObjectOk(Changed(o, i, t)) /\ Extends(o, Changed(o, i, t))
       /\ Keeps(o, Changed(o, i, t)) /\ Spot(Changed(o, i, t), i, Offset(o, i, a), n, a)
       /\ Changed(o, i, t).symbols = o.symbols /\ Changed(o, i, t).std = o.std
       /\ Len(Changed(o, i, t).sections) = Len(o.sections)
       /\ Changed(o, i, t).sections[i] = t
  BY <1>6, <1>11, <1>13, SpaceAdded DEF v, s
<1> QED BY <1>5, <1>8, <1>11, <1>14 DEF p, v, s, n

LEMMA BssAppended ==
    ASSUME NEW o, ObjectOk(o), NEW i \in 1..Len(o.sections), Free(o, i),
           IsBss(o.sections[i].info), NEW n \in Nat, NEW a \in Nat \ {0}
    PROVE  LET p == AppendBss(o, i, n, a) IN
           /\ ObjectOk(p) /\ Extends(o, p) /\ Keeps(o, p)
           /\ Spot(p, i, Offset(o, i, a), n, a)
           /\ p.symbols = o.symbols /\ p.std = o.std
           /\ Len(p.sections) = Len(o.sections)
<1> DEFINE s == o.sections[i]
           v == Offset(o, i, a)
           t == [s EXCEPT !.align = Larger(s.align, a), !.size = v + n]
           p == AppendBss(o, i, n, a)
<1>1. Typed(o) /\ SectionOk(s)
  BY DEF ObjectOk, Sound, SectionsOk
<1>2. s \in Sections /\ s.align \in Nat \ {0}
  BY <1>1, SectionTypes
<1>3. v \in Nat
  BY <1>1, OffsetIs
<1>4. IsBss(s.info) /\ Len(s.data) = 0
  <2>1. IsBss(s.info)
    OBVIOUS
  <2> HIDE DEF s
  <2> QED BY <1>1, <2>1 DEF SectionOk
<1>5. p = Changed(o, i, t)
  <2>1. o = Object(o.sections, o.symbols, o.std, o.stubs, o.boot)
    BY <1>1, TypedFields
  <2>2. p = [o EXCEPT !.sections = [o.sections EXCEPT ![i] = t]]
    BY DEF AppendBss
  <2> HIDE DEF p, t
  <2> DEFINE u == [o.sections EXCEPT ![i] = t]
  <2>3. p = [o EXCEPT !.sections = u]
    BY <2>2
  <2> HIDE DEF u
  <2>4. p = Object(u, o.symbols, o.std, o.stubs, o.boot)
    BY <2>1, <2>3 DEF Object
  <2> QED BY <2>4 DEF Changed, u
<1> HIDE DEF p, v
<1>6. Larger(s.align, a) \in Nat \ {0}
  <2> HIDE DEF s
  <2> QED BY <1>2 DEF Larger
<1>7. /\ t \in Sections /\ t.data = s.data /\ t.given = s.given /\ t.size = v + n
      /\ t.align = Larger(s.align, a) /\ t.info = s.info /\ t.relocs = s.relocs
      /\ t.symbol = s.symbol
  <2> DEFINE b == Larger(s.align, a)
  <2>1. b \in Nat \ {0} /\ v + n \in Nat
    BY <1>3, <1>6
  <2> HIDE DEF b, s
  <2>2. t = [s EXCEPT !.align = b, !.size = v + n]
    BY DEF b
  <2> HIDE DEF t
  <2>3. /\ t \in Sections /\ t.data = s.data /\ t.given = s.given
        /\ t.size = v + n /\ t.align = b
        /\ t.info = s.info /\ t.relocs = s.relocs /\ t.symbol = s.symbol
    BY <1>2, <2>1, <2>2 DEF Sections
  <2> QED BY <2>3 DEF b
<1> HIDE DEF t
<1>8. Lengthened(s, t)
  <2> HIDE DEF s
  <2>1. Len(s.given) = Len(s.data)
    BY <1>1 DEF SectionOk
  <2> QED BY <1>4, <1>7, <2>1 DEF Lengthened
<1>9. SectionOk(t)
  <2>1. Len(t.data) = IF IsBss(t.info) THEN 0 ELSE t.size
    BY <1>4, <1>7
  <2> HIDE DEF s
  <2> QED BY <1>1, <1>2, <1>7, <1>8, <2>1, CellsKept
<1>10. /\ ObjectOk(Changed(o, i, t)) /\ Extends(o, Changed(o, i, t))
       /\ Keeps(o, Changed(o, i, t)) /\ Spot(Changed(o, i, t), i, Offset(o, i, a), n, a)
       /\ Changed(o, i, t).symbols = o.symbols /\ Changed(o, i, t).std = o.std
       /\ Len(Changed(o, i, t).sections) = Len(o.sections)
  BY <1>7, <1>9, SpaceAdded DEF v, s
<1> QED BY <1>5, <1>10 DEF p, v

-------------------------------------------------------------------------------
(* A relocation is added: add_relocation, and the ones of the builder *)

(* The n-th cell of s when the relocation r has been added.                *)
NewCell(s, r, n) ==
    IF target.implicit /\ r.asked # 0 /\ r.offset + 1 = n THEN r.asked ELSE s.data[n]

(* t is s with the relocation r.                                           *)
Related(s, t, r) ==
    /\ t.info = s.info /\ t.size = s.size /\ t.given = s.given
    /\ t.relocs = Append(s.relocs, r) /\ Len(t.data) = Len(s.data)
    /\ \A n \in 1..Len(s.data) : t.data[n] = NewCell(s, r, n)

LEMMA RelocOk ==
    ASSUME NEW s \in Sections, SectionOk(s), NEW t \in Sections, NEW r \in Relocs,
           RelocSafe(s, r), Related(s, t, r)
    PROVE  /\ SectionOk(t) /\ Len(s.relocs) <= Len(t.relocs)
           /\ \A k \in 1..Len(s.relocs) : t.relocs[k] = s.relocs[k]
<1> DEFINE L == Len(s.relocs)
<1>1. s.relocs \in Seq(Relocs) /\ L \in Nat
  BY DEF Sections
<1>2. /\ Len(t.relocs) = L + 1 /\ t.relocs[L + 1] = r
      /\ \A k \in 1..L : t.relocs[k] = s.relocs[k]
  <2>1. t.relocs = Append(s.relocs, r)
    BY DEF Related
  <2> QED BY <1>1, <2>1, AppendProperties
<1> HIDE DEF L
<1>3. \A k \in 1..L + 1 : k \in 1..L \/ k = L + 1
  BY <1>1
<1>4. /\ L + 1 \in 1..L + 1 /\ L + 1 \notin 1..L
      /\ \A k \in 1..L : k \in 1..L + 1 /\ k <= L + 1
  BY <1>1
<1>5. ASSUME NEW k \in 1..L + 1 PROVE RelocSafe(t, t.relocs[k])
  <2>1. RelocSafe(s, t.relocs[k])
    <3>1. CASE k \in 1..L
      BY <1>2, <3>1 DEF SectionOk, L
    <3>2. CASE k = L + 1
      BY <1>2, <3>2
    <3> QED BY <1>3, <3>1, <3>2
  <2>2. Len(t.data) = Len(s.data)
    BY DEF Related
  <2> QED BY <2>1, <2>2 DEF RelocSafe
<1>6. ASSUME NEW n PROVE \A k \in 1..L : At(t, k, n) <=> At(s, k, n)
  BY <1>2 DEF At
<1>7. ASSUME NEW n PROVE At(t, L + 1, n) <=> target.implicit /\ r.asked # 0 /\ r.offset + 1 = n
  BY <1>2 DEF At
<1>8. ASSUME NEW n \in 1..Len(s.data) PROVE CellOk(t, n)
  <2>1. t.data[n] = NewCell(s, r, n) /\ t.given[n] = s.given[n]
    BY DEF Related
  <2>2. CASE At(t, L + 1, n)
    <3>1. t.data[n] = t.relocs[L + 1].asked
      BY <1>2, <1>7, <2>1, <2>2 DEF NewCell
    <3>2. \A m \in 1..L + 1 : m <= L + 1
      BY <1>1
    <3>3. Replaced(t, n, L + 1)
      BY <1>2, <2>2, <3>1, <3>2 DEF Replaced
    <3> QED BY <1>2, <1>4, <3>3 DEF CellOk
  <2>3. CASE ~At(t, L + 1, n)
    <3>1. t.data[n] = s.data[n]
      BY <1>7, <2>1, <2>3 DEF NewCell
    <3>2. CellOk(s, n)
      BY DEF SectionOk
    <3>3. CASE AsGiven(s, n)
      <4>1. \A k \in 1..L : ~At(t, k, n)
        BY <1>6, <3>3 DEF AsGiven, L
      <4>2. \A k \in 1..L + 1 : ~At(t, k, n)
        BY <1>3, <2>3, <4>1
      <4>3. AsGiven(t, n)
        BY <1>2, <2>1, <3>1, <3>3, <4>2 DEF AsGiven
      <4> QED BY <4>3 DEF CellOk
    <3>4. ASSUME NEW k \in 1..L, Replaced(s, n, k) PROVE CellOk(t, n)
      <4>1. At(t, k, n) /\ t.data[n] = t.relocs[k].asked
        BY <1>2, <1>6, <3>1, <3>4 DEF Replaced
      <4>2. \A m \in 1..L : At(t, m, n) => m <= k
        BY <1>6, <3>4 DEF Replaced, L
      <4>3. \A m \in 1..L + 1 : At(t, m, n) => m <= k
        BY <1>3, <2>3, <4>2
      <4>4. Replaced(t, n, k)
        BY <1>2, <4>1, <4>3 DEF Replaced
      <4> QED BY <1>2, <1>4, <4>4 DEF CellOk
    <3> QED BY <3>2, <3>3, <3>4 DEF CellOk, L
  <2> QED BY <2>2, <2>3
<1>9. /\ Len(t.data) = IF IsBss(t.info) THEN 0 ELSE t.size
      /\ Len(t.given) = Len(t.data) /\ Len(t.data) = Len(s.data)
  BY DEF SectionOk, Related
<1>10. SectionOk(t)
  BY <1>2, <1>5, <1>8, <1>9 DEF SectionOk
<1> QED BY <1>1, <1>2, <1>10 DEF L

(* Section i of p is that of o with the relocation r.                      *)
HasReloc(o, p, i, r) ==
    /\ p.symbols = o.symbols /\ p.std = o.std /\ p.stubs = o.stubs /\ p.boot = o.boot
    /\ Len(p.sections) = Len(o.sections)
    /\ \A j \in 1..Len(o.sections) : j # i => p.sections[j] = o.sections[j]
    /\ p.sections[i].info = o.sections[i].info
    /\ p.sections[i].size = o.sections[i].size
    /\ p.sections[i].align = o.sections[i].align
    /\ p.sections[i].relocs = Append(o.sections[i].relocs, r)

LEMMA RelocChanges ==
    ASSUME NEW o, Sound(o), NEW i \in 1..Len(o.sections), Free(o, i),
           NEW t \in Sections, NEW r \in Relocs, RelocSafe(o.sections[i], r),
           Related(o.sections[i], t, r),
           t.align = o.sections[i].align, t.symbol = o.sections[i].symbol
    PROVE  LET p == Changed(o, i, t) IN
           /\ Sound(p) /\ (StubsOk(o) => StubsOk(p))
           /\ Extends(o, p) /\ Keeps(o, p) /\ HasReloc(o, p, i, r)
<1> DEFINE s == o.sections[i]
           p == Changed(o, i, t)
<1>1. Typed(o) /\ SectionOk(s)
  BY DEF Sound, SectionsOk
<1>2. s \in Sections /\ s.size \in Nat /\ s.align \in Nat
  BY <1>1, SectionTypes
<1>3. RelocSafe(s, r) /\ Related(s, t, r)
  OBVIOUS
<1>4. /\ SectionOk(t) /\ Len(s.relocs) <= Len(t.relocs)
      /\ \A k \in 1..Len(s.relocs) : t.relocs[k] = s.relocs[k]
  <2> HIDE DEF s
  <2> QED BY <1>1, <1>2, <1>3, RelocOk
<1>5. t.info = s.info /\ t.size = s.size /\ t.relocs = Append(s.relocs, r)
  BY <1>3 DEF Related
<1>6. Successor(o, i, t)
  BY <1>4, <1>5 DEF Successor
<1>7. Grows(o, i, t)
  BY <1>2, <1>5 DEF Grows
<1>8. Sound(p) /\ (StubsOk(o) => StubsOk(p)) /\ Extends(o, p) /\ Keeps(o, p)
  BY <1>6, <1>7, SectionChanges
<1>9. /\ Len(p.sections) = Len(o.sections)
      /\ \A j \in 1..Len(o.sections) :
             p.sections[j] = IF j = i THEN t ELSE o.sections[j]
      /\ p.symbols = o.symbols /\ p.std = o.std /\ p.stubs = o.stubs
      /\ p.boot = o.boot
  BY <1>1, ChangedTyped
<1> HIDE DEF p
<1>10. HasReloc(o, p, i, r)
  BY <1>5, <1>9 DEF HasReloc
<1> QED BY <1>8, <1>10 DEF p

LEMMA RelocPushed ==
    ASSUME NEW o, Sound(o), NEW i \in 1..Len(o.sections), Free(o, i),
           NEW r \in Relocs, r.asked = r.addend, target.implicit => r.addend = 0
    PROVE  LET p == PushReloc(o, i, r) IN
           /\ Sound(p) /\ (StubsOk(o) => StubsOk(p))
           /\ Extends(o, p) /\ Keeps(o, p) /\ HasReloc(o, p, i, r)
<1> DEFINE s == o.sections[i]
           d == Append(s.relocs, r)
           t == [s EXCEPT !.relocs = d]
           p == PushReloc(o, i, r)
<1>1. Typed(o)
  BY DEF Sound
<1>2. s \in Sections /\ s.relocs \in Seq(Relocs)
  BY <1>1, SectionTypes
<1>3. p = Changed(o, i, t)
  <2>1. o = Object(o.sections, o.symbols, o.std, o.stubs, o.boot)
    BY <1>1, TypedFields
  <2>2. p = [o EXCEPT !.sections = [o.sections EXCEPT ![i] = t]]
    BY DEF PushReloc
  <2> HIDE DEF p, t
  <2> DEFINE u == [o.sections EXCEPT ![i] = t]
  <2>3. p = [o EXCEPT !.sections = u]
    BY <2>2
  <2> HIDE DEF u
  <2>4. p = Object(u, o.symbols, o.std, o.stubs, o.boot)
    BY <2>1, <2>3 DEF Object
  <2> QED BY <2>4 DEF Changed, u
<1>4. d \in Seq(Relocs)
  BY <1>2
<1>5. /\ t \in Sections /\ t.info = s.info /\ t.size = s.size /\ t.align = s.align
      /\ t.symbol = s.symbol /\ t.data = s.data /\ t.given = s.given /\ t.relocs = d
  <2> HIDE DEF s, d
  <2> QED BY <1>2, <1>4 DEF Sections
<1> HIDE DEF t, s
<1>6. Related(s, t, r)
  <2>1. \A n \in 1..Len(s.data) : t.data[n] = NewCell(s, r, n)
    BY <1>5 DEF NewCell
  <2> QED BY <1>5, <2>1 DEF Related
<1>7. RelocSafe(s, r)
  BY DEF RelocSafe
<1> QED BY <1>3, <1>5, <1>6, <1>7, RelocChanges DEF s

(* An addend moves to the data, if there is a cell for it.                 *)
LEMMA AddendStored ==
    ASSUME NEW o, ObjectOk(o), NEW i \in 1..Len(o.sections), Free(o, i),
           NEW r \in Relocs, r.asked = r.addend, r.offset < Len(o.sections[i].data),
           target.implicit, r.addend # 0
    PROVE  LET q == [o EXCEPT !.sections[i].data[r.offset + 1] = r.addend]
               z == [r EXCEPT !.addend = 0]
               p == PushReloc(q, i, z)
           IN
           ObjectOk(p) /\ Extends(o, p) /\ Keeps(o, p) /\ HasReloc(o, p, i, z)
<1> DEFINE s == o.sections[i]
           q == [o EXCEPT !.sections[i].data[r.offset + 1] = r.addend]
           z == [r EXCEPT !.addend = 0]
           x == r.offset + 1
           e == [s.data EXCEPT ![x] = r.addend]
           m == [s EXCEPT !.data = e]
           d == Append(s.relocs, z)
           t == [s EXCEPT !.data = e, !.relocs = d]
           p == PushReloc(q, i, z)
<1>1. Typed(o)
  BY DEF ObjectOk, Sound
<1>2. /\ s \in Sections /\ s.relocs \in Seq(Relocs) /\ s.data \in Seq(Int)
      /\ Len(s.data) \in Nat
  BY <1>1, SectionTypes
<1>3. /\ r.offset \in Nat /\ r.addend \in Int
  BY DEF Relocs
<1>4. /\ z \in Relocs /\ z.offset = r.offset /\ z.symbol = r.symbol /\ z.addend = 0
      /\ z.asked = r.addend
  BY DEF Relocs
<1>5. x \in 1..Len(s.data)
  <2>1. r.offset < Len(s.data)
    OBVIOUS
  <2> HIDE DEF s
  <2> QED BY <1>2, <1>3, <2>1
<1>6. p = Changed(o, i, t)
  <2>1. o = Object(o.sections, o.symbols, o.std, o.stubs, o.boot)
    BY <1>1, TypedFields
  <2>2. q = [o EXCEPT !.sections = [o.sections EXCEPT ![i] = m]]
    OBVIOUS
  <2> HIDE DEF q, m, z, d
  <2> DEFINE u == [o.sections EXCEPT ![i] = m]
  <2>3. q = [o EXCEPT !.sections = u]
    BY <2>2
  <2>4. u[i] = m /\ [u EXCEPT ![i] = t] = [o.sections EXCEPT ![i] = t]
    <3>1. o.sections \in Seq(Sections)
      BY <1>1, TypedFields
    <3> HIDE DEF t
    <3> QED BY <3>1
  <2> HIDE DEF u
  <2>5. q = Object(u, o.symbols, o.std, o.stubs, o.boot)
    BY <2>1, <2>3 DEF Object
  <2>6. p = [q EXCEPT !.sections = [q.sections EXCEPT ![i] =
                 [q.sections[i] EXCEPT !.relocs = Append(q.sections[i].relocs, z)]]]
    BY DEF PushReloc
  <2>7. q.sections = u
    BY <2>5 DEF Object
  <2>8. m.relocs = s.relocs /\ [m EXCEPT !.relocs = d] = t
    <3> HIDE DEF s, e
    <3> QED BY <1>2 DEF m, Sections
  <2>9. [q.sections[i] EXCEPT !.relocs = Append(q.sections[i].relocs, z)] = t
    BY <2>4, <2>7, <2>8 DEF d
  <2> HIDE DEF p, t
  <2> DEFINE w == [o.sections EXCEPT ![i] = t]
  <2>10. p = [q EXCEPT !.sections = w]
    BY <2>4, <2>6, <2>7, <2>9
  <2> HIDE DEF w
  <2>11. p = Object(w, o.symbols, o.std, o.stubs, o.boot)
    BY <2>5, <2>10 DEF Object
  <2> QED BY <2>11 DEF Changed, w
<1>7. e \in Seq(Int) /\ Len(e) = Len(s.data)
      /\ \A k \in 1..Len(s.data) : e[k] = IF k = x THEN r.addend ELSE s.data[k]
  <2> HIDE DEF s, x
  <2> QED BY <1>2, <1>3, <1>5, ExceptSeq
<1>8. d \in Seq(Relocs)
  <2> HIDE DEF z
  <2> QED BY <1>2, <1>4
<1>9. /\ t \in Sections /\ t.info = s.info /\ t.size = s.size /\ t.align = s.align
      /\ t.symbol = s.symbol /\ t.data = e /\ t.given = s.given /\ t.relocs = d
  <2> HIDE DEF s, d, e
  <2> QED BY <1>2, <1>7, <1>8 DEF Sections
<1>10. r.offset < Len(s.data)
  OBVIOUS
<1> HIDE DEF t, e, z, p, s
<1>11. Related(s, t, z)
  <2>1. \A n \in 1..Len(s.data) : t.data[n] = NewCell(s, z, n)
    BY <1>4, <1>7, <1>9 DEF NewCell
  <2> QED BY <1>7, <1>9, <2>1 DEF Related
<1>12. RelocSafe(s, z)
  BY <1>4, <1>10 DEF RelocSafe
<1>13. /\ ObjectOk(Changed(o, i, t)) /\ Extends(o, Changed(o, i, t))
       /\ Keeps(o, Changed(o, i, t)) /\ HasReloc(o, Changed(o, i, t), i, z)
  BY <1>4, <1>9, <1>11, <1>12, RelocChanges DEF ObjectOk, s
<1> QED BY <1>6, <1>13 DEF p, z

LEMMA AddendGoes ==
    ASSUME NEW o, ObjectOk(o), NEW i \in 1..Len(o.sections), Free(o, i),
           NEW r \in Relocs, r.asked = r.addend,
           target.implicit /\ r.addend # 0 => r.offset < Len(o.sections[i].data)
    PROVE  LET p == StoreAddend(o, i, r) IN
           ObjectOk(p) /\ Extends(o, p) /\ p.symbols = o.symbols
<1> DEFINE p == StoreAddend(o, i, r)
<1>1. Sound(o) /\ StubsOk(o)
  BY DEF ObjectOk
<1>2. CASE target.implicit /\ r.addend # 0
  <2> DEFINE z == [r EXCEPT !.addend = 0]
             q == PushReloc([o EXCEPT !.sections[i].data[r.offset + 1] = r.addend], i, z)
  <2>1. p = q
    BY <1>2 DEF StoreAddend
  <2>2. ObjectOk(q) /\ Extends(o, q) /\ HasReloc(o, q, i, z)
    BY <1>2, AddendStored
  <2> HIDE DEF p, q, z
  <2> QED BY <2>1, <2>2 DEF HasReloc, p
<1>3. CASE ~(target.implicit /\ r.addend # 0)
  <2> DEFINE q == PushReloc(o, i, r)
  <2>1. p = q
    BY <1>3 DEF StoreAddend
  <2>2. Sound(q) /\ StubsOk(q) /\ Extends(o, q) /\ HasReloc(o, q, i, r)
    BY <1>1, <1>3, RelocPushed
  <2> HIDE DEF p, q
  <2> QED BY <2>1, <2>2 DEF HasReloc, ObjectOk, p
<1> QED BY <1>2, <1>3

-------------------------------------------------------------------------------
(* A stub is made: coff_add_stub_symbol *)

LEMMA TargetTypes ==
    ASSUME target \in Targets
    PROVE  /\ Pointer \in Nat \ {0} /\ target.pcAdjust \in Int
           /\ target.relocates \in BOOLEAN /\ target.data \subseteq Seq(Int)
           /\ target.sizes \subseteq Nat /\ target.aligns \subseteq Nat \ {0}
           /\ target.addends \subseteq Int /\ target.places \subseteq Nat
           /\ target.infos \subseteq Infos /\ "refptr" \notin target.infos
           /\ target.standards \subseteq AllStandard
           /\ \A k \in target.kinds : k \in {"Text", "Tls", "Other"}
           /\ target.viaSymbols => Format = "macho"
BY ObjectAssumption DEF Pointer, Format, Infos

(* Standard sections have no place for stubs.                              *)
LEMMA StandardInfos ==
    /\ "refptr" \in Infos
    /\ \A s \in AllStandard : Info(s) \in Infos /\ Info(s) # "refptr"
<1> DEFINE A == UNION {t.infos : t \in Targets}
<1>1. Infos = A \cup AllStandard \cup {"refptr"}
  BY DEF Infos
<1> HIDE DEF A
<1>2. "refptr" \in Infos
  BY <1>1
<1>3. ASSUME NEW s \in AllStandard PROVE Info(s) \in AllStandard /\ Info(s) # "refptr"
  <2>1. Info(s) = "ReadOnlyData" \/ Info(s) = s
    BY Zenon DEF Info
  <2>2. s # "refptr" /\ "ReadOnlyData" \in AllStandard
    BY DEF AllStandard
  <2> QED BY <2>1, <2>2
<1> QED BY <1>1, <1>2, <1>3

LEMMA StubsSet ==
    ASSUME NEW o, Sound(o), NEW stubs, stubs \in [DOMAIN stubs -> Nat]
    PROVE  Sound(Object(o.sections, o.symbols, o.std, stubs, o.boot))
<1> DEFINE p == Object(o.sections, o.symbols, o.std, stubs, o.boot)
<1>1. Typed(o) /\ StdOk(o) /\ SectionsOk(o) /\ SymbolsOk(o) /\ PlacedOk(o)
  BY DEF Sound
<1>2. p.sections = o.sections /\ p.symbols = o.symbols /\ p.std = o.std
  BY DEF Object
<1>3. Typed(p)
  BY <1>1, TypedFields, TypedObject
<1> HIDE DEF p
<1>4. StdOk(p) /\ SectionsOk(p)
  <2>1. StdOk(p)
    BY <1>1, <1>2, StdKept
  <2> QED BY <1>1, <1>2, <2>1 DEF SectionsOk
<1>5. SymbolsOk(p)
  BY <1>1, <1>2, TypedFields, SymbolsKept
<1>6. PlacedOk(p)
  BY <1>1, <1>2 DEF PlacedOk
<1> QED BY <1>3, <1>4, <1>5, <1>6 DEF Sound, p

(* The section of a stub, filled.                                          *)
StubSection(o) ==
    SetData(AddSection(o, "refptr"), Len(o.sections) + 1, Zeros(Pointer), Pointer)

LEMMA StubSectionAdded ==
    ASSUME NEW o, ObjectOk(o), target \in Targets
    PROVE  LET i == Len(o.sections) + 1 q == StubSection(o) IN
           /\ Sound(q) /\ Extends(o, q)
           /\ Len(q.sections) = i /\ i \in 1..i
           /\ q.sections[i].info = "refptr" /\ q.sections[i].relocs = <<>>
           /\ q.sections[i].size = Pointer /\ q.sections[i].align = Pointer
           /\ \A j \in 1..Len(o.sections) : q.sections[j] = o.sections[j]
           /\ q.symbols = o.symbols /\ q.stubs = o.stubs
<1> DEFINE P == Pointer
           L == Len(o.sections)
           i == L + 1
           d == Zeros(P)
           q1 == AddSection(o, "refptr")
           q2 == SetData(q1, i, d, P)
<1>1. Typed(o) /\ L \in Nat
  BY TypedFields DEF ObjectOk, Sound
<1>2. P \in Nat \ {0}
  BY TargetTypes
<1>3. "refptr" \in Infos /\ d \in Seq(Int) /\ Len(d) = P
  BY <1>2, StandardInfos, ZerosAre
<1>4. Sound(q1) /\ Extends(o, q1)
  BY <1>3, SectionAdded
<1>5. /\ Len(q1.sections) = i /\ q1.sections[i] = Section("refptr")
      /\ \A j \in 1..L : q1.sections[j] = o.sections[j]
      /\ q1.symbols = o.symbols /\ q1.stubs = o.stubs
  BY <1>1, <1>3, AddSectionIs
<1> HIDE DEF q1
<1>6. i \in 1..i /\ i \in 1..Len(q1.sections)
  BY <1>1, <1>5
<1>7. /\ q1.sections[i].info = "refptr" /\ q1.sections[i].data = <<>>
      /\ q1.sections[i].relocs = <<>> /\ ~IsBss(q1.sections[i].info)
  BY <1>5 DEF Section, IsBss
<1>8. \A j \in 1..L : j \in 1..i /\ j # i
  BY <1>1
<1> HIDE DEF i, P, d
<1>9. Sound(q2) /\ Extends(q1, q2) /\ HasData(q1, q2, i, Len(d), P)
  BY <1>2, <1>3, <1>4, <1>6, <1>7, DataSet
<1> HIDE DEF q2
<1>10. Extends(o, q2)
  BY <1>1, <1>4, <1>9, ExtendsTransitive DEF Sound
<1>11. /\ Len(q2.sections) = i /\ q2.sections[i].info = "refptr"
       /\ q2.sections[i].size = P /\ q2.sections[i].align = P
       /\ q2.sections[i].relocs = <<>>
       /\ \A j \in 1..L : q2.sections[j] = o.sections[j]
       /\ q2.symbols = o.symbols /\ q2.stubs = o.stubs
  BY <1>3, <1>5, <1>6, <1>7, <1>8, <1>9 DEF HasData
<1>12. q2 = StubSection(o)
  BY DEF q2, q1, i, P, d, StubSection
<1> QED BY <1>6, <1>9, <1>10, <1>11, <1>12 DEF i, P

(* What a refused relocation may have added: a section for a stub, and no  *)
(* symbol that is not one.                                                 *)
Leftover(o, p) ==
    /\ Len(p.sections) <= Len(o.sections) + 1
    /\ \A j \in 1..Len(p.sections) :
           j > Len(o.sections) => p.sections[j].info = "refptr"
    /\ \A x \in 1..Len(p.symbols) :
           x > Len(o.symbols) => \E y \in DOMAIN p.stubs : p.stubs[y] = x

(* All of p but what was added is as in o.                                 *)
Begins(o, p) ==
    /\ \A j \in 1..Len(o.sections) : p.sections[j] = o.sections[j]
    /\ \A x \in 1..Len(o.symbols) : p.symbols[x] = o.symbols[x]

(* Without generic relocations the section is all of it, and stays idle.   *)
LEMMA StubLeft ==
    ASSUME NEW o, ObjectOk(o), target \in Targets, ~target.relocates
    PROVE  LET p == StubSection(o) IN
           ObjectOk(p) /\ Extends(o, p) /\ Leftover(o, p) /\ Begins(o, p)
<1> DEFINE L == Len(o.sections)
           i == L + 1
           p == StubSection(o)
<1>1. Sound(o) /\ StubsOk(o) /\ Typed(o) /\ SymbolsOk(o)
  BY DEF ObjectOk, Sound
<1>2. L \in Nat /\ Len(o.symbols) \in Nat
  BY <1>1, TypedFields
<1>3. /\ Sound(p) /\ Extends(o, p) /\ Len(p.sections) = i
      /\ p.sections[i].info = "refptr" /\ p.sections[i].relocs = <<>>
      /\ \A j \in 1..L : p.sections[j] = o.sections[j]
      /\ p.symbols = o.symbols /\ p.stubs = o.stubs
  BY <1>1, StubSectionAdded
<1> HIDE DEF p
<1>4. \A j \in 1..i : j \in 1..L \/ j = i
  BY <1>2
<1>5. StubsOk(p)
  <2>1. DOMAIN p.stubs = {}
    BY <1>1, <1>3 DEF StubsOk
  <2>2. ASSUME NEW j \in 1..L, p.sections[j].info = "refptr" PROVE Idle(p, j)
    <3>1. Idle(o, j)
      BY <1>1, <1>3, <2>2 DEF StubsOk
    <3> QED BY <1>3, <3>1 DEF Idle
  <2>3. Idle(p, i)
    <3>1. \A x \in 1..Len(o.symbols) : o.symbols[x].section \in 0..L
      BY <1>1 DEF SymbolsOk
    <3>2. \A x \in 1..Len(o.symbols) : o.symbols[x].section # i
      BY <1>2, <3>1
    <3>3. Len(p.sections[i].relocs) = 0
      BY <1>3
    <3> HIDE DEF i
    <3> QED BY <1>3, <3>2, <3>3 DEF Idle
  <2> HIDE DEF i
  <2> QED BY <1>3, <1>4, <2>1, <2>2, <2>3 DEF StubsOk
<1>6. Leftover(o, p)
  <2>1. i <= L + 1 /\ \A j \in 1..i : j > L => j = i
    BY <1>2
  <2>2. \A x \in 1..Len(o.symbols) : ~(x > Len(o.symbols))
    BY <1>2
  <2> HIDE DEF i
  <2> QED BY <1>3, <2>1, <2>2 DEF Leftover
<1>7. Begins(o, p)
  BY <1>3 DEF Begins
<1> QED BY <1>3, <1>5, <1>6, <1>7 DEF ObjectOk, p

LEMMA StubMade ==
    ASSUME NEW o, ObjectOk(o), target \in Targets, target.relocates,
           NEW y \in 1..Len(o.symbols), y \notin DOMAIN o.stubs
    PROVE  LET p == AddStubSymbol(o, y) IN
           /\ ObjectOk(p) /\ Extends(o, p) /\ Leftover(o, p) /\ Begins(o, p)
           /\ y \in DOMAIN p.stubs
<1> DEFINE P == Pointer
           L == Len(o.sections)
           M == Len(o.symbols)
           i == L + 1
           z == M + 1
           r == [offset |-> 0, symbol |-> y, addend |-> 0, asked |-> 0]
           q2 == StubSection(o)
           q3 == PushReloc(q2, i, r)
           q4 == AddRawSymbol(q3, Undefined("Other"))
           q5 == Define(q4, z, i, 0, P, P)
           stubs == [x \in DOMAIN o.stubs \cup {y} |-> IF x = y THEN z ELSE o.stubs[x]]
           p == AddStubSymbol(o, y)
<1>1. Sound(o) /\ StubsOk(o) /\ Typed(o) /\ SymbolsOk(o)
  BY DEF ObjectOk, Sound
<1>2. P \in Nat \ {0}
  BY TargetTypes
<1>3. L \in Nat /\ M \in Nat /\ y \in Nat
  BY <1>1, TypedFields
<1>4. \A j \in 1..L : j \in 1..i /\ j # i
  BY <1>3
<1>5. /\ Sound(q2) /\ Extends(o, q2)
      /\ Len(q2.sections) = i /\ q2.sections[i].info = "refptr"
      /\ q2.sections[i].size = P /\ q2.sections[i].align = P
      /\ q2.sections[i].relocs = <<>> /\ i \in 1..Len(q2.sections)
      /\ \A j \in 1..L : q2.sections[j] = o.sections[j]
      /\ q2.symbols = o.symbols /\ q2.stubs = o.stubs
  BY <1>1, StubSectionAdded
<1> HIDE DEF q2
<1>6. /\ r \in Relocs /\ r.asked = r.addend /\ r.addend = 0 /\ r.offset = 0
      /\ r.symbol = y
  BY <1>3 DEF Relocs
<1> HIDE DEF r
<1>7. Free(q2, i)
  BY DEF Free
<1>8. Sound(q3) /\ Extends(q2, q3) /\ HasReloc(q2, q3, i, r)
  <2> HIDE DEF i
  <2> QED BY <1>5, <1>6, <1>7, RelocPushed
<1>11. /\ Len(q3.sections) = i /\ q3.sections[i].info = "refptr"
       /\ q3.sections[i].size = P /\ q3.sections[i].align = P
       /\ q3.sections[i].relocs = Append(<<>>, r)
       /\ q3.symbols = o.symbols /\ q3.stubs = o.stubs
       /\ \A j \in 1..L : q3.sections[j] = o.sections[j]
  <2> HIDE DEF i, q3
  <2> QED BY <1>4, <1>5, <1>8 DEF HasReloc
<1> HIDE DEF q3
<1>12. Undefined("Other") \in Symbols /\ Unplaced(Undefined("Other"))
  BY DEF Undefined, Symbols, Unplaced
<1>13. Sound(q4) /\ Extends(q3, q4)
  BY <1>8, <1>12, SymbolAdded
<1>14. /\ q4.sections = q3.sections /\ q4.stubs = o.stubs /\ Len(q4.symbols) = z
       /\ \A x \in 1..M : q4.symbols[x] = o.symbols[x]
       /\ q4.symbols[z] = Undefined("Other")
  <2>1. Typed(q3) /\ Len(q3.symbols) + 1 = z
    BY <1>8, <1>11 DEF Sound
  <2>2. /\ q4.sections = q3.sections /\ q4.stubs = q3.stubs /\ Len(q4.symbols) = z
        /\ \A x \in 1..Len(q3.symbols) : q4.symbols[x] = q3.symbols[x]
        /\ q4.symbols[z] = Undefined("Other")
    BY <1>12, <2>1, AddRawSymbolIs
  <2> HIDE DEF q4
  <2> QED BY <1>11, <2>2
<1> HIDE DEF q4
<1>15. z \in 1..Len(q4.symbols) /\ (\A x \in 1..z : x \in 1..M \/ x = z)
  BY <1>3, <1>14
<1>16. i \in 1..Len(q4.sections) /\ i \in Nat /\ i # 0
  BY <1>3, <1>11, <1>14
<1>17. Undefined("Other").kind = "Other" /\ Undefined("Other").section = 0
  BY DEF Undefined
<1>18. Spot(q4, i, 0, P, P)
  <2>1. 0 % P = 0 /\ 0 + P <= q4.sections[i].size /\ P <= q4.sections[i].align
    BY <1>2, <1>11, <1>14
  <2>2. ASSUME NEW x \in 1..z PROVE q4.symbols[x].section # i
    <3>1. CASE x \in 1..M
      <4>1. o.symbols[x].section \in 0..L
        BY <1>1, <3>1 DEF SymbolsOk
      <4> QED BY <1>3, <1>14, <3>1, <4>1
    <3>2. CASE x = z
      BY <1>14, <1>16, <1>17, <3>2
    <3> QED BY <1>15, <3>1, <3>2
  <2>3. Free(q4, i)
    BY DEF Free
  <2> HIDE DEF i, z, P
  <2> QED BY <1>14, <1>16, <2>1, <2>2, <2>3 DEF Spot
<1>19. Sound(q5) /\ Extends(q4, q5)
  <2>1. q4.symbols[z].kind # "Section" /\ q4.symbols[z].section = 0
    BY <1>14, <1>17
  <2>2. P \in Nat /\ P # 0
    BY <1>2
  <2> HIDE DEF i, z, P
  <2> QED BY <1>2, <1>13, <1>15, <1>18, <2>1, <2>2, SymbolDefined
<1>20. /\ q5.symbols[z].section = i /\ q5.symbols[z].value = 0
       /\ Len(q5.symbols) = z /\ q5.sections = q3.sections /\ q5.stubs = o.stubs
       /\ \A x \in 1..M : q5.symbols[x] = o.symbols[x]
  <2> DEFINE u == Placement("Other", i, 0, P, P)
  <2>1. q5 = Redefined(q4, z, u)
    BY <1>13, <1>14, <1>15, <1>17, DefineAs DEF Sound
  <2>2. u \in Symbols /\ u.section = i /\ u.value = 0
    BY <1>2, <1>16 DEF Symbols, Placement
  <2> HIDE DEF u, q5
  <2>3. /\ Len(q5.symbols) = Len(q4.symbols)
        /\ \A x \in 1..Len(q4.symbols) :
               q5.symbols[x] = IF x = z THEN u ELSE q4.symbols[x]
        /\ q5.sections = q4.sections /\ q5.stubs = q4.stubs
    BY <1>13, <1>15, <2>1, <2>2, RedefinedIs DEF Sound
  <2>4. \A x \in 1..M : x \in 1..z /\ x # z
    BY <1>3
  <2> HIDE DEF z
  <2> QED BY <1>14, <1>15, <2>2, <2>3, <2>4
<1> HIDE DEF q5, stubs
<1>21. p = Object(q5.sections, q5.symbols, q5.std, stubs, q5.boot)
  <2>1. p = [q5 EXCEPT !.stubs = stubs]
    BY <1>20 DEF AddStubSymbol, StubSection, q2, q3, q4, q5, r, stubs
  <2>2. q5 = Object(q5.sections, q5.symbols, q5.std, q5.stubs, q5.boot)
    BY <1>19, TypedFields DEF Sound
  <2> HIDE DEF p
  <2> QED BY <2>1, <2>2 DEF Object
<1>22. /\ stubs \in [DOMAIN stubs -> Nat] /\ DOMAIN stubs = DOMAIN o.stubs \cup {y}
       /\ stubs[y] = z /\ \A x \in DOMAIN o.stubs : stubs[x] = o.stubs[x]
  <2>1. o.stubs \in [DOMAIN o.stubs -> Nat] /\ z \in Nat
    BY <1>1, <1>3, TypedFields
  <2> HIDE DEF z
  <2> QED BY <2>1 DEF stubs
<1> HIDE DEF p
<1>23. /\ p.sections = q5.sections /\ p.symbols = q5.symbols /\ p.std = q5.std
       /\ p.stubs = stubs /\ p.boot = q5.boot
  BY <1>21 DEF Object
<1>24. Sound(p)
  BY <1>19, <1>21, <1>22, StubsSet
<1>25. Extends(o, p)
  <2>1. Typed(q2) /\ Typed(q3) /\ Typed(q4) /\ Typed(q5)
    BY <1>5, <1>8, <1>13, <1>19 DEF Sound
  <2>2. Leaves(o, p)
    BY DEF Leaves
  <2>3. Extends(o, q3)
    BY <1>1, <1>5, <1>8, <2>1, ExtendsTransitive
  <2>4. Extends(o, q4)
    BY <1>1, <1>13, <2>1, <2>3, ExtendsTransitive
  <2>5. Extends(o, q5)
    BY <1>1, <1>19, <2>1, <2>4, ExtendsTransitive
  <2>6. \A x \in DOMAIN o.stubs : x \in DOMAIN p.stubs /\ p.stubs[x] = o.stubs[x]
    BY <1>22, <1>23
  <2> QED BY <1>23, <2>2, <2>5, <2>6 DEF Extends
<1>26. StubsOk(p)
  <2>1. Typed(p)
    BY <1>24 DEF Sound
  <2>2. ASSUME NEW x \in DOMAIN p.stubs
        PROVE  StubOk(p, x)
    <3>1. CASE x \in DOMAIN o.stubs
      BY <1>1, <1>25, <2>1, <3>1, StubKept
    <3>2. CASE x = y
      <4>1. p.stubs[x] = z /\ z \in 1..Len(p.symbols)
        BY <1>3, <1>20, <1>22, <1>23, <3>2
      <4>2. /\ p.symbols[z].section = i /\ i \in 1..Len(p.sections)
            /\ p.symbols[z].value = 0
        BY <1>14, <1>16, <1>20, <1>23
      <4>3. /\ p.sections[i].info = "refptr"
            /\ p.sections[i].relocs = Append(<<>>, r)
        BY <1>11, <1>20, <1>23
      <4>4. Append(<<>>, r) = <<r>>
        OBVIOUS
      <4>5. Len(p.sections[i].relocs) = 1 /\ p.sections[i].relocs[1] = r
        BY <4>3, <4>4
      <4> HIDE DEF i, z
      <4> QED BY <1>6, <3>2, <4>1, <4>2, <4>3, <4>5 DEF StubOk
    <3> QED BY <1>22, <1>23, <3>1, <3>2
  <2>3. ASSUME NEW j \in 1..Len(p.sections), p.sections[j].info = "refptr"
        PROVE  \E x \in DOMAIN p.stubs : p.symbols[p.stubs[x]].section = j
    <3>1. CASE j = i
      BY <1>20, <1>22, <1>23, <3>1
    <3>2. CASE j # i
      <4>1. j \in 1..L /\ p.sections[j] = o.sections[j]
        BY <1>3, <1>11, <1>20, <1>23, <3>2
      <4>2. PICK x \in DOMAIN o.stubs : o.symbols[o.stubs[x]].section = j
        BY <1>1, <2>3, <4>1 DEF StubsOk
      <4>3. p.symbols[p.stubs[x]].section = j /\ x \in DOMAIN p.stubs
        BY <1>1, <1>22, <1>23, <1>25, <2>1, <4>2, StubKept
      <4> QED BY <4>3
    <3> QED BY <3>1, <3>2
  <2> QED BY <2>2, <2>3 DEF StubsOk
<1>27. Begins(o, p)
  BY <1>11, <1>20, <1>23 DEF Begins
<1>28. Leftover(o, p)
  <2>1. Len(p.sections) = i /\ Len(p.symbols) = z
    BY <1>11, <1>20, <1>23
  <2>2. /\ i <= L + 1 /\ (\A j \in 1..i : j > L => j = i)
        /\ (\A x \in 1..z : x > M => x = z)
    BY <1>3
  <2>3. p.sections[i].info = "refptr" /\ y \in DOMAIN p.stubs /\ p.stubs[y] = z
    BY <1>11, <1>20, <1>22, <1>23
  <2> HIDE DEF i, z
  <2> QED BY <2>1, <2>2, <2>3 DEF Leftover
<1> QED BY <1>22, <1>23, <1>24, <1>25, <1>26, <1>27, <1>28 DEF ObjectOk, p
LEMMA StubAdded ==
    ASSUME NEW o, ObjectOk(o), target \in Targets, NEW y \in 1..Len(o.symbols)
    PROVE  LET p == AddStubSymbol(o, y) IN
           /\ ObjectOk(p) /\ Extends(o, p) /\ Leftover(o, p) /\ Begins(o, p)
           /\ target.relocates => y \in DOMAIN p.stubs
<1> DEFINE p == AddStubSymbol(o, y)
<1>1. CASE y \in DOMAIN o.stubs
  <2>1. p = o
    BY <1>1 DEF AddStubSymbol
  <2>2. Typed(o)
    BY DEF ObjectOk, Sound
  <2>3. Leftover(o, o)
    BY <2>2, TypedFields DEF Leftover
  <2>4. Extends(o, o) /\ Begins(o, o)
    BY <2>2, ExtendsItself DEF Begins
  <2> HIDE DEF p
  <2> QED BY <1>1, <2>1, <2>3, <2>4 DEF p
<1>2. CASE y \notin DOMAIN o.stubs /\ target.relocates
  BY <1>2, StubMade
<1>3. CASE y \notin DOMAIN o.stubs /\ ~target.relocates
  <2>1. p = StubSection(o)
    BY <1>3 DEF AddStubSymbol, StubSection
  <2> HIDE DEF p
  <2> QED BY <1>3, <2>1, StubLeft DEF p
<1> QED BY <1>1, <1>2, <1>3

-------------------------------------------------------------------------------
(* Operations that call others *)

(* p is o with sections, data, symbols and relocations that were added.    *)
Adds(o, p) ==
    /\ ObjectOk(p) /\ Extends(o, p) /\ Keeps(o, p)
    /\ \A y \in 1..Len(o.symbols) : p.symbols[y] = o.symbols[y]

LEMMA AddsTransitive ==
    ASSUME NEW o, NEW p, NEW q, ObjectOk(o), Adds(o, p), Adds(p, q)
    PROVE  Adds(o, q)
<1>1. Typed(o) /\ Typed(p) /\ Typed(q)
  BY DEF Adds, ObjectOk, Sound
<1>2. Extends(o, p) /\ Extends(p, q) /\ Keeps(o, p) /\ Keeps(p, q) /\ ObjectOk(q)
  BY DEF Adds
<1>3. Extends(o, q)
  BY <1>1, <1>2, ExtendsTransitive
<1>4. Keeps(o, q)
  BY <1>1, <1>2, KeepsTransitive
<1>5. ASSUME NEW y \in 1..Len(o.symbols) PROVE q.symbols[y] = o.symbols[y]
  <2>1. y \in 1..Len(p.symbols)
    <3>1. Len(o.symbols) \in Nat /\ Len(p.symbols) \in Nat
      BY <1>1, TypedFields
    <3>2. Len(o.symbols) <= Len(p.symbols)
      BY <1>2 DEF Extends
    <3> QED BY <3>1, <3>2
  <2> QED BY <2>1 DEF Adds
<1> QED BY <1>2, <1>3, <1>4, <1>5 DEF Adds

(* section_id: the section is there, and it is one that looks like it.     *)
LEMMA StandardAdded ==
    ASSUME NEW o, ObjectOk(o), NEW s \in AllStandard
    PROVE  LET p == SectionId(o, s) IN
           /\ Adds(o, p) /\ p.symbols = o.symbols
           /\ s \in DOMAIN p.std /\ p.std[s] \in 1..Len(p.sections)
           /\ p.sections[p.std[s]].info = Info(s)
<1> DEFINE p == SectionId(o, s)
<1>1. Typed(o) /\ StdOk(o)
  BY DEF ObjectOk, Sound
<1>2. CASE s \in DOMAIN o.std
  <2>1. p = o
    BY <1>2 DEF SectionId
  <2>2. Adds(o, o)
    BY <1>1, ExtendsItself, KeepsItself DEF Adds
  <2> HIDE DEF p
  <2> QED BY <1>1, <1>2, <2>1, <2>2 DEF StdOk, p
<1>3. CASE s \notin DOMAIN o.std
  <2> DEFINE q == AddSection(o, Info(s))
  <2>1. p = q
    BY <1>3 DEF SectionId
  <2>2. Info(s) \in Infos /\ Info(s) # "refptr"
    BY StandardInfos
  <2>3. ObjectOk(q) /\ Extends(o, q) /\ Keeps(o, q)
    BY <2>2, SectionAdded DEF ObjectOk
  <2>4. q.symbols = o.symbols /\ s \in DOMAIN q.std
    BY <1>1, <1>3, <2>2, AddSectionIs
  <2> HIDE DEF p, q
  <2>5. q.std[s] \in 1..Len(q.sections) /\ q.sections[q.std[s]].info = Info(s)
    BY <2>3, <2>4 DEF ObjectOk, Sound, StdOk
  <2> QED BY <2>1, <2>3, <2>4, <2>5 DEF Adds, p
<1> QED BY <1>2, <1>3

(* macho_add_thread_var, and the definition of its initializer.            *)
LEMMA ThreadVarAdded ==
    ASSUME NEW o, ObjectOk(o), target \in Targets, NEW y \in 1..Len(o.symbols),
           o.symbols[y].kind = "Tls", o.symbols[y].section = 0,
           NEW i, NEW v, NEW n \in Nat, NEW a \in Nat \ {0}, Spot(o, i, v, n, a),
           target.viaSymbols => n # 0
    PROVE  LET z == Len(o.symbols) + 1
               p == Define(AddThreadVar(o, y), z, i, v, n, a)
           IN
           /\ ObjectOk(p) /\ Extends(o, p) /\ z \in 1..Len(p.symbols)
           /\ \A x \in 1..Len(o.symbols) : x # y => p.symbols[x] = o.symbols[x]
           /\ Entry(p, p.symbols[y], {z})
<1> DEFINE P == Pointer
           Q == 3 * P
           z == Len(o.symbols) + 1
           o1 == AddRawSymbol(o, Undefined("Tls"))
           o2 == SectionId(o1, "TlsVariables")
           t == o2.std["TlsVariables"]
           at == Offset(o2, t, P)
           o3 == AppendData(o2, t, Zeros(Q), P)
           o4 == TlvBootstrap(o3)
           r5 == [offset |-> at, symbol |-> o4.boot, addend |-> 0, asked |-> 0]
           o5 == PushReloc(o4, t, r5)
           r6 == [offset |-> at + 2 * P, symbol |-> z, addend |-> 0, asked |-> 0]
           o6 == PushReloc(o5, t, r6)
           o7 == Define(o6, y, t, at, Q, P)
           p == Define(o7, z, i, v, n, a)
<1>1. AddThreadVar(o, y) = o7
  BY DEF AddThreadVar
<1>2. P \in Nat \ {0} /\ Q \in Nat /\ Q # 0
  BY TargetTypes
<1>3. Typed(o) /\ Len(o.symbols) \in Nat
  <2>1. Typed(o)
    BY DEF ObjectOk, Sound
  <2> QED BY <2>1, TypedFields
<1>4. z \in Nat /\ z # y /\ y \in Nat /\ (\A x \in 1..Len(o.symbols) : x \in 1..z /\ x # z)
  BY <1>3
<1>5. /\ Adds(o, o1) /\ Len(o1.symbols) = z /\ o1.symbols[z].kind = "Tls"
      /\ o1.symbols[z].section = 0
  <2> DEFINE u == Undefined("Tls")
  <2>1. u \in Symbols /\ Unplaced(u) /\ u.kind = "Tls" /\ u.section = 0
    BY DEF Undefined, Symbols, Unplaced
  <2>2. o1 = AddRawSymbol(o, u)
    OBVIOUS
  <2> HIDE DEF u, o1
  <2>3. ObjectOk(o1) /\ Extends(o, o1) /\ Keeps(o, o1)
    <3>1. Sound(o) /\ StubsOk(o)
      BY DEF ObjectOk
    <3> QED BY <2>1, <2>2, <3>1, SymbolAdded DEF ObjectOk
  <2>4. /\ Len(o1.symbols) = z /\ o1.symbols[z] = u
        /\ \A x \in 1..Len(o.symbols) : o1.symbols[x] = o.symbols[x]
    BY <1>3, <2>1, <2>2, AddRawSymbolIs
  <2> QED BY <2>1, <2>3, <2>4 DEF Adds
<1> HIDE DEF o1, z, P, Q
<1>6. "TlsVariables" \in AllStandard /\ Info("TlsVariables") = "TlsVariables"
  <2>1. "TlsVariables" \in AllStandard
    BY DEF AllStandard
  <2>2. Info("TlsVariables") = "TlsVariables"
    BY DEF Info
  <2> QED BY <2>1, <2>2
<1>7. /\ Adds(o1, o2) /\ o2.symbols = o1.symbols
      /\ "TlsVariables" \in DOMAIN o2.std /\ t \in 1..Len(o2.sections)
      /\ ~IsBss(o2.sections[t].info) /\ Free(o2, t)
  <2>1. ObjectOk(o1)
    BY <1>5 DEF Adds
  <2>2. /\ Adds(o1, o2) /\ o2.symbols = o1.symbols
        /\ "TlsVariables" \in DOMAIN o2.std /\ t \in 1..Len(o2.sections)
        /\ o2.sections[t].info = "TlsVariables"
    BY <1>6, <2>1, StandardAdded
  <2>3. ~IsBss("TlsVariables")
    BY DEF IsBss
  <2> HIDE DEF t, o2
  <2> QED BY <2>2, <2>3 DEF Free
<1>8. o2.std["TlsVariables"] = t
  OBVIOUS
<1> HIDE DEF o2, t
<1>9. ObjectOk(o2) /\ Typed(o2)
  BY <1>7 DEF Adds, ObjectOk, Sound
<1>10. at \in Nat /\ at >= o2.sections[t].size
  BY <1>2, <1>7, <1>9, OffsetIs
<1>11. /\ Adds(o2, o3) /\ Spot(o3, t, at, Q, P) /\ o3.symbols = o2.symbols
       /\ o3.std = o2.std /\ Len(o3.sections) = Len(o2.sections)
  <2> DEFINE d == Zeros(Q)
             w == AppendData(o2, t, d, P)
  <2>1. d \in Seq(Int) /\ Len(d) = Q
    BY <1>2, ZerosAre
  <2> HIDE DEF d
  <2>2. /\ ObjectOk(w) /\ Extends(o2, w) /\ Keeps(o2, w)
        /\ Spot(w, t, Offset(o2, t, P), Len(d), P)
        /\ w.symbols = o2.symbols /\ w.std = o2.std
        /\ Len(w.sections) = Len(o2.sections)
    BY <1>2, <1>7, <1>9, <2>1, DataAppended
  <2>3. w = o3
    BY DEF d
  <2> HIDE DEF w, o3
  <2> QED BY <2>1, <2>2, <2>3 DEF Adds
<1> HIDE DEF o3, at
<1>12. /\ Adds(o3, o4) /\ o4.boot # 0 /\ o4.sections = o3.sections /\ o4.std = o3.std
  <2>1. ObjectOk(o3)
    BY <1>11 DEF Adds
  <2> QED BY <2>1, BootstrapAdded DEF Adds
<1> HIDE DEF o4
<1>13. t \in 1..Len(o4.sections) /\ Free(o3, t) /\ Free(o4, t)
  <2>1. Free(o3, t)
    BY <1>11 DEF Spot
  <2> QED BY <1>7, <1>11, <1>12, <2>1 DEF Free
<1>14. ObjectOk(o4) /\ o4.boot \in Nat
  <2>1. ObjectOk(o4)
    BY <1>12 DEF Adds
  <2>2. Typed(o4)
    BY <2>1 DEF ObjectOk, Sound
  <2> QED BY <2>1, <2>2, TypedFields
<1>15. /\ r5 \in Relocs /\ r5.asked = r5.addend /\ r5.addend = 0
       /\ r5.offset = at /\ r5.symbol = o4.boot
  BY <1>10, <1>14 DEF Relocs
<1>16. /\ r6 \in Relocs /\ r6.asked = r6.addend /\ r6.addend = 0
       /\ r6.offset = at + 2 * P /\ r6.symbol = z
  <2>1. at + 2 * P \in Nat
    BY <1>2, <1>10
  <2> QED BY <1>4, <2>1 DEF Relocs
<1> HIDE DEF r5, r6
<1>17. Adds(o4, o5) /\ HasReloc(o4, o5, t, r5)
  <2>1. Sound(o4) /\ StubsOk(o4)
    BY <1>14 DEF ObjectOk
  <2>2. Sound(o5) /\ StubsOk(o5) /\ Extends(o4, o5) /\ Keeps(o4, o5)
        /\ HasReloc(o4, o5, t, r5)
    BY <1>13, <1>15, <2>1, RelocPushed
  <2> HIDE DEF o5
  <2> QED BY <2>2 DEF Adds, ObjectOk, HasReloc
<1> HIDE DEF o5
<1>18. Adds(o5, o6) /\ HasReloc(o5, o6, t, r6)
  <2>1. Sound(o5) /\ StubsOk(o5) /\ t \in 1..Len(o5.sections) /\ Free(o5, t)
    BY <1>13, <1>17 DEF ObjectOk, Adds, HasReloc, Free
  <2>2. Sound(o6) /\ StubsOk(o6) /\ Extends(o5, o6) /\ Keeps(o5, o6)
        /\ HasReloc(o5, o6, t, r6)
    BY <1>16, <2>1, RelocPushed
  <2> HIDE DEF o6
  <2> QED BY <2>2 DEF Adds, ObjectOk, HasReloc
<1> HIDE DEF o6
<1>19. /\ Len(o6.sections) = Len(o4.sections) /\ o6.std = o2.std /\ o6.boot = o4.boot
       /\ o6.sections[t].relocs = Append(Append(o4.sections[t].relocs, r5), r6)
       /\ o6.symbols = o4.symbols
  BY <1>11, <1>12, <1>17, <1>18 DEF HasReloc
<1>20. Adds(o2, o6) /\ Adds(o, o6) /\ Adds(o3, o6) /\ Adds(o, o2) /\ Adds(o1, o6)
  <2>1. ObjectOk(o1) /\ ObjectOk(o2) /\ ObjectOk(o3) /\ ObjectOk(o4)
    BY <1>5, <1>7, <1>11, <1>12 DEF Adds
  <2>2. Adds(o4, o6)
    BY <1>17, <1>18, <2>1, AddsTransitive
  <2>3. Adds(o3, o6)
    BY <1>12, <2>1, <2>2, AddsTransitive
  <2>4. Adds(o2, o6)
    BY <1>11, <2>1, <2>3, AddsTransitive
  <2>5. Adds(o1, o6)
    BY <1>7, <2>1, <2>4, AddsTransitive
  <2>6. Adds(o, o6)
    BY <1>5, <2>5, AddsTransitive
  <2>7. Adds(o, o2)
    BY <1>5, <1>7, AddsTransitive
  <2> QED BY <2>3, <2>4, <2>5, <2>6, <2>7
<1>21. /\ \A x \in 1..Len(o.symbols) : o6.symbols[x] = o.symbols[x]
       /\ o6.symbols[z].kind = "Tls" /\ o6.symbols[z].section = 0
       /\ z \in 1..Len(o6.symbols) /\ y \in 1..Len(o6.symbols)
  <2>1. \A x \in 1..Len(o.symbols) : o6.symbols[x] = o.symbols[x]
    BY <1>20 DEF Adds
  <2>2. z \in 1..Len(o1.symbols)
    BY <1>4, <1>5 DEF z
  <2>3. o6.symbols[z] = o1.symbols[z]
    BY <1>20, <2>2 DEF Adds
  <2>4. Typed(o6) /\ Len(o1.symbols) <= Len(o6.symbols)
    BY <1>20 DEF Adds, Extends, ObjectOk, Sound
  <2>5. z <= Len(o6.symbols) /\ Len(o6.symbols) \in Nat
    BY <1>5, <2>4, TypedFields
  <2>6. z \in 1..Len(o6.symbols) /\ y \in 1..Len(o6.symbols)
    BY <1>4, <2>2, <2>5
  <2> QED BY <1>5, <2>1, <2>3, <2>6
<1>22. Typed(o6) /\ Sound(o6) /\ StubsOk(o6) /\ Typed(o3)
  BY <1>11, <1>20 DEF Adds, ObjectOk, Sound
<1>23. Spot(o6, t, at, Q, P)
  <2>1. Extends(o3, o6) /\ Keeps(o3, o6)
    BY <1>20 DEF Adds
  <2>2. P \in Nat
    BY <1>2
  <2> QED BY <1>2, <1>11, <1>22, <2>1, <2>2, SpotKept
<1>24. Sound(o7) /\ StubsOk(o7) /\ Extends(o6, o7)
  <2>1. o6.symbols[y].kind # "Section" /\ o6.symbols[y].section = 0
    BY <1>21
  <2> QED BY <1>2, <1>21, <1>22, <1>23, <2>1, SymbolDefined
<1>25. t \in 1..Len(o6.sections) /\ t \in Nat /\ P \in Nat
  BY <1>2, <1>13, <1>19
<1>26. /\ o7.symbols[y].section = t /\ o7.symbols[y].value = at /\ o7.symbols[y].size = Q
       /\ \A x \in 1..Len(o6.symbols) : x # y => o7.symbols[x] = o6.symbols[x]
       /\ Len(o7.symbols) = Len(o6.symbols) /\ o7.sections = o6.sections
       /\ o7.std = o6.std /\ o7.boot = o6.boot
  <2>1. /\ Typed(o6) /\ y \in 1..Len(o6.symbols) /\ t \in Nat /\ at \in Nat
        /\ Q \in Nat /\ P \in Nat
    BY <1>2, <1>10, <1>21, <1>22, <1>25
  <2>2. Defined(o6, o7, y, t, at, Q)
    BY <2>1, DefineFields
  <2> QED BY <2>2 DEF Defined
<1>27. Keeps(o, o7)
  <2>1. Keeps(o, o6) /\ Keeps(o, o2)
    BY <1>20 DEF Adds
  <2>2. ASSUME t \in 1..Len(o.sections) PROVE at >= o.sections[t].size
    <3>1. o.sections[t].size <= o2.sections[t].size
      BY <2>1, <2>2 DEF Keeps
    <3>2. o.sections[t].size \in Nat
      BY <1>3, <2>2, SectionTypes
    <3>3. o2.sections[t].size \in Nat
      BY <1>7, <1>9, SectionTypes
    <3> QED BY <1>10, <3>1, <3>2, <3>3
  <2> QED BY <1>2, <1>3, <1>10, <1>21, <1>22, <1>25, <2>1, <2>2, DefineKeeps
<1> HIDE DEF o7
<1>28. Typed(o7)
  BY <1>24 DEF Sound
<1>29. Extends(o, o7)
  <2>1. Extends(o, o6)
    BY <1>20 DEF Adds
  <2> QED BY <1>3, <1>22, <1>24, <1>28, <2>1, ExtendsTransitive
<1>30. Spot(o7, i, v, n, a)
  <2>1. a \in Nat
    OBVIOUS
  <2> QED BY <1>3, <1>27, <1>28, <1>29, <2>1, SpotKept
<1>31. /\ z \in 1..Len(o7.symbols) /\ o7.symbols[z].kind = "Tls"
       /\ o7.symbols[z].section = 0
  BY <1>4, <1>21, <1>26
<1>32. Sound(p) /\ StubsOk(p) /\ Extends(o7, p)
  <2>1. o7.symbols[z].kind # "Section"
    BY <1>31
  <2> QED BY <1>24, <1>30, <1>31, <2>1, SymbolDefined
<1>33. i \in Nat /\ i # 0 /\ v \in Nat /\ a \in Nat
  <2>1. i \in 1..Len(o.sections) /\ v \in Nat
    BY DEF Spot
  <2> QED BY <1>3, <2>1, TypedFields
<1>34. /\ p.symbols[z].section = i /\ p.symbols[z].kind = "Tls"
       /\ \A x \in 1..Len(o7.symbols) : x # z => p.symbols[x] = o7.symbols[x]
       /\ p.sections = o7.sections /\ p.std = o7.std /\ p.boot = o7.boot
       /\ Len(p.symbols) = Len(o7.symbols)
  <2>1. Defined(o7, p, z, i, v, n)
    BY <1>28, <1>31, <1>33, DefineFields
  <2> HIDE DEF p
  <2> QED BY <1>31, <2>1 DEF Defined
<1> HIDE DEF p
<1>35. Extends(o, p)
  <2>1. Typed(p)
    BY <1>32 DEF Sound
  <2> QED BY <1>3, <1>28, <1>29, <1>32, <2>1, ExtendsTransitive
<1>36. ASSUME NEW x \in 1..Len(o.symbols), x # y PROVE p.symbols[x] = o.symbols[x]
  <2>1. Len(o.symbols) <= Len(o6.symbols) /\ Len(o6.symbols) \in Nat
    BY <1>20, <1>22, TypedFields DEF Adds, Extends
  <2>2. x \in 1..Len(o6.symbols) /\ x # z
    BY <1>3, <1>4, <2>1
  <2> QED BY <1>21, <1>26, <1>34, <1>36, <2>2
<1>37. Entry(p, p.symbols[y], {z})
  <2> DEFINE R == o4.sections[t].relocs
             S == p.sections[t].relocs
  <2>1. S = Append(Append(R, r5), r6)
    BY <1>19, <1>26, <1>34
  <2>2. R \in Seq(Relocs) /\ Len(R) \in Nat
    <3>1. Typed(o4)
      BY <1>14 DEF ObjectOk, Sound
    <3> QED BY <1>13, <3>1, SectionTypes
  <2> HIDE DEF R, S
  <2>3. /\ Append(R, r5) \in Seq(Relocs) /\ Len(Append(R, r5)) = Len(R) + 1
        /\ Append(R, r5)[Len(R) + 1] = r5
    BY <1>15, <2>2, AppendProperties
  <2>4. /\ Len(S) = Len(R) + 2 /\ S[Len(R) + 2] = r6 /\ S[Len(R) + 1] = r5
    <3> DEFINE T == Append(R, r5)
    <3>1. T \in Seq(Relocs) /\ Len(T) = Len(R) + 1 /\ T[Len(R) + 1] = r5
      BY <2>3
    <3> HIDE DEF T
    <3>2. /\ Len(Append(T, r6)) = Len(T) + 1 /\ Append(T, r6)[Len(T) + 1] = r6
          /\ \A k \in 1..Len(T) : Append(T, r6)[k] = T[k]
      BY <1>16, <3>1, AppendProperties
    <3>3. Len(R) + 1 \in 1..Len(T) /\ Len(T) + 1 = Len(R) + 2
      BY <2>2, <3>1
    <3>4. S = Append(T, r6)
      BY <2>1 DEF T
    <3> QED BY <3>1, <3>2, <3>3, <3>4
  <2>5. Len(R) + 1 \in 1..Len(S) /\ Len(R) + 2 \in 1..Len(S)
    BY <2>2, <2>4
  <2>6. /\ p.symbols[y].section = t /\ p.symbols[y].value = at
        /\ p.symbols[y].size = 3 * Pointer
    <3>1. p.symbols[y] = o7.symbols[y]
      BY <1>4, <1>21, <1>26, <1>34
    <3> QED BY <1>26, <3>1 DEF Q, P
  <2>7. /\ "TlsVariables" \in DOMAIN p.std /\ t = p.std["TlsVariables"]
        /\ p.boot = o4.boot /\ p.boot # 0
    BY <1>7, <1>8, <1>12, <1>19, <1>26, <1>34
  <2>8. /\ \E k \in 1..Len(S) : S[k].offset = at /\ S[k].symbol = p.boot
        /\ \E k \in 1..Len(S) : S[k].offset = at + 2 * Pointer /\ S[k].symbol = z
    BY <1>15, <1>16, <2>4, <2>5, <2>7 DEF P
  <2>9. p.symbols[z].kind = "Tls" /\ p.symbols[z].section # 0
    BY <1>33, <1>34
  <2> QED BY <2>6, <2>7, <2>8, <2>9, ZenonT(40) DEF Entry, S
<1>38. p = Define(AddThreadVar(o, y), z, i, v, n, a)
  BY <1>1 DEF p, o7
<1> QED BY <1>31, <1>32, <1>34, <1>35, <1>36, <1>37, <1>38 DEF ObjectOk, z

(* p is o with the symbol y defined, and the initializer z if it needs one. *)
Defines(o, p, y, z) ==
    /\ ObjectOk(p) /\ Extends(o, p)
    /\ \A x \in 1..Len(o.symbols) : x # y => p.symbols[x] = o.symbols[x]
    /\ Format = "macho" /\ o.symbols[y].kind = "Tls" =>
           z \in 1..Len(p.symbols) /\ Entry(p, p.symbols[y], {z})

(* set_symbol_data                                                         *)
LEMMA SymbolDataSet ==
    ASSUME NEW o, ObjectOk(o), target \in Targets, NEW y \in 1..Len(o.symbols),
           o.symbols[y].kind # "Section", o.symbols[y].section = 0,
           NEW i, NEW v, NEW n \in Nat, NEW a \in Nat \ {0}, Spot(o, i, v, n, a),
           target.viaSymbols => n # 0
    PROVE  Defines(o, SetSymbolData(o, y, i, v, n, a), y, Len(o.symbols) + 1)
<1> DEFINE z == Len(o.symbols) + 1
           p == SetSymbolData(o, y, i, v, n, a)
<1>1. CASE Format = "macho" /\ o.symbols[y].kind = "Tls"
  <2> DEFINE q == Define(AddThreadVar(o, y), z, i, v, n, a)
  <2>1. p = q
    BY <1>1 DEF SetSymbolData
  <2>2. /\ ObjectOk(q) /\ Extends(o, q) /\ z \in 1..Len(q.symbols)
        /\ \A x \in 1..Len(o.symbols) : x # y => q.symbols[x] = o.symbols[x]
        /\ Entry(q, q.symbols[y], {z})
    BY <1>1, ThreadVarAdded
  <2> HIDE DEF p, q, z
  <2>3. Defines(o, p, y, z)
    BY <2>1, <2>2 DEF Defines
  <2> QED BY <2>3 DEF p, z
<1>2. CASE ~(Format = "macho" /\ o.symbols[y].kind = "Tls")
  <2> DEFINE q == Define(o, y, i, v, n, a)
  <2>1. p = q
    BY <1>2 DEF SetSymbolData
  <2>2. Sound(q) /\ StubsOk(q) /\ Extends(o, q)
    <3>1. Sound(o) /\ StubsOk(o)
      BY DEF ObjectOk
    <3> QED BY <3>1, SymbolDefined
  <2>3. \A x \in 1..Len(o.symbols) : x # y => q.symbols[x] = o.symbols[x]
    <3>1. i \in 1..Len(o.sections) /\ v \in Nat
      BY DEF Spot
    <3>2. Typed(o)
      BY DEF ObjectOk, Sound
    <3>3. i \in Nat /\ a \in Nat
      BY <3>1, <3>2, TypedFields
    <3> QED BY <3>1, <3>2, <3>3, DefineFields DEF Defined
  <2> HIDE DEF p, q, z
  <2>4. Defines(o, p, y, z)
    BY <1>2, <2>1, <2>2, <2>3 DEF Defines, ObjectOk
  <2> QED BY <2>4 DEF p, z
<1> QED BY <1>1, <1>2

(* What is defined after data was appended is defined in what there was.   *)
LEMMA DefinesAfter ==
    ASSUME NEW o, NEW q, NEW p, ObjectOk(o), ObjectOk(q), Extends(o, q),
           q.symbols = o.symbols, NEW y, NEW z, Defines(q, p, y, z)
    PROVE  Defines(o, p, y, z)
<1>1. Typed(o) /\ Typed(q) /\ Typed(p)
  BY DEF ObjectOk, Sound, Defines
<1>2. Extends(q, p)
  BY DEF Defines
<1>3. Extends(o, p)
  BY <1>1, <1>2, ExtendsTransitive
<1> QED BY <1>3 DEF Defines

LEMMA SizeIs ==
    ASSUME NEW n \in Nat
    PROVE  /\ SymbolSize(n) \in Nat /\ SymbolSize(n) >= n
           /\ target.viaSymbols => SymbolSize(n) # 0
BY DEF SymbolSize

(* add_symbol_data and add_symbol_bss                                      *)
LEMMA SymbolDataAdded ==
    ASSUME NEW o, ObjectOk(o), target \in Targets, NEW y \in 1..Len(o.symbols),
           o.symbols[y].kind # "Section", o.symbols[y].section = 0,
           NEW i \in 1..Len(o.sections), Free(o, i), ~IsBss(o.sections[i].info),
           NEW d \in Seq(Int), NEW a \in Nat \ {0}
    PROVE  Defines(o, AddSymbolData(o, y, i, d, a), y, Len(o.symbols) + 1)
<1> DEFINE m == SymbolSize(Len(d))
           e == d \o Zeros(m - Len(d))
           v == Offset(o, i, a)
           q == AppendData(o, i, e, a)
           p == SetSymbolData(q, y, i, v, m, a)
<1>1. Len(d) \in Nat
  OBVIOUS
<1>2. m \in Nat /\ m >= Len(d) /\ (target.viaSymbols => m # 0)
  BY <1>1, SizeIs
<1>3. AddSymbolData(o, y, i, d, a) = p
  BY DEF AddSymbolData
<1> HIDE DEF m
<1>4. e \in Seq(Int) /\ Len(e) = m
  <2> DEFINE l == m - Len(d)
             z == Zeros(l)
  <2>1. l \in Nat /\ Len(d) + l = m
    BY <1>1, <1>2
  <2> HIDE DEF l
  <2>2. z \in Seq(Int) /\ Len(z) = l
    BY <2>1, ZerosAre
  <2> HIDE DEF z
  <2>3. d \o z \in Seq(Int) /\ Len(d \o z) = Len(d) + Len(z)
    BY <2>2, Joined
  <2>4. e = d \o z
    BY DEF z, l
  <2> QED BY <2>1, <2>2, <2>3, <2>4
<1> HIDE DEF e
<1>5. ObjectOk(q) /\ Extends(o, q) /\ Spot(q, i, v, m, a) /\ q.symbols = o.symbols
  <2>1. /\ ObjectOk(q) /\ Extends(o, q) /\ Spot(q, i, v, Len(e), a)
        /\ q.symbols = o.symbols
    BY <1>4, DataAppended
  <2> HIDE DEF q, v
  <2> QED BY <1>4, <2>1
<1> HIDE DEF q, v
<1>6. Defines(q, p, y, Len(o.symbols) + 1)
  <2>1. /\ y \in 1..Len(q.symbols) /\ q.symbols[y].kind # "Section"
        /\ q.symbols[y].section = 0 /\ Len(q.symbols) = Len(o.symbols)
    BY <1>5
  <2>2. Defines(q, p, y, Len(q.symbols) + 1)
    BY <1>2, <1>5, <2>1, SymbolDataSet
  <2> QED BY <2>1, <2>2
<1> HIDE DEF p
<1> QED BY <1>3, <1>5, <1>6, DefinesAfter

LEMMA SymbolBssAdded ==
    ASSUME NEW o, ObjectOk(o), target \in Targets, NEW y \in 1..Len(o.symbols),
           o.symbols[y].kind # "Section", o.symbols[y].section = 0,
           NEW i \in 1..Len(o.sections), Free(o, i), IsBss(o.sections[i].info),
           NEW n \in Nat, NEW a \in Nat \ {0}
    PROVE  Defines(o, AddSymbolBss(o, y, i, n, a), y, Len(o.symbols) + 1)
<1> DEFINE m == SymbolSize(n)
           v == Offset(o, i, a)
           q == AppendBss(o, i, m, a)
           p == SetSymbolData(q, y, i, v, m, a)
<1>1. m \in Nat /\ (target.viaSymbols => m # 0)
  BY SizeIs
<1>2. AddSymbolBss(o, y, i, n, a) = p
  BY DEF AddSymbolBss
<1> HIDE DEF m
<1>3. ObjectOk(q) /\ Extends(o, q) /\ Spot(q, i, v, m, a) /\ q.symbols = o.symbols
  BY <1>1, BssAppended
<1> HIDE DEF q, v
<1>4. Defines(q, p, y, Len(o.symbols) + 1)
  <2>1. /\ y \in 1..Len(q.symbols) /\ q.symbols[y].kind # "Section"
        /\ q.symbols[y].section = 0 /\ Len(q.symbols) = Len(o.symbols)
    BY <1>3
  <2>2. Defines(q, p, y, Len(q.symbols) + 1)
    BY <1>1, <1>3, <2>1, SymbolDataSet
  <2> QED BY <2>1, <2>2
<1> HIDE DEF p
<1> QED BY <1>2, <1>3, <1>4, DefinesAfter

LEMMA UndefinedIs ==
    ASSUME NEW k \in {"Text", "Tls", "Other"}, NEW n \in Nat
    PROVE  LET y == Undefined(k) z == [y EXCEPT !.size = n] IN
           /\ y \in Symbols /\ Unplaced(y) /\ y.kind = k
           /\ z \in Symbols /\ Unplaced(z) /\ z.kind = k
BY DEF Undefined, Symbols, Unplaced

(* add_common_symbol                                                       *)
LEMMA CommonSymbolAdded ==
    ASSUME NEW o, ObjectOk(o), target \in Targets,
           NEW k \in {"Text", "Tls", "Other"}, NEW n \in Nat, NEW a \in Nat \ {0}
    PROVE  LET p == AddCommonSymbol(o, Undefined(k), n, a) y == Len(o.symbols) + 1 IN
           /\ ObjectOk(p) /\ Extends(o, p) /\ y \in 1..Len(p.symbols)
           /\ \A x \in 1..Len(o.symbols) : p.symbols[x] = o.symbols[x]
           /\ Format = "macho" /\ p.symbols[y].kind = "Tls" =>
                  y + 1 \in 1..Len(p.symbols) /\ Entry(p, p.symbols[y], {y + 1})
<1> DEFINE u == Undefined(k)
           w == [u EXCEPT !.size = n]
           y == Len(o.symbols) + 1
           o1 == AddRawSymbol(o, u)
           o2 == SectionId(o1, "Common")
           i == o2.std["Common"]
           p == AddCommonSymbol(o, Undefined(k), n, a)
<1>1. Typed(o) /\ Sound(o) /\ StubsOk(o)
  BY DEF ObjectOk, Sound
<1>2. Len(o.symbols) \in Nat
  BY <1>1, TypedFields
<1>3. /\ u \in Symbols /\ Unplaced(u) /\ u.kind = k
      /\ w \in Symbols /\ Unplaced(w) /\ w.kind = k
  BY UndefinedIs
<1>4. p = IF Format = "macho" THEN AddSymbolBss(o2, y, i, n, a) ELSE AddRawSymbol(o, w)
  BY DEF AddCommonSymbol
<1> HIDE DEF p, u, w
<1>5. CASE Format # "macho"
  <2> DEFINE q == AddRawSymbol(o, w)
  <2>1. ObjectOk(q) /\ Extends(o, q)
    BY <1>1, <1>3, SymbolAdded DEF ObjectOk
  <2>2. /\ Len(q.symbols) = y
        /\ \A x \in 1..Len(o.symbols) : q.symbols[x] = o.symbols[x]
    BY <1>1, <1>3, AddRawSymbolIs
  <2>3. p = q
    BY <1>4, <1>5
  <2>4. y \in 1..y
    BY <1>2
  <2> HIDE DEF q, y
  <2> QED BY <1>5, <2>1, <2>2, <2>3, <2>4 DEF p, y
<1>6. CASE Format = "macho"
  <2>1. ObjectOk(o1) /\ Extends(o, o1)
    BY <1>1, <1>3, SymbolAdded DEF ObjectOk
  <2>2. /\ Len(o1.symbols) = y /\ o1.symbols[y] = u
        /\ \A x \in 1..Len(o.symbols) : o1.symbols[x] = o.symbols[x]
    BY <1>1, <1>3, AddRawSymbolIs
  <2> HIDE DEF o1
  <2>3. "Common" \in AllStandard /\ Info("Common") = "Common" /\ IsBss("Common")
    <3>1. Info("Common") = "Common"
      BY DEF Info
    <3> QED BY <3>1 DEF AllStandard, IsBss
  <2>4. /\ Adds(o1, o2) /\ o2.symbols = o1.symbols
        /\ i \in 1..Len(o2.sections) /\ IsBss(o2.sections[i].info) /\ Free(o2, i)
    <3>1. /\ Adds(o1, o2) /\ o2.symbols = o1.symbols
          /\ i \in 1..Len(o2.sections) /\ o2.sections[i].info = "Common"
      BY <2>1, <2>3, StandardAdded
    <3> HIDE DEF i, o2
    <3> QED BY <2>3, <3>1 DEF Free
  <2> HIDE DEF i, o2
  <2> DEFINE q == AddSymbolBss(o2, y, i, n, a)
  <2>5. /\ y \in 1..Len(o2.symbols) /\ o2.symbols[y].kind # "Section"
        /\ o2.symbols[y].section = 0 /\ o2.symbols[y].kind = k
    BY <1>2, <1>3, <2>2, <2>4 DEF Unplaced
  <2>6. ObjectOk(o2) /\ Extends(o1, o2)
    BY <2>4 DEF Adds
  <2> HIDE DEF y
  <2>7. Defines(o2, q, y, Len(o2.symbols) + 1)
    BY <2>4, <2>5, <2>6, SymbolBssAdded
  <2>8. p = q
    BY <1>4, <1>6
  <2> HIDE DEF q
  <2>9. Typed(o1) /\ Typed(o2) /\ Typed(q) /\ ObjectOk(q) /\ Extends(o2, q)
    BY <2>1, <2>6, <2>7 DEF Defines, ObjectOk, Sound
  <2>10. Extends(o, q)
    <3>1. Extends(o, o2)
      BY <1>1, <2>1, <2>6, <2>9, ExtendsTransitive
    <3> QED BY <1>1, <2>9, <3>1, ExtendsTransitive
  <2>11. \A x \in 1..Len(o.symbols) : x \in 1..y /\ x # y
    BY <1>2 DEF y
  <2>12. \A x \in 1..Len(o.symbols) : q.symbols[x] = o.symbols[x]
    BY <2>2, <2>4, <2>7, <2>11 DEF Defines
  <2>13. y \in 1..Len(q.symbols) /\ q.symbols[y].kind = o2.symbols[y].kind
    <3>1. Len(o2.symbols) <= Len(q.symbols) /\ q.symbols[y].kind = o2.symbols[y].kind
      BY <2>5, <2>9 DEF Extends
    <3>2. Len(o2.symbols) \in Nat /\ Len(q.symbols) \in Nat
      BY <2>9, TypedFields
    <3> QED BY <2>5, <3>1, <3>2
  <2>14. q.symbols[y].kind = "Tls" =>
             y + 1 \in 1..Len(q.symbols) /\ Entry(q, q.symbols[y], {y + 1})
    BY <1>6, <2>2, <2>4, <2>7, <2>13 DEF Defines
  <2> QED BY <2>8, <2>9, <2>10, <2>12, <2>13, <2>14 DEF p, y
<1> QED BY <1>5, <1>6

(* What a call leaves known keeps its initializers, if what it adds to the *)
(* known symbols is new or no thread-local variable.                       *)
LEMMA VarsKept ==
    ASSUME NEW o, NEW p, ObjectOk(o), Typed(p), Extends(o, p), NEW ys, NEW zs,
           VarsOk(o, ys), ys \subseteq zs, zs \subseteq 1..Len(p.symbols),
           \A z \in zs \ ys : z \in 1..Len(o.symbols) => o.symbols[z].kind # "Tls",
           \A y \in zs :
               Format = "macho" /\ p.symbols[y].kind = "Tls" /\ p.symbols[y].section # 0 =>
                   \/ y \in ys /\ o.symbols[y].section # 0
                   \/ Entry(p, p.symbols[y], 1..Len(p.symbols) \ zs)
    PROVE  VarsOk(p, zs)
<1> DEFINE U == 1..Len(p.symbols) \ zs
           T == {z \in 1..Len(o.symbols) : z \notin ys /\ o.symbols[z].kind = "Tls"}
<1>1. Typed(o) /\ SymbolsOk(o)
  BY DEF ObjectOk, Sound
<1>2. T \subseteq 1..Len(o.symbols) /\ T \subseteq U
  <2>1. Len(o.symbols) \in Nat /\ Len(p.symbols) \in Nat /\ Len(o.symbols) <= Len(p.symbols)
    BY <1>1, TypedFields DEF Extends
  <2>2. 1..Len(o.symbols) \subseteq 1..Len(p.symbols)
    BY <2>1
  <2> QED BY <2>2
<1>3. ASSUME NEW y \in zs, Format = "macho", p.symbols[y].kind = "Tls",
             p.symbols[y].section # 0
      PROVE  Entry(p, p.symbols[y], U)
  <2> SUFFICES ASSUME y \in ys, o.symbols[y].section # 0 PROVE Entry(p, p.symbols[y], U)
    BY <1>3
  <2> DEFINE v == o.symbols[y]
  <2>1. y \in 1..Len(o.symbols)
    BY DEF VarsOk
  <2>2. p.symbols[y] = v
    BY <2>1 DEF Extends
  <2>3. v \in Symbols /\ v.section \in 0..Len(o.sections) /\ Len(o.sections) \in Nat
    BY <1>1, <2>1, TypedFields DEF SymbolsOk
  <2>4. v.section \in 1..Len(o.sections) /\ v.kind = "Tls"
    BY <1>3, <2>2, <2>3
  <2>5. Entry(o, v, 1..Len(o.symbols) \ ys)
    BY <1>3, <2>4 DEF VarsOk
  <2>6. Entry(o, v, T)
    BY <2>5 DEF Entry
  <2> HIDE DEF T, U, v
  <2>7. Entry(p, v, U)
    BY <1>1, <1>2, <2>3, <2>4, <2>6, EntryKept
  <2> QED BY <2>2, <2>7
<1> QED BY <1>3 DEF VarsOk

(* No symbol is defined by the call, and the symbols that it returns are   *)
(* no thread-local variables, but for an undefined one that is new.        *)
LEMMA NothingDefined ==
    ASSUME NEW o, NEW p, ObjectOk(o), Typed(p), Extends(o, p),
           \A x \in 1..Len(o.symbols) : p.symbols[x] = o.symbols[x],
           NEW ys, VarsOk(o, ys), NEW xs, xs \subseteq 1..Len(p.symbols),
           \A x \in xs : \/ p.symbols[x].kind # "Tls"
                         \/ x = Len(o.symbols) + 1 /\ p.symbols[x].section = 0
    PROVE  VarsOk(p, ys \cup xs)
<1> DEFINE zs == ys \cup xs
<1>1. Typed(o)
  BY DEF ObjectOk, Sound
<1>2. Len(o.symbols) \in Nat /\ Len(p.symbols) \in Nat /\ Len(o.symbols) <= Len(p.symbols)
  BY <1>1, TypedFields DEF Extends
<1>3. ys \subseteq 1..Len(o.symbols)
  BY DEF VarsOk
<1>4. zs \subseteq 1..Len(p.symbols) /\ ys \subseteq zs
  <2>1. 1..Len(o.symbols) \subseteq 1..Len(p.symbols)
    BY <1>2
  <2> QED BY <1>3, <2>1
<1>5. ASSUME NEW z \in zs \ ys, z \in 1..Len(o.symbols)
      PROVE  o.symbols[z].kind # "Tls"
  <2>1. z \in xs /\ z # Len(o.symbols) + 1 /\ p.symbols[z] = o.symbols[z]
    BY <1>2, <1>5
  <2> QED BY <2>1
<1>6. ASSUME NEW y \in zs, p.symbols[y].kind = "Tls", p.symbols[y].section # 0
      PROVE  y \in ys /\ o.symbols[y].section # 0
  <2>1. y \in ys
    BY <1>6
  <2> QED BY <1>3, <1>6, <2>1
<1> HIDE DEF zs
<1>7. \A z \in zs \ ys : z \in 1..Len(o.symbols) => o.symbols[z].kind # "Tls"
  BY <1>5
<1>8. \A y \in zs :
          Format = "macho" /\ p.symbols[y].kind = "Tls" /\ p.symbols[y].section # 0 =>
              \/ y \in ys /\ o.symbols[y].section # 0
              \/ Entry(p, p.symbols[y], 1..Len(p.symbols) \ zs)
  BY <1>6
<1>9. VarsOk(p, zs)
  BY <1>4, <1>7, <1>8, VarsKept
<1> QED BY <1>9 DEF zs

(* One symbol is defined, and its initializer, if any, is not returned.    *)
LEMMA SomethingDefined ==
    ASSUME NEW o, NEW p, ObjectOk(o), NEW ys, VarsOk(o, ys), NEW y \in ys,
           Defines(o, p, y, Len(o.symbols) + 1)
    PROVE  VarsOk(p, ys)
<1> DEFINE z == Len(o.symbols) + 1
           U == 1..Len(p.symbols) \ ys
<1>1. Typed(o) /\ Typed(p) /\ Extends(o, p)
  BY DEF Defines, ObjectOk, Sound
<1>2. Len(o.symbols) \in Nat /\ Len(p.symbols) \in Nat /\ Len(o.symbols) <= Len(p.symbols)
  BY <1>1, TypedFields DEF Extends
<1>3. ys \subseteq 1..Len(o.symbols) /\ ys \subseteq 1..Len(p.symbols)
  <2>1. ys \subseteq 1..Len(o.symbols)
    BY DEF VarsOk
  <2>2. 1..Len(o.symbols) \subseteq 1..Len(p.symbols)
    BY <1>2
  <2> QED BY <2>1, <2>2
<1>4. z \notin ys
  BY <1>2, <1>3
<1>5. ASSUME NEW x \in ys, Format = "macho", p.symbols[x].kind = "Tls",
             p.symbols[x].section # 0
      PROVE  \/ x \in ys /\ o.symbols[x].section # 0
             \/ Entry(p, p.symbols[x], U)
  <2>1. CASE x # y
    BY <1>3, <1>5, <2>1 DEF Defines
  <2>2. CASE x = y
    <3>1. o.symbols[y].kind = "Tls"
      BY <1>1, <1>3, <1>5, <2>2 DEF Extends
    <3>2. z \in 1..Len(p.symbols) /\ Entry(p, p.symbols[y], {z})
      BY <1>5, <3>1 DEF Defines
    <3>3. z \in U
      BY <1>4, <3>2
    <3> HIDE DEF U, z
    <3>4. Entry(p, p.symbols[y], U)
      BY <3>2, <3>3 DEF Entry
    <3> QED BY <2>2, <3>4
  <2> QED BY <2>1, <2>2
<1> QED BY <1>1, <1>3, <1>5, VarsKept

-------------------------------------------------------------------------------
(* The calls *)

LEMMA CallKeeps ==
    ASSUME NEW o, NEW ys, ObjectOk(o), VarsOk(o, ys), target \in Targets,
           obj' = o, known' = ys, UNCHANGED target
    PROVE  IInv'
<1>1. (target \in Targets)'
  OBVIOUS
<1>2. ObjectOk(o)'
  <2>1. StdOk(o)'
    BY DEF ObjectOk, Sound, StdOk, Info, Format
  <2>2. PlacedOk(o)'
    BY DEF ObjectOk, Sound, PlacedOk
  <2>3. Typed(o)' /\ SymbolsOk(o)'
    BY DEF ObjectOk, Sound, Typed, SymbolsOk
  <2>4. SectionsOk(o)'
    <3>1. ASSUME NEW i \in 1..Len(o.sections)
          PROVE  SectionOk(o.sections[i])'
      <4> DEFINE s == o.sections[i]
      <4>1. SectionOk(s)
        BY <3>1 DEF ObjectOk, Sound, SectionsOk
      <4> HIDE DEF s
      <4>2. SectionOk(s)'
        BY <4>1 DEF SectionOk, RelocSafe, CellOk, AsGiven, Replaced, At
      <4> QED BY <4>2 DEF s
    <3> QED BY <3>1 DEF SectionsOk
  <2>5. StubsOk(o)'
    BY DEF ObjectOk, StubsOk, StubOk, Idle
  <2> QED BY <2>1, <2>2, <2>3, <2>4, <2>5 DEF ObjectOk, Sound
<1>3. VarsOk(o, ys)'
  BY DEF VarsOk, Entry, Format, Pointer
<1> QED BY <1>1, <1>2, <1>3 DEF IInv

LEMMA InvariantParts ==
    ASSUME IInv
    PROVE  /\ target \in Targets /\ ObjectOk(obj) /\ VarsOk(obj, known) /\ Typed(obj)
           /\ known \subseteq 1..Len(obj.symbols)
           /\ DOMAIN obj.sections = 1..Len(obj.sections)
           /\ DOMAIN obj.symbols = 1..Len(obj.symbols)
           /\ Len(obj.sections) \in Nat /\ Len(obj.symbols) \in Nat
<1>1. target \in Targets /\ ObjectOk(obj) /\ VarsOk(obj, known)
  BY DEF IInv
<1>2. Typed(obj) /\ known \subseteq 1..Len(obj.symbols)
  BY <1>1 DEF ObjectOk, Sound, VarsOk
<1>3. obj.sections \in Seq(Sections) /\ obj.symbols \in Seq(Symbols)
  BY <1>2, TypedFields
<1> QED BY <1>1, <1>2, <1>3

(* A call that defines no symbol, and returns the symbols xs.              *)
LEMMA ReturnsMore ==
    ASSUME IInv, NEW p, NEW xs, Returns(p, xs), ObjectOk(p), Extends(obj, p),
           \A x \in 1..Len(obj.symbols) : p.symbols[x] = obj.symbols[x],
           xs \subseteq 1..Len(p.symbols),
           \A x \in xs : \/ p.symbols[x].kind # "Tls"
                         \/ x = Len(obj.symbols) + 1 /\ p.symbols[x].section = 0
    PROVE  IInv'
<1>1. target \in Targets /\ ObjectOk(obj) /\ VarsOk(obj, known)
  BY DEF IInv
<1>2. Typed(p)
  BY DEF ObjectOk, Sound
<1>3. VarsOk(p, known \cup xs)
  BY <1>1, <1>2, NothingDefined
<1>4. obj' = p /\ known' = known \cup xs /\ UNCHANGED target
  BY DEF Returns
<1> QED BY <1>1, <1>3, <1>4, CallKeeps

(* A call that neither defines a symbol nor returns one.                   *)
LEMMA ReturnsNone ==
    ASSUME IInv, NEW p, Returns(p, {}), ObjectOk(p), Extends(obj, p),
           \A x \in 1..Len(obj.symbols) : p.symbols[x] = obj.symbols[x]
    PROVE  IInv'
BY ReturnsMore

LEMMA AddSectionKeeps == ASSUME IInv, CallAddSection PROVE IInv'
<1>1. PICK info \in target.infos : Returns(AddSection(obj, info), {})
  BY DEF CallAddSection
<1> DEFINE p == AddSection(obj, info)
<1>2. info \in Infos /\ info # "refptr"
  BY InvariantParts, TargetTypes
<1>3. Sound(p) /\ StubsOk(p) /\ Extends(obj, p)
  BY <1>2, InvariantParts, SectionAdded
<1>4. p.symbols = obj.symbols
  BY <1>2, InvariantParts, AddSectionIs
<1>5. ObjectOk(p) /\ Returns(p, {})
  BY <1>1, <1>3 DEF ObjectOk
<1> HIDE DEF p
<1> QED BY <1>3, <1>4, <1>5, ReturnsNone

LEMMA SectionIdKeeps == ASSUME IInv, CallSectionId PROVE IInv'
<1>1. PICK s \in target.standards : Returns(SectionId(obj, s), {})
  BY DEF CallSectionId
<1> DEFINE p == SectionId(obj, s)
<1>2. s \in AllStandard
  BY InvariantParts, TargetTypes
<1>3. Adds(obj, p)
  BY <1>2, InvariantParts, StandardAdded
<1>4. Returns(p, {})
  BY <1>1
<1> HIDE DEF p
<1> QED BY <1>3, <1>4, ReturnsNone DEF Adds

LEMMA ClientSectionIds ==
    ASSUME IInv, NEW i \in ClientSections
    PROVE  i \in 1..Len(obj.sections) /\ obj.sections[i].info # "refptr" /\ Free(obj, i)
BY InvariantParts DEF ClientSections, SectionIds, Free

LEMMA SetSectionDataKeeps == ASSUME IInv, CallSetSectionData PROVE IInv'
<1>1. PICK i \in ClientSections, d \in target.data, a \in target.aligns :
          /\ ~IsBss(obj.sections[i].info) /\ obj.sections[i].data = <<>>
          /\ Returns(SetData(obj, i, d, a), {})
  BY DEF CallSetSectionData
<1> DEFINE p == SetData(obj, i, d, a)
<1>2. d \in Seq(Int) /\ a \in Nat \ {0}
  BY InvariantParts, TargetTypes
<1>3. Sound(obj) /\ StubsOk(obj) /\ i \in 1..Len(obj.sections)
  BY InvariantParts, ClientSectionIds DEF ObjectOk
<1>4. Sound(p) /\ StubsOk(p) /\ Extends(obj, p) /\ HasData(obj, p, i, Len(d), a)
  BY <1>1, <1>2, <1>3, DataSet
<1>5. ObjectOk(p) /\ p.symbols = obj.symbols /\ Returns(p, {})
  BY <1>1, <1>4 DEF ObjectOk, HasData
<1> HIDE DEF p
<1> QED BY <1>4, <1>5, ReturnsNone

LEMMA AppendSectionDataKeeps == ASSUME IInv, CallAppendSectionData PROVE IInv'
<1>1. PICK i \in ClientSections, d \in target.data, a \in target.aligns :
          /\ ~IsBss(obj.sections[i].info)
          /\ Returns(AppendData(obj, i, d, a), {})
  BY DEF CallAppendSectionData
<1> DEFINE p == AppendData(obj, i, d, a)
<1>2. d \in Seq(Int) /\ a \in Nat \ {0}
  BY InvariantParts, TargetTypes
<1>3. ObjectOk(obj) /\ i \in 1..Len(obj.sections) /\ Free(obj, i)
  BY InvariantParts, ClientSectionIds
<1>4. ObjectOk(p) /\ Extends(obj, p) /\ p.symbols = obj.symbols
  BY <1>1, <1>2, <1>3, DataAppended
<1>5. Returns(p, {})
  BY <1>1
<1> HIDE DEF p
<1> QED BY <1>4, <1>5, ReturnsNone

LEMMA AppendSectionBssKeeps == ASSUME IInv, CallAppendSectionBss PROVE IInv'
<1>1. PICK i \in ClientSections, n \in target.sizes, a \in target.aligns :
          /\ IsBss(obj.sections[i].info)
          /\ Returns(AppendBss(obj, i, n, a), {})
  BY DEF CallAppendSectionBss
<1> DEFINE p == AppendBss(obj, i, n, a)
<1>2. n \in Nat /\ a \in Nat \ {0}
  BY InvariantParts, TargetTypes
<1>3. ObjectOk(obj) /\ i \in 1..Len(obj.sections) /\ Free(obj, i)
  BY InvariantParts, ClientSectionIds
<1>4. ObjectOk(p) /\ Extends(obj, p) /\ p.symbols = obj.symbols
  BY <1>1, <1>2, <1>3, BssAppended
<1>5. Returns(p, {})
  BY <1>1
<1> HIDE DEF p
<1> QED BY <1>4, <1>5, ReturnsNone

(* The symbol of a section, added if it has none, is what a call returns.  *)
LEMMA SectionSymbolReturned ==
    ASSUME IInv, NEW i \in 1..Len(obj.sections), Free(obj, i),
           NEW p, p = SectionSymbol(obj, i),
           Returns(p, {p.sections[i].symbol})
    PROVE  IInv'
<1> DEFINE y == p.sections[i].symbol
<1>1. ObjectOk(obj)
  BY InvariantParts
<1>2. /\ ObjectOk(p) /\ Extends(obj, p)
      /\ y \in 1..Len(p.symbols) /\ p.symbols[y].kind = "Section"
      /\ \A x \in 1..Len(obj.symbols) : p.symbols[x] = obj.symbols[x]
  BY <1>1, SectionSymbolAdded
<1>3. Returns(p, {y})
  OBVIOUS
<1> HIDE DEF y
<1>4. \A x \in {y} : x \in 1..Len(p.symbols) /\ p.symbols[x].kind # "Tls"
  BY <1>2
<1>5. {y} \subseteq 1..Len(p.symbols)
  BY <1>2
<1> QED BY <1>2, <1>3, <1>4, <1>5, ReturnsMore

LEMMA AddSymbolKeeps == ASSUME IInv, CallAddSymbol PROVE IInv'
<1>1. CASE \E k \in target.kinds :
               Returns(AddRawSymbol(obj, Undefined(k)), {Len(obj.symbols) + 1})
  <2>1. PICK k \in target.kinds :
            Returns(AddRawSymbol(obj, Undefined(k)), {Len(obj.symbols) + 1})
    BY <1>1
  <2> DEFINE p == AddRawSymbol(obj, Undefined(k))
             y == Len(obj.symbols) + 1
  <2>2. k \in {"Text", "Tls", "Other"}
    BY InvariantParts, TargetTypes
  <2>3. Undefined(k) \in Symbols /\ Unplaced(Undefined(k)) /\ Undefined(k).section = 0
    BY <2>2, UndefinedIs DEF Undefined
  <2>4. Sound(obj) /\ StubsOk(obj) /\ Typed(obj) /\ Len(obj.symbols) \in Nat
    BY InvariantParts DEF ObjectOk
  <2>5. Sound(p) /\ StubsOk(p) /\ Extends(obj, p)
    BY <2>3, <2>4, SymbolAdded
  <2>6. /\ Len(p.symbols) = y /\ p.symbols[y] = Undefined(k)
        /\ \A x \in 1..Len(obj.symbols) : p.symbols[x] = obj.symbols[x]
    BY <2>3, <2>4, AddRawSymbolIs
  <2>7. {y} \subseteq 1..Len(p.symbols)
    BY <2>4, <2>6
  <2>8. \A x \in {y} : x = Len(obj.symbols) + 1 /\ p.symbols[x].section = 0
    BY <2>3, <2>6
  <2>9. Returns(p, {y}) /\ ObjectOk(p)
    BY <2>1, <2>5 DEF ObjectOk
  <2> HIDE DEF p, y
  <2> QED BY <2>5, <2>6, <2>7, <2>8, <2>9, ReturnsMore
<1>2. CASE \E i \in ClientSections :
               LET o == SectionSymbol(obj, i) IN Returns(o, {o.sections[i].symbol})
  <2>1. PICK i \in ClientSections :
            LET o == SectionSymbol(obj, i) IN Returns(o, {o.sections[i].symbol})
    BY <1>2
  <2> DEFINE p == SectionSymbol(obj, i)
  <2>2. /\ Returns(p, {p.sections[i].symbol})
        /\ i \in 1..Len(obj.sections) /\ Free(obj, i)
    BY <2>1, ClientSectionIds
  <2>3. p = SectionSymbol(obj, i)
    OBVIOUS
  <2> HIDE DEF p
  <2> QED BY <2>2, <2>3, SectionSymbolReturned
<1> QED BY <1>1, <1>2 DEF CallAddSymbol

LEMMA SymbolSectionAndOffsetKeeps ==
    ASSUME IInv, CallSymbolSectionAndOffset PROVE IInv'
<1>1. PICK y \in known :
          LET i == obj.symbols[y].section IN
          /\ i # 0
          /\ IF obj.symbols[y].kind = "Section" THEN Returns(obj, {y})
             ELSE LET o == SectionSymbol(obj, i) IN Returns(o, {o.sections[i].symbol})
  BY DEF CallSymbolSectionAndOffset
<1> DEFINE i == obj.symbols[y].section
<1>2. y \in 1..Len(obj.symbols) /\ ObjectOk(obj) /\ Typed(obj)
  BY InvariantParts
<1>3. CASE obj.symbols[y].kind = "Section"
  <2>1. Returns(obj, {y}) /\ Extends(obj, obj)
    BY <1>1, <1>2, <1>3, ExtendsItself
  <2>2. {y} \subseteq 1..Len(obj.symbols) /\ \A x \in {y} : obj.symbols[x].kind # "Tls"
    BY <1>2, <1>3
  <2> QED BY <1>2, <2>1, <2>2, ReturnsMore
<1>4. CASE obj.symbols[y].kind # "Section"
  <2> DEFINE p == SectionSymbol(obj, i)
  <2>1. Returns(p, {p.sections[i].symbol}) /\ i # 0
    BY <1>1, <1>4
  <2>2. i \in 0..Len(obj.sections) /\ Len(obj.sections) \in Nat
    BY <1>2, TypedFields DEF ObjectOk, Sound, SymbolsOk
  <2>3. p = SectionSymbol(obj, i)
    OBVIOUS
  <2> HIDE DEF p, i
  <2>4. i \in 1..Len(obj.sections)
    BY <2>1, <2>2
  <2>5. Free(obj, i)
    <3>1. ~Idle(obj, i)
      BY <1>2 DEF Idle, i
    <3> QED BY <1>2, <2>4, <3>1 DEF Free, ObjectOk, StubsOk
  <2> QED BY <2>1, <2>3, <2>4, <2>5, SectionSymbolReturned
<1> QED BY <1>3, <1>4

LEMMA AddCommonSymbolKeeps == ASSUME IInv, CallAddCommonSymbol PROVE IInv'
<1>1. PICK k \in target.kinds, n \in target.sizes, a \in target.aligns :
          Returns(AddCommonSymbol(obj, Undefined(k), n, a), {Len(obj.symbols) + 1})
  BY DEF CallAddCommonSymbol
<1> DEFINE p == AddCommonSymbol(obj, Undefined(k), n, a)
           y == Len(obj.symbols) + 1
           zs == known \cup {y}
           U == 1..Len(p.symbols) \ zs
<1>2. /\ target \in Targets /\ ObjectOk(obj) /\ VarsOk(obj, known)
      /\ known \subseteq 1..Len(obj.symbols) /\ Len(obj.symbols) \in Nat
  BY InvariantParts
<1>3. k \in {"Text", "Tls", "Other"} /\ n \in Nat /\ a \in Nat \ {0}
  BY <1>2, TargetTypes
<1>4. /\ ObjectOk(p) /\ Extends(obj, p) /\ y \in 1..Len(p.symbols)
      /\ \A x \in 1..Len(obj.symbols) : p.symbols[x] = obj.symbols[x]
      /\ Format = "macho" /\ p.symbols[y].kind = "Tls" =>
             y + 1 \in 1..Len(p.symbols) /\ Entry(p, p.symbols[y], {y + 1})
  BY <1>2, <1>3, CommonSymbolAdded
<1>5. Typed(p)
  BY <1>4 DEF ObjectOk, Sound
<1>6. obj' = p /\ known' = zs /\ UNCHANGED target
  BY <1>1 DEF Returns
<1> HIDE DEF p
<1>7. y \notin known /\ y + 1 \notin known /\ y # y + 1 /\ y \notin 1..Len(obj.symbols)
  BY <1>2
<1> HIDE DEF y
<1>8. known \subseteq 1..Len(p.symbols)
  <2>1. Len(obj.symbols) <= Len(p.symbols) /\ Len(p.symbols) \in Nat
    BY <1>4, <1>5, TypedFields DEF Extends
  <2>2. 1..Len(obj.symbols) \subseteq 1..Len(p.symbols)
    BY <1>2, <2>1
  <2> QED BY <1>2, <2>2
<1>9. known \subseteq zs /\ zs \subseteq 1..Len(p.symbols)
  BY <1>4, <1>8
<1>10. \A z \in zs \ known : z \in 1..Len(obj.symbols) => obj.symbols[z].kind # "Tls"
  BY <1>7
<1>11. \A x \in zs :
           Format = "macho" /\ p.symbols[x].kind = "Tls" /\ p.symbols[x].section # 0 =>
               \/ x \in known /\ obj.symbols[x].section # 0
               \/ Entry(p, p.symbols[x], U)
  <2> SUFFICES ASSUME NEW x \in zs, Format = "macho", p.symbols[x].kind = "Tls",
                      p.symbols[x].section # 0
               PROVE  \/ x \in known /\ obj.symbols[x].section # 0
                      \/ Entry(p, p.symbols[x], U)
    OBVIOUS
  <2>1. CASE x \in known
    BY <1>2, <1>4, <2>1
  <2>2. CASE x = y
    <3>1. y + 1 \in 1..Len(p.symbols) /\ Entry(p, p.symbols[y], {y + 1})
      BY <1>4, <2>2
    <3>2. y + 1 \in U
      BY <1>7, <3>1
    <3> HIDE DEF U, zs
    <3>3. Entry(p, p.symbols[y], U)
      BY <3>1, <3>2 DEF Entry
    <3> QED BY <2>2, <3>3
  <2> QED BY <2>1, <2>2
<1> HIDE DEF zs
<1>12. VarsOk(p, zs)
  BY <1>2, <1>4, <1>5, <1>9, <1>10, <1>11, VarsKept
<1> QED BY <1>2, <1>4, <1>6, <1>12, CallKeeps

(* A call that defines the symbol y.                                       *)
LEMMA ReturnsDefined ==
    ASSUME IInv, NEW p, Returns(p, {}), NEW y \in known,
           Defines(obj, p, y, Len(obj.symbols) + 1)
    PROVE  IInv'
<1>1. target \in Targets /\ ObjectOk(obj) /\ VarsOk(obj, known)
  BY InvariantParts
<1>2. ObjectOk(p) /\ VarsOk(p, known)
  BY <1>1, SomethingDefined DEF Defines
<1>3. obj' = p /\ known' = known /\ UNCHANGED target
  BY DEF Returns
<1> QED BY <1>1, <1>2, <1>3, CallKeeps

LEMMA AddSymbolDataKeeps == ASSUME IInv, CallAddSymbolData PROVE IInv'
<1>1. PICK y \in known, i \in ClientSections, d \in target.data, a \in target.aligns :
          /\ Definable(y) /\ ~IsBss(obj.sections[i].info)
          /\ Returns(AddSymbolData(obj, y, i, d, a), {})
  BY DEF CallAddSymbolData
<1> DEFINE p == AddSymbolData(obj, y, i, d, a)
<1>2. /\ target \in Targets /\ ObjectOk(obj) /\ y \in 1..Len(obj.symbols)
      /\ i \in 1..Len(obj.sections) /\ Free(obj, i)
  BY InvariantParts, ClientSectionIds
<1>3. d \in Seq(Int) /\ a \in Nat \ {0}
  BY <1>2, TargetTypes
<1>4. obj.symbols[y].kind # "Section" /\ obj.symbols[y].section = 0
  BY <1>1 DEF Definable
<1>5. Defines(obj, p, y, Len(obj.symbols) + 1)
  BY <1>1, <1>2, <1>3, <1>4, SymbolDataAdded
<1>6. Returns(p, {})
  BY <1>1
<1> HIDE DEF p
<1> QED BY <1>5, <1>6, ReturnsDefined

LEMMA AddSymbolBssKeeps == ASSUME IInv, CallAddSymbolBss PROVE IInv'
<1>1. PICK y \in known, i \in ClientSections, n \in target.sizes, a \in target.aligns :
          /\ Definable(y) /\ IsBss(obj.sections[i].info)
          /\ Returns(AddSymbolBss(obj, y, i, n, a), {})
  BY DEF CallAddSymbolBss
<1> DEFINE p == AddSymbolBss(obj, y, i, n, a)
<1>2. /\ target \in Targets /\ ObjectOk(obj) /\ y \in 1..Len(obj.symbols)
      /\ i \in 1..Len(obj.sections) /\ Free(obj, i)
  BY InvariantParts, ClientSectionIds
<1>3. n \in Nat /\ a \in Nat \ {0}
  BY <1>2, TargetTypes
<1>4. obj.symbols[y].kind # "Section" /\ obj.symbols[y].section = 0
  BY <1>1 DEF Definable
<1>5. Defines(obj, p, y, Len(obj.symbols) + 1)
  BY <1>1, <1>2, <1>3, <1>4, SymbolBssAdded
<1>6. Returns(p, {})
  BY <1>1
<1> HIDE DEF p
<1> QED BY <1>5, <1>6, ReturnsDefined

(* If there are no generic relocations there is no symbol to go through.   *)
LEMMA Translated ==
    ASSUME NEW o, ObjectOk(o), target \in Targets, NEW y \in 1..Len(o.symbols), NEW kind
    PROVE  LET p == Translate(o, kind, y) IN
           /\ ObjectOk(p) /\ Extends(o, p) /\ Begins(o, p) /\ Leftover(o, p)
           /\ target.relocates \/ kind # "got" => Target(o, kind, y) \in Nat
<1> DEFINE p == Translate(o, kind, y)
<1>1. Typed(o) /\ y \in Nat
  <2>1. Typed(o)
    BY DEF ObjectOk, Sound
  <2> QED BY <2>1, TypedFields
<1>2. CASE Format = "coff" /\ kind = "got"
  <2>1. p = AddStubSymbol(o, y)
    BY <1>2 DEF Translate
  <2> DEFINE q == AddStubSymbol(o, y)
  <2>2. /\ ObjectOk(q) /\ Extends(o, q) /\ Begins(o, q) /\ Leftover(o, q)
        /\ target.relocates => y \in DOMAIN q.stubs
    BY StubAdded
  <2> HIDE DEF q
  <2>3. p = q
    BY <2>1 DEF q
  <2>4. Target(o, kind, y) = p.stubs[y]
    BY <1>2 DEF Target
  <2> HIDE DEF p
  <2>5. Typed(p)
    BY <2>2, <2>3 DEF ObjectOk, Sound
  <2>6. p.stubs \in [DOMAIN p.stubs -> Nat]
    BY <2>5, TypedFields
  <2>7. target.relocates => Target(o, kind, y) \in Nat
    BY <2>2, <2>3, <2>4, <2>6
  <2> QED BY <1>2, <2>2, <2>3, <2>7 DEF p
<1>3. CASE ~(Format = "coff" /\ kind = "got")
  <2>1. p = o /\ Target(o, kind, y) = y
    BY <1>3 DEF Translate, Target
  <2>2. Leftover(o, o) /\ Begins(o, o)
    BY <1>1, TypedFields DEF Leftover, Begins
  <2> HIDE DEF p
  <2> QED BY <1>1, <2>1, <2>2, ExtendsItself DEF p
<1> QED BY <1>2, <1>3

LEMMA AddRelocationKeeps == ASSUME IInv, CallAddRelocation PROVE IInv'
<1>1. PICK i \in ClientSections, at \in target.places, y \in known,
           kind \in target.relocKinds, n \in target.addends \cup {-target.pcAdjust},
           supported \in BOOLEAN :
          LET o == Translate(obj, kind, y)
              a == Adjust(kind, n)
              stored == target.implicit /\ a # 0
          IN  /\ ~IsBss(obj.sections[i].info)
              /\ IF /\ supported
                    /\ target.relocates \/ (kind = "raw" /\ ~stored)
                    /\ stored => at < Len(o.sections[i].data)
                 THEN Returns(StoreAddend(o, i, [offset |-> at,
                                                 symbol |-> Target(obj, kind, y),
                                                 addend |-> a, asked |-> a]), {})
                 ELSE Fails(o)
  BY DEF CallAddRelocation
<1> DEFINE o == Translate(obj, kind, y)
           a == Adjust(kind, n)
           r == [offset |-> at, symbol |-> Target(obj, kind, y), addend |-> a, asked |-> a]
           p == StoreAddend(o, i, r)
           stored == target.implicit /\ a # 0
           done == /\ supported
                   /\ target.relocates \/ (kind = "raw" /\ ~stored)
                   /\ stored => at < Len(o.sections[i].data)
<1>2. /\ target \in Targets /\ ObjectOk(obj) /\ VarsOk(obj, known) /\ Typed(obj)
      /\ y \in 1..Len(obj.symbols) /\ i \in 1..Len(obj.sections) /\ Free(obj, i)
  BY <1>1, InvariantParts, ClientSectionIds
<1>3. /\ ObjectOk(o) /\ Extends(obj, o) /\ Begins(obj, o)
      /\ target.relocates \/ kind # "got" => Target(obj, kind, y) \in Nat
  BY <1>2, Translated
<1>4. at \in Nat /\ n \in Int /\ target.pcAdjust \in Int
  BY <1>2, TargetTypes
<1>5. a \in Int
  BY <1>4 DEF Adjust
<1>6. IF done THEN Returns(p, {}) ELSE Fails(o)
  BY <1>1
<1> HIDE DEF o, a
<1>7. CASE done
  <2> DEFINE x == Target(obj, kind, y)
  <2>1. x \in Nat
    <3>1. target.relocates \/ kind # "got"
      BY <1>7
    <3> QED BY <1>3, <3>1
  <2> HIDE DEF x
  <2>2. /\ r \in Relocs /\ r.asked = r.addend /\ r.offset = at /\ r.addend = a
    BY <1>4, <1>5, <2>1 DEF Relocs, x
  <2> HIDE DEF r
  <2>3. target.implicit /\ r.addend # 0 => r.offset < Len(o.sections[i].data)
    BY <1>7, <2>2
  <2>4. i \in 1..Len(o.sections) /\ Free(o, i)
    <3>1. Len(obj.sections) \in Nat /\ Len(obj.sections) <= Len(o.sections)
      BY <1>2, <1>3, TypedFields DEF Extends
    <3>2. Typed(o)
      BY <1>3 DEF ObjectOk, Sound
    <3>3. Len(o.sections) \in Nat
      BY <3>2, TypedFields
    <3>4. i \in 1..Len(o.sections)
      BY <1>2, <3>1, <3>3
    <3> QED BY <1>2, <1>3, <3>4 DEF Begins, Free
  <2>5. ObjectOk(p) /\ Extends(o, p) /\ p.symbols = o.symbols
    BY <1>3, <2>2, <2>3, <2>4, AddendGoes
  <2>6. Returns(p, {})
    BY <1>6, <1>7
  <2> HIDE DEF p, done
  <2>7. Typed(o) /\ Typed(p)
    BY <1>3, <2>5 DEF ObjectOk, Sound
  <2>8. Extends(obj, p)
    BY <1>2, <1>3, <2>5, <2>7, ExtendsTransitive
  <2>9. \A w \in 1..Len(obj.symbols) : p.symbols[w] = obj.symbols[w]
    BY <1>3, <2>5 DEF Begins
  <2> QED BY <2>5, <2>6, <2>8, <2>9, ReturnsNone
<1>8. CASE ~done
  <2>1. Fails(o)
    BY <1>6, <1>8
  <2>2. obj' = o /\ known' = known /\ UNCHANGED target
    BY <2>1 DEF Fails
  <2>3. Typed(o)
    BY <1>3 DEF ObjectOk, Sound
  <2>4. VarsOk(o, known \cup {})
    <3> DEFINE none == {}
    <3>1. none \subseteq 1..Len(o.symbols) /\ \A x \in none : o.symbols[x].kind # "Tls"
      OBVIOUS
    <3>2. \A x \in 1..Len(obj.symbols) : o.symbols[x] = obj.symbols[x]
      BY <1>3 DEF Begins
    <3> HIDE DEF none
    <3>3. VarsOk(o, known \cup none)
      BY <1>2, <1>3, <2>3, <3>1, <3>2, NothingDefined
    <3> QED BY <3>3 DEF none
  <2>5. VarsOk(o, known)
    <3>1. known \cup {} = known
      OBVIOUS
    <3> QED BY <2>4, <3>1
  <2> QED BY <1>2, <1>3, <2>2, <2>5, CallKeeps
<1> QED BY <1>7, <1>8

-------------------------------------------------------------------------------
(* The specification *)

LEMMA StartsEmpty == Init => IInv
<1> SUFFICES ASSUME Init PROVE IInv
  OBVIOUS
<1>1. /\ target \in Targets /\ known = {}
      /\ obj = Object(<<>>, <<>>, <<>>, <<>>, 0)
  BY DEF Init, Object
<1>2. /\ obj.sections = <<>> /\ obj.symbols = <<>> /\ obj.std = <<>> /\ obj.stubs = <<>>
      /\ Len(obj.sections) = 0 /\ Len(obj.symbols) = 0
      /\ DOMAIN obj.std = {} /\ DOMAIN obj.stubs = {}
  BY <1>1 DEF Object
<1>3. Typed(obj)
  <2> DEFINE e == <<>>
  <2>1. e \in Seq(Sections) /\ e \in Seq(Symbols) /\ e \in [DOMAIN e -> Nat]
    OBVIOUS
  <2>2. obj = Object(e, e, e, e, 0)
    BY <1>1
  <2> HIDE DEF e
  <2>3. Typed(Object(e, e, e, e, 0))
    BY <2>1, TypedObject
  <2> QED BY <2>2, <2>3
<1>4. StdOk(obj)
  <2>1. \A s \in AllStandard, i \in 1..Len(obj.sections) :
            obj.sections[i].info # Info(s)
    BY <1>2
  <2> QED BY <1>2, <2>1 DEF StdOk
<1>5. SectionsOk(obj) /\ SymbolsOk(obj) /\ PlacedOk(obj) /\ StubsOk(obj)
  BY <1>2 DEF SectionsOk, SymbolsOk, PlacedOk, StubsOk
<1>6. VarsOk(obj, known)
  BY <1>1, <1>2 DEF VarsOk
<1> QED BY <1>1, <1>3, <1>4, <1>5, <1>6 DEF IInv, ObjectOk, Sound

LEMMA StepKeeps == IInv /\ [Next]_vars => IInv'
<1> SUFFICES ASSUME IInv, [Next]_vars PROVE IInv'
  OBVIOUS
<1>1. CASE Next
  BY <1>1, AddSectionKeeps, SectionIdKeeps, SetSectionDataKeeps,
     AppendSectionDataKeeps, AppendSectionBssKeeps, AddSymbolKeeps,
     AddCommonSymbolKeeps, AddSymbolDataKeeps, AddSymbolBssKeeps,
     SymbolSectionAndOffsetKeeps, AddRelocationKeeps DEF Next
<1>2. CASE UNCHANGED vars
  <2>1. obj' = obj /\ known' = known /\ UNCHANGED target
    BY <1>2 DEF vars
  <2> QED BY <2>1, InvariantParts, CallKeeps
<1> QED BY <1>1, <1>2

LEMMA Invariant == Spec => []IInv
BY StartsEmpty, StepKeeps, PTL DEF Spec

(* StandardFirst: section_id finds the first section that looks like the   *)
(* standard one, in add_section's and in its own order of additions.       *)
THEOREM StandardSections == Spec => []StandardFirst
<1>1. IInv => StandardFirst
  <2> SUFFICES ASSUME IInv PROVE StandardFirst
    OBVIOUS
  <2>1. StdOk(obj) /\ DOMAIN obj.sections = 1..Len(obj.sections)
    BY InvariantParts DEF ObjectOk, Sound
  <2> SUFFICES ASSUME NEW s \in AllStandard
               PROVE  LET like == {i \in SectionIds : obj.sections[i].info = Info(s)} IN
                      IF s \in DOMAIN obj.std
                      THEN obj.std[s] \in like /\ \A i \in like : obj.std[s] <= i
                      ELSE like = {}
    BY DEF StandardFirst
  <2>2. CASE s \in DOMAIN obj.std
    BY <2>1, <2>2 DEF StdOk, SectionIds
  <2>3. CASE s \notin DOMAIN obj.std
    BY <2>1, <2>3 DEF StdOk, SectionIds
  <2> QED BY <2>2, <2>3
<1> QED BY <1>1, Invariant, PTL

(* OneSectionSymbol: section_symbol adds one symbol to a section, however  *)
(* often it is asked for and whatever other calls ask for it.              *)
THEOREM SectionSymbols == Spec => []OneSectionSymbol
<1>1. IInv => OneSectionSymbol
  <2> SUFFICES ASSUME IInv PROVE OneSectionSymbol
    OBVIOUS
  <2>1. SymbolsOk(obj) /\ DOMAIN obj.symbols = 1..Len(obj.symbols)
    BY InvariantParts DEF ObjectOk, Sound
  <2> QED BY <2>1 DEF OneSectionSymbol, SymbolsOk, SymbolIds
<1> QED BY <1>1, Invariant, PTL

(* Placed: what add_symbol_data and add_symbol_bss place lies in its       *)
(* section, aligned, and apart from all that was placed there.             *)
THEOREM PlacesApart == Spec => []Placed
<1>1. IInv => Placed
  <2> SUFFICES ASSUME IInv PROVE Placed
    OBVIOUS
  <2> DEFINE placed == {y \in SymbolIds :
                           /\ obj.symbols[y].align # 0
                           /\ obj.symbols[y].size # 0 \/ target.viaSymbols}
  <2>1. PlacedOk(obj) /\ Typed(obj) /\ DOMAIN obj.symbols = 1..Len(obj.symbols)
    BY InvariantParts DEF ObjectOk, Sound
  <2>2. ASSUME NEW y \in placed
        PROVE  /\ y \in 1..Len(obj.symbols) /\ Takes(obj.symbols[y])
               /\ obj.symbols[y].value \in Nat /\ obj.symbols[y].size \in Nat \ {0}
    <3>1. y \in 1..Len(obj.symbols)
      BY <2>1 DEF SymbolIds
    <3>2. obj.symbols[y] \in Symbols
      BY <2>1, <3>1, TypedFields
    <3>3. obj.symbols[y].align # 0 /\ obj.symbols[y].size # 0
      BY <2>1, <3>1 DEF PlacedOk
    <3> QED BY <3>1, <3>2, <3>3 DEF Takes, Symbols
  <2> SUFFICES ASSUME NEW y \in placed
               PROVE  LET v == obj.symbols[y] s == obj.sections[v.section] IN
                      /\ v.value % v.align = 0 /\ v.align <= s.align
                      /\ v.value + v.size <= s.size
                      /\ \A z \in placed \ {y} :
                             LET w == obj.symbols[z] IN
                             w.section = v.section =>
                                 /\ v.value # w.value
                                 /\ v.value + v.size <= w.value
                                    \/ w.value + w.size <= v.value
    BY DEF Placed
  <2> HIDE DEF placed
  <2> DEFINE v == obj.symbols[y]
             s == obj.sections[v.section]
  <2>3. /\ v.value % v.align = 0 /\ v.align <= s.align
        /\ v.value + v.size <= s.size
        /\ \A z \in 1..Len(obj.symbols) :
               z # y /\ Takes(obj.symbols[z]) /\ obj.symbols[z].section = v.section =>
                   Apart(v, obj.symbols[z])
    BY <2>1, <2>2 DEF PlacedOk
  <2>4. ASSUME NEW z \in placed \ {y}, obj.symbols[z].section = v.section
        PROVE  /\ v.value # obj.symbols[z].value
               /\ \/ v.value + v.size <= obj.symbols[z].value
                  \/ obj.symbols[z].value + obj.symbols[z].size <= v.value
    <3> DEFINE w == obj.symbols[z]
    <3>1. /\ Apart(v, w) /\ v.value \in Nat /\ w.value \in Nat
          /\ v.size \in Nat \ {0} /\ w.size \in Nat \ {0}
      BY <2>2, <2>3, <2>4
    <3> HIDE DEF v, w
    <3>2. v.value # w.value /\ (v.value + v.size <= w.value \/ w.value + w.size <= v.value)
      BY <3>1 DEF Apart
    <3> QED BY <3>2 DEF w
  <2> QED BY <2>3, <2>4
<1> QED BY <1>1, Invariant, PTL

(* AddendsKept: add_relocation leaves the addend it was given in one of    *)
(* two places.  What a client gave as data is changed where a nonzero      *)
(* implicit addend goes, to the last of those, and nowhere else.           *)
THEOREM AddendsInPlace == Spec => []AddendsKept
<1>1. IInv => AddendsKept
  <2> SUFFICES ASSUME IInv, NEW i \in 1..Len(obj.sections)
               PROVE  LET s == obj.sections[i] IN
                      /\ \A k \in DOMAIN s.relocs :
                             LET r == s.relocs[k] IN
                             IF target.implicit
                             THEN r.addend = 0 /\ (r.asked # 0 => r.offset < Len(s.data))
                             ELSE r.addend = r.asked
                      /\ \A n \in DOMAIN s.data :
                             IF StoredAt(s, n) = {} THEN s.data[n] = s.given[n]
                             ELSE \E k \in StoredAt(s, n) :
                                      /\ s.data[n] = s.relocs[k].asked
                                      /\ \A m \in StoredAt(s, n) : m <= k
    BY InvariantParts DEF AddendsKept, SectionIds
  <2> DEFINE s == obj.sections[i]
  <2>1. SectionOk(s) /\ Typed(obj)
    BY InvariantParts DEF ObjectOk, Sound, SectionsOk
  <2>2. s.relocs \in Seq(Relocs) /\ s.data \in Seq(Int)
    BY <2>1, SectionTypes
  <2> HIDE DEF s
  <2>3. DOMAIN s.relocs = 1..Len(s.relocs) /\ DOMAIN s.data = 1..Len(s.data)
    BY <2>2
  <2>4. ASSUME NEW k \in DOMAIN s.relocs PROVE RelocSafe(s, s.relocs[k])
    BY <2>1, <2>3 DEF SectionOk
  <2>5. ASSUME NEW n
        PROVE  StoredAt(s, n) = {k \in 1..Len(s.relocs) : At(s, k, n)}
    BY <2>3 DEF StoredAt, At
  <2>6. ASSUME NEW n \in DOMAIN s.data, StoredAt(s, n) = {}
        PROVE  s.data[n] = s.given[n]
    <3>1. CellOk(s, n)
      BY <2>1, <2>3 DEF SectionOk
    <3> QED BY <2>5, <2>6, <3>1 DEF CellOk, AsGiven, Replaced
  <2>7. ASSUME NEW n \in DOMAIN s.data, StoredAt(s, n) # {}
        PROVE  \E k \in StoredAt(s, n) : /\ s.data[n] = s.relocs[k].asked
                                         /\ \A m \in StoredAt(s, n) : m <= k
    <3>1. CellOk(s, n)
      BY <2>1, <2>3 DEF SectionOk
    <3>2. PICK k \in 1..Len(s.relocs) : Replaced(s, n, k)
      BY <2>5, <2>7, <3>1 DEF CellOk, AsGiven
    <3>3. k \in StoredAt(s, n) /\ s.data[n] = s.relocs[k].asked
      BY <2>5, <3>2 DEF Replaced
    <3>4. \A m \in StoredAt(s, n) : m <= k
      BY <2>5, <3>2 DEF Replaced
    <3> QED BY <3>3, <3>4
  <2> QED BY <2>4, <2>6, <2>7 DEF RelocSafe, s
<1> QED BY <1>1, Invariant, PTL

(* StubsResolve: coff_add_stub_symbol makes one stub for a symbol, and all *)
(* of it, although the relocation it is for may then be refused.  Where    *)
(* the relocation of a stub is refused itself there are no stubs, and what *)
(* is left of the calls is referred to by nothing.                         *)
THEOREM Stubs == Spec => []StubsResolve
<1>1. IInv => StubsResolve
  <2> SUFFICES ASSUME IInv PROVE StubsResolve
    OBVIOUS
  <2>1. StubsOk(obj) /\ DOMAIN obj.sections = 1..Len(obj.sections)
    BY InvariantParts DEF ObjectOk
  <2>2. ASSUME NEW y \in DOMAIN obj.stubs
        PROVE  LET v == obj.symbols[obj.stubs[y]] IN
               /\ obj.sections[v.section].info = "refptr"
               /\ obj.sections[v.section].relocs[1].offset = v.value
               /\ obj.sections[v.section].relocs[1].symbol = y
    BY <2>1 DEF StubsOk, StubOk
  <2>3. ASSUME NEW i \in SectionIds, obj.sections[i].info = "refptr", target.relocates
        PROVE  Cardinality({y \in DOMAIN obj.stubs :
                               obj.symbols[obj.stubs[y]].section = i}) = 1
    <3> DEFINE those == {y \in DOMAIN obj.stubs :
                            obj.symbols[obj.stubs[y]].section = i}
    <3>1. PICK y \in DOMAIN obj.stubs : obj.symbols[obj.stubs[y]].section = i
      BY <2>1, <2>3 DEF StubsOk, SectionIds
    <3>2. \A x \in those : obj.sections[i].relocs[1].symbol = x
      BY <2>2
    <3>3. those = {y}
      BY <3>1, <3>2
    <3> HIDE DEF those
    <3>4. Cardinality(those) = 1
      BY <3>3, FS_Singleton
    <3> QED BY <3>4 DEF those
  <2>4. ASSUME NEW i \in SectionIds, obj.sections[i].info = "refptr", ~target.relocates
        PROVE  /\ obj.sections[i].relocs = <<>> /\ DOMAIN obj.stubs = {}
               /\ \A y \in SymbolIds : obj.symbols[y].section # i
    <3>1. i \in 1..Len(obj.sections)
      BY <2>1 DEF SectionIds
    <3>2. Idle(obj, i) /\ DOMAIN obj.stubs = {}
      BY <2>1, <2>4, <3>1 DEF StubsOk
    <3>3. obj.sections[i].relocs \in Seq(Relocs)
      BY <3>1, InvariantParts, SectionTypes
    <3>4. Len(obj.sections[i].relocs) = 0 => obj.sections[i].relocs = <<>>
      <4> DEFINE l == obj.sections[i].relocs
      <4>1. l \in Seq(Relocs)
        BY <3>3
      <4> HIDE DEF l
      <4>2. Len(l) = 0 => l = <<>>
        BY <4>1
      <4> QED BY <4>2 DEF l
    <3> QED BY <3>2, <3>4, InvariantParts DEF Idle, SymbolIds
  <2> QED BY <2>2, <2>3, <2>4 DEF StubsResolve
<1> QED BY <1>1, Invariant, PTL

(* ThreadVars: macho_add_thread_var gives a variable its entry and the     *)
(* entry its initializer, and no later call undoes that.                   *)
THEOREM ThreadVariables == Spec => []ThreadVars
<1>1. IInv => ThreadVars
  <2> SUFFICES ASSUME IInv, Format = "macho", NEW y \in known,
                      obj.symbols[y].kind = "Tls", obj.symbols[y].section # 0
               PROVE  LET v == obj.symbols[y]
                          relocs == obj.sections[v.section].relocs
                      IN
                      /\ v.section = obj.std["TlsVariables"] /\ v.size = 3 * Pointer
                      /\ \E k \in DOMAIN relocs :
                             relocs[k].offset = v.value /\ relocs[k].symbol = obj.boot
                      /\ \E k \in DOMAIN relocs :
                             LET z == relocs[k].symbol IN
                             /\ relocs[k].offset = v.value + 2 * Pointer /\ z \notin known
                             /\ obj.symbols[z].kind = "Tls" /\ obj.symbols[z].section # 0
    BY DEF ThreadVars
  <2> DEFINE v == obj.symbols[y]
  <2>1. ObjectOk(obj) /\ VarsOk(obj, known) /\ Typed(obj) /\ y \in 1..Len(obj.symbols)
    BY InvariantParts
  <2>2. Entry(obj, v, 1..Len(obj.symbols) \ known)
    BY <2>1 DEF VarsOk
  <2>3. v.section \in 1..Len(obj.sections)
    <3>1. v.section \in 0..Len(obj.sections) /\ Len(obj.sections) \in Nat
      BY <2>1, TypedFields DEF ObjectOk, Sound, SymbolsOk
    <3> QED BY <3>1
  <2>4. DOMAIN obj.sections[v.section].relocs = 1..Len(obj.sections[v.section].relocs)
    <3> HIDE DEF v
    <3>1. obj.sections[v.section].relocs \in Seq(Relocs)
      BY <2>1, <2>3, SectionTypes
    <3> QED BY <3>1
  <2> QED BY <2>2, <2>4 DEF Entry
<1> QED BY <1>1, Invariant, PTL

(* FailureKeeps: add_relocation is all that can fail, and what it may have *)
(* made by then, a section and perhaps a stub in it, is behind all         *)
(* sections and symbols there were.                                        *)
THEOREM FailedCallsKeep == Spec => FailureKeeps
<1> DEFINE Kept ==
        /\ SubSeq(obj'.sections, 1, Len(obj.sections)) = obj.sections
        /\ SubSeq(obj'.symbols, 1, Len(obj.symbols)) = obj.symbols
        /\ Len(obj'.sections) <= Len(obj.sections) + 1
        /\ \A i \in DOMAIN obj'.sections \ SectionIds :
               obj'.sections[i].info = "refptr"
        /\ \A z \in DOMAIN obj'.symbols \ SymbolIds :
               \E y \in DOMAIN obj'.stubs : obj'.stubs[y] = z
<1>1. IInv /\ Next => (err' => Kept)
  <2> SUFFICES ASSUME IInv, Next, err' PROVE Kept
    OBVIOUS
  <2>1. CallAddRelocation
    BY DEF Next, CallAddSection, CallSectionId, CallSetSectionData,
           CallAppendSectionData, CallAppendSectionBss, CallAddSymbol,
           CallAddCommonSymbol, CallAddSymbolData, CallAddSymbolBss,
           CallSymbolSectionAndOffset, Returns
  <2>2. PICK y \in known, kind \in target.relocKinds : Fails(Translate(obj, kind, y))
    BY <2>1 DEF CallAddRelocation, Returns
  <2> DEFINE o == Translate(obj, kind, y)
  <2>3. ObjectOk(o) /\ Extends(obj, o) /\ Begins(obj, o) /\ Leftover(obj, o)
    BY InvariantParts, Translated
  <2>4. obj' = o
    BY <2>2 DEF Fails
  <2> HIDE DEF o
  <2>5. Typed(obj) /\ Typed(o)
    BY <2>3, InvariantParts DEF ObjectOk, Sound
  <2>6. SubSeq(o.sections, 1, Len(obj.sections)) = obj.sections
    BY <2>3, <2>5, TypedFields DEF Extends, Begins
  <2>7. SubSeq(o.symbols, 1, Len(obj.symbols)) = obj.symbols
    BY <2>3, <2>5, TypedFields DEF Extends, Begins
  <2>8. /\ o.sections \in Seq(Sections) /\ o.symbols \in Seq(Symbols)
        /\ obj.sections \in Seq(Sections) /\ obj.symbols \in Seq(Symbols)
    BY <2>5, TypedFields
  <2>9. ASSUME NEW i \in DOMAIN o.sections \ SectionIds PROVE o.sections[i].info = "refptr"
    <3>1. i \in 1..Len(o.sections) /\ i > Len(obj.sections)
      BY <2>8 DEF SectionIds
    <3> QED BY <2>3, <3>1 DEF Leftover
  <2>10. ASSUME NEW z \in DOMAIN o.symbols \ SymbolIds
         PROVE  \E x \in DOMAIN o.stubs : o.stubs[x] = z
    <3>1. z \in 1..Len(o.symbols) /\ z > Len(obj.symbols)
      BY <2>8 DEF SymbolIds
    <3> QED BY <2>3, <3>1 DEF Leftover
  <2>11. Len(o.sections) <= Len(obj.sections) + 1
    BY <2>3 DEF Leftover
  <2> QED BY <2>4, <2>6, <2>7, <2>9, <2>10, <2>11
<1>2. IInv /\ [Next]_vars => [err' => Kept]_vars
  BY <1>1
<1> QED BY <1>2, Invariant, PTL DEF Spec, FailureKeeps
===============================================================================
