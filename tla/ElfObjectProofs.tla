--------------------------- MODULE ElfObjectProofs ---------------------------
(***************************************************************************)
(* Proofs about ElfObjectWrite, for every value of its constants.  The     *)
(* client is assumed to reserve .symtab_shndx after .symtab, which it does *)
(* (see ReserveCalls); the constant is the Writer's.                       *)
(*                                                                         *)
(* The invariant relates what the client has done to the calls that remain *)
(* to be made: of each list that it works through - the symbols in the     *)
(* order of their indices, the sections in the order of theirs, the        *)
(* members of each group, the relocations of each section - what the calls *)
(* have reached so far is what its state and the Writer's hold, and the    *)
(* rest is what the calls left are for.                                    *)
(***************************************************************************)
EXTENDS ElfObjectCalls, ElfWriterProofs

-------------------------------------------------------------------------------
(* The invariant                                                           *)

(* The calls of the first parts are done.                                  *)
Past(n) == \A k \in 1..Len(todo) : PartOf(obj, todo[k]) >= n

Due(f) == Pick(Sel(f), todo) # <<>>

Future ==
    /\ todo \in Seq(Legal(obj)) /\ Sorted(obj, todo) /\ Chained(todo)
    /\ Len(Pick(Sel("num_local"), todo)) <= 1
    /\ Len(Pick(Sel("symtab_shndx_index"), todo)) <= 1
    /\ Due("symtab_shndx_index") => index["symtab_shndx"] = 0

SymbolsDone ==
    /\ Left(Sel("symbol"), Table(obj), todo, Len(symsecs))
    /\ \A k \in 1..Len(symsecs) : /\ symsecs[k] = SectionOf(Table(obj)[k])
                                  /\ symIndex[Table(obj)[k]] = k
    /\ symsecs = <<>> \/ Past(4)
    /\ Due("null_symbol") \/ num["symtab"] # 0
    /\ Due("num_local") => \A k \in 1..Len(symsecs) : Local(obj, Table(obj)[k])
    /\ ~Due("num_local") => \A k \in 1..Len(Table(obj)) :
                                Local(obj, Table(obj)[k]) <=> k < numLocal

SymbolsWritten ==
    /\ Left(Sel("write_symbol"), Table(obj), todo, Len(order))
    /\ \A k \in 1..Len(order) : order[k] = Table(obj)[k]
    /\ (Len(symbols) = 0 /\ order = <<>>) \/ Len(symbols) = 1 + Len(order)

EntriesWritten ==
    /\ \A i \in 1..Len(obj.comdats) :
        /\ Left(SelK("write_comdat_entry", i), To(Len(obj.comdats[i].members)), todo,
                Len(groups[i]))
        /\ \A k \in 1..Len(groups[i]) : groups[i][k] = secIndex[obj.comdats[i].members[k]]
    /\ \A i \in 1..Len(obj.sections) :
        /\ Left(SelK("write_relocation", i), To(Len(obj.sections[i].relocs)), todo,
                Len(rels[i]))
        /\ \A k \in 1..Len(rels[i]) : rels[i][k] = symIndex[obj.sections[i].relocs[k]]

(* Nothing is written before everything is reserved.                       *)
Quiet ==
    \/ Past(12)
    \/ /\ order = <<>> /\ heads = <<>>
       /\ \A i \in 1..Len(obj.comdats) : groups[i] = <<>>
       /\ \A i \in 1..Len(obj.sections) : rels[i] = <<>>

BlocksDone ==
    /\ Left(Sel("comdat"), To(Len(obj.comdats)), todo, Len(comdatBlock))
    /\ Left(Sel("section_index"), To(Len(obj.sections)), todo, Len(secIndex))
    /\ Left(Sel("data"), To(Len(obj.sections)), todo, Len(secBlock))
    /\ Len(secBlock) <= Len(secIndex) /\ Len(comdatBlock) <= Len(sections)
    /\ Past(10) \/ \A i \in 1..Len(obj.sections) : relBlock[i] = 0
    /\ Now("data") => I <= Len(secIndex)

BlockOf(y) ==
    CASE y[1] = "comdat" -> IF y[2] <= Len(comdatBlock) THEN comdatBlock[y[2]] ELSE 0
      [] y[1] = "data"   -> IF y[2] <= Len(secBlock) THEN secBlock[y[2]] ELSE 0
      [] y[1] = "reloc"  -> relBlock[y[2]]
      [] OTHER           -> 0

InfoOf(y) ==
    CASE y[1] = "comdat" -> symIndex[obj.comdats[y[2]].signature]
      [] y[1] = "reloc"  -> secIndex[y[2]]
      [] y[1] = "symtab" -> numLocal
      [] OTHER           -> 0

SectionsDone(x) ==
    LET d == Directory(obj, x) IN
    /\ Left(Indexed(x), d, todo, Len(sections))
    /\ \A q \in 1..Len(sections) :
           sections[q] = [kind |-> d[q][1], block |-> BlockOf(d[q])]
    /\ \A i \in 1..Len(secIndex) : secIndex[i] \in 1..Len(sections)
    /\ \A q \in 1..Len(sections), i \in 1..Len(obj.sections) :
           d[q] = <<"data", i>> <=> i <= Len(secIndex) /\ q = secIndex[i]
    /\ Now("comdat") => Len(sections) # 0 /\ d[Len(sections)] = <<"comdat", I>>

HeadsWritten(x) ==
    LET d == Directory(obj, x) IN
    /\ Left(Headed(x), d, todo, IF heads = <<>> THEN 0 ELSE Len(heads) - 1)
    /\ Len(heads) = Len(headers)
    /\ heads # <<>> => heads[1].kind = "null"
    /\ \A q \in 1..(Len(heads) - 1) :
           heads[q + 1] = [kind |-> d[q][1], block |-> BlockOf(d[q]),
                           info |-> InfoOf(d[q])]

Could(x) ==
    Due("symtab_shndx_index") \/ (x = 1 <=> index["symtab_shndx"] # 0)

ObjectTypes ==
    /\ Valid(obj) /\ failed \in BOOLEAN
    /\ comdatBlock \in Seq(Nat) /\ secIndex \in Seq(Nat) /\ secBlock \in Seq(Nat)
    /\ relBlock \in [1..Len(obj.sections) -> Nat]
    /\ symIndex \in [1..Len(obj.symbols) -> Nat]
    /\ numLocal \in Nat
    /\ groups \in [1..Len(obj.comdats) -> Seq(Nat)]
    /\ rels \in [1..Len(obj.sections) -> Seq(Nat)]
    /\ order \in Seq(1..Len(obj.symbols))
    /\ heads \in Seq([kind : SectionKinds \cup ClientKinds \cup {"null"},
                      block : Nat, info : Nat])

Going ==
    /\ Future /\ Quiet /\ SymbolsDone /\ SymbolsWritten /\ EntriesWritten /\ BlocksDone
    /\ \A x \in {0, 1} : Could(x) => SectionsDone(x) /\ HeadsWritten(x)

OInv == ObjectTypes /\ ((failed /\ todo = <<>>) \/ Going)

-------------------------------------------------------------------------------
(* The initial states                                                      *)

LEMMA SeqsType ==
    ASSUME NEW S, NEW n \in Nat, NEW s \in Seqs(S, n)
    PROVE  s \in Seq(S) /\ Len(s) \in 0..n
<1>1. PICK m \in 0..n : s \in [1..m -> S]
  BY DEF Seqs
<1>2. m \in Nat
  OBVIOUS
<1> QED BY <1>1, <1>2

LEMMA ObjectsValid ==
    ASSUME NEW g \in Nat, NEW n \in Nat, NEW m \in Nat, NEW o \in Objects(g, n, m)
    PROVE  Valid(o)
<1>1. /\ o.comdats \in [1..g -> [signature : 1..m, members : Seqs(1..n, MaxMembers)]]
      /\ o.sections \in [1..n -> [size : Sizes, align : Aligns,
                                  relocs : Seqs(1..m, MaxRelocs)]]
      /\ o.symbols \in [1..m -> [local : BOOLEAN, section : 0..n]]
  BY DEF Objects
<1>2. /\ DOMAIN o.comdats = 1..g /\ DOMAIN o.sections = 1..n /\ DOMAIN o.symbols = 1..m
      /\ Len(o.comdats) = g /\ Len(o.sections) = n /\ Len(o.symbols) = m
  BY <1>1
<1>3. /\ MaxMembers \in Nat /\ MaxRelocs \in Nat
      /\ Sizes \subseteq Counts /\ 0..MaxMembers \subseteq Counts
      /\ 0..MaxRelocs \subseteq Counts
  BY ObjectAssumption
<1>4. ASSUME NEW i \in 1..g
      PROVE  /\ o.comdats[i].signature \in 1..m
             /\ o.comdats[i].members \in Seq(1..n)
             /\ Len(o.comdats[i].members) \in Counts
  <2>1. /\ o.comdats[i].signature \in 1..m
        /\ o.comdats[i].members \in Seqs(1..n, MaxMembers)
    BY <1>1
  <2>2. o.comdats[i].members \in Seq(1..n) /\ Len(o.comdats[i].members) \in 0..MaxMembers
    BY <1>3, <2>1, SeqsType
  <2> QED BY <1>3, <2>1, <2>2
<1>5. ASSUME NEW i \in 1..n
      PROVE  /\ o.sections[i].size \in Counts /\ o.sections[i].align \in Aligns
             /\ o.sections[i].relocs \in Seq(1..m)
             /\ Len(o.sections[i].relocs) \in Counts
  <2>1. /\ o.sections[i].size \in Sizes /\ o.sections[i].align \in Aligns
        /\ o.sections[i].relocs \in Seqs(1..m, MaxRelocs)
    BY <1>1
  <2>2. o.sections[i].relocs \in Seq(1..m) /\ Len(o.sections[i].relocs) \in 0..MaxRelocs
    BY <1>3, <2>1, SeqsType
  <2> QED BY <1>3, <2>1, <2>2
<1>6. ASSUME NEW y \in 1..m
      PROVE  o.symbols[y].local \in BOOLEAN /\ o.symbols[y].section \in 0..n
  BY <1>1
<1> QED BY <1>2, <1>4, <1>5, <1>6 DEF Valid

LEMMA EmptyType == ASSUME NEW S PROVE <<>> \in Seq(S) /\ Len(<<>>) = 0
OBVIOUS

LEMMA InitTypes == ASSUME ObjectInit PROVE ObjectTypes /\ todo = Calls(obj) /\ Valid(obj)
<1>1. MaxComdats \in Nat /\ MaxSections \in Nat /\ MaxSymbols \in Nat
  BY ObjectAssumption, ConstantsAssumption
<1>2. PICK g \in 0..MaxComdats, n \in 0..MaxSections, m \in 0..(MaxSymbols - 1) :
          obj \in Objects(g, n, m)
  BY DEF ObjectInit
<1>3. g \in Nat /\ n \in Nat /\ m \in Nat
  BY <1>1
<1>4. Valid(obj)
  BY <1>2, <1>3, ObjectsValid
<1>5. /\ DOMAIN obj.comdats = 1..Len(obj.comdats)
      /\ DOMAIN obj.sections = 1..Len(obj.sections)
      /\ DOMAIN obj.symbols = 1..Len(obj.symbols)
  BY <1>4 DEF Valid
<1>6. /\ failed = FALSE /\ comdatBlock = <<>> /\ secIndex = <<>> /\ secBlock = <<>>
      /\ relBlock = [i \in DOMAIN obj.sections |-> 0]
      /\ symIndex = [y \in DOMAIN obj.symbols |-> 0]
      /\ numLocal = 0
      /\ groups = [i \in DOMAIN obj.comdats |-> <<>>]
      /\ rels = [i \in DOMAIN obj.sections |-> <<>>]
      /\ order = <<>> /\ heads = <<>>
      /\ todo = Calls(obj)
  BY DEF ObjectInit, Calls
<1>7. /\ relBlock \in [1..Len(obj.sections) -> Nat]
      /\ symIndex \in [1..Len(obj.symbols) -> Nat]
  BY <1>5, <1>6
<1>8. /\ groups \in [1..Len(obj.comdats) -> Seq(Nat)]
      /\ rels \in [1..Len(obj.sections) -> Seq(Nat)]
  BY <1>5, <1>6, EmptyType
<1>9. /\ order \in Seq(1..Len(obj.symbols))
      /\ heads \in Seq([kind : SectionKinds \cup ClientKinds \cup {"null"},
                        block : Nat, info : Nat])
      /\ comdatBlock \in Seq(Nat) /\ secIndex \in Seq(Nat) /\ secBlock \in Seq(Nat)
  BY <1>6, EmptyType
<1> QED BY <1>4, <1>6, <1>7, <1>8, <1>9 DEF ObjectTypes

LEMMA InitGoing == ASSUME ObjectInit PROVE Going
<1>1. /\ Valid(obj) /\ todo = Calls(obj)
  BY InitTypes
<1>2. /\ DOMAIN obj.comdats = 1..Len(obj.comdats)
      /\ DOMAIN obj.sections = 1..Len(obj.sections)
      /\ DOMAIN obj.symbols = 1..Len(obj.symbols)
  BY <1>1 DEF Valid
<1>3. /\ comdatBlock = <<>> /\ secIndex = <<>> /\ secBlock = <<>>
      /\ \A i \in 1..Len(obj.sections) : relBlock[i] = 0 /\ rels[i] = <<>>
      /\ \A i \in 1..Len(obj.comdats) : groups[i] = <<>>
      /\ order = <<>> /\ heads = <<>>
      /\ symsecs = <<>> /\ sections = <<>> /\ symbols = <<>> /\ headers = <<>>
      /\ index = [k \in Singletons |-> 0]
  BY <1>2 DEF ObjectInit, Init
<1>4. \A S : Len(<<>>) = 0
  OBVIOUS
<1>5. Future
  <2>1. todo \in Seq(Legal(obj)) /\ Sorted(obj, todo)
    BY <1>1, CallsType, CallsSorted
  <2>2. Chained(todo)
    BY <1>1, CallsLinked DEF Linked
  <2>3. Pick(Sel("num_local"), todo) = <<0>> /\ Pick(Sel("symtab_shndx_index"), todo) = <<0>>
    BY <1>1, SingleCall, ShndxCall
  <2>4. Len(<<0>>) <= 1
    OBVIOUS
  <2>5. "symtab_shndx" \in Singletons
    BY DEF Singletons
  <2>6. index["symtab_shndx"] = 0
    BY <1>3, <2>5
  <2> QED BY <2>1, <2>2, <2>3, <2>4, <2>6 DEF Future
<1>6. Quiet
  BY <1>3 DEF Quiet
<1>7. SymbolsDone
  <2>1. Left(Sel("symbol"), Table(obj), todo, Len(symsecs))
    BY <1>1, <1>3, SymbolsLeft
  <2>2. Pick(Sel("null_symbol"), todo) = <<0>> /\ Pick(Sel("num_local"), todo) = <<0>>
    BY <1>1, SingleCall
  <2>3. <<0>> # <<>>
    OBVIOUS
  <2>4. Due("null_symbol") /\ Due("num_local")
    BY <2>2, <2>3 DEF Due
  <2>5. Len(symsecs) = 0
    BY <1>3
  <2>6. \A k \in 1..Len(symsecs) : FALSE
    BY <2>5
  <2> QED BY <1>3, <2>1, <2>4, <2>6 DEF SymbolsDone
<1>8. SymbolsWritten
  <2>1. Left(Sel("write_symbol"), Table(obj), todo, Len(order))
    BY <1>1, <1>3, SymbolsLeft
  <2>2. \A k \in 1..Len(order) : FALSE
    BY <1>3
  <2> QED BY <1>3, <2>1, <2>2 DEF SymbolsWritten
<1>9. EntriesWritten
  <2>1. ASSUME NEW i \in 1..Len(obj.comdats)
        PROVE  /\ Left(SelK("write_comdat_entry", i), To(Len(obj.comdats[i].members)), todo,
                       Len(groups[i]))
               /\ \A k \in 1..Len(groups[i]) : FALSE
    <3>1. Len(groups[i]) = 0
      BY <1>3
    <3>2. Left(SelK("write_comdat_entry", i), To(Len(obj.comdats[i].members)), todo, 0)
      BY <1>1, GroupsLeft
    <3> QED BY <3>1, <3>2
  <2>2. ASSUME NEW i \in 1..Len(obj.sections)
        PROVE  /\ Left(SelK("write_relocation", i), To(Len(obj.sections[i].relocs)), todo,
                       Len(rels[i]))
               /\ \A k \in 1..Len(rels[i]) : FALSE
    <3>1. Len(rels[i]) = 0
      BY <1>3
    <3>2. Left(SelK("write_relocation", i), To(Len(obj.sections[i].relocs)), todo, 0)
      BY <1>1, RelocsLeft
    <3> QED BY <3>1, <3>2
  <2> QED BY <2>1, <2>2 DEF EntriesWritten
<1>10. ~Now("data") /\ ~Now("comdat")
  <2>1. todo \in Linked /\ todo \in Seq(CallSet)
    BY <1>1, CallsLinked, CallsType
  <2>2. CASE todo # <<>>
    <3>1. Len(todo) # 0 /\ Head(todo) = todo[1]
      BY <2>1, <2>2
    <3>2. todo[1].call \notin {"comdat", "data"}
      BY <2>1, <3>1 DEF Linked
    <3> QED BY <3>1, <3>2 DEF Now
  <2> QED BY <2>2 DEF Now
<1>11. BlocksDone
  <2>1. /\ Left(Sel("comdat"), To(Len(obj.comdats)), todo, Len(comdatBlock))
        /\ Left(Sel("section_index"), To(Len(obj.sections)), todo, Len(secIndex))
        /\ Left(Sel("data"), To(Len(obj.sections)), todo, Len(secBlock))
    BY <1>1, <1>3, ComdatsLeft, SectionsLeft
  <2>2. /\ Len(secBlock) <= Len(secIndex) /\ Len(comdatBlock) <= Len(sections)
    BY <1>3
  <2> QED BY <1>3, <1>10, <2>1, <2>2 DEF BlocksDone
<1>12. ASSUME NEW x \in {0, 1} PROVE SectionsDone(x)
  <2>1. Left(Indexed(x), Directory(obj, x), todo, Len(sections))
    BY <1>1, <1>3, DirectoryIndexed
  <2>2. /\ \A q \in 1..Len(sections) : FALSE
        /\ \A i \in 1..Len(secIndex) : FALSE
    BY <1>3
  <2> QED BY <1>10, <2>1, <2>2 DEF SectionsDone
<1>13. ASSUME NEW x \in {0, 1} PROVE HeadsWritten(x)
  <2>1. Left(Headed(x), Directory(obj, x), todo, IF heads = <<>> THEN 0 ELSE Len(heads) - 1)
    BY <1>1, <1>3, DirectoryHeaded
  <2>2. Len(heads) = Len(headers) /\ \A q \in 1..(Len(heads) - 1) : FALSE
    BY <1>3
  <2> QED BY <1>3, <2>1, <2>2 DEF HeadsWritten
<1> QED BY <1>5, <1>6, <1>7, <1>8, <1>9, <1>11, <1>12, <1>13 DEF Going

LEMMA InitOInv == ObjectInit => OInv
BY InitTypes, InitGoing DEF OInv

-------------------------------------------------------------------------------
(* A call is made                                                          *)

Moves(f) == ObjectTypes /\ Going /\ Runs(f) /\ UNCHANGED objectVars

LEMMA MovesFacts ==
    ASSUME NEW f, Moves(f)
    PROVE  /\ todo \in Seq(CallSet) /\ todo # <<>> /\ Valid(obj)
           /\ Head(todo) \in Legal(obj) /\ Head(todo) \in CallSet
           /\ Head(todo).call = f /\ f \in CallNames /\ I \in Nat /\ K \in Nat
           /\ todo' = Tail(todo) /\ obj' = obj /\ failed' = failed
           /\ todo' \in Seq(CallSet)
           /\ Len(todo) \in Nat \ {0} /\ Len(todo') = Len(todo) - 1
           /\ Head(todo) = todo[1]
           /\ \A k \in 1..Len(todo') : k + 1 \in 1..Len(todo) /\ todo'[k] = todo[k + 1]
<1>1. /\ todo \in Seq(Legal(obj)) /\ todo # <<>> /\ Head(todo).call = f
      /\ todo' = Tail(todo) /\ obj' = obj /\ failed' = failed /\ Valid(obj)
  BY DEF Moves, Going, Future, Runs, Now, ObjectTypes, objectVars
<1> DEFINE S == Legal(obj)
           t == todo
           u == todo'
<1>2. S \subseteq CallSet
  BY DEF Legal
<1>3. t \in Seq(S) /\ t # <<>> /\ u = Tail(t)
  BY <1>1
<1> HIDE DEF S, t, u
<1>4. /\ t \in Seq(CallSet) /\ Head(t) \in S /\ u \in Seq(CallSet)
      /\ Len(t) \in Nat \ {0} /\ Len(u) = Len(t) - 1 /\ Head(t) = t[1]
      /\ \A k \in 1..Len(u) : k + 1 \in 1..Len(t) /\ u[k] = t[k + 1]
  BY <1>2, <1>3
<1>5. Head(t) \in CallSet
  BY <1>2, <1>4
<1>6. Head(t).call \in CallNames /\ Head(t).i \in Nat /\ Head(t).k \in Nat
  BY <1>5 DEF CallSet
<1> QED BY <1>1, <1>4, <1>5, <1>6 DEF S, t, u, I, K

LEMMA HeadPast ==
    ASSUME NEW f, Moves(f) PROVE Past(PartOf(obj, Head(todo)))
<1>1. /\ Len(todo) \in Nat \ {0} /\ Head(todo) = todo[1]
  BY MovesFacts
<1>2. Sorted(obj, todo)
  BY DEF Moves, Going, Future
<1>3. ASSUME NEW k \in 1..Len(todo) PROVE PartOf(obj, todo[k]) >= PartOf(obj, todo[1])
  <2>1. 1 \in 1..Len(todo)
    BY <1>1
  <2>2. PartOf(obj, todo[1]) \in 1..24 /\ PartOf(obj, todo[k]) \in 1..24
    BY PartOfType
  <2>3. CASE k = 1
    BY <2>2, <2>3
  <2>4. CASE 1 < k
    BY <1>2, <2>1, <2>2, <2>4 DEF Sorted
  <2> QED BY <2>3, <2>4
<1> QED BY <1>1, <1>3 DEF Past

LEMMA PastLess ==
    ASSUME NEW m \in Nat, NEW n \in Nat, n <= m, Past(m) PROVE Past(n)
<1>1. ASSUME NEW k \in 1..Len(todo) PROVE PartOf(obj, todo[k]) \in Nat
  <2> DEFINE p == PartOf(obj, todo[k])
  <2>1. p \in 1..24
    BY PartOfType
  <2> HIDE DEF p
  <2>2. p \in Nat
    BY <2>1
  <2> QED BY <2>2 DEF p
<1> QED BY <1>1 DEF Past

LEMMA PastKept ==
    ASSUME NEW f, Moves(f), NEW n, Past(n) PROVE Past(n)'
<1>1. /\ obj' = obj
      /\ \A k \in 1..Len(todo') : k + 1 \in 1..Len(todo) /\ todo'[k] = todo[k + 1]
  BY MovesFacts
<1> QED BY <1>1 DEF Past

LEMMA SelHead ==
    ASSUME NEW f, Moves(f), NEW g
    PROVE  /\ Sel(g) \in Picks
           /\ f = g => Sel(g)[Head(todo)] = <<I>>
           /\ f # g => Sel(g)[Head(todo)] = <<>>
<1>1. Head(todo) \in CallSet /\ Head(todo).call = f
  BY MovesFacts
<1>2. /\ Sel(g) \in Picks
      /\ Sel(g)[Head(todo)] = IF Head(todo).call = g THEN <<Head(todo).i>> ELSE <<>>
  BY <1>1, SelType
<1> QED BY <1>1, <1>2, Zenon DEF I

LEMMA SelKHead ==
    ASSUME NEW f, Moves(f), NEW g, NEW i
    PROVE  /\ SelK(g, i) \in Picks
           /\ f = g /\ I = i => SelK(g, i)[Head(todo)] = <<K>>
           /\ f # g \/ I # i => SelK(g, i)[Head(todo)] = <<>>
<1>1. Head(todo) \in CallSet /\ Head(todo).call = f
  BY MovesFacts
<1>2. /\ SelK(g, i) \in Picks
      /\ SelK(g, i)[Head(todo)] = IF Head(todo).call = g /\ Head(todo).i = i
                                  THEN <<Head(todo).k>> ELSE <<>>
  BY <1>1, SelKType
<1> QED BY <1>1, <1>2, Zenon DEF I, K

LEMMA PickKept ==
    ASSUME NEW f, Moves(f), NEW F \in Picks, F[Head(todo)] = <<>>
    PROVE  /\ Pick(F, todo') = Pick(F, todo)
           /\ \A a, n : Left(F, a, todo, n) => Left(F, a, todo', n)
<1>1. todo \in Seq(CallSet) /\ todo # <<>> /\ todo' = Tail(todo)
  BY MovesFacts
<1>2. Pick(F, todo') = Pick(F, todo)
  <2>1. Left(F, Pick(F, todo), todo, 0)
    <3>1. Pick(F, todo) \in Seq(Items)
      BY <1>1, PickType
    <3> DEFINE p == Pick(F, todo)
    <3>2. p \in Seq(Items)
      BY <3>1
    <3> HIDE DEF p
    <3>3. Suffix(p, p, 0)
      BY <3>2 DEF Suffix
    <3> QED BY <3>3 DEF p, Left
  <2> QED BY <1>1, <2>1, LeftSkip
<1>3. ASSUME NEW a, NEW n, Left(F, a, todo, n) PROVE Left(F, a, todo', n)
  BY <1>2, <1>3 DEF Left
<1> QED BY <1>2, <1>3

LEMMA PickStep ==
    ASSUME NEW f, Moves(f), NEW F \in Picks, NEW y, F[Head(todo)] = <<y>>,
           NEW a, NEW n, Left(F, a, todo, n)
    PROVE  /\ Left(F, a, todo', n + 1)
           /\ n + 1 \in 1..Len(a) /\ a[n + 1] = y
           /\ Len(Pick(F, todo)) = 1 + Len(Pick(F, todo'))
<1>1. todo \in Seq(CallSet) /\ todo # <<>> /\ todo' = Tail(todo)
  BY MovesFacts
<1> QED BY <1>1, LeftStep

(* What was due is due, unless it was the call.                            *)
LEMMA DueKept ==
    ASSUME NEW f, Moves(f), NEW g
    PROVE  /\ f # g => (Due(g)' <=> Due(g))
           /\ f = g /\ Len(Pick(Sel(g), todo)) <= 1 => ~Due(g)'
           /\ f = g => Due(g)
           /\ Len(Pick(Sel(g), todo)) <= 1 => Len(Pick(Sel(g), todo')) <= 1
<1>1. Sel(g) \in Picks /\ todo \in Seq(CallSet) /\ todo' \in Seq(CallSet)
  BY MovesFacts, SelType
<1> DEFINE p == Pick(Sel(g), todo)
           q == Pick(Sel(g), todo')
<1>2. p \in Seq(Items) /\ q \in Seq(Items)
  BY <1>1, PickType
<1>3. CASE f # g
  <2>1. Sel(g)[Head(todo)] = <<>>
    BY <1>3, SelHead
  <2>2. q = p
    BY <1>1, <2>1, PickKept
  <2> QED BY <1>3, <2>2 DEF Due
<1>4. CASE f = g
  <2>1. Sel(g)[Head(todo)] = <<I>>
    BY <1>4, SelHead
  <2>2. Left(Sel(g), p, todo, 0)
    <3> HIDE DEF p
    <3>1. Suffix(p, p, 0)
      BY <1>2 DEF Suffix
    <3> QED BY <3>1 DEF p, Left
  <2>3. Len(p) = 1 + Len(q)
    BY <1>1, <2>1, <2>2, PickStep
  <2>4. Due(g) <=> p # <<>>
    BY DEF Due
  <2>5. Due(g)' <=> q # <<>>
    BY DEF Due
  <2> HIDE DEF p, q
  <2>6. Len(p) \in Nat /\ Len(q) \in Nat
    BY <1>2
  <2>7. p # <<>> /\ (Len(p) <= 1 => q = <<>> /\ Len(q) <= 1)
    BY <1>2, <2>3, <2>6
  <2>8. (Due(g)' <=> q # <<>>) /\ (Due(g) <=> p # <<>>)
    BY <2>4, <2>5
  <2> QED BY <1>4, <2>7, <2>8 DEF p, q
<1> QED BY <1>3, <1>4

-------------------------------------------------------------------------------
(* What a call keeps                                                       *)

LEMMA FutureKept ==
    ASSUME NEW f, Moves(f),
           f # "symtab_shndx_index" => index'["symtab_shndx"] = index["symtab_shndx"]
    PROVE  Future'
<1>1. /\ todo \in Seq(Legal(obj)) /\ Sorted(obj, todo) /\ Chained(todo)
      /\ Len(Pick(Sel("num_local"), todo)) <= 1
      /\ Len(Pick(Sel("symtab_shndx_index"), todo)) <= 1
      /\ Due("symtab_shndx_index") => index["symtab_shndx"] = 0
  BY DEF Moves, Going, Future
<1>2. /\ obj' = obj /\ todo # <<>> /\ todo' = Tail(todo)
      /\ Len(todo) \in Nat \ {0} /\ Len(todo') = Len(todo) - 1
      /\ \A k \in 1..Len(todo') : k + 1 \in 1..Len(todo) /\ todo'[k] = todo[k + 1]
  BY MovesFacts
<1>3. todo' \in Seq(Legal(obj))
  <2> DEFINE S == Legal(obj)
  <2>1. todo \in Seq(S) /\ todo # <<>> /\ todo' = Tail(todo)
    BY <1>1, <1>2
  <2> HIDE DEF S
  <2>2. todo' \in Seq(S)
    BY <2>1
  <2> QED BY <2>2 DEF S
<1>4. Sorted(obj, todo')
  <2> SUFFICES ASSUME NEW a \in 1..Len(todo'), NEW b \in 1..Len(todo'), a < b
               PROVE  PartOf(obj, todo'[a]) <= PartOf(obj, todo'[b])
    BY DEF Sorted
  <2>1. /\ a + 1 \in 1..Len(todo) /\ todo'[a] = todo[a + 1]
        /\ b + 1 \in 1..Len(todo) /\ todo'[b] = todo[b + 1]
    BY <1>2
  <2>2. a + 1 < b + 1
    OBVIOUS
  <2>3. PartOf(obj, todo[a + 1]) <= PartOf(obj, todo[b + 1])
    BY <1>1, <2>1, <2>2 DEF Sorted
  <2> QED BY <2>1, <2>3
<1>5. Chained(todo')
  <2> SUFFICES ASSUME NEW k \in 2..Len(todo')
               PROVE  /\ todo'[k].call = "comdat" =>
                             todo'[k - 1].call = "comdat_index" /\ todo'[k - 1].i = todo'[k].i
                      /\ todo'[k].call = "data" =>
                             todo'[k - 1].call = "section_index" /\ todo'[k - 1].i = todo'[k].i
    BY DEF Chained
  <2>1. k \in 1..Len(todo') /\ k - 1 \in 1..Len(todo')
    BY <1>2
  <2>2. k + 1 \in 2..Len(todo) /\ (k - 1) + 1 = k /\ (k + 1) - 1 = k
    BY <1>2
  <2>3. todo'[k] = todo[k + 1] /\ todo'[k - 1] = todo[k]
    BY <1>2, <2>1, <2>2
  <2>4. /\ todo[k + 1].call = "comdat" =>
               todo[k].call = "comdat_index" /\ todo[k].i = todo[k + 1].i
        /\ todo[k + 1].call = "data" =>
               todo[k].call = "section_index" /\ todo[k].i = todo[k + 1].i
    BY <1>1, <2>2 DEF Chained
  <2> QED BY <2>3, <2>4
<1>6. /\ Len(Pick(Sel("num_local"), todo')) <= 1
      /\ Len(Pick(Sel("symtab_shndx_index"), todo')) <= 1
  BY <1>1, DueKept
<1>7. Due("symtab_shndx_index")' => index'["symtab_shndx"] = 0
  <2>1. CASE f = "symtab_shndx_index"
    BY <1>1, <2>1, DueKept
  <2>2. CASE f # "symtab_shndx_index"
    BY <1>1, <2>2, DueKept
  <2> QED BY <2>1, <2>2
<1> QED BY <1>2, <1>3, <1>4, <1>5, <1>6, <1>7 DEF Future

(* The call of f may change what is written only if f writes.              *)
LEMMA QuietKept ==
    ASSUME NEW f, Moves(f),
           PartOf(obj, Head(todo)) >= 12 \/ UNCHANGED outputVars
    PROVE  Quiet'
<1>1. PartOf(obj, Head(todo)) \in 1..24
  BY PartOfType
<1>2. CASE PartOf(obj, Head(todo)) >= 12
  <2> DEFINE m == PartOf(obj, Head(todo))
  <2>1. m \in Nat /\ 12 \in Nat /\ 12 <= m /\ Past(m)
    BY <1>1, <1>2, HeadPast
  <2> HIDE DEF m
  <2>2. Past(12)
    BY <2>1, PastLess
  <2>3. Past(12)'
    BY <2>2, PastKept
  <2> QED BY <2>3 DEF Quiet
<1>3. CASE Past(12)
  <2>1. Past(12)'
    BY <1>3, PastKept
  <2> QED BY <2>1 DEF Quiet
<1>4. CASE ~Past(12) /\ UNCHANGED outputVars
  BY <1>4, MovesFacts DEF Quiet, Moves, Going, outputVars
<1> QED BY <1>2, <1>3, <1>4

(* Nothing is written yet when a call of the first phase is made.          *)
LEMMA StillQuiet ==
    ASSUME NEW f, Moves(f), PartOf(obj, Head(todo)) < 12
    PROVE  /\ order = <<>> /\ heads = <<>>
           /\ \A i \in 1..Len(obj.comdats) : groups[i] = <<>>
           /\ \A i \in 1..Len(obj.sections) : rels[i] = <<>>
<1>1. PartOf(obj, Head(todo)) \in 1..24
  BY PartOfType
<1>2. 1 \in 1..Len(todo) /\ Head(todo) = todo[1]
  BY MovesFacts
<1>3. ~Past(12)
  BY <1>1, <1>2 DEF Past
<1> QED BY <1>3 DEF Moves, Going, Quiet

LEMMA TableKeeps ==
    ASSUME NEW f, Moves(f), f \notin {"symbol", "null_symbol", "num_local"},
           UNCHANGED <<symsecs, symIndex, numLocal>>, num'["symtab"] = num["symtab"],
           secIndex' = secIndex \/ symsecs = <<>>
    PROVE  SymbolsDone'
<1>1. obj' = obj
  BY MovesFacts
<1>2. SymbolsDone
  BY DEF Moves, Going
<1>3. Left(Sel("symbol"), Table(obj), todo', Len(symsecs))
  <2>1. Sel("symbol") \in Picks /\ Sel("symbol")[Head(todo)] = <<>>
    BY SelHead
  <2> QED BY <1>2, <2>1, PickKept DEF SymbolsDone
<1>4. \A k \in 1..Len(symsecs) : /\ symsecs'[k] = SectionOf(Table(obj)[k])'
                                 /\ symIndex'[Table(obj)[k]] = k
  <2>1. CASE secIndex' = secIndex
    BY <1>1, <1>2, <2>1 DEF SymbolsDone, SectionOf
  <2>2. CASE symsecs = <<>>
    <3>1. \A k \in 1..Len(symsecs) : FALSE
      BY <2>2
    <3> QED BY <3>1
  <2> QED BY <2>1, <2>2
<1>5. symsecs = <<>> \/ Past(4)'
  BY <1>2, PastKept DEF SymbolsDone
<1>6. /\ Due("null_symbol")' <=> Due("null_symbol")
      /\ Due("num_local")' <=> Due("num_local")
  BY DueKept
<1>7. /\ Due("null_symbol") \/ num["symtab"] # 0
      /\ Due("num_local") => \A k \in 1..Len(symsecs) : Local(obj, Table(obj)[k])
      /\ ~Due("num_local") => \A k \in 1..Len(Table(obj)) :
                                  Local(obj, Table(obj)[k]) <=> k < numLocal
  BY <1>2 DEF SymbolsDone
<1> QED BY <1>1, <1>3, <1>4, <1>5, <1>6, <1>7 DEF SymbolsDone

LEMMA WrittenKept ==
    ASSUME NEW f, Moves(f), f \notin {"write_symbol", "write_null_symbol"},
           UNCHANGED <<order, symbols>>
    PROVE  SymbolsWritten'
<1>1. obj' = obj
  BY MovesFacts
<1>2. SymbolsWritten
  BY DEF Moves, Going
<1>3. Left(Sel("write_symbol"), Table(obj), todo', Len(order))
  <2>1. Sel("write_symbol") \in Picks /\ Sel("write_symbol")[Head(todo)] = <<>>
    BY SelHead
  <2> QED BY <1>2, <2>1, PickKept DEF SymbolsWritten
<1> QED BY <1>1, <1>2, <1>3 DEF SymbolsWritten

LEMMA EntriesKept ==
    ASSUME NEW f, Moves(f), f \notin {"write_comdat_entry", "write_relocation"},
           UNCHANGED <<groups, rels>>,
           UNCHANGED <<secIndex, symIndex>> \/ PartOf(obj, Head(todo)) < 12
    PROVE  EntriesWritten'
<1>1. obj' = obj
  BY MovesFacts
<1>2. EntriesWritten
  BY DEF Moves, Going
<1>3. ASSUME NEW i \in 1..Len(obj.comdats)
      PROVE  /\ Left(SelK("write_comdat_entry", i), To(Len(obj.comdats[i].members)), todo',
                     Len(groups[i]))
             /\ \A k \in 1..Len(groups[i]) :
                    groups[i][k] = secIndex'[obj.comdats[i].members[k]]
  <2>1. /\ SelK("write_comdat_entry", i) \in Picks
        /\ SelK("write_comdat_entry", i)[Head(todo)] = <<>>
    BY SelKHead
  <2>2. Left(SelK("write_comdat_entry", i), To(Len(obj.comdats[i].members)), todo,
             Len(groups[i]))
    BY <1>2 DEF EntriesWritten
  <2>3. Left(SelK("write_comdat_entry", i), To(Len(obj.comdats[i].members)), todo',
             Len(groups[i]))
    BY <2>1, <2>2, PickKept
  <2>4. CASE secIndex' = secIndex
    BY <1>2, <2>3, <2>4 DEF EntriesWritten
  <2>5. CASE PartOf(obj, Head(todo)) < 12
    <3>1. groups[i] = <<>>
      BY <2>5, StillQuiet
    <3>2. \A k \in 1..Len(groups[i]) : FALSE
      BY <3>1
    <3> QED BY <2>3, <3>2
  <2> QED BY <2>4, <2>5
<1>4. ASSUME NEW i \in 1..Len(obj.sections)
      PROVE  /\ Left(SelK("write_relocation", i), To(Len(obj.sections[i].relocs)), todo',
                     Len(rels[i]))
             /\ \A k \in 1..Len(rels[i]) :
                    rels[i][k] = symIndex'[obj.sections[i].relocs[k]]
  <2>1. /\ SelK("write_relocation", i) \in Picks
        /\ SelK("write_relocation", i)[Head(todo)] = <<>>
    BY SelKHead
  <2>2. Left(SelK("write_relocation", i), To(Len(obj.sections[i].relocs)), todo,
             Len(rels[i]))
    BY <1>2 DEF EntriesWritten
  <2>3. Left(SelK("write_relocation", i), To(Len(obj.sections[i].relocs)), todo',
             Len(rels[i]))
    BY <2>1, <2>2, PickKept
  <2>4. CASE symIndex' = symIndex
    BY <1>2, <2>3, <2>4 DEF EntriesWritten
  <2>5. CASE PartOf(obj, Head(todo)) < 12
    <3>1. rels[i] = <<>>
      BY <2>5, StillQuiet
    <3>2. \A k \in 1..Len(rels[i]) : FALSE
      BY <3>1
    <3> QED BY <2>3, <3>2
  <2> QED BY <2>4, <2>5
<1> QED BY <1>1, <1>3, <1>4 DEF EntriesWritten

(* A range of the client's own comes after its index.                      *)
LEMMA NowChained ==
    ASSUME NEW f, Moves(f)
    PROVE  /\ Now("data")' => f = "section_index" /\ I' = I
           /\ Now("comdat")' => f = "comdat_index" /\ I' = I
<1>1. Chained(todo)
  BY DEF Moves, Going, Future
<1>2. /\ Head(todo) = todo[1] /\ Head(todo).call = f
      /\ todo' = Tail(todo) /\ todo' \in Seq(CallSet)
      /\ Len(todo) \in Nat \ {0} /\ Len(todo') = Len(todo) - 1
      /\ \A k \in 1..Len(todo') : k + 1 \in 1..Len(todo) /\ todo'[k] = todo[k + 1]
  BY MovesFacts
<1>3. ASSUME todo' # <<>>
      PROVE  /\ Head(todo') = todo[2]
             /\ todo[2].call = "comdat" => f = "comdat_index" /\ I = todo[2].i
             /\ todo[2].call = "data" => f = "section_index" /\ I = todo[2].i
  <2>1. Len(todo') >= 1 /\ Head(todo') = todo'[1]
    BY <1>2, <1>3
  <2>2. 1 \in 1..Len(todo') /\ 1 + 1 = 2 /\ 2 - 1 = 1
    BY <1>2, <2>1
  <2>3. todo'[1] = todo[2] /\ 2 \in 2..Len(todo)
    BY <1>2, <2>2
  <2>4. /\ todo[2].call = "comdat" => todo[1].call = "comdat_index" /\ todo[1].i = todo[2].i
        /\ todo[2].call = "data" => todo[1].call = "section_index" /\ todo[1].i = todo[2].i
    BY <1>1, <2>2, <2>3 DEF Chained
  <2> QED BY <1>2, <2>1, <2>3, <2>4 DEF I
<1> QED BY <1>3 DEF Now, I

LEMMA BlocksKept ==
    ASSUME NEW f, Moves(f), f \notin {"comdat", "section_index", "data", "relocations"},
           UNCHANGED <<comdatBlock, secIndex, secBlock, relBlock>>,
           Len(sections) \in Nat, Len(sections') \in Nat, Len(sections) <= Len(sections')
    PROVE  BlocksDone'
<1>1. obj' = obj /\ ObjectTypes
  BY MovesFacts DEF Moves
<1>2. BlocksDone
  BY DEF Moves, Going
<1>3. ASSUME NEW g \in {"comdat", "section_index", "data"}
      PROVE  Sel(g) \in Picks /\ Sel(g)[Head(todo)] = <<>>
  BY <1>3, SelHead
<1>4. /\ Left(Sel("comdat"), To(Len(obj.comdats)), todo', Len(comdatBlock))
      /\ Left(Sel("section_index"), To(Len(obj.sections)), todo', Len(secIndex))
      /\ Left(Sel("data"), To(Len(obj.sections)), todo', Len(secBlock))
  <2>1. /\ Left(Sel("comdat"), To(Len(obj.comdats)), todo, Len(comdatBlock))
        /\ Left(Sel("section_index"), To(Len(obj.sections)), todo, Len(secIndex))
        /\ Left(Sel("data"), To(Len(obj.sections)), todo, Len(secBlock))
    BY <1>2 DEF BlocksDone
  <2> QED BY <1>3, <2>1, PickKept
<1>5. /\ Len(secBlock) <= Len(secIndex)
      /\ Len(comdatBlock) <= Len(sections')
  <2>1. Len(comdatBlock) \in Nat
    BY <1>1 DEF ObjectTypes
  <2>2. Len(secBlock) <= Len(secIndex) /\ Len(comdatBlock) <= Len(sections)
    BY <1>2 DEF BlocksDone
  <2> QED BY <2>1, <2>2
<1>6. Past(10)' \/ \A i \in 1..Len(obj.sections) : relBlock[i] = 0
  BY <1>2, PastKept DEF BlocksDone
<1>7. ~Now("data")'
  BY NowChained
<1> QED BY <1>1, <1>4, <1>5, <1>6, <1>7 DEF BlocksDone

IndexCalls == {"comdat_index", "section_index", "reloc_index", "symtab_index",
               "strtab_index", "shstrtab_index"}

HeaderNames == {"write_comdat_header", "write_section_header", "write_reloc_header",
                "write_symtab_header", "write_strtab_header", "write_shstrtab_header"}

LEMMA IndexedIdle ==
    ASSUME NEW x, NEW c \in CallSet, c.call \notin IndexCalls,
           c.call = "symtab_shndx_index" => x # 1
    PROVE  Indexed(x) \in Picks /\ Indexed(x)[c] = <<>>
BY IndexedType DEF Indexed, IndexCalls

LEMMA HeadedIdle ==
    ASSUME NEW x, NEW c \in CallSet, c.call \notin HeaderNames,
           c.call = "write_symtab_shndx_header" => x # 1
    PROVE  Headed(x) \in Picks /\ Headed(x)[c] = <<>>
BY HeadedType DEF Headed, HeaderNames

LEMMA BlockOfKept ==
    ASSUME UNCHANGED <<obj, comdatBlock, secBlock, relBlock>>
    PROVE  \A y : BlockOf(y)' = BlockOf(y)
BY DEF BlockOf

LEMMA InfoOfKept ==
    ASSUME UNCHANGED <<obj, symIndex, secIndex, numLocal>>
    PROVE  \A y : InfoOf(y)' = InfoOf(y)
BY DEF InfoOf

LEMMA SectionsKept ==
    ASSUME NEW f, Moves(f), f \notin IndexCalls,
           NEW x, f = "symtab_shndx_index" => x # 1, SectionsDone(x),
           UNCHANGED <<sections, comdatBlock, secBlock, relBlock, secIndex>>
    PROVE  SectionsDone(x)'
<1>1. obj' = obj /\ Head(todo) \in CallSet /\ Head(todo).call = f
  BY MovesFacts
<1>2. Left(Indexed(x), Directory(obj, x), todo', Len(sections))
  <2>1. Indexed(x) \in Picks /\ Indexed(x)[Head(todo)] = <<>>
    BY <1>1, IndexedIdle
  <2> QED BY <2>1, PickKept DEF SectionsDone
<1>3. \A y : BlockOf(y)' = BlockOf(y)
  BY <1>1, BlockOfKept
<1>4. ~Now("comdat")'
  BY NowChained DEF IndexCalls
<1> QED BY <1>1, <1>2, <1>3, <1>4 DEF SectionsDone

LEMMA HeadsKept ==
    ASSUME NEW f, Moves(f), f \notin HeaderNames,
           NEW x, f = "write_symtab_shndx_header" => x # 1, HeadsWritten(x),
           UNCHANGED <<heads, headers>>,
           UNCHANGED offsetVars \/ PartOf(obj, Head(todo)) < 12
    PROVE  HeadsWritten(x)'
<1>1. obj' = obj /\ Head(todo) \in CallSet /\ Head(todo).call = f
  BY MovesFacts
<1> DEFINE n == IF heads = <<>> THEN 0 ELSE Len(heads) - 1
<1>2. Left(Headed(x), Directory(obj, x), todo', n)
  <2>1. Headed(x) \in Picks /\ Headed(x)[Head(todo)] = <<>>
    BY <1>1, HeadedIdle
  <2>2. Left(Headed(x), Directory(obj, x), todo, n)
    BY DEF HeadsWritten
  <2> HIDE DEF n
  <2> QED BY <2>1, <2>2, PickKept
<1>3. CASE UNCHANGED offsetVars
  <2>1. \A y : BlockOf(y)' = BlockOf(y) /\ InfoOf(y)' = InfoOf(y)
    BY <1>1, <1>3, BlockOfKept, InfoOfKept DEF offsetVars
  <2> QED BY <1>1, <1>2, <2>1 DEF HeadsWritten
<1>4. CASE PartOf(obj, Head(todo)) < 12
  <2>1. heads = <<>>
    BY <1>4, StillQuiet
  <2>2. \A q \in 1..(Len(heads) - 1) : FALSE
    BY <2>1
  <2> QED BY <1>1, <1>2, <2>1, <2>2 DEF HeadsWritten
<1> QED BY <1>3, <1>4

LEMMA OInvMoves ==
    ASSUME OInv, NEW f, Runs(f), UNCHANGED objectVars PROVE Moves(f)
<1>1. todo # <<>>
  BY DEF Runs, Now
<1> QED BY <1>1 DEF OInv, Moves

LEMMA CouldKept ==
    ASSUME NEW f, Moves(f), f # "symtab_shndx_index",
           index'["symtab_shndx"] = index["symtab_shndx"],
           NEW x, Could(x)'
    PROVE  Could(x)
<1>1. Due("symtab_shndx_index")' <=> Due("symtab_shndx_index")
  BY DueKept
<1> QED BY <1>1 DEF Could

LEMMA OTypesKept ==
    ASSUME ObjectTypes, UNCHANGED <<objectVars, offsetVars, outputVars>>
    PROVE  ObjectTypes'
BY DEF ObjectTypes, objectVars, offsetVars, outputVars

(* The calls that do more than advance the writer.                         *)
Busy == {"symbol", "null_symbol", "num_local", "write_symbol", "write_null_symbol",
         "write_comdat_entry", "write_relocation", "comdat", "section_index", "data",
         "relocations", "symtab_shndx_index", "write_symtab_shndx_header",
         "write_null_header"} \cup IndexCalls \cup HeaderNames

LEMMA PlainStep ==
    ASSUME NEW f, Moves(f), f \notin Busy, Plain, Len(sections) \in Nat,
           UNCHANGED <<symsecs, symbols, sections, headers>>,
           num'["symtab"] = num["symtab"],
           index'["symtab_shndx"] = index["symtab_shndx"]
    PROVE  OInv'
<1>1. /\ UNCHANGED objectVars /\ UNCHANGED offsetVars /\ UNCHANGED outputVars
  BY DEF Plain
<1>2. /\ UNCHANGED <<symIndex, numLocal, comdatBlock, secIndex, secBlock, relBlock>>
      /\ UNCHANGED <<order, groups, rels, heads>>
  BY <1>1 DEF offsetVars, outputVars
<1>3. ObjectTypes'
  BY <1>1, OTypesKept DEF Moves
<1>4. f \notin IndexCalls /\ f \notin HeaderNames
      /\ f \notin {"symbol", "null_symbol", "num_local", "write_symbol", "write_null_symbol",
                   "write_comdat_entry", "write_relocation", "comdat", "section_index", "data",
                   "relocations", "symtab_shndx_index", "write_symtab_shndx_header"}
  BY DEF Busy
<1>5. Future' /\ Quiet'
  BY <1>1, FutureKept, QuietKept
<1>6. SymbolsDone'
  BY <1>2, <1>4, TableKeeps
<1>7. SymbolsWritten'
  BY <1>2, <1>4, WrittenKept
<1>8. EntriesWritten'
  BY <1>2, <1>4, EntriesKept
<1>9. BlocksDone'
  BY <1>2, <1>4, BlocksKept
<1>10. ASSUME NEW x \in {0, 1}, Could(x)' PROVE SectionsDone(x)' /\ HeadsWritten(x)'
  <2>1. Could(x)
    BY <1>4, <1>10, CouldKept
  <2>2. SectionsDone(x) /\ HeadsWritten(x)
    BY <2>1 DEF Moves, Going
  <2>3. SectionsDone(x)'
    BY <1>2, <1>4, <2>2, SectionsKept
  <2>4. HeadsWritten(x)'
    BY <1>1, <1>2, <1>4, <2>2, HeadsKept
  <2> QED BY <2>3, <2>4
<1>11. Going'
  BY <1>5, <1>6, <1>7, <1>8, <1>9, <1>10 DEF Going
<1> QED BY <1>3, <1>11 DEF OInv

LEMMA TypesUsed ==
    ASSUME IInv
    PROVE  /\ Len(sections) \in Nat /\ sections \in Seq(Sections) /\ symsecs \in Seq(Nat)
           /\ Len(symsecs) \in Nat /\ num \in [Singletons -> Nat]
           /\ index \in [Singletons -> Nat] /\ blocks \in Seq(Blocks) /\ Len(blocks) \in Nat
           /\ symbols \in Seq(Nat) /\ Len(symbols) \in Nat
           /\ headers \in Seq(Headers) /\ Len(headers) \in Nat
BY DEF IInv, TypeOK

(* The steps of the writer that reserve a range for the tables.            *)
LEMMA RangeKeeps ==
    ASSUME IInv, NEW k \in Singletons, k \notin ArgKinds, NEW c, ReserveRange(k, c)
    PROVE  /\ UNCHANGED <<symsecs, symbols, sections, headers>>
           /\ num' = num /\ index' = index
BY DEF ReserveRange, writeVars

LEMMA FirstPlain ==
    ASSUME OInv, IInv,
           FileHeader \/ String \/ Symtab \/ Shndx \/ Strtab \/ Shstrtab \/ SectionHeaders
    PROVE  OInv'
<1>1. Len(sections) \in Nat /\ num \in [Singletons -> Nat]
  BY TypesUsed
<1>2. CASE FileHeader
  <2>1. Moves("file_header")
    BY <1>2, OInvMoves DEF FileHeader, Plain
  <2>2. /\ Plain /\ UNCHANGED <<symsecs, symbols, sections, headers>>
        /\ num' = num /\ index' = index
    BY <1>2 DEF FileHeader, ReserveFileHeader, writeVars
  <2> QED BY <1>1, <2>1, <2>2, PlainStep DEF Busy, IndexCalls, HeaderNames
<1>3. CASE String
  <2>1. Moves("string")
    BY <1>3, OInvMoves DEF String, Plain
  <2>2. PICK d \in NameBytes : AddString("strtab", d)
    BY <1>3 DEF String
  <2>3. /\ Plain /\ UNCHANGED <<symsecs, symbols, sections, headers>> /\ index' = index
        /\ num' = [num EXCEPT !["strtab"] = @ + d]
    BY <1>3, <2>2 DEF String, AddString, writeVars
  <2>4. num'["symtab"] = num["symtab"]
    BY <1>1, <2>3
  <2> QED BY <1>1, <2>1, <2>3, <2>4, PlainStep DEF Busy, IndexCalls, HeaderNames
<1>4. /\ "symtab" \in Singletons \ ArgKinds /\ "symtab_shndx" \in Singletons \ ArgKinds
      /\ "strtab" \in Singletons \ ArgKinds /\ "shstrtab" \in Singletons \ ArgKinds
      /\ "shdrs" \in Singletons \ ArgKinds
  BY DEF Singletons, ArgKinds, StringTables
<1>5. CASE Symtab
  <2>1. Moves("symtab") /\ Plain
    BY <1>5, OInvMoves DEF Symtab, Plain
  <2>2. ReserveRange("symtab", 0)
    BY <1>5 DEF Symtab, ReserveSymtab
  <2>3. /\ UNCHANGED <<symsecs, symbols, sections, headers>> /\ num' = num /\ index' = index
    BY <1>4, <2>2, RangeKeeps
  <2> QED BY <1>1, <2>1, <2>3, PlainStep DEF Busy, IndexCalls, HeaderNames
<1>6. CASE Shndx
  <2>1. Moves("symtab_shndx") /\ Plain
    BY <1>6, OInvMoves DEF Shndx, Plain
  <2>2. UNCHANGED vars \/ ReserveRange("symtab_shndx", 0)
    BY <1>6 DEF Shndx, ReserveSymtabShndx
  <2>3. /\ UNCHANGED <<symsecs, symbols, sections, headers>> /\ num' = num /\ index' = index
    <3>1. CASE UNCHANGED vars
      BY <3>1 DEF vars, reserveVars, clientVars, writeVars
    <3> QED BY <1>4, <2>2, <3>1, RangeKeeps
  <2> QED BY <1>1, <2>1, <2>3, PlainStep DEF Busy, IndexCalls, HeaderNames
<1>7. CASE Strtab
  <2>1. Moves("strtab") /\ Plain
    BY <1>7, OInvMoves DEF Strtab, Plain
  <2>2. ReserveRange("strtab", 0)
    BY <1>7 DEF Strtab, ReserveStrtab
  <2>3. /\ UNCHANGED <<symsecs, symbols, sections, headers>> /\ num' = num /\ index' = index
    BY <1>4, <2>2, RangeKeeps
  <2> QED BY <1>1, <2>1, <2>3, PlainStep DEF Busy, IndexCalls, HeaderNames
<1>8. CASE Shstrtab
  <2>1. Moves("shstrtab") /\ Plain
    BY <1>8, OInvMoves DEF Shstrtab, Plain
  <2>2. ReserveRange("shstrtab", 0)
    BY <1>8 DEF Shstrtab, ReserveShstrtab
  <2>3. /\ UNCHANGED <<symsecs, symbols, sections, headers>> /\ num' = num /\ index' = index
    BY <1>4, <2>2, RangeKeeps
  <2> QED BY <1>1, <2>1, <2>3, PlainStep DEF Busy, IndexCalls, HeaderNames
<1>9. CASE SectionHeaders
  <2>1. Moves("section_headers") /\ Plain
    BY <1>9, OInvMoves DEF SectionHeaders, Plain
  <2>2. ReserveRange("shdrs", 0)
    BY <1>9 DEF SectionHeaders, ReserveSectionHeaders
  <2>3. /\ UNCHANGED <<symsecs, symbols, sections, headers>> /\ num' = num /\ index' = index
    BY <1>4, <2>2, RangeKeeps
  <2> QED BY <1>1, <2>1, <2>3, PlainStep DEF Busy, IndexCalls, HeaderNames
<1> QED BY <1>2, <1>3, <1>5, <1>6, <1>7, <1>8, <1>9

LEMMA SecondPlain ==
    ASSUME OInv, IInv,
           WFileHeader \/ WComdat \/ WData \/ WShndx \/ WStrtab \/ WAlignRelocation
           \/ WShstrtab
    PROVE  OInv'
<1>1. Len(sections) \in Nat
  BY TypesUsed
<1>2. ASSUME NEW f, Runs(f), Plain, f \notin Busy,
             WriteFileHeader \/ (\E k : WriteBlock(k)) \/ UNCHANGED vars
      PROVE  OInv'
  <2>1. Moves(f)
    BY <1>2, OInvMoves DEF Plain
  <2>2. /\ UNCHANGED <<symsecs, symbols, sections, headers>> /\ num' = num /\ index' = index
    BY <1>2 DEF WriteFileHeader, WriteBlock, Begin, vars, reserveVars, clientVars, writeVars
  <2> QED BY <1>1, <1>2, <2>1, <2>2, PlainStep
<1>3. \A f \in {"write_file_header", "write_comdat", "write_data", "write_symtab_shndx",
                "write_strtab", "write_align_relocation", "write_shstrtab"} : f \notin Busy
  BY DEF Busy, IndexCalls, HeaderNames
<1>4. CASE WFileHeader
  <2>1. /\ Runs("write_file_header") /\ Plain /\ WriteFileHeader
    BY <1>4 DEF WFileHeader
  <2> QED BY <1>2, <1>3, <2>1
<1>5. CASE WComdat
  <2>1. /\ Runs("write_comdat") /\ Plain /\ WriteBlock("comdat")
    BY <1>5 DEF WComdat, WriteComdatHeader
  <2> QED BY <1>2, <1>3, <2>1
<1>6. CASE WData
  <2>1. /\ Runs("write_data") /\ Plain /\ WriteBlock("data")
    BY <1>6 DEF WData, WriteData
  <2> QED BY <1>2, <1>3, <2>1
<1>7. CASE WShndx
  <2>1. /\ Runs("write_symtab_shndx") /\ Plain
        /\ WriteBlock("symtab_shndx") \/ UNCHANGED vars
    BY <1>7 DEF WShndx, WriteSymtabShndx
  <2> QED BY <1>2, <1>3, <2>1
<1>8. CASE WStrtab
  <2>1. /\ Runs("write_strtab") /\ Plain /\ WriteBlock("strtab")
    BY <1>8 DEF WStrtab, WriteStrtab
  <2> QED BY <1>2, <1>3, <2>1
<1>9. CASE WAlignRelocation
  <2>1. /\ Runs("write_align_relocation") /\ Plain /\ WriteBlock("reloc")
    BY <1>9 DEF WAlignRelocation, WriteAlignRelocation
  <2> QED BY <1>2, <1>3, <2>1
<1>10. CASE WShstrtab
  <2>1. /\ Runs("write_shstrtab") /\ Plain /\ WriteBlock("shstrtab")
    BY <1>10 DEF WShstrtab, WriteShstrtab
  <2> QED BY <1>2, <1>3, <2>1
<1> QED BY <1>4, <1>5, <1>6, <1>7, <1>8, <1>9, <1>10

-------------------------------------------------------------------------------
(* A section index is reserved                                             *)

LEMMA AppendAt ==
    ASSUME NEW S, NEW s \in Seq(S), NEW v \in S
    PROVE  /\ Append(s, v) \in Seq(S) /\ Len(s) \in Nat
           /\ Len(Append(s, v)) = Len(s) + 1 /\ Append(s, v)[Len(s) + 1] = v
           /\ \A k \in 1..Len(s) : Append(s, v)[k] = s[k]
OBVIOUS

LEMMA IndexSections ==
    ASSUME NEW f, Moves(f), NEW x, SectionsDone(x), NEW k \in SectionKinds \cup ClientKinds,
           NEW i, k # "data", f = "comdat_index" => k = "comdat" /\ i = I,
           Indexed(x)[Head(todo)] = <<<<k, i>>>>, BlockOf(<<k, i>>) = 0,
           sections \in Seq(Sections),
           sections' = Append(sections, [kind |-> k, block |-> 0]),
           UNCHANGED <<comdatBlock, secBlock, relBlock, secIndex>>
    PROVE  SectionsDone(x)'
<1> DEFINE v == [kind |-> k, block |-> 0]
           n == Len(sections)
           d == Directory(obj, x)
<1>1. obj' = obj
  BY MovesFacts
<1>2. v \in Sections
  BY DEF Sections
<1>3. sections' = Append(sections, v) /\ v.kind = k /\ v.block = 0
  OBVIOUS
<1> HIDE DEF v
<1>4. /\ n \in Nat /\ Len(sections') = n + 1 /\ sections'[n + 1] = v
      /\ \A q \in 1..n : sections'[q] = sections[q]
  BY <1>2, <1>3, AppendAt
<1>5. Left(Indexed(x), d, todo, n)
  BY DEF SectionsDone
<1>6. Indexed(x) \in Picks
  BY IndexedType
<1> HIDE DEF d
<1>7. Left(Indexed(x), d, todo', n + 1) /\ n + 1 \in 1..Len(d) /\ d[n + 1] = <<k, i>>
  <2> DEFINE y == <<k, i>>
  <2>1. Indexed(x)[Head(todo)] = <<y>>
    OBVIOUS
  <2> HIDE DEF y, n
  <2>2. Left(Indexed(x), d, todo', n + 1) /\ n + 1 \in 1..Len(d) /\ d[n + 1] = y
    BY <1>5, <1>6, <2>1, PickStep
  <2> QED BY <2>2 DEF y
<1>8. \A y : BlockOf(y)' = BlockOf(y)
  BY <1>1, BlockOfKept
<1>9. /\ \A q \in 1..n : sections[q] = [kind |-> d[q][1], block |-> BlockOf(d[q])]
      /\ \A j \in 1..Len(secIndex) : secIndex[j] \in 1..n
      /\ \A q \in 1..n, j \in 1..Len(obj.sections) :
             d[q] = <<"data", j>> <=> j <= Len(secIndex) /\ q = secIndex[j]
  BY DEF SectionsDone, d
<1>10. ASSUME NEW q \in 1..(n + 1)
       PROVE  sections'[q] = [kind |-> d[q][1], block |-> BlockOf(d[q])]
  <2>1. CASE q = n + 1
    <3>1. BlockOf(d[q]) = 0 /\ d[q][1] = k
      BY <1>7, <1>8, <2>1, SMTT(30)
    <3> QED BY <1>4, <2>1, <3>1 DEF v
  <2>2. CASE q # n + 1
    <3>1. q \in 1..n
      BY <1>4, <2>2
    <3> QED BY <1>4, <1>9, <3>1
  <2> QED BY <2>1, <2>2
<1>11. \A j \in 1..Len(secIndex) : secIndex[j] \in 1..(n + 1)
  BY <1>4, <1>9
<1>12. ASSUME NEW q \in 1..(n + 1), NEW j \in 1..Len(obj.sections)
       PROVE  d[q] = <<"data", j>> <=> j <= Len(secIndex) /\ q = secIndex[j]
  <2>1. CASE q = n + 1
    <3>1. d[q] # <<"data", j>>
      <4>1. <<k, i>>[1] # <<"data", j>>[1]
        OBVIOUS
      <4> QED BY <1>7, <2>1, <4>1
    <3>2. ~(j <= Len(secIndex) /\ q = secIndex[j])
      <4>1. Len(secIndex) \in Nat
        BY DEF Moves, ObjectTypes
      <4>2. j \in Nat /\ j >= 1
        <5>1. Len(obj.sections) \in Nat
          BY MovesFacts DEF Valid
        <5> QED BY <5>1
      <4>3. j <= Len(secIndex) => j \in 1..Len(secIndex)
        BY <4>1, <4>2
      <4> QED BY <1>4, <1>9, <2>1, <4>3
    <3> QED BY <3>1, <3>2
  <2>2. CASE q # n + 1
    <3>1. q \in 1..n
      BY <1>4, <2>2
    <3> QED BY <1>9, <3>1
  <2> QED BY <2>1, <2>2
<1>13. Now("comdat")' => n + 1 # 0 /\ d[n + 1] = <<"comdat", I'>>
  BY <1>4, <1>7, NowChained
<1> HIDE DEF n
<1>14. /\ Left(Indexed(x), d, todo', Len(sections'))
       /\ \A q \in 1..Len(sections') :
              sections'[q] = [kind |-> d[q][1], block |-> BlockOf(d[q])]
       /\ \A j \in 1..Len(secIndex) : secIndex[j] \in 1..Len(sections')
       /\ \A q \in 1..Len(sections'), j \in 1..Len(obj.sections) :
              d[q] = <<"data", j>> <=> j <= Len(secIndex) /\ q = secIndex[j]
       /\ Now("comdat")' => Len(sections') # 0 /\ d[Len(sections')] = <<"comdat", I'>>
  BY <1>4, <1>7, <1>10, <1>11, <1>12, <1>13
<1> QED BY <1>1, <1>8, <1>14 DEF SectionsDone, d

(* The call adds a section of the kind k to the directory.                 *)
Adds(k, i) ==
    \A x \in {0, 1} : Could(x)' =>
        Could(x) /\ Indexed(x)[Head(todo)] = <<<<k, i>>>> /\ BlockOf(<<k, i>>) = 0

LEMMA IndexStep ==
    ASSUME NEW f, Moves(f),
           f \in (IndexCalls \ {"section_index"}) \cup {"symtab_shndx_index"}, Plain,
           NEW k \in SectionKinds \cup ClientKinds, NEW i, Adds(k, i),
           k # "data", f = "comdat_index" => k = "comdat" /\ i = I,
           sections \in Seq(Sections),
           sections' = Append(sections, [kind |-> k, block |-> 0]),
           UNCHANGED <<symsecs, symbols, headers>>,
           num'["symtab"] = num["symtab"],
           f # "symtab_shndx_index" => index'["symtab_shndx"] = index["symtab_shndx"]
    PROVE  OInv'
<1>1. /\ UNCHANGED objectVars /\ UNCHANGED offsetVars /\ UNCHANGED outputVars
  BY DEF Plain
<1>2. /\ UNCHANGED <<symIndex, numLocal, comdatBlock, secIndex, secBlock, relBlock>>
      /\ UNCHANGED <<order, groups, rels, heads>>
  BY <1>1 DEF offsetVars, outputVars
<1>3. ObjectTypes'
  BY <1>1, OTypesKept DEF Moves
<1>4. f \notin HeaderNames
      /\ f \notin {"symbol", "null_symbol", "num_local", "write_symbol", "write_null_symbol",
                   "write_comdat_entry", "write_relocation", "comdat", "section_index", "data",
                   "relocations", "write_symtab_shndx_header"}
  BY DEF IndexCalls, HeaderNames
<1>5. Future' /\ Quiet'
  BY <1>1, FutureKept, QuietKept
<1>6. SymbolsDone'
  BY <1>2, <1>4, TableKeeps
<1>7. SymbolsWritten'
  BY <1>2, <1>4, WrittenKept
<1>8. EntriesWritten'
  BY <1>2, <1>4, EntriesKept
<1>9. BlocksDone'
  <2>1. [kind |-> k, block |-> 0] \in Sections
    BY DEF Sections
  <2>2. Len(sections) \in Nat /\ Len(sections') = Len(sections) + 1
    BY <2>1, AppendAt
  <2>3. Len(sections') \in Nat /\ Len(sections) <= Len(sections')
    BY <2>2
  <2> QED BY <1>2, <1>4, <2>2, <2>3, BlocksKept
<1>10. ASSUME NEW x \in {0, 1}, Could(x)' PROVE SectionsDone(x)' /\ HeadsWritten(x)'
  <2>1. /\ Could(x) /\ Indexed(x)[Head(todo)] = <<<<k, i>>>> /\ BlockOf(<<k, i>>) = 0
    BY <1>10 DEF Adds
  <2>2. SectionsDone(x) /\ HeadsWritten(x)
    BY <2>1 DEF Moves, Going
  <2>3. SectionsDone(x)'
    BY <1>2, <2>1, <2>2, IndexSections
  <2>4. HeadsWritten(x)'
    BY <1>1, <1>2, <1>4, <2>2, HeadsKept
  <2> QED BY <2>3, <2>4
<1>11. Going'
  BY <1>5, <1>6, <1>7, <1>8, <1>9, <1>10 DEF Going
<1> QED BY <1>3, <1>11 DEF OInv

LEMMA IndexedIs ==
    ASSUME NEW x, NEW c \in CallSet
    PROVE  /\ c.call = "comdat_index" => Indexed(x)[c] = <<<<"comdat", c.i>>>>
           /\ c.call = "section_index" => Indexed(x)[c] = <<<<"data", c.i>>>>
           /\ c.call = "reloc_index" => Indexed(x)[c] = <<<<"reloc", c.i>>>>
           /\ c.call = "symtab_index" => Indexed(x)[c] = <<<<"symtab", 0>>>>
           /\ c.call = "symtab_shndx_index" /\ x = 1 =>
                  Indexed(x)[c] = <<<<"symtab_shndx", 0>>>>
           /\ c.call = "strtab_index" => Indexed(x)[c] = <<<<"strtab", 0>>>>
           /\ c.call = "shstrtab_index" => Indexed(x)[c] = <<<<"shstrtab", 0>>>>
BY DEF Indexed

LEMMA ClientIndexKeeps ==
    ASSUME IInv, NEW k, NEW d, ReserveClientIndex(k, 0, d)
    PROVE  /\ UNCHANGED <<symsecs, symbols, headers, index>> /\ num'["symtab"] = num["symtab"]
           /\ sections' = Append(sections, [kind |-> k, block |-> 0])
<1>1. num \in [Singletons -> Nat] /\ "symtab" \in Singletons
  BY TypesUsed DEF Singletons
<1>2. /\ num' = [num EXCEPT !["shdrs"] = NewSectionIndex + 1, !["shstrtab"] = @ + d]
      /\ sections' = Append(sections, [kind |-> k, block |-> 0])
      /\ UNCHANGED <<symsecs, symbols, headers, index>>
  BY DEF ReserveClientIndex, ReserveSection, writeVars
<1> QED BY <1>1, <1>2

LEMMA OwnIndexKeeps ==
    ASSUME IInv, NEW k \in Singletons, NEW d, ReserveIndex(k, d)
    PROVE  /\ UNCHANGED <<symsecs, symbols, headers>> /\ num'["symtab"] = num["symtab"]
           /\ sections' = Append(sections, [kind |-> k, block |-> 0])
           /\ k # "symtab_shndx" => index'["symtab_shndx"] = index["symtab_shndx"]
           /\ index'[k] # 0
<1>1. /\ num \in [Singletons -> Nat] /\ index \in [Singletons -> Nat]
      /\ "symtab" \in Singletons /\ "shdrs" \in Singletons /\ "symtab_shndx" \in Singletons
  BY TypesUsed DEF Singletons
<1>2. /\ num' = [num EXCEPT !["shdrs"] = NewSectionIndex + 1, !["shstrtab"] = @ + d]
      /\ sections' = Append(sections, [kind |-> k, block |-> 0])
      /\ index' = [index EXCEPT ![k] = NewSectionIndex]
      /\ UNCHANGED <<symsecs, symbols, headers>>
  BY DEF ReserveIndex, ReserveSection, writeVars
<1>3. NewSectionIndex # 0
  BY <1>1 DEF NewSectionIndex
<1> QED BY <1>1, <1>2, <1>3

LEMMA ComdatIndexStep == ASSUME OInv, IInv, ComdatIndex PROVE OInv'
<1>1. Moves("comdat_index") /\ Plain
  BY OInvMoves DEF ComdatIndex, Plain
<1>2. PICK e \in NameBytes : ReserveClientIndex("comdat", 0, e)
  BY DEF ComdatIndex
<1>3. /\ UNCHANGED <<symsecs, symbols, headers, index>> /\ num'["symtab"] = num["symtab"]
      /\ sections' = Append(sections, [kind |-> "comdat", block |-> 0])
  BY <1>2, ClientIndexKeeps
<1>4. sections \in Seq(Sections) /\ Len(sections) \in Nat
  BY TypesUsed
<1>5. Head(todo) \in CallSet /\ Head(todo) \in Legal(obj) /\ Head(todo).call = "comdat_index"
      /\ Head(todo).i = I /\ Valid(obj) /\ I \in Nat
  BY <1>1, MovesFacts DEF I
<1>6. Adds("comdat", I)
  <2> SUFFICES ASSUME NEW x \in {0, 1}, Could(x)'
               PROVE  Could(x) /\ Indexed(x)[Head(todo)] = <<<<"comdat", I>>>>
                      /\ BlockOf(<<"comdat", I>>) = 0
    BY DEF Adds
  <2>1. Could(x)
    BY <1>1, <1>3, CouldKept
  <2>2. Indexed(x)[Head(todo)] = <<<<"comdat", I>>>> /\ Indexed(x) \in Picks
    BY <1>5, IndexedIs, IndexedType
  <2>3. SectionsDone(x)
    BY <1>1, <2>1 DEF Moves, Going
  <2> DEFINE d == Directory(obj, x)
             n == Len(sections)
             y == <<"comdat", I>>
  <2>4. Left(Indexed(x), d, todo, n)
    BY <2>3 DEF SectionsDone
  <2>5. Indexed(x)[Head(todo)] = <<y>> /\ y[1] = "comdat" /\ y[2] = I
    BY <2>2
  <2>6. Lists(obj, d)
    BY <1>5, DirectoryLists
  <2> HIDE DEF d, n, y
  <2>7. n + 1 \in 1..Len(d) /\ d[n + 1] = y
    BY <1>1, <2>2, <2>4, <2>5, PickStep
  <2>8. d[n + 1] = <<"comdat", n + 1>>
    <3>1. \A q \in 1..Len(d) : d[q][1] = "comdat" => d[q] = <<"comdat", q>>
      <4> SUFFICES ASSUME NEW q \in 1..Len(d), d[q][1] = "comdat"
                   PROVE  d[q] = <<"comdat", q>>
        OBVIOUS
      <4>1. \/ d[q] = <<"comdat", q>>
            \/ d[q] \in {"data", "reloc"} \X (1..Len(obj.sections))
            \/ d[q] \in {"symtab", "symtab_shndx", "strtab", "shstrtab"} \X {0}
        BY <2>6 DEF Lists
      <4> QED BY <4>1
    <3> QED BY <2>5, <2>7, <3>1
  <2>9. I = n + 1
    BY <2>5, <2>7, <2>8
  <2>10. Len(comdatBlock) <= n /\ Len(comdatBlock) \in Nat
    BY <1>1 DEF Moves, Going, BlocksDone, ObjectTypes, n
  <2>11. ~(I <= Len(comdatBlock))
    BY <1>4, <2>9, <2>10 DEF n
  <2> QED BY <2>1, <2>2, <2>11 DEF BlockOf
<1> QED BY <1>1, <1>3, <1>4, <1>5, <1>6, IndexStep DEF IndexCalls, ClientKinds, Loose

LEMMA RelocIndexStep == ASSUME OInv, IInv, RelocIndex PROVE OInv'
<1>1. Moves("reloc_index") /\ Plain
  BY OInvMoves DEF RelocIndex, Plain
<1>2. PICK e \in NameBytes : ReserveClientIndex("reloc", 0, e)
  BY DEF RelocIndex
<1>3. /\ UNCHANGED <<symsecs, symbols, headers, index>> /\ num'["symtab"] = num["symtab"]
      /\ sections' = Append(sections, [kind |-> "reloc", block |-> 0])
  BY <1>2, ClientIndexKeeps
<1>4. sections \in Seq(Sections)
  BY TypesUsed
<1>5. Head(todo) \in CallSet /\ Head(todo) \in Legal(obj) /\ Head(todo).call = "reloc_index"
      /\ Head(todo).i = I /\ Valid(obj) /\ 1 \in 1..Len(todo) /\ Head(todo) = todo[1]
  BY <1>1, MovesFacts DEF I
<1>6. Adds("reloc", I)
  <2> SUFFICES ASSUME NEW x \in {0, 1}, Could(x)'
               PROVE  Could(x) /\ Indexed(x)[Head(todo)] = <<<<"reloc", I>>>>
                      /\ BlockOf(<<"reloc", I>>) = 0
    BY DEF Adds
  <2>1. Could(x)
    BY <1>1, <1>3, CouldKept
  <2>2. Indexed(x)[Head(todo)] = <<<<"reloc", I>>>>
    BY <1>5, IndexedIs
  <2>3. PartOf(obj, Head(todo)) = 3
    BY <1>5 DEF PartOf
  <2>4. ~Past(10)
    BY <1>5, <2>3 DEF Past
  <2>5. I \in 1..Len(obj.sections)
    BY <1>5 DEF Legal
  <2>6. relBlock[I] = 0
    BY <1>1, <2>4, <2>5 DEF Moves, Going, BlocksDone
  <2> QED BY <2>1, <2>2, <2>6 DEF BlockOf
<1> QED BY <1>1, <1>3, <1>4, <1>5, <1>6, IndexStep DEF IndexCalls, ClientKinds, Loose

(* The tables' own sections.                                               *)
LEMMA TableIndexStep ==
    ASSUME OInv, IInv, SymtabIndex \/ StrtabIndex \/ ShstrtabIndex PROVE OInv'
<1>1. /\ sections \in Seq(Sections)
      /\ {"symtab", "strtab", "shstrtab"} \subseteq Singletons
      /\ {"symtab", "strtab", "shstrtab"} \subseteq SectionKinds \cup ClientKinds
  BY TypesUsed DEF SectionKinds, Singletons, StringTables
<1>2. ASSUME NEW f \in IndexCalls, NEW k \in {"symtab", "strtab", "shstrtab"}, NEW e,
             Runs(f), Plain, ReserveIndex(k, e), f \notin {"section_index", "comdat_index"},
             \A x : \A c \in CallSet : c.call = f => Indexed(x)[c] = <<<<k, 0>>>>
      PROVE  OInv'
  <2>1. Moves(f)
    BY <1>2, OInvMoves DEF Plain
  <2>2. /\ UNCHANGED <<symsecs, symbols, headers>> /\ num'["symtab"] = num["symtab"]
        /\ sections' = Append(sections, [kind |-> k, block |-> 0])
        /\ index'["symtab_shndx"] = index["symtab_shndx"]
    BY <1>1, <1>2, OwnIndexKeeps
  <2>3. f # "symtab_shndx_index"
    BY DEF IndexCalls
  <2>4. Adds(k, 0)
    <3> SUFFICES ASSUME NEW x \in {0, 1}, Could(x)'
                 PROVE  Could(x) /\ Indexed(x)[Head(todo)] = <<<<k, 0>>>>
                        /\ BlockOf(<<k, 0>>) = 0
      BY DEF Adds
    <3>1. Could(x)
      BY <2>1, <2>2, <2>3, CouldKept
    <3>2. Indexed(x)[Head(todo)] = <<<<k, 0>>>>
      BY <1>2, <2>1, MovesFacts
    <3>3. BlockOf(<<k, 0>>) = 0
      BY DEF BlockOf
    <3> QED BY <3>1, <3>2, <3>3
  <2>5. k \in SectionKinds \cup ClientKinds /\ k # "data"
    BY <1>1
  <2> QED BY <1>1, <1>2, <2>1, <2>2, <2>3, <2>4, <2>5, IndexStep
<1>3. CASE SymtabIndex
  <2>1. PICK e \in NameBytes : ReserveIndex("symtab", e)
    BY <1>3 DEF SymtabIndex, ReserveSymtabIndex
  <2>2. Runs("symtab_index") /\ Plain
    BY <1>3 DEF SymtabIndex
  <2>3. \A x : \A c \in CallSet : c.call = "symtab_index" => Indexed(x)[c] = <<<<"symtab", 0>>>>
    BY IndexedIs
  <2> QED BY <1>2, <2>1, <2>2, <2>3 DEF IndexCalls
<1>4. CASE StrtabIndex
  <2>1. PICK e \in NameBytes : ReserveIndex("strtab", e)
    BY <1>4 DEF StrtabIndex, ReserveStrtabIndex
  <2>2. Runs("strtab_index") /\ Plain
    BY <1>4 DEF StrtabIndex
  <2>3. \A x : \A c \in CallSet : c.call = "strtab_index" => Indexed(x)[c] = <<<<"strtab", 0>>>>
    BY IndexedIs
  <2> QED BY <1>2, <2>1, <2>2, <2>3 DEF IndexCalls
<1>5. CASE ShstrtabIndex
  <2>1. PICK e \in NameBytes : ReserveIndex("shstrtab", e)
    BY <1>5 DEF ShstrtabIndex, ReserveShstrtabIndex
  <2>2. Runs("shstrtab_index") /\ Plain
    BY <1>5 DEF ShstrtabIndex
  <2>3. \A x : \A c \in CallSet :
            c.call = "shstrtab_index" => Indexed(x)[c] = <<<<"shstrtab", 0>>>>
    BY IndexedIs
  <2> QED BY <1>2, <2>1, <2>2, <2>3 DEF IndexCalls
<1> QED BY <1>3, <1>4, <1>5

(* The extended section indices get a section if they are needed.          *)
LEMMA ShndxIndexStep == ASSUME OInv, IInv, ShndxIndex PROVE OInv'
<1> DEFINE f == "symtab_shndx_index"
<1>1. Moves(f) /\ Plain
  BY OInvMoves DEF ShndxIndex, Plain
<1>2. /\ Len(Pick(Sel(f), todo)) <= 1
      /\ Due(f) => index["symtab_shndx"] = 0
  BY <1>1 DEF Moves, Going, Future
<1>3. Due(f) /\ ~Due(f)'
  BY <1>1, <1>2, DueKept
<1>4. \A x : Could(x)
  BY <1>3 DEF Could
<1>5. Head(todo) \in CallSet /\ Head(todo).call = f
  BY <1>1, MovesFacts
<1>6. sections \in Seq(Sections) /\ Len(sections) \in Nat /\ "symtab_shndx" \in Singletons
      /\ "symtab_shndx" \in SectionKinds \cup ClientKinds
  BY TypesUsed DEF SectionKinds, Singletons
<1>7. CASE "symtab_shndx" \in need
  <2>1. PICK e \in NameBytes : ReserveIndex("symtab_shndx", e)
    BY <1>7 DEF ShndxIndex, ReserveSymtabShndxIndex
  <2>2. /\ UNCHANGED <<symsecs, symbols, headers>> /\ num'["symtab"] = num["symtab"]
        /\ sections' = Append(sections, [kind |-> "symtab_shndx", block |-> 0])
        /\ index'["symtab_shndx"] # 0
    BY <1>6, <2>1, OwnIndexKeeps
  <2>3. Adds("symtab_shndx", 0)
    <3> SUFFICES ASSUME NEW x \in {0, 1}, Could(x)'
                 PROVE  Could(x) /\ Indexed(x)[Head(todo)] = <<<<"symtab_shndx", 0>>>>
                        /\ BlockOf(<<"symtab_shndx", 0>>) = 0
      BY DEF Adds
    <3>1. x = 1
      BY <1>3, <2>2 DEF Could
    <3>2. BlockOf(<<"symtab_shndx", 0>>) = 0
      BY DEF BlockOf
    <3> QED BY <1>4, <1>5, <3>1, <3>2, IndexedIs
  <2> QED BY <1>1, <1>6, <2>2, <2>3, IndexStep
<1>8. CASE "symtab_shndx" \notin need
  <2>1. UNCHANGED vars
    BY <1>8 DEF ShndxIndex
  <2>2. UNCHANGED <<symsecs, symbols, sections, headers, num, index>>
    BY <2>1 DEF vars, reserveVars, clientVars, writeVars
  <2>3. /\ UNCHANGED objectVars /\ UNCHANGED offsetVars /\ UNCHANGED outputVars
    BY <1>1 DEF Plain
  <2>4. /\ UNCHANGED <<symIndex, numLocal, comdatBlock, secIndex, secBlock, relBlock>>
        /\ UNCHANGED <<order, groups, rels, heads>>
    BY <2>3 DEF offsetVars, outputVars
  <2>5. ObjectTypes'
    BY <1>1, <2>3, OTypesKept DEF Moves
  <2>6. Future' /\ Quiet'
    BY <1>1, <2>3, FutureKept, QuietKept
  <2>7. SymbolsDone'
    BY <1>1, <2>2, <2>4, TableKeeps
  <2>8. SymbolsWritten' /\ EntriesWritten'
    BY <1>1, <2>2, <2>4, WrittenKept, EntriesKept
  <2>9. BlocksDone'
    BY <1>1, <1>6, <2>2, <2>4, BlocksKept
  <2>10. ASSUME NEW x \in {0, 1}, Could(x)' PROVE SectionsDone(x)' /\ HeadsWritten(x)'
    <3>1. x # 1
      BY <1>2, <1>3, <2>2, <2>10 DEF Could
    <3>2. SectionsDone(x) /\ HeadsWritten(x)
      BY <1>1, <1>4 DEF Moves, Going
    <3>3. f \notin IndexCalls /\ f \notin HeaderNames
      BY DEF IndexCalls, HeaderNames
    <3>4. SectionsDone(x)'
      BY <1>1, <2>2, <2>4, <3>1, <3>2, <3>3, SectionsKept
    <3>5. HeadsWritten(x)'
      BY <1>1, <2>2, <2>3, <2>4, <3>2, <3>3, HeadsKept
    <3> QED BY <3>4, <3>5
  <2>11. Going'
    BY <2>6, <2>7, <2>8, <2>9, <2>10 DEF Going
  <2> QED BY <2>5, <2>11 DEF OInv
<1> QED BY <1>7, <1>8

-------------------------------------------------------------------------------
(* A range is reserved for a section of the client's                       *)

(* The calls of earlier parts are done.                                    *)
LEMMA SelDone ==
    ASSUME ObjectTypes, Going, NEW g, NEW p \in Nat, Past(p),
           \A c \in Legal(obj) : c.call = g => PartOf(obj, c) < p,
           NEW a, NEW n, Left(Sel(g), a, todo, n)
    PROVE  n = Len(a)
<1>1. todo \in Seq(Legal(obj))
  BY DEF Going, Future
<1> DEFINE S == Legal(obj)
           t == todo
<1>2. S \subseteq CallSet
  BY DEF Legal
<1>3. t \in Seq(S)
  BY <1>1
<1>4. \A k \in 1..Len(t) : PartOf(obj, t[k]) >= p
  BY DEF Past
<1>5. \A c \in S : PartOf(obj, c) \in 1..24
  BY PartOfType
<1>6. \A c \in S : c.call = g => PartOf(obj, c) < p
  OBVIOUS
<1> HIDE DEF S, t
<1>7. t \in Seq(CallSet)
  BY <1>2, <1>3
<1>8. ASSUME NEW k \in 1..Len(t) PROVE Sel(g)[t[k]] = <<>>
  <2>1. t[k] \in S /\ t[k] \in CallSet
    BY <1>2, <1>3
  <2>2. t[k].call # g
    <3> DEFINE m == PartOf(obj, t[k])
    <3>1. m >= p /\ m \in 1..24
      BY <1>4, <1>5, <2>1
    <3>2. t[k].call = g => m < p
      BY <1>6, <2>1
    <3> HIDE DEF m
    <3>3. ~(m < p)
      BY <3>1
    <3> QED BY <3>2, <3>3
  <2>3. Sel(g)[t[k]] = IF t[k].call = g THEN <<t[k].i>> ELSE <<>>
    BY <2>1, SelType
  <2> QED BY <2>2, <2>3, Zenon
<1>9. Sel(g) \in Picks
  BY SelType
<1>10. Left(Sel(g), a, t, n)
  BY DEF t
<1> QED BY <1>7, <1>8, <1>9, <1>10, LeftEnd

(* The next call of its kind is for the next element.                      *)
LEMMA SelNext ==
    ASSUME NEW f, Moves(f), NEW m \in Nat, NEW n, Left(Sel(f), To(m), todo, n)
    PROVE  /\ Left(Sel(f), To(m), todo', n + 1) /\ n \in Nat
           /\ n + 1 \in 1..m /\ I = n + 1
<1>1. Sel(f) \in Picks /\ Sel(f)[Head(todo)] = <<I>>
  BY SelHead
<1> DEFINE a == To(m)
<1>2. Len(a) = m /\ \A k \in 1..m : a[k] = k
  BY ToType
<1>3. Left(Sel(f), a, todo, n)
  OBVIOUS
<1> HIDE DEF a
<1>4. Left(Sel(f), a, todo', n + 1) /\ n + 1 \in 1..Len(a) /\ a[n + 1] = I
  BY <1>1, <1>3, PickStep
<1>5. n \in Nat
  BY <1>3 DEF Left, Suffix
<1> QED BY <1>2, <1>4, <1>5 DEF a

LEMMA RangeSections ==
    ASSUME NEW f, Moves(f), f \notin IndexCalls, f # "symtab_shndx_index",
           NEW x, SectionsDone(x), NEW d, d = Directory(obj, x),
           Len(sections') = Len(sections), secIndex' = secIndex,
           \A q \in 1..Len(sections) :
               sections'[q] = [kind |-> d[q][1], block |-> BlockOf(d[q])']
    PROVE  SectionsDone(x)'
<1>1. obj' = obj /\ Head(todo) \in CallSet /\ Head(todo).call = f
  BY MovesFacts
<1>2. Left(Indexed(x), d, todo', Len(sections))
  <2>1. Indexed(x) \in Picks /\ Indexed(x)[Head(todo)] = <<>>
    BY <1>1, IndexedIdle
  <2> QED BY <2>1, PickKept DEF SectionsDone
<1>3. ~Now("comdat")'
  BY NowChained DEF IndexCalls
<1>4. /\ \A i \in 1..Len(secIndex) : secIndex[i] \in 1..Len(sections)
      /\ \A q \in 1..Len(sections), i \in 1..Len(obj.sections) :
             d[q] = <<"data", i>> <=> i <= Len(secIndex) /\ q = secIndex[i]
  BY DEF SectionsDone
<1>5. d = Directory(obj', x)
  BY <1>1
<1> QED BY <1>1, <1>2, <1>3, <1>4, <1>5 DEF SectionsDone

(* The directory is right after the call, if it was before.                *)
Sectioned == \A x \in {0, 1} : Could(x) /\ SectionsDone(x) => SectionsDone(x)'

LEMMA RangeStep ==
    ASSUME NEW f \in {"comdat", "data", "relocations"}, Moves(f),
           UNCHANGED outputVars, UNCHANGED <<secIndex, symIndex, numLocal>>,
           UNCHANGED <<symsecs, symbols, headers, num, index>>,
           ObjectTypes', BlocksDone', Sectioned
    PROVE  OInv'
<1>1. UNCHANGED <<order, groups, rels, heads>>
  BY DEF outputVars
<1>2. PartOf(obj, Head(todo)) < 12
  <2>1. Head(todo).call = f
    BY MovesFacts
  <2> QED BY <2>1 DEF PartOf
<1>3. f # "symtab_shndx_index" /\ f \notin HeaderNames
  BY DEF HeaderNames
<1>4. Future' /\ Quiet'
  BY FutureKept, QuietKept
<1>5. SymbolsDone'
  BY TableKeeps
<1>6. SymbolsWritten'
  BY <1>1, WrittenKept
<1>7. EntriesWritten'
  BY <1>1, EntriesKept
<1>8. ASSUME NEW x \in {0, 1}, Could(x)' PROVE SectionsDone(x)' /\ HeadsWritten(x)'
  <2>1. Could(x)
    BY <1>3, <1>8, CouldKept
  <2>2. SectionsDone(x) /\ HeadsWritten(x)
    BY <2>1 DEF Moves, Going
  <2>3. SectionsDone(x)'
    BY <2>1, <2>2 DEF Sectioned
  <2>4. HeadsWritten(x)'
    BY <1>1, <1>2, <1>3, <2>2, HeadsKept
  <2> QED BY <2>3, <2>4
<1>9. Going'
  BY <1>4, <1>5, <1>6, <1>7, <1>8 DEF Going
<1> QED BY <1>9 DEF OInv

LEMMA LooseKeeps ==
    ASSUME IInv, NEW k, NEW c, NEW a, NEW j, ReserveLoose(k, c, a, j)
    PROVE  /\ UNCHANGED <<symsecs, symbols, headers, num, index>>
           /\ Len(sections') = Len(sections)
           /\ j # 0 => /\ j \in 1..Len(sections) /\ sections[j] = [kind |-> k, block |-> 0]
                       /\ \A q \in 1..Len(sections) : sections'[q] =
                              IF q = j THEN [kind |-> k, block |-> Len(blocks) + 1]
                              ELSE sections[q]
<1>1. sections \in Seq(Sections) /\ DOMAIN sections = 1..Len(sections) /\ Len(sections) \in Nat
  BY TypesUsed
<1>2. /\ UNCHANGED <<symsecs, symbols, headers, num, index>>
      /\ j # 0 => j \in DOMAIN sections /\ sections[j] = [kind |-> k, block |-> 0]
      /\ sections' = IF j = 0 THEN sections
                     ELSE [sections EXCEPT ![j] = [kind |-> k, block |-> Len(blocks) + 1]]
  BY DEF ReserveLoose, writeVars
<1>3. Len(sections') = Len(sections)
  BY <1>2, LooseKindsKept
<1> QED BY <1>1, <1>2, <1>3

(* The elements of the directory are told apart by their kind and number.  *)
LEMMA ListsPairs ==
    ASSUME NEW o, NEW d, Lists(o, d), NEW q \in 1..Len(d)
    PROVE  d[q] = <<d[q][1], d[q][2]>>
<1>1. \/ d[q] = <<"comdat", q>>
      \/ d[q] \in {"data", "reloc"} \X (1..Len(o.sections))
      \/ d[q] \in {"symtab", "symtab_shndx", "strtab", "shstrtab"} \X {0}
  BY DEF Lists
<1> QED BY <1>1

LEMMA ListsComdat ==
    ASSUME NEW o, NEW d, Lists(o, d), NEW q \in 1..Len(d), d[q][1] = "comdat"
    PROVE  d[q] = <<"comdat", q>> /\ q <= Len(o.comdats)
<1>1. \/ q <= Len(o.comdats) /\ d[q] = <<"comdat", q>>
      \/ d[q] \in {"data", "reloc"} \X (1..Len(o.sections))
      \/ d[q] \in {"symtab", "symtab_shndx", "strtab", "shstrtab"} \X {0}
  BY DEF Lists
<1> QED BY <1>1

LEMMA ListsSection ==
    ASSUME NEW o, NEW d, Lists(o, d), NEW q \in 1..Len(d), d[q][1] \in {"data", "reloc"}
    PROVE  d[q][2] \in 1..Len(o.sections)
<1>1. \/ d[q] = <<"comdat", q>>
      \/ d[q] \in {"data", "reloc"} \X (1..Len(o.sections))
      \/ d[q] \in {"symtab", "symtab_shndx", "strtab", "shstrtab"} \X {0}
  BY DEF Lists
<1> QED BY <1>1

LEMMA SectionsListed ==
    ASSUME ObjectTypes, NEW x \in {0, 1}, SectionsDone(x)
    PROVE  /\ Lists(obj, Directory(obj, x)) /\ Len(sections) <= Len(Directory(obj, x))
           /\ Len(sections) \in Nat
<1>1. Lists(obj, Directory(obj, x))
  BY DirectoryLists DEF ObjectTypes
<1>2. Left(Indexed(x), Directory(obj, x), todo, Len(sections))
  BY DEF SectionsDone
<1> DEFINE p == Pick(Indexed(x), todo)
<1>3. Suffix(p, Directory(obj, x), Len(sections))
  BY <1>2 DEF Left
<1> QED
  <2>1. Len(sections) \in Nat /\ Len(Directory(obj, x)) = Len(sections) + Len(p)
    BY <1>3 DEF Suffix
  <2>2. Len(p) \in Nat
    OBVIOUS
  <2> QED BY <1>1, <2>1, <2>2

LEMMA ComdatStep == ASSUME OInv, IInv, Comdat PROVE OInv'
<1> DEFINE m == Len(comdatBlock)
           b == Len(blocks) + 1
<1>1. Moves("comdat")
  <2>1. Runs("comdat") /\ UNCHANGED objectVars
    BY DEF Comdat
  <2> QED BY <2>1, OInvMoves
<1>2. /\ comdatBlock' = Append(comdatBlock, b)
      /\ UNCHANGED <<secIndex, secBlock, relBlock, symIndex, numLocal>>
      /\ UNCHANGED outputVars /\ UNCHANGED objectVars
  BY DEF Comdat
<1>3. /\ UNCHANGED <<symsecs, symbols, headers, num, index>>
      /\ Len(sections') = Len(sections)
      /\ Len(sections) # 0 =>
            \A q \in 1..Len(sections) : sections'[q] =
                IF q = Len(sections) THEN [kind |-> "comdat", block |-> b]
                ELSE sections[q]
  <2>1. PICK j, c : j = Len(sections) /\ c = Len(obj.comdats[I].members)
    OBVIOUS
  <2>2. ReserveLoose("comdat", c, 1, j)
    BY <2>1 DEF Comdat, ReserveComdat
  <2>3. /\ UNCHANGED <<symsecs, symbols, headers, num, index>>
        /\ Len(sections') = Len(sections)
    BY <2>2, LooseKeeps
  <2>4. j # 0 => /\ j \in 1..Len(sections) /\ sections[j] = [kind |-> "comdat", block |-> 0]
                 /\ \A q \in 1..Len(sections) : sections'[q] =
                       IF q = j THEN [kind |-> "comdat", block |-> Len(blocks) + 1]
                       ELSE sections[q]
    BY <2>2, LooseKeeps
  <2> QED BY <2>1, <2>3, <2>4
<1>4. Len(sections) \in Nat /\ b \in Nat
  BY TypesUsed
<1>5. /\ ObjectTypes /\ BlocksDone /\ Valid(obj) /\ obj' = obj
      /\ comdatBlock \in Seq(Nat) /\ Len(obj.comdats) \in Nat
      /\ Now("comdat")
  BY <1>1, MovesFacts DEF Moves, Going, ObjectTypes, Runs, Valid
<1> HIDE DEF b
<1>6. /\ comdatBlock' \in Seq(Nat) /\ m \in Nat /\ Len(comdatBlock') = m + 1
      /\ comdatBlock'[m + 1] = b /\ \A k \in 1..m : comdatBlock'[k] = comdatBlock[k]
  BY <1>2, <1>4, <1>5, AppendAt
<1>7. /\ Left(Sel("comdat"), To(Len(obj.comdats)), todo', m + 1) /\ I = m + 1
  BY <1>1, <1>5, SelNext DEF BlocksDone
<1>8. ASSUME NEW x \in {0, 1}, SectionsDone(x)
      PROVE  SectionsDone(x)' /\ Len(sections) = m + 1
  <2>1. PICK d : d = Directory(obj, x)
    OBVIOUS
  <2>2. Lists(obj, d) /\ Len(sections) <= Len(d) /\ Len(d) \in Nat
    <3>1. Lists(obj, d) /\ Len(sections) <= Len(d)
      BY <1>5, <1>8, <2>1, SectionsListed
    <3>2. d \in Seq(Items)
      BY <3>1 DEF Lists
    <3> QED BY <3>1, <3>2
  <2>3. Len(sections) # 0 /\ d[Len(sections)] = <<"comdat", I>>
    BY <1>5, <1>8, <2>1 DEF SectionsDone
  <2>4. Len(sections) \in 1..Len(d) /\ Len(sections) \in 1..Len(sections)
    BY <1>4, <2>2, <2>3
  <2>5. Len(sections) = m + 1
    <3>1. d[Len(sections)][1] = "comdat"
      BY <2>3
    <3>2. d[Len(sections)] = <<"comdat", Len(sections)>>
      BY <2>2, <2>4, <3>1, ListsComdat
    <3>3. Len(sections) = I
      BY <2>3, <3>2
    <3> QED BY <1>7, <3>3
  <2>6. ASSUME NEW q \in 1..Len(sections)
        PROVE  sections'[q] = [kind |-> d[q][1], block |-> BlockOf(d[q])']
    <3> DEFINE y == d[q]
    <3>1. q \in 1..Len(d) /\ q \in Nat
      BY <1>4, <2>2
    <3>2. sections[q] = [kind |-> y[1], block |-> BlockOf(y)]
      BY <1>8, <2>1 DEF SectionsDone
    <3>3. y[1] = "comdat" => y[2] = q
      BY <2>2, <3>1, ListsComdat
    <3> HIDE DEF y
    <3>4. CASE q = Len(sections)
      <4>1. y[1] = "comdat" /\ y[2] = m + 1
        BY <1>7, <2>3, <3>4 DEF y
      <4>2. m + 1 <= Len(comdatBlock')
        BY <1>6
      <4>3. BlockOf(y)' = b
        BY <1>6, <4>1, <4>2 DEF BlockOf
      <4> QED BY <1>3, <2>3, <3>4, <4>1, <4>3 DEF y
    <3>5. CASE q # Len(sections)
      <4>1. q <= m + 1 /\ q # m + 1
        BY <1>4, <1>6, <2>5, <3>5
      <4>2. BlockOf(y)' = BlockOf(y)
        <5>1. CASE y[1] = "comdat"
          <6>1. y[2] = q /\ (q <= m + 1 <=> q <= m)
            BY <1>6, <3>1, <3>3, <4>1, <5>1
          <6>2. q <= m
            BY <1>6, <3>1, <4>1
          <6>3. q \in 1..m /\ q <= Len(comdatBlock')
            BY <1>6, <3>1, <6>2
          <6>4. comdatBlock'[q] = comdatBlock[q]
            BY <1>6, <6>3
          <6> QED BY <1>2, <5>1, <6>1, <6>2, <6>3, <6>4 DEF BlockOf
        <5>2. CASE y[1] # "comdat"
          BY <1>2, <5>2 DEF BlockOf
        <5> QED BY <5>1, <5>2
      <4>3. sections'[q] = sections[q]
        BY <1>3, <2>3, <3>5
      <4> QED BY <3>2, <4>2, <4>3 DEF y
    <3> QED BY <3>4, <3>5
  <2>7. SectionsDone(x)'
    BY <1>1, <1>2, <1>3, <1>8, <2>1, <2>6, RangeSections DEF IndexCalls
  <2> QED BY <2>5, <2>7
<1>9. Sectioned
  BY <1>8 DEF Sectioned
<1>10. Len(sections) = m + 1
  <2>1. PICK x \in {0, 1} : Could(x)
    BY DEF Could
  <2>2. SectionsDone(x)
    BY <1>1, <2>1 DEF Moves, Going
  <2> QED BY <1>8, <2>2
<1>11. BlocksDone'
  <2>1. /\ Left(Sel("section_index"), To(Len(obj.sections)), todo', Len(secIndex))
        /\ Left(Sel("data"), To(Len(obj.sections)), todo', Len(secBlock))
    <3>1. ASSUME NEW g \in {"section_index", "data"}
          PROVE  Sel(g) \in Picks /\ Sel(g)[Head(todo)] = <<>>
      BY <1>1, SelHead
    <3> QED BY <1>1, <1>5, <3>1, PickKept DEF BlocksDone
  <2>2. Past(10)' \/ \A i \in 1..Len(obj.sections) : relBlock[i] = 0
    BY <1>1, <1>5, PastKept DEF BlocksDone
  <2>3. ~Now("data")'
    BY <1>1, NowChained
  <2>4. Len(comdatBlock') <= Len(sections')
    BY <1>3, <1>4, <1>6, <1>10
  <2> QED BY <1>2, <1>5, <1>6, <1>7, <2>1, <2>2, <2>3, <2>4 DEF BlocksDone
<1>12. ObjectTypes'
  BY <1>2, <1>5, <1>6 DEF ObjectTypes, objectVars, outputVars
<1> QED BY <1>1, <1>2, <1>3, <1>9, <1>11, <1>12, RangeStep

(* In one of the two directories, the index of each section is that of its *)
(* data.                                                                   *)
LEMMA SomeDirectory ==
    ASSUME ObjectTypes, Going
    PROVE  \E x \in {0, 1} : SectionsDone(x) /\ HeadsWritten(x)
<1>1. PICK x \in {0, 1} : Could(x)
  BY DEF Could
<1> QED BY <1>1 DEF Going

LEMMA DataStep == ASSUME OInv, IInv, Data PROVE OInv'
<1> DEFINE m == Len(secBlock)
           b == Len(blocks) + 1
<1>1. Moves("data")
  <2>1. Runs("data") /\ UNCHANGED objectVars
    BY DEF Data
  <2> QED BY <2>1, OInvMoves
<1>2. /\ secBlock' = Append(secBlock, b)
      /\ UNCHANGED <<comdatBlock, secIndex, relBlock, symIndex, numLocal>>
      /\ UNCHANGED outputVars /\ UNCHANGED objectVars
  BY DEF Data
<1>3. /\ ObjectTypes /\ BlocksDone /\ Valid(obj) /\ obj' = obj
      /\ secBlock \in Seq(Nat) /\ secIndex \in Seq(Nat) /\ Len(obj.sections) \in Nat
      /\ Now("data")
  BY <1>1, MovesFacts DEF Moves, Going, ObjectTypes, Runs, Valid
<1>4. I <= Len(secIndex) /\ Len(secIndex) \in Nat
  BY <1>3 DEF BlocksDone
<1>5. Len(sections) \in Nat /\ b \in Nat
  BY TypesUsed
<1>6. PICK j : j = secIndex[I]
  OBVIOUS
<1>7. /\ UNCHANGED <<symsecs, symbols, headers, num, index>>
      /\ Len(sections') = Len(sections)
      /\ j # 0 => /\ j \in 1..Len(sections)
                  /\ \A q \in 1..Len(sections) : sections'[q] =
                         IF q = j THEN [kind |-> "data", block |-> b] ELSE sections[q]
  <2>1. PICK c, a : c = obj.sections[I].size /\ a = obj.sections[I].align
    OBVIOUS
  <2>2. ReserveLoose("data", c, a, j)
    BY <1>6, <2>1 DEF Data, ReserveData
  <2>3. /\ UNCHANGED <<symsecs, symbols, headers, num, index>>
        /\ Len(sections') = Len(sections)
    BY <2>2, LooseKeeps
  <2>4. j # 0 => /\ j \in 1..Len(sections) /\ sections[j] = [kind |-> "data", block |-> 0]
                 /\ \A q \in 1..Len(sections) : sections'[q] =
                       IF q = j THEN [kind |-> "data", block |-> Len(blocks) + 1]
                       ELSE sections[q]
    BY <2>2, LooseKeeps
  <2> QED BY <2>3, <2>4
<1> HIDE DEF b
<1>8. /\ secBlock' \in Seq(Nat) /\ m \in Nat /\ Len(secBlock') = m + 1
      /\ secBlock'[m + 1] = b /\ \A k \in 1..m : secBlock'[k] = secBlock[k]
  BY <1>2, <1>3, <1>5, AppendAt
<1>9. /\ Left(Sel("data"), To(Len(obj.sections)), todo', m + 1) /\ I = m + 1
      /\ I \in 1..Len(obj.sections)
  <2>1. Left(Sel("data"), To(Len(obj.sections)), todo, m)
    BY <1>3 DEF BlocksDone
  <2> HIDE DEF m
  <2>2. /\ Left(Sel("data"), To(Len(obj.sections)), todo', m + 1) /\ I = m + 1
        /\ m + 1 \in 1..Len(obj.sections)
    BY <1>1, <1>3, <2>1, SelNext
  <2> QED BY <2>2
<1>10. ASSUME NEW x \in {0, 1}, SectionsDone(x) PROVE SectionsDone(x)'
  <2>1. PICK d : d = Directory(obj, x)
    OBVIOUS
  <2>2. Lists(obj, d) /\ Len(sections) <= Len(d) /\ Len(d) \in Nat
    <3>1. Lists(obj, d) /\ Len(sections) <= Len(d)
      BY <1>3, <1>10, <2>1, SectionsListed
    <3>2. d \in Seq(Items)
      BY <3>1 DEF Lists
    <3> QED BY <3>1, <3>2
  <2>3. /\ \A i \in 1..Len(secIndex) : secIndex[i] \in 1..Len(sections)
        /\ \A q \in 1..Len(sections) : d[q] = <<"data", I>> <=> q = j
        /\ \A q \in 1..Len(sections) : sections[q] = [kind |-> d[q][1], block |-> BlockOf(d[q])]
    BY <1>4, <1>6, <1>9, <1>10, <2>1 DEF SectionsDone
  <2>4. j \in 1..Len(sections) /\ j # 0
    BY <1>4, <1>5, <1>6, <1>8, <1>9, <2>3
  <2>5. ASSUME NEW q \in 1..Len(sections)
        PROVE  sections'[q] = [kind |-> d[q][1], block |-> BlockOf(d[q])']
    <3> DEFINE y == d[q]
    <3>1. q \in 1..Len(d) /\ q \in Nat
      BY <1>5, <2>2
    <3>2. y = <<y[1], y[2]>>
      BY <2>2, <3>1, ListsPairs
    <3>3. y[1] = "data" => y[2] \in 1..Len(obj.sections)
      BY <2>2, <3>1, ListsSection
    <3>4. sections[q] = [kind |-> y[1], block |-> BlockOf(y)]
      BY <2>3
    <3>5. y = <<"data", I>> <=> q = j
      BY <2>3
    <3> HIDE DEF y
    <3>6. CASE q = j
      <4>1. y[1] = "data" /\ y[2] = m + 1
        BY <1>9, <3>5, <3>6
      <4>2. m + 1 <= Len(secBlock')
        BY <1>8
      <4>3. BlockOf(y)' = b
        BY <1>8, <4>1, <4>2 DEF BlockOf
      <4> QED BY <1>7, <2>4, <3>6, <4>1, <4>3 DEF y
    <3>7. CASE q # j
      <4>1. BlockOf(y)' = BlockOf(y)
        <5>1. CASE y[1] = "data"
          <6>1. PICK i \in 1..Len(obj.sections) : i = y[2]
            BY <3>3, <5>1
          <6>2. i # m + 1 /\ i \in Nat /\ i >= 1
            BY <1>3, <1>9, <3>2, <3>5, <3>7, <5>1, <6>1
          <6>3. CASE i <= m
            <7>1. i \in 1..m /\ i <= Len(secBlock')
              BY <1>8, <6>2, <6>3
            <7>2. secBlock'[i] = secBlock[i]
              BY <1>8, <7>1
            <7> QED BY <5>1, <6>1, <6>3, <7>1, <7>2 DEF BlockOf
          <6>4. CASE ~(i <= m)
            <7>1. ~(i <= Len(secBlock'))
              BY <1>8, <6>2, <6>4
            <7> QED BY <5>1, <6>1, <6>4, <7>1 DEF BlockOf
          <6> QED BY <6>3, <6>4
        <5>2. CASE y[1] # "data"
          BY <1>2, <5>2 DEF BlockOf
        <5> QED BY <5>1, <5>2
      <4>2. sections'[q] = sections[q]
        BY <1>7, <2>4, <3>7
      <4> QED BY <3>4, <4>1, <4>2 DEF y
    <3> QED BY <3>6, <3>7
  <2> QED BY <1>1, <1>2, <1>7, <1>10, <2>1, <2>5, RangeSections DEF IndexCalls
<1>11. Sectioned
  BY <1>10 DEF Sectioned
<1>12. BlocksDone'
  <2>1. /\ Left(Sel("section_index"), To(Len(obj.sections)), todo', Len(secIndex))
        /\ Left(Sel("comdat"), To(Len(obj.comdats)), todo', Len(comdatBlock))
    <3>1. ASSUME NEW g \in {"section_index", "comdat"}
          PROVE  Sel(g) \in Picks /\ Sel(g)[Head(todo)] = <<>>
      BY <1>1, SelHead
    <3> QED BY <1>1, <1>3, <3>1, PickKept DEF BlocksDone
  <2>2. Past(10)' \/ \A i \in 1..Len(obj.sections) : relBlock[i] = 0
    BY <1>1, <1>3, PastKept DEF BlocksDone
  <2>3. ~Now("data")'
    BY <1>1, NowChained
  <2>4. Len(secBlock') <= Len(secIndex) /\ Len(comdatBlock) <= Len(sections')
    BY <1>3, <1>4, <1>7, <1>8, <1>9 DEF BlocksDone
  <2> QED BY <1>2, <1>3, <1>8, <1>9, <2>1, <2>2, <2>3, <2>4 DEF BlocksDone
<1>13. ObjectTypes'
  BY <1>2, <1>3, <1>8 DEF ObjectTypes, objectVars, outputVars
<1> QED BY <1>1, <1>2, <1>7, <1>11, <1>12, <1>13, RangeStep

(* Once the relocations are reserved, every section has its index.         *)
LEMMA AllIndexed ==
    ASSUME ObjectTypes, Going, Past(4) PROVE Len(secIndex) = Len(obj.sections)
<1>1. Left(Sel("section_index"), To(Len(obj.sections)), todo, Len(secIndex))
  BY DEF Going, BlocksDone
<1>2. \A c \in Legal(obj) : c.call = "section_index" => PartOf(obj, c) < 4
  BY DEF PartOf
<1> DEFINE p == 4
           a == To(Len(obj.sections))
           n == Len(secIndex)
<1>3. p \in Nat /\ Past(p) /\ Left(Sel("section_index"), a, todo, n)
      /\ \A c \in Legal(obj) : c.call = "section_index" => PartOf(obj, c) < p
  BY <1>1, <1>2
<1>4. Len(a) = Len(obj.sections)
  BY ToType DEF ObjectTypes, Valid
<1> HIDE DEF p, a, n
<1>5. n = Len(a)
  BY <1>3, SelDone
<1> QED BY <1>4, <1>5 DEF n

LEMMA RelocationsStep == ASSUME OInv, IInv, Relocations PROVE OInv'
<1> DEFINE b == Len(blocks) + 1
<1>1. Moves("relocations")
  <2>1. Runs("relocations") /\ UNCHANGED objectVars
    BY DEF Relocations
  <2> QED BY <2>1, OInvMoves
<1>2. /\ relBlock' = [relBlock EXCEPT ![I] = b]
      /\ UNCHANGED <<comdatBlock, secIndex, secBlock, symIndex, numLocal>>
      /\ UNCHANGED outputVars /\ UNCHANGED objectVars
  BY DEF Relocations
<1>3. /\ ObjectTypes /\ Going /\ BlocksDone /\ Valid(obj) /\ obj' = obj
      /\ relBlock \in [1..Len(obj.sections) -> Nat] /\ secIndex \in Seq(Nat)
      /\ Len(obj.sections) \in Nat
  BY <1>1, MovesFacts DEF Moves, Going, ObjectTypes, Valid
<1>4. Len(sections) \in Nat /\ b \in Nat
  BY TypesUsed
<1>5. I \in 1..Len(obj.sections) /\ PartOf(obj, Head(todo)) = 10
  <2>1. Head(todo) \in Legal(obj) /\ Head(todo).call = "relocations"
    BY <1>1, MovesFacts
  <2> QED BY <2>1 DEF Legal, PartOf, I
<1>6. Past(10) /\ Past(4)
  <2> DEFINE p == 10
             q == 4
  <2>1. Past(p) /\ p \in Nat /\ q \in Nat /\ q <= p
    BY <1>1, <1>5, HeadPast
  <2> HIDE DEF p, q
  <2>2. Past(q)
    BY <2>1, PastLess
  <2> QED BY <2>1, <2>2 DEF p, q
<1>7. Len(secIndex) = Len(obj.sections)
  BY <1>3, <1>6, AllIndexed
<1>8. PICK j : j = secIndex[I] + 1
  OBVIOUS
<1>9. /\ UNCHANGED <<symsecs, symbols, headers, num, index>>
      /\ Len(sections') = Len(sections)
      /\ j # 0 => /\ j \in 1..Len(sections) /\ sections[j] = [kind |-> "reloc", block |-> 0]
                  /\ \A q \in 1..Len(sections) : sections'[q] =
                         IF q = j THEN [kind |-> "reloc", block |-> b] ELSE sections[q]
  <2>1. PICK c : c = Len(obj.sections[I].relocs)
    OBVIOUS
  <2>2. ReserveLoose("reloc", c, 1, j)
    BY <1>8, <2>1 DEF Relocations, ReserveRelocations
  <2>3. /\ UNCHANGED <<symsecs, symbols, headers, num, index>>
        /\ Len(sections') = Len(sections)
    BY <2>2, LooseKeeps
  <2>4. j # 0 => /\ j \in 1..Len(sections) /\ sections[j] = [kind |-> "reloc", block |-> 0]
                 /\ \A q \in 1..Len(sections) : sections'[q] =
                       IF q = j THEN [kind |-> "reloc", block |-> Len(blocks) + 1]
                       ELSE sections[q]
    BY <2>2, LooseKeeps
  <2> QED BY <2>3, <2>4
<1> HIDE DEF b
<1>10. j - 1 = secIndex[I] /\ j # 0 /\ j \in Nat
  <2>1. secIndex[I] \in Nat
    BY <1>3, <1>5, <1>7
  <2> QED BY <1>8, <2>1
<1>11. /\ relBlock' \in [1..Len(obj.sections) -> Nat] /\ relBlock'[I] = b
       /\ \A i \in 1..Len(obj.sections) : i # I => relBlock'[i] = relBlock[i]
  BY <1>2, <1>3, <1>4, <1>5
<1>12. ASSUME NEW x \in {0, 1}, SectionsDone(x) PROVE SectionsDone(x)'
  <2>1. PICK d : d = Directory(obj, x)
    OBVIOUS
  <2>2. Lists(obj, d) /\ Len(sections) <= Len(d) /\ Len(d) \in Nat
    <3>1. Lists(obj, d) /\ Len(sections) <= Len(d)
      BY <1>3, <1>12, <2>1, SectionsListed
    <3>2. d \in Seq(Items)
      BY <3>1 DEF Lists
    <3> QED BY <3>1, <3>2
  <2>3. /\ \A q \in 1..Len(sections) : d[q] = <<"data", I>> <=> q = j - 1
        /\ \A q \in 1..Len(sections) : sections[q] = [kind |-> d[q][1], block |-> BlockOf(d[q])]
    BY <1>5, <1>7, <1>10, <1>12, <2>1 DEF SectionsDone
  <2>4. \A q \in 1..Len(sections) : d[q][1] = "reloc" =>
            q > 1 /\ d[q - 1] = <<"data", d[q][2]>> /\ q - 1 \in 1..Len(sections)
            /\ d[q] = <<"reloc", d[q][2]>> /\ d[q][2] \in 1..Len(obj.sections)
    <3> SUFFICES ASSUME NEW q \in 1..Len(sections), d[q][1] = "reloc"
                 PROVE  q > 1 /\ d[q - 1] = <<"data", d[q][2]>> /\ q - 1 \in 1..Len(sections)
                        /\ d[q] = <<"reloc", d[q][2]>> /\ d[q][2] \in 1..Len(obj.sections)
      OBVIOUS
    <3>1. q \in 1..Len(d) /\ q \in Nat
      BY <1>4, <2>2
    <3>2. d[q] = <<d[q][1], d[q][2]>> /\ d[q][2] \in 1..Len(obj.sections)
      BY <2>2, <3>1, ListsPairs, ListsSection
    <3>3. q > 1 /\ d[q - 1] = <<"data", d[q][2]>>
      BY <2>2, <3>1 DEF Lists
    <3>4. d[q] = <<"reloc", d[q][2]>>
      BY <3>2
    <3> QED BY <1>4, <3>1, <3>2, <3>3, <3>4
  <2>5. j \in 1..Len(sections) /\ d[j][1] = "reloc" /\ d[j][2] = I
    <3>1. j \in 1..Len(sections) /\ sections[j] = [kind |-> "reloc", block |-> 0]
      BY <1>9, <1>10
    <3>2. sections[j] = [kind |-> d[j][1], block |-> BlockOf(d[j])]
      BY <2>3, <3>1
    <3>3. d[j][1] = "reloc"
      <4>1. sections[j].kind = "reloc"
        BY <3>1
      <4>2. sections[j].kind = d[j][1]
        BY <3>2
      <4> QED BY <4>1, <4>2
    <3>4. d[j - 1] = <<"data", d[j][2]>> /\ j - 1 \in 1..Len(sections)
      BY <2>4, <3>1, <3>3
    <3>5. d[j - 1] = <<"data", I>>
      BY <2>3, <3>4
    <3>6. d[j][2] = I
      BY <3>4, <3>5
    <3> QED BY <3>1, <3>3, <3>6
  <2>6. ASSUME NEW q \in 1..Len(sections)
        PROVE  sections'[q] = [kind |-> d[q][1], block |-> BlockOf(d[q])']
    <3> DEFINE y == d[q]
    <3>1. sections[q] = [kind |-> y[1], block |-> BlockOf(y)]
      BY <2>3
    <3>2. y[1] = "reloc" /\ y[2] = I <=> q = j
      <4>1. ASSUME y[1] = "reloc", y[2] = I PROVE q = j
        <5>1. d[q - 1] = <<"data", I>> /\ q - 1 \in 1..Len(sections)
          BY <2>4, <4>1
        <5>2. q - 1 = j - 1
          BY <2>3, <5>1
        <5> QED BY <1>4, <1>10, <5>2
      <4> QED BY <2>5, <4>1
    <3>3. y[1] = "reloc" => y[2] \in 1..Len(obj.sections)
      BY <2>4
    <3> HIDE DEF y
    <3>4. CASE q = j
      <4>1. BlockOf(y)' = b
        BY <1>11, <3>2, <3>4 DEF BlockOf
      <4> QED BY <1>9, <1>10, <3>2, <3>4, <4>1 DEF y
    <3>5. CASE q # j
      <4>1. BlockOf(y)' = BlockOf(y)
        <5>1. CASE y[1] = "reloc"
          <6>1. y[2] \in 1..Len(obj.sections) /\ y[2] # I
            BY <3>2, <3>3, <3>5, <5>1
          <6>2. relBlock'[y[2]] = relBlock[y[2]]
            BY <1>11, <6>1
          <6> QED BY <5>1, <6>2 DEF BlockOf
        <5>2. CASE y[1] # "reloc"
          BY <1>2, <5>2 DEF BlockOf
        <5> QED BY <5>1, <5>2
      <4>2. sections'[q] = sections[q]
        BY <1>9, <1>10, <3>5
      <4> QED BY <3>1, <4>1, <4>2 DEF y
    <3> QED BY <3>4, <3>5
  <2> QED BY <1>1, <1>2, <1>9, <1>12, <2>1, <2>6, RangeSections DEF IndexCalls
<1>13. Sectioned
  BY <1>12 DEF Sectioned
<1>14. BlocksDone'
  <2>1. /\ Left(Sel("section_index"), To(Len(obj.sections)), todo', Len(secIndex))
        /\ Left(Sel("comdat"), To(Len(obj.comdats)), todo', Len(comdatBlock))
        /\ Left(Sel("data"), To(Len(obj.sections)), todo', Len(secBlock))
    <3>1. ASSUME NEW g \in {"section_index", "comdat", "data"}
          PROVE  Sel(g) \in Picks /\ Sel(g)[Head(todo)] = <<>>
      BY <1>1, SelHead
    <3> QED BY <1>1, <1>3, <3>1, PickKept DEF BlocksDone
  <2>2. Past(10)'
    BY <1>1, <1>6, PastKept
  <2>3. ~Now("data")'
    BY <1>1, NowChained
  <2>4. Len(secBlock) <= Len(secIndex) /\ Len(comdatBlock) <= Len(sections')
    BY <1>3, <1>9 DEF BlocksDone
  <2> QED BY <1>2, <1>3, <2>1, <2>2, <2>3, <2>4 DEF BlocksDone
<1>15. ObjectTypes'
  BY <1>2, <1>3, <1>11 DEF ObjectTypes, objectVars, outputVars
<1> QED BY <1>1, <1>2, <1>9, <1>13, <1>14, <1>15, RangeStep

(* The index of the section that is reserved is its place in the list.     *)
LEMMA NewIndex == ASSUME IInv PROVE NewSectionIndex = Len(sections) + 1
<1>1. num \in [Singletons -> Nat] /\ "shdrs" \in Singletons
  BY TypesUsed DEF Singletons
<1>2. Len(sections) = IF num["shdrs"] = 0 THEN 0 ELSE num["shdrs"] - 1
  BY DEF IInv, Reserved, Counted
<1> QED BY <1>1, <1>2 DEF NewSectionIndex

LEMMA SectionIndexStep == ASSUME OInv, IInv, SectionIndex PROVE OInv'
<1> DEFINE f == "section_index"
           l == Len(secIndex)
           n == Len(sections)
           v == [kind |-> "data", block |-> 0]
<1>1. Moves(f)
  <2>1. Runs(f) /\ UNCHANGED objectVars
    BY DEF SectionIndex
  <2> QED BY <2>1, OInvMoves
<1>2. /\ secIndex' = Append(secIndex, n + 1)
      /\ UNCHANGED <<comdatBlock, secBlock, relBlock, symIndex, numLocal>>
      /\ UNCHANGED outputVars /\ UNCHANGED objectVars
  BY NewIndex DEF SectionIndex
<1>3. /\ UNCHANGED <<order, groups, rels, heads>>
  BY <1>2 DEF outputVars
<1>4. PICK e \in NameBytes : ReserveClientIndex("data", 0, e)
  BY DEF SectionIndex
<1>5. /\ UNCHANGED <<symsecs, symbols, headers, index>> /\ num'["symtab"] = num["symtab"]
      /\ sections' = Append(sections, v)
  BY <1>4, ClientIndexKeeps
<1>6. sections \in Seq(Sections) /\ v \in Sections
  BY TypesUsed DEF Sections, ClientKinds, Loose
<1>7. /\ ObjectTypes /\ Going /\ BlocksDone /\ SymbolsDone /\ Valid(obj) /\ obj' = obj
      /\ secIndex \in Seq(Nat) /\ secBlock \in Seq(Nat) /\ Len(obj.sections) \in Nat
      /\ comdatBlock \in Seq(Nat)
      /\ Head(todo) \in CallSet /\ Head(todo).call = f /\ Head(todo).i = I
      /\ 1 \in 1..Len(todo) /\ Head(todo) = todo[1]
  <2>1. /\ Valid(obj) /\ obj' = obj /\ Head(todo) \in CallSet /\ Head(todo).call = f
        /\ Len(todo) \in Nat \ {0} /\ Head(todo) = todo[1]
    BY <1>1, MovesFacts
  <2>2. 1 \in 1..Len(todo)
    BY <2>1
  <2>3. /\ ObjectTypes /\ Going /\ BlocksDone /\ SymbolsDone
        /\ secIndex \in Seq(Nat) /\ secBlock \in Seq(Nat) /\ comdatBlock \in Seq(Nat)
    BY <1>1 DEF Moves, Going, ObjectTypes
  <2>4. Len(obj.sections) \in Nat
    BY <2>1 DEF Valid
  <2> QED BY <2>1, <2>2, <2>3, <2>4 DEF I
<1>8. v.kind = "data" /\ v.block = 0
  OBVIOUS
<1> HIDE DEF v
<1>9. /\ n \in Nat /\ Len(sections') = n + 1 /\ sections'[n + 1] = v
      /\ \A q \in 1..n : sections'[q] = sections[q]
  BY <1>5, <1>6, AppendAt
<1>10. /\ l \in Nat /\ Len(secIndex') = l + 1 /\ secIndex'[l + 1] = n + 1
       /\ \A i \in 1..l : secIndex'[i] = secIndex[i]
       /\ secIndex' \in Seq(Nat)
  <2> DEFINE w == n + 1
  <2>1. w \in Nat /\ secIndex' = Append(secIndex, w)
    BY <1>2, <1>9
  <2> HIDE DEF w
  <2>2. /\ l \in Nat /\ Len(secIndex') = l + 1 /\ secIndex'[l + 1] = w
        /\ \A i \in 1..l : secIndex'[i] = secIndex[i]
        /\ secIndex' \in Seq(Nat)
    BY <1>7, <2>1, AppendAt
  <2> QED BY <2>2 DEF w
<1>11. /\ Left(Sel(f), To(Len(obj.sections)), todo', l + 1) /\ I = l + 1
       /\ l + 1 \in 1..Len(obj.sections)
  <2>1. Left(Sel(f), To(Len(obj.sections)), todo, l)
    BY <1>7 DEF BlocksDone
  <2> HIDE DEF l, f
  <2> QED BY <1>1, <1>7, <2>1, SelNext
<1>12. PartOf(obj, Head(todo)) = 3
  BY <1>7 DEF PartOf
<1>13. symsecs = <<>>
  BY <1>7, <1>12 DEF SymbolsDone, Past
<1>14. Future' /\ Quiet'
  BY <1>1, <1>2, <1>5, FutureKept, QuietKept
<1>15. SymbolsDone'
  BY <1>1, <1>2, <1>5, <1>13, TableKeeps
<1>16. SymbolsWritten'
  BY <1>1, <1>3, <1>5, WrittenKept
<1>17. EntriesWritten'
  BY <1>1, <1>3, <1>12, EntriesKept
<1>18. Len(secBlock) <= l /\ Len(secBlock) \in Nat /\ Len(comdatBlock) <= n
       /\ Len(comdatBlock) \in Nat
  BY <1>7 DEF BlocksDone
<1>19. BlocksDone'
  <2>1. /\ Left(Sel("data"), To(Len(obj.sections)), todo', Len(secBlock))
        /\ Left(Sel("comdat"), To(Len(obj.comdats)), todo', Len(comdatBlock))
    <3>1. ASSUME NEW g \in {"data", "comdat"}
          PROVE  Sel(g) \in Picks /\ Sel(g)[Head(todo)] = <<>>
      BY <1>1, SelHead
    <3> QED BY <1>1, <1>7, <3>1, PickKept DEF BlocksDone
  <2>2. Past(10)' \/ \A i \in 1..Len(obj.sections) : relBlock[i] = 0
    BY <1>1, <1>7, PastKept DEF BlocksDone
  <2>3. Now("data")' => I' <= l + 1
    <3>1. Now("data")' => I' = I
      BY <1>1, NowChained
    <3>2. I <= l + 1
      BY <1>10, <1>11
    <3> QED BY <3>1, <3>2
  <2>4. Len(secBlock) <= Len(secIndex') /\ Len(comdatBlock) <= Len(sections')
    BY <1>9, <1>10, <1>18
  <2>5. Left(Sel("section_index"), To(Len(obj.sections)), todo', Len(secIndex'))
    BY <1>10, <1>11
  <2> QED BY <1>2, <1>7, <1>10, <2>1, <2>2, <2>3, <2>4, <2>5 DEF BlocksDone
<1>20. ASSUME NEW x \in {0, 1}, SectionsDone(x) PROVE SectionsDone(x)'
  <2>1. PICK d : d = Directory(obj, x)
    OBVIOUS
  <2>2. Left(Indexed(x), d, todo', n + 1) /\ d[n + 1] = <<"data", I>>
    <3> DEFINE y == <<"data", I>>
    <3>1. Indexed(x)[Head(todo)] = <<y>> /\ Indexed(x) \in Picks
      BY <1>7, IndexedIs, IndexedType
    <3>2. Left(Indexed(x), d, todo, n)
      BY <1>20, <2>1 DEF SectionsDone
    <3> HIDE DEF y, n
    <3>3. Left(Indexed(x), d, todo', n + 1) /\ d[n + 1] = y
      BY <1>1, <3>1, <3>2, PickStep
    <3> QED BY <3>3 DEF y
  <2>3. /\ \A q \in 1..n : sections[q] = [kind |-> d[q][1], block |-> BlockOf(d[q])]
        /\ \A i \in 1..l : secIndex[i] \in 1..n
        /\ \A q \in 1..n, i \in 1..Len(obj.sections) :
               d[q] = <<"data", i>> <=> i <= l /\ q = secIndex[i]
    BY <1>20, <2>1 DEF SectionsDone
  <2>4. \A y : BlockOf(y)' = BlockOf(y)
    BY <1>2, <1>7, BlockOfKept
  <2>5. ASSUME NEW q \in 1..(n + 1)
        PROVE  sections'[q] = [kind |-> d[q][1], block |-> BlockOf(d[q])]
    <3>1. CASE q = n + 1
      <4>1. BlockOf(<<"data", I>>) = 0
        <5>1. ~(I <= Len(secBlock))
          BY <1>10, <1>11, <1>18
        <5> QED BY <5>1 DEF BlockOf
      <4> QED BY <1>9, <2>2, <3>1, <4>1 DEF v
    <3>2. CASE q # n + 1
      <4>1. q \in 1..n
        BY <1>9, <3>2
      <4> QED BY <1>9, <2>3, <4>1
    <3> QED BY <3>1, <3>2
  <2>6. \A i \in 1..(l + 1) : secIndex'[i] \in 1..(n + 1)
    <3> SUFFICES ASSUME NEW i \in 1..(l + 1) PROVE secIndex'[i] \in 1..(n + 1)
      OBVIOUS
    <3>1. CASE i = l + 1
      BY <1>9, <1>10, <3>1
    <3>2. CASE i # l + 1
      <4>1. i \in 1..l
        BY <1>10, <3>2
      <4> QED BY <1>9, <1>10, <2>3, <4>1
    <3> QED BY <3>1, <3>2
  <2>7. ASSUME NEW q \in 1..(n + 1), NEW i \in 1..Len(obj.sections)
        PROVE  d[q] = <<"data", i>> <=> i <= l + 1 /\ q = secIndex'[i]
    <3>1. i \in Nat /\ i >= 1
      BY <1>7
    <3>2. CASE q = n + 1
      <4>1. d[q] = <<"data", i>> <=> i = l + 1
        <5>1. d[q] = <<"data", l + 1>>
          BY <1>11, <2>2, <3>2
        <5> QED BY <5>1
      <4>2. i <= l + 1 /\ q = secIndex'[i] => i = l + 1
        <5> SUFFICES ASSUME i <= l, q = secIndex'[i] PROVE FALSE
          BY <1>10, <3>1
        <5>1. i \in 1..l
          BY <1>10, <3>1
        <5>2. secIndex'[i] \in 1..n
          BY <1>10, <2>3, <5>1
        <5> QED BY <1>9, <3>2, <5>2
      <4>3. i = l + 1 => i <= l + 1 /\ q = secIndex'[i]
        BY <1>10, <3>2
      <4> QED BY <4>1, <4>2, <4>3
    <3>3. CASE q # n + 1
      <4>1. q \in 1..n
        BY <1>9, <3>3
      <4>2. d[q] = <<"data", i>> <=> i <= l /\ q = secIndex[i]
        BY <2>3, <4>1
      <4>3. i <= l /\ q = secIndex[i] <=> i <= l + 1 /\ q = secIndex'[i]
        <5>1. CASE i <= l
          <6>1. i \in 1..l /\ i <= l + 1
            BY <1>10, <3>1, <5>1
          <6> QED BY <1>10, <5>1, <6>1
        <5>2. CASE ~(i <= l)
          <6>1. i <= l + 1 => i = l + 1
            BY <1>10, <3>1, <5>2
          <6>2. i <= l + 1 => secIndex'[i] = n + 1
            BY <1>10, <6>1
          <6> QED BY <3>3, <5>2, <6>2
        <5> QED BY <5>1, <5>2
      <4> QED BY <4>2, <4>3
    <3> QED BY <3>2, <3>3
  <2>8. ~Now("comdat")'
    BY <1>1, NowChained
  <2> HIDE DEF n, l
  <2>9. /\ Left(Indexed(x), d, todo', Len(sections'))
        /\ \A q \in 1..Len(sections') :
               sections'[q] = [kind |-> d[q][1], block |-> BlockOf(d[q])]
        /\ \A i \in 1..Len(secIndex') : secIndex'[i] \in 1..Len(sections')
        /\ \A q \in 1..Len(sections'), i \in 1..Len(obj.sections) :
               d[q] = <<"data", i>> <=> i <= Len(secIndex') /\ q = secIndex'[i]
    BY <1>9, <1>10, <2>2, <2>5, <2>6, <2>7
  <2>10. d = Directory(obj', x)
    BY <1>7, <2>1
  <2> QED BY <1>7, <2>4, <2>8, <2>9, <2>10 DEF SectionsDone
<1>21. ASSUME NEW x \in {0, 1}, Could(x)' PROVE SectionsDone(x)' /\ HeadsWritten(x)'
  <2>1. Could(x)
    BY <1>1, <1>5, <1>21, CouldKept
  <2>2. SectionsDone(x) /\ HeadsWritten(x)
    BY <1>7, <2>1 DEF Going
  <2>3. f \notin HeaderNames
    BY DEF HeaderNames
  <2>4. HeadsWritten(x)'
    BY <1>1, <1>3, <1>5, <1>12, <2>2, <2>3, HeadsKept
  <2> QED BY <1>20, <2>2, <2>4
<1>22. ObjectTypes'
  BY <1>2, <1>7, <1>10 DEF ObjectTypes, objectVars, outputVars
<1>23. Going'
  BY <1>14, <1>15, <1>16, <1>17, <1>19, <1>21 DEF Going
<1> QED BY <1>22, <1>23 DEF OInv

-------------------------------------------------------------------------------
(* The symbols get their indices                                           *)

(* A kind of call whose part is past is not due any more.                  *)
LEMMA NotDue ==
    ASSUME ObjectTypes, Going, NEW g, NEW p \in Nat, Past(p),
           \A c \in Legal(obj) : c.call = g => PartOf(obj, c) < p
    PROVE  ~Due(g)
<1> DEFINE a == Pick(Sel(g), todo)
           n == 0
<1>1. todo \in Seq(Legal(obj))
  BY DEF Going, Future
<1>2. todo \in Seq(CallSet)
  <2> DEFINE S == Legal(obj)
             t == todo
  <2>1. S \subseteq CallSet /\ t \in Seq(S)
    BY <1>1 DEF Legal
  <2> HIDE DEF S, t
  <2>2. t \in Seq(CallSet)
    BY <2>1
  <2> QED BY <2>2 DEF t
<1>3. a \in Seq(Items)
  BY <1>2, SelType, PickType
<1>4. Left(Sel(g), a, todo, n)
  <2>1. a = Pick(Sel(g), todo)
    OBVIOUS
  <2> HIDE DEF a
  <2>2. Suffix(a, a, n)
    BY <1>3 DEF Suffix
  <2> QED BY <2>1, <2>2 DEF Left
<1> HIDE DEF a, n
<1>5. n = Len(a)
  BY <1>4, SelDone
<1>6. a = <<>>
  BY <1>3, <1>5 DEF n
<1> QED BY <1>6 DEF Due, a

LEMMA TableStep ==
    ASSUME NEW f \in {"null_symbol", "symbol", "num_local"}, Moves(f),
           UNCHANGED <<comdatBlock, secIndex, secBlock, relBlock>>,
           UNCHANGED outputVars,
           UNCHANGED <<symbols, headers, sections, index>>, Len(sections) \in Nat,
           ObjectTypes', SymbolsDone'
    PROVE  OInv'
<1>1. UNCHANGED <<order, groups, rels, heads>>
  BY DEF outputVars
<1>2. PartOf(obj, Head(todo)) < 12
  <2>1. Head(todo).call = f
    BY MovesFacts
  <2> QED BY <2>1 DEF PartOf
<1>3. f # "symtab_shndx_index" /\ f \notin HeaderNames /\ f \notin IndexCalls
  BY DEF HeaderNames, IndexCalls
<1>4. Future' /\ Quiet'
  BY FutureKept, QuietKept
<1>5. SymbolsWritten'
  BY <1>1, WrittenKept
<1>6. EntriesWritten'
  BY <1>1, <1>2, EntriesKept
<1>7. BlocksDone'
  BY BlocksKept
<1>8. ASSUME NEW x \in {0, 1}, Could(x)' PROVE SectionsDone(x)' /\ HeadsWritten(x)'
  <2>1. Could(x)
    BY <1>3, <1>8, CouldKept
  <2>2. SectionsDone(x) /\ HeadsWritten(x)
    BY <2>1 DEF Moves, Going
  <2>3. SectionsDone(x)'
    BY <1>3, <2>2, SectionsKept
  <2>4. HeadsWritten(x)'
    BY <1>1, <1>2, <1>3, <2>2, HeadsKept
  <2> QED BY <2>3, <2>4
<1>9. Going'
  BY <1>4, <1>5, <1>6, <1>7, <1>8 DEF Going
<1> QED BY <1>9 DEF OInv

LEMMA NullSymbolStep == ASSUME OInv, IInv, NullSymbol PROVE OInv'
<1> DEFINE f == "null_symbol"
<1>1. Moves(f) /\ Plain
  BY OInvMoves DEF NullSymbol, Plain
<1>2. num \in [Singletons -> Nat] /\ "symtab" \in Singletons /\ Len(sections) \in Nat
  BY TypesUsed DEF Singletons
<1>3. /\ UNCHANGED <<symsecs, symbols, headers, sections, index>> /\ num'["symtab"] = 1
  BY <1>2 DEF NullSymbol, ReserveNullSymbol, clientVars, writeVars
<1>4. /\ UNCHANGED objectVars /\ UNCHANGED offsetVars /\ UNCHANGED outputVars
      /\ UNCHANGED <<comdatBlock, secIndex, secBlock, relBlock, symIndex, numLocal>>
  BY <1>1 DEF Plain, offsetVars
<1>5. ObjectTypes'
  BY <1>1, <1>4, OTypesKept DEF Moves
<1>6. SymbolsDone /\ obj' = obj
  BY <1>1, MovesFacts DEF Moves, Going
<1>7. SymbolsDone'
  <2>1. Left(Sel("symbol"), Table(obj), todo', Len(symsecs))
    <3>1. Sel("symbol") \in Picks /\ Sel("symbol")[Head(todo)] = <<>>
      BY <1>1, SelHead
    <3>2. Left(Sel("symbol"), Table(obj), todo, Len(symsecs))
      BY <1>6 DEF SymbolsDone
    <3> QED BY <1>1, <3>1, <3>2, PickKept
  <2>2. symsecs = <<>> \/ Past(4)'
    BY <1>1, <1>6, PastKept DEF SymbolsDone
  <2>3. Due("num_local")' <=> Due("num_local")
    BY <1>1, DueKept
  <2>4. \A y : SectionOf(y)' = SectionOf(y)
    BY <1>4, <1>6 DEF SectionOf
  <2>5. /\ \A k \in 1..Len(symsecs) : /\ symsecs[k] = SectionOf(Table(obj)[k])
                                      /\ symIndex[Table(obj)[k]] = k
        /\ Due("num_local") => \A k \in 1..Len(symsecs) : Local(obj, Table(obj)[k])
        /\ ~Due("num_local") => \A k \in 1..Len(Table(obj)) :
                                    Local(obj, Table(obj)[k]) <=> k < numLocal
    BY <1>6 DEF SymbolsDone
  <2>6. num'["symtab"] # 0
    BY <1>3
  <2> QED BY <1>3, <1>4, <1>6, <2>1, <2>2, <2>3, <2>4, <2>5, <2>6 DEF SymbolsDone
<1> QED BY <1>1, <1>2, <1>3, <1>4, <1>5, <1>7, TableStep

(* Until the first symbol is reserved or after the null one, the count is  *)
(* one more than the symbols that have been.                               *)
LEMMA NextSymbol ==
    ASSUME IInv, num["symtab"] # 0
    PROVE  num["symtab"] = Len(symsecs) + 1
<1>1. num \in [Singletons -> Nat] /\ "symtab" \in Singletons
  BY TypesUsed DEF Singletons
<1>2. Len(symsecs) = IF num["symtab"] = 0 THEN 0 ELSE num["symtab"] - 1
  BY DEF IInv, Reserved, Counted
<1> QED BY <1>1, <1>2

(* The null symbol has been reserved when a symbol is, or the locals are   *)
(* counted.                                                                *)
LEMMA NullReserved ==
    ASSUME ObjectTypes, Going, Past(5) PROVE num["symtab"] # 0
<1> DEFINE p == 5
<1>1. /\ p \in Nat /\ Past(p)
      /\ \A c \in Legal(obj) : c.call = "null_symbol" => PartOf(obj, c) < p
  BY DEF PartOf
<1> HIDE DEF p
<1>2. ~Due("null_symbol")
  BY <1>1, NotDue
<1> QED BY <1>2 DEF Going, SymbolsDone

LEMMA TableArranged ==
    ASSUME NEW o, Valid(o)
    PROVE  /\ Arranges(Table(o), Len(o.symbols)) /\ Len(Table(o)) = Len(o.symbols)
           /\ Len(o.symbols) \in Nat
<1>1. Arranges(Table(o), Len(o.symbols))
  BY SymbolsLeft
<1> QED BY <1>1 DEF Arranges, Valid

(* The section of a symbol has its index by the time the symbol is         *)
(* reserved.                                                               *)
LEMMA SectionOfType ==
    ASSUME ObjectTypes, Going, Past(4), NEW y \in 1..Len(obj.symbols)
    PROVE  SectionOf(y) \in 0..Len(sections)
<1>1. Len(secIndex) = Len(obj.sections) /\ secIndex \in Seq(Nat)
      /\ Len(obj.sections) \in Nat
  BY AllIndexed DEF ObjectTypes, Valid
<1>2. obj.symbols[y].section \in 0..Len(obj.sections)
  BY DEF ObjectTypes, Valid
<1>3. PICK x \in {0, 1} : SectionsDone(x) /\ HeadsWritten(x)
  BY SomeDirectory
<1>4. \A i \in 1..Len(secIndex) : secIndex[i] \in 1..Len(sections)
  BY <1>3 DEF SectionsDone
<1>5. Len(sections) \in Nat
  BY <1>3, SectionsListed
<1>6. CASE obj.symbols[y].section = 0
  BY <1>5, <1>6 DEF SectionOf
<1>7. CASE obj.symbols[y].section # 0
  <2>1. obj.symbols[y].section \in 1..Len(secIndex)
    BY <1>1, <1>2, <1>7
  <2> QED BY <1>4, <1>5, <1>7, <2>1 DEF SectionOf
<1> QED BY <1>6, <1>7

LEMMA SymbolStep == ASSUME OInv, IInv, Symbol PROVE OInv'
<1> DEFINE f == "symbol"
           n == Len(symsecs)
           m == Len(obj.symbols)
<1>1. Moves(f)
  <2>1. Runs(f) /\ UNCHANGED objectVars
    BY DEF Symbol
  <2> QED BY <2>1, OInvMoves
<1>2. /\ symIndex' = [symIndex EXCEPT ![I] = num["symtab"]]
      /\ UNCHANGED <<comdatBlock, secIndex, secBlock, relBlock, numLocal>>
      /\ UNCHANGED outputVars /\ UNCHANGED objectVars
  BY DEF Symbol
<1>3. PICK s : s = SectionOf(I)
  OBVIOUS
<1>4. ReserveSymbol(s)
  BY <1>3 DEF Symbol
<1>5. num \in [Singletons -> Nat] /\ "symtab" \in Singletons /\ Len(sections) \in Nat
      /\ symsecs \in Seq(Nat) /\ n \in Nat
  BY TypesUsed DEF Singletons
<1>6. /\ UNCHANGED <<symbols, headers, sections, index>>
      /\ symsecs' = Append(symsecs, s) /\ num'["symtab"] # 0
  BY <1>4, <1>5 DEF ReserveSymbol, writeVars
<1>7. /\ ObjectTypes /\ Going /\ SymbolsDone /\ Valid(obj) /\ obj' = obj
      /\ Head(todo) \in CallSet /\ Head(todo).call = f /\ Head(todo).i = I
      /\ Head(todo) \in Legal(obj)
  BY <1>1, MovesFacts DEF Moves, Going, I
<1>8. I \in 1..m /\ m \in Nat
  BY <1>7 DEF Legal, Valid
<1>9. PartOf(obj, Head(todo)) = IF Local(obj, I) THEN 5 ELSE 7
  BY <1>7 DEF PartOf
<1>10. Past(5) /\ Past(4)
  <2> DEFINE p == PartOf(obj, Head(todo))
             q == 5
             r == 4
  <2>1. p \in Nat /\ Past(p) /\ q <= p /\ r <= p /\ q \in Nat /\ r \in Nat
    BY <1>1, <1>9, HeadPast
  <2> HIDE DEF p, q, r
  <2>2. Past(q) /\ Past(r)
    BY <2>1, PastLess
  <2> QED BY <2>2 DEF q, r
<1>11. ~Local(obj, I) => Past(7)
  BY <1>1, <1>9, HeadPast
<1>12. num["symtab"] = n + 1
  BY <1>7, <1>10, NullReserved, NextSymbol
<1>13. s \in Nat
  BY <1>3, <1>5, <1>7, <1>8, <1>10, SectionOfType
<1>14. PICK T : T = Table(obj)
  OBVIOUS
<1>15. T \in Seq(1..m) /\ Len(T) = m /\ \A p, q \in 1..m : T[p] = T[q] => p = q
  BY <1>7, <1>14, TableArranged DEF Arranges
<1>16. /\ Left(Sel(f), T, todo, n)
       /\ \A k \in 1..n : symsecs[k] = SectionOf(T[k]) /\ symIndex[T[k]] = k
       /\ Due("num_local") => \A k \in 1..n : Local(obj, T[k])
       /\ ~Due("num_local") => \A k \in 1..Len(T) : Local(obj, T[k]) <=> k < numLocal
  BY <1>7, <1>14 DEF SymbolsDone
<1> HIDE DEF n, m
<1>17. Left(Sel(f), T, todo', n + 1) /\ n + 1 \in 1..m /\ T[n + 1] = I
  <2>1. Sel(f) \in Picks /\ Sel(f)[Head(todo)] = <<I>>
    BY <1>1, SelHead
  <2> QED BY <1>1, <1>15, <1>16, <2>1, PickStep
<1>18. /\ Len(symsecs') = n + 1 /\ symsecs'[n + 1] = s
       /\ \A k \in 1..n : symsecs'[k] = symsecs[k]
  BY <1>5, <1>6, <1>13, AppendAt DEF n
<1>19. symIndex \in [1..m -> Nat]
  BY <1>7 DEF ObjectTypes, m
<1>20. /\ symIndex' \in [1..m -> Nat] /\ symIndex'[I] = n + 1
       /\ \A y \in 1..m : y # I => symIndex'[y] = symIndex[y]
  BY <1>2, <1>5, <1>8, <1>12, <1>19
<1>21. \A y : SectionOf(y)' = SectionOf(y)
  BY <1>2, <1>7 DEF SectionOf
<1>22. ASSUME NEW k \in 1..(n + 1)
       PROVE  symsecs'[k] = SectionOf(T[k]) /\ symIndex'[T[k]] = k
  <2>1. CASE k = n + 1
    BY <1>3, <1>17, <1>18, <1>20, <2>1
  <2>2. CASE k # n + 1
    <3>1. k \in 1..n /\ k \in 1..m
      BY <1>5, <1>8, <1>17, <2>2
    <3>2. T[k] \in 1..m /\ T[k] # I
      BY <1>15, <1>17, <2>2, <3>1
    <3> QED BY <1>16, <1>18, <1>20, <3>1, <3>2
  <2> QED BY <2>1, <2>2
<1>23. Due("num_local") => Local(obj, I)
  <2> SUFFICES ASSUME ~Local(obj, I) PROVE ~Due("num_local")
    OBVIOUS
  <2> DEFINE p == 7
  <2>1. /\ p \in Nat /\ Past(p)
        /\ \A c \in Legal(obj) : c.call = "num_local" => PartOf(obj, c) < p
    BY <1>11 DEF PartOf
  <2> HIDE DEF p
  <2> QED BY <1>7, <2>1, NotDue
<1>24. Due("num_local") => \A k \in 1..(n + 1) : Local(obj, T[k])
  <2> SUFFICES ASSUME Due("num_local"), NEW k \in 1..(n + 1) PROVE Local(obj, T[k])
    OBVIOUS
  <2>1. CASE k = n + 1
    BY <1>17, <1>23, <2>1
  <2>2. CASE k # n + 1
    <3>1. k \in 1..n
      BY <1>5, <2>2
    <3> QED BY <1>16, <3>1
  <2> QED BY <2>1, <2>2
<1>25. Due("num_local")' <=> Due("num_local")
  BY <1>1, DueKept
<1>26. Past(4)'
  BY <1>1, <1>10, PastKept
<1>27. T = Table(obj')
  BY <1>7, <1>14
<1>28. SymbolsDone'
  <2>1. \A k \in 1..Len(symsecs') : symsecs'[k] = SectionOf(T[k])' /\ symIndex'[T[k]] = k
    BY <1>18, <1>21, <1>22
  <2> QED BY <1>2, <1>6, <1>7, <1>16, <1>17, <1>18, <1>24, <1>25, <1>26, <1>27, <2>1
          DEF SymbolsDone
<1>29. ObjectTypes'
  BY <1>2, <1>7, <1>20 DEF ObjectTypes, objectVars, outputVars, m
<1> QED BY <1>1, <1>2, <1>5, <1>6, <1>28, <1>29, TableStep

LEMMA NumLocalStep == ASSUME OInv, IInv, NumLocal PROVE OInv'
<1> DEFINE f == "num_local"
           n == Len(symsecs)
           m == Len(obj.symbols)
<1>1. Moves(f)
  <2>1. Runs(f) /\ UNCHANGED objectVars
    BY DEF NumLocal
  <2> QED BY <2>1, OInvMoves
<1>2. /\ numLocal' = num["symtab"]
      /\ UNCHANGED <<comdatBlock, secIndex, secBlock, relBlock, symIndex>>
      /\ UNCHANGED outputVars /\ UNCHANGED objectVars
      /\ UNCHANGED <<symsecs, symbols, headers, sections, index, num>>
  BY DEF NumLocal, SymbolCount, vars, reserveVars, clientVars, writeVars
<1>3. Len(sections) \in Nat /\ n \in Nat
  BY TypesUsed
<1>4. /\ ObjectTypes /\ Going /\ SymbolsDone /\ Valid(obj) /\ obj' = obj
      /\ Head(todo) \in CallSet /\ Head(todo).call = f
      /\ todo \in Seq(CallSet) /\ todo \in Seq(Legal(obj))
  BY <1>1, MovesFacts DEF Moves, Going, Future
<1>5. Past(6) /\ Past(5)
  <2> DEFINE p == 6
             q == 5
  <2>1. PartOf(obj, Head(todo)) = 6
    BY <1>4 DEF PartOf
  <2>2. Past(p) /\ p \in Nat /\ q \in Nat /\ q <= p
    BY <1>1, <2>1, HeadPast
  <2> HIDE DEF p, q
  <2>3. Past(q)
    BY <2>2, PastLess
  <2> QED BY <2>2, <2>3 DEF p, q
<1>6. num["symtab"] = n + 1
  BY <1>4, <1>5, NullReserved, NextSymbol
<1>7. Len(Pick(Sel(f), todo)) <= 1
  BY <1>4 DEF Going, Future
<1>8. Due(f) /\ ~Due(f)'
  BY <1>1, <1>7, DueKept
<1>9. PICK T : T = Table(obj)
  OBVIOUS
<1>10. /\ Left(Sel("symbol"), T, todo, n)
       /\ \A k \in 1..n : symsecs[k] = SectionOf(T[k]) /\ symIndex[T[k]] = k
       /\ \A k \in 1..n : Local(obj, T[k])
       /\ symsecs = <<>> \/ Past(4)
  BY <1>4, <1>8, <1>9 DEF SymbolsDone
<1> DEFINE a == Pick(Sel("symbol"), todo)
           B == {y \in Items : ~Local(obj, y)}
<1>11. a \in Seq(B)
  <2> DEFINE S == Legal(obj)
             t == todo
             F == Sel("symbol")
  <2>1. t \in Seq(S) /\ t \in Seq(CallSet) /\ F \in Picks
        /\ \A k \in 1..Len(t) : PartOf(obj, t[k]) >= 6
    BY <1>4, <1>5, SelType DEF Past
  <2>2. \A c \in CallSet : F[c] = IF c.call = "symbol" THEN <<c.i>> ELSE <<>>
    BY SelType
  <2>3. \A c \in S : c.call = "symbol" => PartOf(obj, c) = IF Local(obj, c.i) THEN 5 ELSE 7
    BY DEF PartOf
  <2>4. \A c \in CallSet : c.i \in Items
    BY DEF CallSet, Items
  <2> HIDE DEF S, t, F
  <2>5. ASSUME NEW k \in 1..Len(t) PROVE F[t[k]] \in Seq(B)
    <3>1. t[k] \in S /\ t[k] \in CallSet /\ PartOf(obj, t[k]) >= 6
      BY <2>1
    <3>2. CASE t[k].call = "symbol"
      <4>1. ~Local(obj, t[k].i)
        BY <2>3, <3>1, <3>2
      <4>2. F[t[k]] = <<t[k].i>> /\ t[k].i \in B
        BY <2>2, <2>4, <3>1, <3>2, <4>1
      <4> HIDE DEF B
      <4> QED BY <4>2
    <3>3. CASE t[k].call # "symbol"
      <4>1. F[t[k]] = <<>>
        BY <2>2, <3>1, <3>3
      <4> HIDE DEF B
      <4> QED BY <4>1
    <3> QED BY <3>2, <3>3
  <2> HIDE DEF B
  <2>6. Pick(F, t) \in Seq(B)
    BY <2>1, <2>5, PickIn
  <2> QED BY <2>6 DEF F, t
<1>12. Len(T) = n + Len(a) /\ \A k \in 1..Len(a) : a[k] = T[n + k]
  BY <1>10 DEF Left, Suffix
<1>13. \A k \in 1..Len(a) : ~Local(obj, a[k])
  BY <1>11
<1>14. Len(a) \in Nat
  BY <1>11
<1> HIDE DEF a, B, n
<1>15. ASSUME NEW k \in 1..Len(T) PROVE Local(obj, T[k]) <=> k < n + 1
  <2>1. CASE k <= n
    <3>1. k \in 1..n /\ k < n + 1
      BY <1>3, <1>12, <1>14, <2>1
    <3> QED BY <1>10, <3>1
  <2>2. CASE k > n
    <3> DEFINE j == k - n
    <3>1. j \in 1..Len(a) /\ k = n + j /\ ~(k < n + 1)
      BY <1>3, <1>12, <1>14, <2>2
    <3> HIDE DEF j
    <3>2. T[k] = a[j] /\ ~Local(obj, a[j])
      BY <1>12, <1>13, <3>1
    <3> QED BY <3>1, <3>2
  <2>3. k <= n \/ k > n
    BY <1>3, <1>12, <1>14
  <2> QED BY <2>1, <2>2, <2>3
<1>16. \A y : SectionOf(y)' = SectionOf(y)
  BY <1>2, <1>4 DEF SectionOf
<1>17. Left(Sel("symbol"), T, todo', n)
  <2>1. Sel("symbol") \in Picks /\ Sel("symbol")[Head(todo)] = <<>>
    BY <1>1, SelHead
  <2> QED BY <1>1, <1>10, <2>1, PickKept
<1>18. SymbolsDone'
  <2>1. symsecs = <<>> \/ Past(4)'
    BY <1>1, <1>10, PastKept
  <2>2. num'["symtab"] # 0
    BY <1>2, <1>3, <1>6
  <2>3. \A k \in 1..Len(T) : Local(obj, T[k]) <=> k < numLocal'
    BY <1>2, <1>6, <1>15
  <2>4. T = Table(obj')
    BY <1>4, <1>9
  <2>5. /\ \A k \in 1..Len(symsecs) : symsecs[k] = SectionOf(T[k])' /\ symIndex[T[k]] = k
        /\ Left(Sel("symbol"), T, todo', Len(symsecs))
    BY <1>10, <1>16, <1>17 DEF n
  <2> QED BY <1>2, <1>4, <1>8, <2>1, <2>2, <2>3, <2>4, <2>5 DEF SymbolsDone
<1>19. ObjectTypes'
  <2>1. numLocal' \in Nat
    BY <1>2, <1>3, <1>6
  <2> QED BY <1>2, <1>4, <2>1 DEF ObjectTypes, objectVars, outputVars
<1> QED BY <1>1, <1>2, <1>3, <1>18, <1>19, TableStep

-------------------------------------------------------------------------------
(* Symbols and entries are written                                         *)

LEMMA OutputStep ==
    ASSUME NEW f \in {"write_null_symbol", "write_symbol", "write_comdat_entry",
                      "write_relocation"}, Moves(f),
           UNCHANGED offsetVars, UNCHANGED <<heads, headers>>,
           UNCHANGED <<symsecs, sections, num, index>>, Len(sections) \in Nat,
           ObjectTypes', SymbolsWritten', EntriesWritten'
    PROVE  OInv'
<1>1. UNCHANGED <<symIndex, numLocal, comdatBlock, secIndex, secBlock, relBlock>>
  BY DEF offsetVars
<1>2. PartOf(obj, Head(todo)) >= 12
  <2>1. Head(todo).call = f
    BY MovesFacts
  <2> QED BY <2>1 DEF PartOf
<1>3. f # "symtab_shndx_index" /\ f \notin HeaderNames /\ f \notin IndexCalls
  BY DEF HeaderNames, IndexCalls
<1>4. Future' /\ Quiet'
  BY <1>2, FutureKept, QuietKept
<1>5. SymbolsDone'
  BY <1>1, TableKeeps
<1>6. BlocksDone'
  BY <1>1, BlocksKept
<1>7. ASSUME NEW x \in {0, 1}, Could(x)' PROVE SectionsDone(x)' /\ HeadsWritten(x)'
  <2>1. Could(x)
    BY <1>3, <1>7, CouldKept
  <2>2. SectionsDone(x) /\ HeadsWritten(x)
    BY <2>1 DEF Moves, Going
  <2>3. SectionsDone(x)'
    BY <1>1, <1>3, <2>2, SectionsKept
  <2>4. HeadsWritten(x)'
    BY <1>3, <2>2, HeadsKept
  <2> QED BY <2>3, <2>4
<1>8. Going'
  BY <1>4, <1>5, <1>6, <1>7 DEF Going
<1> QED BY <1>8 DEF OInv

(* The writer's side of a step that writes a symbol or a header: it is the *)
(* first one of its table when the table begins.                           *)
LEMMA TableBegins ==
    ASSUME IInv, NEW k \in {"symtab", "shdrs"}, Turn(k)
    PROVE  /\ k = "symtab" => Len(symbols) = 0
           /\ k = "shdrs" => Len(headers) = 0
<1>1. cur \in Nat /\ cur + 1 \in 2..Len(blocks) /\ blocks[cur + 1].kind = k
  BY DEF Turn, IInv, TypeOK
<1>2. ASSUME NEW n, Progress(k, n, cur, left) PROVE n = 0
  BY <1>1, <1>2 DEF Progress
<1>3. Progress("symtab", Len(symbols), cur, left) /\ Progress("shdrs", Len(headers), cur, left)
  BY DEF IInv, Written
<1> QED BY <1>2, <1>3

LEMMA TableGoesOn ==
    ASSUME IInv, NEW k \in {"symtab", "shdrs"}, Entry(k)
    PROVE  /\ k = "symtab" => Len(symbols) >= 1 /\ Len(symbols) <= num["symtab"] - 1
           /\ k = "shdrs" => Len(headers) >= 1 /\ Len(headers) <= num["shdrs"] - 1
<1>1. cur \in 0..Len(blocks) /\ left \in Nat /\ left > 0 /\ blocks[cur].kind = k
      /\ Len(blocks) \in Nat /\ num \in [Singletons -> Nat]
      /\ "symtab" \in Singletons /\ "shdrs" \in Singletons
  BY TypesUsed DEF Entry, IInv, TypeOK, Singletons
<1>2. cur \in 2..Len(blocks)
  <2>1. cur < 2 => left = 0
    BY DEF IInv, Written
  <2> QED BY <1>1, <2>1
<1>3. ASSUME NEW n, Progress(k, n, cur, left) PROVE n >= 1 /\ n = num[k] - left
  BY <1>1, <1>2, <1>3 DEF Progress
<1>4. Progress("symtab", Len(symbols), cur, left) /\ Progress("shdrs", Len(headers), cur, left)
  BY DEF IInv, Written
<1>5. CASE k = "symtab"
  <2>1. Len(symbols) >= 1 /\ Len(symbols) = num["symtab"] - left
    BY <1>3, <1>4, <1>5
  <2> QED BY <1>1, <1>5, <2>1
<1>6. CASE k = "shdrs"
  <2>1. Len(headers) >= 1 /\ Len(headers) = num["shdrs"] - left
    BY <1>3, <1>4, <1>6
  <2> QED BY <1>1, <1>6, <2>1
<1> QED BY <1>5, <1>6

LEMMA WNullSymbolStep == ASSUME OInv, IInv, WNullSymbol PROVE OInv'
<1> DEFINE f == "write_null_symbol"
<1>1. Moves(f) /\ Plain
  BY OInvMoves DEF WNullSymbol, Plain
<1>2. WriteNullSymbol /\ Turn("symtab")
  BY DEF WNullSymbol, WriteNullSymbol
<1>3. Len(symbols) = 0 /\ symbols \in Seq(Nat) /\ Len(sections) \in Nat
  BY <1>2, TableBegins, TypesUsed
<1>4. /\ UNCHANGED <<headers, symsecs, sections, num, index>> /\ symbols' = Append(symbols, 0)
  BY <1>2 DEF WriteNullSymbol, Begin, reserveVars, clientVars
<1>5. Len(symbols') = 1
  BY <1>3, <1>4
<1>6. /\ UNCHANGED objectVars /\ UNCHANGED offsetVars /\ UNCHANGED outputVars
      /\ UNCHANGED <<secIndex, symIndex>> /\ UNCHANGED <<groups, rels, order, heads>>
  BY <1>1 DEF Plain, offsetVars, outputVars
<1>7. ObjectTypes'
  BY <1>1, <1>6, OTypesKept DEF Moves
<1>8. EntriesWritten'
  BY <1>1, <1>6, EntriesKept
<1>9. SymbolsWritten /\ obj' = obj /\ order \in Seq(1..Len(obj.symbols))
  BY <1>1, MovesFacts DEF Moves, Going, ObjectTypes
<1>10. order = <<>>
  <2>1. Len(order) \in Nat
    BY <1>9
  <2> QED BY <1>3, <1>9, <2>1 DEF SymbolsWritten
<1>11. SymbolsWritten'
  <2>1. Left(Sel("write_symbol"), Table(obj), todo', Len(order))
    <3>1. Sel("write_symbol") \in Picks /\ Sel("write_symbol")[Head(todo)] = <<>>
      BY <1>1, SelHead
    <3>2. Left(Sel("write_symbol"), Table(obj), todo, Len(order))
      BY <1>9 DEF SymbolsWritten
    <3> QED BY <1>1, <3>1, <3>2, PickKept
  <2>2. \A k \in 1..Len(order) : order[k] = Table(obj)[k]
    BY <1>9 DEF SymbolsWritten
  <2>3. Len(symbols') = 1 + Len(order)
    BY <1>5, <1>10
  <2> QED BY <1>6, <1>9, <2>1, <2>2, <2>3 DEF SymbolsWritten
<1> QED BY <1>1, <1>3, <1>4, <1>6, <1>7, <1>8, <1>11, OutputStep

LEMMA WSymbolStep == ASSUME OInv, IInv, WSymbol PROVE OInv'
<1> DEFINE f == "write_symbol"
           n == Len(order)
           m == Len(obj.symbols)
<1>1. Moves(f)
  <2>1. Runs(f) /\ UNCHANGED objectVars
    BY DEF WSymbol
  <2> QED BY <2>1, OInvMoves
<1>2. PICK s : s = SectionOf(I)
  OBVIOUS
<1>3. WriteSymbol(s) /\ Entry("symtab")
  BY <1>2 DEF WSymbol, WriteSymbol
<1>4. Len(symbols) >= 1 /\ symbols \in Seq(Nat) /\ Len(sections) \in Nat
      /\ Len(symbols) \in Nat
  BY <1>3, TableGoesOn, TypesUsed
<1>5. PICK e : symbols' = Append(symbols, e)
  BY <1>3 DEF WriteSymbol
<1>6. UNCHANGED <<headers, symsecs, sections, num, index>>
  BY <1>3 DEF WriteSymbol, Entry, reserveVars, clientVars
<1>7. Len(symbols') = Len(symbols) + 1
  BY <1>4, <1>5
<1>8. /\ UNCHANGED objectVars /\ UNCHANGED offsetVars /\ order' = Append(order, I)
      /\ UNCHANGED <<secIndex, symIndex>> /\ UNCHANGED <<groups, rels, heads>>
  BY DEF WSymbol, offsetVars
<1>9. EntriesWritten'
  BY <1>1, <1>8, EntriesKept
<1>10. /\ ObjectTypes /\ SymbolsWritten /\ Valid(obj) /\ obj' = obj
       /\ order \in Seq(1..m) /\ Head(todo) \in Legal(obj) /\ Head(todo).call = f
       /\ Head(todo).i = I
  BY <1>1, MovesFacts DEF Moves, Going, ObjectTypes, I
<1>11. I \in 1..m
  BY <1>10 DEF Legal
<1>12. /\ order' \in Seq(1..m) /\ n \in Nat /\ Len(order') = n + 1 /\ order'[n + 1] = I
       /\ \A k \in 1..n : order'[k] = order[k]
  <2> DEFINE D == 1..m
  <2>1. order \in Seq(D) /\ I \in D
    BY <1>10, <1>11
  <2> HIDE DEF D
  <2>2. /\ order' \in Seq(D) /\ n \in Nat /\ Len(order') = n + 1 /\ order'[n + 1] = I
        /\ \A k \in 1..n : order'[k] = order[k]
    BY <1>8, <2>1, AppendAt
  <2> QED BY <2>2 DEF D
<1>13. PICK T : T = Table(obj)
  OBVIOUS
<1>14. Left(Sel(f), T, todo, n) /\ \A k \in 1..n : order[k] = T[k]
  BY <1>10, <1>13 DEF SymbolsWritten
<1>15. Len(symbols) = 1 + n
  BY <1>4, <1>10 DEF SymbolsWritten
<1> HIDE DEF n, m
<1>16. Left(Sel(f), T, todo', n + 1) /\ T[n + 1] = I
  <2>1. Sel(f) \in Picks /\ Sel(f)[Head(todo)] = <<I>>
    BY <1>1, SelHead
  <2> QED BY <1>1, <1>14, <2>1, PickStep
<1>17. \A k \in 1..(n + 1) : order'[k] = T[k]
  <2> SUFFICES ASSUME NEW k \in 1..(n + 1) PROVE order'[k] = T[k]
    OBVIOUS
  <2>1. CASE k = n + 1
    BY <1>12, <1>16, <2>1
  <2>2. CASE k # n + 1
    <3>1. k \in 1..n
      BY <1>12, <2>2
    <3> QED BY <1>12, <1>14, <3>1
  <2> QED BY <2>1, <2>2
<1>18. Len(symbols') = 1 + (n + 1)
  BY <1>7, <1>12, <1>15
<1>19. SymbolsWritten'
  <2>1. T = Table(obj')
    BY <1>10, <1>13
  <2> QED BY <1>10, <1>12, <1>16, <1>17, <1>18, <2>1 DEF SymbolsWritten
<1>20. ObjectTypes'
  BY <1>8, <1>10, <1>12 DEF ObjectTypes, objectVars, offsetVars, m
<1> QED BY <1>1, <1>4, <1>6, <1>8, <1>9, <1>19, <1>20, OutputStep

(* The next entry of its kind is the next of its group or section.         *)
LEMMA SelKNext ==
    ASSUME NEW f, Moves(f), NEW m \in Nat, NEW n, Left(SelK(f, I), To(m), todo, n)
    PROVE  /\ Left(SelK(f, I), To(m), todo', n + 1) /\ n \in Nat
           /\ n + 1 \in 1..m /\ K = n + 1
<1>1. PICK F : F = SelK(f, I)
  OBVIOUS
<1>2. F \in Picks /\ F[Head(todo)] = <<K>>
  BY <1>1, SelKHead
<1> DEFINE a == To(m)
<1>3. Len(a) = m /\ \A k \in 1..m : a[k] = k
  BY ToType
<1>4. Left(F, a, todo, n)
  BY <1>1
<1> HIDE DEF a
<1>5. Left(F, a, todo', n + 1) /\ n + 1 \in 1..Len(a) /\ a[n + 1] = K
  BY <1>2, <1>4, PickStep
<1>6. n \in Nat
  BY <1>4 DEF Left, Suffix
<1> QED BY <1>1, <1>3, <1>5, <1>6 DEF a

LEMMA EntryAdded ==
    ASSUME NEW D, NEW g \in [D -> Seq(Nat)], NEW i \in D, NEW v \in Nat, NEW h,
           h = [g EXCEPT ![i] = Append(@, v)]
    PROVE  /\ h \in [D -> Seq(Nat)] /\ Len(g[i]) \in Nat
           /\ Len(h[i]) = Len(g[i]) + 1 /\ h[i][Len(g[i]) + 1] = v
           /\ \A k \in 1..Len(g[i]) : h[i][k] = g[i][k]
           /\ \A j \in D : j # i => h[j] = g[j]
<1> DEFINE s == g[i]
<1>1. s \in Seq(Nat)
  OBVIOUS
<1>2. h[i] = Append(s, v) /\ \A j \in D : j # i => h[j] = g[j]
  OBVIOUS
<1> HIDE DEF s
<1>3. /\ Append(s, v) \in Seq(Nat) /\ Len(s) \in Nat
      /\ Len(Append(s, v)) = Len(s) + 1 /\ Append(s, v)[Len(s) + 1] = v
      /\ \A k \in 1..Len(s) : Append(s, v)[k] = s[k]
  BY <1>1, AppendAt
<1>4. h \in [D -> Seq(Nat)]
  <2> DEFINE V == Seq(Nat)
             w == Append(s, v)
  <2>1. w \in V /\ g \in [D -> V] /\ h = [g EXCEPT ![i] = w]
    BY <1>3 DEF s
  <2> HIDE DEF V, w
  <2>2. h \in [D -> V]
    BY <2>1
  <2> QED BY <2>2 DEF V
<1> QED BY <1>2, <1>3, <1>4 DEF s

LEMMA WComdatEntryStep == ASSUME OInv, IInv, WComdatEntry PROVE OInv'
<1> DEFINE f == "write_comdat_entry"
           g == groups
           D == 1..Len(obj.comdats)
<1>1. Moves(f)
  <2>1. Runs(f) /\ UNCHANGED objectVars
    BY DEF WComdatEntry
  <2> QED BY <2>1, OInvMoves
<1>2. WriteEntry("comdat")
  BY DEF WComdatEntry, WriteComdatEntry
<1>3. UNCHANGED <<headers, symbols, symsecs, sections, num, index>> /\ Len(sections) \in Nat
  BY <1>2, TypesUsed DEF WriteEntry, Entry, reserveVars, clientVars
<1>4. /\ UNCHANGED objectVars /\ UNCHANGED offsetVars /\ UNCHANGED <<rels, order, heads>>
      /\ UNCHANGED <<secIndex, symIndex>>
  BY DEF WComdatEntry, offsetVars
<1>5. /\ ObjectTypes /\ Going /\ EntriesWritten /\ Valid(obj) /\ obj' = obj
      /\ Head(todo) \in Legal(obj) /\ Head(todo).call = f
      /\ Head(todo).i = I /\ Head(todo).k = K
      /\ secIndex \in Seq(Nat) /\ g \in [D -> Seq(Nat)]
  BY <1>1, MovesFacts DEF Moves, Going, ObjectTypes, I, K
<1>6. I \in D /\ K \in DOMAIN obj.comdats[I].members
  BY <1>5 DEF Legal
<1>7. PICK s : s = obj.comdats[I].members
  OBVIOUS
<1>8. s \in Seq(1..Len(obj.sections)) /\ Len(s) \in Nat /\ K \in 1..Len(s)
  <2>1. s \in Seq(1..Len(obj.sections)) /\ K \in DOMAIN s
    BY <1>5, <1>6, <1>7 DEF Valid
  <2> QED BY <2>1
<1>9. Past(4)
  <2> DEFINE p == PartOf(obj, Head(todo))
             q == 4
  <2>1. p = 13
    BY <1>5 DEF PartOf
  <2>2. p \in Nat /\ Past(p) /\ q <= p /\ q \in Nat
    BY <1>1, <2>1, HeadPast
  <2> HIDE DEF p, q
  <2>3. Past(q)
    BY <2>2, PastLess
  <2> QED BY <2>3 DEF q
<1>10. PICK v : v = secIndex[s[K]]
  OBVIOUS
<1>11. v \in Nat
  <2>1. s[K] \in 1..Len(secIndex)
    BY <1>5, <1>8, <1>9, AllIndexed
  <2> QED BY <1>5, <1>10, <2>1
<1>12. groups' = [g EXCEPT ![I] = Append(@, v)]
  BY <1>7, <1>10 DEF WComdatEntry, GroupEntry
<1>13. PICK n : n = Len(g[I])
  OBVIOUS
<1>14. /\ groups' \in [D -> Seq(Nat)] /\ n \in Nat
       /\ Len(groups'[I]) = n + 1 /\ groups'[I][n + 1] = v
       /\ \A k \in 1..n : groups'[I][k] = groups[I][k]
       /\ \A j \in D : j # I => groups'[j] = groups[j]
  BY <1>5, <1>6, <1>11, <1>12, <1>13, EntryAdded
<1>15. \A i \in D :
           /\ Left(SelK(f, i), To(Len(obj.comdats[i].members)), todo, Len(groups[i]))
           /\ \A k \in 1..Len(groups[i]) :
                  groups[i][k] = secIndex[obj.comdats[i].members[k]]
  BY <1>5 DEF EntriesWritten
<1>16. Left(SelK(f, I), To(Len(s)), todo', n + 1) /\ K = n + 1
  <2>1. Left(SelK(f, I), To(Len(s)), todo, n)
    BY <1>6, <1>7, <1>13, <1>15
  <2> HIDE DEF f
  <2> QED BY <1>1, <1>8, <2>1, SelKNext
<1>17. ASSUME NEW i \in D
       PROVE  /\ Left(SelK(f, i), To(Len(obj.comdats[i].members)), todo', Len(groups'[i]))
              /\ \A k \in 1..Len(groups'[i]) :
                     groups'[i][k] = secIndex[obj.comdats[i].members[k]]
  <2>1. CASE i = I
    <3>1. \A k \in 1..(n + 1) : groups'[i][k] = secIndex[s[k]]
      <4> SUFFICES ASSUME NEW k \in 1..(n + 1) PROVE groups'[i][k] = secIndex[s[k]]
        OBVIOUS
      <4>1. CASE k = n + 1
        BY <1>10, <1>14, <1>16, <2>1, <4>1
      <4>2. CASE k # n + 1
        <5>1. k \in 1..n
          BY <1>14, <4>2
        <5> QED BY <1>6, <1>7, <1>13, <1>14, <1>15, <2>1, <5>1
      <4> QED BY <4>1, <4>2
    <3> QED BY <1>7, <1>14, <1>16, <2>1, <3>1
  <2>2. CASE i # I
    <3>1. SelK(f, i) \in Picks /\ SelK(f, i)[Head(todo)] = <<>>
      BY <1>1, <2>2, SelKHead
    <3>2. Left(SelK(f, i), To(Len(obj.comdats[i].members)), todo', Len(groups[i]))
      BY <1>1, <1>15, <3>1, PickKept
    <3> QED BY <1>14, <1>15, <2>2, <3>2
  <2> QED BY <2>1, <2>2
<1>18. ASSUME NEW i \in 1..Len(obj.sections)
       PROVE  /\ Left(SelK("write_relocation", i), To(Len(obj.sections[i].relocs)), todo',
                      Len(rels[i]))
              /\ \A k \in 1..Len(rels[i]) : rels[i][k] = symIndex[obj.sections[i].relocs[k]]
  <2>1. SelK("write_relocation", i) \in Picks
        /\ SelK("write_relocation", i)[Head(todo)] = <<>>
    BY <1>1, SelKHead
  <2>2. /\ Left(SelK("write_relocation", i), To(Len(obj.sections[i].relocs)), todo,
                Len(rels[i]))
        /\ \A k \in 1..Len(rels[i]) : rels[i][k] = symIndex[obj.sections[i].relocs[k]]
    BY <1>5 DEF EntriesWritten
  <2> QED BY <1>1, <2>1, <2>2, PickKept
<1>19. EntriesWritten'
  BY <1>4, <1>5, <1>17, <1>18 DEF EntriesWritten
<1>20. SymbolsWritten'
  BY <1>1, <1>3, <1>4, WrittenKept
<1>21. ObjectTypes'
  BY <1>4, <1>5, <1>14 DEF ObjectTypes, objectVars, offsetVars
<1> QED BY <1>1, <1>3, <1>4, <1>19, <1>20, <1>21, OutputStep

LEMMA WRelocationStep == ASSUME OInv, IInv, WRelocation PROVE OInv'
<1> DEFINE f == "write_relocation"
           g == rels
           D == 1..Len(obj.sections)
<1>1. Moves(f)
  <2>1. Runs(f) /\ UNCHANGED objectVars
    BY DEF WRelocation
  <2> QED BY <2>1, OInvMoves
<1>2. WriteEntry("reloc")
  BY DEF WRelocation, WriteRelocation
<1>3. UNCHANGED <<headers, symbols, symsecs, sections, num, index>> /\ Len(sections) \in Nat
  BY <1>2, TypesUsed DEF WriteEntry, Entry, reserveVars, clientVars
<1>4. /\ UNCHANGED objectVars /\ UNCHANGED offsetVars /\ UNCHANGED <<groups, order, heads>>
      /\ UNCHANGED <<secIndex, symIndex>>
  BY DEF WRelocation, offsetVars
<1>5. /\ ObjectTypes /\ Going /\ EntriesWritten /\ Valid(obj) /\ obj' = obj
      /\ Head(todo) \in Legal(obj) /\ Head(todo).call = f
      /\ Head(todo).i = I /\ Head(todo).k = K
      /\ symIndex \in [1..Len(obj.symbols) -> Nat] /\ g \in [D -> Seq(Nat)]
  BY <1>1, MovesFacts DEF Moves, Going, ObjectTypes, I, K
<1>6. I \in D /\ K \in DOMAIN obj.sections[I].relocs
  BY <1>5 DEF Legal
<1>7. PICK s : s = obj.sections[I].relocs
  OBVIOUS
<1>8. s \in Seq(1..Len(obj.symbols)) /\ Len(s) \in Nat /\ K \in 1..Len(s)
  <2>1. s \in Seq(1..Len(obj.symbols)) /\ K \in DOMAIN s
    BY <1>5, <1>6, <1>7 DEF Valid
  <2> QED BY <2>1
<1>9. PICK v : v = symIndex[s[K]]
  OBVIOUS
<1>10. v \in Nat
  <2>1. s[K] \in 1..Len(obj.symbols)
    BY <1>8
  <2> QED BY <1>5, <1>9, <2>1
<1>11. rels' = [g EXCEPT ![I] = Append(@, v)]
  BY <1>7, <1>9 DEF WRelocation, RSym
<1>12. PICK n : n = Len(g[I])
  OBVIOUS
<1>13. /\ rels' \in [D -> Seq(Nat)] /\ n \in Nat
       /\ Len(rels'[I]) = n + 1 /\ rels'[I][n + 1] = v
       /\ \A k \in 1..n : rels'[I][k] = rels[I][k]
       /\ \A j \in D : j # I => rels'[j] = rels[j]
  BY <1>5, <1>6, <1>10, <1>11, <1>12, EntryAdded
<1>14. \A i \in D :
           /\ Left(SelK(f, i), To(Len(obj.sections[i].relocs)), todo, Len(rels[i]))
           /\ \A k \in 1..Len(rels[i]) : rels[i][k] = symIndex[obj.sections[i].relocs[k]]
  BY <1>5 DEF EntriesWritten
<1>15. Left(SelK(f, I), To(Len(s)), todo', n + 1) /\ K = n + 1
  <2>1. Left(SelK(f, I), To(Len(s)), todo, n)
    BY <1>6, <1>7, <1>12, <1>14
  <2> HIDE DEF f
  <2> QED BY <1>1, <1>8, <2>1, SelKNext
<1>16. ASSUME NEW i \in D
       PROVE  /\ Left(SelK(f, i), To(Len(obj.sections[i].relocs)), todo', Len(rels'[i]))
              /\ \A k \in 1..Len(rels'[i]) : rels'[i][k] = symIndex[obj.sections[i].relocs[k]]
  <2>1. CASE i = I
    <3>1. \A k \in 1..(n + 1) : rels'[i][k] = symIndex[s[k]]
      <4> SUFFICES ASSUME NEW k \in 1..(n + 1) PROVE rels'[i][k] = symIndex[s[k]]
        OBVIOUS
      <4>1. CASE k = n + 1
        BY <1>9, <1>13, <1>15, <2>1, <4>1
      <4>2. CASE k # n + 1
        <5>1. k \in 1..n
          BY <1>13, <4>2
        <5> QED BY <1>6, <1>7, <1>12, <1>13, <1>14, <2>1, <5>1
      <4> QED BY <4>1, <4>2
    <3> QED BY <1>7, <1>13, <1>15, <2>1, <3>1
  <2>2. CASE i # I
    <3>1. SelK(f, i) \in Picks /\ SelK(f, i)[Head(todo)] = <<>>
      BY <1>1, <2>2, SelKHead
    <3>2. Left(SelK(f, i), To(Len(obj.sections[i].relocs)), todo', Len(rels[i]))
      BY <1>1, <1>14, <3>1, PickKept
    <3> QED BY <1>13, <1>14, <2>2, <3>2
  <2> QED BY <2>1, <2>2
<1>17. ASSUME NEW i \in 1..Len(obj.comdats)
       PROVE  /\ Left(SelK("write_comdat_entry", i), To(Len(obj.comdats[i].members)), todo',
                      Len(groups[i]))
              /\ \A k \in 1..Len(groups[i]) :
                     groups[i][k] = secIndex[obj.comdats[i].members[k]]
  <2>1. SelK("write_comdat_entry", i) \in Picks
        /\ SelK("write_comdat_entry", i)[Head(todo)] = <<>>
    BY <1>1, SelKHead
  <2>2. /\ Left(SelK("write_comdat_entry", i), To(Len(obj.comdats[i].members)), todo,
                Len(groups[i]))
        /\ \A k \in 1..Len(groups[i]) : groups[i][k] = secIndex[obj.comdats[i].members[k]]
    BY <1>5 DEF EntriesWritten
  <2> QED BY <1>1, <2>1, <2>2, PickKept
<1>18. EntriesWritten'
  BY <1>4, <1>5, <1>16, <1>17 DEF EntriesWritten
<1>19. SymbolsWritten'
  BY <1>1, <1>3, <1>4, WrittenKept
<1>20. ObjectTypes'
  BY <1>4, <1>5, <1>13 DEF ObjectTypes, objectVars, offsetVars
<1> QED BY <1>1, <1>3, <1>4, <1>18, <1>19, <1>20, OutputStep

-------------------------------------------------------------------------------
(* Section headers are written                                             *)

LEMMA HeadedIs ==
    ASSUME NEW x, NEW c \in CallSet
    PROVE  /\ c.call = "write_comdat_header" => Headed(x)[c] = <<<<"comdat", c.i>>>>
           /\ c.call = "write_section_header" => Headed(x)[c] = <<<<"data", c.i>>>>
           /\ c.call = "write_reloc_header" => Headed(x)[c] = <<<<"reloc", c.i>>>>
           /\ c.call = "write_symtab_header" => Headed(x)[c] = <<<<"symtab", 0>>>>
           /\ c.call = "write_symtab_shndx_header" /\ x = 1 =>
                  Headed(x)[c] = <<<<"symtab_shndx", 0>>>>
           /\ c.call = "write_strtab_header" => Headed(x)[c] = <<<<"strtab", 0>>>>
           /\ c.call = "write_shstrtab_header" => Headed(x)[c] = <<<<"shstrtab", 0>>>>
BY DEF Headed

(* What a step that writes a header keeps.                                 *)
LEMMA HeadersStep ==
    ASSUME NEW f \in HeaderNames \cup {"write_symtab_shndx_header", "write_null_header"},
           Moves(f), UNCHANGED offsetVars, UNCHANGED <<groups, rels, order>>,
           UNCHANGED <<symsecs, sections, num, index, symbols>>, Len(sections) \in Nat,
           ObjectTypes',
           \A x \in {0, 1} : Could(x) /\ HeadsWritten(x) => HeadsWritten(x)'
    PROVE  OInv'
<1>1. UNCHANGED <<symIndex, numLocal, comdatBlock, secIndex, secBlock, relBlock>>
  BY DEF offsetVars
<1>2. PartOf(obj, Head(todo)) >= 12
  <2>1. Head(todo).call = f
    BY MovesFacts
  <2> QED BY <2>1 DEF PartOf, HeaderNames
<1>3. f # "symtab_shndx_index" /\ f \notin IndexCalls
      /\ f \notin {"symbol", "null_symbol", "num_local", "write_symbol", "write_null_symbol",
                   "write_comdat_entry", "write_relocation", "comdat", "section_index",
                   "data", "relocations"}
  BY DEF HeaderNames, IndexCalls
<1>4. Future' /\ Quiet'
  BY <1>2, <1>3, FutureKept, QuietKept
<1>5. SymbolsDone'
  BY <1>1, <1>3, TableKeeps
<1>6. SymbolsWritten' /\ EntriesWritten'
  BY <1>1, <1>3, WrittenKept, EntriesKept
<1>7. BlocksDone'
  BY <1>1, <1>3, BlocksKept
<1>8. ASSUME NEW x \in {0, 1}, Could(x)' PROVE SectionsDone(x)' /\ HeadsWritten(x)'
  <2>1. Could(x)
    BY <1>3, <1>8, CouldKept
  <2>2. SectionsDone(x) /\ HeadsWritten(x)
    BY <2>1 DEF Moves, Going
  <2>3. SectionsDone(x)'
    BY <1>1, <1>3, <2>2, SectionsKept
  <2> QED BY <2>1, <2>2, <2>3
<1>9. Going'
  BY <1>4, <1>5, <1>6, <1>7, <1>8 DEF Going
<1> QED BY <1>9 DEF OInv

HeadKinds == SectionKinds \cup ClientKinds \cup {"null"}

HeadSet == [kind : HeadKinds, block : Nat, info : Nat]

LEMMA OneHeader ==
    ASSUME OInv, IInv,
           NEW f \in HeaderNames \cup {"write_symtab_shndx_header"}, Runs(f),
           NEW k \in SectionKinds \cup ClientKinds, NEW b \in Nat, NEW j \in Nat,
           Header(k, b, j), NEW i,
           \A x \in {0, 1} : Could(x) => Headed(x)[Head(todo)] = <<<<k, i>>>>,
           BlockOf(<<k, i>>) = b, InfoOf(<<k, i>>) = j
    PROVE  OInv' /\ WriteNext
<1> DEFINE v == [kind |-> k, block |-> b, info |-> j]
<1>1. /\ UNCHANGED objectVars /\ UNCHANGED offsetVars /\ UNCHANGED <<groups, rels, order>>
      /\ heads' = Append(heads, v)
      /\ UNCHANGED <<symIndex, numLocal, comdatBlock, secIndex, secBlock, relBlock>>
  BY DEF Header, offsetVars
<1>2. Moves(f)
  BY <1>1, OInvMoves
<1>3. WriteSectionHeader([kind |-> k, block |-> b]) /\ Entry("shdrs")
  BY DEF Header, WriteSectionHeader
<1>4. PICK h : headers' = Append(headers, h)
  BY <1>3 DEF WriteSectionHeader
<1>5. UNCHANGED <<symsecs, sections, num, index, symbols>>
  BY <1>3 DEF WriteSectionHeader, Entry, reserveVars, clientVars
<1>6. Len(headers) >= 1 /\ headers \in Seq(Headers) /\ Len(sections) \in Nat
      /\ Len(headers) \in Nat
  BY <1>3, TableGoesOn, TypesUsed
<1>7. Len(headers') = Len(headers) + 1
  BY <1>4, <1>6
<1>8. /\ ObjectTypes /\ obj' = obj /\ heads \in Seq(HeadSet)
  BY <1>2, MovesFacts DEF Moves, ObjectTypes, HeadSet, HeadKinds
<1>9. v \in HeadSet /\ v.kind = k /\ v.block = b /\ v.info = j
  BY DEF HeadSet, HeadKinds
<1>10. v = [kind |-> k, block |-> b, info |-> j]
  OBVIOUS
<1> HIDE DEF v
<1>11. /\ heads' \in Seq(HeadSet) /\ Len(heads) \in Nat /\ Len(heads') = Len(heads) + 1
       /\ heads'[Len(heads) + 1] = v /\ \A q \in 1..Len(heads) : heads'[q] = heads[q]
  BY <1>1, <1>8, <1>9, AppendAt
<1>12. ObjectTypes'
  BY <1>1, <1>8, <1>11 DEF ObjectTypes, objectVars, offsetVars, HeadSet, HeadKinds
<1>13. /\ \A y : BlockOf(y)' = BlockOf(y) /\ InfoOf(y)' = InfoOf(y)
  BY <1>1, <1>8, BlockOfKept, InfoOfKept
<1>14. ASSUME NEW x \in {0, 1}, Could(x), HeadsWritten(x) PROVE HeadsWritten(x)'
  <2>1. PICK d : d = Directory(obj, x)
    OBVIOUS
  <2>2. Len(heads) = Len(headers) /\ heads # <<>> /\ heads[1].kind = "null"
    <3>1. Len(heads) = Len(headers)
      BY <1>14 DEF HeadsWritten
    <3>2. heads # <<>>
      BY <1>6, <3>1
    <3> QED BY <1>14, <3>1, <3>2 DEF HeadsWritten
  <2> DEFINE n == Len(heads) - 1
  <2>3. n \in Nat /\ n + 1 = Len(heads) /\ Len(heads') = n + 2
    BY <1>6, <1>11, <2>2
  <2>4. /\ Left(Headed(x), d, todo, n)
        /\ \A q \in 1..n : heads[q + 1] = [kind |-> d[q][1], block |-> BlockOf(d[q]),
                                           info |-> InfoOf(d[q])]
    BY <1>14, <2>1, <2>2 DEF HeadsWritten
  <2> HIDE DEF n
  <2>5. Left(Headed(x), d, todo', n + 1) /\ d[n + 1] = <<k, i>>
    <3> DEFINE y == <<k, i>>
    <3>1. Headed(x) \in Picks /\ Headed(x)[Head(todo)] = <<y>>
      BY <1>14, HeadedType
    <3> HIDE DEF y
    <3>2. Left(Headed(x), d, todo', n + 1) /\ d[n + 1] = y
      BY <1>2, <2>4, <3>1, PickStep
    <3> QED BY <3>2 DEF y
  <2>6. ASSUME NEW q \in 1..(n + 1)
        PROVE  heads'[q + 1] = [kind |-> d[q][1], block |-> BlockOf(d[q])',
                                info |-> InfoOf(d[q])']
    <3>1. CASE q = n + 1
      <4>1. heads'[q + 1] = v
        BY <1>11, <2>3, <3>1
      <4>2. d[q] = <<k, i>>
        BY <2>5, <3>1
      <4>3. BlockOf(d[q])' = b /\ InfoOf(d[q])' = j /\ d[q][1] = k
        BY <1>13, <4>2
      <4> QED BY <1>10, <4>1, <4>3
    <3>2. CASE q # n + 1
      <4>1. q \in 1..n /\ q + 1 \in 1..Len(heads)
        BY <2>3, <3>2
      <4>2. heads'[q + 1] = heads[q + 1]
        BY <1>11, <4>1
      <4> QED BY <1>13, <2>4, <4>1, <4>2
    <3> QED BY <3>1, <3>2
  <2>7. heads' # <<>> /\ heads'[1].kind = "null" /\ Len(heads') - 1 = n + 1
        /\ Len(heads') = Len(headers')
    <3>1. 1 \in 1..Len(heads) /\ Len(heads') # 0 /\ Len(heads') - 1 = n + 1
      BY <2>3
    <3>2. heads' # <<>>
      BY <3>1
    <3> QED BY <1>7, <1>11, <2>2, <3>1, <3>2
  <2>8. d = Directory(obj', x)
    BY <1>8, <2>1
  <2> QED BY <1>8, <2>5, <2>6, <2>7, <2>8 DEF HeadsWritten
<1>15. OInv'
  BY <1>1, <1>2, <1>5, <1>6, <1>12, <1>14, HeadersStep
<1>16. [kind |-> k, block |-> b] = sections[Len(headers)]
  <2>1. PICK x \in {0, 1} : Could(x)
    BY DEF Could
  <2>2. SectionsDone(x) /\ HeadsWritten(x)
    BY <1>2, <2>1 DEF Moves, Going
  <2>3. PICK d : d = Directory(obj, x)
    OBVIOUS
  <2>4. Len(heads) = Len(headers) /\ heads # <<>>
    <3>1. Len(heads) = Len(headers)
      BY <2>2 DEF HeadsWritten
    <3> QED BY <1>6, <3>1
  <2> DEFINE n == Len(heads) - 1
  <2>5. n \in Nat /\ n + 1 = Len(headers)
    BY <1>6, <2>4
  <2>6. Left(Headed(x), d, todo, n)
    BY <2>2, <2>3, <2>4 DEF HeadsWritten
  <2> HIDE DEF n
  <2>7. d[n + 1] = <<k, i>>
    <3> DEFINE y == <<k, i>>
    <3>1. Headed(x) \in Picks /\ Headed(x)[Head(todo)] = <<y>>
      BY <2>1, HeadedType
    <3> HIDE DEF y
    <3>2. d[n + 1] = y
      BY <1>2, <2>6, <3>1, PickStep
    <3> QED BY <3>2 DEF y
  <2>8. n + 1 \in 1..Len(sections)
    <3>1. Len(headers) <= num["shdrs"] - 1
      BY <1>3, TableGoesOn
    <3>2. num \in [Singletons -> Nat] /\ "shdrs" \in Singletons
      BY TypesUsed DEF Singletons
    <3>3. Len(sections) = IF num["shdrs"] = 0 THEN 0 ELSE num["shdrs"] - 1
      BY DEF IInv, Reserved, Counted
    <3> QED BY <1>6, <2>5, <3>1, <3>2, <3>3
  <2>9. sections[n + 1] = [kind |-> d[n + 1][1], block |-> BlockOf(d[n + 1])]
    BY <2>2, <2>3, <2>8 DEF SectionsDone
  <2> QED BY <2>5, <2>7, <2>9
<1>17. WriteNext
  BY <1>3, <1>16 DEF WriteNext
<1> QED BY <1>15, <1>17

LEMMA WNullHeaderStep == ASSUME OInv, IInv, WNullHeader PROVE OInv'
<1> DEFINE f == "write_null_header"
           v == [kind |-> "null", block |-> 0, info |-> 0]
<1>1. /\ UNCHANGED objectVars /\ UNCHANGED offsetVars /\ UNCHANGED <<groups, rels, order>>
      /\ heads' = <<v>> /\ Runs(f) /\ WriteNullSectionHeader
  BY DEF WNullHeader
<1>2. Moves(f)
  BY <1>1, OInvMoves
<1>3. /\ Turn("shdrs") /\ UNCHANGED <<symsecs, sections, num, index, symbols>>
      /\ Len(headers') = 1
  BY <1>1 DEF WriteNullSectionHeader, Begin, reserveVars, clientVars
<1>4. Len(headers) = 0 /\ Len(sections) \in Nat
  BY <1>3, TableBegins, TypesUsed
<1>5. /\ ObjectTypes /\ obj' = obj /\ heads \in Seq(HeadSet)
      /\ Head(todo) \in CallSet /\ Head(todo).call = f
  BY <1>2, MovesFacts DEF Moves, ObjectTypes, HeadSet, HeadKinds
<1>6. v \in HeadSet /\ v.kind = "null"
  BY DEF HeadSet, HeadKinds
<1> HIDE DEF v
<1>7. heads' \in Seq(HeadSet) /\ Len(heads') = 1 /\ heads'[1] = v /\ heads' # <<>>
  BY <1>1, <1>6
<1>8. ObjectTypes'
  BY <1>1, <1>5, <1>7 DEF ObjectTypes, objectVars, offsetVars, HeadSet, HeadKinds
<1>9. ASSUME NEW x \in {0, 1}, HeadsWritten(x) PROVE HeadsWritten(x)'
  <2>1. PICK d : d = Directory(obj, x)
    OBVIOUS
  <2>2. heads = <<>>
    <3>1. Len(heads) = 0
      BY <1>4, <1>9 DEF HeadsWritten
    <3> QED BY <1>5, <3>1
  <2>3. Left(Headed(x), d, todo, 0)
    BY <1>9, <2>1, <2>2 DEF HeadsWritten
  <2>4. Headed(x) \in Picks /\ Headed(x)[Head(todo)] = <<>>
    BY <1>5, HeadedIdle DEF HeaderNames
  <2>5. Left(Headed(x), d, todo', 0)
    BY <1>2, <2>3, <2>4, PickKept
  <2>6. Len(heads') - 1 = 0
    BY <1>7
  <2>7. d = Directory(obj', x)
    BY <1>5, <2>1
  <2>8. \A q \in 1..(Len(heads') - 1) : FALSE
    BY <1>7
  <2> QED BY <1>3, <1>6, <1>7, <2>5, <2>6, <2>7, <2>8 DEF HeadsWritten
<1> QED BY <1>1, <1>2, <1>3, <1>4, <1>8, <1>9, HeadersStep

(* Once the first parts are done, every group and section has its range.   *)
LEMMA AllPlaced ==
    ASSUME ObjectTypes, Going, Past(4)
    PROVE  /\ Len(comdatBlock) = Len(obj.comdats) /\ Len(secBlock) = Len(obj.sections)
           /\ Len(secIndex) = Len(obj.sections)
<1>1. /\ Left(Sel("comdat"), To(Len(obj.comdats)), todo, Len(comdatBlock))
      /\ Left(Sel("data"), To(Len(obj.sections)), todo, Len(secBlock))
  BY DEF Going, BlocksDone
<1>2. \A c \in Legal(obj) : c.call \in {"comdat", "data"} => PartOf(obj, c) < 4
  BY DEF PartOf
<1> DEFINE p == 4
           a == To(Len(obj.comdats))
           b == To(Len(obj.sections))
           n == Len(comdatBlock)
           m == Len(secBlock)
<1>3. /\ p \in Nat /\ Past(p)
      /\ Left(Sel("comdat"), a, todo, n) /\ Left(Sel("data"), b, todo, m)
      /\ \A c \in Legal(obj) : c.call = "comdat" => PartOf(obj, c) < p
      /\ \A c \in Legal(obj) : c.call = "data" => PartOf(obj, c) < p
  BY <1>1, <1>2
<1>4. Len(a) = Len(obj.comdats) /\ Len(b) = Len(obj.sections)
  BY ToType DEF ObjectTypes, Valid
<1> HIDE DEF p, a, b, n, m
<1>5. n = Len(a) /\ m = Len(b)
  BY <1>3, SelDone
<1> QED BY <1>4, <1>5, AllIndexed DEF n, m

(* The headers come last.                                                  *)
LEMMA HeadersLast ==
    ASSUME OInv, NEW f \in HeaderNames \cup {"write_symtab_shndx_header"}, Runs(f),
           UNCHANGED objectVars
    PROVE  /\ Moves(f) /\ Head(todo) \in CallSet /\ Head(todo) \in Legal(obj)
           /\ Head(todo).call = f /\ Head(todo).i = I
           /\ ObjectTypes /\ Going /\ Past(4) /\ Past(10)
<1>1. Moves(f)
  BY OInvMoves
<1>2. Head(todo) \in CallSet /\ Head(todo) \in Legal(obj)
      /\ Head(todo).call = f /\ Head(todo).i = I
  BY <1>1, MovesFacts DEF I
<1> DEFINE p == PartOf(obj, Head(todo))
           q == 4
           r == 10
<1>3. p \in 22..24
  BY <1>2 DEF PartOf, HeaderNames
<1>4. p \in Nat /\ q \in Nat /\ r \in Nat /\ q <= p /\ r <= p /\ Past(p)
  BY <1>1, <1>3, HeadPast
<1> HIDE DEF p, q, r
<1>5. Past(q) /\ Past(r)
  BY <1>4, PastLess
<1> QED BY <1>1, <1>2, <1>5 DEF Moves, q, r

LEMMA WComdatHeaderStep == ASSUME OInv, IInv, WComdatHeader PROVE OInv' /\ WriteNext
<1> DEFINE f == "write_comdat_header"
<1>1. PICK b, j : b = comdatBlock[I] /\ j = RSym(obj.comdats[I].signature)
  OBVIOUS
<1>2. Runs(f) /\ Header("comdat", b, j) /\ UNCHANGED objectVars
  BY <1>1 DEF WComdatHeader, Header
<1>3. f \in HeaderNames
  BY DEF HeaderNames
<1>4. /\ Head(todo) \in CallSet /\ Head(todo) \in Legal(obj)
      /\ Head(todo).call = f /\ Head(todo).i = I /\ ObjectTypes /\ Going /\ Past(4)
  BY <1>2, <1>3, HeadersLast
<1>5. I \in 1..Len(obj.comdats)
  BY <1>4 DEF Legal
<1>6. /\ obj.comdats[I].signature \in 1..Len(obj.symbols)
      /\ symIndex \in [1..Len(obj.symbols) -> Nat] /\ comdatBlock \in Seq(Nat)
      /\ Len(obj.comdats) \in Nat
  BY <1>4, <1>5 DEF ObjectTypes, Valid
<1>7. Len(comdatBlock) = Len(obj.comdats)
  BY <1>4, AllPlaced
<1>8. b \in Nat /\ j \in Nat /\ I <= Len(comdatBlock)
  BY <1>1, <1>5, <1>6, <1>7 DEF RSym
<1>9. \A x \in {0, 1} : Could(x) => Headed(x)[Head(todo)] = <<<<"comdat", I>>>>
  BY <1>4, HeadedIs
<1>10. BlockOf(<<"comdat", I>>) = b /\ InfoOf(<<"comdat", I>>) = j
  BY <1>1, <1>8 DEF BlockOf, InfoOf, RSym
<1> QED BY <1>2, <1>3, <1>8, <1>9, <1>10, OneHeader DEF ClientKinds, Loose

LEMMA WHeaderStep == ASSUME OInv, IInv, WHeader PROVE OInv' /\ WriteNext
<1> DEFINE f == "write_section_header"
           j == 0
<1>1. PICK b : b = secBlock[I]
  OBVIOUS
<1>2. Runs(f) /\ Header("data", b, j) /\ UNCHANGED objectVars /\ j \in Nat
  BY <1>1 DEF WHeader, Header
<1>3. f \in HeaderNames
  BY DEF HeaderNames
<1>4. /\ Head(todo) \in CallSet /\ Head(todo) \in Legal(obj)
      /\ Head(todo).call = f /\ Head(todo).i = I /\ ObjectTypes /\ Going /\ Past(4)
  BY <1>2, <1>3, HeadersLast
<1>5. I \in 1..Len(obj.sections)
  BY <1>4 DEF Legal
<1>6. secBlock \in Seq(Nat) /\ Len(secBlock) = Len(obj.sections) /\ Len(obj.sections) \in Nat
  BY <1>4, AllPlaced DEF ObjectTypes, Valid
<1>7. b \in Nat /\ I <= Len(secBlock)
  BY <1>1, <1>5, <1>6
<1>8. \A x \in {0, 1} : Could(x) => Headed(x)[Head(todo)] = <<<<"data", I>>>>
  BY <1>4, HeadedIs
<1>9. BlockOf(<<"data", I>>) = b /\ InfoOf(<<"data", I>>) = j
  BY <1>1, <1>7 DEF BlockOf, InfoOf
<1> HIDE DEF j
<1> QED BY <1>2, <1>3, <1>7, <1>8, <1>9, OneHeader DEF ClientKinds, Loose

LEMMA WRelocHeaderStep == ASSUME OInv, IInv, WRelocHeader PROVE OInv' /\ WriteNext
<1> DEFINE f == "write_reloc_header"
<1>1. PICK b, j : b = relBlock[I] /\ j = secIndex[I]
  OBVIOUS
<1>2. Runs(f) /\ Header("reloc", b, j) /\ UNCHANGED objectVars
  BY <1>1 DEF WRelocHeader, Header
<1>3. f \in HeaderNames
  BY DEF HeaderNames
<1>4. /\ Head(todo) \in CallSet /\ Head(todo) \in Legal(obj)
      /\ Head(todo).call = f /\ Head(todo).i = I /\ ObjectTypes /\ Going /\ Past(4)
  BY <1>2, <1>3, HeadersLast
<1>5. I \in 1..Len(obj.sections)
  BY <1>4 DEF Legal
<1>6. /\ secIndex \in Seq(Nat) /\ Len(secIndex) = Len(obj.sections)
      /\ relBlock \in [1..Len(obj.sections) -> Nat]
  BY <1>4, AllPlaced DEF ObjectTypes
<1>7. b \in Nat /\ j \in Nat
  BY <1>1, <1>5, <1>6
<1>8. \A x \in {0, 1} : Could(x) => Headed(x)[Head(todo)] = <<<<"reloc", I>>>>
  BY <1>4, HeadedIs
<1>9. BlockOf(<<"reloc", I>>) = b /\ InfoOf(<<"reloc", I>>) = j
  BY <1>1 DEF BlockOf, InfoOf
<1> QED BY <1>2, <1>3, <1>7, <1>8, <1>9, OneHeader DEF ClientKinds, Loose

(* The headers of the tables.                                              *)
LEMMA TableHeaderStep ==
    ASSUME OInv, IInv, WSymtabHeader \/ WStrtabHeader \/ WShstrtabHeader
    PROVE  OInv' /\ WriteNext
<1>1. ASSUME NEW f \in {"write_symtab_header", "write_strtab_header",
                        "write_shstrtab_header"},
             NEW k \in {"symtab", "strtab", "shstrtab"}, NEW b, b = 0, NEW j \in Nat,
             Runs(f), Header(k, b, j), InfoOf(<<k, 0>>) = j,
             \A x : \A c \in CallSet : c.call = f => Headed(x)[c] = <<<<k, 0>>>>
      PROVE  OInv' /\ WriteNext
  <2>1. f \in HeaderNames /\ UNCHANGED objectVars /\ b \in Nat
    BY <1>1 DEF HeaderNames, Header
  <2>2. Head(todo) \in CallSet /\ Head(todo).call = f
    BY <1>1, <2>1, HeadersLast
  <2>3. \A x \in {0, 1} : Could(x) => Headed(x)[Head(todo)] = <<<<k, 0>>>>
    BY <1>1, <2>2
  <2>4. BlockOf(<<k, 0>>) = b
    BY <1>1 DEF BlockOf
  <2>5. k \in SectionKinds \cup ClientKinds
    BY DEF SectionKinds, Singletons, StringTables
  <2> DEFINE i == 0
  <2>6. /\ \A x \in {0, 1} : Could(x) => Headed(x)[Head(todo)] = <<<<k, i>>>>
        /\ BlockOf(<<k, i>>) = b /\ InfoOf(<<k, i>>) = j
    BY <1>1, <2>3, <2>4
  <2> HIDE DEF i
  <2> QED BY <1>1, <2>1, <2>5, <2>6, OneHeader
<1>2. PICK z, n : z = 0 /\ n = numLocal
  OBVIOUS
<1>3. numLocal \in Nat /\ z \in Nat /\ n \in Nat
  BY <1>2 DEF OInv, ObjectTypes
<1>4. InfoOf(<<"symtab", 0>>) = n /\ InfoOf(<<"strtab", 0>>) = z
      /\ InfoOf(<<"shstrtab", 0>>) = z
  BY <1>2 DEF InfoOf
<1>5. /\ \A x : \A c \in CallSet :
             c.call = "write_symtab_header" => Headed(x)[c] = <<<<"symtab", 0>>>>
      /\ \A x : \A c \in CallSet :
             c.call = "write_strtab_header" => Headed(x)[c] = <<<<"strtab", 0>>>>
      /\ \A x : \A c \in CallSet :
             c.call = "write_shstrtab_header" => Headed(x)[c] = <<<<"shstrtab", 0>>>>
  BY HeadedIs
<1>6. CASE WSymtabHeader
  <2>1. Runs("write_symtab_header") /\ Header("symtab", z, n)
    BY <1>2, <1>6 DEF WSymtabHeader
  <2> QED BY <1>1, <1>2, <1>3, <1>4, <1>5, <2>1
<1>7. CASE WStrtabHeader
  <2>1. Runs("write_strtab_header") /\ Header("strtab", z, z)
    BY <1>2, <1>7 DEF WStrtabHeader
  <2> QED BY <1>1, <1>2, <1>3, <1>4, <1>5, <2>1
<1>8. CASE WShstrtabHeader
  <2>1. Runs("write_shstrtab_header") /\ Header("shstrtab", z, z)
    BY <1>2, <1>8 DEF WShstrtabHeader
  <2> QED BY <1>1, <1>2, <1>3, <1>4, <1>5, <2>1
<1> QED BY <1>6, <1>7, <1>8

(* By then it is settled whether there are extended section indices.       *)
LEMMA ShndxSettled ==
    ASSUME ObjectTypes, Going, Past(10)
    PROVE  ~Due("symtab_shndx_index")
<1> DEFINE p == 10
<1>1. /\ p \in Nat /\ Past(p)
      /\ \A c \in Legal(obj) : c.call = "symtab_shndx_index" => PartOf(obj, c) < p
  BY DEF PartOf
<1> HIDE DEF p
<1> QED BY <1>1, NotDue

LEMMA WShndxHeaderStep ==
    ASSUME OInv, IInv, WShndxHeader PROVE OInv' /\ (WriteNext \/ UNCHANGED vars)
<1> DEFINE f == "write_symtab_shndx_header"
           z == 0
<1>1. Runs(f) /\ UNCHANGED objectVars /\ z \in Nat
  BY DEF WShndxHeader, Header, Plain
<1>2. /\ Moves(f) /\ Head(todo) \in CallSet /\ Head(todo).call = f
      /\ ObjectTypes /\ Going /\ Past(10)
  BY <1>1, HeadersLast
<1>3. \A x : Could(x) => (x = 1 <=> index["symtab_shndx"] # 0)
  BY <1>2, ShndxSettled DEF Could
<1>4. CASE index["symtab_shndx"] # 0
  <2>1. Header("symtab_shndx", z, z)
    BY <1>4 DEF WShndxHeader
  <2>2. \A x \in {0, 1} : Could(x) => Headed(x)[Head(todo)] = <<<<"symtab_shndx", z>>>>
    BY <1>2, <1>3, <1>4, HeadedIs
  <2>3. BlockOf(<<"symtab_shndx", z>>) = z /\ InfoOf(<<"symtab_shndx", z>>) = z
    BY DEF BlockOf, InfoOf
  <2>4. "symtab_shndx" \in SectionKinds \cup ClientKinds
    BY DEF SectionKinds, Singletons
  <2> HIDE DEF z
  <2> QED BY <1>1, <2>1, <2>2, <2>3, <2>4, OneHeader
<1>5. CASE index["symtab_shndx"] = 0
  <2>1. Plain /\ UNCHANGED vars
    BY <1>5 DEF WShndxHeader
  <2>2. /\ UNCHANGED offsetVars /\ UNCHANGED <<groups, rels, order, heads>>
        /\ UNCHANGED outputVars
        /\ UNCHANGED <<symsecs, sections, num, index, symbols>> /\ UNCHANGED <<heads, headers>>
    BY <2>1 DEF Plain, outputVars, vars, reserveVars, clientVars, writeVars
  <2>3. Len(sections) \in Nat
    BY TypesUsed
  <2>4. ObjectTypes'
    BY <1>1, <1>2, <2>2, OTypesKept
  <2>5. ASSUME NEW x \in {0, 1}, Could(x), HeadsWritten(x) PROVE HeadsWritten(x)'
    <3>1. x # 1
      BY <1>3, <1>5, <2>5
    <3> QED BY <1>2, <2>2, <2>5, <3>1, HeadsKept DEF HeaderNames
  <2>6. OInv'
    BY <1>2, <2>2, <2>3, <2>4, <2>5, HeadersStep
  <2> QED BY <2>1, <2>6
<1> QED BY <1>4, <1>5

-------------------------------------------------------------------------------
(* Every step                                                              *)

LEMMA FailStep == ASSUME OInv, Fail PROVE OInv'
<1>1. failed' = TRUE /\ todo' = <<>> /\ UNCHANGED <<obj, offsetVars, outputVars>>
  BY DEF Fail
<1>2. ObjectTypes'
  BY <1>1 DEF OInv, ObjectTypes, offsetVars, outputVars, Valid
<1> QED BY <1>1, <1>2 DEF OInv

LEMMA OInvSame == ASSUME OInv, UNCHANGED objVars PROVE OInv'
<1>1. UNCHANGED <<objectVars, todo, offsetVars, outputVars>>
      /\ UNCHANGED <<reserveVars, clientVars, writeVars>>
  BY DEF objVars, vars
<1>2. UNCHANGED <<obj, failed, todo, sections, symsecs, symbols, headers, num, index>>
      /\ UNCHANGED <<comdatBlock, secIndex, secBlock, relBlock, symIndex, numLocal,
                     groups, rels, order, heads>>
  BY <1>1 DEF objectVars, offsetVars, outputVars, reserveVars, clientVars, writeVars
<1>3. ObjectTypes'
  BY <1>1, OTypesKept DEF OInv
<1>4. CASE failed /\ todo = <<>>
  BY <1>2, <1>3, <1>4 DEF OInv
<1>5. CASE Going
  <2>1. (\A n : Past(n)' <=> Past(n)) /\ (\A f : Due(f)' <=> Due(f))
        /\ (\A f : Now(f)' <=> Now(f)) /\ I' = I
    BY <1>2 DEF Past, Due, Now, I
  <2>2. Future' /\ Quiet' /\ BlocksDone'
    BY <1>2, <1>5, <2>1 DEF Going, Future, Quiet, BlocksDone
  <2>3. SymbolsDone' /\ SymbolsWritten' /\ EntriesWritten'
    BY <1>2, <1>5, <2>1 DEF Going, SymbolsDone, SymbolsWritten, EntriesWritten, SectionOf
  <2>4. (\A y : BlockOf(y)' = BlockOf(y)) /\ (\A y : InfoOf(y)' = InfoOf(y))
    BY <1>2, BlockOfKept, InfoOfKept
  <2>5. ASSUME NEW x \in {0, 1}, Could(x)' PROVE SectionsDone(x)' /\ HeadsWritten(x)'
    <3>1. Could(x)
      BY <1>2, <2>1, <2>5 DEF Could
    <3>2. SectionsDone(x) /\ HeadsWritten(x)
      BY <1>5, <3>1 DEF Going
    <3> QED BY <1>2, <2>1, <2>4, <3>2 DEF SectionsDone, HeadsWritten
  <2> QED BY <1>3, <2>2, <2>3, <2>5 DEF OInv, Going
<1> QED BY <1>4, <1>5 DEF OInv

LEMMA OInvStep == ASSUME OInv, IInv, [ObjectNext]_objVars PROVE OInv'
<1>1. CASE ReservePhase
  BY <1>1, FirstPlain, ComdatIndexStep, RelocIndexStep, TableIndexStep, ShndxIndexStep,
     ComdatStep, DataStep, RelocationsStep, SectionIndexStep, NullSymbolStep,
     SymbolStep, NumLocalStep
     DEF ReservePhase
<1>2. CASE WritePhase
  BY <1>2, SecondPlain, WNullSymbolStep, WSymbolStep, WComdatEntryStep, WRelocationStep,
     WNullHeaderStep, WComdatHeaderStep, WHeaderStep, WRelocHeaderStep, TableHeaderStep,
     WShndxHeaderStep
     DEF WritePhase
<1>3. CASE Fail
  BY <1>3, FailStep
<1>4. CASE Returned \/ UNCHANGED objVars
  BY <1>4, OInvSame DEF Returned
<1> QED BY <1>1, <1>2, <1>3, <1>4 DEF ObjectNext

-------------------------------------------------------------------------------
(* The calls are steps of the writer                                       *)

(* A call that is made moves on.                                           *)
LEMMA MoveAt ==
    ASSUME OInv, NEW f, Runs(f), UNCHANGED objectVars
    PROVE  /\ ObjectTypes /\ Going /\ Valid(obj) /\ Head(todo) \in Legal(obj)
           /\ Head(todo).call = f /\ Head(todo).i = I /\ Head(todo).k = K
           /\ Past(PartOf(obj, Head(todo)))
<1>1. Moves(f)
  BY OInvMoves
<1> QED BY <1>1, MovesFacts, HeadPast DEF Moves, I, K

LEMMA PlainReserves ==
    ASSUME FileHeader \/ ComdatIndex \/ RelocIndex \/ SectionIndex \/ NullSymbol
           \/ NumLocal \/ String \/ SymtabIndex \/ Symtab \/ ShndxIndex \/ Shndx
           \/ StrtabIndex \/ Strtab \/ ShstrtabIndex \/ Shstrtab \/ SectionHeaders,
           IInv
    PROVE  ReserveNext \/ UNCHANGED vars
<1>1. 0 \in 0..Len(blocks)
  BY DEF IInv, TypeOK
<1>2. CASE FileHeader
  BY <1>2 DEF FileHeader, ReserveNext
<1>3. CASE ComdatIndex
  <2>1. PICK d \in NameBytes : ReserveClientIndex("comdat", 0, d)
    BY <1>3 DEF ComdatIndex
  <2> QED BY <1>1, <2>1 DEF ReserveNext, ClientKinds, Loose
<1>4. CASE RelocIndex
  <2>1. PICK d \in NameBytes : ReserveClientIndex("reloc", 0, d)
    BY <1>4 DEF RelocIndex
  <2> QED BY <1>1, <2>1 DEF ReserveNext, ClientKinds, Loose
<1>5. CASE SectionIndex
  <2>1. PICK d \in NameBytes : ReserveClientIndex("data", 0, d)
    BY <1>5 DEF SectionIndex
  <2> QED BY <1>1, <2>1 DEF ReserveNext, ClientKinds, Loose
<1>6. CASE NullSymbol
  BY <1>6 DEF NullSymbol, ReserveNext
<1>7. CASE NumLocal
  BY <1>7 DEF NumLocal
<1>8. CASE String
  BY <1>8 DEF String, ReserveNext
<1>9. CASE SymtabIndex \/ StrtabIndex \/ ShstrtabIndex
  BY <1>9 DEF SymtabIndex, StrtabIndex, ShstrtabIndex, ReserveNext, ReserveIndexNext
<1>10. CASE Symtab \/ Strtab \/ Shstrtab \/ SectionHeaders
  BY <1>10 DEF Symtab, Strtab, Shstrtab, SectionHeaders, ReserveNext, ReserveRangeNext
<1>11. CASE ShndxIndex
  BY <1>11 DEF ShndxIndex, ReserveNext, ReserveIndexNext
<1>12. CASE Shndx
  BY <1>12 DEF Shndx, ReserveNext, ReserveRangeNext
<1> QED BY <1>2, <1>3, <1>4, <1>5, <1>6, <1>7, <1>8, <1>9, <1>10, <1>11, <1>12

LEMMA SymbolReserves == ASSUME OInv, IInv, Symbol PROVE ReserveNext
<1> DEFINE f == "symbol"
           p == PartOf(obj, Head(todo))
           r == 4
<1>1. Runs(f) /\ UNCHANGED objectVars
  BY DEF Symbol
<1>2. /\ ObjectTypes /\ Going /\ Head(todo) \in Legal(obj)
      /\ Head(todo).call = f /\ Head(todo).i = I /\ Past(p)
  BY <1>1, MoveAt
<1>3. I \in 1..Len(obj.symbols) /\ p \in {5, 7}
  BY <1>2 DEF Legal, PartOf
<1>4. p \in Nat /\ r \in Nat /\ r <= p
  BY <1>3
<1> HIDE DEF p, r
<1>5. Past(r)
  BY <1>2, <1>4, PastLess
<1>6. PICK s : s = SectionOf(I)
  OBVIOUS
<1>7. s \in 0..Len(sections)
  BY <1>2, <1>3, <1>5, <1>6, SectionOfType DEF r
<1>8. ReserveSymbol(s)
  BY <1>6 DEF Symbol
<1> QED BY <1>7, <1>8 DEF ReserveNext

LEMMA RangeReserves ==
    ASSUME OInv, IInv, Comdat \/ Data \/ Relocations PROVE ReserveNext
<1>1. ASSUME NEW k, NEW c, NEW a, NEW j, ReserveLoose(k, c, a, j)
      PROVE  j \in 0..Len(sections)
  <2>1. j # 0 => j \in DOMAIN sections
    BY <1>1 DEF ReserveLoose
  <2>2. Len(sections) \in Nat /\ sections \in Seq(Sections)
    BY TypesUsed
  <2> QED BY <2>1, <2>2
<1>2. CASE Comdat
  <2> DEFINE f == "comdat"
  <2>1. Runs(f) /\ UNCHANGED objectVars
    BY <1>2 DEF Comdat
  <2>2. Valid(obj) /\ Head(todo) \in Legal(obj) /\ Head(todo).call = f
        /\ Head(todo).i = I
    BY <2>1, MoveAt
  <2>3. I \in 1..Len(obj.comdats)
    BY <2>2 DEF Legal
  <2>4. PICK c, j : c = Len(obj.comdats[I].members) /\ j = Len(sections)
    OBVIOUS
  <2>5. c \in Counts
    BY <2>2, <2>3, <2>4 DEF Valid
  <2>6. ReserveComdat(c, j)
    BY <1>2, <2>4 DEF Comdat
  <2>7. j \in 0..Len(sections)
    BY <2>4, TypesUsed
  <2> QED BY <2>5, <2>6, <2>7 DEF ReserveNext, ReserveLooseNext
<1>3. CASE Data
  <2> DEFINE f == "data"
  <2>1. Runs(f) /\ UNCHANGED objectVars
    BY <1>3 DEF Data
  <2>2. Valid(obj) /\ Head(todo) \in Legal(obj) /\ Head(todo).call = f
        /\ Head(todo).i = I
    BY <2>1, MoveAt
  <2>3. I \in 1..Len(obj.sections)
    BY <2>2 DEF Legal
  <2>4. PICK c, a, j : /\ c = obj.sections[I].size /\ a = obj.sections[I].align
                       /\ j = secIndex[I]
    OBVIOUS
  <2>5. c \in Counts /\ a \in Aligns
    BY <2>2, <2>3, <2>4 DEF Valid
  <2>6. ReserveData(c, a, j)
    BY <1>3, <2>4 DEF Data
  <2>7. j \in 0..Len(sections)
    BY <1>1, <2>6 DEF ReserveData
  <2> QED BY <2>5, <2>6, <2>7 DEF ReserveNext, ReserveLooseNext
<1>4. CASE Relocations
  <2> DEFINE f == "relocations"
  <2>1. Runs(f) /\ UNCHANGED objectVars
    BY <1>4 DEF Relocations
  <2>2. Valid(obj) /\ Head(todo) \in Legal(obj) /\ Head(todo).call = f
        /\ Head(todo).i = I
    BY <2>1, MoveAt
  <2>3. I \in 1..Len(obj.sections)
    BY <2>2 DEF Legal
  <2>4. PICK c, j : c = Len(obj.sections[I].relocs) /\ j = secIndex[I] + 1
    OBVIOUS
  <2>5. c \in Counts
    BY <2>2, <2>3, <2>4 DEF Valid
  <2>6. ReserveRelocations(c, j)
    BY <1>4, <2>4 DEF Relocations
  <2>7. j \in 0..Len(sections)
    BY <1>1, <2>6 DEF ReserveRelocations
  <2> QED BY <2>5, <2>6, <2>7 DEF ReserveNext, ReserveLooseNext
<1> QED BY <1>2, <1>3, <1>4

LEMMA ReservePhaseNext ==
    ASSUME OInv, IInv, ReservePhase PROVE ReserveNext \/ UNCHANGED vars
BY PlainReserves, SymbolReserves, RangeReserves DEF ReservePhase

(* The symbol that is written is the one that is next in the table, with   *)
(* the section that it was reserved with.                                  *)
LEMMA SymbolWrites == ASSUME OInv, IInv, WSymbol PROVE WriteNext
<1> DEFINE f == "write_symbol"
           n == Len(order)
           p == PartOf(obj, Head(todo))
           r == 8
<1>1. Runs(f) /\ UNCHANGED objectVars
  BY DEF WSymbol
<1>2. /\ ObjectTypes /\ Going /\ Valid(obj) /\ Head(todo) \in Legal(obj)
      /\ Head(todo).call = f /\ Head(todo).i = I /\ Past(p)
      /\ SymbolsDone /\ SymbolsWritten
  BY <1>1, MoveAt DEF Going
<1>3. Moves(f)
  BY <1>1, OInvMoves
<1>4. p \in {16, 17}
  BY <1>2 DEF PartOf
<1>5. p \in Nat /\ r \in Nat /\ r <= p
  BY <1>4
<1>6. \A c \in Legal(obj) : c.call = "symbol" => PartOf(obj, c) < r
  BY DEF PartOf
<1> HIDE DEF p, r
<1>7. Past(r)
  BY <1>2, <1>5, PastLess
<1>8. PICK T, m : T = Table(obj) /\ m = Len(symsecs)
  OBVIOUS
<1>9. /\ Left(Sel("symbol"), T, todo, m) /\ Left(Sel(f), T, todo, n)
      /\ \A k \in 1..m : symsecs[k] = SectionOf(T[k])
  BY <1>2, <1>8 DEF SymbolsDone, SymbolsWritten
<1>10. m = Len(T)
  BY <1>2, <1>5, <1>6, <1>7, <1>9, SelDone
<1>11. PICK s : s = SectionOf(I)
  OBVIOUS
<1>12. WriteSymbol(s) /\ Entry("symtab")
  BY <1>11 DEF WSymbol, WriteSymbol
<1>13. Len(symbols) >= 1
  BY <1>12, TableGoesOn
<1>14. Len(symbols) = 1 + n /\ n \in Nat
  BY <1>2, <1>13 DEF SymbolsWritten, ObjectTypes
<1> HIDE DEF n
<1>15. n + 1 \in 1..Len(T) /\ T[n + 1] = I
  <2>1. Sel(f) \in Picks /\ Sel(f)[Head(todo)] = <<I>>
    BY <1>3, SelHead
  <2> QED BY <1>3, <1>9, <2>1, PickStep
<1>16. symsecs[Len(symbols)] = s
  <2>1. Len(symbols) = n + 1
    BY <1>14
  <2> QED BY <1>9, <1>10, <1>11, <1>15, <2>1
<1> QED BY <1>12, <1>16 DEF WriteNext

LEMMA PlainWrites ==
    ASSUME WFileHeader \/ WComdat \/ WComdatEntry \/ WData \/ WNullSymbol \/ WShndx
           \/ WStrtab \/ WAlignRelocation \/ WRelocation \/ WShstrtab \/ WNullHeader
    PROVE  WriteNext \/ UNCHANGED vars
<1>1. CASE WFileHeader \/ WNullSymbol \/ WNullHeader
  BY <1>1 DEF WFileHeader, WNullSymbol, WNullHeader, WriteNext
<1>2. CASE WComdat \/ WData \/ WStrtab \/ WAlignRelocation \/ WShstrtab
  BY <1>2 DEF WComdat, WData, WStrtab, WAlignRelocation, WShstrtab, WriteNext,
              WriteBlockNext
<1>3. CASE WComdatEntry \/ WRelocation
  BY <1>3 DEF WComdatEntry, WRelocation, WriteNext, WriteEntryNext
<1>4. CASE WShndx
  BY <1>4 DEF WShndx, WriteNext, WriteBlockNext
<1> QED BY <1>1, <1>2, <1>3, <1>4

LEMMA WritePhaseNext ==
    ASSUME OInv, IInv, WritePhase PROVE WriteNext \/ UNCHANGED vars
<1>1. CASE WSymbol
  BY <1>1, SymbolWrites
<1>2. CASE WComdatHeader \/ WHeader \/ WRelocHeader \/ WSymtabHeader \/ WShndxHeader
           \/ WStrtabHeader \/ WShstrtabHeader
  BY <1>2, WComdatHeaderStep, WHeaderStep, WRelocHeaderStep, TableHeaderStep,
     WShndxHeaderStep
<1>3. CASE WFileHeader \/ WComdat \/ WComdatEntry \/ WData \/ WNullSymbol \/ WShndx
           \/ WStrtab \/ WAlignRelocation \/ WRelocation \/ WShstrtab \/ WNullHeader
  BY <1>3, PlainWrites
<1> QED BY <1>1, <1>2, <1>3 DEF WritePhase

LEMMA StepNext == ASSUME OInv, IInv, [ObjectNext]_objVars PROVE [Next]_vars
<1>1. CASE ReservePhase
  BY <1>1, ReservePhaseNext DEF Next
<1>2. CASE WritePhase
  BY <1>2, WritePhaseNext DEF Next
<1>3. CASE Fail
  BY <1>3 DEF Fail
<1>4. CASE Returned \/ UNCHANGED objVars
  BY <1>4 DEF Returned, objVars
<1> QED BY <1>1, <1>2, <1>3, <1>4 DEF ObjectNext

-------------------------------------------------------------------------------
(* The theorems                                                            *)

(* The client's state, and the writer's, stay what OInv and the writer's   *)
(* invariants say: elf_write and the Writer never lose track of each other.*)
THEOREM ClientInvariant ==
    ASSUME ShndxAfterSymtab PROVE ObjectSpec => [](OInv /\ IInv /\ RInv)
<1>1. ObjectInit => OInv /\ IInv /\ RInv
  BY InitOInv, InitInv, InitReads DEF ObjectInit
<1>2. ASSUME OInv, IInv, RInv, [ObjectNext]_objVars PROVE OInv' /\ IInv' /\ RInv'
  <2>1. OInv'
    BY <1>2, OInvStep
  <2>2. [Next]_vars
    BY <1>2, StepNext
  <2>3. IInv'
    BY <1>2, <2>2, ReserveNextInv, WriteNextInv, StutterInv DEF Next
  <2>4. RInv'
    BY <1>2, <2>2, <2>3, ReserveReads, WriteReads, StutterReads DEF Next, RInv
  <2> QED BY <2>1, <2>3, <2>4
<1> QED BY <1>1, <1>2, PTL DEF ObjectSpec

(* elf_write makes the calls that the Writer's protocol asks for, in the   *)
(* order it asks for: each of them is a step of the Writer's, for every    *)
(* object.                                                                 *)
THEOREM ProtocolObeyed == ASSUME ShndxAfterSymtab PROVE ObjectSpec => ObeysWriter
<1>1. ObjectInit => Init
  BY DEF ObjectInit
<1>2. OInv /\ IInv /\ RInv /\ [ObjectNext]_objVars => [Next]_vars
  BY StepNext
<1> QED BY <1>1, <1>2, ClientInvariant, PTL DEF ObjectSpec, ObeysWriter, Spec

-------------------------------------------------------------------------------
(* What a reader finds in the file, once elf_write has returned            *)

LEMMA NoneLeft ==
    ASSUME todo = <<>>, NEW F, NEW a, NEW n, Left(F, a, todo, n)
    PROVE  n = Len(a)
<1>1. Pick(F, todo) = <<>>
  BY PickEmpty
<1>2. Suffix(<<>>, a, n)
  BY <1>1 DEF Left
<1> QED BY <1>2 DEF Suffix

LEMMA DoneFacts ==
    ASSUME OInv, Done
    PROVE  /\ todo = <<>> /\ ObjectTypes /\ Going /\ Valid(obj)
           /\ \A n : Past(n)
           /\ \A f : ~Due(f)
<1>1. todo = <<>> /\ ~failed
  BY DEF Done
<1>2. ObjectTypes /\ Going
  BY <1>1 DEF OInv
<1>3. ASSUME NEW n PROVE Past(n)
  <2>1. Len(todo) = 0
    BY <1>1
  <2> QED BY <2>1 DEF Past
<1>4. ASSUME NEW f PROVE ~Due(f)
  BY <1>1, PickEmpty DEF Due
<1> QED BY <1>1, <1>2, <1>3, <1>4 DEF ObjectTypes

(* The symbols were written in the order of their indices, the locals      *)
(* first, each with the section it was reserved with.                      *)
LEMMA SymbolsPlaced ==
    ASSUME OInv, Done
    PROVE  /\ Len(order) = Len(obj.symbols) /\ DOMAIN order = 1..Len(obj.symbols)
           /\ Len(symsecs) = Len(obj.symbols) /\ Len(obj.symbols) \in Nat
           /\ \A n \in 1..Len(obj.symbols) :
               /\ order[n] \in 1..Len(obj.symbols)
               /\ symsecs[n] = SectionOf(order[n])
               /\ Local(obj, order[n]) <=> n < numLocal
           /\ \A y \in 1..Len(obj.symbols) : symIndex[y] \in 1..Len(obj.symbols)
                                             /\ order[symIndex[y]] = y
<1>1. todo = <<>> /\ ObjectTypes /\ Valid(obj) /\ SymbolsDone /\ SymbolsWritten
      /\ ~Due("num_local")
  BY DoneFacts DEF Going
<1>2. PICK T, m, p, q : /\ T = Table(obj) /\ m = Len(obj.symbols)
                        /\ p = Len(symsecs) /\ q = Len(order)
  OBVIOUS
<1>3. Left(Sel("symbol"), T, todo, p) /\ Left(Sel("write_symbol"), T, todo, q)
  BY <1>1, <1>2 DEF SymbolsDone, SymbolsWritten
<1>4. Arranges(T, m) /\ Len(T) = m /\ m \in Nat
  BY <1>1, <1>2, TableArranged
<1>5. p = m /\ q = m
  BY <1>1, <1>3, <1>4, NoneLeft
<1>6. /\ \A k \in 1..m : symsecs[k] = SectionOf(T[k]) /\ symIndex[T[k]] = k
      /\ \A k \in 1..m : Local(obj, T[k]) <=> k < numLocal
      /\ \A k \in 1..m : order[k] = T[k]
  <2>1. \A k \in 1..m : symsecs[k] = SectionOf(T[k]) /\ symIndex[T[k]] = k
    BY <1>1, <1>2, <1>5 DEF SymbolsDone
  <2>2. \A k \in 1..m : Local(obj, T[k]) <=> k < numLocal
    BY <1>1, <1>2, <1>4 DEF SymbolsDone
  <2>3. \A k \in 1..m : order[k] = T[k]
    BY <1>1, <1>2, <1>5 DEF SymbolsWritten
  <2> QED BY <2>1, <2>2, <2>3
<1>7. order \in Seq(1..m)
  <2>1. order \in Seq(1..Len(obj.symbols))
    BY <1>1, Zenon DEF ObjectTypes
  <2> QED BY <1>2, <2>1, Zenon
<1>8. DOMAIN order = 1..m /\ \A n \in 1..m : order[n] \in 1..m
  <2> DEFINE D == 1..m
  <2>1. order \in Seq(D) /\ Len(order) = m
    BY <1>2, <1>5, <1>7
  <2> HIDE DEF D
  <2>2. DOMAIN order = 1..m /\ \A n \in 1..m : order[n] \in D
    BY <2>1
  <2> QED BY <2>2 DEF D
<1>9. ASSUME NEW y \in 1..m PROVE symIndex[y] \in 1..m /\ order[symIndex[y]] = y
  <2>1. PICK k \in 1..m : T[k] = y
    BY <1>4 DEF Arranges
  <2> QED BY <1>6, <2>1
<1> QED BY <1>2, <1>4, <1>5, <1>6, <1>8, <1>9

(* There is a header for every section of the directory, in its order.     *)
LEMMA HeadersPlaced ==
    ASSUME OInv, Done
    PROVE  \E d : /\ Lists(obj, d) /\ Len(d) \in Nat /\ DOMAIN heads = 1..(Len(d) + 1)
                  /\ heads[1].kind = "null"
                  /\ \A q \in 1..Len(d) :
                      heads[q + 1] = [kind |-> d[q][1], block |-> BlockOf(d[q]),
                                      info |-> InfoOf(d[q])]
                  /\ \A i \in 1..Len(obj.sections) :
                      secIndex[i] \in 1..Len(d) /\ d[secIndex[i]] = <<"data", i>>
<1>1. todo = <<>> /\ ObjectTypes /\ Going /\ Past(4)
  BY DoneFacts
<1>2. PICK x \in {0, 1} : SectionsDone(x) /\ HeadsWritten(x)
  BY <1>1, SomeDirectory
<1>3. PICK d, p, q : /\ d = Directory(obj, x) /\ p = Len(sections)
                     /\ q = (IF heads = <<>> THEN 0 ELSE Len(heads) - 1)
  OBVIOUS
<1>4. Lists(obj, d) /\ p \in Nat
  BY <1>1, <1>2, <1>3, SectionsListed
<1>5. Left(Indexed(x), d, todo, p) /\ Left(Headed(x), d, todo, q)
  BY <1>2, <1>3 DEF SectionsDone, HeadsWritten
<1>6. p = Len(d) /\ q = Len(d)
  BY <1>1, <1>5, NoneLeft
<1>7. Len(d) \in Nat /\ Len(d) >= 3
  BY <1>4 DEF Lists
<1>8. heads # <<>> /\ heads \in Seq(HeadSet)
  BY <1>1, <1>3, <1>6, <1>7 DEF ObjectTypes, HeadSet, HeadKinds
<1>9. DOMAIN heads = 1..(Len(d) + 1) /\ Len(heads) - 1 = Len(d)
  BY <1>3, <1>6, <1>7, <1>8
<1>10. /\ heads[1].kind = "null"
       /\ \A k \in 1..Len(d) : heads[k + 1] = [kind |-> d[k][1], block |-> BlockOf(d[k]),
                                               info |-> InfoOf(d[k])]
  BY <1>2, <1>3, <1>8, <1>9 DEF HeadsWritten
<1>11. Len(secIndex) = Len(obj.sections) /\ Len(secIndex) \in Nat
  BY <1>1, AllPlaced DEF ObjectTypes
<1>12. ASSUME NEW i \in 1..Len(obj.sections)
       PROVE  secIndex[i] \in 1..Len(d) /\ d[secIndex[i]] = <<"data", i>>
  <2>1. i \in 1..Len(secIndex) /\ i <= Len(secIndex)
    BY <1>11
  <2>2. secIndex[i] \in 1..Len(d)
    BY <1>2, <1>3, <1>6, <2>1 DEF SectionsDone
  <2> QED BY <1>2, <1>3, <1>6, <2>1, <2>2 DEF SectionsDone
<1> QED BY <1>4, <1>7, <1>9, <1>10, <1>12

(* The header at the index of a section describes its data.                *)
LEMMA DataHeader ==
    ASSUME OInv, Done, NEW i \in 1..Len(obj.sections)
    PROVE  /\ secIndex[i] + 1 \in DOMAIN heads
           /\ heads[secIndex[i] + 1].kind = "data"
           /\ heads[secIndex[i] + 1].block = secBlock[i]
<1>1. PICK d : /\ Len(d) \in Nat /\ DOMAIN heads = 1..(Len(d) + 1)
               /\ \A q \in 1..Len(d) :
                   heads[q + 1] = [kind |-> d[q][1], block |-> BlockOf(d[q]),
                                   info |-> InfoOf(d[q])]
               /\ \A k \in 1..Len(obj.sections) :
                   secIndex[k] \in 1..Len(d) /\ d[secIndex[k]] = <<"data", k>>
  BY HeadersPlaced
<1>2. PICK q : q = secIndex[i]
  OBVIOUS
<1>3. q \in 1..Len(d) /\ d[q] = <<"data", i>>
  BY <1>1, <1>2
<1>4. Len(secBlock) = Len(obj.sections) /\ i <= Len(secBlock)
  <2>1. Len(secBlock) = Len(obj.sections)
    BY DoneFacts, AllPlaced
  <2>2. Len(obj.sections) \in Nat
    BY DoneFacts DEF Valid
  <2> QED BY <2>1, <2>2
<1>5. BlockOf(<<"data", i>>) = secBlock[i]
  BY <1>4 DEF BlockOf
<1>6. q + 1 \in 1..(Len(d) + 1) /\ heads[q + 1].kind = "data"
      /\ heads[q + 1].block = secBlock[i]
  <2>1. heads[q + 1] = [kind |-> d[q][1], block |-> BlockOf(d[q]), info |-> InfoOf(d[q])]
    BY <1>1, <1>3
  <2>2. d[q][1] = "data" /\ BlockOf(d[q]) = secBlock[i]
    BY <1>3, <1>5
  <2> QED BY <1>1, <1>3, <2>1, <2>2
<1> QED BY <1>1, <1>2, <1>6

LEMMA EntriesPlaced ==
    ASSUME OInv, Done
    PROVE  /\ \A i \in 1..Len(obj.comdats) :
               /\ Len(groups[i]) = Len(obj.comdats[i].members)
               /\ DOMAIN groups[i] = 1..Len(groups[i])
               /\ \A k \in 1..Len(groups[i]) :
                      groups[i][k] = secIndex[obj.comdats[i].members[k]]
           /\ \A i \in 1..Len(obj.sections) :
               /\ Len(rels[i]) = Len(obj.sections[i].relocs)
               /\ DOMAIN rels[i] = 1..Len(rels[i])
               /\ \A k \in 1..Len(rels[i]) :
                      rels[i][k] = symIndex[obj.sections[i].relocs[k]]
<1>1. todo = <<>> /\ ObjectTypes /\ Valid(obj) /\ EntriesWritten
  BY DoneFacts DEF Going
<1>2. ASSUME NEW i \in 1..Len(obj.comdats)
      PROVE  /\ Len(groups[i]) = Len(obj.comdats[i].members)
             /\ DOMAIN groups[i] = 1..Len(groups[i])
  <2>1. PICK a, n, m : /\ a = To(m) /\ m = Len(obj.comdats[i].members)
                       /\ n = Len(groups[i])
    OBVIOUS
  <2>2. Left(SelK("write_comdat_entry", i), a, todo, n)
    BY <1>1, <2>1 DEF EntriesWritten
  <2>3. m \in Nat
    BY <1>1, <2>1 DEF Valid
  <2>4. n = Len(a) /\ Len(a) = m
    BY <1>1, <2>1, <2>2, <2>3, NoneLeft, ToType
  <2>5. PICK g : g = groups[i]
    OBVIOUS
  <2>6. g \in Seq(Nat)
    BY <1>1, <2>5 DEF ObjectTypes
  <2>7. DOMAIN g = 1..Len(g)
    BY <2>6
  <2> QED BY <2>1, <2>4, <2>5, <2>7
<1>3. ASSUME NEW i \in 1..Len(obj.sections)
      PROVE  /\ Len(rels[i]) = Len(obj.sections[i].relocs)
             /\ DOMAIN rels[i] = 1..Len(rels[i])
  <2>1. PICK a, n, m : /\ a = To(m) /\ m = Len(obj.sections[i].relocs)
                       /\ n = Len(rels[i])
    OBVIOUS
  <2>2. Left(SelK("write_relocation", i), a, todo, n)
    BY <1>1, <2>1 DEF EntriesWritten
  <2>3. m \in Nat
    BY <1>1, <2>1 DEF Valid
  <2>4. n = Len(a) /\ Len(a) = m
    BY <1>1, <2>1, <2>2, <2>3, NoneLeft, ToType
  <2>5. PICK g : g = rels[i]
    OBVIOUS
  <2>6. g \in Seq(Nat)
    BY <1>1, <2>5 DEF ObjectTypes
  <2>7. DOMAIN g = 1..Len(g)
    BY <2>6
  <2> QED BY <2>1, <2>4, <2>5, <2>7
<1> QED BY <1>1, <1>2, <1>3 DEF EntriesWritten

LEMMA LocalsAreFirst == ASSUME OInv, Done PROVE LocalsFirst
<1> SUFFICES ASSUME NEW h \in DOMAIN heads, heads[h].kind = "symtab", NEW n \in DOMAIN order
             PROVE  obj.symbols[order[n]].local <=> n < heads[h].info
  BY DEF LocalsFirst
<1>1. PICK d : /\ Len(d) \in Nat /\ DOMAIN heads = 1..(Len(d) + 1)
               /\ heads[1].kind = "null"
               /\ \A q \in 1..Len(d) :
                   heads[q + 1] = [kind |-> d[q][1], block |-> BlockOf(d[q]),
                                   info |-> InfoOf(d[q])]
  BY HeadersPlaced
<1>2. PICK q : q = h - 1
  OBVIOUS
<1>3. q \in 1..Len(d) /\ h = q + 1
  BY <1>1, <1>2
<1>4. heads[h] = [kind |-> d[q][1], block |-> BlockOf(d[q]), info |-> InfoOf(d[q])]
  BY <1>1, <1>3
<1>5. d[q][1] = "symtab" /\ heads[h].info = InfoOf(d[q])
  BY <1>4
<1>6. heads[h].info = numLocal
  BY <1>5 DEF InfoOf
<1>7. order[n] \in 1..Len(obj.symbols) /\ (Local(obj, order[n]) <=> n < numLocal)
  BY SymbolsPlaced
<1>8. obj.symbols[order[n]].local \in BOOLEAN
  BY <1>7, DoneFacts DEF Valid
<1>9. obj.symbols[order[n]].local <=> Local(obj, order[n])
  BY <1>8 DEF Local
<1> QED BY <1>6, <1>7, <1>9

LEMMA SymbolsAreResolved == ASSUME OInv, IInv, RInv, Done PROVE SymbolsResolve
<1>1. Len(order) = Len(obj.symbols) /\ DOMAIN order = 1..Len(obj.symbols)
      /\ Len(symsecs) = Len(obj.symbols) /\ Len(obj.symbols) \in Nat
  BY SymbolsPlaced
<1>2. ASSUME NEW n \in DOMAIN order, NEW s, s = obj.symbols[order[n]].section
      PROVE  IF s = 0 THEN SymbolSection(n + 1) = 0
             ELSE /\ SymbolSection(n + 1) + 1 \in DOMAIN heads
                  /\ heads[SymbolSection(n + 1) + 1].kind = "data"
                  /\ heads[SymbolSection(n + 1) + 1].block = secBlock[s]
  <2>1. n \in 1..Len(symsecs) /\ n \in Nat
    BY <1>1
  <2>2. n + 1 \in 1..Len(symbols)
    <3>1. (Len(symbols) = 0 /\ order = <<>>) \/ Len(symbols) = 1 + Len(order)
      BY DoneFacts DEF Going, SymbolsWritten
    <3>2. order # <<>>
      BY <1>2
    <3> QED BY <1>1, <2>1, <3>1, <3>2
  <2>3. SymbolSection(n + 1) = symsecs[n]
    BY <2>1, <2>2, SymbolWrittenReads
  <2>4. order[n] \in 1..Len(obj.symbols) /\ symsecs[n] = SectionOf(order[n])
    BY <1>1, SymbolsPlaced
  <2>5. s \in 0..Len(obj.sections) /\ Len(obj.sections) \in Nat
    BY <1>2, <2>4, DoneFacts DEF Valid
  <2>6. SymbolSection(n + 1) = IF s = 0 THEN 0 ELSE secIndex[s]
    BY <1>2, <2>3, <2>4 DEF SectionOf
  <2>7. CASE s = 0
    BY <2>6, <2>7
  <2>8. CASE s # 0
    <3>1. s \in 1..Len(obj.sections) /\ SymbolSection(n + 1) = secIndex[s]
      BY <2>5, <2>6, <2>8
    <3> QED BY <2>8, <3>1, DataHeader
  <2> QED BY <2>7, <2>8
<1> QED BY <1>1, <1>2 DEF SymbolsResolve

LEMMA RelocationsAreResolved == ASSUME OInv, Done PROVE RelocationsResolve
<1> SUFFICES ASSUME NEW i \in DOMAIN obj.sections, HasRelocs(i)
    PROVE  /\ \E h \in DOMAIN heads :
               /\ heads[h].kind = "reloc" /\ heads[h].block = relBlock[i]
               /\ heads[heads[h].info + 1].block = secBlock[i]
           /\ Len(rels[i]) = Len(obj.sections[i].relocs)
           /\ \A k \in DOMAIN rels[i] :
               /\ rels[i][k] \in DOMAIN order
               /\ order[rels[i][k]] = obj.sections[i].relocs[k]
  BY DEF RelocationsResolve
<1>1. Valid(obj) /\ i \in 1..Len(obj.sections) /\ obj.sections[i].relocs # <<>>
  BY DoneFacts DEF Valid, HasRelocs
<1>2. \E h \in DOMAIN heads :
          /\ heads[h].kind = "reloc" /\ heads[h].block = relBlock[i]
          /\ heads[heads[h].info + 1].block = secBlock[i]
  <2>1. PICK d : /\ Lists(obj, d) /\ Len(d) \in Nat /\ DOMAIN heads = 1..(Len(d) + 1)
                 /\ \A q \in 1..Len(d) :
                     heads[q + 1] = [kind |-> d[q][1], block |-> BlockOf(d[q]),
                                     info |-> InfoOf(d[q])]
    BY HeadersPlaced
  <2>2. PICK q \in 1..Len(d) : d[q] = <<"reloc", i>>
    BY <1>1, <2>1 DEF Lists
  <2>3. BlockOf(<<"reloc", i>>) = relBlock[i] /\ InfoOf(<<"reloc", i>>) = secIndex[i]
    BY DEF BlockOf, InfoOf
  <2>4. heads[q + 1] = [kind |-> d[q][1], block |-> BlockOf(d[q]), info |-> InfoOf(d[q])]
    BY <2>1
  <2>5. heads[q + 1].kind = "reloc" /\ heads[q + 1].block = relBlock[i]
        /\ heads[q + 1].info = secIndex[i]
    BY <2>2, <2>3, <2>4
  <2>6. q + 1 \in DOMAIN heads
    BY <2>1
  <2>7. heads[secIndex[i] + 1].block = secBlock[i]
    BY <1>1, DataHeader
  <2> QED BY <2>5, <2>6, <2>7
<1>3. /\ Len(rels[i]) = Len(obj.sections[i].relocs) /\ DOMAIN rels[i] = 1..Len(rels[i])
      /\ \A k \in 1..Len(rels[i]) : rels[i][k] = symIndex[obj.sections[i].relocs[k]]
  BY <1>1, EntriesPlaced
<1>4. ASSUME NEW k \in DOMAIN rels[i]
      PROVE  /\ rels[i][k] \in DOMAIN order
             /\ order[rels[i][k]] = obj.sections[i].relocs[k]
  <2>1. PICK y : y = obj.sections[i].relocs[k]
    OBVIOUS
  <2>2. obj.sections[i].relocs \in Seq(1..Len(obj.symbols))
        /\ k \in 1..Len(obj.sections[i].relocs)
    BY <1>1, <1>3 DEF Valid
  <2>3. y \in 1..Len(obj.symbols)
    BY <2>1, <2>2
  <2>4. rels[i][k] = symIndex[y]
    BY <1>3, <2>1
  <2> QED BY <2>1, <2>3, <2>4, SymbolsPlaced
<1> QED BY <1>2, <1>3, <1>4

LEMMA GroupsAreResolved == ASSUME OInv, Done PROVE GroupsResolve
<1> SUFFICES ASSUME NEW i \in DOMAIN obj.comdats
    PROVE  /\ \E h \in DOMAIN heads :
               /\ heads[h].kind = "comdat" /\ heads[h].block = comdatBlock[i]
               /\ order[heads[h].info] = obj.comdats[i].signature
           /\ Len(groups[i]) = Len(obj.comdats[i].members)
           /\ \A k \in DOMAIN groups[i] :
               /\ groups[i][k] + 1 \in DOMAIN heads
               /\ heads[groups[i][k] + 1].kind = "data"
               /\ heads[groups[i][k] + 1].block = secBlock[obj.comdats[i].members[k]]
  BY DEF GroupsResolve
<1>1. Valid(obj) /\ i \in 1..Len(obj.comdats) /\ Len(obj.comdats) \in Nat
      /\ obj.comdats[i].signature \in 1..Len(obj.symbols)
  BY DoneFacts DEF Valid
<1>2. \E h \in DOMAIN heads :
          /\ heads[h].kind = "comdat" /\ heads[h].block = comdatBlock[i]
          /\ order[heads[h].info] = obj.comdats[i].signature
  <2>1. PICK d : /\ Lists(obj, d) /\ Len(d) \in Nat /\ DOMAIN heads = 1..(Len(d) + 1)
                 /\ \A q \in 1..Len(d) :
                     heads[q + 1] = [kind |-> d[q][1], block |-> BlockOf(d[q]),
                                     info |-> InfoOf(d[q])]
    BY HeadersPlaced
  <2>2. i \in 1..Len(d) /\ i <= Len(obj.comdats)
    <3>1. Len(obj.comdats) <= Len(d)
      BY <2>1 DEF Lists
    <3> QED BY <1>1, <2>1, <3>1
  <2>3. d[i] = <<"comdat", i>>
    BY <2>1, <2>2 DEF Lists
  <2>4. Len(comdatBlock) = Len(obj.comdats)
    BY DoneFacts, AllPlaced
  <2>5. BlockOf(<<"comdat", i>>) = comdatBlock[i]
        /\ InfoOf(<<"comdat", i>>) = symIndex[obj.comdats[i].signature]
    BY <2>2, <2>4 DEF BlockOf, InfoOf
  <2>6. heads[i + 1] = [kind |-> d[i][1], block |-> BlockOf(d[i]), info |-> InfoOf(d[i])]
    BY <2>1, <2>2
  <2>7. heads[i + 1].kind = "comdat" /\ heads[i + 1].block = comdatBlock[i]
        /\ heads[i + 1].info = symIndex[obj.comdats[i].signature]
    BY <2>3, <2>5, <2>6
  <2>8. i + 1 \in DOMAIN heads
    BY <2>1, <2>2
  <2>9. order[symIndex[obj.comdats[i].signature]] = obj.comdats[i].signature
    BY <1>1, SymbolsPlaced
  <2> QED BY <2>7, <2>8, <2>9
<1>3. /\ Len(groups[i]) = Len(obj.comdats[i].members)
      /\ DOMAIN groups[i] = 1..Len(groups[i])
      /\ \A k \in 1..Len(groups[i]) :
             groups[i][k] = secIndex[obj.comdats[i].members[k]]
  BY <1>1, EntriesPlaced
<1>4. ASSUME NEW k \in DOMAIN groups[i]
      PROVE  /\ groups[i][k] + 1 \in DOMAIN heads
             /\ heads[groups[i][k] + 1].kind = "data"
             /\ heads[groups[i][k] + 1].block = secBlock[obj.comdats[i].members[k]]
  <2>1. PICK y : y = obj.comdats[i].members[k]
    OBVIOUS
  <2>2. obj.comdats[i].members \in Seq(1..Len(obj.sections))
        /\ k \in 1..Len(obj.comdats[i].members)
    BY <1>1, <1>3 DEF Valid
  <2>3. y \in 1..Len(obj.sections)
    BY <2>1, <2>2
  <2>4. groups[i][k] = secIndex[y]
    BY <1>3, <2>1
  <2> QED BY <2>1, <2>3, <2>4, DataHeader
<1> QED BY <1>2, <1>3, <1>4

(* sh_info of .symtab is the number of the local symbols and the null one, *)
(* and they come first: a linker may take the symbols before it for local. *)
THEOREM LocalsComeFirst == ASSUME ShndxAfterSymtab PROVE ObjectSpec => []LocalsFirst
<1>1. OInv /\ IInv /\ RInv => LocalsFirst
  <2>1. CASE Done
    BY <2>1, LocalsAreFirst
  <2>2. CASE ~Done
    BY <2>2 DEF LocalsFirst
  <2> QED BY <2>1, <2>2
<1> QED BY <1>1, ClientInvariant, PTL

(* A reader resolves each symbol to the header of the section it was       *)
(* defined in, however many sections there are, and whatever takes section *)
(* indices in between.                                                     *)
THEOREM SymbolsFound == ASSUME ShndxAfterSymtab PROVE ObjectSpec => []SymbolsResolve
<1>1. OInv /\ IInv /\ RInv => SymbolsResolve
  <2>1. CASE Done
    BY <2>1, SymbolsAreResolved
  <2>2. CASE ~Done
    BY <2>2 DEF SymbolsResolve
  <2> QED BY <2>1, <2>2
<1> QED BY <1>1, ClientInvariant, PTL

(* The relocations of a section apply to its data and refer to the symbols *)
(* they name in the object, though both were moved.                        *)
THEOREM RelocationsFound ==
    ASSUME ShndxAfterSymtab PROVE ObjectSpec => []RelocationsResolve
<1>1. OInv /\ IInv /\ RInv => RelocationsResolve
  <2>1. CASE Done
    BY <2>1, RelocationsAreResolved
  <2>2. CASE ~Done
    BY <2>2 DEF RelocationsResolve
  <2> QED BY <2>1, <2>2
<1> QED BY <1>1, ClientInvariant, PTL

(* A comdat group has its signature's symbol and its members' sections.    *)
THEOREM GroupsFound == ASSUME ShndxAfterSymtab PROVE ObjectSpec => []GroupsResolve
<1>1. OInv /\ IInv /\ RInv => GroupsResolve
  <2>1. CASE Done
    BY <2>1, GroupsAreResolved
  <2>2. CASE ~Done
    BY <2>2 DEF GroupsResolve
  <2> QED BY <2>1, <2>2
<1> QED BY <1>1, ClientInvariant, PTL
===============================================================================
