--------------------------- MODULE ElfWriterProofs ---------------------------
(***************************************************************************)
(* Proofs about ElfWriter, for every value of its constants.  The client   *)
(* is assumed to reserve .symtab_shndx after .symtab where it claims       *)
(* something of the second phase: without that it does not hold, as the    *)
(* run of ElfWriterShndxOrder.cfg shows.                                   *)
(*                                                                         *)
(* The inductive invariant says that each range starts at the first        *)
(* aligned position after the one before it, has the size that the counts  *)
(* give it and is the one its offset field names; that the counts of a     *)
(* reserved range are frozen; and how many entries of each table the       *)
(* second phase has written.  A second one, for what a reader makes of the *)
(* file, says what is in these entries, and keeps the index fields of the  *)
(* writer in step with its client's list of sections.                      *)
(***************************************************************************)
EXTENDS ElfWriter, Numbers, SequenceTheorems

BlockSize(b) ==
    IF b.kind \in Loose THEN LooseSize(b.kind, b.count)
    ELSE RangeSize(b.kind, num)

(* The file header comes first, the ranges follow with their padding, and  *)
(* the reserved length is where the last one ends.                         *)
Spaced ==
    /\ blocks = <<>> => len = 0
    /\ blocks # <<>> =>
        /\ blocks[1].kind = "ehdr" /\ blocks[1].offset = 0
        /\ blocks[1].size = EhdrSize
        /\ len = End(blocks[Len(blocks)])
    /\ \A i \in 2..Len(blocks) :
        /\ blocks[i].kind # "ehdr"
        /\ blocks[i].kind # "data" => blocks[i].align = WriteAlign(blocks[i].kind)
        /\ blocks[i].offset = AlignUp(End(blocks[i - 1]), blocks[i].align)
        /\ blocks[i].offset >= EhdrSize

(* All ranges are apart, and within the reserved length.                   *)
Stacked == RangesApart /\ \A i \in DOMAIN blocks : End(blocks[i]) <= len

(* The sizes of the ranges are those the counts still give.                *)
Frozen == \A i \in 2..Len(blocks) : blocks[i].size = BlockSize(blocks[i])

(* A singleton's offset field and its range go together.                   *)
Owned ==
    /\ \A i \in 2..Len(blocks) : blocks[i].kind \in Singletons =>
           offset[blocks[i].kind] = blocks[i].offset
    /\ \A k \in Singletons : offset[k] # 0 =>
           \E i \in 2..Len(blocks) : blocks[i].kind = k
    /\ \A i, j \in 2..Len(blocks) :
           blocks[i].kind \in Singletons /\ blocks[i].kind = blocks[j].kind => i = j

(* A table with a null entry is not empty.                                 *)
NotEmpty ==
    \A i \in 2..Len(blocks) :
        /\ blocks[i].kind \in {"symtab", "dynsym", "shdrs"} =>
               num[blocks[i].kind] >= 1
        /\ blocks[i].kind = "versym" => num["dynsym"] >= 1

(* The client keeps a section for each index and for each symbol.          *)
Counted ==
    /\ Len(sections) = IF num["shdrs"] = 0 THEN 0 ELSE num["shdrs"] - 1
    /\ Len(symsecs) = IF num["symtab"] = 0 THEN 0 ELSE num["symtab"] - 1
    /\ \A i \in 1..Len(sections) : sections[i].kind \in ClientKinds =>
           sections[i].block \in 0..Len(blocks)

(* The extended indices are reserved behind the symbols.                   *)
Ordered ==
    \A i \in 2..Len(blocks) : blocks[i].kind = "symtab_shndx" =>
        /\ "symtab_shndx" \in need
        /\ num["symtab"] # 0 =>
               \E j \in 2..(i - 1) : blocks[j].kind = "symtab"

(* There are n entries of table k written when block c has l to go.        *)
Progress(k, n, c, l) ==
    /\ \A i \in 2..Len(blocks) : blocks[i].kind = k =>
        /\ i > c => n = 0
        /\ i = c => n = num[k] - l /\ n >= 1
        /\ i < c => n = num[k]
    /\ (\A i \in 2..Len(blocks) : blocks[i].kind # k) => n = 0

Written ==
    /\ Progress("symtab", Len(symbols), cur, left)
    /\ Progress("shdrs", Len(headers), cur, left)
    /\ Len(shndx) = IF "symtab_shndx" \in need THEN Len(symbols) ELSE 0
    /\ cur > 0 => blocks # <<>>
    /\ cur < 2 => left = 0
    /\ cur > 0 => \A i \in 1..Len(sections) :
           sections[i].kind \in ClientKinds => sections[i].block # 0

Reserved ==
    Spaced /\ Stacked /\ Frozen /\ Owned /\ NotEmpty /\ Counted /\ Ordered

IInv == TypeOK /\ Reserved /\ Written /\ Landed

-------------------------------------------------------------------------------
(* Arithmetic *)

LEMMA AlignUpType ==
    ASSUME NEW n \in Nat, NEW a \in Nat \ {0}
    PROVE  AlignUp(n, a) \in Nat /\ AlignUp(n, a) >= n
BY DEF AlignUp

LEMMA AlignUpAligned ==
    ASSUME NEW n \in Nat, NEW a \in Nat \ {0}
    PROVE  AlignUp(n, a) % a = 0
<1>1. n \in Int
  OBVIOUS
<1>2. (n + ((-n) % a)) % a = 0
  BY <1>1, RoundUp, Zenon
<1> QED BY <1>2 DEF AlignUp

LEMMA AlignUpOne == ASSUME NEW n \in Nat PROVE AlignUp(n, 1) = n
BY DEF AlignUp

LEMMA SizeTypes ==
    /\ WordAlign \in Nat \ {0}
    /\ EhdrSize \in Nat \ {0} /\ PhdrSize \in Nat /\ ShdrSize \in Nat
    /\ SymSize \in Nat /\ DynSize \in Nat /\ RelSize \in Nat
BY DEF WordAlign, EhdrSize, PhdrSize, ShdrSize, SymSize, DynSize, RelSize

(* A reserve function and its write function agree on the alignment.       *)
LEMMA SameAlign ==
    ASSUME NEW k
    PROVE  ReserveAlign(k) = WriteAlign(k) /\ ReserveAlign(k) \in Nat \ {0}
BY SizeTypes DEF ReserveAlign, WriteAlign

LEMMA RangeSizeType ==
    ASSUME NEW k \in Singletons, NEW n \in [Singletons -> Nat]
    PROVE  RangeSize(k, n) \in Nat
<1>1. \A j \in Singletons : n[j] \in Nat
  OBVIOUS
<1> QED BY <1>1, SizeTypes, Product
        DEF RangeSize, Singletons, StringTables, ArgKinds

LEMMA LooseSizeType ==
    ASSUME NEW k, NEW c \in Nat PROVE LooseSize(k, c) \in Nat
BY SizeTypes, Product DEF LooseSize

LEMMA EntrySizeType == ASSUME NEW k PROVE EntrySize(k) \in Nat
BY SizeTypes DEF EntrySize

-------------------------------------------------------------------------------
(* The first phase *)

(* A step that leaves the ranges alone, and the counts of those that are   *)
(* reserved.                                                               *)
Keeps ==
    /\ UNCHANGED <<len, offset, blocks>>
    /\ num' \in [Singletons -> Nat] /\ need \subseteq need'
    /\ \A k \in Singletons : num'[k] # num[k] =>
        /\ offset[k] = 0
        /\ k = "symtab" => offset["symtab_shndx"] = 0
        /\ k = "dynsym" => offset["versym"] = 0

(* A step that reserves the range b.                                       *)
Grows(b) ==
    /\ blocks # <<>> /\ cur = 0
    /\ UNCHANGED <<index, need, symsecs, strs, writeVars>>
    /\ sections' \in Seq(Sections) /\ Len(sections') = Len(sections)
    /\ \A i \in 1..Len(sections) :
        /\ sections'[i].kind = sections[i].kind
        /\ sections'[i].block \in {sections[i].block, Len(blocks) + 1}
    /\ b \in Blocks /\ b.kind # "ehdr" /\ blocks' = Append(blocks, b)
    /\ b.offset = AlignUp(len, b.align) /\ len' = End(b)
    /\ b.kind # "data" => b.align = WriteAlign(b.kind)
    /\ b.size = IF b.kind \in Loose THEN LooseSize(b.kind, b.count)
                ELSE RangeSize(b.kind, num')
    /\ num' \in [Singletons -> Nat]
    /\ \A k \in Singletons \ {b.kind} : num'[k] = num[k]
    /\ b.kind \in {"symtab", "dynsym", "shdrs", "symtab_shndx", "versym"} =>
           num' = num
    /\ IF b.kind \in Singletons
       THEN /\ offset[b.kind] = 0
            /\ offset' = [offset EXCEPT ![b.kind] = b.offset]
       ELSE offset' = offset
    /\ b.kind \in {"symtab", "dynsym", "shdrs"} => num[b.kind] >= 1
    /\ b.kind = "versym" => num["dynsym"] >= 1
    /\ b.kind = "symtab_shndx" =>
        /\ "symtab_shndx" \in need
        /\ num["symtab"] # 0 => offset["symtab"] # 0

LEMMA RangeSizeFrozen ==
    ASSUME NEW k \in Singletons,
           NEW m \in [Singletons -> Nat], NEW n \in [Singletons -> Nat],
           m[k] = n[k],
           k = "symtab_shndx" => m["symtab"] = n["symtab"],
           k = "versym" => m["dynsym"] = n["dynsym"]
    PROVE  RangeSize(k, m) = RangeSize(k, n)
BY DEF RangeSize, Singletons, StringTables, ArgKinds

(* Nothing is written in the first phase.                                  *)
LEMMA NothingWritten ==
    ASSUME TypeOK, Written, cur = 0
    PROVE  Len(symbols) = 0 /\ Len(headers) = 0 /\ Len(shndx) = 0 /\ left = 0
<1>1. ASSUME NEW k, NEW n, Progress(k, n, cur, left) PROVE n = 0
  <2>1. CASE \E i \in 2..Len(blocks) : blocks[i].kind = k
    BY <1>1, <2>1 DEF Progress, TypeOK
  <2>2. CASE \A i \in 2..Len(blocks) : blocks[i].kind # k
    BY <1>1, <2>2 DEF Progress
  <2> QED BY <2>1, <2>2
<1> QED BY <1>1 DEF Written

LEMMA FirstPhaseWritten ==
    ASSUME TypeOK, Written, cur = 0, UNCHANGED writeVars, blocks' # <<>>
    PROVE  Written' /\ Landed'
<1>1. /\ symbols' = symbols /\ headers' = headers /\ shndx' = shndx
      /\ cur' = 0 /\ left' = 0
      /\ Len(symbols) = 0 /\ Len(headers) = 0 /\ Len(shndx) = 0
  BY NothingWritten DEF writeVars
<1>2. Written'
  BY <1>1 DEF Written, Progress
<1>3. Landed'
  BY <1>1 DEF Landed
<1> QED BY <1>2, <1>3

(* A reserved range has a positive offset, which is that of its field.     *)
LEMMA OwnedPositive ==
    ASSUME TypeOK, Reserved, NEW i \in 2..Len(blocks)
    PROVE  /\ blocks[i] \in Blocks
           /\ blocks[i].kind \in Singletons \cup Loose
           /\ blocks[i].offset > 0
           /\ blocks[i].kind \in Singletons => offset[blocks[i].kind] # 0
<1>1. blocks[i] \in Blocks
  BY DEF TypeOK
<1> QED BY <1>1, SizeTypes DEF Blocks, Reserved, Spaced, Owned

LEMMA KeepsReserved ==
    ASSUME TypeOK, Reserved, Keeps
    PROVE  (Spaced /\ Stacked /\ Frozen /\ Owned /\ NotEmpty /\ Ordered)'
<1>1. /\ len' = len /\ offset' = offset /\ blocks' = blocks
      /\ num \in [Singletons -> Nat] /\ num' \in [Singletons -> Nat]
  BY DEF Keeps, TypeOK
<1>2. Spaced' /\ Stacked' /\ Owned'
  BY <1>1 DEF Reserved, Spaced, Stacked, RangesApart, Owned, End
<1>3. ASSUME NEW i \in 2..Len(blocks), blocks[i].kind \in Singletons
      PROVE  /\ num'[blocks[i].kind] = num[blocks[i].kind]
             /\ blocks[i].kind = "symtab_shndx" => num'["symtab"] = num["symtab"]
             /\ blocks[i].kind = "versym" => num'["dynsym"] = num["dynsym"]
  BY <1>3, OwnedPositive DEF Keeps, Singletons
<1>4. Frozen'
  <2> SUFFICES ASSUME NEW i \in 2..Len(blocks)
               PROVE  blocks[i].size = BlockSize(blocks[i])'
    BY <1>1 DEF Frozen, BlockSize
  <2>1. CASE blocks[i].kind \in Loose
    BY <2>1, <1>1 DEF Reserved, Frozen, BlockSize
  <2>2. CASE blocks[i].kind \in Singletons
    <3>1. RangeSize(blocks[i].kind, num') = RangeSize(blocks[i].kind, num)
      BY <2>2, <1>1, <1>3, RangeSizeFrozen
    <3> QED BY <3>1, <1>1 DEF Reserved, Frozen, BlockSize
  <2> QED BY <2>1, <2>2, OwnedPositive
<1>5. NotEmpty'
  BY <1>1, <1>3 DEF Reserved, NotEmpty, Singletons
<1>6. Ordered'
  <2> SUFFICES ASSUME NEW i \in 2..Len(blocks), blocks[i].kind = "symtab_shndx"
               PROVE  /\ "symtab_shndx" \in need'
                      /\ num'["symtab"] # 0 =>
                             \E j \in 2..(i - 1) : blocks[j].kind = "symtab"
    BY <1>1 DEF Ordered
  <2>1. num'["symtab"] = num["symtab"]
    BY <1>3 DEF Singletons
  <2> QED BY <2>1 DEF Reserved, Ordered, Keeps
<1> QED BY <1>2, <1>4, <1>5, <1>6

LEMMA GrowsReserved ==
    ASSUME TypeOK, Reserved, NEW b, Grows(b)
    PROVE  TypeOK' /\ Reserved'
<1> DEFINE n == Len(blocks)
<1>1. /\ blocks \in Seq(Blocks) /\ blocks' \in Seq(Blocks) /\ n \in Nat /\ n >= 1
      /\ Len(blocks') = n + 1 /\ blocks'[n + 1] = b
      /\ \A i \in 1..n : blocks'[i] = blocks[i]
      /\ num \in [Singletons -> Nat] /\ num' \in [Singletons -> Nat]
  <2>1. /\ blocks \in Seq(Blocks) /\ blocks # <<>> /\ b \in Blocks
        /\ blocks' = Append(blocks, b)
        /\ num \in [Singletons -> Nat] /\ num' \in [Singletons -> Nat]
    BY DEF Grows, TypeOK
  <2> QED BY <2>1
<1>2. /\ b \in Blocks /\ b.kind \in Singletons \cup Loose
      /\ b.offset \in Nat /\ b.size \in Nat /\ b.align \in Nat \ {0}
  BY DEF Grows, Blocks
<1>3. End(blocks[n]) = len /\ len >= EhdrSize /\ len \in Nat
  <2>1. blocks[n] \in Blocks
    BY <1>1
  <2>2. CASE n = 1
    <3>1. len = blocks[1].offset + blocks[1].size /\ blocks[1].offset = 0
          /\ blocks[1].size = EhdrSize
      BY <2>2 DEF Reserved, Spaced, End, Grows
    <3> QED BY <3>1, <2>2, SizeTypes DEF End
  <2>3. CASE n # 1
    <3>1. n \in Nat /\ n >= 1
      BY <1>1
    <3> HIDE DEF n
    <3>2. n \in 2..n
      BY <3>1, <2>3
    <3> USE DEF n
    <3>3. blocks[n].offset >= EhdrSize /\ End(blocks[n]) = len
      BY <3>2 DEF Reserved, Spaced, Grows
    <3> QED BY <3>3, <2>1, SizeTypes DEF End, Blocks
  <2> QED BY <2>2, <2>3
<1>4. b.offset = AlignUp(len, b.align) /\ b.offset >= EhdrSize /\ b.offset > 0
  <2>1. b.offset = AlignUp(len, b.align)
    BY DEF Grows
  <2>2. AlignUp(len, b.align) >= len
    BY <1>2, <1>3, AlignUpType
  <2> QED BY <2>1, <2>2, <1>2, <1>3, SizeTypes
<1>5. \A i \in 2..n :
          /\ blocks[i].kind \in Singletons \cup Loose /\ blocks[i].offset > 0
          /\ blocks[i].kind \in Singletons => offset[blocks[i].kind] # 0
  BY OwnedPositive
<1>6. ASSUME NEW i \in 2..n, blocks[i].kind \in Singletons
      PROVE  /\ blocks[i].kind # b.kind
             /\ offset'[blocks[i].kind] = offset[blocks[i].kind]
             /\ num'[blocks[i].kind] = num[blocks[i].kind]
  BY <1>5, <1>6 DEF Grows, TypeOK
<1> HIDE DEF n
<1>7. TypeOK'
  <2>1. len' \in Nat /\ offset' \in [Singletons -> Nat]
    <3>1. len' = b.offset + b.size /\ offset \in [Singletons -> Nat]
          /\ (offset' = offset \/ offset' = [offset EXCEPT ![b.kind] = b.offset])
      BY DEF Grows, TypeOK, End
    <3> QED BY <3>1, <1>2
  <2>2. /\ sections' \in Seq(Sections) /\ index' = index /\ need' = need
        /\ symsecs' = symsecs /\ strs' = strs /\ buf' = buf /\ shndx' = shndx
        /\ ehdr' = ehdr /\ headers' = headers /\ symbols' = symbols
        /\ cur' = 0 /\ cur = 0 /\ left' = left /\ landed' = landed
    BY DEF Grows, writeVars
  <2>3. cur' \in 0..Len(blocks')
    BY <1>1, <2>2
  <2> QED BY <1>1, <2>1, <2>2, <2>3 DEF TypeOK
<1>8. Spaced'
  <2>1. /\ blocks'[1].kind = "ehdr" /\ blocks'[1].offset = 0
        /\ blocks'[1].size = EhdrSize
    BY <1>1 DEF Reserved, Spaced, Grows
  <2>2. len' = End(blocks'[Len(blocks')])
    BY <1>1 DEF Grows
  <2>3. ASSUME NEW i \in 2..Len(blocks')
        PROVE  /\ blocks'[i].kind # "ehdr"
               /\ blocks'[i].kind # "data" =>
                      blocks'[i].align = WriteAlign(blocks'[i].kind)
               /\ blocks'[i].offset = AlignUp(End(blocks'[i - 1]), blocks'[i].align)
               /\ blocks'[i].offset >= EhdrSize
    <3>1. CASE i = n + 1
      BY <3>1, <1>1, <1>3, <1>4 DEF Grows
    <3>2. CASE i # n + 1
      <4>1. i \in 2..Len(blocks) /\ i - 1 \in 1..n
        BY <3>2, <1>1 DEF n
      <4> QED BY <4>1, <1>1 DEF Reserved, Spaced, n
    <3> QED BY <3>1, <3>2
  <2>4. blocks' # <<>>
    BY <1>1
  <2> QED BY <2>1, <2>2, <2>3, <2>4 DEF Spaced, End, EhdrSize
<1>9. Frozen'
  <2> SUFFICES ASSUME NEW i \in 2..Len(blocks')
               PROVE  blocks'[i].size = BlockSize(blocks[i])'
    BY DEF Frozen, BlockSize
  <2>1. CASE i = n + 1
    BY <2>1, <1>1 DEF Grows, BlockSize
  <2>2. CASE i # n + 1
    <3>1. i \in 2..n /\ i \in 2..Len(blocks) /\ blocks'[i] = blocks[i]
      BY <2>2, <1>1 DEF n
    <3>2. blocks[i].size = BlockSize(blocks[i])
      BY <3>1 DEF Reserved, Frozen
    <3>3. CASE blocks[i].kind \in Loose
      BY <3>1, <3>2, <3>3 DEF BlockSize
    <3>4. CASE blocks[i].kind \in Singletons
      <4>1. num'[blocks[i].kind] = num[blocks[i].kind]
        BY <3>1, <3>4, <1>6
      <4>2. /\ blocks[i].kind = "symtab_shndx" => num'["symtab"] = num["symtab"]
            /\ blocks[i].kind = "versym" => num'["dynsym"] = num["dynsym"]
        BY DEF Grows, Singletons
      <4>3. RangeSize(blocks[i].kind, num') = RangeSize(blocks[i].kind, num)
        BY <3>4, <4>1, <4>2, <1>1, RangeSizeFrozen
      <4>4. blocks[i].kind \notin Loose
        BY <3>4 DEF Singletons, Loose, StringTables, ArgKinds
      <4> QED BY <3>1, <3>2, <4>3, <4>4 DEF BlockSize
    <3> QED BY <3>1, <3>3, <3>4, <1>5
  <2> QED BY <2>1, <2>2
<1>10. Owned'
  <2>1. ASSUME NEW i \in 2..Len(blocks'), blocks'[i].kind \in Singletons
        PROVE  offset'[blocks'[i].kind] = blocks'[i].offset
    <3>1. CASE i = n + 1
      BY <3>1, <2>1, <1>1 DEF Grows, TypeOK
    <3>2. CASE i # n + 1
      <4>1. i \in 2..n /\ i \in 2..Len(blocks) /\ blocks'[i] = blocks[i]
        BY <3>2, <1>1 DEF n
      <4> QED BY <4>1, <2>1, <1>6 DEF Reserved, Owned
    <3> QED BY <3>1, <3>2
  <2>2. ASSUME NEW k \in Singletons, offset'[k] # 0
        PROVE  \E i \in 2..Len(blocks') : blocks'[i].kind = k
    <3>1. CASE k = b.kind
      BY <3>1, <1>1
    <3>2. CASE k # b.kind
      <4>1. offset[k] # 0
        BY <3>2, <2>2 DEF Grows, TypeOK
      <4>2. PICK i \in 2..Len(blocks) : blocks[i].kind = k
        BY <4>1 DEF Reserved, Owned
      <4>3. i \in 2..Len(blocks') /\ blocks'[i].kind = k
        BY <4>2, <1>1 DEF n
      <4> QED BY <4>3
    <3> QED BY <3>1, <3>2
  <2>3. ASSUME NEW i \in 2..Len(blocks'), NEW j \in 2..Len(blocks'),
               blocks'[i].kind \in Singletons, blocks'[i].kind = blocks'[j].kind
        PROVE  i = j
    <3>1. \A m \in 2..Len(blocks') : m # n + 1 =>
              m \in 2..n /\ m \in 2..Len(blocks) /\ blocks'[m] = blocks[m]
      BY <1>1 DEF n
    <3>2. CASE i # n + 1 /\ j # n + 1
      BY <3>1, <3>2, <2>3 DEF Reserved, Owned
    <3>3. CASE i = n + 1 /\ j # n + 1
      BY <3>1, <3>3, <2>3, <1>1, <1>6
    <3>4. CASE i # n + 1 /\ j = n + 1
      BY <3>1, <3>4, <2>3, <1>1, <1>6
    <3> QED BY <3>2, <3>3, <3>4
  <2> QED BY <2>1, <2>2, <2>3 DEF Owned
<1>11. \A k \in {"symtab", "dynsym", "shdrs"} : num'[k] = num[k]
  BY DEF Grows, Singletons, StringTables, ArgKinds
<1>12. NotEmpty'
  <2> SUFFICES ASSUME NEW i \in 2..Len(blocks')
               PROVE  /\ blocks'[i].kind \in {"symtab", "dynsym", "shdrs"} =>
                             num'[blocks'[i].kind] >= 1
                      /\ blocks'[i].kind = "versym" => num'["dynsym"] >= 1
    BY DEF NotEmpty
  <2>1. CASE i = n + 1
    BY <2>1, <1>1, <1>11 DEF Grows
  <2>2. CASE i # n + 1
    <3>1. i \in 2..Len(blocks) /\ blocks'[i] = blocks[i]
      BY <2>2, <1>1 DEF n
    <3> QED BY <3>1, <1>11 DEF Reserved, NotEmpty
  <2> QED BY <2>1, <2>2
<1>13. Counted'
  <2>1. \A i \in 1..Len(sections') : sections'[i].kind \in ClientKinds =>
            sections'[i].block \in 0..Len(blocks')
    <3>1. /\ Len(sections') = Len(sections)
          /\ \A i \in 1..Len(sections) :
              /\ sections'[i].kind = sections[i].kind
              /\ sections'[i].block \in {sections[i].block, Len(blocks) + 1}
      BY DEF Grows
    <3>2. \A i \in 1..Len(sections) : sections[i].kind \in ClientKinds =>
              sections[i].block \in 0..Len(blocks)
      BY DEF Reserved, Counted
    <3>3. Len(blocks) \in Nat /\ Len(blocks') = Len(blocks) + 1
      BY <1>1 DEF n
    <3> QED BY <3>1, <3>2, <3>3
  <2>2. Len(sections') = Len(sections) /\ symsecs' = symsecs
    BY DEF Grows
  <2> QED BY <2>1, <2>2, <1>11 DEF Reserved, Counted
<1>14. Ordered'
  <2> SUFFICES ASSUME NEW i \in 2..Len(blocks'), blocks'[i].kind = "symtab_shndx"
               PROVE  /\ "symtab_shndx" \in need'
                      /\ num'["symtab"] # 0 =>
                             \E j \in 2..(i - 1) : blocks'[j].kind = "symtab"
    BY DEF Ordered
  <2>1. need' = need /\ num'["symtab"] = num["symtab"]
    BY <1>11 DEF Grows
  <2>2. CASE i = n + 1
    <3>1. ASSUME num["symtab"] # 0
          PROVE  \E j \in 2..(i - 1) : blocks'[j].kind = "symtab"
      <4>1. PICK j \in 2..Len(blocks) : blocks[j].kind = "symtab"
        BY <3>1, <2>2, <1>1 DEF Grows, Reserved, Owned, Singletons
      <4>2. j \in 2..(i - 1) /\ blocks'[j].kind = "symtab"
        BY <4>1, <2>2, <1>1 DEF n
      <4> QED BY <4>2
    <3> QED BY <3>1, <2>1, <2>2, <1>1 DEF Grows
  <2>3. CASE i # n + 1
    <3>1. i \in 2..Len(blocks) /\ blocks'[i] = blocks[i]
      BY <2>3, <1>1 DEF n
    <3>2. ASSUME NEW j \in 2..(i - 1) PROVE blocks'[j] = blocks[j]
      <4>1. Len(blocks) \in Nat
        BY <1>1 DEF n
      <4>2. j \in 1..Len(blocks)
        BY <3>1, <4>1
      <4> QED BY <4>2, <1>1 DEF n
    <3> QED BY <3>1, <3>2, <2>1 DEF Reserved, Ordered
  <2> QED BY <2>2, <2>3
<1>15. Stacked'
  <2>1. DOMAIN blocks' = 1..(n + 1) /\ DOMAIN blocks = 1..n
    BY <1>1 DEF n
  <2>2. ASSUME NEW i \in 1..n
        PROVE  /\ End(blocks'[i]) <= len /\ End(blocks'[i]) \in Nat
               /\ blocks'[i].offset % blocks'[i].align = 0
    <3>1. blocks'[i] = blocks[i] /\ blocks[i] \in Blocks
      BY <1>1 DEF n
    <3>2. i \in DOMAIN blocks /\ End(blocks[i]) \in Nat
      BY <2>1, <3>1 DEF End, Blocks
    <3>3. End(blocks[i]) <= len /\ blocks[i].offset % blocks[i].align = 0
      BY <3>2 DEF Reserved, Stacked, RangesApart
    <3> QED BY <3>1, <3>2, <3>3
  <2>3. /\ len <= b.offset /\ len' = b.offset + b.size
        /\ b.offset % b.align = 0
    <3>1. len' = End(b)
      BY DEF Grows
    <3> QED BY <3>1, <1>2, <1>3, <1>4, AlignUpType, AlignUpAligned DEF End
  <2>4. ASSUME NEW i \in DOMAIN blocks' PROVE End(blocks'[i]) <= len'
    <3>1. CASE i = n + 1
      BY <1>1, <2>3, <3>1 DEF End
    <3>2. CASE i # n + 1
      <4>1. i \in 1..n
        BY <1>1, <2>1, <3>2
      <4> QED BY <1>2, <1>3, <2>2, <2>3, <4>1 DEF End
    <3> QED BY <3>1, <3>2
  <2>5. ASSUME NEW i \in DOMAIN blocks', NEW j \in DOMAIN blocks'
        PROVE  /\ blocks'[i].offset % blocks'[i].align = 0
               /\ i < j => End(blocks'[i]) <= blocks'[j].offset
    <3>1. blocks'[i].offset % blocks'[i].align = 0
      BY <1>1, <2>1, <2>2, <2>3
    <3>2. CASE j = n + 1
      <4>1. i < j => i \in 1..n
        BY <1>1, <2>1, <3>2
      <4>2. i < j => End(blocks'[i]) <= len /\ End(blocks'[i]) \in Nat
        BY <4>1, <2>2
      <4> QED BY <3>1, <3>2, <4>2, <1>1, <1>2, <1>3, <2>3
    <3>3. CASE j # n + 1
      <4>1. i < j => i \in 1..n /\ j \in 1..n
        BY <1>1, <2>1, <3>3
      <4>2. i < j => blocks'[i] = blocks[i] /\ blocks'[j] = blocks[j]
        BY <4>1, <1>1 DEF n
      <4> QED BY <2>1, <3>1, <4>1, <4>2 DEF Reserved, Stacked, RangesApart, End
    <3> QED BY <3>2, <3>3
  <2> QED BY <2>4, <2>5 DEF Stacked, RangesApart, End
<1> QED BY <1>7, <1>8, <1>9, <1>10, <1>12, <1>13, <1>14, <1>15 DEF Reserved

(* A file without a length has no blocks.                                  *)
LEMMA NothingReserved ==
    ASSUME IInv, len = 0 PROVE blocks = <<>> /\ cur = 0 /\ Len(blocks) = 0
<1>1. blocks = <<>>
  <2> SUFFICES ASSUME blocks # <<>> PROVE FALSE
    OBVIOUS
  <2>1. Len(blocks) \in Nat /\ Len(blocks) >= 1 /\ blocks[1] \in Blocks
    BY DEF IInv, TypeOK
  <2>2. len = End(blocks[Len(blocks)])
    BY DEF IInv, Reserved, Spaced
  <2>3. CASE Len(blocks) = 1
    BY <2>2, <2>3, SizeTypes DEF IInv, Reserved, Spaced, End
  <2>4. CASE Len(blocks) # 1
    <3> DEFINE n == Len(blocks)
    <3>1. n \in Nat /\ n >= 1 /\ n # 1
      BY <2>1, <2>4
    <3> HIDE DEF n
    <3>2. n \in 2..n
      BY <3>1
    <3> USE DEF n
    <3>3. blocks[n] \in Blocks /\ blocks[n].offset > 0
      BY <3>2, OwnedPositive DEF IInv
    <3> QED BY <2>2, <3>3 DEF End, Blocks
  <2> QED BY <2>3, <2>4
<1>2. cur = 0 /\ Len(blocks) = 0
  BY <1>1 DEF IInv, TypeOK
<1> QED BY <1>1, <1>2

LEMMA ReserveFileHeaderInv ==
    ASSUME IInv, ReserveFileHeader PROVE IInv'
<1> DEFINE b == Block("ehdr", 0, 1, 0, EhdrSize)
<1>1. blocks = <<>>
  BY NothingReserved DEF ReserveFileHeader
<1>2. cur = 0 /\ Len(blocks) = 0
  BY NothingReserved DEF ReserveFileHeader
<1>3. len' = EhdrSize /\ blocks' = <<b>>
  BY <1>1, AlignUpOne, SizeTypes DEF ReserveFileHeader, Reserve, IInv, TypeOK
<1>4. Len(blocks') = 1 /\ blocks'[1] = b /\ b \in Blocks
  BY <1>3, SizeTypes DEF Block, Blocks
<1>5. TypeOK'
  <2>1. len' \in Nat /\ blocks' \in Seq(Blocks)
    BY <1>3, <1>4, SizeTypes
  <2> QED BY <1>2, <1>4, <2>1 DEF ReserveFileHeader, IInv, TypeOK, writeVars
<1>6. Reserved'
  <2>1. \A i \in 2..Len(blocks') : FALSE
    BY <1>4
  <2>2. \A k \in Singletons : offset[k] = 0
    BY <1>2 DEF IInv, Reserved, Owned, TypeOK
  <2>3. Spaced'
    BY <2>1, <1>3, <1>4 DEF Spaced, End, EhdrSize, Block
  <2>4. Counted'
    BY <1>2 DEF IInv, Reserved, Counted, ReserveFileHeader
  <2>5. offset' = offset
    BY DEF ReserveFileHeader
  <2>6. Owned'
    BY <2>1, <2>2, <2>5 DEF Owned
  <2>7. Stacked'
    <3>1. DOMAIN blocks' = {1} /\ 0 % 1 = 0
      BY <1>3
    <3> QED BY <3>1, <1>3, <1>4, SizeTypes
            DEF Stacked, RangesApart, End, Block, Blocks
  <2> QED BY <2>1, <2>3, <2>4, <2>6, <2>7
          DEF Reserved, Frozen, NotEmpty, Ordered
<1> QED BY <1>2, <1>3, <1>5, <1>6, FirstPhaseWritten
        DEF IInv, ReserveFileHeader, writeVars

(* The steps that keep the ranges.                                         *)
LEMMA KeepsInv ==
    ASSUME IInv, Keeps, UNCHANGED writeVars, Reserving, TypeOK', Counted'
    PROVE  IInv'
BY KeepsReserved, FirstPhaseWritten DEF IInv, Reserved, Reserving, Keeps

LEMMA ReserveNullIndexInv == ASSUME IInv, ReserveNullIndex PROVE IInv'
<1>1. num["shdrs"] = 0 /\ num' = [num EXCEPT !["shdrs"] = 1]
  BY DEF ReserveNullIndex
<1>2. num \in [Singletons -> Nat] /\ "shdrs" \in Singletons
  BY DEF IInv, TypeOK, Singletons
<1>3. TypeOK'
  BY <1>1, <1>2 DEF IInv, TypeOK, ReserveNullIndex, writeVars, clientVars
<1>4. offset["shdrs"] = 0
  <2> SUFFICES ASSUME offset["shdrs"] # 0 PROVE FALSE
    OBVIOUS
  <2>1. PICK i \in 2..Len(blocks) : blocks[i].kind = "shdrs"
    BY <1>2 DEF IInv, Reserved, Owned
  <2> QED BY <2>1, <1>1, <1>2 DEF IInv, Reserved, NotEmpty
<1>5. Keeps
  BY <1>1, <1>2, <1>4 DEF Keeps, ReserveNullIndex, clientVars
<1>6. Counted'
  BY <1>1, <1>2 DEF IInv, Reserved, Counted, ReserveNullIndex, clientVars,
                    Singletons
<1> QED BY <1>3, <1>5, <1>6, KeepsInv DEF ReserveNullIndex

LEMMA ReserveSectionInv ==
    ASSUME IInv, NEW s \in Sections, NEW d \in NameBytes,
           s.kind \in ClientKinds => s.block \in 0..Len(blocks),
           ReserveSection(s, d),
           index' \in [Singletons -> Nat],
           UNCHANGED <<len, offset, need, blocks, symsecs, strs, writeVars>>
    PROVE  IInv'
<1>1. /\ offset["shdrs"] = 0 /\ offset["shstrtab"] = 0
      /\ num' = [num EXCEPT !["shdrs"] = NewSectionIndex + 1,
                            !["shstrtab"] = @ + d]
      /\ sections' = Append(sections, s)
  BY DEF ReserveSection
<1>2. /\ num \in [Singletons -> Nat] /\ d \in Nat
      /\ "shdrs" \in Singletons /\ "shstrtab" \in Singletons
      /\ sections \in Seq(Sections)
  BY ConstantsAssumption
     DEF IInv, TypeOK, Singletons, StringTables
<1>3. NewSectionIndex \in Nat
  BY <1>2 DEF NewSectionIndex
<1>4. /\ num' \in [Singletons -> Nat] /\ num'["shdrs"] = NewSectionIndex + 1
      /\ \A k \in Singletons \ {"shdrs", "shstrtab"} : num'[k] = num[k]
  <2>1. num["shstrtab"] + d \in Nat /\ NewSectionIndex + 1 \in Nat
    BY <1>2, <1>3
  <2>2. num' = [num EXCEPT !["shdrs"] = NewSectionIndex + 1,
                           !["shstrtab"] = num["shstrtab"] + d]
    BY <1>1, <1>2
  <2> QED BY <1>2, <2>1, <2>2
<1>5. sections' \in Seq(Sections)
  BY <1>1, <1>2
<1>6. TypeOK'
  BY <1>4, <1>5 DEF IInv, TypeOK, writeVars
<1>7. Keeps
  BY <1>1, <1>4 DEF Keeps
<1>8. Counted'
  <2>1. Len(sections') = Len(sections) + 1
    BY <1>1, <1>2
  <2>2. num'["symtab"] = num["symtab"]
    BY <1>4 DEF Singletons
  <2>3. \A i \in 1..Len(sections') : sections'[i].kind \in ClientKinds =>
            sections'[i].block \in 0..Len(blocks)
    BY <1>1, <1>2 DEF IInv, Reserved, Counted
  <2>4. Len(sections') = IF num'["shdrs"] = 0 THEN 0 ELSE num'["shdrs"] - 1
    BY <2>1, <1>2, <1>4 DEF IInv, Reserved, Counted, NewSectionIndex
  <2> QED BY <2>2, <2>3, <2>4 DEF IInv, Reserved, Counted
<1> QED BY <1>6, <1>7, <1>8, KeepsInv DEF ReserveSection

LEMMA ReserveIndexInv ==
    ASSUME IInv, NEW k \in SectionKinds, NEW d \in NameBytes, ReserveIndex(k, d)
    PROVE  IInv'
<1> DEFINE s == [kind |-> k, block |-> 0]
<1>1. s \in Sections /\ s.kind \notin ClientKinds
  BY DEF Sections, SectionKinds, Singletons, StringTables, ArgKinds, ClientKinds,
         Loose
<1>2. index' \in [Singletons -> Nat]
  BY DEF ReserveIndex, NewSectionIndex, IInv, TypeOK, SectionKinds, Singletons
<1> QED BY <1>1, <1>2, ReserveSectionInv DEF ReserveIndex

LEMMA ReserveClientIndexInv ==
    ASSUME IInv, NEW k \in ClientKinds, NEW i \in 0..Len(blocks),
           NEW d \in NameBytes, ReserveClientIndex(k, i, d)
    PROVE  IInv'
<1> DEFINE s == [kind |-> k, block |-> i]
<1>1. s \in Sections /\ s.block \in 0..Len(blocks)
  BY DEF Sections
<1>2. index' \in [Singletons -> Nat]
  BY DEF ReserveClientIndex, IInv, TypeOK
<1> QED BY <1>1, <1>2, ReserveSectionInv DEF ReserveClientIndex

LEMMA AddStringInv ==
    ASSUME IInv, NEW k \in {"strtab", "dynstr"}, NEW d \in NameBytes,
           AddString(k, d)
    PROVE  IInv'
<1>1. /\ offset[k] = 0 /\ num' = [num EXCEPT ![k] = @ + d]
      /\ num \in [Singletons -> Nat] /\ d \in Nat /\ k \in Singletons
      /\ "shdrs" \in Singletons /\ "symtab" \in Singletons
  BY ConstantsAssumption
     DEF AddString, IInv, TypeOK, Singletons, StringTables
<1>2. num' \in [Singletons -> Nat] /\ \A j \in Singletons \ {k} : num'[j] = num[j]
  BY <1>1
<1>3. TypeOK'
  <2>1. need' \subseteq {"strtab", "dynstr", "symtab_shndx"} /\ strs' \in Nat
    BY DEF IInv, TypeOK, AddString
  <2>2. UNCHANGED <<len, offset, index, blocks, sections, symsecs, writeVars>>
    BY DEF AddString
  <2> QED BY <1>2, <2>1, <2>2 DEF IInv, TypeOK, writeVars
<1>4. Keeps
  BY <1>1, <1>2 DEF Keeps, AddString
<1>5. Counted'
  BY <1>1, <1>2 DEF IInv, Reserved, Counted, AddString
<1> QED BY <1>3, <1>4, <1>5, KeepsInv DEF AddString

LEMMA RequireInv ==
    ASSUME IInv, NEW k \in {"strtab", "dynstr", "symtab_shndx"}, Require(k)
    PROVE  IInv'
<1>1. TypeOK'
  BY DEF IInv, TypeOK, Require, writeVars, clientVars
<1>2. Keeps
  BY DEF Keeps, Require, clientVars, IInv, TypeOK
<1>3. Counted'
  BY DEF IInv, Reserved, Counted, Require, clientVars
<1> QED BY <1>1, <1>2, <1>3, KeepsInv DEF Require

LEMMA ReserveNullSymbolInv == ASSUME IInv, ReserveNullSymbol PROVE IInv'
<1>1. /\ offset["symtab"] = 0 /\ offset["symtab_shndx"] = 0 /\ num["symtab"] = 0
      /\ num' = [num EXCEPT !["symtab"] = 1]
      /\ num \in [Singletons -> Nat]
      /\ "shdrs" \in Singletons /\ "symtab" \in Singletons
  BY DEF ReserveNullSymbol, IInv, TypeOK, Singletons
<1>2. TypeOK'
  <2>1. num' \in [Singletons -> Nat]
    BY <1>1
  <2>2. need' = need \cup {"strtab"} /\ UNCHANGED <<len, offset, index, clientVars, writeVars>>
    BY DEF ReserveNullSymbol
  <2> QED BY <2>1, <2>2 DEF IInv, TypeOK, writeVars, clientVars
<1>3. Keeps
  BY <1>1 DEF Keeps, ReserveNullSymbol, clientVars
<1>4. Counted'
  BY <1>1 DEF IInv, Reserved, Counted, ReserveNullSymbol, clientVars
<1> QED BY <1>2, <1>3, <1>4, KeepsInv DEF ReserveNullSymbol

LEMMA ReserveSymbolInv ==
    ASSUME IInv, NEW s \in 0..Len(sections), ReserveSymbol(s) PROVE IInv'
<1>1. /\ offset["symtab"] = 0 /\ offset["symtab_shndx"] = 0
      /\ num' = [num EXCEPT !["symtab"] = (IF @ = 0 THEN 1 ELSE @) + 1]
      /\ symsecs' = Append(symsecs, s) /\ symsecs \in Seq(Nat)
      /\ num \in [Singletons -> Nat] /\ s \in Nat
      /\ "shdrs" \in Singletons /\ "symtab" \in Singletons
  BY DEF ReserveSymbol, IInv, TypeOK, Singletons
<1>2. /\ num' \in [Singletons -> Nat] /\ symsecs' \in Seq(Nat)
      /\ num'["symtab"] = (IF num["symtab"] = 0 THEN 1 ELSE num["symtab"]) + 1
      /\ \A k \in Singletons \ {"symtab"} : num'[k] = num[k]
      /\ Len(symsecs') = Len(symsecs) + 1
  BY <1>1
<1>3. need' \subseteq {"strtab", "dynstr", "symtab_shndx"} /\ need \subseteq need'
  BY DEF IInv, TypeOK, ReserveSymbol
<1>4. TypeOK'
  BY <1>2, <1>3 DEF IInv, TypeOK, ReserveSymbol, writeVars
<1>5. Keeps
  BY <1>1, <1>2, <1>3 DEF Keeps, ReserveSymbol
<1>6. Counted'
  BY <1>1, <1>2 DEF IInv, Reserved, Counted, ReserveSymbol
<1> QED BY <1>4, <1>5, <1>6, KeepsInv DEF ReserveSymbol

LEMMA ReserveDynamicSymbolInv ==
    ASSUME IInv, ReserveNullDynamicSymbol \/ ReserveDynamicSymbol PROVE IInv'
<1>1. /\ offset["dynsym"] = 0 /\ offset["versym"] = 0
      /\ num \in [Singletons -> Nat]
      /\ num' = [num EXCEPT !["dynsym"] = num'["dynsym"]]
      /\ num'["dynsym"] \in Nat
      /\ "shdrs" \in Singletons /\ "symtab" \in Singletons
  BY DEF ReserveNullDynamicSymbol, ReserveDynamicSymbol, IInv, TypeOK, Singletons
<1>2. num' \in [Singletons -> Nat]
      /\ \A k \in Singletons \ {"dynsym"} : num'[k] = num[k]
  BY <1>1
<1>3. UNCHANGED <<len, offset, index, need, clientVars, writeVars>> /\ Reserving
  BY DEF ReserveNullDynamicSymbol, ReserveDynamicSymbol
<1>4. TypeOK'
  BY <1>2, <1>3 DEF IInv, TypeOK, writeVars, clientVars
<1>5. Keeps
  BY <1>1, <1>2, <1>3 DEF Keeps, clientVars
<1>6. Counted'
  BY <1>1, <1>2, <1>3 DEF IInv, Reserved, Counted, clientVars
<1> QED BY <1>3, <1>4, <1>5, <1>6, KeepsInv

LEMMA GrowsInv == ASSUME IInv, NEW b, Grows(b) PROVE IInv'
<1>1. blocks' # <<>>
  <2>1. blocks \in Seq(Blocks) /\ b \in Blocks /\ blocks' = Append(blocks, b)
    BY DEF Grows, IInv, TypeOK
  <2>2. Len(blocks') = Len(blocks) + 1 /\ Len(blocks) \in Nat
    BY <2>1
  <2> QED BY <2>2
<1>2. TypeOK' /\ Reserved'
  BY GrowsReserved DEF IInv
<1>3. Written' /\ Landed'
  BY <1>1, FirstPhaseWritten DEF IInv, Grows
<1> QED BY <1>2, <1>3 DEF IInv

LEMMA ReserveRangeInv ==
    ASSUME IInv, NEW k \in Singletons, NEW c \in Nat, ReserveRange(k, c),
           k = "symtab_shndx" /\ num["symtab"] # 0 => offset["symtab"] # 0
    PROVE  IInv'
<1> DEFINE a == ReserveAlign(k)
           b == Block(k, AlignUp(len, a), a, 0, RangeSize(k, num'))
<1>1. num' = (IF k \in ArgKinds THEN [num EXCEPT ![k] = c] ELSE num)
  BY DEF ReserveRange
<1>2. num \in [Singletons -> Nat] /\ num' \in [Singletons -> Nat]
      /\ \A j \in Singletons \ {k} : num'[j] = num[j]
  BY <1>1 DEF IInv, TypeOK
<1>3. a \in Nat \ {0} /\ a = WriteAlign(k)
  BY SameAlign
<1>4. AlignUp(len, a) \in Nat
  BY <1>3, AlignUpType DEF IInv, TypeOK
<1>5. RangeSize(k, num') \in Nat
  BY <1>2, RangeSizeType
<1>6. k \notin Loose /\ k # "ehdr" /\ k # "data"
  BY DEF Singletons, Loose, StringTables, ArgKinds
<1>7. b \in Blocks
  BY <1>3, <1>4, <1>5 DEF Blocks, Block
<1>8. blocks' = Append(blocks, b) /\ len' = End(b)
  BY <1>1 DEF ReserveRange, Reserve, Block, End
<1>9. Needed(k, num')
  BY <1>1 DEF ReserveRange
<1>10. k \in {"symtab", "dynsym", "shdrs", "symtab_shndx", "versym"} => num' = num
  BY <1>1 DEF ArgKinds
<1>11. k \in {"symtab", "dynsym", "shdrs"} => num[k] >= 1
  BY <1>2, <1>9, <1>10 DEF Needed, StringTables, ArgKinds
<1>12. k = "versym" => num["dynsym"] >= 1
  BY <1>2, <1>9, <1>10 DEF Needed, Singletons
<1>13. k = "symtab_shndx" => "symtab_shndx" \in need
  BY <1>9 DEF Needed
<1>14. /\ b.kind = k /\ b.offset = AlignUp(len, b.align) /\ b.align = a
       /\ b.size = RangeSize(k, num') /\ b.offset = AlignUp(len, a)
  BY DEF Block
<1>15. /\ blocks # <<>> /\ cur = 0 /\ offset[k] = 0
       /\ offset' = [offset EXCEPT ![k] = AlignUp(len, a)]
       /\ UNCHANGED <<index, need, sections, symsecs, strs, writeVars>>
  BY DEF ReserveRange, Reserving
<1> HIDE DEF a, b
<1>16. /\ sections' \in Seq(Sections) /\ Len(sections') = Len(sections)
       /\ \A i \in 1..Len(sections) :
           /\ sections'[i].kind = sections[i].kind
           /\ sections'[i].block \in {sections[i].block, Len(blocks) + 1}
  BY <1>15 DEF IInv, TypeOK
<1>17. Grows(b)
  BY <1>2, <1>3, <1>6, <1>7, <1>8, <1>10, <1>11, <1>12, <1>13, <1>14, <1>15, <1>16
     DEF Grows
<1> QED BY <1>17, GrowsInv

LEMMA ReserveLooseInv ==
    ASSUME IInv, NEW k \in Loose, NEW c \in Counts, NEW a \in Nat \ {0},
           NEW j \in 0..Len(sections), ReserveLoose(k, c, a, j)
    PROVE  IInv'
<1> DEFINE x == IF k = "data" THEN a ELSE ReserveAlign(k)
           b == Block(k, AlignUp(len, x), x, c, LooseSize(k, c))
<1>1. x \in Nat \ {0} /\ (k # "data" => x = WriteAlign(k)) /\ c \in Nat
  BY SameAlign, ConstantsAssumption
<1>2. AlignUp(len, x) \in Nat
  BY <1>1, AlignUpType DEF IInv, TypeOK
<1>3. LooseSize(k, c) \in Nat
  BY <1>1, LooseSizeType
<1>4. k \notin Singletons
      /\ k \notin {"ehdr", "symtab", "dynsym", "shdrs", "symtab_shndx", "versym"}
  BY DEF Singletons, Loose, StringTables, ArgKinds
<1>5. b \in Blocks
  BY <1>1, <1>2, <1>3 DEF Blocks, Block
<1>6. blocks' = Append(blocks, b) /\ len' = End(b)
  BY DEF ReserveLoose, Reserve, Block, End
<1>7. /\ b.kind = k /\ b.offset = AlignUp(len, b.align) /\ b.align = x
      /\ b.size = LooseSize(k, b.count)
  BY DEF Block
<1>8. /\ blocks # <<>> /\ cur = 0 /\ num' = num /\ offset' = offset
      /\ UNCHANGED <<index, need, symsecs, strs, writeVars>>
  BY DEF ReserveLoose, Reserving
<1>9. num' \in [Singletons -> Nat]
  BY <1>8 DEF IInv, TypeOK
<1>10. /\ sections' \in Seq(Sections) /\ Len(sections') = Len(sections)
       /\ \A i \in 1..Len(sections) :
           /\ sections'[i].kind = sections[i].kind
           /\ sections'[i].block \in {sections[i].block, Len(blocks) + 1}
  <2>1. sections \in Seq(Sections) /\ Len(blocks) + 1 \in Nat
    BY DEF IInv, TypeOK
  <2>2. CASE j = 0
    BY <2>1, <2>2 DEF ReserveLoose
  <2>3. CASE j # 0
    <3> DEFINE e == [kind |-> k, block |-> Len(blocks) + 1]
    <3>1. /\ j \in 1..Len(sections) /\ sections[j] = [kind |-> k, block |-> 0]
          /\ sections' = [sections EXCEPT ![j] = e]
      BY <2>1, <2>3 DEF ReserveLoose
    <3>2. /\ e \in Sections /\ e.kind = sections[j].kind
          /\ e.block = Len(blocks) + 1
      <4>1. sections[j] \in Sections
        BY <2>1, <3>1
      <4> QED BY <2>1, <3>1, <4>1 DEF Sections
    <3> HIDE DEF e
    <3>3. /\ sections' \in Seq(Sections) /\ Len(sections') = Len(sections)
          /\ \A i \in 1..Len(sections) :
                 sections'[i] = IF i = j THEN e ELSE sections[i]
      BY <2>1, <3>1, <3>2
    <3> QED BY <3>2, <3>3
  <2> QED BY <2>2, <2>3
<1> HIDE DEF x, b
<1>11. Grows(b)
  BY <1>1, <1>4, <1>5, <1>6, <1>7, <1>8, <1>9, <1>10 DEF Grows
<1> QED BY <1>11, GrowsInv

LEMMA ReserveRangeNextInv ==
    ASSUME IInv, ShndxAfterSymtab, ReserveRangeNext PROVE IInv'
<1>1. \E k \in Singletons, c \in Nat :
          /\ ReserveRange(k, c)
          /\ k = "symtab_shndx" /\ num["symtab"] # 0 => offset["symtab"] # 0
  BY ConstantsAssumption
     DEF ReserveRangeNext, ReserveProgramHeaders, ReserveSectionHeaders,
         ReserveShstrtab, ReserveStrtab, ReserveSymtab, ReserveSymtabShndx,
         ReserveDynstr, ReserveDynsym, ReserveDynamic, ReserveHash,
         ReserveGnuHash, ReserveGnuVersym, ReserveGnuVerdef, ReserveGnuVerneed,
         ReserveGnuAttributes, Singletons, StringTables, ArgKinds
<1> QED BY <1>1, ReserveRangeInv

LEMMA ReserveLooseNextInv == ASSUME IInv, ReserveLooseNext PROVE IInv'
<1>1. \E k \in Loose, c \in Counts, a \in Nat \ {0}, j \in 0..Len(sections) :
          ReserveLoose(k, c, a, j)
  <2>1. 0 \in 0..Len(sections)
    BY DEF IInv, TypeOK
  <2> QED BY <2>1, ConstantsAssumption
          DEF ReserveLooseNext, ReserveData, ReserveRelocations, ReserveComdat,
              ReserveUntil, Loose
<1> QED BY <1>1, ReserveLooseInv

LEMMA ReserveIndexNextInv == ASSUME IInv, ReserveIndexNext PROVE IInv'
<1>1. \E k \in SectionKinds, d \in NameBytes : ReserveIndex(k, d)
  BY DEF ReserveIndexNext, ReserveShstrtabIndex, ReserveStrtabIndex,
         ReserveSymtabIndex, ReserveSymtabShndxIndex, ReserveDynstrIndex,
         ReserveDynsymIndex, ReserveDynamicIndex, ReserveHashIndex,
         ReserveGnuHashIndex, ReserveGnuVersymIndex, ReserveGnuVerdefIndex,
         ReserveGnuVerneedIndex, ReserveGnuAttributesIndex,
         SectionKinds, Singletons, StringTables, ArgKinds
<1> QED BY <1>1, ReserveIndexInv

LEMMA ReserveNextInv ==
    ASSUME IInv, ShndxAfterSymtab, ReserveNext PROVE IInv'
BY ReserveFileHeaderInv, ReserveNullIndexInv, ReserveIndexNextInv,
   ReserveClientIndexInv, AddStringInv, RequireInv, ReserveNullSymbolInv,
   ReserveSymbolInv, ReserveDynamicSymbolInv, ReserveRangeNextInv,
   ReserveLooseNextInv
   DEF ReserveNext

-------------------------------------------------------------------------------
(* The second phase *)

(* What is written at once and what follows make up the range.             *)
LEMMA ChunkEntries ==
    ASSUME TypeOK, NEW b \in Blocks, b.kind # "ehdr", b.size = BlockSize(b),
           buf \in Nat, b.kind = "until" => Start(b) = buf /\ b.offset = buf,
           b.kind \in {"symtab", "dynsym", "shdrs"} => num[b.kind] >= 1,
           b.kind = "versym" => num["dynsym"] >= 1,
           b.kind = "symtab_shndx" => Len(shndx) = num["symtab"]
    PROVE  /\ Entries(b) \in Nat /\ Chunk(b) \in Nat
           /\ Chunk(b) + Entries(b) * EntrySize(b.kind) = b.size
<1>1. /\ num \in [Singletons -> Nat] /\ b.count \in Nat /\ b.size \in Nat
      /\ b.offset \in Nat /\ b.kind \in Singletons \cup Loose
      /\ \A k \in Singletons : num[k] \in Nat
  BY DEF TypeOK, Blocks
<1>2. ASSUME NEW n \in Nat, n >= 1, NEW e \in Nat
      PROVE  n - 1 \in Nat /\ e + (n - 1) * e = n * e
  BY <1>2
<1>3. ASSUME NEW n \in Nat PROVE 4 + n * 4 = (n + 1) * 4
  OBVIOUS
<1>4. CASE b.kind \in StringTables \cup {"hash", "gnu_hash", "attributes"}
  <2>1. /\ b.size = RangeSize(b.kind, num) /\ Chunk(b) = RangeSize(b.kind, num)
        /\ Entries(b) = 0 /\ EntrySize(b.kind) = 4
    BY <1>4 DEF BlockSize, Chunk, Entries, EntrySize, Loose, StringTables
  <2> QED BY <2>1, <1>1
<1>5. CASE b.kind \in {"symtab", "dynsym"}
  <2>1. /\ b.size = num[b.kind] * SymSize /\ Chunk(b) = SymSize
        /\ Entries(b) = num[b.kind] - 1 /\ EntrySize(b.kind) = SymSize
        /\ b.kind \in Singletons
    BY <1>5 DEF BlockSize, RangeSize, Chunk, Entries, EntrySize, Loose,
                StringTables, Singletons
  <2>2. num[b.kind] \in Nat /\ num[b.kind] >= 1
    BY <2>1, <1>1, <1>5
  <2> QED BY <2>1, <2>2, <1>2, SizeTypes
<1>6. CASE b.kind = "shdrs"
  <2>1. /\ b.size = num[b.kind] * ShdrSize /\ Chunk(b) = ShdrSize
        /\ Entries(b) = num[b.kind] - 1 /\ EntrySize(b.kind) = ShdrSize
        /\ b.kind \in Singletons
    BY <1>6 DEF BlockSize, RangeSize, Chunk, Entries, EntrySize, Loose,
                StringTables, Singletons
  <2>2. num[b.kind] \in Nat /\ num[b.kind] >= 1
    BY <2>1, <1>1, <1>6
  <2> QED BY <2>1, <2>2, <1>2, SizeTypes
<1>7. CASE b.kind = "versym"
  <2>1. /\ b.size = num["dynsym"] * 2 /\ Chunk(b) = 2
        /\ Entries(b) = num["dynsym"] - 1 /\ EntrySize(b.kind) = 2
    BY <1>7 DEF BlockSize, RangeSize, Chunk, Entries, EntrySize, Loose,
                StringTables
  <2>2. num["dynsym"] \in Nat /\ num["dynsym"] >= 1
    BY <1>1, <1>7 DEF Singletons
  <2> QED BY <2>1, <2>2, <1>2
<1>8. CASE b.kind = "symtab_shndx"
  <2>1. /\ b.size = num["symtab"] * 4 /\ Chunk(b) = num["symtab"] * 4
        /\ Entries(b) = 0 /\ EntrySize(b.kind) = 4
    BY <1>8 DEF BlockSize, RangeSize, Chunk, Entries, EntrySize, Loose,
                StringTables
  <2> QED BY <2>1, <1>1
<1>9. CASE b.kind \in {"phdrs", "dynamic", "verdef", "verneed"}
  <2>1. /\ b.size = num[b.kind] * EntrySize(b.kind) /\ Chunk(b) = 0
        /\ Entries(b) = num[b.kind] /\ num[b.kind] \in Nat
    BY <1>9, <1>1 DEF BlockSize, RangeSize, Chunk, Entries, EntrySize, Loose,
                      StringTables, Singletons, ArgKinds
  <2> QED BY <2>1, <1>1
<1>10. CASE b.kind = "reloc"
  <2>1. /\ b.size = b.count * RelSize /\ Chunk(b) = 0
        /\ Entries(b) = b.count /\ EntrySize(b.kind) = RelSize
    BY <1>10 DEF BlockSize, LooseSize, Chunk, Entries, EntrySize, Loose,
                 StringTables
  <2> QED BY <2>1, <1>1
<1>11. CASE b.kind = "comdat"
  <2>1. /\ b.size = (b.count + 1) * 4 /\ Chunk(b) = 4
        /\ Entries(b) = b.count /\ EntrySize(b.kind) = 4
    BY <1>11 DEF BlockSize, LooseSize, Chunk, Entries, EntrySize, Loose,
                 StringTables
  <2> QED BY <2>1, <1>1, <1>3
<1>12. CASE b.kind = "data"
  <2>1. /\ b.size = b.count /\ Chunk(b) = b.count
        /\ Entries(b) = 0 /\ EntrySize(b.kind) = 4
    BY <1>12 DEF BlockSize, LooseSize, Chunk, Entries, EntrySize, Loose,
                 StringTables
  <2> QED BY <2>1, <1>1
<1>13. CASE b.kind = "until"
  <2>1. /\ Chunk(b) = End(b) - buf /\ Entries(b) = 0 /\ EntrySize(b.kind) = 4
    BY <1>13 DEF Chunk, Entries, EntrySize, StringTables
  <2> QED BY <2>1, <1>1, <1>13 DEF End
<1> QED BY <1>1, <1>4, <1>5, <1>6, <1>7, <1>8, <1>9, <1>10, <1>11, <1>12, <1>13
        DEF Singletons, Loose, StringTables, ArgKinds

(* The block that was written last is complete when it is the next one's   *)
(* turn, and that one starts where it was reserved.                        *)
LEMMA TurnStart ==
    ASSUME IInv, NEW k, k # "ehdr", Turn(k)
    PROVE  LET b == blocks[cur + 1] IN
           /\ cur \in Nat /\ cur >= 1 /\ cur + 1 \in 2..Len(blocks)
           /\ b \in Blocks /\ b.kind = k /\ b.kind # "ehdr"
           /\ Present(b) /\ Start(b) = b.offset
           /\ buf \in Nat /\ buf <= b.offset
           /\ b.kind = "until" => b.offset = buf
           /\ b.kind = "symtab_shndx" => Len(shndx) = num["symtab"]
<1> DEFINE b == blocks[cur + 1]
<1>1. /\ cur \in Nat /\ cur >= 1 /\ left = 0 /\ cur < Len(blocks)
      /\ Len(blocks) \in Nat /\ b.kind = k
  BY DEF Turn, IInv, TypeOK
<1>2. cur + 1 \in 2..Len(blocks) /\ cur \in 1..Len(blocks)
  BY <1>1
<1>3. b \in Blocks /\ blocks[cur] \in Blocks
  BY <1>2 DEF IInv, TypeOK
<1>4. b.offset > 0 /\ (b.kind \in Singletons => offset[b.kind] # 0)
  BY <1>2, OwnedPositive DEF IInv
<1>5. buf = End(blocks[cur])
  <2>1. left * EntrySize(blocks[cur].kind) = 0
    BY <1>1, EntrySizeType
  <2>2. buf + left * EntrySize(blocks[cur].kind) = End(blocks[cur])
    BY <1>1 DEF IInv, Landed
  <2>3. End(blocks[cur]) \in Int
    BY <1>3 DEF End, Blocks
  <2>4. buf \in Int
    BY DEF IInv, TypeOK
  <2> QED BY <2>1, <2>2, <2>3, <2>4
<1>6. buf \in Nat
  BY <1>3, <1>5 DEF End, Blocks
<1>7. b.offset = AlignUp(buf, b.align)
      /\ (k # "data" => b.align = WriteAlign(k))
  <2>1. b.offset = AlignUp(End(blocks[(cur + 1) - 1]), b.align)
        /\ (b.kind # "data" => b.align = WriteAlign(b.kind))
    BY <1>2 DEF IInv, Reserved, Spaced
  <2>2. (cur + 1) - 1 = cur
    BY <1>1
  <2> QED BY <2>1, <2>2, <1>1, <1>5
<1>8. k = "until" => b.offset = buf
  BY <1>6, <1>7, AlignUpOne DEF WriteAlign
<1>9. Start(b) = b.offset
  BY <1>1, <1>7, <1>8 DEF Start
<1>10. buf <= b.offset
  BY <1>3, <1>6, <1>7, AlignUpType DEF Blocks
<1>11. k = "symtab_shndx" => Len(shndx) = num["symtab"]
  <2> SUFFICES ASSUME k = "symtab_shndx" PROVE Len(shndx) = num["symtab"]
    OBVIOUS
  <2>1. /\ "symtab_shndx" \in need
        /\ num["symtab"] # 0 => \E j \in 2..cur : blocks[j].kind = "symtab"
    BY <1>1, <1>2 DEF IInv, Reserved, Ordered
  <2>2. Len(shndx) = Len(symbols)
    BY <2>1 DEF IInv, Written
  <2>3. CASE num["symtab"] # 0
    <3>1. PICK j \in 2..cur : blocks[j].kind = "symtab"
      BY <2>1, <2>3
    <3>2. j \in 2..Len(blocks) /\ (j < cur \/ j = cur)
      BY <1>1, <3>1
    <3>3. num["symtab"] \in Nat
      BY DEF IInv, TypeOK, Singletons
    <3> QED BY <1>1, <2>2, <3>1, <3>2, <3>3 DEF IInv, Written, Progress
  <2>4. CASE num["symtab"] = 0
    <3>1. \A i \in 2..Len(blocks) : blocks[i].kind # "symtab"
      BY <2>4 DEF IInv, Reserved, NotEmpty
    <3> QED BY <2>2, <2>4, <3>1 DEF IInv, Written, Progress
  <2> QED BY <2>3, <2>4
<1>12. Present(b)
  BY <1>4 DEF Present
<1> QED BY <1>1, <1>2, <1>3, <1>6, <1>8, <1>9, <1>10, <1>11, <1>12

(* Nothing of the first phase changes in the second.                       *)
LEMMA ReservedKept ==
    ASSUME Reserved, UNCHANGED <<reserveVars, clientVars>>
    PROVE  Reserved'
<1>1. /\ len' = len /\ offset' = offset /\ num' = num /\ need' = need
      /\ blocks' = blocks /\ sections' = sections /\ symsecs' = symsecs
  BY DEF reserveVars, clientVars
<1> QED BY <1>1 DEF Reserved, Spaced, Stacked, RangesApart, Frozen, BlockSize,
                    Owned, NotEmpty, Counted, Ordered

LEMMA BeginStep ==
    ASSUME IInv, NEW k, k # "ehdr", Turn(k), Begin(blocks[cur + 1])
    PROVE  /\ Reserved' /\ Landed'
           /\ cur' = cur + 1 /\ cur >= 1 /\ cur + 1 \in 2..Len(blocks)
           /\ cur > 0 /\ left' = Entries(blocks[cur + 1]) /\ left' \in Nat
           /\ buf' \in Int /\ landed' \in Seq(Int) /\ Len(landed') = cur'
           /\ blocks[cur + 1].offset <= buf' /\ buf' <= End(blocks[cur + 1])
<1> DEFINE b == blocks[cur + 1]
<1>1. /\ cur \in Nat /\ cur >= 1 /\ cur + 1 \in 2..Len(blocks)
      /\ b \in Blocks /\ b.kind # "ehdr" /\ Start(b) = b.offset
      /\ buf \in Nat /\ buf <= b.offset
      /\ b.kind = "until" => b.offset = buf
      /\ b.kind = "symtab_shndx" => Len(shndx) = num["symtab"]
  BY TurnStart
<1>2. /\ cur' = cur + 1 /\ left' = Entries(b)
      /\ landed' = Append(landed, b.offset) /\ buf' = b.offset + Chunk(b)
      /\ UNCHANGED <<reserveVars, clientVars>>
  BY <1>1 DEF Begin
<1>3. /\ Entries(b) \in Nat /\ Chunk(b) \in Nat
      /\ Chunk(b) + Entries(b) * EntrySize(b.kind) = b.size
  <2>1. b.size = BlockSize(b)
    BY <1>1 DEF IInv, Reserved, Frozen
  <2>2. /\ b.kind \in {"symtab", "dynsym", "shdrs"} => num[b.kind] >= 1
        /\ b.kind = "versym" => num["dynsym"] >= 1
    BY <1>1 DEF IInv, Reserved, NotEmpty
  <2> HIDE DEF b
  <2> QED BY <1>1, <2>1, <2>2, ChunkEntries DEF IInv
<1>4. b.offset \in Nat /\ b.size \in Nat /\ landed \in Seq(Int) /\ Len(landed) = cur
  BY <1>1 DEF Blocks, IInv, TypeOK
<1>5. /\ landed' \in Seq(Int) /\ Len(landed') = cur + 1
      /\ landed'[cur + 1] = b.offset /\ \A i \in 1..cur : landed'[i] = landed[i]
  BY <1>1, <1>2, <1>4
<1>6. blocks' = blocks
  BY <1>2 DEF clientVars
<1>7. Landed'
  <2>1. \A i \in 1..cur' : landed'[i] = blocks'[i].offset
    BY <1>1, <1>2, <1>5, <1>6 DEF IInv, Landed
  <2>2. buf' + left' * EntrySize(b.kind) = b.offset + b.size
    <3>1. Entries(b) * EntrySize(b.kind) \in Nat
      BY <1>3, EntrySizeType, Product
    <3> QED BY <1>2, <1>3, <1>4, <3>1
  <2>3. blocks'[cur'] = b
    BY <1>2, <1>6
  <2>4. (buf + left * EntrySize(blocks[cur].kind) = End(blocks[cur]))'
    BY <2>2, <2>3 DEF End, EntrySize, SymSize, ShdrSize, PhdrSize, DynSize, RelSize
  <2> QED BY <2>1, <2>4 DEF Landed
<1>8. Reserved'
  BY <1>2, ReservedKept DEF IInv
<1>9. b.offset <= buf' /\ buf' <= End(b)
  <2>1. Entries(b) * EntrySize(b.kind) \in Nat
    BY <1>3, EntrySizeType, Product
  <2> QED BY <1>2, <1>3, <1>4, <2>1 DEF End
<1> QED BY <1>1, <1>2, <1>3, <1>4, <1>5, <1>7, <1>8, <1>9

LEMMA EntryStep ==
    ASSUME IInv, NEW k, Entry(k)
    PROVE  /\ Reserved' /\ Landed' /\ cur' = cur /\ cur \in 2..Len(blocks)
           /\ cur > 0
           /\ blocks[cur].kind = k /\ left' = left - 1 /\ left' \in Nat
           /\ left \in Nat /\ left > 0 /\ buf' \in Int /\ landed' = landed
<1>1. /\ left \in Nat /\ left > 0 /\ blocks[cur].kind = k
      /\ left' = left - 1 /\ buf' = buf + EntrySize(k) /\ buf \in Int
      /\ cur' = cur /\ landed' = landed /\ UNCHANGED <<reserveVars, clientVars>>
      /\ EntrySize(k) \in Nat
  BY EntrySizeType DEF Entry, IInv, TypeOK
<1>2. cur \in 2..Len(blocks)
  <2>1. (cur < 2 => left = 0) /\ cur \in 0..Len(blocks) /\ Len(blocks) \in Nat
    BY DEF IInv, Written, TypeOK
  <2> QED BY <1>1, <2>1
<1>3. buf' + left' * EntrySize(k) = buf + left * EntrySize(k)
  <2>1. ASSUME NEW e \in Nat, NEW n \in Nat PROVE e + (n - 1) * e = n * e
    OBVIOUS
  <2>2. EntrySize(k) + (left - 1) * EntrySize(k) = left * EntrySize(k)
    BY <1>1, <2>1
  <2>3. (left - 1) * EntrySize(k) \in Int /\ left * EntrySize(k) \in Int
    BY <1>1, Product
  <2> QED BY <1>1, <2>2, <2>3
<1>4. blocks' = blocks
  BY <1>1 DEF clientVars
<1>5. Landed'
  <2>1. buf + left * EntrySize(k) = End(blocks[cur])
    BY <1>1, <1>2 DEF IInv, Landed
  <2>2. \A i \in 1..cur' : landed'[i] = blocks'[i].offset
    BY <1>1, <1>4 DEF IInv, Landed
  <2>3. (buf + left * EntrySize(blocks[cur].kind) = End(blocks[cur]))'
    BY <1>1, <1>3, <1>4, <2>1
       DEF End, EntrySize, SymSize, ShdrSize, PhdrSize, DynSize, RelSize
  <2> QED BY <2>2, <2>3 DEF Landed
<1>6. Reserved'
  BY <1>1, ReservedKept DEF IInv
<1> QED BY <1>1, <1>2, <1>5, <1>6

(* How far the tables are, when a block is begun and when an entry is      *)
(* written; m counts the entries of table j before the step.               *)
LEMMA BeginProgress ==
    ASSUME IInv, NEW k, k # "ehdr", Turn(k), Begin(blocks[cur + 1]),
           NEW j \in {"symtab", "shdrs"}, NEW m, Progress(j, m, cur, left)
    PROVE  /\ j = k => m = 0 /\ Progress(j, 1, cur', left')
           /\ j # k => Progress(j, m, cur', left')
<1>1. /\ cur' = cur + 1 /\ cur >= 1 /\ cur \in Nat /\ cur + 1 \in 2..Len(blocks)
      /\ left = 0 /\ left' = Entries(blocks[cur + 1])
      /\ blocks[cur + 1].kind = k
      /\ Len(blocks) \in Nat /\ num[j] \in Nat /\ j \in Singletons
  <2>1. /\ cur' = cur + 1 /\ cur >= 1 /\ cur + 1 \in 2..Len(blocks)
        /\ left' = Entries(blocks[cur + 1])
    BY BeginStep
  <2>2. left = 0 /\ blocks[cur + 1].kind = k
    BY DEF Turn
  <2>3. j \in Singletons
    BY DEF Singletons
  <2>4. cur \in Nat /\ Len(blocks) \in Nat /\ num[j] \in Nat
    BY <2>3 DEF IInv, TypeOK
  <2> QED BY <2>1, <2>2, <2>3, <2>4
<1>2. CASE j = k
  <2>1. m = 0
    BY <1>1, <1>2 DEF Progress
  <2>2. left' = num[j] - 1
    BY <1>1, <1>2 DEF Entries
  <2>3. \A i \in 2..Len(blocks) : blocks[i].kind = j => i = cur + 1
    BY <1>1, <1>2 DEF IInv, Reserved, Owned
  <2>4. num[j] >= 1
    BY <1>1, <1>2 DEF IInv, Reserved, NotEmpty
  <2>5. Progress(j, 1, cur', left')
    BY <1>1, <1>2, <2>2, <2>3, <2>4 DEF Progress
  <2> QED BY <1>2, <2>1, <2>5
<1>3. CASE j # k
  <2>1. ASSUME NEW i \in 2..Len(blocks), blocks[i].kind = j
        PROVE  /\ i # cur + 1
               /\ i > cur + 1 => m = 0
               /\ i < cur + 1 => m = num[j]
    <3>1. i # cur + 1
      BY <1>1, <1>3, <2>1
    <3>2. (i > cur + 1 => i > cur) /\ (i < cur + 1 => i = cur \/ i < cur)
      BY <1>1
    <3>3. i = cur => m = num[j]
      BY <1>1, <2>1 DEF Progress
    <3> QED BY <1>1, <2>1, <3>1, <3>2, <3>3 DEF Progress
  <2> QED BY <1>1, <1>3, <2>1 DEF Progress
<1> QED BY <1>2, <1>3

LEMMA EntryProgress ==
    ASSUME IInv, NEW k, Entry(k), NEW j \in {"symtab", "shdrs"},
           NEW m, Progress(j, m, cur, left)
    PROVE  /\ j = k => /\ m = num[k] - left /\ m >= 1
                       /\ Progress(j, m + 1, cur', left')
           /\ j # k => Progress(j, m, cur', left')
<1>1. /\ cur' = cur /\ cur \in 2..Len(blocks) /\ left \in Nat /\ left > 0
      /\ left' = left - 1 /\ blocks[cur].kind = k
      /\ Len(blocks) \in Nat /\ num[j] \in Nat /\ j \in Singletons
  <2>1. /\ cur' = cur /\ cur \in 2..Len(blocks) /\ left > 0
        /\ left' = left - 1 /\ blocks[cur].kind = k
    BY EntryStep DEF Entry
  <2>2. /\ j \in Singletons /\ left \in Nat /\ Len(blocks) \in Nat /\ num[j] \in Nat
    BY DEF IInv, TypeOK, Singletons
  <2> QED BY <2>1, <2>2
<1>2. CASE j = k
  <2>1. m = num[k] - left /\ m >= 1
    BY <1>1, <1>2 DEF Progress
  <2>2. \A i \in 2..Len(blocks) : blocks[i].kind = j => i = cur
    BY <1>1, <1>2 DEF IInv, Reserved, Owned
  <2>3. Progress(j, m + 1, cur', left')
    BY <1>1, <1>2, <2>1, <2>2 DEF Progress
  <2> QED BY <1>2, <2>1, <2>3
<1>3. CASE j # k
  BY <1>1, <1>3 DEF Progress
<1> QED BY <1>2, <1>3

LEMMA XIndexType == XIndex \in Nat
BY ConstantsAssumption DEF XIndex

LEMMA EscapeType ==
    ASSUME NEW i \in Nat, NEW e \in Nat PROVE Escape(i, e) \in Nat
BY DEF Escape

LEMMA WriteFileHeaderInv == ASSUME IInv, WriteFileHeader PROVE IInv'
<1>1. /\ cur = 0 /\ blocks # <<>> /\ left = 0 /\ cur' = 1 /\ left' = 0
      /\ landed' = <<0>> /\ buf' = EhdrSize
      /\ UNCHANGED <<reserveVars, clientVars, shndx, headers, symbols>>
  BY NothingWritten DEF IInv, WriteFileHeader, Reserving
<1>2. blocks' = blocks /\ num' = num /\ need' = need
  BY <1>1 DEF reserveVars, clientVars
<1>3. /\ blocks[1].offset = 0 /\ blocks[1].size = EhdrSize
      /\ Len(blocks) \in Nat /\ Len(blocks) >= 1
  BY <1>1 DEF IInv, TypeOK, Reserved, Spaced
<1>4. Reserved'
  BY <1>1, ReservedKept DEF IInv
<1>5. Landed'
  <2>1. landed'[1] = blocks'[1].offset /\ \A i \in 1..cur' : i = 1
    BY <1>1, <1>2, <1>3
  <2>2. left' * EntrySize(blocks[1].kind)' = 0
    BY <1>1, EntrySizeType
       DEF EntrySize, SymSize, ShdrSize, PhdrSize, DynSize, RelSize
  <2>3. (buf + left * EntrySize(blocks[cur].kind) = End(blocks[cur]))'
    BY <1>1, <1>2, <1>3, <2>2, SizeTypes DEF End
  <2> QED BY <2>1, <2>3 DEF Landed
<1>6. Written'
  <2>1. Len(symbols) = 0 /\ Len(headers) = 0 /\ Len(shndx) = 0
    BY <1>1, NothingWritten DEF IInv
  <2>2. sections' = sections /\ \A i \in 1..Len(sections) :
            sections[i].kind \in ClientKinds => sections[i].block # 0
    <3>1. sections \in Seq(Sections)
      BY DEF IInv, TypeOK
    <3> QED BY <3>1, <1>1 DEF WriteFileHeader, Ready, clientVars
  <2> QED BY <1>1, <1>2, <2>1, <2>2 DEF Written, Progress
<1>7. ehdr' \in [phnum : Nat, shoff : Nat, shnum : Nat, shstrndx : Nat]
  <2>1. /\ num["phdrs"] \in Nat /\ offset["shdrs"] \in Nat
        /\ num["shdrs"] \in Nat /\ index["shstrtab"] \in Nat
    BY DEF IInv, TypeOK, Singletons, StringTables, ArgKinds
  <2> QED BY <2>1, EscapeType, XIndexType DEF WriteFileHeader
<1>8. TypeOK'
  <2>1. cur' \in 0..Len(blocks') /\ landed' \in Seq(Int) /\ Len(landed') = cur'
    BY <1>1, <1>2, <1>3
  <2>2. buf' \in Int
    BY <1>1, SizeTypes
  <2> QED BY <1>1, <1>7, <2>1, <2>2 DEF IInv, TypeOK, reserveVars, clientVars
<1> QED BY <1>4, <1>5, <1>6, <1>8 DEF IInv

(* What the steps of the second phase leave to be shown.                   *)
LEMMA SecondPhase ==
    ASSUME IInv, Reserved', Landed', UNCHANGED <<reserveVars, clientVars, ehdr>>,
           cur > 0,
           cur' \in 2..Len(blocks), left' \in Nat, buf' \in Int,
           landed' \in Seq(Int), Len(landed') = cur',
           shndx' \in Seq(Nat), symbols' \in Seq(Nat), headers' \in Seq(Headers),
           Progress("symtab", Len(symbols'), cur', left'),
           Progress("shdrs", Len(headers'), cur', left'),
           Len(shndx') = IF "symtab_shndx" \in need THEN Len(symbols') ELSE 0
    PROVE  IInv'
<1>1. /\ len' = len /\ offset' = offset /\ index' = index /\ num' = num
      /\ need' = need /\ blocks' = blocks /\ sections' = sections
      /\ symsecs' = symsecs /\ strs' = strs /\ ehdr' = ehdr
  BY DEF reserveVars, clientVars
<1>2. Len(blocks) \in Nat
  BY DEF IInv, TypeOK
<1>3. TypeOK'
  <2>1. cur' \in 0..Len(blocks')
    BY <1>1, <1>2
  <2>2. /\ len' \in Nat /\ offset' \in [Singletons -> Nat]
        /\ index' \in [Singletons -> Nat] /\ num' \in [Singletons -> Nat]
        /\ need' \subseteq {"strtab", "dynstr", "symtab_shndx"}
        /\ blocks' \in Seq(Blocks) /\ sections' \in Seq(Sections)
        /\ symsecs' \in Seq(Nat) /\ strs' \in Nat
        /\ ehdr' \in [phnum : Nat, shoff : Nat, shnum : Nat, shstrndx : Nat]
    BY <1>1 DEF IInv, TypeOK
  <2> QED BY <2>1, <2>2 DEF TypeOK
<1>4. Written'
  <2>1. blocks' # <<>> /\ ~(cur' < 2)
    BY <1>1, <1>2
  <2>2. \A i \in 1..Len(sections) :
            sections[i].kind \in ClientKinds => sections[i].block # 0
    BY DEF IInv, Written
  <2> QED BY <1>1, <2>1, <2>2 DEF Written, Progress
<1> QED BY <1>3, <1>4 DEF IInv

LEMMA BlockInv ==
    ASSUME IInv, NEW k \in Opaque, WriteBlock(k) PROVE IInv'
<1>1. k # "ehdr" /\ k # "symtab" /\ k # "shdrs"
  BY DEF Opaque, Singletons, Loose, StringTables, ArgKinds
<1>2. Turn(k) /\ Begin(blocks[cur + 1]) /\ UNCHANGED <<shndx, headers, symbols>>
  BY DEF WriteBlock
<1>3. /\ Progress("symtab", Len(symbols'), cur', left')
      /\ Progress("shdrs", Len(headers'), cur', left')
  BY <1>1, <1>2, BeginProgress DEF IInv, Written
<1>4. UNCHANGED <<reserveVars, clientVars, ehdr>>
  BY <1>2 DEF Begin
<1> QED BY <1>1, <1>2, <1>3, <1>4, BeginStep, SecondPhase
        DEF IInv, TypeOK, Written

LEMMA EntryInv ==
    ASSUME IInv, NEW k \in Opaque, WriteEntry(k) PROVE IInv'
<1>1. k # "symtab" /\ k # "shdrs"
  BY DEF Opaque, Singletons, Loose, StringTables, ArgKinds
<1>2. Entry(k) /\ UNCHANGED <<shndx, headers, symbols>>
  BY DEF WriteEntry
<1>3. /\ Progress("symtab", Len(symbols'), cur', left')
      /\ Progress("shdrs", Len(headers'), cur', left')
  BY <1>1, <1>2, EntryProgress DEF IInv, Written
<1>4. UNCHANGED <<reserveVars, clientVars, ehdr>>
  BY <1>2 DEF Entry
<1> QED BY <1>2, <1>3, <1>4, EntryStep, SecondPhase DEF IInv, TypeOK, Written

LEMMA PushShndxStep ==
    ASSUME IInv, NEW s \in Nat, NEW t \in Nat, PushShndx(s),
           symbols' = Append(symbols, t)
    PROVE  /\ symbols' \in Seq(Nat) /\ Len(symbols') = Len(symbols) + 1
           /\ shndx' \in Seq(Nat)
           /\ Len(shndx') = IF "symtab_shndx" \in need THEN Len(symbols') ELSE 0
<1>1. /\ symbols \in Seq(Nat) /\ shndx \in Seq(Nat)
      /\ Len(shndx) = IF "symtab_shndx" \in need THEN Len(symbols) ELSE 0
  BY DEF IInv, TypeOK, Written
<1>2. symbols' \in Seq(Nat) /\ Len(symbols') = Len(symbols) + 1
  BY <1>1
<1>3. CASE "symtab_shndx" \in need
  <2>1. shndx' = Append(shndx, s)
    BY <1>3 DEF PushShndx
  <2> QED BY <1>1, <1>2, <1>3, <2>1
<1>4. CASE "symtab_shndx" \notin need
  BY <1>1, <1>2, <1>4 DEF PushShndx
<1> QED BY <1>2, <1>3, <1>4

LEMMA WriteNullSymbolInv == ASSUME IInv, WriteNullSymbol PROVE IInv'
<1>1. /\ Turn("symtab") /\ Begin(blocks[cur + 1]) /\ headers' = headers
      /\ symbols' = Append(symbols, 0) /\ PushShndx(0)
  BY DEF WriteNullSymbol
<1>2. /\ symbols' \in Seq(Nat) /\ Len(symbols') = Len(symbols) + 1
      /\ shndx' \in Seq(Nat)
      /\ Len(shndx') = IF "symtab_shndx" \in need THEN Len(symbols') ELSE 0
  BY <1>1, PushShndxStep
<1>3. Len(symbols) = 0 /\ Progress("symtab", 1, cur', left')
  BY <1>1, BeginProgress DEF IInv, Written
<1>4. Progress("shdrs", Len(headers'), cur', left')
  BY <1>1, BeginProgress DEF IInv, Written
<1>5. UNCHANGED <<reserveVars, clientVars, ehdr>>
  BY <1>1 DEF Begin
<1>6. Progress("symtab", Len(symbols'), cur', left')
  <2>1. Len(symbols') = 1
    BY <1>2, <1>3
  <2> QED BY <1>3, <2>1
<1> QED BY <1>1, <1>2, <1>4, <1>5, <1>6, BeginStep, SecondPhase DEF IInv, TypeOK

LEMMA WriteSymbolInv ==
    ASSUME IInv, WriteSymbol(symsecs[Len(symbols)]) PROVE IInv'
<1> DEFINE s == symsecs[Len(symbols)]
<1>1. /\ Entry("symtab") /\ headers' = headers
      /\ symbols' = Append(symbols, Escape(s, XIndex)) /\ PushShndx(s)
  BY DEF WriteSymbol
<1>2. /\ Len(symbols) = num["symtab"] - left /\ Len(symbols) >= 1
      /\ Progress("symtab", Len(symbols) + 1, cur', left')
  BY <1>1, EntryProgress DEF IInv, Written
<1>3. left \in Nat /\ left > 0 /\ num["symtab"] \in Nat
  BY <1>1 DEF Entry, IInv, TypeOK, Singletons
<1>4. s \in Nat
  <2>1. num["symtab"] # 0 /\ Len(symbols) <= num["symtab"] - 1
    BY <1>2, <1>3
  <2>2. Len(symsecs) = num["symtab"] - 1 /\ symsecs \in Seq(Nat)
    BY <2>1 DEF IInv, Reserved, Counted, TypeOK
  <2>3. Len(symbols) \in 1..Len(symsecs)
    BY <1>2, <1>3, <2>1, <2>2
  <2> QED BY <2>2, <2>3
<1>5. Escape(s, XIndex) \in Nat
  BY <1>4, EscapeType, XIndexType
<1> HIDE DEF s
<1>6. /\ symbols' \in Seq(Nat) /\ Len(symbols') = Len(symbols) + 1
      /\ shndx' \in Seq(Nat)
      /\ Len(shndx') = IF "symtab_shndx" \in need THEN Len(symbols') ELSE 0
  BY <1>1, <1>4, <1>5, PushShndxStep
<1>7. Progress("shdrs", Len(headers'), cur', left')
  BY <1>1, EntryProgress DEF IInv, Written
<1>8. UNCHANGED <<reserveVars, clientVars, ehdr>>
  BY <1>1 DEF Entry
<1>9. Progress("symtab", Len(symbols'), cur', left')
  BY <1>2, <1>6
<1> QED BY <1>1, <1>6, <1>7, <1>8, <1>9, EntryStep, SecondPhase DEF IInv, TypeOK

LEMMA WriteNullSectionHeaderInv ==
    ASSUME IInv, WriteNullSectionHeader PROVE IInv'
<1> DEFINE h == [offset |-> 0,
                 size |-> IF num["shdrs"] >= LoReserve THEN num["shdrs"] ELSE 0,
                 link |-> IF index["shstrtab"] >= LoReserve
                          THEN index["shstrtab"] ELSE 0]
<1>1. /\ Turn("shdrs") /\ Begin(blocks[cur + 1])
      /\ headers' = <<h>> /\ shndx' = shndx /\ symbols' = symbols
  BY DEF WriteNullSectionHeader
<1>2. h \in Headers
  BY DEF Headers, IInv, TypeOK, Singletons, StringTables
<1> HIDE DEF h
<1>3. headers' \in Seq(Headers) /\ Len(headers') = 1
  BY <1>1, <1>2
<1>4. /\ Progress("symtab", Len(symbols'), cur', left')
      /\ Progress("shdrs", 1, cur', left')
  BY <1>1, BeginProgress DEF IInv, Written
<1>5. UNCHANGED <<reserveVars, clientVars, ehdr>>
  BY <1>1 DEF Begin
<1> QED BY <1>1, <1>3, <1>4, <1>5, BeginStep, SecondPhase
        DEF IInv, TypeOK, Written

LEMMA HeaderOfType ==
    ASSUME IInv, cur > 0, NEW i \in 1..Len(sections)
    PROVE  HeaderOf(sections[i]) \in Headers
<1> DEFINE s == sections[i]
<1>1. s \in Sections
  BY DEF IInv, TypeOK
<1>2. LinkKind(s.kind) # "none" => index[LinkKind(s.kind)] \in Nat
  BY DEF LinkKind, IInv, TypeOK, Singletons, StringTables
<1>3. CASE s.kind \in ClientKinds
  <2>1. s.block \in 1..Len(blocks)
    <3>1. s.block \in 0..Len(blocks)
      BY <1>3 DEF IInv, Reserved, Counted
    <3>2. s.block # 0
      BY <1>3 DEF IInv, Written
    <3>3. Len(blocks) \in Nat
      BY DEF IInv, TypeOK
    <3> HIDE DEF s
    <3> QED BY <3>1, <3>2, <3>3
  <2>2. blocks[s.block] \in Blocks
    <3>1. blocks \in Seq(Blocks)
      BY DEF IInv, TypeOK
    <3> HIDE DEF s
    <3> QED BY <2>1, <3>1, ElementOfSeq
  <2> QED BY <1>2, <1>3, <2>2 DEF HeaderOf, Headers, Blocks
<1>4. CASE s.kind \notin ClientKinds
  <2>1. s.kind \in Singletons
    BY <1>1, <1>4 DEF Sections, SectionKinds
  <2>2. offset[s.kind] \in Nat /\ RangeSize(s.kind, num) \in Nat
    BY <2>1, RangeSizeType DEF IInv, TypeOK
  <2>3. HeaderSize(s.kind) \in Nat
    BY <2>2 DEF HeaderSize
  <2> QED BY <1>2, <1>4, <2>2, <2>3 DEF HeaderOf, Headers
<1> QED BY <1>3, <1>4

LEMMA WriteSectionHeaderInv ==
    ASSUME IInv, WriteSectionHeader(sections[Len(headers)]) PROVE IInv'
<1> DEFINE h == HeaderOf(sections[Len(headers)])
<1>1. /\ Entry("shdrs") /\ shndx' = shndx /\ symbols' = symbols
      /\ headers' = Append(headers, h)
  BY DEF WriteSectionHeader
<1>2. /\ Len(headers) = num["shdrs"] - left /\ Len(headers) >= 1
      /\ Progress("shdrs", Len(headers) + 1, cur', left')
  BY <1>1, EntryProgress DEF IInv, Written
<1>3. left \in Nat /\ left > 0 /\ num["shdrs"] \in Nat
  BY <1>1 DEF Entry, IInv, TypeOK, Singletons
<1>4. h \in Headers
  <2>1. num["shdrs"] # 0 /\ Len(headers) <= num["shdrs"] - 1
    BY <1>2, <1>3
  <2>2. Len(sections) = num["shdrs"] - 1
    BY <2>1 DEF IInv, Reserved, Counted
  <2>3. Len(headers) \in 1..Len(sections)
    BY <1>2, <1>3, <2>1, <2>2
  <2>4. cur > 0
    BY <1>1, EntryStep
  <2> QED BY <2>3, <2>4, HeaderOfType
<1> HIDE DEF h
<1>5. headers' \in Seq(Headers) /\ Len(headers') = Len(headers) + 1
  BY <1>1, <1>4 DEF IInv, TypeOK
<1>6. Progress("symtab", Len(symbols'), cur', left')
  BY <1>1, EntryProgress DEF IInv, Written
<1>7. UNCHANGED <<reserveVars, clientVars, ehdr>>
  BY <1>1 DEF Entry
<1>8. Progress("shdrs", Len(headers'), cur', left')
  BY <1>2, <1>5
<1> QED BY <1>1, <1>5, <1>6, <1>7, <1>8, EntryStep, SecondPhase
        DEF IInv, TypeOK, Written

LEMMA WriteNextInv == ASSUME IInv, WriteNext PROVE IInv'
<1>1. WriteBlockNext => \E k \in Opaque : WriteBlock(k)
  BY DEF WriteBlockNext, WriteAlignProgramHeaders, WriteShstrtab, WriteStrtab,
         WriteSymtabShndx, WriteDynstr, WriteNullDynamicSymbol, WriteAlignDynamic,
         WriteHash, WriteGnuHash, WriteNullGnuVersym, WriteAlignGnuVerdef,
         WriteAlignGnuVerneed, WriteGnuAttributes, WriteData, PadUntil,
         WriteAlignRelocation, WriteComdatHeader,
         Opaque, Singletons, Loose, StringTables, ArgKinds
<1>2. WriteEntryNext => \E k \in Opaque : WriteEntry(k)
  BY DEF WriteEntryNext, WriteProgramHeader, WriteDynamicSymbol, WriteDynamic,
         WriteGnuVersym, WriteGnuVerdef, WriteGnuVerneed, WriteRelocation,
         WriteComdatEntry, Opaque, Singletons, Loose, StringTables, ArgKinds
<1> QED BY <1>1, <1>2, BlockInv, EntryInv, WriteFileHeaderInv, WriteNullSymbolInv,
           WriteSymbolInv, WriteNullSectionHeaderInv, WriteSectionHeaderInv
        DEF WriteNext

-------------------------------------------------------------------------------
(* The theorems *)

LEMMA InitInv == Init => IInv
<1> SUFFICES ASSUME Init PROVE IInv
  OBVIOUS
<1>1. /\ blocks = <<>> /\ sections = <<>> /\ symsecs = <<>> /\ shndx = <<>>
      /\ headers = <<>> /\ symbols = <<>> /\ landed = <<>>
      /\ len = 0 /\ buf = 0 /\ cur = 0 /\ left = 0 /\ strs = 0 /\ need = {}
      /\ offset = [k \in Singletons |-> 0] /\ index = [k \in Singletons |-> 0]
      /\ num = [k \in Singletons |-> 0]
      /\ ehdr = [phnum |-> 0, shoff |-> 0, shnum |-> 0, shstrndx |-> 0]
  BY DEF Init
<1>2. num["shdrs"] = 0 /\ num["symtab"] = 0
  BY <1>1 DEF Singletons
<1>3. TypeOK
  BY <1>1 DEF TypeOK
<1>4. Reserved
  BY <1>1, <1>2 DEF Reserved, Spaced, Stacked, RangesApart, Frozen, Owned,
                    NotEmpty, Counted, Ordered
<1>5. Written /\ Landed
  BY <1>1 DEF Written, Progress, Landed
<1> QED BY <1>3, <1>4, <1>5 DEF IInv

LEMMA StutterInv == ASSUME IInv, UNCHANGED vars PROVE IInv'
<1>1. /\ UNCHANGED <<reserveVars, clientVars, writeVars>>
  BY DEF vars
<1>2. TypeOK'
  BY <1>1 DEF IInv, TypeOK, reserveVars, clientVars, writeVars
<1>3. Reserved'
  BY <1>1, ReservedKept DEF IInv
<1>4. Written'
  BY <1>1 DEF IInv, Written, Progress, reserveVars, clientVars, writeVars
<1>5. Landed'
  BY <1>1 DEF IInv, Landed, End, EntrySize, SymSize, ShdrSize, PhdrSize, DynSize,
              RelSize, clientVars, writeVars
<1> QED BY <1>2, <1>3, <1>4, <1>5 DEF IInv

(* The invariant holds of every behaviour of a client that reserves        *)
(* .symtab_shndx after .symtab.                                            *)
THEOREM Inductive == ASSUME ShndxAfterSymtab PROVE Spec => []IInv
<1>1. IInv /\ [Next]_vars => IInv'
  BY ReserveNextInv, WriteNextInv, StutterInv DEF Next
<1> QED BY InitInv, <1>1, PTL DEF Spec

(* The state is well typed: the counts of entries still to be written and  *)
(* the bytes reserved never go negative.                                   *)
THEOREM TypeCorrect == ASSUME ShndxAfterSymtab PROVE Spec => []TypeOK
<1>1. IInv => TypeOK
  BY DEF IInv
<1> QED BY <1>1, Inductive, PTL

(* Whatever was reserved, and in whatever order, the second phase puts it  *)
(* where the first one said.                                               *)
THEOREM LandsWhereReserved == ASSUME ShndxAfterSymtab PROVE Spec => []Landed
<1>1. IInv => Landed
  BY DEF IInv
<1> QED BY <1>1, Inductive, PTL

(* The assertions of the second phase hold.                                *)
THEOREM NeverPanics == ASSUME ShndxAfterSymtab PROVE Spec => []NoPanic
<1>1. ASSUME IInv, NEW k \in Opaque \cup {"symtab", "shdrs"}, Turn(k)
      PROVE  LET b == blocks[cur + 1] IN
             /\ Present(b) /\ Start(b) = b.offset /\ buf <= End(b)
             /\ k = "symtab_shndx" => Len(shndx) = num["symtab"]
  <2> DEFINE b == blocks[cur + 1]
  <2>1. k # "ehdr"
    BY DEF Opaque, Singletons, Loose, StringTables, ArgKinds
  <2>2. /\ b \in Blocks /\ b.kind = k /\ Present(b) /\ Start(b) = b.offset
        /\ buf \in Nat /\ buf <= b.offset
        /\ b.kind = "symtab_shndx" => Len(shndx) = num["symtab"]
    BY <1>1, <2>1, TurnStart
  <2>3. buf <= End(b)
    BY <2>2 DEF End, Blocks
  <2> QED BY <2>2, <2>3
<1>2. IInv => NoPanic
  BY <1>1 DEF NoPanic
<1> QED BY <1>2, Inductive, PTL

(* Ranges are aligned and do not overlap.                                  *)
THEOREM RangesNeverOverlap == ASSUME ShndxAfterSymtab PROVE Spec => []RangesApart
<1>1. IInv => RangesApart
  BY DEF IInv, Reserved, Stacked
<1> QED BY <1>1, Inductive, PTL

(* The file that was written has the length that was reserved.             *)
THEOREM WritesEverything == ASSUME ShndxAfterSymtab PROVE Spec => []Complete
<1>1. ASSUME IInv, Finished PROVE buf = len
  <2>1. /\ cur \in Nat /\ cur > 0 /\ cur = Len(blocks) /\ left = 0
        /\ buf \in Int /\ blocks \in Seq(Blocks)
    BY <1>1 DEF Finished, IInv, TypeOK
  <2>2. blocks[cur] \in Blocks
    BY <2>1
  <2>3. buf + left * EntrySize(blocks[cur].kind) = End(blocks[cur])
    BY <1>1, <2>1 DEF IInv, Landed
  <2>4. left * EntrySize(blocks[cur].kind) = 0
    BY <2>1, EntrySizeType
  <2>5. End(blocks[cur]) = len
    BY <1>1, <2>1 DEF IInv, Written, Reserved, Spaced
  <2> QED BY <2>1, <2>2, <2>3, <2>4, <2>5 DEF End, Blocks
<1>2. IInv => Complete
  BY <1>1 DEF Complete
<1> QED BY <1>2, Inductive, PTL

-------------------------------------------------------------------------------
(* The writer implements FileLayout *)

(* The steps of the first phase, by the operator they instantiate.         *)
LEMMA ReserveCases ==
    ASSUME ReserveNext
    PROVE  ReserveFileHeader \/ ReserveNullIndex \/ ReserveNullSymbol
           \/ ReserveNullDynamicSymbol \/ ReserveDynamicSymbol
           \/ (\E k, d : AddString(k, d)) \/ (\E k : Require(k))
           \/ (\E s : ReserveSymbol(s)) \/ (\E k, d : ReserveIndex(k, d))
           \/ (\E k, i, d : ReserveClientIndex(k, i, d))
           \/ (\E k, c : ReserveRange(k, c)) \/ (\E k, c, a, j : ReserveLoose(k, c, a, j))
<1>1. ReserveIndexNext => \E k, d : ReserveIndex(k, d)
  BY DEF ReserveIndexNext, ReserveShstrtabIndex, ReserveStrtabIndex,
         ReserveSymtabIndex, ReserveSymtabShndxIndex, ReserveDynstrIndex,
         ReserveDynsymIndex, ReserveDynamicIndex, ReserveHashIndex,
         ReserveGnuHashIndex, ReserveGnuVersymIndex, ReserveGnuVerdefIndex,
         ReserveGnuVerneedIndex, ReserveGnuAttributesIndex
<1>2. ReserveRangeNext => \E k, c : ReserveRange(k, c)
  BY DEF ReserveRangeNext, ReserveProgramHeaders, ReserveSectionHeaders,
         ReserveShstrtab, ReserveStrtab, ReserveSymtab, ReserveSymtabShndx,
         ReserveDynstr, ReserveDynsym, ReserveDynamic, ReserveHash,
         ReserveGnuHash, ReserveGnuVersym, ReserveGnuVerdef,
         ReserveGnuVerneed, ReserveGnuAttributes
<1>3. ReserveLooseNext => \E k, c, a, j : ReserveLoose(k, c, a, j)
  BY DEF ReserveLooseNext, ReserveData, ReserveRelocations, ReserveComdat,
         ReserveUntil
<1> QED BY <1>1, <1>2, <1>3 DEF ReserveNext

(* The first phase only ever adds blocks.                                  *)
LEMMA ReserveShape ==
    ASSUME IInv, ReserveNext
    PROVE  /\ UNCHANGED writeVars /\ cur = 0
           /\ UNCHANGED blocks \/ \E b : blocks' = Append(blocks, b)
<1>1. ASSUME ReserveFileHeader \/ (\E k, c : ReserveRange(k, c))
             \/ (\E k, c, a, j : ReserveLoose(k, c, a, j))
      PROVE  UNCHANGED writeVars /\ cur = 0 /\ \E b : blocks' = Append(blocks, b)
  BY <1>1, NothingReserved
     DEF ReserveFileHeader, ReserveRange, ReserveLoose, Reserve, Reserving
<1>2. ASSUME ReserveNullIndex \/ ReserveNullSymbol \/ ReserveNullDynamicSymbol
             \/ ReserveDynamicSymbol \/ (\E k, d : AddString(k, d))
             \/ (\E k : Require(k)) \/ (\E s : ReserveSymbol(s))
             \/ (\E k, d : ReserveIndex(k, d))
             \/ (\E k, i, d : ReserveClientIndex(k, i, d))
      PROVE  UNCHANGED writeVars /\ cur = 0 /\ UNCHANGED blocks
  BY <1>2 DEF Reserving, ReserveSection, ReserveNullIndex, ReserveNullSymbol, ReserveNullDynamicSymbol,
              ReserveDynamicSymbol, AddString, Require, ReserveSymbol,
              ReserveIndex, ReserveClientIndex, clientVars
<1> QED BY <1>1, <1>2, ReserveCases

(* The steps of the second phase, by the operator they instantiate.        *)
LEMMA WriteCases ==
    ASSUME WriteNext
    PROVE  \/ WriteFileHeader
           \/ \E k : k # "ehdr" /\ WriteBlock(k)
           \/ \E k : WriteEntry(k)
           \/ WriteNullSymbol
           \/ WriteSymbol(symsecs[Len(symbols)])
           \/ WriteNullSectionHeader
           \/ WriteSectionHeader(sections[Len(headers)])
<1>1. WriteBlockNext => \E k : k # "ehdr" /\ WriteBlock(k)
  BY DEF WriteBlockNext, WriteAlignProgramHeaders, WriteShstrtab, WriteStrtab,
         WriteSymtabShndx, WriteDynstr, WriteNullDynamicSymbol, WriteAlignDynamic,
         WriteHash, WriteGnuHash, WriteNullGnuVersym, WriteAlignGnuVerdef,
         WriteAlignGnuVerneed, WriteGnuAttributes, WriteData, PadUntil,
         WriteAlignRelocation, WriteComdatHeader
<1>2. WriteEntryNext => \E k : WriteEntry(k)
  BY DEF WriteEntryNext, WriteProgramHeader, WriteDynamicSymbol, WriteDynamic,
         WriteGnuVersym, WriteGnuVerdef, WriteGnuVerneed, WriteRelocation,
         WriteComdatEntry
<1> QED BY <1>1, <1>2 DEF WriteNext

(* A second phase step begins the next block, or is an entry's.            *)
LEMMA WriteShape ==
    ASSUME WriteNext
    PROVE  \/ WriteFileHeader
           \/ \E k : k # "ehdr" /\ Turn(k) /\ Begin(blocks[cur + 1])
           \/ \E k : Entry(k)
<1>1. "symtab" # "ehdr" /\ "shdrs" # "ehdr"
  OBVIOUS
<1> QED BY <1>1, WriteCases DEF WriteBlock, WriteEntry, WriteNullSymbol,
           WriteSymbol, WriteNullSectionHeader, WriteSectionHeader

LEMMA BlockTypes ==
    ASSUME NEW B \in Seq(Blocks), NEW i \in 1..Len(B)
    PROVE  B[i].offset \in Nat /\ B[i].size \in Nat /\ End(B[i]) \in Nat
<1>1. B[i] \in Blocks
  OBVIOUS
<1> QED BY <1>1, SMTT(30), ZenonT(30) DEF Blocks, End

(* What FileLayout sees of the state: the writer's blocks as ranges, and   *)
(* the blocks put down as pieces.                                          *)
LEMMA Mapped ==
    ASSUME IInv,
           NEW R, R = [i \in DOMAIN blocks |->
                          [offset |-> blocks[i].offset, size |-> blocks[i].size]],
           NEW P, P = [i \in DOMAIN landed |-> [range |-> i, at |-> landed[i]]]
    PROVE  /\ R \in Seq([offset : Nat, size : Nat]) /\ Len(R) = Len(blocks)
           /\ DOMAIN R = 1..Len(blocks)
           /\ \A i \in 1..Len(blocks) : R[i].offset = blocks[i].offset
                                        /\ R[i].size = blocks[i].size
                                        /\ R[i].offset + R[i].size = End(blocks[i])
           /\ P \in Seq([range : Nat, at : Int]) /\ Len(P) = cur
           /\ DOMAIN P = 1..cur
<1>1. blocks \in Seq(Blocks) /\ landed \in Seq(Int) /\ Len(landed) = cur
  BY DEF IInv, TypeOK
<1>2. DOMAIN blocks = 1..Len(blocks) /\ DOMAIN landed = 1..cur
      /\ Len(blocks) \in Nat /\ cur \in Nat
  BY <1>1, LenProperties
<1>3. \A i \in 1..Len(blocks) : blocks[i].offset \in Nat /\ blocks[i].size \in Nat
  BY <1>1, BlockTypes
<1>4. \A i \in 1..cur : landed[i] \in Int /\ i \in Nat
  BY <1>1, <1>2
<1>5. R \in Seq([offset : Nat, size : Nat]) /\ Len(R) = Len(blocks)
  BY <1>2, <1>3
<1>6. P \in Seq([range : Nat, at : Int]) /\ Len(P) = cur
  BY <1>2, <1>4
<1> QED BY <1>2, <1>3, <1>5, <1>6 DEF End

LEMMA LayoutReserve ==
    ASSUME IInv, IInv', ReserveNext
    PROVE  FL!Reserve \/ UNCHANGED FL!vars
<1> DEFINE R == [i \in DOMAIN blocks |->
                    [offset |-> blocks[i].offset, size |-> blocks[i].size]]
           P == [i \in DOMAIN landed |-> [range |-> i, at |-> landed[i]]]
<1>1. UNCHANGED <<buf, cur, landed>>
  BY ReserveShape DEF writeVars
<1>2. CASE UNCHANGED blocks
  BY <1>1, <1>2 DEF FL!vars
<1>3. CASE \E b : blocks' = Append(blocks, b)
  <2>1. blocks \in Seq(Blocks) /\ blocks' \in Seq(Blocks)
    BY DEF IInv, TypeOK
  <2>2. /\ Len(blocks) \in Nat /\ Len(blocks') = Len(blocks) + 1
        /\ \A i \in 1..Len(blocks) : blocks'[i] = blocks[i]
    BY <1>3, <2>1
  <2>3. /\ R \in Seq([offset : Nat, size : Nat]) /\ Len(R) = Len(blocks)
        /\ DOMAIN R = 1..Len(blocks)
        /\ \A i \in 1..Len(blocks) : R[i].offset = blocks[i].offset
                                     /\ R[i].size = blocks[i].size
                                     /\ R[i].offset + R[i].size = End(blocks[i])
    BY Mapped
  <2>4. /\ R' \in Seq([offset : Nat, size : Nat]) /\ Len(R') = Len(blocks')
        /\ \A i \in 1..Len(blocks') : R'[i].offset = blocks'[i].offset
                                     /\ R'[i].size = blocks'[i].size
    <3>1. DOMAIN blocks' = 1..Len(blocks')
      BY <2>1
    <3>2. \A i \in 1..Len(blocks') : blocks'[i].offset \in Nat /\ blocks'[i].size \in Nat
      BY <2>1, BlockTypes
    <3> QED BY <2>2, <3>1, <3>2
  <2>5. \A i \in 1..Len(R) : R'[i] = R[i]
    BY <2>1, <2>2
  <2> HIDE DEF R
  <2>6. /\ R' = Append(R, R'[Len(R')]) /\ R' # <<>>
        /\ R'[Len(R')] \in [offset : Nat, size : Nat]
    <3> DEFINE S == [offset : Nat, size : Nat]
    <3>1. R \in Seq(S) /\ R' \in Seq(S) /\ Len(R') = Len(R) + 1
      BY <2>2, <2>3, <2>4
    <3> HIDE DEF S
    <3>2. R' = Append(R, R'[Len(R')]) /\ R' # <<>> /\ R'[Len(R')] \in S
      BY <2>5, <3>1, Appended
    <3> QED BY <3>2 DEF S
  <2>7. Len(blocks') \in 1..Len(blocks')
    BY <2>2
  <2>8. \A i \in 1..Len(blocks) : End(blocks[i]) <= blocks'[Len(blocks')].offset
    <3>1. DOMAIN blocks' = 1..Len(blocks')
      BY <2>1
    <3>2. ASSUME NEW i \in 1..Len(blocks)
          PROVE  End(blocks[i]) <= blocks'[Len(blocks')].offset
      <4>1. i \in DOMAIN blocks' /\ Len(blocks') \in DOMAIN blocks' /\ i < Len(blocks')
        BY <2>2, <3>1
      <4>2. RangesApart'
        BY DEF IInv, Reserved, Stacked
      <4> QED BY <2>2, <4>1, <4>2 DEF RangesApart, End
    <3> QED BY <3>2
  <2>9. \A i \in DOMAIN R : R[i].offset + R[i].size <= R'[Len(R')].offset
    BY <2>3, <2>4, <2>7, <2>8
  <2>10. cur = 0
    BY ReserveShape
  <2>11. R'[Len(R')].size >= 0
    BY <2>6
  <2>12. UNCHANGED P
    BY <1>1
  <2>13. R # <<>> => Len(R) \in DOMAIN R
    BY <2>3
  <2> QED BY <1>1, <2>6, <2>9, <2>10, <2>11, <2>12, <2>13 DEF FL!Reserve, FL!EndOf, R
<1> QED BY <1>2, <1>3, ReserveShape

LEMMA LayoutWrite ==
    ASSUME IInv, IInv', cur = 0 => buf = 0, WriteNext
    PROVE  FL!Put \/ FL!Fill
<1> DEFINE R == [i \in DOMAIN blocks |->
                    [offset |-> blocks[i].offset, size |-> blocks[i].size]]
           P == [i \in DOMAIN landed |-> [range |-> i, at |-> landed[i]]]
<1>1. /\ R \in Seq([offset : Nat, size : Nat]) /\ Len(R) = Len(blocks)
      /\ DOMAIN R = 1..Len(blocks)
      /\ \A i \in 1..Len(blocks) : R[i].offset = blocks[i].offset
                                   /\ R[i].size = blocks[i].size
                                   /\ R[i].offset + R[i].size = End(blocks[i])
      /\ P \in Seq([range : Nat, at : Int]) /\ Len(P) = cur
      /\ DOMAIN P = 1..cur
  BY Mapped
<1>2. \A i \in 1..Len(blocks) :
          blocks[i].offset \in Nat /\ blocks[i].size \in Nat /\ End(blocks[i]) \in Nat
  <2>1. blocks \in Seq(Blocks)
    BY DEF IInv, TypeOK
  <2> QED BY <2>1, BlockTypes
<1>3. cur \in Nat /\ Len(blocks) \in Nat /\ buf \in Int /\ left \in Nat
      /\ landed \in Seq(Int) /\ Len(landed) = cur
  <2>1. blocks \in Seq(Blocks)
    BY DEF IInv, TypeOK
  <2>2. Len(blocks) \in Nat
    BY <2>1
  <2> QED BY <2>2 DEF IInv, TypeOK
<1>4. ASSUME cur < Len(blocks), cur' = cur + 1, blocks' = blocks,
             landed' = Append(landed, blocks[cur + 1].offset),
             buf <= blocks[cur + 1].offset,
             buf' \in blocks[cur + 1].offset..End(blocks[cur + 1])
      PROVE  FL!Put
  <2>1. /\ DOMAIN landed' = 1..(cur + 1) /\ landed'[cur + 1] = blocks[cur + 1].offset
        /\ \A i \in 1..cur : landed'[i] = landed[i]
        /\ DOMAIN landed = 1..cur /\ landed' \in Seq(Int)
        /\ cur + 1 \in 1..Len(blocks)
    BY <1>2, <1>3, <1>4
  <2>2. P' \in Seq([range : Nat, at : Int]) /\ Len(P') = cur + 1
    BY <1>3, <2>1
  <2>3. P'[cur + 1] = [range |-> cur + 1, at |-> R[cur + 1].offset]
    BY <1>1, <1>3, <2>1
  <2>4. \A i \in 1..Len(P) : P'[i] = P[i]
    BY <1>1, <1>3, <2>1
  <2>5. R' = R
    BY <1>4
  <2> HIDE DEF P
  <2>6. P' = Append(P, P'[Len(P')])
    BY <1>1, <2>2, <2>4, Appended
  <2> HIDE DEF R
  <2>7. /\ cur < Len(R) /\ buf <= R[cur + 1].offset
        /\ buf' \in R[cur + 1].offset..(R[cur + 1].offset + R[cur + 1].size)
    BY <1>1, <1>4, <2>1
  <2>8. P' = Append(P, [range |-> cur + 1, at |-> R[cur + 1].offset])
    BY <2>2, <2>3, <2>6
  <2> QED BY <1>4, <2>5, <2>7, <2>8 DEF FL!Put, FL!EndOf, R, P
<1>5. left' \in Nat /\ buf' \in Int
  BY DEF IInv, TypeOK
<1>6. cur' > 0 => /\ (buf + left * EntrySize(blocks[cur].kind) = End(blocks[cur]))'
                  /\ landed'[cur'] = blocks'[cur'].offset
  <2>1. Landed' /\ cur' \in Nat
    BY DEF IInv, TypeOK
  <2> QED BY <2>1 DEF Landed, End
<1>7. CASE WriteFileHeader
  <2>1. /\ cur = 0 /\ cur' = 1 /\ landed' = <<0>> /\ blocks' = blocks /\ blocks # <<>>
        /\ buf' = EhdrSize /\ left' = left
    BY <1>7 DEF WriteFileHeader, Reserving, clientVars
  <2>2. Len(blocks) >= 1 /\ cur < Len(blocks)
    BY <1>3, <2>1 DEF IInv, TypeOK
  <2>3. landed = <<>> /\ left = 0
    BY <1>3, <2>1, NothingWritten DEF IInv
  <2>4. blocks[1].offset = 0
    BY <1>6, <2>1
  <2>5. landed' = Append(landed, blocks[1].offset)
    BY <2>1, <2>3, <2>4
  <2>6. buf = 0 /\ buf' \in Nat /\ EhdrSize = End(blocks[1])
    <3>1. blocks[1].size = EhdrSize
      BY <2>1 DEF IInv, Reserved, Spaced
    <3>2. buf = 0
      BY <2>1
    <3> QED BY <1>2, <2>1, <2>2, <2>4, <3>1, <3>2, SizeTypes DEF End
  <2> QED BY <1>2, <1>4, <2>1, <2>2, <2>4, <2>5, <2>6
<1>8. ASSUME NEW k, k # "ehdr", Turn(k), Begin(blocks[cur + 1])
      PROVE  FL!Put
  <2> DEFINE b == blocks[cur + 1]
  <2>1. /\ cur >= 1 /\ cur + 1 \in 2..Len(blocks)
        /\ b \in Blocks /\ Start(b) = b.offset /\ buf <= b.offset /\ buf \in Nat
    BY <1>8, TurnStart
  <2>2. /\ cur' = cur + 1 /\ blocks' = blocks /\ buf' = Start(b) + Chunk(b)
        /\ landed' = Append(landed, b.offset)
    BY <1>8, <2>1 DEF Begin, clientVars
  <2>3. buf' >= b.offset /\ buf' <= End(b)
    BY <1>8, BeginStep
  <2> QED BY <1>2, <1>3, <1>4, <1>5, <2>1, <2>2, <2>3
<1>9. ASSUME NEW k, Entry(k)
      PROVE  FL!Fill
  <2>1. /\ cur' = cur /\ cur > 0 /\ cur \in 1..Len(blocks) /\ landed' = landed
        /\ blocks' = blocks /\ buf' = buf + EntrySize(k)
    BY <1>3, <1>9, EntryStep DEF Entry, clientVars
  <2>2. buf' >= buf /\ EntrySize(k) \in Nat
    BY <1>3, <2>1, EntrySizeType
  <2>3. buf' <= End(blocks[cur])
    <3> DEFINE e == (EntrySize(blocks[cur].kind))'
               f == End(blocks[cur])
    <3>1. e \in Nat /\ left' \in Nat /\ buf' \in Int /\ f \in Int
      BY <1>2, <1>5, <2>1, SizeTypes DEF EntrySize
    <3>2. buf' + left' * e = f
      BY <1>6, <2>1 DEF End
    <3> HIDE DEF e, f
    <3>3. left' * e \in Nat
      BY <3>1, Product
    <3> QED BY <3>1, <3>2, <3>3 DEF f
  <2> QED BY <1>1, <1>3, <1>5, <2>1, <2>2, <2>3 DEF FL!Fill, FL!EndOf
<1> QED BY <1>7, <1>8, <1>9, WriteShape

(* The writer implements FileLayout: whatever a client reserves, in         *)
(* whatever order, pieces are put down in the order of their ranges, where  *)
(* they begin, and no further than where they end.                          *)
THEOREM Refines == ASSUME ShndxAfterSymtab PROVE Spec => ImplementsLayout
<1> DEFINE Begun == cur = 0 => buf = 0
<1>1. Init => FL!Init /\ Begun
  BY DEF Init, FL!Init
<1>2. ASSUME IInv, IInv', Begun, [Next]_vars PROVE Begun' /\ [FL!Next]_(FL!vars)
  <2>1. CASE UNCHANGED vars
    BY <1>2, <2>1 DEF vars, clientVars, writeVars, FL!vars
  <2>2. CASE ReserveNext
    BY <1>2, <2>2, LayoutReserve, ReserveShape DEF writeVars, FL!Next
  <2>3. CASE WriteNext
    <3>1. cur' # 0
      <4>1. CASE WriteFileHeader
        BY <4>1 DEF WriteFileHeader
      <4>2. ASSUME NEW k, k # "ehdr", Turn(k), Begin(blocks[cur + 1])
            PROVE  cur' # 0
        <5>1. cur' = cur + 1 /\ cur >= 1 /\ cur + 1 \in 2..Len(blocks)
          BY <1>2, <4>2, BeginStep
        <5>2. cur \in Int
          BY <1>2 DEF IInv, TypeOK
        <5> QED BY <5>1, <5>2
      <4>3. ASSUME NEW k, Entry(k)
            PROVE  cur' # 0
        <5>1. cur' = cur /\ cur \in 2..Len(blocks)
          BY <1>2, <4>3, EntryStep
        <5> QED BY <5>1
      <4> QED BY <2>3, <4>1, <4>2, <4>3, WriteShape
    <3> QED BY <1>2, <2>3, <3>1, LayoutWrite DEF FL!Next
  <2> QED BY <1>2, <2>1, <2>2, <2>3 DEF Next
<1> QED BY <1>1, <1>2, Inductive, PTL DEF Spec, ImplementsLayout, FL!Spec

-------------------------------------------------------------------------------
(* What a reader makes of the file: the section headers describe what was  *)
(* written for their sections, and the escapes of the section counts and   *)
(* indices are undone.                                                     *)

(* A singleton section has the index under which the client knows it.      *)
IndexOk ==
    /\ \A k \in Singletons : index[k] # 0 =>
           index[k] \in 1..Len(sections) /\ sections[index[k]].kind = k
    /\ \A i \in 1..Len(sections) : sections[i].kind \in Singletons =>
           index[sections[i].kind] # 0

(* A symbol in a section that needs an escape has room for it.             *)
RoomOk ==
    \A i \in 1..Len(symsecs) :
        symsecs[i] >= LoReserve => "symtab_shndx" \in need

(* The section that symbol table entry i was reserved with.                *)
SectionAt(i) == IF i = 1 THEN 0 ELSE symsecs[i - 1]

SymbolsOk ==
    /\ \A i \in 1..Len(symbols) : symbols[i] = Escape(SectionAt(i), XIndex)
    /\ \A i \in 1..Len(shndx) : shndx[i] = SectionAt(i)

FileHeaderRead ==
    [phnum    |-> num["phdrs"],
     shoff    |-> offset["shdrs"],
     shnum    |-> Escape(num["shdrs"], 0),
     shstrndx |-> Escape(index["shstrtab"], XIndex)]

(* The null section header and the others, once they are written.          *)
TableOk ==
    /\ Len(headers) >= 1 =>
        /\ num["shdrs"] >= LoReserve => headers[1].size = num["shdrs"]
        /\ index["shstrtab"] >= LoReserve => headers[1].link = index["shstrtab"]
    /\ \A i \in 2..Len(headers) : headers[i] = HeaderOf(sections[i - 1])

HeadersOk == cur > 0 => Ready /\ ehdr = FileHeaderRead /\ TableOk

RInv == IndexOk /\ RoomOk /\ SymbolsOk /\ HeadersOk

-------------------------------------------------------------------------------
(* The first phase *)

(* A step that adds a section, and its index if the writer keeps one.      *)
LEMMA SectionIndexed ==
    ASSUME IInv, IndexOk, NEW s, NEW d, ReserveSection(s, d),
           \/ s.kind \notin Singletons /\ index' = index
           \/ /\ s.kind \in Singletons /\ index[s.kind] = 0
              /\ index' = [index EXCEPT ![s.kind] = NewSectionIndex]
    PROVE  IndexOk'
<1> DEFINE n == Len(sections)
<1>1. /\ sections' = Append(sections, s) /\ sections \in Seq(Sections)
      /\ n \in Nat /\ index \in [Singletons -> Nat]
  BY DEF ReserveSection, IInv, TypeOK
<1>2. Len(sections') = n + 1 /\ sections'[n + 1] = s
      /\ \A i \in 1..n : sections'[i] = sections[i]
  BY <1>1
<1>3. NewSectionIndex = n + 1
  <2>1. num["shdrs"] \in Nat
    BY DEF IInv, TypeOK, Singletons
  <2>2. n = IF num["shdrs"] = 0 THEN 0 ELSE num["shdrs"] - 1
    BY DEF IInv, Reserved, Counted
  <2> HIDE DEF n
  <2> QED BY <2>1, <2>2 DEF NewSectionIndex
<1> HIDE DEF n
<1>4. ASSUME NEW k \in Singletons, index'[k] # 0
      PROVE  index'[k] \in 1..(n + 1) /\ sections'[index'[k]].kind = k
  <2>1. CASE index'[k] = index[k]
    <3>1. index[k] \in 1..n /\ sections[index[k]].kind = k
      BY <1>4, <2>1 DEF IndexOk, n
    <3> QED BY <1>1, <1>2, <2>1, <3>1
  <2>2. CASE index'[k] # index[k]
    <3>1. k = s.kind /\ index'[k] = n + 1
      BY <1>1, <1>3, <2>2
    <3> QED BY <1>1, <1>2, <3>1
  <2> QED BY <2>1, <2>2
<1>5. ASSUME NEW i \in 1..(n + 1), sections'[i].kind \in Singletons
      PROVE  index'[sections'[i].kind] # 0
  <2>1. CASE i = n + 1
    BY <1>1, <1>2, <1>3, <1>5, <2>1
  <2>2. CASE i # n + 1
    <3>1. i \in 1..n /\ sections'[i] = sections[i]
      BY <1>1, <1>2, <2>2
    <3>2. index[sections[i].kind] # 0 /\ sections[i].kind \in Singletons
      BY <1>5, <3>1 DEF IndexOk, n
    <3> QED BY <1>1, <1>3, <3>1, <3>2
  <2> QED BY <2>1, <2>2
<1> QED BY <1>2, <1>4, <1>5 DEF IndexOk

(* A step that keeps the kinds of the sections.                            *)
LEMMA SameKinds ==
    ASSUME IndexOk, index' = index, Len(sections') = Len(sections),
           \A i \in 1..Len(sections) : sections'[i].kind = sections[i].kind
    PROVE  IndexOk'
BY DEF IndexOk

LEMMA LooseKindsKept ==
    ASSUME IInv, NEW k, NEW c, NEW a, NEW j, ReserveLoose(k, c, a, j)
    PROVE  /\ Len(sections') = Len(sections)
           /\ \A i \in 1..Len(sections) : sections'[i].kind = sections[i].kind
<1>1. sections \in Seq(Sections) /\ DOMAIN sections = 1..Len(sections)
  BY DEF IInv, TypeOK
<1>2. CASE j = 0
  BY <1>2 DEF ReserveLoose
<1>3. CASE j # 0
  <2>1. j \in 1..Len(sections) /\ sections[j].kind = k
    BY <1>1, <1>3 DEF ReserveLoose
  <2>2. sections' = [sections EXCEPT ![j] = [kind |-> k, block |-> Len(blocks) + 1]]
    BY <1>3 DEF ReserveLoose
  <2> QED BY <1>1, <2>1, <2>2
<1> QED BY <1>2, <1>3

LEMMA ReserveSymbolRoom ==
    ASSUME IInv, RoomOk, NEW s, ReserveSymbol(s) PROVE RoomOk'
<1>1. /\ symsecs \in Seq(Nat) /\ symsecs' = Append(symsecs, s) /\ need \subseteq need'
      /\ NeedsShndx(s) => "symtab_shndx" \in need'
  BY DEF IInv, TypeOK, ReserveSymbol
<1>2. /\ Len(symsecs') = Len(symsecs) + 1 /\ symsecs'[Len(symsecs) + 1] = s
      /\ \A i \in 1..Len(symsecs) : symsecs'[i] = symsecs[i]
      /\ Len(symsecs) \in Nat
  BY <1>1
<1> QED BY <1>1, <1>2 DEF RoomOk, NeedsShndx

(* The other steps of the first phase leave the symbols and their needs.   *)
LEMMA SameRoom ==
    ASSUME RoomOk, symsecs' = symsecs, need \subseteq need' PROVE RoomOk'
BY DEF RoomOk

LEMMA ReserveReads ==
    ASSUME IInv, IInv', IndexOk, RoomOk, ReserveNext PROVE RInv'
<1>1. cur' = 0 /\ cur = 0
  BY ReserveShape DEF writeVars
<1>2. SymbolsOk' /\ HeadersOk'
  <2>1. Len(symbols') = 0 /\ Len(shndx') = 0
    <3>1. Len(symbols) = 0 /\ Len(shndx) = 0
      BY <1>1, NothingWritten DEF IInv
    <3> QED BY <3>1, ReserveShape DEF writeVars
  <2>2. SymbolsOk'
    BY <2>1 DEF SymbolsOk
  <2>3. HeadersOk'
    BY <1>1 DEF HeadersOk
  <2> QED BY <2>2, <2>3
<1>3. ASSUME ReserveFileHeader \/ ReserveNullIndex \/ ReserveNullSymbol
             \/ ReserveNullDynamicSymbol \/ ReserveDynamicSymbol
             \/ (\E k, d : AddString(k, d)) \/ (\E k : Require(k))
             \/ (\E k, c : ReserveRange(k, c))
      PROVE  IndexOk' /\ RoomOk'
  <2>1. UNCHANGED <<index, sections, symsecs>> /\ need \subseteq need'
    <3>1. CASE ReserveFileHeader \/ ReserveNullIndex \/ ReserveNullSymbol
               \/ ReserveNullDynamicSymbol \/ ReserveDynamicSymbol
      BY <3>1 DEF ReserveFileHeader, ReserveNullIndex, ReserveNullSymbol,
                  ReserveNullDynamicSymbol, ReserveDynamicSymbol, clientVars
    <3>2. CASE (\E k, d : AddString(k, d)) \/ (\E k : Require(k))
      BY <3>2 DEF AddString, Require, clientVars
    <3>3. CASE \E k, c : ReserveRange(k, c)
      BY <3>3 DEF ReserveRange
    <3> QED BY <1>3, <3>1, <3>2, <3>3
  <2> QED BY <2>1, SameKinds, SameRoom
<1>4. ASSUME NEW s, ReserveSymbol(s) PROVE IndexOk' /\ RoomOk'
  BY <1>4, SameKinds, ReserveSymbolRoom DEF ReserveSymbol
<1>5. ASSUME NEW k, NEW d, ReserveIndex(k, d) PROVE IndexOk' /\ RoomOk'
  <2> DEFINE s == [kind |-> k, block |-> 0]
  <2>1. /\ ReserveSection(s, d) /\ s.kind \in Singletons /\ index[s.kind] = 0
        /\ index' = [index EXCEPT ![s.kind] = NewSectionIndex]
    BY <1>5, ConstantsAssumption DEF ReserveIndex
  <2>2. IndexOk'
    BY <2>1, SectionIndexed
  <2> QED BY <1>5, <2>2, SameRoom DEF ReserveIndex
<1>6. ASSUME NEW k, NEW i, NEW d, ReserveClientIndex(k, i, d)
      PROVE  IndexOk' /\ RoomOk'
  <2> DEFINE s == [kind |-> k, block |-> i]
  <2>1. /\ ReserveSection(s, d) /\ s.kind \notin Singletons /\ index' = index
    BY <1>6, ConstantsAssumption
       DEF ReserveClientIndex, Loose, Singletons, StringTables, ArgKinds
  <2>2. IndexOk'
    BY <2>1, SectionIndexed
  <2> QED BY <1>6, <2>2, SameRoom DEF ReserveClientIndex
<1>7. ASSUME NEW k, NEW c, NEW a, NEW j, ReserveLoose(k, c, a, j)
      PROVE  IndexOk' /\ RoomOk'
  <2>1. UNCHANGED <<index, symsecs, need>>
    BY <1>7 DEF ReserveLoose
  <2> QED BY <1>7, <2>1, LooseKindsKept, SameKinds, SameRoom
<1> QED BY <1>2, <1>3, <1>4, <1>5, <1>6, <1>7, ReserveCases DEF RInv

-------------------------------------------------------------------------------
(* The second phase *)

LEMMA WriteKeeps == ASSUME WriteNext PROVE UNCHANGED <<reserveVars, clientVars>>
BY WriteShape DEF WriteFileHeader, Begin, Entry

(* What the second phase keeps of the invariant, whatever it writes.       *)
LEMMA ClientKept ==
    ASSUME UNCHANGED <<reserveVars, clientVars>>
    PROVE  /\ IndexOk => IndexOk'
           /\ RoomOk => RoomOk'
           /\ Ready => Ready'
           /\ FileHeaderRead' = FileHeaderRead
           /\ \A s : HeaderOf(s)' = HeaderOf(s)
<1>1. /\ len' = len /\ offset' = offset /\ index' = index /\ num' = num
      /\ need' = need /\ blocks' = blocks /\ sections' = sections
      /\ symsecs' = symsecs
  BY DEF reserveVars, clientVars
<1>2. (IndexOk => IndexOk') /\ (RoomOk => RoomOk')
  BY <1>1 DEF IndexOk, RoomOk
<1>3. Ready => Ready'
  BY <1>1 DEF Ready, Needed
<1>4. FileHeaderRead' = FileHeaderRead
  BY <1>1 DEF FileHeaderRead, Escape
<1>5. \A s : HeaderOf(s)' = HeaderOf(s)
  <2>1. \A k : HeaderSize(k)' = HeaderSize(k)
    BY <1>1 DEF HeaderSize, RangeSize, PhdrSize, ShdrSize, SymSize, DynSize
  <2> QED BY <1>1, <2>1 DEF HeaderOf
<1> QED BY <1>2, <1>3, <1>4, <1>5

LEMMA TableKept ==
    ASSUME UNCHANGED <<reserveVars, clientVars, headers>>, TableOk PROVE TableOk'
<1>1. /\ index' = index /\ num' = num /\ sections' = sections /\ headers' = headers
      /\ \A s : HeaderOf(s)' = HeaderOf(s)
  BY ClientKept DEF reserveVars, clientVars
<1> QED BY <1>1 DEF TableOk

LEMMA SymbolsKept ==
    ASSUME UNCHANGED <<symbols, shndx, symsecs>>, SymbolsOk PROVE SymbolsOk'
BY DEF SymbolsOk, SectionAt, Escape, XIndex

LEMMA SymbolsGrow ==
    ASSUME IInv, SymbolsOk, symsecs' = symsecs,
           NEW s \in Nat, s = SectionAt(Len(symbols) + 1),
           symbols' = Append(symbols, Escape(s, XIndex)), PushShndx(s)
    PROVE  SymbolsOk'
<1>1. symbols \in Seq(Nat) /\ shndx \in Seq(Nat) /\ Len(symbols) \in Nat
      /\ Len(shndx) = IF "symtab_shndx" \in need THEN Len(symbols) ELSE 0
  BY DEF IInv, TypeOK, Written
<1>2. \A i : SectionAt(i)' = SectionAt(i)
  BY DEF SectionAt
<1>3. /\ Len(symbols') = Len(symbols) + 1
      /\ symbols'[Len(symbols) + 1] = Escape(s, XIndex)
      /\ \A i \in 1..Len(symbols) : symbols'[i] = symbols[i]
  <2>1. Escape(s, XIndex) \in Nat
    BY EscapeType, XIndexType
  <2> QED BY <1>1, <2>1
<1>4. ASSUME NEW i \in 1..Len(symbols')
      PROVE  symbols'[i] = Escape(SectionAt(i), XIndex)
  BY <1>1, <1>3, <1>4 DEF SymbolsOk
<1>5. ASSUME NEW i \in 1..Len(shndx')
      PROVE  shndx'[i] = SectionAt(i)
  <2>1. CASE shndx' = shndx
    BY <1>5, <2>1 DEF SymbolsOk
  <2>2. CASE shndx' = Append(shndx, s) /\ "symtab_shndx" \in need
    <3>1. /\ Len(shndx') = Len(symbols) + 1 /\ Len(shndx) = Len(symbols)
          /\ shndx'[Len(symbols) + 1] = s
          /\ \A j \in 1..Len(symbols) : shndx'[j] = shndx[j]
      BY <1>1, <2>2
    <3> QED BY <1>1, <1>5, <3>1 DEF SymbolsOk
  <2> QED BY <2>1, <2>2 DEF PushShndx
<1>6. \A n : Escape(n, XIndex)' = Escape(n, XIndex)
  BY DEF Escape, XIndex
<1> QED BY <1>2, <1>4, <1>5, <1>6 DEF SymbolsOk, Escape, XIndex

LEMMA NullSymbolReads ==
    ASSUME IInv, SymbolsOk, WriteNullSymbol PROVE SymbolsOk'
<1>1. /\ Turn("symtab") /\ Begin(blocks[cur + 1]) /\ PushShndx(0)
      /\ symbols' = Append(symbols, 0) /\ symsecs' = symsecs
  BY DEF WriteNullSymbol, Begin, clientVars
<1>2. Len(symbols) = 0
  BY <1>1, BeginProgress DEF IInv, Written
<1>3. Escape(0, XIndex) = 0
  BY ConstantsAssumption DEF Escape
<1>4. SectionAt(Len(symbols) + 1) = 0
  BY <1>2 DEF SectionAt
<1> QED BY <1>1, <1>3, <1>4, SymbolsGrow

LEMMA SymbolReads ==
    ASSUME IInv, SymbolsOk, WriteSymbol(symsecs[Len(symbols)]) PROVE SymbolsOk'
<1> DEFINE n == Len(symbols)
           s == symsecs[n]
<1>1. /\ Entry("symtab") /\ PushShndx(s)
      /\ symbols' = Append(symbols, Escape(s, XIndex)) /\ symsecs' = symsecs
  BY DEF WriteSymbol, Entry, clientVars
<1>2. n = num["symtab"] - left /\ n >= 1
  BY <1>1, EntryProgress DEF IInv, Written
<1>3. left \in Nat /\ left > 0 /\ num["symtab"] \in Nat /\ n \in Nat
  <2>1. symbols \in Seq(Nat) /\ left \in Nat /\ num \in [Singletons -> Nat]
    BY DEF IInv, TypeOK
  <2>2. left > 0
    BY <1>1 DEF Entry
  <2>3. "symtab" \in Singletons
    BY DEF Singletons
  <2> HIDE DEF n
  <2>4. num["symtab"] \in Nat
    BY <2>1, <2>3
  <2>5. n \in Nat
    BY <2>1 DEF n
  <2> QED BY <2>1, <2>2, <2>4, <2>5
<1>4. symsecs \in Seq(Nat)
      /\ Len(symsecs) = IF num["symtab"] = 0 THEN 0 ELSE num["symtab"] - 1
  BY DEF IInv, Reserved, Counted, TypeOK
<1> HIDE DEF n
<1>5. n \in 1..Len(symsecs)
  BY <1>2, <1>3, <1>4
<1>6. s \in Nat
  BY <1>4, <1>5
<1>7. s = SectionAt(n + 1)
  BY <1>2, <1>3 DEF SectionAt
<1> HIDE DEF s
<1> QED BY <1>1, <1>6, <1>7, SymbolsGrow DEF n

LEMMA NullHeaderReads == ASSUME IInv, WriteNullSectionHeader PROVE TableOk'
<1> DEFINE h == [offset |-> 0,
                 size |-> IF num["shdrs"] >= LoReserve THEN num["shdrs"] ELSE 0,
                 link |-> IF index["shstrtab"] >= LoReserve
                          THEN index["shstrtab"] ELSE 0]
<1>1. headers' = <<h>> /\ index' = index /\ num' = num
  BY DEF WriteNullSectionHeader, Begin, reserveVars
<1>2. /\ num["shdrs"] >= LoReserve => h.size = num["shdrs"]
      /\ index["shstrtab"] >= LoReserve => h.link = index["shstrtab"]
  OBVIOUS
<1> HIDE DEF h
<1>3. Len(headers') = 1 /\ headers'[1] = h
  BY <1>1
<1> QED BY <1>1, <1>2, <1>3 DEF TableOk

LEMMA HeaderReads ==
    ASSUME IInv, TableOk, WriteSectionHeader(sections[Len(headers)])
    PROVE  TableOk'
<1> DEFINE n == Len(headers)
           h == HeaderOf(sections[n])
<1>1. /\ Entry("shdrs") /\ headers' = Append(headers, h)
      /\ UNCHANGED <<reserveVars, clientVars>>
  BY DEF WriteSectionHeader, Entry
<1>2. /\ n = num["shdrs"] - left /\ n >= 1
  BY <1>1, EntryProgress DEF IInv, Written
<1>3. headers \in Seq(Headers) /\ n \in Nat
  BY DEF IInv, TypeOK
<1>4. h \in Headers
  <2>1. left \in Nat /\ left > 0 /\ num["shdrs"] \in Nat /\ cur > 0
    BY <1>1, EntryStep DEF Entry, IInv, TypeOK, Singletons
  <2>2. Len(sections) = IF num["shdrs"] = 0 THEN 0 ELSE num["shdrs"] - 1
    BY DEF IInv, Reserved, Counted
  <2> HIDE DEF n
  <2>3. n \in 1..Len(sections)
    BY <1>2, <1>3, <2>1, <2>2
  <2> QED BY <2>1, <2>3, HeaderOfType
<1>5. /\ index' = index /\ num' = num /\ sections' = sections
      /\ \A s : HeaderOf(s)' = HeaderOf(s)
  BY <1>1, ClientKept DEF reserveVars, clientVars
<1> HIDE DEF h
<1>6. Len(headers') = n + 1 /\ headers'[n + 1] = h
      /\ \A i \in 1..n : headers'[i] = headers[i]
  BY <1>1, <1>3, <1>4
<1>7. ASSUME NEW i \in 2..(n + 1)
      PROVE  headers'[i] = HeaderOf(sections[i - 1])
  <2>1. CASE i = n + 1
    BY <1>3, <1>6, <2>1 DEF h
  <2>2. CASE i # n + 1
    BY <1>3, <1>6, <2>2 DEF TableOk
  <2> QED BY <2>1, <2>2
<1>8. n >= 1 /\ headers'[1] = headers[1]
  BY <1>2, <1>3, <1>6
<1> HIDE DEF n
<1> QED BY <1>5, <1>6, <1>7, <1>8 DEF TableOk, n

LEMMA FileHeaderReads ==
    ASSUME IInv, RInv, WriteFileHeader PROVE RInv'
<1>1. /\ cur = 0 /\ UNCHANGED <<reserveVars, clientVars, headers, symbols, shndx>>
      /\ Ready /\ ehdr' = FileHeaderRead
  BY DEF WriteFileHeader, Reserving, FileHeaderRead
<1>2. Len(headers') = 0
  BY <1>1, NothingWritten DEF IInv
<1>3. TableOk'
  BY <1>2 DEF TableOk
<1>4. IndexOk' /\ RoomOk' /\ Ready' /\ ehdr' = FileHeaderRead'
  BY <1>1, ClientKept DEF RInv
<1>5. SymbolsOk'
  BY <1>1, SymbolsKept DEF RInv, clientVars
<1> QED BY <1>3, <1>4, <1>5 DEF RInv, HeadersOk

LEMMA WriteReads == ASSUME IInv, RInv, WriteNext PROVE RInv'
<1>1. CASE WriteFileHeader
  BY <1>1, FileHeaderReads
<1>2. ASSUME cur > 0, ehdr' = ehdr, SymbolsOk', TableOk' PROVE RInv'
  <2>1. IndexOk' /\ RoomOk' /\ Ready' /\ FileHeaderRead' = FileHeaderRead
    BY <1>2, WriteKeeps, ClientKept DEF RInv, HeadersOk
  <2> QED BY <1>2, <2>1 DEF RInv, HeadersOk
<1>3. UNCHANGED <<reserveVars, clientVars, symsecs>>
  BY WriteKeeps DEF clientVars
<1>4. ASSUME cur > 0, UNCHANGED headers PROVE TableOk'
  BY <1>3, <1>4, TableKept DEF RInv, HeadersOk
<1>5. ASSUME UNCHANGED <<symbols, shndx>> PROVE SymbolsOk'
  BY <1>3, <1>5, SymbolsKept DEF RInv
<1>6. ASSUME NEW k, (Turn(k) /\ Begin(blocks[cur + 1])) \/ Entry(k)
      PROVE  cur > 0 /\ ehdr' = ehdr
  BY <1>6, EntryStep DEF Turn, Begin, Entry
<1>7. ASSUME NEW k, WriteBlock(k) \/ WriteEntry(k) PROVE RInv'
  BY <1>2, <1>4, <1>5, <1>6, <1>7 DEF WriteBlock, WriteEntry
<1>8. CASE WriteNullSymbol
  BY <1>2, <1>4, <1>6, <1>8, NullSymbolReads DEF WriteNullSymbol, RInv
<1>9. CASE WriteSymbol(symsecs[Len(symbols)])
  BY <1>2, <1>4, <1>6, <1>9, SymbolReads DEF WriteSymbol, RInv
<1>10. CASE WriteNullSectionHeader
  BY <1>2, <1>5, <1>6, <1>10, NullHeaderReads DEF WriteNullSectionHeader
<1>11. CASE WriteSectionHeader(sections[Len(headers)])
  <2>1. cur > 0
    BY <1>6, <1>11 DEF WriteSectionHeader
  <2> QED BY <1>2, <1>5, <1>6, <1>11, <2>1, HeaderReads
          DEF WriteSectionHeader, RInv, HeadersOk
<1> QED BY <1>1, <1>7, <1>8, <1>9, <1>10, <1>11, WriteCases

LEMMA InitReads == Init => RInv
<1> SUFFICES ASSUME Init PROVE RInv
  OBVIOUS
<1>1. /\ sections = <<>> /\ symsecs = <<>> /\ shndx = <<>> /\ symbols = <<>>
      /\ cur = 0 /\ \A k \in Singletons : index[k] = 0
  BY DEF Init
<1> QED BY <1>1 DEF RInv, IndexOk, RoomOk, SymbolsOk, HeadersOk

LEMMA StutterReads == ASSUME RInv, UNCHANGED vars PROVE RInv'
<1>1. /\ UNCHANGED <<reserveVars, clientVars, headers, symbols, shndx, symsecs>>
      /\ cur' = cur /\ ehdr' = ehdr
  BY DEF vars, writeVars, clientVars
<1>2. IndexOk' /\ RoomOk' /\ SymbolsOk'
  BY <1>1, ClientKept, SymbolsKept DEF RInv
<1>3. HeadersOk'
  BY <1>1, ClientKept, TableKept DEF RInv, HeadersOk
<1> QED BY <1>2, <1>3 DEF RInv

-------------------------------------------------------------------------------
(* The theorems *)

(* What is written is what was reserved: the index fields, the entries of  *)
(* .symtab and .symtab_shndx and the section headers.                      *)
THEOREM ReaderInvariant == ASSUME ShndxAfterSymtab PROVE Spec => [](IInv /\ RInv)
<1>1. Init => IInv /\ RInv
  BY InitInv, InitReads
<1>2. ASSUME IInv, RInv, [Next]_vars PROVE (IInv /\ RInv)'
  <2>1. IInv'
    BY <1>2, ReserveNextInv, WriteNextInv, StutterInv DEF Next
  <2>2. RInv'
    BY <1>2, <2>1, ReserveReads, WriteReads, StutterReads DEF Next, RInv
  <2> QED BY <2>1, <2>2
<1>3. IInv /\ RInv /\ [Next]_vars => (IInv /\ RInv)'
  BY <1>2
<1> QED BY <1>1, <1>3, PTL DEF Spec

(* A finished table is complete: it has an entry for everything reserved.  *)
LEMMA TableComplete ==
    ASSUME IInv, Finished, NEW k \in {"symtab", "shdrs"},
           NEW n, Progress(k, n, cur, left)
    PROVE  /\ n # 0 => n = num[k]
           /\ offset[k] # 0 => n = num[k]
<1>1. /\ cur = Len(blocks) /\ left = 0 /\ Len(blocks) \in Nat
      /\ k \in Singletons /\ num[k] \in Nat
  BY DEF Finished, IInv, TypeOK, Singletons
<1>2. CASE \E i \in 2..Len(blocks) : blocks[i].kind = k
  <2>1. PICK i \in 2..Len(blocks) : blocks[i].kind = k
    BY <1>2
  <2>2. (i = cur => n = num[k] - left) /\ (i < cur => n = num[k])
    BY <2>1 DEF Progress
  <2> QED BY <1>1, <2>1, <2>2
<1>3. CASE \A i \in 2..Len(blocks) : blocks[i].kind # k
  <2>1. n = 0
    BY <1>3 DEF Progress
  <2>2. offset[k] = 0
    BY <1>1, <1>3 DEF IInv, Reserved, Owned
  <2> QED BY <2>1, <2>2
<1> QED BY <1>2, <1>3

(* The section header table is there if there are sections.                *)
LEMMA TableThere ==
    ASSUME IInv, RInv, Finished, num["shdrs"] # 0
    PROVE  /\ offset["shdrs"] # 0 /\ ehdr = FileHeaderRead /\ TableOk
           /\ Len(headers) = num["shdrs"] /\ Len(headers) >= 1
<1>1. offset["shdrs"] # 0 /\ ehdr = FileHeaderRead /\ TableOk
  BY DEF RInv, HeadersOk, Finished, Ready
<1>2. Len(headers) = num["shdrs"]
  BY <1>1, TableComplete DEF IInv, Written
<1>3. num["shdrs"] \in Nat
  BY DEF IInv, TypeOK, Singletons
<1> QED BY <1>1, <1>2, <1>3

LEMMA ShnumReads ==
    ASSUME IInv, RInv, Finished PROVE Shnum = num["shdrs"]
<1>1. num["shdrs"] \in Nat /\ "shdrs" \in Singletons
  BY DEF IInv, TypeOK, Singletons
<1>2. ehdr.shnum = Escape(num["shdrs"], 0) /\ ehdr.shoff = offset["shdrs"]
  BY DEF RInv, HeadersOk, Finished, FileHeaderRead
<1>3. CASE num["shdrs"] = 0
  <2>1. offset["shdrs"] = 0
    <3> SUFFICES ASSUME offset["shdrs"] # 0 PROVE FALSE
      OBVIOUS
    <3>1. PICK i \in 2..Len(blocks) : blocks[i].kind = "shdrs"
      BY <1>1 DEF IInv, Reserved, Owned
    <3> QED BY <1>1, <1>3, <3>1 DEF IInv, Reserved, NotEmpty
  <2>2. ehdr.shnum = 0
    BY <1>2, <1>3 DEF Escape
  <2> QED BY <1>2, <1>3, <2>1, <2>2 DEF Shnum
<1>4. CASE num["shdrs"] # 0
  <2>1. /\ offset["shdrs"] # 0
        /\ num["shdrs"] >= LoReserve => headers[1].size = num["shdrs"]
    BY <1>4, TableThere DEF TableOk
  <2>2. CASE num["shdrs"] >= LoReserve
    BY <1>2, <2>1, <2>2 DEF Escape, Shnum
  <2>3. CASE ~(num["shdrs"] >= LoReserve)
    BY <1>1, <1>2, <1>4, <2>3 DEF Escape, Shnum
  <2> QED BY <2>2, <2>3
<1> QED BY <1>3, <1>4

LEMMA ShstrndxReads ==
    ASSUME IInv, RInv, Finished PROVE Shstrndx = index["shstrtab"]
<1> DEFINE x == index["shstrtab"]
<1>1. x \in Nat /\ "shstrtab" \in Singletons /\ LoReserve \in Nat \ {0}
  BY ConstantsAssumption DEF IInv, TypeOK, Singletons, StringTables
<1>2. ehdr.shstrndx = Escape(x, XIndex)
  BY DEF RInv, HeadersOk, Finished, FileHeaderRead
<1>3. CASE x >= LoReserve
  <2>1. x \in 1..Len(sections)
    BY <1>1, <1>3 DEF RInv, IndexOk
  <2>2. num["shdrs"] # 0
    BY <2>1 DEF IInv, Reserved, Counted
  <2>3. headers[1].link = x
    BY <1>3, <2>2, TableThere DEF TableOk
  <2> QED BY <1>2, <1>3, <2>3 DEF Escape, Shstrndx
<1>4. CASE ~(x >= LoReserve)
  <2>1. ehdr.shstrndx = x /\ x # XIndex
    BY <1>1, <1>2, <1>4 DEF Escape, XIndex
  <2> QED BY <2>1 DEF Shstrndx
<1> QED BY <1>3, <1>4

(* A symbol that was written has the section it was reserved with.         *)
LEMMA SymbolWrittenReads ==
    ASSUME IInv, RInv, NEW i \in 1..Len(symsecs), i + 1 \in 1..Len(symbols)
    PROVE  SymbolSection(i + 1) = symsecs[i]
<1> DEFINE s == symsecs[i]
<1>1. /\ symbols \in Seq(Nat) /\ shndx \in Seq(Nat) /\ symsecs \in Seq(Nat)
      /\ Len(symbols) \in Nat /\ Len(symsecs) \in Nat
      /\ LoReserve \in Nat \ {0}
  BY ConstantsAssumption, SMTT(40) DEF IInv, TypeOK
<1>2. s \in Nat
  BY <1>1
<1>3. SectionAt(i + 1) = s
  BY DEF SectionAt
<1> HIDE DEF s
<1>4. symbols[i + 1] = Escape(s, XIndex)
  BY <1>3 DEF RInv, SymbolsOk
<1>5. CASE s >= LoReserve
  <2>1. "symtab_shndx" \in need
    BY <1>5 DEF RInv, RoomOk, s
  <2>2. Len(shndx) = Len(symbols)
    BY <2>1 DEF IInv, Written
  <2>3. i + 1 \in DOMAIN shndx /\ shndx[i + 1] = s
    BY <1>1, <1>3, <2>2 DEF RInv, SymbolsOk
  <2>4. symbols[i + 1] = XIndex
    BY <1>4, <1>5 DEF Escape
  <2>5. ~(XIndex < LoReserve)
    BY <1>1 DEF XIndex
  <2> QED BY <2>3, <2>4, <2>5 DEF SymbolSection, s
<1>6. CASE ~(s >= LoReserve)
  <2>1. symbols[i + 1] = s /\ s < LoReserve /\ s # XIndex
    BY <1>1, <1>2, <1>4, <1>6 DEF Escape, XIndex
  <2> QED BY <2>1 DEF SymbolSection, s
<1> QED BY <1>5, <1>6

LEMMA SymbolSectionReads ==
    ASSUME IInv, RInv, Finished, symbols # <<>>, NEW i \in 1..Len(symsecs)
    PROVE  SymbolSection(i + 1) = symsecs[i]
<1>1. /\ symbols \in Seq(Nat) /\ Len(symbols) \in Nat /\ Len(symsecs) \in Nat
  BY SMTT(40) DEF IInv, TypeOK
<1>2. Len(symbols) = num["symtab"]
  <2>1. Len(symbols) # 0
    BY <1>1
  <2> QED BY <2>1, TableComplete DEF IInv, Written
<1>3. Len(symsecs) = IF num["symtab"] = 0 THEN 0 ELSE num["symtab"] - 1
  BY DEF IInv, Reserved, Counted
<1>4. i + 1 \in 1..Len(symbols)
  BY <1>1, <1>2, <1>3, SMTT(20)
<1> QED BY <1>4, SymbolWrittenReads

(* A reader of a finished file finds as many sections as were reserved,    *)
(* the section names in the section reserved for them, and every symbol in *)
(* the section it was reserved with, whether or not its index fits.        *)
THEOREM EscapesUndone == ASSUME ShndxAfterSymtab PROVE Spec => []ReadBack
<1>1. IInv /\ RInv => ReadBack
  BY ShnumReads, ShstrndxReads, SymbolSectionReads DEF ReadBack
<1> QED BY <1>1, ReaderInvariant, PTL

(* The ranges that belong to a section, as HeadersDescribe has it.         *)
OwnRanges(s) ==
    {j \in DOMAIN blocks : IF s.kind \in ClientKinds THEN j = s.block
                           ELSE blocks[j].kind = s.kind}

Describes(h, s) ==
    /\ OwnRanges(s) = {} => h.size = 0
    /\ \A j \in OwnRanges(s) : h.offset = landed[j] /\ h.size = blocks[j].size
    /\ h.link # 0 => sections[h.link].kind = LinkKind(s.kind)

LEMMA LinkDescribed ==
    ASSUME RInv, NEW s, HeaderOf(s).link # 0
    PROVE  sections[HeaderOf(s).link].kind = LinkKind(s.kind)
<1> DEFINE k == LinkKind(s.kind)
<1>1. HeaderOf(s).link = IF k = "none" THEN 0 ELSE index[k]
  BY DEF HeaderOf
<1>2. k = "none" \/ k \in Singletons
  BY DEF LinkKind, Singletons, StringTables
<1> HIDE DEF k
<1>3. k \in Singletons /\ HeaderOf(s).link = index[k] /\ index[k] # 0
  BY <1>1, <1>2
<1>4. sections[index[k]].kind = k
  BY <1>3 DEF RInv, IndexOk
<1> QED BY <1>3, <1>4 DEF k

(* The header of a client's section is that of the range it reserved.      *)
LEMMA ClientDescribed ==
    ASSUME IInv, RInv, Finished, NEW i \in 1..Len(sections),
           sections[i].kind \in ClientKinds
    PROVE  Describes(HeaderOf(sections[i]), sections[i])
<1> DEFINE s == sections[i]
           b == s.block
<1>1. b \in 1..Len(blocks)
  <2>1. b \in 0..Len(blocks) /\ b # 0
    BY DEF IInv, Reserved, Counted, Written, Finished
  <2>2. Len(blocks) \in Nat
    BY DEF IInv, TypeOK
  <2> HIDE DEF b
  <2> QED BY <2>1, <2>2
<1>2. OwnRanges(s) = {b}
  <2>1. DOMAIN blocks = 1..Len(blocks)
    BY DEF IInv, TypeOK
  <2> QED BY <1>1, <2>1 DEF OwnRanges
<1>3. HeaderOf(s).offset = blocks[b].offset /\ HeaderOf(s).size = blocks[b].size
  BY DEF HeaderOf
<1>4. landed[b] = blocks[b].offset
  BY <1>1 DEF IInv, Landed, Finished
<1>5. HeaderOf(s).link # 0 => sections[HeaderOf(s).link].kind = LinkKind(s.kind)
  BY LinkDescribed
<1> HIDE DEF b, s
<1> QED BY <1>2, <1>3, <1>4, <1>5 DEF Describes, s

(* A reserve function that has nothing to do leaves nothing to describe.   *)
LEMMA UnneededSize ==
    ASSUME NEW k \in SectionKinds, num \in [Singletons -> Nat], offset[k] = 0,
           ~Needed(k, num)
    PROVE  HeaderSize(k) = 0
<1>1. CASE k \in StringTables \cup {"symtab_shndx", "hash", "gnu_hash"}
  BY <1>1 DEF HeaderSize
<1>2. CASE k = "versym"
  <2>1. num["dynsym"] = 0
    BY <1>2 DEF Needed
  <2> QED BY <1>2, <2>1 DEF HeaderSize, RangeSize, StringTables
<1>3. CASE k \in {"symtab", "dynsym", "dynamic", "verdef", "verneed", "attributes"}
  <2>1. num[k] = 0
    BY <1>3 DEF Needed
  <2> QED BY <1>3, <2>1, SizeTypes DEF HeaderSize, RangeSize, StringTables
<1> QED BY <1>1, <1>2, <1>3 DEF SectionKinds, Singletons, ArgKinds

(* The header of a singleton is that of its range, if it has one.          *)
LEMMA SingletonDescribed ==
    ASSUME IInv, RInv, Finished, NEW i \in 1..Len(sections),
           sections[i].kind \notin ClientKinds
    PROVE  Describes(HeaderOf(sections[i]), sections[i])
<1> DEFINE s == sections[i]
           k == s.kind
<1>1. s \in Sections
  BY DEF IInv, TypeOK
<1>2. k \in SectionKinds /\ k \in Singletons
  BY <1>1 DEF Sections, SectionKinds
<1>3. HeaderOf(s).offset = offset[k] /\ HeaderOf(s).size = HeaderSize(k)
  BY DEF HeaderOf
<1>4. HeaderOf(s).link # 0 => sections[HeaderOf(s).link].kind = LinkKind(k)
  BY LinkDescribed
<1>5. /\ OwnRanges(s) = {j \in DOMAIN blocks : blocks[j].kind = k}
      /\ DOMAIN blocks = 1..Len(blocks) /\ Len(blocks) \in Nat
      /\ num \in [Singletons -> Nat]
  BY DEF OwnRanges, IInv, TypeOK
<1>6. index[k] # 0
  BY <1>2 DEF RInv, IndexOk
<1> HIDE DEF k, s
<1>7. ASSUME OwnRanges(s) = {} PROVE HeaderOf(s).size = 0
  <2>1. offset[k] = 0
    BY <1>2, <1>5, <1>7 DEF IInv, Reserved, Owned
  <2>2. ~Needed(k, num)
    BY <1>2, <1>6, <2>1 DEF RInv, HeadersOk, Finished, Ready
  <2> QED BY <1>2, <1>3, <1>5, <2>1, <2>2, UnneededSize
<1>8. ASSUME NEW j \in OwnRanges(s)
      PROVE  HeaderOf(s).offset = landed[j] /\ HeaderOf(s).size = blocks[j].size
  <2>1. j \in 1..Len(blocks) /\ blocks[j].kind = k
    BY <1>5, <1>8
  <2>2. j \in 2..Len(blocks)
    <3>1. k # "ehdr" /\ blocks # <<>>
      BY <1>2, <1>5, <2>1, SMTT(20) DEF Singletons, StringTables, ArgKinds
    <3> QED BY <1>5, <2>1, <3>1 DEF IInv, Reserved, Spaced
  <2>3. offset[k] = blocks[j].offset /\ offset[k] # 0
    BY <1>2, <2>1, <2>2, OwnedPositive DEF IInv, Reserved, Owned
  <2>4. landed[j] = blocks[j].offset
    BY <2>1 DEF IInv, Landed, Finished
  <2>5. HeaderSize(k) = blocks[j].size
    <3>1. k \notin Loose
      BY <1>2 DEF Singletons, StringTables, ArgKinds, Loose
    <3> QED BY <2>1, <2>2, <2>3, <3>1
            DEF IInv, Reserved, Frozen, BlockSize, HeaderSize
  <2> QED BY <1>3, <2>3, <2>4, <2>5
<1> QED BY <1>4, <1>7, <1>8 DEF Describes, s, k

(* In a finished file, every section header describes the range that was   *)
(* written for its section, or an empty one, and links to the section it   *)
(* means: what was worked out while reserving is what was written.         *)
THEOREM HeadersFound == ASSUME ShndxAfterSymtab PROVE Spec => []HeadersDescribe
<1>1. ASSUME IInv, RInv, Finished, NEW i \in 2..Len(headers)
      PROVE  Describes(headers[i], sections[i - 1])
  <2>1. headers \in Seq(Headers) /\ Len(headers) \in Nat /\ Len(sections) \in Nat
        /\ num["shdrs"] \in Nat
    BY <1>1 DEF IInv, TypeOK, Singletons
  <2>2. Len(headers) # 0
    BY <1>1, <2>1
  <2>3. Len(headers) = num["shdrs"] /\ TableOk
    <3>1. Len(headers) = num["shdrs"]
      BY <1>1, <2>2, TableComplete DEF IInv, Written
    <3> QED BY <1>1, <3>1 DEF RInv, HeadersOk, Finished
  <2>4. Len(sections) = IF num["shdrs"] = 0 THEN 0 ELSE num["shdrs"] - 1
    BY <1>1 DEF IInv, Reserved, Counted
  <2>5. i - 1 \in 1..Len(sections) /\ headers[i] = HeaderOf(sections[i - 1])
    BY <1>1, <2>1, <2>3, <2>4 DEF TableOk
  <2> QED BY <1>1, <2>5, ClientDescribed, SingletonDescribed
<1>2. IInv /\ RInv => HeadersDescribe
  BY <1>1 DEF HeadersDescribe, Describes, OwnRanges
<1> QED BY <1>2, ReaderInvariant, PTL
===============================================================================
