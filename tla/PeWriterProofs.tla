---------------------------- MODULE PeWriterProofs ----------------------------
(***************************************************************************)
(* Proofs about PeWriter, for every value of its constants: sections lie   *)
(* apart in the file and in memory, and everything is written where it was *)
(* reserved.                                                               *)
(*                                                                         *)
(* The inductive invariant says where each file range starts and how large *)
(* it is, by its kind, and how far the buffer has got when a range has     *)
(* been written: to its end, unless it is a section that the client filled *)
(* but partly.  A second one, for what a reader makes of the image, ties   *)
(* together what the first phase keeps of a section: its range in the      *)
(* file, its entry among the data directories, and its share of the sizes  *)
(* in the optional header.                                                 *)
(*                                                                         *)
(* A third one is about the base relocations: the blocks cut what was      *)
(* added into runs of one page each, none empty and all but the last one   *)
(* even, and what a reader makes of them is what the client added.         *)
(***************************************************************************)
EXTENDS PeWriter, Numbers, SequenceTheorems

RangeKinds == {"dos", "raw", "until", "cert", "nt", "shdrs", "section", "reloc"}
RangeType ==
    [kind : RangeKinds, offset : Nat, size : Nat, align : Nat \ {0}, section : Nat]

SectionType ==
    [range : [address : Nat, vsize : Nat, fsize : Nat, offset : Nat],
     kind : Kinds, data : Nat]

(* Stronger types than TypeOK's.                                           *)
FieldTypes ==
    /\ fmt.section \in Nat \ {0} /\ fmt.file \in Nat \ {0} /\ fmt.wide \in BOOLEAN
    /\ ranges \in Seq(RangeType) /\ sections \in Seq(SectionType)
    /\ reloc_blocks \in Seq([page : Nat, count : Nat])
    /\ data_directories \in Seq([address : Nat, size : Nat])
    /\ cur \in 0..Len(ranges)
    /\ landed \in Seq([range : Nat, from : Nat, at : Nat])
    /\ image = [nt |-> image.nt, headers |-> image.headers, relocs |-> image.relocs]

(* The size of each range is the one its kind still gives it, and it is    *)
(* where the second phase will get to.                                     *)
RangeFits(i) ==
    LET r == ranges[i] IN
    /\ End(r) <= len
    /\ i > 1 => End(ranges[i - 1]) <= r.offset
    /\ i = 1 => r.offset = 0 /\ r.size = DosSize
    /\ r.kind = "dos" <=> i = 1
    /\ r.kind = "raw" /\ (\A j \in 1..i : ranges[j].kind # "nt") =>
         r.offset = AlignUp(End(ranges[i - 1]), r.align)
    /\ r.kind = "nt" =>
         /\ r.offset = nt_headers_offset
         /\ r.size = NtSize + Len(data_directories) * DirSize
    /\ r.kind = "shdrs" =>
         /\ i > 1 /\ ranges[i - 1].kind = "nt"
         /\ r.offset = End(ranges[i - 1]) /\ r.size = section_header_num * ShdrSize
    /\ r.kind \in {"section", "reloc"} =>
         /\ r.offset % fmt.file = 0
         /\ \E j \in 1..(i - 1) : ranges[j].kind = "nt"
    /\ r.kind = "section" =>
         /\ r.section \in DOMAIN sections
         /\ r.offset = sections[r.section].range.offset
         /\ r.size = AlignUp(sections[r.section].data, fmt.file)
    /\ r.kind = "reloc" =>
         /\ RelocReserved /\ r.offset = reloc_offset
         /\ r.size = AlignUp(RelocSize(reloc_blocks, Len(reloc_blocks)), fmt.file)
    /\ r.kind = "cert" =>
         /\ \E j \in 1..(i - 1) : ranges[j].kind = "nt"
         /\ SECURITY < Len(data_directories)
         /\ data_directories[SECURITY + 1].address # 0
         /\ data_directories[SECURITY + 1] = [address |-> r.offset, size |-> r.size]

(* How far the headers have been reserved.                                 *)
Stages ==
    /\ ranges = <<>> => len = 0 /\ nt_headers_offset = 0
    /\ ranges # <<>> => len >= DosSize
    /\ ranges # <<>> /\ len # headers_len => len = End(ranges[Len(ranges)])
    /\ nt_headers_offset = 0 =>
         /\ headers_len = 0 /\ data_directories = <<>>
         /\ \A i \in DOMAIN ranges : ranges[i].kind # "nt"
    /\ nt_headers_offset # 0 => \E i \in DOMAIN ranges : ranges[i].kind = "nt"
    /\ nt_headers_offset # 0 /\ headers_len = 0 => ranges[Len(ranges)].kind = "nt"
    /\ headers_len = 0 =>
         /\ sections = <<>> /\ virtual_len = 0
         /\ \A i \in DOMAIN ranges : ranges[i].kind # "shdrs"
    /\ headers_len # 0 =>
         /\ len >= headers_len /\ virtual_len >= headers_len
         /\ virtual_len % fmt.section = 0

(* Where the buffer ends.                                                  *)
Progress ==
    /\ cur = 0 => buf = 0 /\ landed = <<>>
    /\ cur > 0 => buf <= End(ranges[cur])
    /\ cur > 0 /\ ranges[cur].kind # "section" => buf = End(ranges[cur])
    /\ image.nt = <<>> <=> \A i \in 1..cur : ranges[i].kind # "nt"
    /\ \A i \in DOMAIN landed : landed[i].range \in 1..cur

Layout == \A i \in DOMAIN ranges : RangeFits(i)

(* Sections without data are at offset 0; the directory of relocations is  *)
(* set once they are reserved, and they are not reserved again.            *)
SectionData ==
    /\ \A i \in DOMAIN sections :
         sections[i].range.fsize = 0 => sections[i].range.offset = 0
    /\ RelocReserved => ~Unset(DirectoryOf["reloc"])

IInv ==
    /\ TypeOK /\ FieldTypes /\ SectionsApart /\ SectionData
    /\ Layout /\ Stages /\ Progress /\ Landed

-------------------------------------------------------------------------------
(* Arithmetic *)

LEMMA AlignUpType ==
    ASSUME NEW n \in Nat, NEW a \in Nat \ {0}
    PROVE  AlignUp(n, a) \in Nat /\ AlignUp(n, a) >= n
BY DEF AlignUp

LEMMA AlignUpAligned ==
    ASSUME NEW n \in Nat, NEW a \in Nat \ {0}
    PROVE  AlignUp(n, a) % a = 0 /\ AlignUp(n, a) < n + a
<1>1. n \in Int
  OBVIOUS
<1>2. (n + ((-n) % a)) % a = 0 /\ n + ((-n) % a) < n + a
  BY <1>1, RoundUp, Zenon
<1> QED BY <1>2 DEF AlignUp

LEMMA AlignUpOne == ASSUME NEW n \in Nat PROVE AlignUp(n, 1) = n
BY DEF AlignUp

LEMMA ZeroMod == ASSUME NEW a \in Nat \ {0} PROVE 0 % a = 0
<1>1. (a * 0) % a = 0 /\ a * 0 = 0
  BY MultipleMod
<1> QED BY <1>1

LEMMA AlignUpZero == ASSUME NEW a \in Nat \ {0} PROVE AlignUp(0, a) = 0
<1>1. AlignUp(0, a) \in Nat /\ AlignUp(0, a) % a = 0 /\ AlignUp(0, a) < a
  BY AlignUpType, AlignUpAligned
<1> QED BY <1>1

(* Nothing that is aligned lies below what is rounded up.                  *)
LEMMA AlignUpLeast ==
    ASSUME NEW n \in Nat, NEW m \in Nat, NEW a \in Nat \ {0}, n <= m, m % a = 0
    PROVE  AlignUp(n, a) <= m
<1>1. AlignUp(n, a) \in Nat /\ AlignUp(n, a) % a = 0 /\ AlignUp(n, a) < n + a
  BY AlignUpType, AlignUpAligned
<1>2. CASE m < AlignUp(n, a)
  <2>1. m + a <= AlignUp(n, a)
    BY <1>1, <1>2, MultiplesApart
  <2> QED BY <2>1, <1>1
<1> QED BY <1>1, <1>2

(* Padding at an aligned offset is padding of the size.                    *)
LEMMA AlignUpOffset ==
    ASSUME NEW o \in Nat, NEW n \in Nat, NEW a \in Nat \ {0}, o % a = 0
    PROVE  AlignUp(o + n, a) = o + AlignUp(n, a)
<1>1. /\ AlignUp(n, a) \in Nat /\ AlignUp(n, a) >= n /\ AlignUp(n, a) % a = 0
      /\ AlignUp(o + n, a) \in Nat /\ AlignUp(o + n, a) >= o + n
      /\ AlignUp(o + n, a) % a = 0
  <2>1. o + n \in Nat
    OBVIOUS
  <2> QED BY <2>1, AlignUpType, AlignUpAligned
<1>2. (o + AlignUp(n, a)) % a = 0 /\ (AlignUp(o + n, a) - o) % a = 0
  <2>1. o \in Int /\ AlignUp(n, a) \in Int /\ AlignUp(o + n, a) \in Int
    BY <1>1
  <2> QED BY <1>1, <2>1, MultiplesAdd, Zenon
<1>3. AlignUp(o + n, a) <= o + AlignUp(n, a)
  BY <1>1, <1>2, AlignUpLeast
<1>4. AlignUp(n, a) <= AlignUp(o + n, a) - o
  BY <1>1, <1>2, AlignUpLeast
<1> QED BY <1>1, <1>3, <1>4

LEMMA StaysWithin ==
    ASSUME NEW o \in Nat, NEW n \in Nat, NEW l \in Nat, NEW m \in Nat,
           o + n <= l, l <= m
    PROVE  o + n <= m
OBVIOUS

LEMMA NtSizeType == NtSize \in Nat
BY DEF NtSize

LEMMA RelocSizeType ==
    ASSUME NEW blocks \in Seq([page : Nat, count : Nat])
    PROVE  RelocSize(blocks, Len(blocks)) \in Nat
<1>1. ASSUME NEW i \in 1..Len(blocks) PROVE BlockSizes(blocks)[i] \in Nat
  <2>1. blocks[i] \in [page : Nat, count : Nat]
    BY ElementOfSeq
  <2>2. BlockSize(blocks[i]) \in Nat
    BY <2>1 DEF BlockSize
  <2> QED BY <2>2 DEF BlockSizes
<1>2. Len(blocks) \in Nat
  OBVIOUS
<1>3. SumTo(BlockSizes(blocks), Len(blocks)) \in Nat
  BY <1>1, <1>2, SumToType
<1> QED BY <1>3 DEF RelocSize

-------------------------------------------------------------------------------
(* What every step of the first phase does *)

(* A directory that is set stays what it is.                               *)
DirectoriesStay ==
    /\ Len(data_directories') = Len(data_directories)
    /\ \A d \in 1..Len(data_directories) :
         data_directories[d].address # 0 => data_directories'[d] = data_directories[d]

(* A step that leaves the ranges there are as they were.                   *)
Kept ==
    /\ fmt' = fmt /\ len' \in Nat /\ len' >= len
    /\ \A i \in DOMAIN ranges : i \in DOMAIN ranges' /\ ranges'[i] = ranges[i]
    /\ (\E i \in DOMAIN ranges : ranges[i].kind = "nt") =>
         DirectoriesStay /\ nt_headers_offset' = nt_headers_offset
    /\ (\E i \in DOMAIN ranges : ranges[i].kind = "shdrs") =>
         section_header_num' = section_header_num
    /\ \A i \in DOMAIN sections : i \in DOMAIN sections' /\ sections'[i] = sections[i]
    /\ RelocReserved => reloc_blocks' = reloc_blocks /\ reloc_offset' = reloc_offset

LEMMA RangeTypes ==
    ASSUME IInv, NEW i \in DOMAIN ranges
    PROVE  /\ ranges[i] \in RangeType /\ End(ranges[i]) \in Nat
           /\ End(ranges[i]) = ranges[i].offset + ranges[i].size
           /\ i \in Nat /\ i >= 1 /\ i <= Len(ranges) /\ Len(ranges) \in Nat
           /\ i > 1 => i - 1 \in DOMAIN ranges
<1>1. ranges \in Seq(RangeType) /\ i \in 1..Len(ranges) /\ Len(ranges) \in Nat
  BY DEF IInv, FieldTypes
<1>2. ranges[i] \in RangeType
  BY <1>1, ElementOfSeq
<1> QED BY <1>1, <1>2, SMTT(30) DEF End, RangeType

LEMMA KeptRanges ==
    ASSUME IInv, Kept
    PROVE  \A i \in DOMAIN ranges : RangeFits(i)'
<1> SUFFICES ASSUME NEW i \in DOMAIN ranges PROVE RangeFits(i)'
  OBVIOUS
<1>1. RangeFits(i)
  BY DEF IInv, Layout
<1>2. /\ i >= 1 /\ i \in Nat /\ (i > 1 => i - 1 \in DOMAIN ranges)
      /\ End(ranges[i]) \in Nat /\ len \in Nat /\ len' \in Nat /\ len' >= len
      /\ 1..i \subseteq DOMAIN ranges
  <2>1. /\ i >= 1 /\ i \in Nat /\ i <= Len(ranges) /\ Len(ranges) \in Nat
        /\ (i > 1 => i - 1 \in DOMAIN ranges) /\ End(ranges[i]) \in Nat
    BY RangeTypes
  <2>2. len \in Nat /\ len' \in Nat /\ len' >= len
    BY DEF IInv, TypeOK, Kept
  <2>3. DOMAIN ranges = 1..Len(ranges)
    BY DEF IInv, FieldTypes
  <2>4. 1..i \subseteq DOMAIN ranges
    BY <2>1, <2>3
  <2> QED BY <2>1, <2>2, <2>4
<1>3. /\ ranges'[i] = ranges[i]
      /\ \A j \in 1..i : ranges'[j] = ranges[j]
      /\ i > 1 => ranges'[i - 1] = ranges[i - 1]
  BY <1>2 DEF Kept
<1>4. fmt' = fmt /\ End(ranges'[i]) = End(ranges[i]) /\ NtSize' = NtSize
  BY <1>3 DEF Kept, NtSize, End
<1>5. End(ranges'[i]) <= len'
  BY <1>1, <1>2, <1>4 DEF RangeFits
<1>6. ranges[i].kind = "nt" =>
        /\ Len(data_directories') = Len(data_directories)
        /\ nt_headers_offset' = nt_headers_offset
  BY DEF Kept, DirectoriesStay
<1>7. ranges[i].kind = "shdrs" => section_header_num' = section_header_num
  BY DEF Kept
<1>8. ranges[i].kind = "section" =>
        /\ ranges[i].section \in DOMAIN sections'
        /\ sections'[ranges[i].section] = sections[ranges[i].section]
  BY <1>1 DEF Kept, RangeFits
<1>9. ranges[i].kind = "reloc" =>
        /\ RelocReserved' /\ reloc_blocks' = reloc_blocks
        /\ reloc_offset' = reloc_offset
  BY <1>1 DEF Kept, RangeFits, RelocReserved
<1>10. ranges[i].kind = "raw" /\ (\A j \in 1..i : ranges'[j].kind # "nt") =>
         ranges[i].offset = AlignUp(End(ranges[i - 1]), ranges[i].align)
  BY <1>1, <1>3 DEF RangeFits
<1>11. ranges[i].kind \in {"section", "reloc", "cert"} => \E j \in 1..(i - 1) : ranges'[j].kind = "nt"
  <2>1. \A j \in 1..(i - 1) : j \in 1..i
    BY <1>2
  <2> QED BY <1>1, <1>3, <2>1 DEF RangeFits
<1>12. i > 1 => End(ranges'[i - 1]) = End(ranges[i - 1])
  BY <1>3
<1>13. /\ i > 1 => End(ranges'[i - 1]) <= ranges'[i].offset
       /\ i = 1 => ranges'[i].offset = 0 /\ ranges'[i].size = DosSize
       /\ ranges'[i].kind = "dos" <=> i = 1
       /\ ranges'[i].kind = "nt" =>
            /\ ranges'[i].offset = nt_headers_offset'
            /\ ranges'[i].size = NtSize' + Len(data_directories') * DirSize
  BY <1>1, <1>3, <1>4, <1>6, <1>12 DEF RangeFits
<1>14. ranges'[i].kind = "shdrs" =>
         /\ i > 1 /\ ranges'[i - 1].kind = "nt"
         /\ ranges'[i].offset = End(ranges'[i - 1])
         /\ ranges'[i].size = section_header_num' * ShdrSize
  BY <1>1, <1>3, <1>7, <1>12 DEF RangeFits
<1>15. ranges'[i].kind = "raw" /\ (\A j \in 1..i : ranges'[j].kind # "nt") =>
         ranges'[i].offset = AlignUp(End(ranges'[i - 1]), ranges'[i].align)
  <2>1. CASE i = 1
    BY <1>3, <1>13, <2>1
  <2>2. CASE i > 1
    BY <1>3, <1>10, <1>12, <2>2
  <2> QED BY <1>2, <2>1, <2>2
<1>16. /\ ranges'[i].kind \in {"section", "reloc"} => ranges'[i].offset % fmt'.file = 0
       /\ ranges'[i].kind = "section" =>
            /\ ranges'[i].offset = sections'[ranges'[i].section].range.offset
            /\ ranges'[i].size = AlignUp(sections'[ranges'[i].section].data, fmt'.file)
       /\ ranges'[i].kind = "reloc" =>
            /\ ranges'[i].offset = reloc_offset'
            /\ ranges'[i].size = AlignUp(RelocSize(reloc_blocks', Len(reloc_blocks')), fmt'.file)
  BY <1>1, <1>3, <1>4, <1>8, <1>9 DEF RangeFits
<1>17. ASSUME ranges'[i].kind = "cert"
       PROVE  /\ SECURITY < Len(data_directories')
              /\ data_directories'[SECURITY + 1].address # 0
              /\ data_directories'[SECURITY + 1] =
                   [address |-> ranges'[i].offset, size |-> ranges'[i].size]
  <2>1. \E j \in DOMAIN ranges : ranges[j].kind = "nt"
    BY <1>1, <1>2, <1>3, <1>17 DEF RangeFits
  <2>2. DirectoriesStay
    BY <2>1 DEF Kept
  <2>3. SECURITY + 1 \in 1..Len(data_directories)
    BY <1>1, <1>3, <1>17 DEF RangeFits, SECURITY, IInv, FieldTypes
  <2> QED BY <1>1, <1>3, <1>17, <2>2, <2>3 DEF DirectoriesStay, RangeFits
<1> QED
  BY <1>3, <1>5, <1>8, <1>9, <1>11, <1>13, <1>14, <1>15, <1>16, <1>17 DEF RangeFits

LEMMA UnsetStays ==
    ASSUME IInv, NEW d \in Nat, DirectoriesStay, ~Unset(d)
    PROVE  ~Unset(d)'
<1>1. Len(data_directories') = Len(data_directories) /\ Len(data_directories) \in Nat
  BY DEF DirectoriesStay, IInv, FieldTypes
<1>2. CASE d < Len(data_directories)
  <2>1. d + 1 \in 1..Len(data_directories)
    BY <1>1, <1>2
  <2>2. data_directories[d + 1].address # 0
    BY <1>2 DEF Unset
  <2>3. data_directories'[d + 1].address # 0
    BY <2>1, <2>2 DEF DirectoriesStay
  <2> QED BY <2>3 DEF Unset
<1>3. CASE ~(d < Len(data_directories))
  BY <1>1, <1>3 DEF Unset
<1> QED BY <1>2, <1>3

LEMMA SectionDataKept ==
    ASSUME IInv, UNCHANGED sections, DirectoriesStay PROVE SectionData'
<1>1. ~Unset(5) => ~Unset(5)'
  BY UnsetStays
<1> QED BY <1>1 DEF IInv, SectionData, RelocReserved, DirectoryOf

LEMMA FirstPhase ==
    ASSUME IInv, cur = 0, UNCHANGED writeVars
    PROVE  Progress' /\ Landed'
BY DEF IInv, Progress, Landed, writeVars

LEMMA SectionsKept ==
    ASSUME IInv, UNCHANGED <<fmt, sections, headers_len>>,
           virtual_len' \in Nat, virtual_len' >= virtual_len, len' \in Nat, len' >= len
    PROVE  SectionsApart'
<1> SUFFICES ASSUME NEW i \in DOMAIN sections
             PROVE  LET s == sections[i].range IN
                    /\ s.address + s.vsize <= virtual_len'
                    /\ s.fsize # 0 => s.offset + s.fsize <= len'
  BY DEF IInv, SectionsApart
<1>1. IsRange(sections[i].range) /\ virtual_len \in Nat /\ len \in Nat
  BY DEF IInv, TypeOK
<1> QED BY <1>1 DEF IInv, SectionsApart, IsRange

(* A range that is added at the end.                                       *)
LEMMA AppendRange ==
    ASSUME IInv, Kept, NEW r \in RangeType, ranges' = Append(ranges, r),
           NEW m, m = Len(ranges) + 1, RangeFits(m)'
    PROVE  /\ Layout' /\ ranges' \in Seq(RangeType) /\ ranges' # <<>>
           /\ Len(ranges') = Len(ranges) + 1 /\ ranges'[Len(ranges')] = r
           /\ DOMAIN ranges' = DOMAIN ranges \cup {Len(ranges) + 1}
<1>1. ranges \in Seq(RangeType) /\ Len(ranges) \in Nat
  BY DEF IInv, FieldTypes
<1>2. /\ ranges' \in Seq(RangeType) /\ ranges' # <<>>
      /\ Len(ranges') = Len(ranges) + 1 /\ ranges'[Len(ranges) + 1] = r
  BY <1>1, AppendProperties
<1>3. DOMAIN ranges' = DOMAIN ranges \cup {Len(ranges) + 1}
  BY <1>1, <1>2
<1>4. ASSUME NEW i \in DOMAIN ranges' PROVE RangeFits(i)'
  <2>1. CASE i \in DOMAIN ranges
    BY <2>1, KeptRanges
  <2>2. CASE i = m
    BY <2>2
  <2> QED BY <1>3, <2>1, <2>2
<1> QED BY <1>2, <1>3, <1>4 DEF Layout

(* The last range, and what lies behind it.                                *)
LEMMA LastRange ==
    ASSUME IInv, ranges # <<>>
    PROVE  /\ Len(ranges) \in DOMAIN ranges /\ Len(ranges) >= 1
           /\ End(ranges[Len(ranges)]) \in Nat /\ End(ranges[Len(ranges)]) <= len
           /\ len \in Nat /\ len >= DosSize
<1>1. ranges \in Seq(RangeType)
  BY DEF IInv, FieldTypes
<1>2. Len(ranges) \in DOMAIN ranges /\ Len(ranges) >= 1
  BY <1>1
<1>3. RangeFits(Len(ranges))
  BY <1>2 DEF IInv, Layout
<1> QED BY <1>2, <1>3, RangeTypes DEF RangeFits, IInv, Stages, TypeOK

LEMMA RangeMade ==
    ASSUME NEW k \in RangeKinds, NEW n \in Nat, NEW a \in Nat \ {0}, NEW i \in Nat,
           AlignUp(len, a) \in Nat, Reserve(k, n, a, i),
           NEW r, r = FileRange(k, AlignUp(len, a), n, a, i)
    PROVE  /\ r \in RangeType /\ ranges' = Append(ranges, r) /\ len' = End(r)
           /\ r.kind = k /\ r.offset = AlignUp(len, a) /\ r.align = a
           /\ r.size = n /\ r.section = i
<1>1. /\ r.kind = k /\ r.offset = AlignUp(len, a) /\ r.align = a
      /\ r.size = n /\ r.section = i
  BY DEF FileRange
<1>2. r \in RangeType
  BY DEF FileRange, RangeType
<1> QED BY <1>1, <1>2 DEF Reserve, End

(* What reserve adds behind the last range: r, with number m + 1.          *)
IsNext(r, m, k, n, a, i) ==
    /\ m \in DOMAIN ranges /\ m \in Nat /\ m >= 1
    /\ End(ranges[m]) \in Nat /\ End(ranges[m]) <= len
    /\ len \in Nat /\ len >= DosSize
    /\ AlignUp(len, a) \in Nat /\ AlignUp(len, a) >= len
    /\ r \in RangeType /\ ranges' = Append(ranges, r) /\ len' = End(r)
    /\ r.kind = k /\ r.offset = AlignUp(len, a) /\ r.align = a
    /\ r.size = n /\ r.section = i
    /\ len' \in Nat /\ len' >= len
    /\ ranges'[m + 1] = r /\ \A j \in 1..m : ranges'[j] = ranges[j]
    /\ DOMAIN ranges \subseteq DOMAIN ranges' /\ 1..m = DOMAIN ranges

LEMMA NextRange ==
    ASSUME IInv, ranges # <<>>, NEW k \in RangeKinds, NEW n \in Nat,
           NEW a \in Nat \ {0}, NEW i \in Nat, Reserve(k, n, a, i),
           NEW r, r = FileRange(k, AlignUp(len, a), n, a, i),
           NEW m, m = Len(ranges)
    PROVE  IsNext(r, m, k, n, a, i)
<1>1. /\ m \in DOMAIN ranges /\ m \in Nat /\ m >= 1
      /\ End(ranges[m]) \in Nat /\ End(ranges[m]) <= len /\ len \in Nat /\ len >= DosSize
  BY LastRange, RangeTypes
<1>2. AlignUp(len, a) \in Nat /\ AlignUp(len, a) >= len
  BY <1>1, AlignUpType
<1>3. /\ r \in RangeType /\ ranges' = Append(ranges, r) /\ len' = End(r)
      /\ r.kind = k /\ r.offset = AlignUp(len, a) /\ r.align = a
      /\ r.size = n /\ r.section = i
  BY <1>2, RangeMade
<1>4. len' \in Nat /\ len' >= len
  BY <1>1, <1>2, <1>3 DEF End
<1>5. ranges'[m + 1] = r /\ \A j \in 1..m : ranges'[j] = ranges[j]
  BY <1>1, <1>3 DEF IInv, FieldTypes
<1>6. DOMAIN ranges \subseteq DOMAIN ranges' /\ 1..m = DOMAIN ranges
  BY <1>3 DEF IInv, FieldTypes
<1> QED BY <1>1, <1>2, <1>3, <1>4, <1>5, <1>6 DEF IsNext

(* A range of the client's own.                                            *)
LEMMA ClientRange ==
    ASSUME IInv, NEW k \in {"raw", "until", "cert"}, NEW n \in Nat, NEW a \in Nat \ {0},
           ReserveExtra(k), Reserve(k, n, a, 0),
           DirectoriesStay, data_directories' \in Seq([address : Nat, size : Nat]),
           k = "cert" =>
              /\ SECURITY < Len(data_directories')
              /\ data_directories'[SECURITY + 1] = [address |-> AlignUp(len, a), size |-> n],
           UNCHANGED <<fmt, virtual_len, headers_len, nt_headers_offset,
                       section_header_num, sections, reloc_blocks, reloc_offset, writeVars>>
    PROVE  /\ Layout' /\ Stages' /\ SectionsApart' /\ Progress' /\ Landed'
           /\ ranges' \in Seq(RangeType) /\ len' \in Nat /\ cur' \in 0..Len(ranges')
<1> PICK r : r = FileRange(k, AlignUp(len, a), n, a, 0)
  OBVIOUS
<1> PICK m : m = Len(ranges)
  OBVIOUS
<1>1. ranges # <<>> /\ cur = 0
  BY DEF ReserveExtra, Reserving
<1>2. k \in RangeKinds /\ 0 \in Nat
  BY DEF RangeKinds
<1>5. IsNext(r, m, k, n, a, 0)
  BY <1>1, <1>2, NextRange
<1>3. /\ m \in DOMAIN ranges /\ m \in Nat /\ m >= 1
      /\ End(ranges[m]) \in Nat /\ End(ranges[m]) <= len /\ len \in Nat /\ len >= DosSize
      /\ AlignUp(len, a) \in Nat /\ AlignUp(len, a) >= len
  BY <1>5 DEF IsNext
<1>4. /\ r \in RangeType /\ ranges' = Append(ranges, r) /\ len' = End(r)
      /\ r.kind = k /\ r.offset = AlignUp(len, a) /\ r.align = a /\ r.size = n
      /\ len' \in Nat /\ len' >= len
  BY <1>5 DEF IsNext
<1>6. ranges'[m + 1] = r /\ \A i \in 1..m : ranges'[i] = ranges[i]
  BY <1>5 DEF IsNext
<1>7. DOMAIN ranges \subseteq DOMAIN ranges' /\ 1..m = DOMAIN ranges
  BY <1>5 DEF IsNext
<1>8. Kept
  BY <1>4, <1>6, <1>7 DEF Kept
<1>9. (\A j \in DOMAIN ranges : ranges[j].kind # "nt") => len = End(ranges[m])
  BY <1>1, <1>3 DEF IInv, Stages, DosSize
<1>10. RangeFits(m + 1)'
  <2>1. m + 1 > 1 /\ (m + 1) - 1 = m /\ ranges'[m] = ranges[m]
    BY <1>3, <1>6
  <2>2. (\A j \in 1..(m + 1) : ranges'[j].kind # "nt") => len = End(ranges[m])
    BY <1>3, <1>6, <1>7, <1>9
  <2>3. End(r) <= len' /\ End(ranges[m]) <= r.offset
    BY <1>3, <1>4
  <2>4. ASSUME k = "cert"
        PROVE  /\ \E j \in 1..m : ranges'[j].kind = "nt"
               /\ SECURITY < Len(data_directories')
               /\ data_directories'[SECURITY + 1].address # 0
               /\ data_directories'[SECURITY + 1] = [address |-> r.offset, size |-> r.size]
    <3>1. /\ SECURITY < Len(data_directories')
          /\ data_directories'[SECURITY + 1] = [address |-> r.offset, size |-> r.size]
      BY <1>1, <1>2, <1>4, <2>4
    <3>2. data_directories # <<>>
      BY <3>1 DEF DirectoriesStay, SECURITY
    <3>3. \E j \in DOMAIN ranges : ranges[j].kind = "nt"
      BY <3>2 DEF IInv, Stages
    <3>4. r.offset # 0
      BY <1>3, <1>4 DEF DosSize
    <3> QED BY <1>6, <1>7, <3>1, <3>3, <3>4
  <2>5. ranges'[m + 1] = r /\ r.offset = AlignUp(len, r.align) /\ r.kind = k
    BY <1>4, <1>6
  <2> QED BY <1>2, <1>3, <2>1, <2>2, <2>3, <2>4, <2>5 DEF RangeFits
<1>11. /\ Layout' /\ ranges' \in Seq(RangeType) /\ ranges' # <<>>
       /\ Len(ranges') = m + 1 /\ ranges'[Len(ranges')] = r
       /\ DOMAIN ranges' = DOMAIN ranges \cup {m + 1}
  BY <1>4, <1>8, <1>10, AppendRange
<1>12. Stages'
  <2>1. \A i \in DOMAIN ranges' : ranges'[i].kind = k \/ (i \in DOMAIN ranges /\ ranges'[i] = ranges[i])
    BY <1>4, <1>6, <1>7, <1>11
  <2>2. len' >= DosSize /\ len' = End(ranges'[Len(ranges')])
    BY <1>3, <1>4, <1>11 DEF DosSize
  <2>3. /\ nt_headers_offset' = 0 =>
             /\ headers_len' = 0 /\ data_directories' = <<>>
             /\ \A i \in DOMAIN ranges' : ranges'[i].kind # "nt"
        /\ nt_headers_offset' # 0 => \E i \in DOMAIN ranges' : ranges'[i].kind = "nt"
    <3>1. data_directories = <<>> => data_directories' = <<>>
      BY DEF DirectoriesStay
    <3>2. k # "nt"
      OBVIOUS
    <3>3. nt_headers_offset' = 0 =>
             /\ headers_len' = 0 /\ data_directories' = <<>>
             /\ \A i \in DOMAIN ranges' : ranges'[i].kind # "nt"
      BY <2>1, <3>1, <3>2 DEF IInv, Stages
    <3> QED BY <1>6, <1>7, <1>11, <3>3 DEF IInv, Stages
  <2>4. nt_headers_offset' # 0 => headers_len' # 0
    BY DEF ReserveExtra, HeadersReserved
  <2>5. headers_len' = 0 =>
          /\ sections' = <<>> /\ virtual_len' = 0
          /\ \A i \in DOMAIN ranges' : ranges'[i].kind # "shdrs"
    BY <2>1 DEF IInv, Stages
  <2>6. headers_len' # 0 =>
          /\ len' >= headers_len' /\ virtual_len' >= headers_len'
          /\ virtual_len' % fmt'.section = 0
    BY <1>3, <1>4 DEF IInv, Stages, TypeOK
  <2> QED BY <1>11, <2>2, <2>3, <2>4, <2>5, <2>6 DEF Stages
<1>13. SectionsApart'
  BY <1>4, SectionsKept DEF IInv, TypeOK
<1>14. cur' \in 0..Len(ranges')
  BY <1>1, <1>3, <1>11 DEF writeVars
<1> QED BY <1>1, <1>4, <1>11, <1>12, <1>13, <1>14, FirstPhase

LEMMA DirectorySet ==
    ASSUME IInv, NEW d \in Nat, NEW a \in Nat, NEW n \in Nat, Unset(d)
    PROVE  /\ WithDirectory(d, a, n) \in Seq([address : Nat, size : Nat])
           /\ WithDirectory(d, a, n)[d + 1] = [address |-> a, size |-> n]
           /\ data_directories' = WithDirectory(d, a, n) => DirectoriesStay
<1>1. data_directories \in Seq([address : Nat, size : Nat])
  BY DEF IInv, FieldTypes
<1>2. d + 1 \in 1..Len(data_directories)
  BY <1>1 DEF Unset
<1>3. [address |-> a, size |-> n] \in [address : Nat, size : Nat]
  OBVIOUS
<1>4. PICK e \in [address : Nat, size : Nat] : e = [address |-> a, size |-> n]
  BY <1>3
<1>5. PICK f : f = WithDirectory(d, a, n)
  OBVIOUS
<1>6. /\ f \in Seq([address : Nat, size : Nat]) /\ Len(f) = Len(data_directories)
      /\ \A j \in 1..Len(data_directories) :
           f[j] = IF j = d + 1 THEN e ELSE data_directories[j]
  BY <1>1, <1>2, <1>4, <1>5, ExceptSeq DEF WithDirectory
<1>7. data_directories[d + 1].address = 0
  BY DEF Unset
<1>8. data_directories' = f => DirectoriesStay
  BY <1>6, <1>7 DEF DirectoriesStay
<1> QED BY <1>2, <1>4, <1>5, <1>6, <1>8

-------------------------------------------------------------------------------
(* The steps of the first phase *)

LEMMA RawInv ==
    ASSUME IInv, NEW n \in Nat, NEW a \in Nat \ {0}, ReserveRaw(n, a) PROVE IInv'
<1>1. ReserveExtra("raw") /\ Reserve("raw", n, a, 0) /\ OnlyReserved
  BY DEF ReserveRaw
<1>2. DirectoriesStay /\ data_directories' \in Seq([address : Nat, size : Nat])
  BY <1>1 DEF OnlyReserved, DirectoriesStay, IInv, FieldTypes
<1>3. /\ Layout' /\ Stages' /\ SectionsApart' /\ Progress' /\ Landed'
      /\ ranges' \in Seq(RangeType) /\ len' \in Nat /\ cur' \in 0..Len(ranges')
  <2>1. UNCHANGED <<fmt, virtual_len, headers_len, nt_headers_offset,
                    section_header_num, sections, reloc_blocks, reloc_offset, writeVars>>
    BY <1>1 DEF OnlyReserved, relocVars
  <2>2. "raw" \in {"raw", "until", "cert"} /\ "raw" # "cert" /\ a \in Nat \ {0}
    OBVIOUS
  <2> QED BY <1>1, <1>2, <2>1, <2>2, ClientRange
<1>4. TypeOK' /\ FieldTypes'
  BY <1>1, <1>3 DEF IInv, TypeOK, FieldTypes, OnlyReserved, relocVars, writeVars
<1>5. SectionData'
  BY <1>1, <1>2, SectionDataKept DEF OnlyReserved, relocVars
<1> QED BY <1>3, <1>4, <1>5 DEF IInv

LEMMA UntilInv == ASSUME IInv, NEW n \in Nat, ReserveUntil(n) PROVE IInv'
<1>1. ReserveExtra("until") /\ Reserve("until", n, 1, 0) /\ OnlyReserved
  BY DEF ReserveUntil
<1>2. DirectoriesStay /\ data_directories' \in Seq([address : Nat, size : Nat])
  BY <1>1 DEF OnlyReserved, DirectoriesStay, IInv, FieldTypes
<1>3. /\ Layout' /\ Stages' /\ SectionsApart' /\ Progress' /\ Landed'
      /\ ranges' \in Seq(RangeType) /\ len' \in Nat /\ cur' \in 0..Len(ranges')
  <2>1. UNCHANGED <<fmt, virtual_len, headers_len, nt_headers_offset,
                    section_header_num, sections, reloc_blocks, reloc_offset, writeVars>>
    BY <1>1 DEF OnlyReserved, relocVars
  <2>2. "until" \in {"raw", "until", "cert"} /\ "until" # "cert" /\ 1 \in Nat \ {0}
    OBVIOUS
  <2> QED BY <1>1, <1>2, <2>1, <2>2, ClientRange
<1>4. TypeOK' /\ FieldTypes'
  BY <1>1, <1>3 DEF IInv, TypeOK, FieldTypes, OnlyReserved, relocVars, writeVars
<1>5. SectionData'
  BY <1>1, <1>2, SectionDataKept DEF OnlyReserved, relocVars
<1> QED BY <1>3, <1>4, <1>5 DEF IInv

LEMMA CertInv == ASSUME IInv, NEW n \in Nat, ReserveCertificateTable(n) PROVE IInv'
<1>1. len \in Nat /\ AlignUp(n, 8) \in Nat /\ AlignUp(len, 8) \in Nat
  BY AlignUpType DEF IInv, TypeOK
<1>2. PICK size \in Nat : size = AlignUp(n, 8)
  BY <1>1
<1>3. PICK o \in Nat : o = AlignUp(len, 8)
  BY <1>1
<1>4. /\ ReserveExtra("cert") /\ Reserve("cert", size, 8, 0) /\ Unset(SECURITY)
      /\ data_directories' = WithDirectory(SECURITY, o, size)
      /\ UNCHANGED <<fmt, virtual_len, headers_len, stats, nt_headers_offset,
                     section_header_num, sections, relocVars, reloc_offset, writeVars>>
  BY <1>2, <1>3 DEF ReserveCertificateTable
<1>5. /\ data_directories' \in Seq([address : Nat, size : Nat]) /\ DirectoriesStay
      /\ SECURITY < Len(data_directories')
      /\ data_directories'[SECURITY + 1] = [address |-> o, size |-> size]
  BY <1>4, DirectorySet DEF SECURITY, Unset, DirectoriesStay
<1>6. /\ Layout' /\ Stages' /\ SectionsApart' /\ Progress' /\ Landed'
      /\ ranges' \in Seq(RangeType) /\ len' \in Nat /\ cur' \in 0..Len(ranges')
  <2>1. UNCHANGED <<fmt, virtual_len, headers_len, nt_headers_offset,
                    section_header_num, sections, reloc_blocks, reloc_offset, writeVars>>
    BY <1>4 DEF relocVars
  <2>2. "cert" \in {"raw", "until", "cert"} /\ 8 \in Nat \ {0}
    OBVIOUS
  <2>3. /\ SECURITY < Len(data_directories')
        /\ data_directories'[SECURITY + 1] = [address |-> AlignUp(len, 8), size |-> size]
    BY <1>3, <1>5
  <2> QED BY <1>4, <1>5, <2>1, <2>2, <2>3, ClientRange
<1>7. TypeOK' /\ FieldTypes'
  BY <1>4, <1>5, <1>6 DEF IInv, TypeOK, FieldTypes, relocVars, writeVars
<1>8. SectionData'
  BY <1>4, <1>5, SectionDataKept DEF relocVars
<1> QED BY <1>6, <1>7, <1>8 DEF IInv

(* A step that leaves the file as it is.                                   *)
LEMMA SameRanges ==
    ASSUME IInv, Kept, UNCHANGED <<ranges, len>>
    PROVE  Layout'
BY KeptRanges DEF Layout

LEMMA DirectoryInv ==
    ASSUME IInv, NEW d \in Nat, NEW a \in Nat, NEW n \in Nat, SetDataDirectory(d, a, n)
    PROVE  IInv'
<1>1. /\ Unset(d) /\ cur = 0 /\ data_directories' = WithDirectory(d, a, n)
      /\ UNCHANGED <<fmt, len, virtual_len, headers_len, stats, nt_headers_offset,
                     section_header_num, sections, relocVars, reloc_offset, ranges,
                     writeVars>>
  BY DEF SetDataDirectory
<1>2. /\ data_directories' \in Seq([address : Nat, size : Nat]) /\ DirectoriesStay
      /\ data_directories # <<>>
  <2>1. data_directories' \in Seq([address : Nat, size : Nat]) /\ DirectoriesStay
    BY <1>1, DirectorySet
  <2>2. Len(data_directories) > 0
    BY <1>1 DEF Unset, IInv, FieldTypes
  <2> QED BY <2>1, <2>2
<1>3. Layout'
  BY <1>1, <1>2, SameRanges DEF Kept, IInv, TypeOK, relocVars
<1>4. Stages' /\ SectionsApart'
  BY <1>1, <1>2 DEF IInv, Stages, SectionsApart
<1>5. TypeOK' /\ FieldTypes'
  BY <1>1, <1>2 DEF IInv, TypeOK, FieldTypes, relocVars, writeVars
<1>6. Progress' /\ Landed'
  BY <1>1, FirstPhase
<1>7. SectionData'
  BY <1>1, <1>2, SectionDataKept DEF relocVars
<1> QED BY <1>3, <1>4, <1>5, <1>6, <1>7 DEF IInv

LEMMA DosInv == ASSUME IInv, ReserveDosHeader PROVE IInv'
<1>1. /\ len = 0 /\ Reserve("dos", DosSize, 1, 0) /\ OnlyReserved
  BY DEF ReserveDosHeader
<1>2. /\ ranges = <<>> /\ nt_headers_offset = 0 /\ headers_len = 0 /\ sections = <<>>
      /\ virtual_len = 0 /\ cur = 0 /\ data_directories = <<>>
  BY <1>1 DEF IInv, Stages, DosSize, FieldTypes
<1>3. AlignUp(len, 1) = 0
  BY <1>1, AlignUpOne
<1>4. PICK r : r = FileRange("dos", 0, DosSize, 1, 0)
  OBVIOUS
<1>5. /\ r.kind = "dos" /\ r.offset = 0 /\ r.size = DosSize /\ r \in RangeType
      /\ End(r) = DosSize
  BY <1>4 DEF FileRange, RangeType, RangeKinds, DosSize, End
<1>6. /\ ranges' = <<r>> /\ len' = DosSize
      /\ UNCHANGED <<fmt, virtual_len, headers_len, stats, nt_headers_offset,
                     data_directories, section_header_num, sections, relocVars,
                     reloc_offset, writeVars>>
  BY <1>1, <1>2, <1>3, <1>4 DEF Reserve, OnlyReserved, DosSize
<1>7. /\ ranges' \in Seq(RangeType) /\ ranges' # <<>> /\ DOMAIN ranges' = {1}
      /\ Len(ranges') = 1 /\ ranges'[1] = r
  BY <1>5, <1>6
<1>8. Layout'
  <2>1. ASSUME NEW i \in DOMAIN ranges' PROVE RangeFits(i)'
    <3>1. i = 1 /\ ranges'[i] = r
      BY <1>7
    <3> QED BY <1>5, <1>6, <3>1 DEF RangeFits, DosSize
  <2> QED BY <2>1 DEF Layout
<1>9. Stages'
  BY <1>2, <1>5, <1>6, <1>7 DEF Stages, DosSize
<1>10. SectionsApart'
  BY <1>2, <1>6 DEF SectionsApart
<1>11. Progress' /\ Landed'
  BY <1>2, <1>6, FirstPhase
<1>12. TypeOK' /\ FieldTypes'
  BY <1>2, <1>6, <1>7 DEF IInv, TypeOK, FieldTypes, DosSize, relocVars, writeVars
<1>13. SectionData'
  BY <1>6, SectionDataKept DEF DirectoriesStay
<1> QED BY <1>8, <1>9, <1>10, <1>11, <1>12, <1>13 DEF IInv

LEMMA NtInv == ASSUME IInv, NEW n \in Nat, ReserveNtHeaders(n) PROVE IInv'
<1>1. PICK size : size = NtSize + n * DirSize
  OBVIOUS
<1>2. size \in Nat
  BY <1>1, NtSizeType DEF DirSize
<1>3. PICK r : r = FileRange("nt", AlignUp(len, 8), size, 8, 0)
  OBVIOUS
<1>4. PICK m : m = Len(ranges)
  OBVIOUS
<1>5. /\ cur = 0 /\ ranges # <<>> /\ nt_headers_offset = 0 /\ Reserve("nt", size, 8, 0)
      /\ nt_headers_offset' = AlignUp(len, 8)
      /\ data_directories' = [d \in 1..n |-> [address |-> 0, size |-> 0]]
      /\ UNCHANGED <<fmt, virtual_len, headers_len, stats, section_header_num,
                     sections, relocVars, reloc_offset, writeVars>>
  BY <1>1 DEF ReserveNtHeaders, Reserving
<1>6. "nt" \in RangeKinds /\ 8 \in Nat \ {0} /\ 0 \in Nat
  BY DEF RangeKinds
<1>7. /\ m \in DOMAIN ranges /\ m \in Nat /\ m >= 1
      /\ End(ranges[m]) \in Nat /\ End(ranges[m]) <= len
      /\ len \in Nat /\ len >= DosSize
      /\ AlignUp(len, 8) \in Nat /\ AlignUp(len, 8) >= len
      /\ r \in RangeType /\ ranges' = Append(ranges, r) /\ len' = End(r)
      /\ r.kind = "nt" /\ r.offset = AlignUp(len, 8) /\ r.align = 8
      /\ r.size = size /\ r.section = 0
      /\ len' \in Nat /\ len' >= len
      /\ ranges'[m + 1] = r /\ \A j \in 1..m : ranges'[j] = ranges[j]
      /\ DOMAIN ranges \subseteq DOMAIN ranges' /\ 1..m = DOMAIN ranges
  <2>1. IsNext(r, m, "nt", size, 8, 0)
    BY <1>2, <1>3, <1>4, <1>5, <1>6, NextRange
  <2> QED BY <2>1 DEF IsNext
<1>8. /\ headers_len = 0 /\ sections = <<>> /\ virtual_len = 0
      /\ \A i \in DOMAIN ranges : ranges[i].kind # "nt" /\ ranges[i].kind # "shdrs"
  BY <1>5 DEF IInv, Stages
<1>9. /\ data_directories' \in Seq([address : Nat, size : Nat])
      /\ Len(data_directories') = n
  BY <1>5
<1>10. Kept
  BY <1>5, <1>7, <1>8 DEF Kept, relocVars
<1>11. RangeFits(m + 1)'
  <2>1. m + 1 > 1 /\ (m + 1) - 1 = m /\ ranges'[m] = ranges[m]
    BY <1>7
  <2>2. End(r) <= len' /\ End(ranges[m]) <= r.offset
    BY <1>7
  <2>3. size = NtSize' + Len(data_directories') * DirSize
    BY <1>1, <1>5, <1>9 DEF NtSize
  <2> QED BY <1>5, <1>7, <2>1, <2>2, <2>3 DEF RangeFits
<1>12. /\ Layout' /\ ranges' \in Seq(RangeType) /\ ranges' # <<>>
       /\ Len(ranges') = m + 1 /\ ranges'[Len(ranges')] = r
       /\ DOMAIN ranges' = DOMAIN ranges \cup {m + 1}
  BY <1>4, <1>7, <1>10, <1>11, AppendRange
<1>13. Stages'
  <2>1. nt_headers_offset' # 0 /\ len' >= DosSize
    BY <1>5, <1>7 DEF DosSize
  <2>2. m + 1 \in DOMAIN ranges' /\ ranges'[m + 1].kind = "nt"
    BY <1>7, <1>12
  <2>3. \A i \in DOMAIN ranges' : ranges'[i].kind # "shdrs"
    BY <1>7, <1>8, <1>12
  <2> QED BY <1>5, <1>7, <1>8, <1>12, <2>1, <2>2, <2>3 DEF Stages
<1>14. SectionsApart'
  BY <1>5, <1>8 DEF SectionsApart
<1>15. Progress' /\ Landed'
  BY <1>5, FirstPhase
<1>16. TypeOK' /\ FieldTypes'
  BY <1>5, <1>7, <1>9, <1>12 DEF IInv, TypeOK, FieldTypes, relocVars, writeVars
<1>17. SectionData'
  BY <1>5, <1>8 DEF SectionData, RelocReserved
<1> QED BY <1>12, <1>13, <1>14, <1>15, <1>16, <1>17 DEF IInv

LEMMA SectionHeadersInv ==
    ASSUME IInv, NEW n \in 0..MaxSections, ReserveSectionHeaders(n) PROVE IInv'
<1>1. PICK m : m = Len(ranges)
  OBVIOUS
<1>2. PICK r : r = FileRange("shdrs", len, n * ShdrSize, 1, 0)
  OBVIOUS
<1>3. PICK h : h = HeadersLen(n)
  OBVIOUS
<1>4. /\ nt_headers_offset # 0 /\ headers_len = 0 /\ cur = 0
      /\ section_header_num' = n
      /\ ranges' = IF n = 0 THEN ranges ELSE Append(ranges, r)
      /\ headers_len' = h /\ len' = h /\ virtual_len' = VirtualAfter(h, h)
      /\ UNCHANGED <<fmt, stats, nt_headers_offset, data_directories, sections,
                     relocVars, reloc_offset, writeVars>>
  BY <1>2, <1>3 DEF ReserveSectionHeaders, HeadersReserved
<1>5. /\ sections = <<>> /\ virtual_len = 0 /\ ranges # <<>> /\ ranges[m].kind = "nt"
      /\ \A i \in DOMAIN ranges : ranges[i].kind # "shdrs"
  BY <1>1, <1>4 DEF IInv, Stages
<1>6. /\ m \in DOMAIN ranges /\ m \in Nat /\ m >= 1 /\ End(ranges[m]) \in Nat
      /\ len \in Nat /\ len >= DosSize
  BY <1>1, <1>5, LastRange, RangeTypes
<1>7. len = End(ranges[m])
  BY <1>1, <1>4, <1>5, <1>6 DEF IInv, Stages, DosSize
<1>8. n \in Nat /\ n * ShdrSize \in Nat /\ len + n * ShdrSize \in Nat
  BY <1>6, ConstantsAssumption DEF ShdrSize
<1>9. h \in Nat /\ h >= len + n * ShdrSize /\ h >= len /\ h # 0
  <2>1. h \in Nat /\ h >= len + n * ShdrSize
    BY <1>3, <1>8, AlignUpType DEF HeadersLen, IInv, FieldTypes
  <2> QED BY <1>6, <1>8, <2>1 DEF DosSize
<1>10. /\ virtual_len' \in Nat /\ virtual_len' >= h
       /\ virtual_len' % fmt.section = 0
  <2>1. virtual_len' = AlignUp(h, fmt.section)
    BY <1>4, <1>5, <1>9 DEF VirtualAfter
  <2> QED BY <1>9, <2>1, AlignUpType, AlignUpAligned DEF IInv, FieldTypes
<1>11. /\ r.kind = "shdrs" /\ r.offset = len /\ r.size = n * ShdrSize /\ r \in RangeType
       /\ End(r) = len + n * ShdrSize
  BY <1>2, <1>6, <1>8 DEF FileRange, RangeType, RangeKinds, End
<1>12. ranges \in Seq(RangeType) /\ m = Len(ranges)
  BY <1>1 DEF IInv, FieldTypes
<1>13. \A i \in 1..m : i \in DOMAIN ranges' /\ ranges'[i] = ranges[i]
  BY <1>4, <1>12
<1>14. Kept
  BY <1>4, <1>5, <1>6, <1>9, <1>12, <1>13 DEF Kept, DirectoriesStay, relocVars
<1>15. /\ Layout' /\ ranges' \in Seq(RangeType) /\ ranges' # <<>>
       /\ DOMAIN ranges \subseteq DOMAIN ranges'
  <2>1. CASE n = 0
    BY <1>4, <1>5, <1>12, <1>14, <2>1, KeptRanges DEF Layout
  <2>2. CASE n # 0
    <3>1. ranges' = Append(ranges, r) /\ ranges'[m + 1] = r /\ ranges'[m] = ranges[m]
      BY <1>4, <1>6, <1>12, <2>2
    <3>2. RangeFits(m + 1)'
      <4>1. m + 1 > 1 /\ (m + 1) - 1 = m
        BY <1>6
      <4>2. End(r) <= len'
        BY <1>4, <1>9, <1>11
      <4>3. End(ranges[m]) <= r.offset /\ r.size = section_header_num' * ShdrSize
        BY <1>4, <1>6, <1>7, <1>11 DEF ShdrSize
      <4>4. r.offset = End(ranges'[m]) /\ ranges'[m].kind = "nt"
        BY <1>5, <1>7, <1>11, <3>1
      <4>5. /\ ranges'[m + 1].kind = "shdrs"
            /\ ranges'[m + 1].size = section_header_num' * ShdrSize
            /\ ranges'[m + 1].offset = End(ranges'[m])
            /\ End(ranges'[m]) <= ranges'[m + 1].offset
            /\ End(ranges'[m + 1]) <= len'
        BY <1>11, <3>1, <4>2, <4>3, <4>4
      <4> QED BY <4>1, <4>4, <4>5 DEF RangeFits
    <3> QED BY <1>11, <1>12, <1>14, <3>1, <3>2, AppendRange
  <2> QED BY <2>1, <2>2
<1>16. Stages'
  <2>1. len' >= DosSize /\ len' = headers_len' /\ headers_len' # 0 /\ nt_headers_offset' # 0
    BY <1>4, <1>6, <1>9 DEF DosSize
  <2>2. m \in DOMAIN ranges' /\ ranges'[m].kind = "nt"
    BY <1>5, <1>6, <1>13, <1>12
  <2>3. virtual_len' >= headers_len' /\ virtual_len' % fmt'.section = 0
    BY <1>4, <1>10
  <2>4. len' >= headers_len'
    BY <1>4, <1>9
  <2> QED BY <1>15, <2>1, <2>2, <2>3, <2>4 DEF Stages
<1>17. SectionsApart'
  BY <1>4, <1>5 DEF SectionsApart
<1>18. Progress' /\ Landed'
  BY <1>4, FirstPhase
<1>19. TypeOK' /\ FieldTypes'
  <2>1. Len(sections) = 0 /\ Len(ranges') \in Nat
    BY <1>5, <1>15
  <2> QED BY <1>4, <1>5, <1>8, <1>9, <1>10, <1>15, <2>1
          DEF IInv, TypeOK, FieldTypes, relocVars, writeVars
<1>20. SectionData'
  BY <1>4, <1>5, SectionDataKept DEF DirectoriesStay
<1> QED BY <1>15, <1>16, <1>17, <1>18, <1>19, <1>20 DEF IInv

LEMMA VirtualInv == ASSUME IInv, NEW n \in Nat, ReserveVirtual(n) PROVE IInv'
<1>1. /\ headers_len # 0 /\ cur = 0 /\ virtual_len' = AlignUp(virtual_len + n, fmt.section)
      /\ UNCHANGED <<fmt, len, headers_len, stats, nt_headers_offset, data_directories,
                     section_header_num, sections, relocVars, reloc_offset, ranges,
                     writeVars>>
  BY DEF ReserveVirtual, HeadersReserved, VirtualAfter
<1>2. virtual_len \in Nat /\ len \in Nat /\ headers_len \in Nat /\ virtual_len + n \in Nat
  BY DEF IInv, TypeOK
<1>3. /\ virtual_len' \in Nat /\ virtual_len' >= virtual_len + n
      /\ virtual_len' % fmt.section = 0
  BY <1>1, <1>2, AlignUpType, AlignUpAligned DEF IInv, FieldTypes
<1>4. virtual_len' >= virtual_len
  BY <1>2, <1>3
<1>5. Layout'
  BY <1>1, <1>2, SameRanges DEF Kept, DirectoriesStay, relocVars
<1>6. SectionsApart'
  BY <1>1, <1>2, <1>3, <1>4, SectionsKept
<1>7. Stages'
  <2>1. virtual_len' >= headers_len'
    BY <1>1, <1>2, <1>3, <1>4 DEF IInv, Stages
  <2> QED BY <1>1, <1>3, <2>1 DEF IInv, Stages
<1>8. Progress' /\ Landed'
  BY <1>1, FirstPhase
<1>9. TypeOK' /\ FieldTypes'
  BY <1>1, <1>3 DEF IInv, TypeOK, FieldTypes, relocVars, writeVars
<1>10. SectionData'
  BY <1>1, <1>2, SectionDataKept DEF DirectoriesStay
<1> QED BY <1>5, <1>6, <1>7, <1>8, <1>9, <1>10 DEF IInv

LEMMA BlockGrown ==
    ASSUME NEW b \in [page : Nat, count : Nat]
    PROVE  [b EXCEPT !.count = @ + 1] \in [page : Nat, count : Nat]
<1>1. b.count + 1 \in Nat
  OBVIOUS
<1> QED BY <1>1

LEMMA BlocksPadded == ASSUME IInv PROVE PaddedBlocks \in Seq([page : Nat, count : Nat])
<1>1. reloc_blocks \in Seq([page : Nat, count : Nat])
  BY DEF IInv, FieldTypes
<1>2. CASE Odd
  <2>1. PICK n : n = Len(reloc_blocks)
    OBVIOUS
  <2>2. n \in 1..Len(reloc_blocks)
    BY <1>1, <1>2, <2>1 DEF Odd
  <2>3. PICK b \in [page : Nat, count : Nat] : b = reloc_blocks[n]
    BY <1>1, <2>2, ElementOfSeq
  <2>4. PICK c \in [page : Nat, count : Nat] : c = [b EXCEPT !.count = @ + 1]
    BY <2>3, BlockGrown
  <2>5. PaddedBlocks = [reloc_blocks EXCEPT ![n] = c]
    BY <1>1, <1>2, <2>1, <2>2, <2>3, <2>4 DEF PaddedBlocks
  <2> QED BY <1>1, <2>2, <2>5, ExceptSeq
<1>3. CASE ~Odd
  BY <1>1, <1>3 DEF PaddedBlocks
<1> QED BY <1>2, <1>3

LEMMA AddRelocInv ==
    ASSUME IInv, NEW a \in Nat, NEW t \in Nat, AddReloc(a, t) PROVE IInv'
<1>1. /\ cur = 0 /\ ~RelocReserved
      /\ UNCHANGED <<fmt, layoutVars, reloc_offset, ranges, writeVars>>
  BY DEF AddReloc
<1>2. reloc_blocks \in Seq([page : Nat, count : Nat])
  BY DEF IInv, FieldTypes
<1>3. PICK page : page = a - (a % PAGE)
  OBVIOUS
<1>4. page \in Nat
  BY <1>3 DEF PAGE
<1>5. reloc_blocks' \in Seq([page : Nat, count : Nat])
  <2>1. CASE reloc_blocks # <<>> /\ LastBlock.page = page
    <3>1. PICK n : n = Len(reloc_blocks)
      OBVIOUS
    <3>2. n \in 1..Len(reloc_blocks)
      BY <1>2, <2>1, <3>1
    <3>3. PICK b \in [page : Nat, count : Nat] : b = reloc_blocks[n]
      BY <1>2, <3>2, ElementOfSeq
    <3>4. PICK c \in [page : Nat, count : Nat] : c = [b EXCEPT !.count = @ + 1]
      BY <3>3, BlockGrown
    <3>5. reloc_blocks' = [reloc_blocks EXCEPT ![n] = c]
      BY <1>2, <1>3, <2>1, <3>1, <3>2, <3>3, <3>4 DEF AddReloc
    <3> QED BY <1>2, <3>2, <3>5, ExceptSeq
  <2>2. CASE ~(reloc_blocks # <<>> /\ LastBlock.page = page)
    <3>1. reloc_blocks' = Append(PaddedBlocks, [page |-> page, count |-> 1])
      BY <1>3, <2>2 DEF AddReloc
    <3>2. [page |-> page, count |-> 1] \in [page : Nat, count : Nat]
      BY <1>4
    <3> QED BY <3>1, <3>2, BlocksPadded, AppendProperties
  <2> QED BY <2>1, <2>2
<1>6. Layout'
  BY <1>1, SameRanges DEF Kept, DirectoriesStay, IInv, TypeOK, layoutVars
<1>7. Stages' /\ SectionsApart'
  BY <1>1 DEF IInv, Stages, SectionsApart, layoutVars
<1>8. Progress' /\ Landed'
  BY <1>1, FirstPhase
<1>9. TypeOK' /\ FieldTypes'
  BY <1>1, <1>5 DEF IInv, TypeOK, FieldTypes, layoutVars, writeVars
<1>10. SectionData'
  BY <1>1, SectionDataKept DEF DirectoriesStay, layoutVars
<1> QED BY <1>6, <1>7, <1>8, <1>9, <1>10 DEF IInv

LEMMA SectionTypes ==
    ASSUME IInv, NEW i \in DOMAIN sections
    PROVE  LET r == sections[i].range IN
           /\ r.address \in Nat /\ r.vsize \in Nat /\ r.fsize \in Nat /\ r.offset \in Nat
           /\ sections[i] \in SectionType
           /\ r.address + r.vsize <= virtual_len
           /\ r.offset + r.fsize <= len
<1>1. sections[i] \in SectionType
  <2>1. sections \in Seq(SectionType)
    BY DEF IInv, FieldTypes
  <2>2. i \in 1..Len(sections)
    BY <2>1
  <2> QED BY <2>1, <2>2, ElementOfSeq
<1> PICK r : r = sections[i].range
  OBVIOUS
<1>2. r \in [address : Nat, vsize : Nat, fsize : Nat, offset : Nat]
  BY <1>1 DEF SectionType
<1>3. /\ r.address + r.vsize <= virtual_len
      /\ r.fsize # 0 => r.offset + r.fsize <= len
      /\ r.fsize = 0 => r.offset = 0
  BY DEF IInv, SectionsApart, SectionData
<1>4. len \in Nat
  BY DEF IInv, TypeOK
<1>5. r.offset + r.fsize <= len
  <2>1. CASE r.fsize = 0
    BY <1>3, <1>4, <2>1
  <2>2. CASE r.fsize # 0
    BY <1>3, <2>2
  <2> QED BY <2>1, <2>2
<1> QED BY <1>1, <1>2, <1>3, <1>5

(* What reserve_section does, whoever calls it.                            *)
LEMMA SectionReserved ==
    ASSUME IInv, NEW k \in Kinds, NEW vs \in Nat, NEW ds \in Nat,
           ReserveSection(k, vs, ds),
           data_directories' \in Seq([address : Nat, size : Nat]), DirectoriesStay,
           reloc_blocks' \in Seq([page : Nat, count : Nat]), reloc_offset' \in Nat,
           k # "reloc" => UNCHANGED <<reloc_blocks, reloc_offset>>,
           k = "reloc" =>
              /\ ~RelocReserved /\ ~Unset(DirectoryOf["reloc"])'
              /\ ds = RelocSize(reloc_blocks', Len(reloc_blocks'))
              /\ reloc_offset' = SectionRange(vs, ds).offset,
           UNCHANGED <<fmt, headers_len, nt_headers_offset, section_header_num, writeVars>>
    PROVE  IInv'
<1> PICK s : s = SectionRange(vs, ds)
  OBVIOUS
<1> PICK n : n = Len(sections)
  OBVIOUS
<1> PICK m : m = Len(ranges)
  OBVIOUS
<1> PICK kind : kind = IF k = "reloc" THEN "reloc" ELSE "section"
  OBVIOUS
<1> PICK fsize : fsize = AlignUp(ds, fmt.file)
  OBVIOUS
<1>1. /\ headers_len # 0 /\ cur = 0 /\ n < section_header_num
      /\ sections' = Append(sections, [range |-> s, kind |-> k, data |-> ds])
      /\ virtual_len' = AlignUp(virtual_len + vs, fmt.section)
      /\ s.fsize # 0 => Reserve(kind, s.fsize, fmt.file, n + 1)
      /\ s.fsize = 0 => UNCHANGED <<len, ranges>>
  BY DEF ReserveSection, HeadersReserved, VirtualAfter
<1>2. /\ s.address = virtual_len /\ s.vsize = vs /\ s.fsize = fsize
      /\ s.offset = IF fsize = 0 THEN 0 ELSE AlignUp(len, fmt.file)
  BY DEF SectionRange
<1>0. RelocReserved => UNCHANGED <<reloc_blocks, reloc_offset>>
  OBVIOUS
<1>3. /\ len \in Nat /\ virtual_len \in Nat /\ headers_len \in Nat
      /\ fmt.section \in Nat \ {0} /\ fmt.file \in Nat \ {0}
      /\ virtual_len >= headers_len /\ len >= headers_len
      /\ virtual_len % fmt.section = 0
  BY <1>1 DEF IInv, TypeOK, FieldTypes, Stages
<1>4. /\ nt_headers_offset # 0 /\ ranges # <<>>
      /\ \E i \in DOMAIN ranges : ranges[i].kind = "nt"
  BY <1>1, <1>3 DEF IInv, Stages, FieldTypes
<1>5. fsize \in Nat /\ AlignUp(len, fmt.file) \in Nat /\ AlignUp(len, fmt.file) >= len
      /\ AlignUp(len, fmt.file) % fmt.file = 0 /\ 0 % fmt.file = 0
  BY <1>3, AlignUpType, AlignUpAligned, ZeroMod
<1>6. /\ s \in [address : Nat, vsize : Nat, fsize : Nat, offset : Nat]
      /\ s.offset % fmt.file = 0
      /\ s.fsize # 0 => s.offset >= len /\ s.offset >= headers_len
  BY <1>2, <1>3, <1>5 DEF SectionRange
<1>7. /\ virtual_len' \in Nat /\ virtual_len' >= virtual_len + vs
      /\ virtual_len' >= virtual_len /\ virtual_len' % fmt.section = 0
  <2>1. virtual_len + vs \in Nat
    BY <1>3
  <2>2. /\ virtual_len' \in Nat /\ virtual_len' >= virtual_len + vs
        /\ virtual_len' % fmt.section = 0
    BY <1>1, <1>3, <2>1, AlignUpType, AlignUpAligned
  <2> QED BY <1>3, <2>2
<1>8. sections \in Seq(SectionType) /\ n \in Nat /\ DOMAIN sections = 1..n
  BY DEF IInv, FieldTypes
<1>9. PICK t : t = [range |-> s, kind |-> k, data |-> ds]
  OBVIOUS
<1>10. t \in SectionType /\ t.range = s /\ t.kind = k /\ t.data = ds
  BY <1>6, <1>9 DEF SectionType
<1>11. /\ sections' \in Seq(SectionType) /\ DOMAIN sections' = 1..(n + 1)
       /\ sections'[n + 1] = t /\ \A i \in 1..n : sections'[i] = sections[i]
       /\ Len(sections') = n + 1
  BY <1>1, <1>8, <1>9, <1>10
<1>12. len' \in Nat /\ len' >= len /\ (s.fsize # 0 => len' = s.offset + s.fsize)
  <2>1. CASE s.fsize # 0
    <3>1. len' = AlignUp(len, fmt.file) + s.fsize
      BY <1>1, <2>1 DEF Reserve
    <3>2. s.offset = AlignUp(len, fmt.file) /\ s.fsize \in Nat
      BY <1>2, <1>5, <2>1
    <3>3. PICK o \in Nat : o = AlignUp(len, fmt.file) /\ o >= len
      BY <1>5
    <3>4. len' = o + s.fsize /\ len' = s.offset + s.fsize
      BY <3>1, <3>2, <3>3
    <3>5. len' \in Nat /\ len' >= len
      <4>1. PICK f \in Nat : f = s.fsize
        BY <3>2
      <4>2. o + f \in Nat /\ o + f >= o /\ len \in Nat
        BY <1>3
      <4>3. o + f >= len
        BY <3>3, <4>2
      <4> QED BY <3>4, <4>1, <4>2, <4>3
    <3> QED BY <3>4, <3>5
  <2>2. CASE s.fsize = 0
    BY <1>1, <1>3, <2>2
  <2> QED BY <2>1, <2>2
<1>13. SectionsApart'
  <2>1. ASSUME NEW i \in 1..n
        PROVE  LET r == sections[i].range IN
               /\ r.address \in Nat /\ r.vsize \in Nat /\ r.fsize \in Nat /\ r.offset \in Nat
               /\ r.address + r.vsize <= virtual_len
               /\ r.offset + r.fsize <= len
    BY <1>8, SectionTypes
  <2>2. ASSUME NEW i \in 1..(n + 1), i # n + 1
        PROVE  LET r == sections[i].range IN
               /\ r.address + r.vsize <= virtual_len'
               /\ r.fsize # 0 => r.offset + r.fsize <= len'
    <3>1. i \in 1..n
      BY <1>8, <2>2
    <3>2. PICK r : r = sections[i].range
      OBVIOUS
    <3>3. /\ r.address \in Nat /\ r.vsize \in Nat /\ r.fsize \in Nat /\ r.offset \in Nat
          /\ r.address + r.vsize <= virtual_len /\ r.offset + r.fsize <= len
      BY <2>1, <3>1, <3>2
    <3>4. r.address + r.vsize <= virtual_len' /\ r.offset + r.fsize <= len'
      <4>1. /\ len \in Nat /\ len' \in Nat /\ len <= len' /\ virtual_len \in Nat
            /\ virtual_len' \in Nat /\ virtual_len <= virtual_len'
        BY <1>3, <1>7, <1>12
      <4>2. r.address + r.vsize <= virtual_len'
        BY <3>3, <4>1, StaysWithin
      <4>3. r.offset + r.fsize <= len'
        BY <3>3, <4>1, StaysWithin
      <4> QED BY <4>2, <4>3
    <3> QED BY <3>2, <3>4
  <2>3. ASSUME NEW i \in 1..n
        PROVE  LET r == sections[i].range IN
               /\ r.address + r.vsize <= s.address
               /\ s.fsize # 0 => r.offset + r.fsize <= s.offset
    <3>1. PICK r : r = sections[i].range
      OBVIOUS
    <3>2. /\ r.address \in Nat /\ r.vsize \in Nat /\ r.fsize \in Nat /\ r.offset \in Nat
          /\ r.address + r.vsize <= virtual_len /\ r.offset + r.fsize <= len
      BY <2>1, <3>1
    <3>3. len \in Nat /\ s.offset \in Nat /\ (s.fsize # 0 => s.offset >= len)
      BY <1>3, <1>6
    <3>4. s.address = virtual_len
      BY <1>2
    <3>5. r.address + r.vsize <= s.address
      BY <3>2, <3>4
    <3>6. s.fsize # 0 => r.offset + r.fsize <= s.offset
      BY <3>2, <3>3, StaysWithin
    <3> QED BY <3>1, <3>5, <3>6
  <2>4. s.address + s.vsize <= virtual_len' /\ (s.fsize # 0 => s.offset + s.fsize <= len')
    BY <1>2, <1>7, <1>12
  <2>5. ASSUME NEW i \in DOMAIN sections'
        PROVE  LET r == sections'[i].range IN
               /\ r.address % fmt.section = 0 /\ r.offset % fmt.file = 0
               /\ r.address >= headers_len
               /\ r.address + r.vsize <= virtual_len'
               /\ r.fsize # 0 => r.offset >= headers_len /\ r.offset + r.fsize <= len'
               /\ \A j \in 1..(i - 1) :
                    LET q == sections'[j].range IN
                    /\ q.address + q.vsize <= r.address
                    /\ r.fsize # 0 => q.offset + q.fsize <= r.offset
    <3>1. CASE i = n + 1
      <4>1. \A j \in 1..(i - 1) : j \in 1..n
        BY <1>8, <3>1
      <4> QED BY <1>2, <1>3, <1>6, <1>10, <1>11, <2>3, <2>4, <3>1, <4>1
    <3>2. CASE i # n + 1
      <4>1. i \in 1..n /\ i \in DOMAIN sections
        BY <1>8, <1>11, <3>2
      <4>2. \A j \in 1..(i - 1) : j \in 1..n
        BY <1>8, <4>1
      <4> QED BY <1>11, <2>2, <3>2, <4>1, <4>2 DEF IInv, SectionsApart
    <3> QED BY <3>1, <3>2
  <2> QED BY <1>1, <2>5 DEF SectionsApart
<1>14. SectionData'
  <2>1. ASSUME NEW i \in DOMAIN sections', sections'[i].range.fsize = 0
        PROVE  sections'[i].range.offset = 0
    <3>1. CASE i = n + 1
      BY <1>2, <1>10, <1>11, <2>1, <3>1
    <3>2. CASE i # n + 1
      <4>1. i \in 1..n
        BY <1>8, <1>11, <3>2
      <4>2. i \in DOMAIN sections /\ sections'[i] = sections[i]
        BY <1>8, <1>11, <4>1
      <4> QED BY <2>1, <4>2 DEF IInv, SectionData
    <3> QED BY <3>1, <3>2
  <2>2. ASSUME RelocReserved' PROVE ~Unset(DirectoryOf["reloc"])'
    <3>1. CASE k = "reloc"
      BY <3>1
    <3>2. CASE k # "reloc"
      <4>1. RelocReserved
        <5>1. PICK i \in DOMAIN sections' : sections'[i].kind = "reloc"
          BY <2>2 DEF RelocReserved
        <5>2. i # n + 1
          BY <1>10, <1>11, <3>2, <5>1
        <5>3. i \in 1..n
          BY <1>8, <1>11, <5>1, <5>2
        <5> QED BY <1>8, <1>11, <5>1, <5>3 DEF RelocReserved
      <4>2. ~Unset(5)
        BY <4>1 DEF IInv, SectionData, DirectoryOf
      <4>3. ~Unset(5)'
        BY <4>2, UnsetStays
      <4> QED BY <4>3 DEF DirectoryOf
    <3> QED BY <3>1, <3>2
  <2> QED BY <2>1, <2>2 DEF SectionData
<1>15. ranges \in Seq(RangeType)
  BY DEF IInv, FieldTypes
<1>16. /\ Layout' /\ ranges' \in Seq(RangeType)
       /\ DOMAIN ranges \subseteq DOMAIN ranges'
       /\ \A i \in DOMAIN ranges : ranges'[i] = ranges[i]
       /\ \A i \in DOMAIN ranges' :
            i \in DOMAIN ranges \/ ranges'[i].kind \in {"section", "reloc"}
       /\ len' # headers_len' => len' = End(ranges'[Len(ranges')])
  <2>1. CASE s.fsize = 0
    <3>1. UNCHANGED <<len, ranges>>
      BY <1>1, <2>1
    <3>2. Kept
      BY <1>0, <1>1, <1>3, <1>8, <1>11, <3>1 DEF Kept
    <3> QED BY <1>4, <1>15, <3>1, <3>2, SameRanges DEF IInv, Stages
  <2>2. CASE s.fsize # 0
    <3>1. PICK r : r = FileRange(kind, AlignUp(len, fmt.file), s.fsize, fmt.file, n + 1)
      OBVIOUS
    <3>2. kind \in RangeKinds /\ n + 1 \in Nat /\ s.fsize \in Nat
      BY <1>2, <1>5, <1>8 DEF RangeKinds
    <3>3. PICK a \in Nat \ {0}, f \in Nat, o \in Nat :
             a = fmt.file /\ f = s.fsize /\ o = n + 1
      BY <1>3, <3>2
    <3>4. Reserve(kind, f, a, o) /\ r = FileRange(kind, AlignUp(len, a), f, a, o)
      BY <1>1, <2>2, <3>1, <3>3
    <3>5. /\ m \in DOMAIN ranges /\ m \in Nat /\ m >= 1
          /\ End(ranges[m]) \in Nat /\ End(ranges[m]) <= len
          /\ r \in RangeType /\ ranges' = Append(ranges, r) /\ len' = End(r)
          /\ r.kind = kind /\ r.offset = AlignUp(len, a)
          /\ r.size = f /\ r.section = o
          /\ ranges'[m + 1] = r /\ \A j \in 1..m : ranges'[j] = ranges[j]
          /\ DOMAIN ranges \subseteq DOMAIN ranges' /\ 1..m = DOMAIN ranges
      <4>1. ranges # <<>>
        BY <1>4
      <4>2. IsNext(r, m, kind, f, a, o)
        BY <3>2, <3>4, <4>1, NextRange
      <4> QED BY <4>2 DEF IsNext
    <3>6. Kept
      BY <1>0, <1>1, <1>8, <1>11, <1>12, <3>5, SMTT(30) DEF Kept
    <3>7. RangeFits(m + 1)'
      <4>1. m + 1 > 1 /\ (m + 1) - 1 = m /\ ranges'[m] = ranges[m]
        BY <3>5
      <4>2. End(r) <= len' /\ End(ranges[m]) <= r.offset
        <5>1. len' \in Nat /\ len' = End(r)
          BY <1>12, <3>5
        <5>2. r.offset \in Nat /\ len <= r.offset
          BY <1>3, <1>5, <3>3, <3>5
        <5>3. End(ranges[m]) \in Nat /\ End(ranges[m]) <= len /\ len \in Nat
          BY <1>3, <3>5
        <5> QED BY <5>1, <5>2, <5>3
      <4>3. r.offset % fmt'.file = 0 /\ \E j \in 1..m : ranges'[j].kind = "nt"
        BY <1>4, <1>5, <3>3, <3>5
      <4>4. kind = "section" =>
              /\ n + 1 \in DOMAIN sections'
              /\ r.offset = sections'[n + 1].range.offset
              /\ r.size = AlignUp(sections'[n + 1].data, fmt'.file)
        BY <1>1, <1>2, <1>8, <1>10, <1>11, <3>3, <3>5
      <4>5. kind = "reloc" =>
              /\ RelocReserved' /\ r.offset = reloc_offset'
              /\ r.size = AlignUp(RelocSize(reloc_blocks', Len(reloc_blocks')), fmt'.file)
        <5> SUFFICES ASSUME kind = "reloc"
                     PROVE  /\ RelocReserved' /\ r.offset = reloc_offset'
                            /\ r.size = AlignUp(RelocSize(reloc_blocks', Len(reloc_blocks')),
                                                fmt'.file)
          OBVIOUS
        <5>1. k = "reloc" /\ r.size = AlignUp(ds, fmt'.file)
          BY <1>1, <1>2, <3>3, <3>5
        <5>2. n + 1 \in DOMAIN sections' /\ sections'[n + 1].kind = k
          BY <1>8, <1>10, <1>11
        <5>3. RelocReserved'
          BY <5>1, <5>2 DEF RelocReserved
        <5>4. r.offset = reloc_offset'
          BY <1>2, <2>2, <3>3, <3>5, <5>1
        <5> QED BY <5>1, <5>3, <5>4
      <4>6. kind \in {"section", "reloc"}
        OBVIOUS
      <4>7. /\ ranges'[m + 1] = r /\ r.kind = kind /\ r.section = n + 1
            /\ kind \notin {"dos", "raw", "nt", "shdrs", "cert"} /\ m + 1 # 1
        BY <3>3, <3>5, <4>1, <4>6
      <4>8. \E j \in 1..((m + 1) - 1) : ranges'[j].kind = "nt"
        BY <4>1, <4>3
      <4>9. End(ranges'[(m + 1) - 1]) <= ranges'[m + 1].offset
        BY <4>1, <4>2, <4>7 DEF End
      <4> QED BY <4>2, <4>3, <4>4, <4>5, <4>6, <4>7, <4>8, <4>9, SMTT(60) DEF RangeFits
    <3>8. /\ Layout' /\ ranges' \in Seq(RangeType) /\ Len(ranges') = m + 1
          /\ DOMAIN ranges' = DOMAIN ranges \cup {m + 1}
      BY <3>5, <3>6, <3>7, AppendRange
    <3> QED BY <3>5, <3>8
  <2> QED BY <2>1, <2>2
<1>17. Stages'
  <2>1. ranges' # <<>> /\ \E i \in DOMAIN ranges' : ranges'[i].kind = "nt"
    BY <1>4, <1>16
  <2>2. len' >= DosSize /\ len' >= headers_len' /\ virtual_len' >= headers_len'
    <3>1. len >= DosSize /\ DosSize \in Nat
      BY <1>4 DEF IInv, Stages, DosSize
    <3>2. len \in Nat /\ len' \in Nat /\ len' >= len
      BY <1>3, <1>12
    <3>3. len' >= DosSize
      BY <3>1, <3>2
    <3>4. len' >= headers_len /\ virtual_len' >= headers_len
      BY <1>3, <1>7, <3>2
    <3> QED BY <3>3, <3>4
  <2> QED BY <1>1, <1>4, <1>7, <1>16, <2>1, <2>2 DEF Stages
<1>18. Progress' /\ Landed'
  BY <1>1, FirstPhase
<1>19. TypeOK' /\ FieldTypes'
  <2>1. \A i \in DOMAIN sections' :
           /\ sections'[i].kind \in Kinds /\ sections'[i].data \in Nat
           /\ IsRange(sections'[i].range)
    <3>1. \A i \in DOMAIN sections' : sections'[i] \in SectionType
      BY <1>11
    <3> QED BY <3>1 DEF SectionType, IsRange
  <2>2. n + 1 <= section_header_num /\ section_header_num \in 0..MaxSections
    BY <1>1, <1>8 DEF IInv, TypeOK
  <2>3. cur' = 0 /\ 0 \in 0..Len(ranges')
    BY <1>1, <1>16 DEF writeVars
  <2> QED BY <1>7, <1>11, <1>12, <1>16, <2>1, <2>2, <2>3
          DEF IInv, TypeOK, FieldTypes, writeVars
<1> QED BY <1>13, <1>14, <1>16, <1>17, <1>18, <1>19 DEF IInv

LEMMA DirectoriesSet ==
    ASSUME IInv, NEW k, NEW vs \in Nat, NEW ds, k \in DOMAIN DirectoryOf => Unset(DirectoryOf[k]),
           data_directories' = SectionDirectories(k, vs, ds), headers_len # 0
    PROVE  /\ data_directories' \in Seq([address : Nat, size : Nat])
           /\ DirectoriesStay
           /\ k \in DOMAIN DirectoryOf => ~Unset(DirectoryOf[k])'
<1>1. CASE k \in DOMAIN DirectoryOf
  <2>1. PICK d \in Nat : d = DirectoryOf[k]
    BY <1>1 DEF DirectoryOf
  <2>2. PICK a \in Nat : a = virtual_len
    BY DEF IInv, TypeOK
  <2>3. data_directories' = WithDirectory(d, a, vs) /\ Unset(d)
    BY <1>1, <2>1, <2>2 DEF SectionDirectories
  <2>4. /\ data_directories' \in Seq([address : Nat, size : Nat]) /\ DirectoriesStay
        /\ data_directories'[d + 1] = [address |-> a, size |-> vs]
    BY <2>3, DirectorySet
  <2>5. a # 0
    BY <2>2 DEF IInv, TypeOK, Stages
  <2>6. ~Unset(d)'
    BY <2>4, <2>5 DEF Unset
  <2> QED BY <2>1, <2>4, <2>6 DEF DirectoryOf
<1>2. CASE k \notin DOMAIN DirectoryOf
  BY <1>2 DEF SectionDirectories, IInv, FieldTypes, DirectoriesStay
<1> QED BY <1>1, <1>2

LEMMA TypedSectionInv ==
    ASSUME IInv, NEW k \in Kinds, NEW vs \in Nat, NEW ds \in Nat,
           ReserveTypedSection(k, vs, ds)
    PROVE  IInv'
<1>1. /\ k # "reloc" /\ ReserveSection(k, vs, ds)
      /\ k \in DOMAIN DirectoryOf => Unset(DirectoryOf[k])
      /\ data_directories' = SectionDirectories(k, vs, ds)
      /\ UNCHANGED <<fmt, headers_len, nt_headers_offset, section_header_num,
                     relocVars, reloc_offset, writeVars>>
      /\ headers_len # 0
  BY DEF ReserveTypedSection, ReserveSection, HeadersReserved
<1>2. data_directories' \in Seq([address : Nat, size : Nat]) /\ DirectoriesStay
  BY <1>1, DirectoriesSet
<1>3. /\ reloc_blocks' \in Seq([page : Nat, count : Nat])
      /\ UNCHANGED <<reloc_blocks, reloc_offset>> /\ reloc_offset' \in Nat
  BY <1>1 DEF relocVars, IInv, FieldTypes, TypeOK
<1> QED BY <1>1, <1>2, <1>3, SectionReserved

LEMMA RelocSectionInv == ASSUME IInv, ReserveRelocSection PROVE IInv'
<1>1. PICK size : size = RelocSize(PaddedBlocks, Len(PaddedBlocks))
  OBVIOUS
<1>2. /\ "reloc" \in Kinds /\ Unset(DirectoryOf["reloc"])
      /\ ReserveSection("reloc", size, size) /\ reloc_blocks' = PaddedBlocks
      /\ data_directories' = SectionDirectories("reloc", size, size)
      /\ reloc_offset' = SectionRange(size, size).offset
      /\ UNCHANGED <<fmt, headers_len, nt_headers_offset, section_header_num, added,
                     writeVars>>
      /\ headers_len # 0
  BY <1>1 DEF ReserveRelocSection, ReserveSection, HeadersReserved
<1>3. reloc_blocks' \in Seq([page : Nat, count : Nat]) /\ ~RelocReserved
  BY <1>2, BlocksPadded DEF IInv, SectionData
<1>4. size \in Nat /\ size = RelocSize(reloc_blocks', Len(reloc_blocks'))
  BY <1>1, <1>2, <1>3, RelocSizeType
<1>5. /\ data_directories' \in Seq([address : Nat, size : Nat]) /\ DirectoriesStay
      /\ ~Unset(DirectoryOf["reloc"])'
  BY <1>2, <1>4, DirectoriesSet DEF DirectoryOf
<1>6. reloc_offset' \in Nat
  <2>1. fmt.file \in Nat \ {0} /\ len \in Nat
    BY DEF IInv, FieldTypes, TypeOK
  <2>2. AlignUp(len, fmt.file) \in Nat
    BY <2>1, AlignUpType
  <2> QED BY <1>2, <2>2 DEF SectionRange
<1> QED BY <1>2, <1>3, <1>4, <1>5, <1>6, SectionReserved

-------------------------------------------------------------------------------
(* The steps of the second phase *)

(* When it is a range's turn, the buffer has got no further than to it.    *)
(* A step of the second phase leaves the types as they are.                *)
LEMMA TypesKept ==
    ASSUME IInv, cur' \in 0..Len(ranges), buf' \in Nat,
           landed' \in Seq([range : Nat, from : Nat, at : Nat]),
           image' = [nt |-> image'.nt, headers |-> image'.headers, relocs |-> image'.relocs],
           UNCHANGED <<fmt, layoutVars, relocVars, reloc_offset, ranges>>
    PROVE  TypeOK' /\ FieldTypes'
<1>1. UNCHANGED <<fmt, len, virtual_len, headers_len, nt_headers_offset, sections,
                  section_header_num, data_directories, reloc_blocks, reloc_offset, ranges>>
  BY DEF layoutVars, relocVars
<1>2. TypeOK'
  BY <1>1 DEF IInv, TypeOK
<1>3. FieldTypes'
  BY <1>1 DEF IInv, FieldTypes
<1> QED BY <1>2, <1>3

LEMMA AtTurn ==
    ASSUME IInv, NEW k, Turn(k), NEW c, c = cur + 1
    PROVE  /\ c \in DOMAIN ranges /\ c \in Nat /\ c >= 1 /\ c - 1 = cur /\ cur' = c
           /\ ranges[c] \in RangeType /\ ranges[c].kind = k /\ RangeFits(c)
           /\ Current = ranges[c] /\ End(ranges[c]) \in Nat
           /\ End(ranges[c]) = ranges[c].offset + ranges[c].size
           /\ buf \in Nat /\ buf <= ranges[c].offset /\ End(ranges[c]) <= len
           /\ c > 1 => cur \in DOMAIN ranges /\ End(ranges[cur]) \in Nat
           /\ c > 1 /\ ranges[cur].kind # "section" => buf = End(ranges[cur])
           /\ UNCHANGED <<fmt, layoutVars, relocVars, reloc_offset, ranges>>
<1>1. /\ cur < Len(ranges) /\ ranges[cur + 1].kind = k /\ cur' = cur + 1
      /\ UNCHANGED <<fmt, layoutVars, relocVars, reloc_offset, ranges>>
  BY DEF Turn
<1>2. cur \in Nat /\ Len(ranges) \in Nat /\ DOMAIN ranges = 1..Len(ranges)
  BY DEF IInv, FieldTypes
<1>3. c \in DOMAIN ranges /\ c \in Nat /\ c >= 1 /\ c - 1 = cur
  BY <1>1, <1>2
<1>4. /\ ranges[c] \in RangeType /\ End(ranges[c]) \in Nat
      /\ End(ranges[c]) = ranges[c].offset + ranges[c].size
      /\ ranges[c].offset \in Nat
  BY <1>3, RangeTypes DEF RangeType
<1>5. RangeFits(c)
  BY <1>3 DEF IInv, Layout
<1>6. End(ranges[c]) <= len
  BY <1>5 DEF RangeFits
<1>7. c > 1 => cur \in DOMAIN ranges /\ End(ranges[cur]) \in Nat
  BY <1>2, <1>3, RangeTypes
<1>8. c > 1 /\ ranges[cur].kind # "section" => buf = End(ranges[cur])
  BY <1>3 DEF IInv, Progress
<1>9. buf \in Nat
  BY DEF IInv, TypeOK
<1>10. buf <= ranges[c].offset
  <2>1. CASE c = 1
    <3>1. buf = 0
      BY <1>3, <2>1 DEF IInv, Progress
    <3> QED BY <1>4, <3>1
  <2>2. CASE c > 1
    <3>1. buf <= End(ranges[cur]) /\ End(ranges[cur]) <= ranges[c].offset
      BY <1>3, <1>5, <2>2 DEF IInv, Progress, RangeFits
    <3> QED BY <1>4, <1>7, <1>9, <2>2, <3>1
  <2> QED BY <1>3, <2>1, <2>2
<1> QED BY <1>1, <1>3, <1>4, <1>5, <1>6, <1>7, <1>8, <1>9, <1>10 DEF Current

(* What the second phase leaves alone.                                     *)
LEMMA SecondPhase ==
    ASSUME IInv, NEW k, Turn(k)
    PROVE  Layout' /\ Stages' /\ SectionsApart' /\ SectionData'
<1>1. PICK c : c = cur + 1
  OBVIOUS
<1>2. UNCHANGED <<fmt, layoutVars, relocVars, reloc_offset, ranges>>
  BY <1>1, AtTurn
<1>3. Layout'
  BY <1>2, SameRanges DEF Kept, DirectoriesStay, IInv, TypeOK, layoutVars, relocVars
<1>4. Stages' /\ SectionsApart'
  BY <1>2 DEF IInv, Stages, SectionsApart, layoutVars
<1>5. SectionData'
  BY <1>2, SectionDataKept DEF DirectoriesStay, layoutVars
<1> QED BY <1>3, <1>4, <1>5

(* A range is written where it was reserved.                               *)
LEMMA PutInv ==
    ASSUME IInv, NEW k, Turn(k), NEW c, c = cur + 1,
           NEW o \in Nat, NEW n \in Nat, NEW a \in Nat \ {0}, Put(o, n, a),
           o = ranges[c].offset, AlignUp(o + n, a) <= End(ranges[c]),
           k # "section" => AlignUp(o + n, a) = End(ranges[c]),
           image' = [nt |-> image'.nt, headers |-> image'.headers, relocs |-> image'.relocs],
           k = "nt" => image'.nt # <<>>, k # "nt" => image'.nt = image.nt
    PROVE  IInv'
<1>1. /\ c \in DOMAIN ranges /\ c \in Nat /\ c >= 1 /\ c - 1 = cur /\ cur' = c
      /\ ranges[c].kind = k /\ buf \in Nat /\ buf <= o
      /\ UNCHANGED <<fmt, layoutVars, relocVars, reloc_offset, ranges>>
  BY AtTurn
<1>2. buf' = AlignUp(o + n, a) /\ landed' = Append(landed, [range |-> c, from |-> buf, at |-> o])
  BY DEF Put
<1>3. buf' \in Nat
  <2>1. o + n \in Nat
    OBVIOUS
  <2> QED BY <1>2, <2>1, AlignUpType
<1>4. PICK l : l = [range |-> c, from |-> buf, at |-> o]
  OBVIOUS
<1>5. l \in [range : Nat, from : Nat, at : Nat] /\ l.range = c /\ l.from = buf /\ l.at = o
  BY <1>1, <1>4
<1>6. /\ landed \in Seq([range : Nat, from : Nat, at : Nat])
      /\ landed' \in Seq([range : Nat, from : Nat, at : Nat])
      /\ \A i \in DOMAIN landed' :
           landed'[i] = l \/ (i \in DOMAIN landed /\ landed'[i] = landed[i])
  <2>1. landed \in Seq([range : Nat, from : Nat, at : Nat])
    BY DEF IInv, FieldTypes
  <2>2. landed' = Append(landed, l)
    BY <1>2, <1>4
  <2>3. /\ landed' \in Seq([range : Nat, from : Nat, at : Nat])
        /\ Len(landed') = Len(landed) + 1 /\ Len(landed) \in Nat
        /\ \A i \in 1..Len(landed) : landed'[i] = landed[i]
        /\ landed'[Len(landed) + 1] = l
    BY <1>5, <2>1, <2>2, AppendProperties
  <2>4. ASSUME NEW i \in DOMAIN landed'
        PROVE  landed'[i] = l \/ (i \in DOMAIN landed /\ landed'[i] = landed[i])
    <3>1. i = Len(landed) + 1 \/ i \in 1..Len(landed)
      BY <2>3
    <3>2. CASE i = Len(landed) + 1
      BY <2>3, <3>2
    <3>3. CASE i \in 1..Len(landed)
      <4>1. i \in DOMAIN landed
        BY <2>1, <3>3
      <4> QED BY <2>3, <3>3, <4>1
    <3> QED BY <3>1, <3>2, <3>3
  <2> QED BY <2>1, <2>3, <2>4
<1>7. Landed'
  BY <1>1, <1>5, <1>6 DEF IInv, Landed
<1>8. Progress'
  <2>1. cur' > 0 /\ ranges'[cur'] = ranges[c] /\ End(ranges'[cur']) = End(ranges[c])
    BY <1>1
  <2>2. buf' <= End(ranges'[cur']) /\ (ranges'[cur'].kind # "section" => buf' = End(ranges'[cur']))
    BY <1>1, <1>2, <2>1
  <2>3. \A i \in 1..cur' : i = c \/ i \in 1..cur
    BY <1>1
  <2>4. 1..cur \subseteq 1..cur' /\ c \in 1..cur'
    BY <1>1
  <2>5. image'.nt = <<>> <=> \A i \in 1..cur' : ranges'[i].kind # "nt"
    BY <1>1, <2>3, <2>4 DEF IInv, Progress
  <2>6. \A i \in DOMAIN landed' : landed'[i].range \in 1..cur'
    BY <1>5, <1>6, <2>4 DEF IInv, Progress
  <2> QED BY <2>1, <2>2, <2>5, <2>6 DEF Progress
<1>9. TypeOK' /\ FieldTypes'
  <2>1. cur' \in 0..Len(ranges)
    BY <1>1 DEF IInv, FieldTypes
  <2> QED BY <1>1, <1>3, <1>6, <2>1, TypesKept
<1> QED BY <1>7, <1>8, <1>9, SecondPhase DEF IInv

(* What is written with the size of its range.                             *)
LEMMA SameSizeInv ==
    ASSUME IInv, NEW k, Turn(k), NEW c, c = cur + 1, NEW o \in Nat, NEW n \in Nat,
           o = ranges[c].offset, n = ranges[c].size, Put(o, n, 1),
           image' = [nt |-> image'.nt, headers |-> image'.headers, relocs |-> image'.relocs],
           k = "nt" => image'.nt # <<>>, k # "nt" => image'.nt = image.nt
    PROVE  IInv'
<1>1. End(ranges[c]) \in Nat /\ End(ranges[c]) = ranges[c].offset + ranges[c].size
  BY AtTurn
<1>2. o + n \in Nat /\ o + n = End(ranges[c])
  BY <1>1
<1>3. AlignUp(o + n, 1) = End(ranges[c])
  BY <1>2, AlignUpOne
<1>4. AlignUp(o + n, 1) <= End(ranges[c])
  BY <1>1, <1>3
<1> QED BY <1>3, <1>4, PutInv

LEMMA ImageKept ==
    ASSUME IInv, UNCHANGED image
    PROVE  image' = [nt |-> image'.nt, headers |-> image'.headers, relocs |-> image'.relocs]
BY DEF IInv, FieldTypes

LEMMA WriteDosHeaderInv == ASSUME IInv, WriteDosHeader PROVE IInv'
<1>1. Turn("dos") /\ Put(buf, DosSize, 1) /\ UNCHANGED image
  BY DEF WriteDosHeader
<1>2. PICK c : c = cur + 1
  OBVIOUS
<1>3. /\ RangeFits(c) /\ ranges[c].kind = "dos" /\ buf \in Nat /\ c - 1 = cur
      /\ End(ranges[c]) = ranges[c].offset + ranges[c].size /\ End(ranges[c]) \in Nat
  BY <1>1, <1>2, AtTurn
<1>4. c = 1 /\ ranges[c].offset = 0 /\ ranges[c].size = DosSize
  BY <1>3 DEF RangeFits
<1>5. buf = 0
  BY <1>3, <1>4 DEF IInv, Progress
<1>6. PICK o \in Nat : o = buf
  BY <1>3
<1>7. DosSize \in Nat /\ o + DosSize \in Nat /\ o + DosSize = End(ranges[c])
  BY <1>3, <1>4, <1>5, <1>6 DEF DosSize
<1>8. AlignUp(o + DosSize, 1) = End(ranges[c])
  BY <1>7, AlignUpOne
<1>9. AlignUp(o + DosSize, 1) <= End(ranges[c])
  BY <1>3, <1>8
<1>10. o = ranges[c].offset /\ Put(o, DosSize, 1) /\ image'.nt = image.nt
  BY <1>1, <1>4, <1>5, <1>6
<1> QED BY <1>1, <1>2, <1>7, <1>8, <1>9, <1>10, ImageKept, PutInv

LEMMA WriteRawInv == ASSUME IInv, WriteRaw PROVE IInv'
<1>1. /\ Turn("raw") /\ UNCHANGED image
      /\ IF image.nt = <<>> THEN Put(AlignUp(buf, Current.align), Current.size, 1)
         ELSE WriteCurrent
  BY DEF WriteRaw
<1>2. PICK c : c = cur + 1
  OBVIOUS
<1>3. /\ c \in DOMAIN ranges /\ c \in Nat /\ c >= 1 /\ c - 1 = cur
      /\ RangeFits(c) /\ ranges[c].kind = "raw" /\ ranges[c] \in RangeType
      /\ Current = ranges[c] /\ buf \in Nat /\ End(ranges[c]) \in Nat
      /\ End(ranges[c]) = ranges[c].offset + ranges[c].size
      /\ c > 1 => cur \in DOMAIN ranges /\ End(ranges[cur]) \in Nat
      /\ c > 1 /\ ranges[cur].kind # "section" => buf = End(ranges[cur])
  BY <1>1, <1>2, AtTurn
<1>4. PICK n \in Nat, a \in Nat \ {0}, o \in Nat :
         n = Current.size /\ a = Current.align /\ o = ranges[c].offset
  BY <1>3 DEF RangeType
<1>5. ASSUME image.nt = <<>> PROVE AlignUp(buf, a) = o
  <2>1. \A j \in 1..cur : ranges[j].kind # "nt"
    BY <1>5 DEF IInv, Progress
  <2>2. \A j \in 1..c : ranges[j].kind # "nt"
    <3>1. \A j \in 1..c : j = c \/ j \in 1..cur
      BY <1>3
    <3> QED BY <1>3, <2>1, <3>1
  <2>3. c > 1
    BY <1>3 DEF RangeFits
  <2>4. ranges[cur].kind # "section"
    <3>1. RangeFits(cur) /\ \A j \in 1..(cur - 1) : j \in 1..cur
      BY <1>3, <2>3 DEF IInv, Layout
    <3> QED BY <2>1, <3>1 DEF RangeFits
  <2>5. buf = End(ranges[c - 1])
    BY <1>3, <2>3, <2>4
  <2> QED BY <1>3, <1>4, <2>2, <2>5 DEF RangeFits
<1>6. Put(o, n, 1)
  BY <1>1, <1>3, <1>4, <1>5 DEF WriteCurrent
<1>7. n = ranges[c].size /\ image'.nt = image.nt
  BY <1>1, <1>3, <1>4
<1> QED BY <1>1, <1>2, <1>4, <1>6, <1>7, ImageKept, SameSizeInv

LEMMA CurrentInv ==
    ASSUME IInv, NEW k, k # "nt", Turn(k), WriteCurrent, UNCHANGED image PROVE IInv'
<1>1. PICK c : c = cur + 1
  OBVIOUS
<1>2. ranges[c] \in RangeType /\ Current = ranges[c]
  BY <1>1, AtTurn
<1>3. PICK o \in Nat, n \in Nat : o = ranges[c].offset /\ n = ranges[c].size
  BY <1>2 DEF RangeType
<1>4. Put(o, n, 1) /\ image'.nt = image.nt
  BY <1>2, <1>3 DEF WriteCurrent
<1> QED BY <1>1, <1>3, <1>4, ImageKept, SameSizeInv

LEMMA CertificateInv == ASSUME IInv, WriteCertificateTable PROVE IInv'
<1>1. /\ Turn("cert") /\ UNCHANGED image
      /\ Put(data_directories[SECURITY + 1].address, data_directories[SECURITY + 1].size, 1)
  BY DEF WriteCertificateTable
<1>2. PICK c : c = cur + 1
  OBVIOUS
<1>3. /\ ranges[c] \in RangeType /\ Current = ranges[c] /\ ranges[c].kind = "cert"
      /\ RangeFits(c)
  BY <1>1, <1>2, AtTurn
<1>4. data_directories[SECURITY + 1] = [address |-> ranges[c].offset, size |-> ranges[c].size]
  BY <1>3 DEF RangeFits
<1>5. WriteCurrent
  BY <1>1, <1>3, <1>4 DEF WriteCurrent
<1> QED BY <1>1, <1>5, CurrentInv

LEMMA WriteNtHeadersInv == ASSUME IInv, WriteNtHeaders PROVE IInv'
<1>1. /\ Turn("nt")
      /\ Put(nt_headers_offset, NtSize + Len(data_directories) * DirSize, 1)
      /\ image' = [image EXCEPT !.nt = <<NtHeaders>>]
  BY DEF WriteNtHeaders
<1>2. PICK h : image' = [image EXCEPT !.nt = <<h>>]
  BY <1>1
<1>3. PICK c : c = cur + 1
  OBVIOUS
<1>4. ranges[c].kind = "nt" /\ RangeFits(c) /\ ranges[c] \in RangeType
  BY <1>1, <1>3, AtTurn
<1>5. PICK o \in Nat, n \in Nat : o = ranges[c].offset /\ n = ranges[c].size
  BY <1>4 DEF RangeType
<1>6. Put(o, n, 1)
  BY <1>1, <1>4, <1>5 DEF RangeFits
<1>7. /\ image' = [nt |-> image'.nt, headers |-> image'.headers, relocs |-> image'.relocs]
      /\ image'.nt # <<>>
  <2>1. image = [nt |-> image.nt, headers |-> image.headers, relocs |-> image.relocs]
    BY DEF IInv, FieldTypes
  <2>2. image' = [nt |-> <<h>>, headers |-> image.headers, relocs |-> image.relocs]
    BY <1>2, <2>1
  <2> QED BY <2>2
<1> QED BY <1>1, <1>3, <1>5, <1>6, <1>7, SameSizeInv

LEMMA WriteSectionHeadersInv == ASSUME IInv, WriteSectionHeaders PROVE IInv'
<1>1. /\ Turn("shdrs") /\ Put(buf, Len(sections) * ShdrSize, 1)
      /\ \E h : image' = [image EXCEPT !.headers = h]
  BY DEF WriteSectionHeaders
<1>2. PICK h : image' = [image EXCEPT !.headers = h]
  BY <1>1
<1>3. PICK c : c = cur + 1
  OBVIOUS
<1>4. /\ c \in Nat /\ c - 1 = cur /\ ranges[c].kind = "shdrs" /\ RangeFits(c)
      /\ ranges[c] \in RangeType /\ buf \in Nat
      /\ c > 1 /\ ranges[cur].kind # "section" => buf = End(ranges[cur])
  BY <1>1, <1>3, AtTurn
<1>5. /\ c > 1 /\ ranges[cur].kind = "nt" /\ ranges[c].offset = End(ranges[cur])
      /\ ranges[c].size = section_header_num * ShdrSize
  BY <1>4 DEF RangeFits
<1>6. Len(sections) = section_header_num
  BY <1>1 DEF Turn, Reserved
<1>7. PICK o \in Nat, n \in Nat : o = ranges[c].offset /\ n = ranges[c].size
  BY <1>4 DEF RangeType
<1>8. Put(o, n, 1)
  BY <1>1, <1>4, <1>5, <1>6, <1>7
<1>9. /\ image' = [nt |-> image'.nt, headers |-> image'.headers, relocs |-> image'.relocs]
      /\ image'.nt = image.nt
  <2>1. image = [nt |-> image.nt, headers |-> image.headers, relocs |-> image.relocs]
    BY DEF IInv, FieldTypes
  <2>2. image' = [nt |-> image.nt, headers |-> h, relocs |-> image.relocs]
    BY <1>2, <2>1
  <2> QED BY <2>2
<1> QED BY <1>1, <1>3, <1>7, <1>8, <1>9, SameSizeInv

LEMMA WriteSectionInv == ASSUME IInv, NEW n \in Nat, WriteSection(n) PROVE IInv'
<1>1. /\ Turn("section") /\ UNCHANGED image
      /\ LET s == sections[Current.section] IN
         /\ n = s.data \/ n < s.data
         /\ IF n = 0 THEN UNCHANGED <<buf, landed>> ELSE Put(s.range.offset, n, fmt.file)
  BY DEF WriteSection
<1>2. PICK c : c = cur + 1
  OBVIOUS
<1>3. /\ c \in DOMAIN ranges /\ c \in Nat /\ c >= 1 /\ c - 1 = cur /\ cur' = c
      /\ ranges[c] \in RangeType /\ ranges[c].kind = "section" /\ RangeFits(c)
      /\ Current = ranges[c] /\ End(ranges[c]) \in Nat
      /\ End(ranges[c]) = ranges[c].offset + ranges[c].size
      /\ buf \in Nat /\ buf <= ranges[c].offset
      /\ UNCHANGED <<fmt, layoutVars, relocVars, reloc_offset, ranges>>
  BY <1>1, <1>2, AtTurn
<1>4. PICK o \in Nat : o = ranges[c].offset
  BY <1>3 DEF RangeType
<1>5. PICK a \in Nat \ {0} : a = fmt.file
  BY DEF IInv, FieldTypes
<1>6. PICK d \in Nat : d = sections[ranges[c].section].data
  <2>1. ranges[c].section \in DOMAIN sections
    BY <1>3 DEF RangeFits
  <2> QED BY <2>1, SectionTypes DEF SectionType
<1>7. ranges[c].size = AlignUp(d, a) /\ o % a = 0 /\ n <= d
  BY <1>1, <1>3, <1>4, <1>5, <1>6 DEF RangeFits
<1>8. CASE n = 0
  <2>1. UNCHANGED <<buf, landed, image>>
    BY <1>1, <1>8
  <2>2. Landed'
    BY <1>3, <2>1 DEF IInv, Landed
  <2>3. Progress'
    <3>1. cur' > 0 /\ ranges'[cur'].kind = "section"
      BY <1>3
    <3>2. buf' <= End(ranges'[cur'])
      <4>1. ranges[c].size \in Nat
        BY <1>3 DEF RangeType
      <4> QED BY <1>3, <1>4, <2>1, <4>1
    <3>3. (\A i \in 1..cur' : i = c \/ i \in 1..cur) /\ 1..cur \subseteq 1..cur'
      BY <1>3
    <3>4. image'.nt = <<>> <=> \A i \in 1..cur' : ranges'[i].kind # "nt"
      BY <1>3, <2>1, <3>3 DEF IInv, Progress
    <3>5. \A i \in DOMAIN landed' : landed'[i].range \in 1..cur'
      BY <2>1, <3>3 DEF IInv, Progress
    <3> QED BY <3>1, <3>2, <3>4, <3>5 DEF Progress
  <2>4. TypeOK' /\ FieldTypes'
    <3>1. cur' \in 0..Len(ranges)
      BY <1>3 DEF IInv, FieldTypes
    <3>2. /\ buf' \in Nat /\ landed' \in Seq([range : Nat, from : Nat, at : Nat])
          /\ image' = [nt |-> image'.nt, headers |-> image'.headers, relocs |-> image'.relocs]
      BY <1>3, <2>1 DEF IInv, FieldTypes
    <3> QED BY <1>3, <3>1, <3>2, TypesKept
  <2> QED BY <1>1, <2>2, <2>3, <2>4, SecondPhase DEF IInv
<1>9. CASE n # 0
  <2>1. Put(o, n, a)
    BY <1>1, <1>3, <1>4, <1>5, <1>9 DEF RangeFits
  <2>2. AlignUp(o + n, a) = o + AlignUp(n, a)
    BY <1>7, AlignUpOffset
  <2>3. AlignUp(n, a) <= AlignUp(d, a)
    <3>1. /\ AlignUp(d, a) \in Nat /\ AlignUp(d, a) >= d /\ AlignUp(d, a) % a = 0
      BY AlignUpType, AlignUpAligned
    <3>2. n <= AlignUp(d, a)
      BY <1>7, <3>1
    <3> QED BY <3>1, <3>2, AlignUpLeast
  <2>4. AlignUp(o + n, a) <= End(ranges[c])
    <3>1. AlignUp(n, a) \in Nat /\ AlignUp(d, a) \in Nat
      BY AlignUpType
    <3> QED BY <1>3, <1>4, <1>7, <2>2, <2>3, <3>1
  <2>5. image'.nt = image.nt
    BY <1>1
  <2> QED BY <1>1, <1>2, <1>4, <2>1, <2>4, <2>5, ImageKept, PutInv
<1> QED BY <1>8, <1>9

LEMMA WriteRelocSectionInv == ASSUME IInv, WriteRelocSection PROVE IInv'
<1>1. /\ Turn("reloc")
      /\ Put(reloc_offset, RelocSize(reloc_blocks, Len(reloc_blocks)), fmt.file)
      /\ \E h : image' = [image EXCEPT !.relocs = h]
  BY DEF WriteRelocSection
<1>2. PICK h : image' = [image EXCEPT !.relocs = h]
  BY <1>1
<1>3. PICK c : c = cur + 1
  OBVIOUS
<1>4. /\ ranges[c] \in RangeType /\ ranges[c].kind = "reloc" /\ RangeFits(c)
      /\ Current = ranges[c] /\ End(ranges[c]) \in Nat
      /\ End(ranges[c]) = ranges[c].offset + ranges[c].size
  BY <1>1, <1>3, AtTurn
<1>5. PICK o \in Nat : o = ranges[c].offset
  BY <1>4 DEF RangeType
<1>6. PICK a \in Nat \ {0} : a = fmt.file
  BY DEF IInv, FieldTypes
<1>7. PICK n \in Nat : n = RelocSize(reloc_blocks, Len(reloc_blocks))
  BY RelocSizeType DEF IInv, FieldTypes
<1>8. ranges[c].size = AlignUp(n, a) /\ o % a = 0
  BY <1>4, <1>5, <1>6, <1>7 DEF RangeFits
<1>9. Put(o, n, a)
  BY <1>1, <1>4, <1>5, <1>6, <1>7 DEF RangeFits
<1>10. AlignUp(o + n, a) = End(ranges[c])
  <2>1. AlignUp(o + n, a) = o + AlignUp(n, a)
    BY <1>8, AlignUpOffset
  <2> QED BY <1>4, <1>5, <1>8, <2>1
<1>11. AlignUp(o + n, a) <= End(ranges[c])
  BY <1>4, <1>10
<1>12. /\ image' = [nt |-> image'.nt, headers |-> image'.headers, relocs |-> image'.relocs]
       /\ image'.nt = image.nt
  <2>1. image = [nt |-> image.nt, headers |-> image.headers, relocs |-> image.relocs]
    BY DEF IInv, FieldTypes
  <2>2. image' = [nt |-> image.nt, headers |-> image.headers, relocs |-> h]
    BY <1>2, <2>1
  <2> QED BY <2>2
<1> QED BY <1>1, <1>3, <1>5, <1>9, <1>10, <1>11, <1>12, PutInv

-------------------------------------------------------------------------------
(* The theorems *)

LEMMA InitInv == ASSUME Init PROVE IInv
<1>1. fmt.section \in Nat \ {0} /\ fmt.file \in Nat \ {0} /\ fmt.wide \in BOOLEAN
  BY ConstantsAssumption DEF Init, Formats
<1>2. TypeOK
  BY ConstantsAssumption DEF Init, TypeOK
<1>3. FieldTypes
  BY <1>1 DEF Init, FieldTypes
<1>4. SectionsApart /\ SectionData
  BY DEF Init, SectionsApart, SectionData, RelocReserved
<1>5. Layout /\ Stages
  BY DEF Init, Layout, Stages
<1>6. Progress /\ Landed
  BY DEF Init, Progress, Landed
<1> QED BY <1>2, <1>3, <1>4, <1>5, <1>6 DEF IInv

LEMMA NextInv == ASSUME IInv, [Next]_vars PROVE IInv'
<1> USE ConstantsAssumption
<1>1. CASE ReserveHeaderNext
  <2>1. CASE ReserveDosHeader
    BY <2>1, DosInv
  <2>2. ASSUME NEW n \in Directories, ReserveNtHeaders(n) PROVE IInv'
    BY <2>2, NtInv
  <2>3. ASSUME NEW n \in 0..MaxSections, ReserveSectionHeaders(n) PROVE IInv'
    BY <2>3, SectionHeadersInv
  <2> QED BY <1>1, <2>1, <2>2, <2>3 DEF ReserveHeaderNext
<1>2. CASE ReserveExtraNext
  <2>1. ASSUME NEW n \in ExtraSizes, NEW a \in Aligns, ReserveRaw(n, a) PROVE IInv'
    BY <2>1, RawInv
  <2>2. ASSUME NEW n \in ExtraSizes, ReserveUntil(n) PROVE IInv'
    BY <2>2, UntilInv
  <2>3. ASSUME NEW n \in ExtraSizes, ReserveCertificateTable(n) PROVE IInv'
    BY <2>3, CertInv
  <2>4. ASSUME NEW n \in Gaps, ReserveVirtual(n) PROVE IInv'
    BY <2>4, VirtualInv
  <2> QED BY <1>2, <2>1, <2>2, <2>3, <2>4 DEF ReserveExtraNext
<1>3. CASE ReserveDirectoryNext
  <2>1. PICK n : n = Len(data_directories)
    OBVIOUS
  <2>2. PICK a \in Gaps : SetDataDirectory(n - 1, a, 1)
    BY <1>3, <2>1 DEF ReserveDirectoryNext
  <2>3. n - 1 \in Nat
    BY <1>3, <2>1 DEF ReserveDirectoryNext, IInv, FieldTypes
  <2> QED BY <2>2, <2>3, DirectoryInv
<1>4. CASE ReserveSectionNext
  <2>1. ASSUME NEW k \in Kinds, NEW vs \in VirtualSizes,
               NEW ds \in DataSizes \cup VirtualSizes, ReserveTypedSection(k, vs, ds)
        PROVE  IInv'
    BY <2>1, TypedSectionInv
  <2>2. ASSUME NEW a \in Addresses, NEW t \in Types, AddReloc(a, t) PROVE IInv'
    BY <2>2, AddRelocInv
  <2>3. CASE ReserveRelocSection
    BY <2>3, RelocSectionInv
  <2> QED BY <1>4, <2>1, <2>2, <2>3 DEF ReserveSectionNext
<1>5. CASE WriteNext
  <2>1. CASE WriteDosHeader
    BY <2>1, WriteDosHeaderInv
  <2>2. CASE WriteRaw
    BY <2>2, WriteRawInv
  <2>3. CASE PadUntil
    BY <2>3, CurrentInv DEF PadUntil
  <2>4. CASE WriteNtHeaders
    BY <2>4, WriteNtHeadersInv
  <2>5. CASE WriteSectionHeaders
    BY <2>5, WriteSectionHeadersInv
  <2>6. ASSUME NEW n \in DataSizes \cup VirtualSizes, WriteSection(n) PROVE IInv'
    BY <2>6, WriteSectionInv
  <2>7. CASE WriteRelocSection
    BY <2>7, WriteRelocSectionInv
  <2>8. CASE WriteCertificateTable
    BY <2>8, CertificateInv
  <2> QED BY <1>5, <2>1, <2>2, <2>3, <2>4, <2>5, <2>6, <2>7, <2>8 DEF WriteNext
<1>6. CASE UNCHANGED vars
  <2>1. /\ UNCHANGED <<fmt, len, virtual_len, headers_len, stats, nt_headers_offset,
                       data_directories, section_header_num, sections>>
        /\ UNCHANGED <<reloc_blocks, reloc_offset, ranges, buf, image, cur, landed>>
        /\ DirectoriesStay
    BY <1>6 DEF vars, layoutVars, relocVars, writeVars, DirectoriesStay
  <2>2. Layout'
    BY <2>1, SameRanges DEF Kept, IInv, TypeOK
  <2>3. Stages' /\ SectionsApart' /\ Landed'
    BY <2>1 DEF IInv, Stages, SectionsApart, Landed
  <2>4. Progress'
    BY <2>1 DEF IInv, Progress
  <2>5. TypeOK' /\ FieldTypes'
    BY <2>1 DEF IInv, TypeOK, FieldTypes
  <2>6. SectionData'
    BY <2>1, SectionDataKept
  <2> QED BY <2>2, <2>3, <2>4, <2>5, <2>6 DEF IInv
<1> QED BY <1>1, <1>2, <1>3, <1>4, <1>5, <1>6 DEF Next

(* The inductive invariant: where each range of the file lies, what it is  *)
(* for and how far the buffer has got.                                     *)
THEOREM Inductive == Spec => []IInv
<1>1. Init => IInv
  BY InitInv
<1>2. IInv /\ [Next]_vars => IInv'
  BY NextInv
<1> QED BY <1>1, <1>2, PTL DEF Spec

(* The fields of the writer keep their types.                              *)
THEOREM TypeCorrect == Spec => []TypeOK
<1>1. IInv => TypeOK
  BY DEF IInv
<1> QED BY <1>1, Inductive, PTL

(* Whatever the alignments and the sizes, sections never share memory nor  *)
(* parts of the file, neither with each other nor with the headers.        *)
THEOREM SectionsStayApart == Spec => []SectionsApart
<1>1. IInv => SectionsApart
  BY DEF IInv
<1> QED BY <1>1, Inductive, PTL

(* Every range is written at the offset it was reserved at, and no assert  *)
(* of pad_until fails: what was written before it ends there or earlier.   *)
THEOREM WritesLand == Spec => []Landed
<1>1. IInv => Landed
  BY DEF IInv
<1> QED BY <1>1, Inductive, PTL

(* The buffer never outgrows what was reserved, and is of that length when *)
(* the last range is written, but for a section the client did not fill.   *)
THEOREM FileCompletes == Spec => []Complete
<1>1. ASSUME IInv PROVE Complete
  <2>1. len \in Nat /\ buf \in Nat /\ cur \in 0..Len(ranges) /\ Len(ranges) \in Nat
    BY <1>1 DEF IInv, TypeOK, FieldTypes
  <2>2. buf <= len
    <3>1. CASE cur = 0
      BY <1>1, <2>1, <3>1 DEF IInv, Progress
    <3>2. CASE cur > 0
      <4>1. cur \in DOMAIN ranges
        BY <1>1, <2>1, <3>2 DEF IInv, FieldTypes
      <4>2. End(ranges[cur]) \in Nat /\ RangeFits(cur)
        BY <1>1, <4>1, RangeTypes DEF IInv, Layout
      <4> QED BY <1>1, <2>1, <3>2, <4>2 DEF IInv, Progress, RangeFits
    <3> QED BY <2>1, <3>1, <3>2
  <2>3. ASSUME Done, ranges[cur].kind # "section"
        PROVE  buf = IF len = headers_len THEN End(ranges[cur]) ELSE len
    <3>1. ranges # <<>> /\ cur = Len(ranges) /\ cur > 0
      <4>1. headers_len # 0 /\ cur = Len(ranges)
        BY <2>3 DEF Done, Reserved, HeadersReserved
      <4>2. \E i \in DOMAIN ranges : TRUE
        BY <1>1, <4>1 DEF IInv, Stages
      <4> QED BY <1>1, <2>1, <4>1, <4>2 DEF IInv, FieldTypes
    <3>2. buf = End(ranges[cur])
      BY <1>1, <2>3, <3>1 DEF IInv, Progress
    <3> QED BY <1>1, <3>1, <3>2 DEF IInv, Stages
  <2> QED BY <2>2, <2>3 DEF Complete
<1> QED BY <1>1, Inductive, PTL

-------------------------------------------------------------------------------
(* The writer implements FileLayout *)

(* What FileLayout sees of the ranges.                                     *)
LEMMA Mapped ==
    ASSUME NEW r \in Seq(RangeType),
           NEW R, R = [i \in DOMAIN r |-> [offset |-> r[i].offset, size |-> r[i].size]]
    PROVE  /\ R \in Seq([offset : Nat, size : Nat]) /\ Len(R) = Len(r)
           /\ DOMAIN R = 1..Len(r) /\ Len(r) \in Nat
           /\ \A i \in 1..Len(r) : /\ r[i].offset \in Nat /\ r[i].size \in Nat
                                   /\ R[i] = [offset |-> r[i].offset, size |-> r[i].size]
<1>1. DOMAIN r = 1..Len(r) /\ Len(r) \in Nat
  BY LenProperties
<1>2. \A i \in 1..Len(r) : r[i] \in RangeType
  BY <1>1
<1>3. \A i \in 1..Len(r) : r[i].offset \in Nat /\ r[i].size \in Nat
  BY <1>2 DEF RangeType
<1>4. \A i \in 1..Len(r) : R[i] = [offset |-> r[i].offset, size |-> r[i].size]
  BY <1>1
<1>5. R \in Seq([offset : Nat, size : Nat]) /\ Len(R) = Len(r) /\ DOMAIN R = 1..Len(r)
  BY <1>1, <1>3
<1> QED BY <1>1, <1>3, <1>4, <1>5

LEMMA LayoutReserve ==
    ASSUME IInv, IInv', cur = 0, UNCHANGED writeVars,
           NEW s, ranges' = Append(ranges, s)
    PROVE  FL!Reserve
<1> DEFINE R == [i \in DOMAIN ranges |->
                    [offset |-> ranges[i].offset, size |-> ranges[i].size]]
           S == [offset : Nat, size : Nat]
<1>1. ranges \in Seq(RangeType) /\ ranges' \in Seq(RangeType)
  BY DEF IInv, FieldTypes
<1>2. /\ R \in Seq(S) /\ Len(R) = Len(ranges) /\ DOMAIN R = 1..Len(ranges)
      /\ Len(ranges) \in Nat
      /\ \A i \in 1..Len(ranges) :
            /\ ranges[i].offset \in Nat /\ ranges[i].size \in Nat
            /\ R[i] = [offset |-> ranges[i].offset, size |-> ranges[i].size]
  BY <1>1, Mapped
<1>3. /\ R' \in Seq(S) /\ Len(R') = Len(ranges') /\ Len(ranges') \in Nat
      /\ \A i \in 1..Len(ranges') :
            /\ ranges'[i].offset \in Nat /\ ranges'[i].size \in Nat
            /\ R'[i] = [offset |-> ranges'[i].offset, size |-> ranges'[i].size]
  <2>1. PICK q : q = ranges'
    OBVIOUS
  <2> DEFINE Q == [i \in DOMAIN q |-> [offset |-> q[i].offset, size |-> q[i].size]]
  <2>2. R' = Q
    BY <2>1
  <2>3. q \in Seq(RangeType)
    BY <1>1, <2>1
  <2>4. /\ Q \in Seq(S) /\ Len(Q) = Len(q) /\ Len(q) \in Nat
        /\ \A i \in 1..Len(q) :
              /\ q[i].offset \in Nat /\ q[i].size \in Nat
              /\ Q[i] = [offset |-> q[i].offset, size |-> q[i].size]
    BY <2>3, Mapped
  <2> HIDE DEF R, S, Q
  <2> QED BY <2>1, <2>2, <2>4
<1>4. /\ Len(ranges') = Len(ranges) + 1
      /\ \A i \in 1..Len(ranges) : ranges'[i] = ranges[i]
  BY <1>1
<1> HIDE DEF R, S
<1>5. \A i \in 1..Len(R) : R'[i] = R[i]
  BY <1>2, <1>3, <1>4
<1>6. Len(R') = Len(R) + 1
  BY <1>2, <1>3, <1>4
<1>7. R' = Append(R, R'[Len(R')]) /\ R' # <<>> /\ R'[Len(R')] \in S
  BY <1>2, <1>3, <1>5, <1>6, Appended
<1>8. R'[Len(R')].size >= 0
  BY <1>7 DEF S
<1>9. R # <<>> => R[Len(R)].offset + R[Len(R)].size <= R'[Len(R')].offset
  <2> SUFFICES ASSUME R # <<>>
               PROVE  R[Len(R)].offset + R[Len(R)].size <= R'[Len(R')].offset
    OBVIOUS
  <2> PICK m : m = Len(ranges')
    OBVIOUS
  <2>1. Len(ranges) >= 1 /\ Len(ranges) \in 1..Len(ranges)
    BY <1>2
  <2>2. m \in DOMAIN ranges' /\ m > 1 /\ m - 1 = Len(ranges)
    BY <1>1, <1>2, <1>4, <2>1
  <2>3. RangeFits(m)'
    BY <2>2 DEF IInv, Layout
  <2>4. End(ranges'[m - 1]) <= ranges'[m].offset
    BY <2>2, <2>3 DEF RangeFits, End
  <2>5. R[Len(R)] = [offset |-> ranges[m - 1].offset, size |-> ranges[m - 1].size]
        /\ R'[Len(R')].offset = ranges'[m].offset /\ ranges'[m - 1] = ranges[m - 1]
    BY <1>2, <1>3, <1>4, <2>1, <2>2
  <2> QED BY <2>4, <2>5 DEF End
<1>10. UNCHANGED <<buf, cur, landed>>
  BY DEF writeVars
<1> QED BY <1>7, <1>8, <1>9, <1>10 DEF FL!Reserve, FL!EndOf, R

(* The first phase only ever adds ranges.                                  *)
LEMMA ReserveShape ==
    ASSUME IInv,
           ReserveHeaderNext \/ ReserveExtraNext \/ ReserveDirectoryNext
           \/ ReserveSectionNext
    PROVE  /\ cur = 0 /\ UNCHANGED writeVars
           /\ UNCHANGED ranges \/ \E r : ranges' = Append(ranges, r)
<1>1. ReserveDosHeader => cur = 0
  <2>1. len = 0 => ranges = <<>>
    BY LastRange DEF DosSize
  <2> QED BY <2>1 DEF ReserveDosHeader, IInv, FieldTypes
<1>2. CASE ReserveHeaderNext
  BY <1>1, <1>2 DEF ReserveHeaderNext, ReserveDosHeader, ReserveNtHeaders,
     ReserveSectionHeaders, Reserve, OnlyReserved, Reserving
<1>3. CASE ReserveExtraNext
  BY <1>3 DEF ReserveExtraNext, ReserveRaw, ReserveUntil, ReserveCertificateTable,
     ReserveVirtual, ReserveExtra, Reserve, OnlyReserved, Reserving
<1>4. CASE ReserveDirectoryNext
  BY <1>4 DEF ReserveDirectoryNext, SetDataDirectory
<1>5. CASE ReserveSectionNext
  <2>1. ASSUME NEW k, NEW vs, NEW ds, ReserveSection(k, vs, ds)
        PROVE  /\ cur = 0
               /\ UNCHANGED ranges \/ \E r : ranges' = Append(ranges, r)
    BY <2>1 DEF ReserveSection, Reserve
  <2> QED BY <1>5, <2>1 DEF ReserveSectionNext, ReserveTypedSection, AddReloc,
             ReserveRelocSection
<1> QED BY <1>2, <1>3, <1>4, <1>5

(* A piece is put where its range begins, and ends within it.              *)
LEMMA LayoutPut ==
    ASSUME IInv, IInv', NEW k, Turn(k),
           NEW o \in Nat, NEW n \in Nat, NEW a \in Nat \ {0}, Put(o, n, a)
    PROVE  FL!Put
<1> DEFINE R == [i \in DOMAIN ranges |->
                    [offset |-> ranges[i].offset, size |-> ranges[i].size]]
           P == [i \in DOMAIN landed |->
                    [range |-> landed[i].range, at |-> landed[i].at]]
           S == [range : Nat, at : Nat]
           L == [range : Nat, from : Nat, at : Nat]
<1> PICK c : c = cur + 1
  OBVIOUS
<1>1. /\ c \in DOMAIN ranges /\ c \in Nat /\ c >= 1 /\ c - 1 = cur /\ cur' = c
      /\ buf \in Nat /\ buf <= ranges[c].offset /\ ranges' = ranges
      /\ End(ranges[c]) = ranges[c].offset + ranges[c].size
  BY AtTurn
<1>2. ranges \in Seq(RangeType) /\ landed \in Seq(L) /\ landed' \in Seq(L)
  BY DEF IInv, FieldTypes
<1>3. /\ Len(R) = Len(ranges) /\ c \in 1..Len(ranges) /\ cur < Len(R)
      /\ R[c] = [offset |-> ranges[c].offset, size |-> ranges[c].size]
  <2>1. c \in 1..Len(ranges) /\ Len(ranges) \in Nat
    BY <1>1, <1>2
  <2> HIDE DEF R
  <2>2. Len(R) = Len(ranges) /\ R[c] = [offset |-> ranges[c].offset, size |-> ranges[c].size]
    BY <1>2, <2>1, Mapped DEF R
  <2> QED BY <1>1, <2>1, <2>2
<1>4. /\ buf' = AlignUp(o + n, a)
      /\ landed' = Append(landed, [range |-> c, from |-> buf, at |-> o])
  BY DEF Put
<1>5. /\ Len(landed') = Len(landed) + 1 /\ Len(landed) \in Nat
      /\ landed'[Len(landed) + 1] = [range |-> c, from |-> buf, at |-> o]
      /\ \A i \in 1..Len(landed) : landed'[i] = landed[i]
      /\ DOMAIN landed = 1..Len(landed) /\ DOMAIN landed' = 1..(Len(landed) + 1)
  <2>1. [range |-> c, from |-> buf, at |-> o] \in L
    BY <1>1
  <2> HIDE DEF L
  <2> QED BY <1>2, <1>4, <2>1
<1>6. o = ranges[c].offset
  <2>1. Landed' /\ Len(landed) + 1 \in DOMAIN landed'
    BY <1>5 DEF IInv
  <2> QED BY <1>1, <1>5, <2>1 DEF Landed
<1>7. buf' \in o..End(ranges[c])
  <2>1. buf' >= o /\ buf' \in Nat
    <3>1. o + n \in Nat /\ o + n >= o
      OBVIOUS
    <3>2. AlignUp(o + n, a) \in Nat /\ AlignUp(o + n, a) >= o + n
      BY <3>1, AlignUpType
    <3> QED BY <1>4, <3>1, <3>2
  <2>2. buf' <= End(ranges[c])
    <3>1. Progress'
      BY DEF IInv
    <3> QED BY <1>1, <3>1 DEF Progress, End
  <2>3. End(ranges[c]) \in Int
    BY <1>1, RangeTypes
  <2> QED BY <2>1, <2>2, <2>3
<1>8. P' = Append(P, [range |-> c, at |-> o])
  <2>1. P \in Seq(S) /\ Len(P) = Len(landed)
    <3> HIDE DEF L
    <3>1. \A i \in 1..Len(landed) : landed[i] \in L
      BY <1>2, ElementOfSeq
    <3> USE DEF L
    <3>2. \A i \in 1..Len(landed) : landed[i].range \in Nat /\ landed[i].at \in Nat
      BY <3>1
    <3> QED BY <1>5, <3>2
  <2>2. P' \in Seq(S) /\ Len(P') = Len(landed) + 1
    <3> HIDE DEF L
    <3>1. \A i \in 1..(Len(landed) + 1) : landed'[i] \in L
      BY <1>2, <1>5, ElementOfSeq
    <3> USE DEF L
    <3>2. \A i \in 1..(Len(landed) + 1) :
              landed'[i].range \in Nat /\ landed'[i].at \in Nat
      BY <3>1
    <3> QED BY <1>5, <3>2
  <2>3. \A i \in 1..Len(P) : P'[i] = P[i]
    BY <1>5, <2>1
  <2>4. P'[Len(P')] = [range |-> c, at |-> o]
    BY <1>5, <2>2
  <2> HIDE DEF P, S
  <2> QED BY <2>1, <2>2, <2>3, <2>4, Appended
<1>9. UNCHANGED R
  BY <1>1
<1> HIDE DEF P
<1> QED BY <1>1, <1>3, <1>6, <1>7, <1>8, <1>9 DEF FL!Put, FL!EndOf, P

(* A step of the second phase puts something, or passes over a section.    *)
Putting == \E k : Turn(k) /\ \E o \in Nat, n \in Nat, a \in Nat \ {0} : Put(o, n, a)
Passing == Turn("section") /\ UNCHANGED <<buf, landed>> /\ WriteSection(0)

LEMMA WritePuts ==
    ASSUME IInv, WriteNext PROVE Putting \/ Passing
<1>1. /\ 1 \in Nat \ {0} /\ fmt.file \in Nat \ {0} /\ buf \in Nat
      /\ DosSize \in Nat /\ nt_headers_offset \in Nat /\ reloc_offset \in Nat
  BY DEF IInv, TypeOK, FieldTypes, DosSize
<1>2. ASSUME NEW k, Turn(k)
      PROVE  /\ Current \in RangeType /\ Current.offset \in Nat /\ Current.size \in Nat
             /\ Current.align \in Nat \ {0}
  <2>1. Current \in RangeType
    BY <1>2, AtTurn
  <2> QED BY <2>1 DEF RangeType
<1>3. WriteDosHeader => Putting
  BY <1>1 DEF WriteDosHeader, Putting
<1>4. PadUntil => Putting
  BY <1>1, <1>2 DEF PadUntil, WriteCurrent, Putting
<1>5. WriteRaw => Putting
  <2>1. ASSUME Turn("raw") PROVE AlignUp(buf, Current.align) \in Nat
    BY <1>1, <1>2, <2>1, AlignUpType
  <2> QED BY <1>1, <1>2, <2>1 DEF WriteRaw, WriteCurrent, Putting
<1>6. WriteNtHeaders => Putting
  <2>1. NtSize + Len(data_directories) * DirSize \in Nat
    <3>1. Len(data_directories) \in Nat
      BY DEF IInv, FieldTypes
    <3> QED BY <3>1, NtSizeType, Product DEF DirSize
  <2> QED BY <1>1, <2>1 DEF WriteNtHeaders, Putting
<1>7. WriteSectionHeaders => Putting
  <2>1. Len(sections) * ShdrSize \in Nat
    BY DEF IInv, FieldTypes, ShdrSize
  <2> QED BY <1>1, <2>1 DEF WriteSectionHeaders, Putting
<1>8. WriteRelocSection => Putting
  <2>1. RelocSize(reloc_blocks, Len(reloc_blocks)) \in Nat
    BY RelocSizeType DEF IInv, FieldTypes
  <2> QED BY <1>1, <2>1 DEF WriteRelocSection, Putting
<1>9. WriteCertificateTable => Putting
  <2>1. ASSUME Turn("cert")
        PROVE  /\ data_directories[SECURITY + 1].address \in Nat
               /\ data_directories[SECURITY + 1].size \in Nat
    <3> PICK c : c = cur + 1
      OBVIOUS
    <3>1. ranges[c] \in RangeType /\ ranges[c].kind = "cert" /\ RangeFits(c)
      BY <2>1, AtTurn
    <3>2. data_directories[SECURITY + 1]
            = [address |-> ranges[c].offset, size |-> ranges[c].size]
      BY <3>1 DEF RangeFits
    <3>3. ranges[c].offset \in Nat /\ ranges[c].size \in Nat
      BY <3>1 DEF RangeType
    <3> QED BY <3>2, <3>3
  <2> QED BY <1>1, <2>1 DEF WriteCertificateTable, Putting
<1>10. ASSUME NEW n \in DataSizes \cup VirtualSizes, WriteSection(n)
       PROVE  Putting \/ Passing
  <2>1. Turn("section")
    BY <1>10 DEF WriteSection
  <2>2. n \in Nat
    BY ConstantsAssumption
  <2>3. CASE n = 0
    BY <1>10, <2>1, <2>3 DEF WriteSection, Passing
  <2>4. CASE n # 0
    <3>1. sections[Current.section].range.offset \in Nat
      <4>1. Current.section \in DOMAIN sections
        <5> PICK c : c = cur + 1
          OBVIOUS
        <5>1. Current = ranges[c] /\ ranges[c].kind = "section" /\ RangeFits(c)
          BY <2>1, AtTurn
        <5> QED BY <5>1 DEF RangeFits
      <4>2. sections[Current.section] \in SectionType
        BY <4>1, ElementOfSeq DEF IInv, FieldTypes
      <4> QED BY <4>2 DEF SectionType
    <3> QED BY <1>1, <1>10, <2>1, <2>2, <2>4, <3>1 DEF WriteSection, Putting
  <2> QED BY <2>3, <2>4
<1> QED BY <1>3, <1>4, <1>5, <1>6, <1>7, <1>8, <1>9, <1>10 DEF WriteNext

LEMMA LayoutWrite ==
    ASSUME IInv, IInv', WriteNext
    PROVE  FL!Put \/ FL!Skip
<1>1. CASE Putting
  BY <1>1, LayoutPut DEF Putting
<1>2. CASE Passing
  <2>1. cur' = cur + 1 /\ UNCHANGED <<ranges, buf, landed>> /\ cur < Len(ranges)
    BY <1>2 DEF Passing, Turn
  <2> DEFINE R == [i \in DOMAIN ranges |->
                      [offset |-> ranges[i].offset, size |-> ranges[i].size]]
  <2>2. Len(R) = Len(ranges)
    <3> HIDE DEF R
    <3> QED BY Mapped DEF R, IInv, FieldTypes
  <2> QED BY <2>1, <2>2 DEF FL!Skip
<1> QED BY <1>1, <1>2, WritePuts

(* The writer implements FileLayout: every range's piece is put where the  *)
(* first phase said, in order and within the range, and only a section     *)
(* without data is passed over.                                            *)
THEOREM Refines == Spec => ImplementsLayout
<1>1. Init => FL!Init
  BY DEF Init, FL!Init
<1>2. ASSUME IInv, IInv', [Next]_vars PROVE [FL!Next]_(FL!vars)
  <2>1. CASE UNCHANGED vars
    BY <2>1 DEF vars, writeVars, FL!vars
  <2>2. CASE UNCHANGED <<ranges, writeVars>>
    BY <2>2 DEF writeVars, FL!vars
  <2>3. CASE ReserveHeaderNext \/ ReserveExtraNext \/ ReserveDirectoryNext
             \/ ReserveSectionNext
    BY <1>2, <2>2, <2>3, ReserveShape, LayoutReserve DEF FL!Next
  <2>4. CASE WriteNext
    BY <1>2, <2>4, LayoutWrite DEF FL!Next
  <2> QED BY <1>2, <2>1, <2>3, <2>4 DEF Next
<1> QED BY <1>1, <1>2, Inductive, PTL DEF Spec, ImplementsLayout, FL!Spec

-------------------------------------------------------------------------------
(* What a reader makes of the image: the headers describe it, the contents *)
(* of the sections are in the file, and the data directories lead to       *)
(* theirs.                                                                 *)

(* The range with number j is the data of a section.                       *)
IsData(j) == ranges[j].kind \in {"section", "reloc"}

(* Of the sections ss: those with the contents C, their sizes in an image  *)
(* that aligns them to f, and whether a is the first address of those in S.*)
Of(C, ss) == {i \in DOMAIN ss : ContentOf[ss[i].kind] \in C}
Sizes(C, ss, f) ==
    [i \in DOMAIN ss |-> IF i \in Of(C, ss) THEN AlignUp(ss[i].range.vsize, f) ELSE 0]
IsLowest(a, S, ss) ==
    IF S = {} THEN a = 0
    ELSE \E i \in S : /\ a = ss[i].range.address
                      /\ \A j \in S : a <= ss[j].range.address

StatsAre(t, ss, f) ==
    /\ t \in [code_address : Nat, data_address : Nat, code : Nat, data : Nat, bss : Nat]
    /\ t.code = SumTo(Sizes({"code"}, ss, f), Len(ss))
    /\ t.data = SumTo(Sizes({"data"}, ss, f), Len(ss))
    /\ t.bss = SumTo(Sizes({"bss"}, ss, f), Len(ss))
    /\ IsLowest(t.code_address, Of({"code"}, ss), ss)
    /\ IsLowest(t.data_address, Of({"data", "bss"}, ss), ss)

StatsOk == StatsAre(stats, sections, fmt.file)

(* What has been kept of the section with number i.                        *)
SectionOk(i) ==
    LET s == sections[i].range k == sections[i].kind IN
    /\ s.fsize = AlignUp(sections[i].data, fmt.file)
    /\ s.fsize # 0 => \E j \in DOMAIN ranges : IsData(j) /\ ranges[j].section = i
    /\ k \in DOMAIN DirectoryOf =>
         /\ DirectoryOf[k] < Len(data_directories)
         /\ data_directories[DirectoryOf[k] + 1] = [address |-> s.address, size |-> s.vsize]
         /\ sections[i].data = s.vsize

(* What the range with number j is for, beyond RangeFits.                  *)
RangeOk(j) ==
    LET r == ranges[j] IN
    /\ r.kind = "shdrs" => End(r) <= headers_len
    /\ IsData(j) =>
         /\ r.section \in DOMAIN sections
         /\ r.offset = sections[r.section].range.offset
         /\ r.size = sections[r.section].range.fsize

HeadersOk ==
    /\ Len(data_directories) = 0 \/ Len(data_directories) \in Directories
    /\ headers_len # 0 /\ section_header_num # 0 =>
         \E i \in DOMAIN ranges : ranges[i].kind = "shdrs"

(* The contents of the section of the range with number j are in the file. *)
Written(j) ==
    LET s == sections[ranges[j].section].range IN
    Readable(s) # 0 => /\ s.offset + Readable(s) <= buf
                       /\ \E i \in DOMAIN landed : landed[i].range = j

Headers == [i \in DOMAIN sections |-> sections[i].range]

ImageOk ==
    /\ cur # 0 => Reserved
    /\ cur = 0 => image.headers = <<>>
    /\ image.nt \in {<<>>, <<NtHeaders>>}
    /\ image.headers \in {<<>>, Headers}
    /\ \A j \in 1..cur :
         /\ ranges[j].kind = "shdrs" => image.headers = Headers
         /\ IsData(j) => Written(j)

RInv ==
    /\ HeadersOk /\ StatsOk /\ ImageOk
    /\ \A i \in DOMAIN sections : SectionOk(i)
    /\ \A j \in DOMAIN ranges : RangeOk(j)

-------------------------------------------------------------------------------
(* What follows from both invariants *)

(* A section lies behind the headers in memory: its address is not 0.      *)
LEMMA SectionFacts ==
    ASSUME IInv, NEW i \in DOMAIN sections
    PROVE  LET s == sections[i].range IN
           /\ s.address \in Nat \ {0} /\ s.vsize \in Nat /\ s.fsize \in Nat
           /\ s.offset \in Nat /\ sections[i].data \in Nat /\ sections[i].kind \in Kinds
           /\ i \in Nat /\ i >= 1 /\ i <= Len(sections) /\ Len(sections) \in Nat
           /\ headers_len # 0
<1>1. sections \in Seq(SectionType)
  BY DEF IInv, FieldTypes
<1>2. sections[i] \in SectionType /\ i \in 1..Len(sections) /\ Len(sections) \in Nat
  BY <1>1, ElementOfSeq
<1>3. headers_len \in Nat /\ headers_len # 0 /\ sections[i].range.address >= headers_len
  BY <1>1, <1>2 DEF IInv, TypeOK, Stages, SectionsApart
<1> QED BY <1>2, <1>3 DEF SectionType

LEMMA NothingWritten ==
    ASSUME IInv, RInv, cur = 0, UNCHANGED writeVars PROVE ImageOk'
<1>1. image.nt = <<>> /\ image.headers = <<>>
  BY DEF IInv, Progress, RInv, ImageOk
<1>2. cur' = 0 /\ image' = image
  BY DEF writeVars
<1> QED BY <1>1, <1>2 DEF ImageOk

(* The sizes and addresses go by the sections alone.                       *)
LEMMA StatsKept ==
    ASSUME RInv, UNCHANGED <<fmt, sections, stats>> PROVE StatsOk'
BY DEF RInv, StatsOk

LEMMA SectionKept ==
    ASSUME IInv, RInv, NEW i \in DOMAIN sections, fmt' = fmt,
           sections'[i] = sections[i], DirectoriesStay,
           \A j \in DOMAIN ranges : j \in DOMAIN ranges' /\ ranges'[j] = ranges[j]
    PROVE  SectionOk(i)'
<1> DEFINE s == sections[i].range
           d == DirectoryOf[sections[i].kind]
<1>1. SectionOk(i) /\ s.address # 0
  BY SectionFacts DEF RInv
<1>2. s.fsize # 0 => \E j \in DOMAIN ranges' : IsData(j)' /\ ranges'[j].section = i
  <2> SUFFICES ASSUME s.fsize # 0
               PROVE  \E j \in DOMAIN ranges' : IsData(j)' /\ ranges'[j].section = i
    OBVIOUS
  <2>1. PICK j \in DOMAIN ranges : IsData(j) /\ ranges[j].section = i
    BY <1>1 DEF SectionOk
  <2>2. j \in DOMAIN ranges' /\ IsData(j)' /\ ranges'[j].section = i
    BY <2>1 DEF IsData
  <2> QED BY <2>2
<1>3. ASSUME sections[i].kind \in DOMAIN DirectoryOf
      PROVE  /\ d < Len(data_directories')
             /\ data_directories'[d + 1] = [address |-> s.address, size |-> s.vsize]
  <2>1. /\ d < Len(data_directories)
        /\ data_directories[d + 1] = [address |-> s.address, size |-> s.vsize]
    BY <1>1, <1>3 DEF SectionOk
  <2>2. d \in Nat
    BY <1>3 DEF DirectoryOf
  <2> HIDE DEF d
  <2>3. Len(data_directories) \in Nat /\ d + 1 \in 1..Len(data_directories)
    <3>1. data_directories \in Seq([address : Nat, size : Nat])
      BY DEF IInv, FieldTypes
    <3>2. PICK n \in Nat : n = Len(data_directories)
      BY <3>1
    <3>3. d < n
      BY <2>1, <3>2
    <3> QED BY <2>2, <3>2, <3>3
  <2>4. data_directories[d + 1].address # 0
    BY <1>1, <2>1
  <2> QED BY <2>1, <2>3, <2>4 DEF DirectoriesStay
<1> QED BY <1>1, <1>2, <1>3 DEF SectionOk

LEMMA RangeKept ==
    ASSUME RInv, NEW j \in DOMAIN ranges, ranges'[j] = ranges[j],
           ranges[j].kind = "shdrs" => headers_len' = headers_len,
           \A i \in DOMAIN sections : i \in DOMAIN sections' /\ sections'[i] = sections[i]
    PROVE  RangeOk(j)'
BY DEF RInv, RangeOk, IsData, End

-------------------------------------------------------------------------------
(* The steps of the first phase *)

LEMMA RangeAppended ==
    ASSUME IInv, NEW r, ranges' = Append(ranges, r)
    PROVE  /\ \A j \in DOMAIN ranges : j \in DOMAIN ranges' /\ ranges'[j] = ranges[j]
           /\ DOMAIN ranges' = DOMAIN ranges \cup {Len(ranges) + 1}
           /\ ranges'[Len(ranges) + 1] = r /\ Len(ranges) + 1 \in DOMAIN ranges'
<1>1. ranges \in Seq(RangeType) /\ Len(ranges) \in Nat
  BY DEF IInv, FieldTypes
<1>2. DOMAIN ranges = 1..Len(ranges) /\ DOMAIN ranges' = 1..(Len(ranges) + 1)
  BY <1>1
<1>3. \A j \in 1..Len(ranges) : ranges'[j] = ranges[j]
  BY <1>1
<1>4. ranges'[Len(ranges) + 1] = r
  BY <1>1
<1>5. /\ 1..(Len(ranges) + 1) = (1..Len(ranges)) \cup {Len(ranges) + 1}
      /\ Len(ranges) + 1 \in 1..(Len(ranges) + 1)
  BY <1>1
<1> QED BY <1>2, <1>3, <1>4, <1>5

(* Those that reserve neither section headers nor a section.               *)
LEMMA OtherReserved ==
    ASSUME IInv, RInv, cur = 0, UNCHANGED writeVars, DirectoriesStay,
           UNCHANGED <<fmt, sections, stats, headers_len, section_header_num>>,
           \/ UNCHANGED ranges
           \/ \E r : /\ ranges' = Append(ranges, r)
                     /\ r.kind \notin {"shdrs", "section", "reloc"}
    PROVE  RInv'
<1>1. /\ \A j \in DOMAIN ranges : j \in DOMAIN ranges' /\ ranges'[j] = ranges[j]
      /\ \A j \in DOMAIN ranges' :
           j \in DOMAIN ranges \/ ranges'[j].kind \notin {"shdrs", "section", "reloc"}
  <2>1. CASE UNCHANGED ranges
    BY <2>1
  <2>2. ASSUME NEW r, ranges' = Append(ranges, r),
               r.kind \notin {"shdrs", "section", "reloc"}
        PROVE  /\ \A j \in DOMAIN ranges : j \in DOMAIN ranges' /\ ranges'[j] = ranges[j]
               /\ \A j \in DOMAIN ranges' :
                    \/ j \in DOMAIN ranges
                    \/ ranges'[j].kind \notin {"shdrs", "section", "reloc"}
    BY <2>2, RangeAppended
  <2> QED BY <2>1, <2>2
<1>2. ImageOk' /\ StatsOk'
  BY NothingWritten, StatsKept
<1>3. \A i \in DOMAIN sections' : SectionOk(i)'
  BY <1>1, SectionKept
<1>4. ASSUME NEW j \in DOMAIN ranges' PROVE RangeOk(j)'
  <2>1. CASE j \in DOMAIN ranges
    BY <1>1, <2>1, RangeKept
  <2>2. CASE j \notin DOMAIN ranges
    <3>1. ranges'[j].kind \notin {"shdrs", "section", "reloc"}
      BY <1>1, <2>2
    <3> QED BY <3>1 DEF RangeOk, IsData
  <2> QED BY <2>1, <2>2
<1>5. HeadersOk'
  BY <1>1 DEF RInv, HeadersOk, DirectoriesStay
<1> QED BY <1>2, <1>3, <1>4, <1>5 DEF RInv

LEMMA ReaderDos == ASSUME IInv, RInv, ReserveDosHeader PROVE RInv'
<1>1. len = 0 /\ Reserve("dos", DosSize, 1, 0) /\ OnlyReserved
  BY DEF ReserveDosHeader
<1>2. cur = 0
  <2>1. ranges = <<>>
    BY <1>1 DEF IInv, Stages, DosSize
  <2> QED BY <2>1 DEF IInv, TypeOK
<1>3. PICK r : r = FileRange("dos", AlignUp(len, 1), DosSize, 1, 0)
  OBVIOUS
<1>4. ranges' = Append(ranges, r) /\ r.kind = "dos"
  BY <1>1, <1>3 DEF Reserve, FileRange
<1>5. DirectoriesStay
  BY <1>1 DEF OnlyReserved, DirectoriesStay
<1> QED BY <1>1, <1>2, <1>4, <1>5, OtherReserved DEF OnlyReserved

LEMMA ReaderRaw == ASSUME IInv, RInv, NEW n, NEW a, ReserveRaw(n, a) PROVE RInv'
<1>1. cur = 0 /\ Reserve("raw", n, a, 0) /\ OnlyReserved
  BY DEF ReserveRaw, ReserveExtra, Reserving
<1>2. PICK r : r = FileRange("raw", AlignUp(len, a), n, a, 0)
  OBVIOUS
<1>3. ranges' = Append(ranges, r) /\ r.kind = "raw"
  BY <1>1, <1>2 DEF Reserve, FileRange
<1>4. DirectoriesStay
  BY <1>1 DEF OnlyReserved, DirectoriesStay
<1> QED BY <1>1, <1>3, <1>4, OtherReserved DEF OnlyReserved

LEMMA ReaderUntil == ASSUME IInv, RInv, NEW n, ReserveUntil(n) PROVE RInv'
<1>1. cur = 0 /\ Reserve("until", n, 1, 0) /\ OnlyReserved
  BY DEF ReserveUntil, ReserveExtra, Reserving
<1>2. PICK r : r = FileRange("until", AlignUp(len, 1), n, 1, 0)
  OBVIOUS
<1>3. ranges' = Append(ranges, r) /\ r.kind = "until"
  BY <1>1, <1>2 DEF Reserve, FileRange
<1>4. DirectoriesStay
  BY <1>1 DEF OnlyReserved, DirectoriesStay
<1> QED BY <1>1, <1>3, <1>4, OtherReserved DEF OnlyReserved

LEMMA ReaderCertificate ==
    ASSUME IInv, RInv, NEW n \in Nat, ReserveCertificateTable(n) PROVE RInv'
<1>1. len \in Nat /\ AlignUp(n, 8) \in Nat /\ AlignUp(len, 8) \in Nat
  BY AlignUpType DEF IInv, TypeOK
<1>2. PICK size \in Nat : size = AlignUp(n, 8)
  BY <1>1
<1>3. PICK o \in Nat : o = AlignUp(len, 8)
  BY <1>1
<1>4. /\ cur = 0 /\ Reserve("cert", size, 8, 0) /\ Unset(SECURITY)
      /\ data_directories' = WithDirectory(SECURITY, o, size)
      /\ UNCHANGED <<fmt, headers_len, stats, section_header_num, sections, writeVars>>
  BY <1>2, <1>3 DEF ReserveCertificateTable, ReserveExtra, Reserving
<1>5. DirectoriesStay
  BY <1>4, DirectorySet DEF SECURITY
<1>6. PICK r : r = FileRange("cert", AlignUp(len, 8), size, 8, 0)
  OBVIOUS
<1>7. ranges' = Append(ranges, r) /\ r.kind = "cert"
  BY <1>4, <1>6 DEF Reserve, FileRange
<1> QED BY <1>4, <1>5, <1>7, OtherReserved

LEMMA ReaderDirectory ==
    ASSUME IInv, RInv, NEW d \in Nat, NEW a \in Nat, NEW n \in Nat,
           SetDataDirectory(d, a, n)
    PROVE  RInv'
<1>1. /\ cur = 0 /\ Unset(d) /\ data_directories' = WithDirectory(d, a, n)
      /\ UNCHANGED <<fmt, headers_len, stats, section_header_num, sections, ranges,
                     writeVars>>
  BY DEF SetDataDirectory
<1>2. DirectoriesStay
  BY <1>1, DirectorySet
<1> QED BY <1>1, <1>2, OtherReserved

LEMMA ReaderVirtual == ASSUME IInv, RInv, NEW n, ReserveVirtual(n) PROVE RInv'
<1>1. /\ cur = 0 /\ DirectoriesStay
      /\ UNCHANGED <<fmt, headers_len, stats, section_header_num, sections, ranges,
                     writeVars>>
  BY DEF ReserveVirtual, DirectoriesStay
<1> QED BY <1>1, OtherReserved

LEMMA ReaderReloc == ASSUME IInv, RInv, NEW a, NEW t, AddReloc(a, t) PROVE RInv'
<1>1. /\ cur = 0 /\ DirectoriesStay
      /\ UNCHANGED <<fmt, headers_len, stats, section_header_num, sections, ranges,
                     writeVars>>
  BY DEF AddReloc, DirectoriesStay, layoutVars
<1> QED BY <1>1, OtherReserved

(* There are no sections yet, nor directories.                             *)
LEMMA ReaderNt == ASSUME IInv, RInv, NEW n \in Directories, ReserveNtHeaders(n) PROVE RInv'
<1>1. /\ cur = 0 /\ nt_headers_offset = 0 /\ Reserve("nt", NtSize + n * DirSize, 8, 0)
      /\ data_directories' = [d \in 1..n |-> [address |-> 0, size |-> 0]]
      /\ UNCHANGED <<fmt, headers_len, stats, section_header_num, sections, writeVars>>
  BY DEF ReserveNtHeaders, Reserving
<1>2. headers_len = 0 /\ sections = <<>>
  BY <1>1 DEF IInv, Stages
<1>3. PICK r : r = FileRange("nt", AlignUp(len, 8), NtSize + n * DirSize, 8, 0)
  OBVIOUS
<1>4. ranges' = Append(ranges, r) /\ r.kind = "nt"
  BY <1>1, <1>3 DEF Reserve, FileRange
<1>5. HeadersOk'
  <2>1. n \in Nat
    BY ConstantsAssumption
  <2>2. Len(data_directories') = n
    BY <1>1, <2>1
  <2> QED BY <1>1, <1>2, <2>2 DEF HeadersOk
<1>6. \A i \in DOMAIN sections' : SectionOk(i)'
  BY <1>1, <1>2
<1>7. ASSUME NEW j \in DOMAIN ranges' PROVE RangeOk(j)'
  <2>1. CASE j \in DOMAIN ranges
    BY <1>1, <1>4, <2>1, RangeAppended, RangeKept
  <2>2. CASE j \notin DOMAIN ranges
    <3>1. ranges'[j].kind = "nt"
      BY <1>4, <2>2, RangeAppended
    <3> QED BY <3>1 DEF RangeOk, IsData
  <2> QED BY <2>1, <2>2
<1>8. ImageOk' /\ StatsOk'
  BY <1>1, NothingWritten, StatsKept
<1> QED BY <1>5, <1>6, <1>7, <1>8 DEF RInv

LEMMA ReaderSectionHeaders ==
    ASSUME IInv, RInv, NEW n \in 0..MaxSections, ReserveSectionHeaders(n) PROVE RInv'
<1> PICK h : h = HeadersLen(n)
  OBVIOUS
<1>1. /\ nt_headers_offset # 0 /\ headers_len = 0 /\ cur = 0
      /\ section_header_num' = n /\ headers_len' = h
      /\ ranges' = IF n = 0 THEN ranges
                   ELSE Append(ranges, FileRange("shdrs", len, n * ShdrSize, 1, 0))
      /\ UNCHANGED <<fmt, stats, data_directories, sections, writeVars>>
  BY DEF ReserveSectionHeaders, HeadersReserved
<1>2. sections = <<>> /\ \A j \in DOMAIN ranges : ranges[j].kind # "shdrs"
  BY <1>1 DEF IInv, Stages
<1>3. ImageOk' /\ StatsOk'
  BY <1>1, NothingWritten, StatsKept
<1>4. \A i \in DOMAIN sections' : SectionOk(i)'
  BY <1>1, <1>2
<1>5. n \in Nat /\ len + n * ShdrSize \in Nat /\ fmt.file \in Nat \ {0}
  <2>1. n \in Nat
    BY ConstantsAssumption
  <2> QED BY <2>1, SMTT(30), ZenonT(30) DEF IInv, TypeOK, FieldTypes, ShdrSize
<1>6. len + n * ShdrSize <= h
  BY <1>5, AlignUpType DEF HeadersLen
<1>7. CASE n = 0
  <2>1. HeadersOk'
    BY <1>1, <1>7 DEF RInv, HeadersOk
  <2>2. \A j \in DOMAIN ranges' : RangeOk(j)'
    BY <1>1, <1>2, <1>7, RangeKept
  <2> QED BY <1>3, <1>4, <2>1, <2>2 DEF RInv
<1>8. CASE n # 0
  <2>1. PICK r : r = FileRange("shdrs", len, n * ShdrSize, 1, 0)
    OBVIOUS
  <2>2. /\ ranges' = Append(ranges, r) /\ r.kind = "shdrs"
        /\ r.offset = len /\ r.size = n * ShdrSize
    BY <1>1, <1>8, <2>1 DEF FileRange
  <2>3. HeadersOk'
    BY <1>1, <2>2, RangeAppended DEF RInv, HeadersOk
  <2>4. ASSUME NEW j \in DOMAIN ranges' PROVE RangeOk(j)'
    <3>1. CASE j \in DOMAIN ranges
      BY <1>1, <1>2, <2>2, <3>1, RangeAppended, RangeKept
    <3>2. CASE j \notin DOMAIN ranges
      <4>1. ranges'[j] = r
        BY <2>2, <3>2, RangeAppended
      <4>2. End(r) <= headers_len'
        BY <1>1, <1>6, <2>2 DEF End
      <4> QED BY <2>2, <4>1, <4>2 DEF RangeOk, IsData, End
    <3> QED BY <3>1, <3>2
  <2> QED BY <1>3, <1>4, <2>3, <2>4 DEF RInv
<1> QED BY <1>7, <1>8

-------------------------------------------------------------------------------
(* A section is added *)

(* What the section e adds to the size of the sections with the contents C.*)
Share(e, C, f) == IF ContentOf[e.kind] \in C THEN AlignUp(e.range.vsize, f) ELSE 0

(* The sections tt are the n sections ss and e.                            *)
IsAppended(tt, ss, e, n) ==
    ss \in Seq(SectionType) /\ e \in SectionType /\ n = Len(ss) /\ tt = Append(ss, e)

LEMMA OfAppended ==
    ASSUME NEW tt, NEW ss, NEW e, NEW n, IsAppended(tt, ss, e, n), NEW C
    PROVE  /\ Of(C, ss) \subseteq 1..n
           /\ ContentOf[e.kind] \in C => Of(C, tt) = Of(C, ss) \cup {n + 1}
           /\ ContentOf[e.kind] \notin C => Of(C, tt) = Of(C, ss)
<1>1. /\ n \in Nat /\ DOMAIN ss = 1..n /\ DOMAIN tt = 1..(n + 1)
      /\ tt[n + 1] = e /\ \A i \in 1..n : tt[i] = ss[i]
  BY DEF IsAppended
<1>2. 1..(n + 1) = (1..n) \cup {n + 1} /\ n + 1 \notin 1..n
  BY <1>1
<1> QED BY <1>1, <1>2 DEF Of

LEMMA SizesAppended ==
    ASSUME NEW tt, NEW ss, NEW e, NEW n, IsAppended(tt, ss, e, n), NEW C,
           NEW f \in Nat \ {0}
    PROVE  SumTo(Sizes(C, tt, f), n + 1) = SumTo(Sizes(C, ss, f), n) + Share(e, C, f)
<1> PICK d : d = Sizes(C, ss, f)
  OBVIOUS
<1> PICK g : g = Sizes(C, tt, f)
  OBVIOUS
<1>0. ss \in Seq(SectionType) /\ e \in SectionType /\ n = Len(ss) /\ tt = Append(ss, e)
  BY DEF IsAppended
<1>1. /\ n \in Nat /\ DOMAIN ss = 1..n /\ DOMAIN tt = 1..(n + 1)
      /\ tt[n + 1] = e /\ \A i \in 1..n : tt[i] = ss[i]
  BY <1>0
<1>2. n \in Nat
  BY <1>1
<1>3. n + 1 \notin 1..n /\ \A i \in 1..n : i \in 1..(n + 1) /\ i # n + 1
  BY <1>1
<1>4. \A i \in 1..n : ss[i].range.vsize \in Nat
  <2>1. \A i \in 1..n : ss[i] \in SectionType
    BY <1>0, ElementOfSeq
  <2> QED BY <2>1 DEF SectionType
<1>5. e.range.vsize \in Nat
  BY <1>0 DEF SectionType
<1>6. \A i \in 1..n : d[i] \in Nat /\ g[i] = d[i]
  <2> SUFFICES ASSUME NEW i \in 1..n PROVE d[i] \in Nat /\ g[i] = d[i]
    OBVIOUS
  <2>2. i \in DOMAIN ss /\ i \in DOMAIN tt /\ tt[i] = ss[i]
    BY <1>1, <1>3
  <2>1. i \in Of(C, tt) <=> i \in Of(C, ss)
    BY <2>2, Zenon DEF Of
  <2>3. d[i] = IF i \in Of(C, ss) THEN AlignUp(ss[i].range.vsize, f) ELSE 0
    BY <2>2, Zenon DEF Sizes
  <2>4. g[i] = IF i \in Of(C, tt) THEN AlignUp(tt[i].range.vsize, f) ELSE 0
    BY <2>2, Zenon DEF Sizes
  <2>5. AlignUp(ss[i].range.vsize, f) \in Nat
    BY <1>4, AlignUpType
  <2> QED BY <2>1, <2>2, <2>3, <2>4, <2>5
<1>7. /\ g[n + 1] = Share(e, C, f)
      /\ g[n + 1] \in Nat
  <2>1. n + 1 \in DOMAIN tt /\ tt[n + 1] = e
    BY <1>1
  <2>2. g[n + 1] = IF n + 1 \in Of(C, tt) THEN AlignUp(tt[n + 1].range.vsize, f) ELSE 0
    BY <2>1, Zenon DEF Sizes
  <2>3. n + 1 \in Of(C, tt) <=> ContentOf[e.kind] \in C
    BY <2>1, Zenon DEF Of
  <2>4. AlignUp(e.range.vsize, f) \in Nat
    BY <1>5, AlignUpType
  <2> QED BY <2>1, <2>2, <2>3, <2>4 DEF Share
<1>8. g[n + 1] \in Nat
  BY <1>7
<1>9. SumTo(g, n + 1) = SumTo(d, n) + g[n + 1]
  BY <1>2, <1>6, <1>8, SumToExtends
<1> QED BY <1>7, <1>9

(* Sections ascend in memory: the first address of a content stays.        *)
LEMMA LowestAppended ==
    ASSUME NEW ss \in Seq(SectionType), NEW e \in SectionType, NEW S, NEW a,
           NEW n, n = Len(ss), NEW tt, tt = Append(ss, e), S \subseteq 1..n,
           IsLowest(a, S, ss), e.range.address # 0,
           \A i \in 1..n : /\ ss[i].range.address # 0
                           /\ ss[i].range.address <= e.range.address
    PROVE  /\ IsLowest(a, S, tt)
           /\ IsLowest(IF a = 0 THEN e.range.address ELSE a, S \cup {n + 1}, tt)
<1> PICK c : c = e.range.address
  OBVIOUS
<1>1. /\ n \in Nat /\ tt[n + 1] = e /\ \A i \in 1..n : tt[i] = ss[i]
  OBVIOUS
<1>2. c \in Nat /\ \A i \in 1..n : ss[i].range.address \in Nat
  <2>1. \A i \in 1..n : ss[i] \in SectionType
    BY ElementOfSeq
  <2> QED BY <2>1 DEF SectionType
<1>3. IsLowest(a, S, tt)
  BY <1>1 DEF IsLowest
<1>4. CASE S = {}
  <2>1. a = 0 /\ S \cup {n + 1} = {n + 1}
    BY <1>4 DEF IsLowest
  <2>2. IsLowest(c, {n + 1}, tt)
    BY <1>1, <1>2 DEF IsLowest
  <2> QED BY <1>3, <2>1, <2>2
<1>5. CASE S # {}
  <2>1. PICK i \in S : /\ a = ss[i].range.address
                       /\ \A j \in S : a <= ss[j].range.address
    BY <1>5 DEF IsLowest
  <2>2. a # 0 /\ a <= c /\ i \in S \cup {n + 1} /\ a = tt[i].range.address
    BY <1>1, <2>1
  <2>3. \A j \in S \cup {n + 1} : a <= tt[j].range.address
    BY <1>1, <2>1, <2>2
  <2>4. IsLowest(a, S \cup {n + 1}, tt)
    BY <2>2, <2>3 DEF IsLowest
  <2> QED BY <1>3, <2>2, <2>4
<1> QED BY <1>4, <1>5

LEMMA LowestType ==
    ASSUME NEW ss \in Seq(SectionType), NEW S, NEW a, S \subseteq DOMAIN ss, IsLowest(a, S, ss)
    PROVE  a \in Nat
<1>1. \A i \in DOMAIN ss : ss[i] \in SectionType
  OBVIOUS
<1>2. \A i \in DOMAIN ss : ss[i].range.address \in Nat
  BY <1>1 DEF SectionType
<1> QED BY <1>2 DEF IsLowest

(* What StatsWith makes of them, for each content.                         *)
Grown(t, c, address, n) ==
    LET First(old) == IF old = 0 THEN address ELSE old IN
    [code_address |-> IF c = "code" THEN First(t.code_address) ELSE t.code_address,
     data_address |-> IF c \in {"data", "bss"} THEN First(t.data_address)
                      ELSE t.data_address,
     code |-> t.code + (IF c = "code" THEN n ELSE 0),
     data |-> t.data + (IF c = "data" THEN n ELSE 0),
     bss  |-> t.bss + (IF c = "bss" THEN n ELSE 0)]

LEMMA StatsGrow ==
    ASSUME NEW ss \in Seq(SectionType), NEW e \in SectionType, NEW f \in Nat \ {0},
           NEW t, StatsAre(t, ss, f), NEW n, n = Len(ss), NEW tt, tt = Append(ss, e),
           e.range.address # 0,
           \A i \in 1..n : /\ ss[i].range.address # 0
                           /\ ss[i].range.address <= e.range.address,
           NEW u, u = Grown(t, ContentOf[e.kind], e.range.address, AlignUp(e.range.vsize, f))
    PROVE  StatsAre(u, tt, f)
<1> PICK c : c = ContentOf[e.kind]
  OBVIOUS
<1> PICK a : a = e.range.address
  OBVIOUS
<1> PICK z : z = AlignUp(e.range.vsize, f)
  OBVIOUS
<1>1. a \in Nat /\ z \in Nat
  <2>1. e.range.address \in Nat /\ e.range.vsize \in Nat
    BY DEF SectionType
  <2> QED BY <2>1, AlignUpType
<1>2. /\ t.code_address \in Nat /\ t.data_address \in Nat /\ t.code \in Nat
      /\ t.data \in Nat /\ t.bss \in Nat
  BY DEF StatsAre
<1>3. /\ u.code_address = IF c = "code" /\ t.code_address = 0 THEN a ELSE t.code_address
      /\ u.data_address = IF c \in {"data", "bss"} /\ t.data_address = 0 THEN a
                          ELSE t.data_address
      /\ u.code = t.code + (IF c = "code" THEN z ELSE 0)
      /\ u.data = t.data + (IF c = "data" THEN z ELSE 0)
      /\ u.bss = t.bss + (IF c = "bss" THEN z ELSE 0)
      /\ u = [code_address |-> u.code_address, data_address |-> u.data_address,
              code |-> u.code, data |-> u.data, bss |-> u.bss]
  BY DEF Grown
<1>4. u \in [code_address : Nat, data_address : Nat, code : Nat, data : Nat, bss : Nat]
  <2>1. /\ u.code_address \in Nat /\ u.data_address \in Nat /\ u.code \in Nat
        /\ u.data \in Nat /\ u.bss \in Nat
    BY <1>1, <1>2, <1>3
  <2> QED BY <1>3, <2>1
<1>5. n \in Nat /\ Len(tt) = n + 1 /\ IsAppended(tt, ss, e, n)
  BY DEF IsAppended
<1>6. \A C : SumTo(Sizes(C, tt, f), n + 1) = SumTo(Sizes(C, ss, f), n) + Share(e, C, f)
  BY <1>5, SizesAppended
<1>7. /\ t.code = SumTo(Sizes({"code"}, ss, f), n)
      /\ t.data = SumTo(Sizes({"data"}, ss, f), n)
      /\ t.bss = SumTo(Sizes({"bss"}, ss, f), n)
      /\ IsLowest(t.code_address, Of({"code"}, ss), ss)
      /\ IsLowest(t.data_address, Of({"data", "bss"}, ss), ss)
  BY DEF StatsAre
<1>8. /\ u.code = SumTo(Sizes({"code"}, tt, f), Len(tt))
      /\ u.data = SumTo(Sizes({"data"}, tt, f), Len(tt))
      /\ u.bss = SumTo(Sizes({"bss"}, tt, f), Len(tt))
  <2>1. SumTo(Sizes({"code"}, tt, f), n + 1) = t.code + (IF c = "code" THEN z ELSE 0)
    BY <1>6, <1>7 DEF Share
  <2>2. SumTo(Sizes({"data"}, tt, f), n + 1) = t.data + (IF c = "data" THEN z ELSE 0)
    BY <1>6, <1>7 DEF Share
  <2>3. SumTo(Sizes({"bss"}, tt, f), n + 1) = t.bss + (IF c = "bss" THEN z ELSE 0)
    BY <1>6, <1>7 DEF Share
  <2> QED BY <1>3, <1>5, <2>1, <2>2, <2>3
<1>9. ASSUME NEW C, NEW b, IsLowest(b, Of(C, ss), ss)
      PROVE  IsLowest(IF c \in C /\ b = 0 THEN a ELSE b, Of(C, tt), tt)
  <2>1. /\ Of(C, ss) \subseteq 1..n
        /\ c \in C => Of(C, tt) = Of(C, ss) \cup {n + 1}
        /\ c \notin C => Of(C, tt) = Of(C, ss)
    BY <1>5, OfAppended
  <2>2. PICK S : S = Of(C, ss)
    OBVIOUS
  <2>3. S \subseteq 1..n /\ IsLowest(b, S, ss)
    BY <1>9, <2>1, <2>2
  <2>4. /\ IsLowest(b, S, tt)
        /\ IsLowest(IF b = 0 THEN e.range.address ELSE b, S \cup {n + 1}, tt)
    BY <2>3, LowestAppended
  <2>5. CASE c \in C
    <3>1. Of(C, tt) = S \cup {n + 1}
      BY <2>1, <2>2, <2>5
    <3> QED BY <2>4, <2>5, <3>1
  <2>6. CASE c \notin C
    <3>1. Of(C, tt) = S
      BY <2>1, <2>2, <2>6
    <3> QED BY <2>4, <2>6, <3>1
  <2> QED BY <2>5, <2>6
<1>10. IsLowest(u.code_address, Of({"code"}, tt), tt)
  <2>1. IsLowest(IF c \in {"code"} /\ t.code_address = 0 THEN a ELSE t.code_address,
                 Of({"code"}, tt), tt)
    BY <1>7, <1>9
  <2>2. u.code_address =
          IF c \in {"code"} /\ t.code_address = 0 THEN a ELSE t.code_address
    BY <1>3
  <2> QED BY <2>1, <2>2
<1>11. IsLowest(u.data_address, Of({"data", "bss"}, tt), tt)
  <2>1. IsLowest(IF c \in {"data", "bss"} /\ t.data_address = 0 THEN a ELSE t.data_address,
                 Of({"data", "bss"}, tt), tt)
    BY <1>7, <1>9
  <2> QED BY <1>3, <2>1
<1> QED BY <1>4, <1>8, <1>10, <1>11 DEF StatsAre

LEMMA StatsWithGrows ==
    ASSUME stats \in [code_address : Nat, data_address : Nat, code : Nat, data : Nat, bss : Nat],
           fmt.file \in Nat \ {0}, NEW vs \in Nat,
           NEW c, c \in {"code", "data", "bss", "none"}, NEW a
    PROVE  StatsWith(c, a, vs) = Grown(stats, c, a, AlignUp(vs, fmt.file))
<1>1. PICK z \in Nat : z = AlignUp(vs, fmt.file)
  BY AlignUpType
<1>2. /\ stats.code + 0 = stats.code /\ stats.data + 0 = stats.data
      /\ stats.bss + 0 = stats.bss
  OBVIOUS
<1>3. stats = [code_address |-> stats.code_address, data_address |-> stats.data_address,
               code |-> stats.code, data |-> stats.data, bss |-> stats.bss]
  OBVIOUS
<1>4. CASE c = "code"
  BY <1>1, <1>2, <1>3, <1>4 DEF StatsWith, Grown
<1>5. CASE c = "data"
  BY <1>1, <1>2, <1>3, <1>5 DEF StatsWith, Grown
<1>6. CASE c = "bss"
  BY <1>1, <1>2, <1>3, <1>6 DEF StatsWith, Grown
<1>7. CASE c = "none"
  BY <1>1, <1>2, <1>3, <1>7 DEF StatsWith, Grown
<1> QED BY <1>4, <1>5, <1>6, <1>7

LEMMA SectionStats ==
    ASSUME IInv, RInv, NEW k \in Kinds, NEW vs \in Nat, headers_len # 0,
           NEW e \in SectionType, e.kind = k, e.range.address = virtual_len,
           e.range.vsize = vs, sections' = Append(sections, e), fmt' = fmt,
           stats' = StatsWith(ContentOf[k], virtual_len, vs)
    PROVE  StatsOk'
<1> PICK n : n = Len(sections)
  OBVIOUS
<1>1. sections \in Seq(SectionType) /\ fmt.file \in Nat \ {0} /\ DOMAIN sections = 1..n
  BY DEF IInv, FieldTypes
<1>2. virtual_len \in Nat \ {0}
  BY DEF IInv, TypeOK, Stages
<1>3. StatsAre(stats, sections, fmt.file)
  BY DEF RInv, StatsOk
<1>4. stats \in [code_address : Nat, data_address : Nat, code : Nat, data : Nat, bss : Nat]
  BY <1>3 DEF StatsAre
<1>5. ContentOf[e.kind] \in {"code", "data", "bss", "none"}
  BY ConstantsAssumption DEF ContentOf
<1>6. stats' = Grown(stats, ContentOf[e.kind], e.range.address, AlignUp(vs, fmt.file))
  BY <1>1, <1>4, <1>5, StatsWithGrows
<1>7. \A i \in 1..n : /\ sections[i].range.address # 0
                      /\ sections[i].range.address <= e.range.address
  <2> SUFFICES ASSUME NEW i \in DOMAIN sections
               PROVE  /\ sections[i].range.address # 0
                      /\ sections[i].range.address <= virtual_len
    BY <1>1
  <2>1. sections[i].range.address \in Nat \ {0}
    BY SectionFacts
  <2>2. /\ sections[i].range.vsize \in Nat
        /\ sections[i].range.address + sections[i].range.vsize <= virtual_len
    BY SectionTypes
  <2> QED BY <1>2, <2>1, <2>2
<1>8. PICK tt : tt = Append(sections, e)
  OBVIOUS
<1>9. PICK u : u = Grown(stats, ContentOf[e.kind], e.range.address,
                         AlignUp(e.range.vsize, fmt.file))
  OBVIOUS
<1>10. StatsAre(u, tt, fmt.file)
  BY <1>1, <1>2, <1>3, <1>7, <1>8, <1>9, StatsGrow
<1> QED BY <1>6, <1>8, <1>9, <1>10 DEF StatsOk

LEMMA SectionAppended ==
    ASSUME IInv, NEW e, sections' = Append(sections, e), NEW n, n = Len(sections) + 1
    PROVE  /\ \A i \in DOMAIN sections : i \in DOMAIN sections' /\ sections'[i] = sections[i]
           /\ DOMAIN sections' = DOMAIN sections \cup {n}
           /\ sections'[n] = e /\ n \in DOMAIN sections'
<1>1. sections \in Seq(SectionType) /\ Len(sections) \in Nat
  BY DEF IInv, FieldTypes
<1>2. DOMAIN sections = 1..Len(sections) /\ DOMAIN sections' = 1..n
  BY <1>1
<1>3. (\A j \in 1..Len(sections) : sections'[j] = sections[j]) /\ sections'[n] = e
  BY <1>1
<1>4. 1..n = (1..Len(sections)) \cup {n} /\ n \in 1..n
  BY <1>1
<1> QED BY <1>2, <1>3, <1>4

(* What reserve_section does, whoever calls it.                            *)
LEMMA SectionAdded ==
    ASSUME IInv, RInv, NEW k \in Kinds, NEW vs \in Nat, NEW ds \in Nat,
           ReserveSection(k, vs, ds), DirectoriesStay,
           k \in DOMAIN DirectoryOf =>
              /\ ds = vs /\ DirectoryOf[k] < Len(data_directories')
              /\ data_directories'[DirectoryOf[k] + 1] =
                   [address |-> virtual_len, size |-> vs],
           UNCHANGED <<fmt, headers_len, section_header_num, writeVars>>
    PROVE  RInv'
<1> PICK s : s = SectionRange(vs, ds)
  OBVIOUS
<1> PICK e : e = [range |-> s, kind |-> k, data |-> ds]
  OBVIOUS
<1> PICK n : n = Len(sections) + 1
  OBVIOUS
<1> PICK kind : kind = IF k = "reloc" THEN "reloc" ELSE "section"
  OBVIOUS
<1> PICK r : r = FileRange(kind, AlignUp(len, fmt.file), s.fsize, fmt.file, n)
  OBVIOUS
<1>1. /\ headers_len # 0 /\ cur = 0 /\ sections' = Append(sections, e)
      /\ stats' = StatsWith(ContentOf[k], s.address, vs)
      /\ s.fsize # 0 => ranges' = Append(ranges, r)
      /\ s.fsize = 0 => UNCHANGED ranges
  BY DEF ReserveSection, HeadersReserved, Reserve
<1>2. /\ s.address = virtual_len /\ s.vsize = vs /\ s.fsize = AlignUp(ds, fmt.file)
      /\ s.fsize # 0 => s.offset = AlignUp(len, fmt.file)
  BY DEF SectionRange
<1>3. e.range = s /\ e.kind = k /\ e.data = ds
  OBVIOUS
<1>4. /\ r.kind \in {"section", "reloc"} /\ r.section = n
      /\ r.offset = AlignUp(len, fmt.file) /\ r.size = s.fsize
  BY DEF FileRange
<1>5. e \in SectionType
  <2>1. /\ virtual_len \in Nat /\ AlignUp(ds, fmt.file) \in Nat
        /\ AlignUp(len, fmt.file) \in Nat
    BY AlignUpType DEF IInv, TypeOK, FieldTypes
  <2>2. s \in [address : Nat, vsize : Nat, fsize : Nat, offset : Nat]
    BY <2>1 DEF SectionRange
  <2> QED BY <2>2 DEF SectionType
<1>6. /\ \A i \in DOMAIN sections : i \in DOMAIN sections' /\ sections'[i] = sections[i]
      /\ DOMAIN sections' = DOMAIN sections \cup {n}
      /\ sections'[n] = e /\ n \in DOMAIN sections'
  BY <1>1, SectionAppended
<1>7. StatsOk'
  BY <1>1, <1>2, <1>3, <1>5, SectionStats
<1>8. ImageOk'
  BY <1>1, NothingWritten
<1>9. /\ \A j \in DOMAIN ranges : j \in DOMAIN ranges' /\ ranges'[j] = ranges[j]
      /\ \A j \in DOMAIN ranges' : j \in DOMAIN ranges \/ ranges'[j] = r
      /\ s.fsize # 0 => \E j \in DOMAIN ranges' : ranges'[j] = r
  <2>1. CASE s.fsize = 0
    BY <1>1, <2>1
  <2>2. CASE s.fsize # 0
    BY <1>1, <2>2, RangeAppended
  <2> QED BY <2>1, <2>2
<1>10. HeadersOk'
  BY <1>9 DEF RInv, HeadersOk, DirectoriesStay
<1>11. ASSUME NEW i \in DOMAIN sections' PROVE SectionOk(i)'
  <2>1. CASE i \in DOMAIN sections
    BY <1>6, <1>9, <2>1, SectionKept
  <2>2. CASE i = n
    <3>1. s.fsize # 0 => \E j \in DOMAIN ranges' : IsData(j)' /\ ranges'[j].section = n
      BY <1>4, <1>9 DEF IsData
    <3>2. s.fsize = AlignUp(ds, fmt'.file)
      BY <1>2
    <3> QED BY <1>2, <1>3, <1>6, <2>2, <3>1, <3>2 DEF SectionOk
  <2> QED BY <1>6, <2>1, <2>2
<1>12. ASSUME NEW j \in DOMAIN ranges' PROVE RangeOk(j)'
  <2>1. CASE j \in DOMAIN ranges
    BY <1>6, <1>9, <2>1, RangeKept
  <2>2. CASE ranges'[j] = r /\ s.fsize = 0
    BY <1>1, <2>2, <2>1
  <2>3. CASE ranges'[j] = r /\ s.fsize # 0
    BY <1>2, <1>3, <1>4, <1>6, <2>3 DEF RangeOk, IsData
  <2> QED BY <1>9, <2>1, <2>2, <2>3
<1> QED BY <1>7, <1>8, <1>10, <1>11, <1>12 DEF RInv

LEMMA SectionDirectory ==
    ASSUME IInv, NEW k, k \in DOMAIN DirectoryOf, NEW vs \in Nat, NEW ds,
           Unset(DirectoryOf[k]), data_directories' = SectionDirectories(k, vs, ds)
    PROVE  /\ DirectoryOf[k] < Len(data_directories')
           /\ data_directories'[DirectoryOf[k] + 1] = [address |-> virtual_len, size |-> vs]
<1>1. PICK d \in Nat : d = DirectoryOf[k]
  BY DEF DirectoryOf
<1>2. PICK a \in Nat : a = virtual_len
  BY DEF IInv, TypeOK
<1>3. data_directories' = WithDirectory(d, a, vs) /\ Unset(d)
  BY <1>1, <1>2 DEF SectionDirectories
<1>4. /\ DirectoriesStay
      /\ data_directories'[d + 1] = [address |-> a, size |-> vs]
  BY <1>3, DirectorySet
<1>5. d < Len(data_directories')
  BY <1>3, <1>4 DEF Unset, DirectoriesStay
<1> QED BY <1>1, <1>2, <1>4, <1>5

LEMMA ReaderTypedSection ==
    ASSUME IInv, RInv, NEW k \in Kinds, NEW vs \in Nat, NEW ds \in Nat,
           ReserveTypedSection(k, vs, ds)
    PROVE  RInv'
<1>1. /\ k \notin {"plain", "data", "bss"} => ds = vs
      /\ ReserveSection(k, vs, ds) /\ headers_len # 0
      /\ k \in DOMAIN DirectoryOf => Unset(DirectoryOf[k])
      /\ data_directories' = SectionDirectories(k, vs, ds)
      /\ UNCHANGED <<fmt, headers_len, section_header_num, writeVars>>
  BY DEF ReserveTypedSection, ReserveSection, HeadersReserved
<1>2. DirectoriesStay
  BY <1>1, DirectoriesSet
<1>3. k \in DOMAIN DirectoryOf => k \notin {"plain", "data", "bss"}
  BY DEF DirectoryOf
<1>4. k \in DOMAIN DirectoryOf =>
        /\ ds = vs /\ DirectoryOf[k] < Len(data_directories')
        /\ data_directories'[DirectoryOf[k] + 1] = [address |-> virtual_len, size |-> vs]
  BY <1>1, <1>3, SectionDirectory
<1> QED BY <1>1, <1>2, <1>4, SectionAdded

LEMMA ReaderRelocSection == ASSUME IInv, RInv, ReserveRelocSection PROVE RInv'
<1>1. PICK size : size = RelocSize(PaddedBlocks, Len(PaddedBlocks))
  OBVIOUS
<1>2. /\ "reloc" \in Kinds /\ Unset(DirectoryOf["reloc"]) /\ headers_len # 0
      /\ ReserveSection("reloc", size, size)
      /\ data_directories' = SectionDirectories("reloc", size, size)
      /\ UNCHANGED <<fmt, headers_len, section_header_num, writeVars>>
  BY <1>1 DEF ReserveRelocSection, ReserveSection, HeadersReserved
<1>3. size \in Nat
  BY <1>1, BlocksPadded, RelocSizeType
<1>4. DirectoriesStay
  BY <1>2, <1>3, DirectoriesSet
<1>5. "reloc" \in DOMAIN DirectoryOf
  BY DEF DirectoryOf
<1>6. /\ DirectoryOf["reloc"] < Len(data_directories')
      /\ data_directories'[DirectoryOf["reloc"] + 1] = [address |-> virtual_len, size |-> size]
  BY <1>2, <1>3, <1>5, SectionDirectory
<1> QED BY <1>2, <1>3, <1>4, <1>6, SectionAdded

-------------------------------------------------------------------------------
(* The steps of the second phase *)

(* How a step gets on with the range whose turn it is, the one with number *)
(* c: the buffer grows, and so does what has landed.                       *)
GetsOn(c) ==
    /\ c = cur + 1 /\ \E k : Turn(k)
    /\ buf' \in Nat /\ buf' >= buf
    /\ \A i \in DOMAIN landed : i \in DOMAIN landed' /\ landed'[i] = landed[i]

LEMMA PutGrows ==
    ASSUME IInv, IInv', NEW k, Turn(k), NEW c, c = cur + 1,
           NEW o \in Nat, NEW n \in Nat, NEW a \in Nat \ {0}, Put(o, n, a)
    PROVE  GetsOn(c) /\ buf' = AlignUp(o + n, a) /\ \E i \in DOMAIN landed' : landed'[i].range = c
<1>1. /\ c \in Nat /\ cur' = c /\ buf \in Nat /\ buf <= ranges[c].offset
      /\ ranges' = ranges
  BY AtTurn
<1>2. PICK l : l = [range |-> c, from |-> buf, at |-> o]
  OBVIOUS
<1>3. l.range = c /\ l.at = o
  BY <1>2
<1>4. buf' = AlignUp(o + n, a) /\ landed' = Append(landed, l)
  BY <1>2 DEF Put
<1>5. /\ \A i \in DOMAIN landed : i \in DOMAIN landed' /\ landed'[i] = landed[i]
      /\ Len(landed) + 1 \in DOMAIN landed' /\ landed'[Len(landed) + 1] = l
  <2>1. landed \in Seq([range : Nat, from : Nat, at : Nat])
    BY DEF IInv, FieldTypes
  <2>2. /\ DOMAIN landed = 1..Len(landed) /\ Len(landed) \in Nat
        /\ DOMAIN landed' = 1..(Len(landed) + 1)
        /\ landed'[Len(landed) + 1] = l /\ \A i \in 1..Len(landed) : landed'[i] = landed[i]
    BY <1>4, <2>1
  <2> QED BY <2>2
<1>6. o = ranges[c].offset
  <2>1. Landed'
    BY DEF IInv
  <2> QED BY <1>1, <1>3, <1>5, <2>1 DEF Landed
<1>7. buf' \in Nat /\ buf' >= o
  <2>1. o + n \in Nat /\ o + n >= o
    OBVIOUS
  <2>2. AlignUp(o + n, a) \in Nat /\ AlignUp(o + n, a) >= o + n
    BY <2>1, AlignUpType
  <2> QED BY <1>4, <2>1, <2>2
<1>8. GetsOn(c)
  BY <1>1, <1>5, <1>6, <1>7 DEF GetsOn
<1> QED BY <1>3, <1>4, <1>5, <1>8

LEMMA ReadableType ==
    ASSUME IInv, NEW i \in DOMAIN sections
    PROVE  LET s == sections[i].range IN
           /\ s.offset \in Nat /\ Readable(s) \in Nat
           /\ Readable(s) <= s.vsize /\ Readable(s) <= s.fsize
           /\ s.vsize \in Nat /\ s.fsize \in Nat
<1>1. PICK s : s = sections[i].range
  OBVIOUS
<1>2. s.offset \in Nat /\ s.vsize \in Nat /\ s.fsize \in Nat
  BY <1>1, SectionTypes
<1>3. Readable(s) \in Nat /\ Readable(s) <= s.vsize /\ Readable(s) <= s.fsize
  BY <1>2 DEF Readable, Least
<1> QED BY <1>1, <1>2, <1>3

(* What has been written stays, and what is written is what it should be.  *)
LEMMA ReaderStep ==
    ASSUME IInv, RInv, NEW c, GetsOn(c),
           image'.nt \in {image.nt, <<NtHeaders>>},
           image'.headers \in {image.headers, Headers},
           ranges[c].kind = "shdrs" => image'.headers = Headers,
           IsData(c) => Written(c)'
    PROVE  RInv'
<1>1. /\ c \in Nat /\ c >= 1 /\ cur = c - 1 /\ cur' = c /\ Reserved
      /\ UNCHANGED <<fmt, layoutVars, relocVars, reloc_offset, ranges>>
      /\ 1..cur \subseteq DOMAIN ranges
  <2>1. PICK k : Turn(k)
    BY DEF GetsOn
  <2>2. c = cur + 1
    BY DEF GetsOn
  <2>3. 1..cur \subseteq DOMAIN ranges
    BY DEF IInv, FieldTypes
  <2> QED BY <2>1, <2>2, <2>3, AtTurn DEF Turn
<1>2. UNCHANGED <<fmt, headers_len, stats, nt_headers_offset, virtual_len,
                  data_directories, section_header_num, sections, ranges>>
  BY <1>1 DEF layoutVars
<1>3. HeadersOk' /\ StatsOk'
  BY <1>2 DEF RInv, HeadersOk, StatsOk
<1>4. (\A i \in DOMAIN sections' : SectionOk(i)') /\ \A j \in DOMAIN ranges' : RangeOk(j)'
  BY <1>2 DEF RInv, SectionOk, RangeOk, IsData
<1>5. Headers' = Headers /\ NtHeaders' = NtHeaders /\ Reserved'
  BY <1>1, <1>2 DEF Headers, NtHeaders, OptionalHeaderSize, NtSize, Reserved, HeadersReserved
<1>6. image'.nt \in {<<>>, <<NtHeaders'>>} /\ image'.headers \in {<<>>, Headers'}
  BY <1>5 DEF RInv, ImageOk
<1>7. ASSUME NEW j \in 1..cur'
      PROVE  /\ ranges'[j].kind = "shdrs" => image'.headers = Headers'
             /\ IsData(j)' => Written(j)'
  <2>1. CASE j = c
    BY <1>2, <1>5, <2>1 DEF IsData
  <2>2. CASE j \in 1..cur
    <3>1. /\ ranges[j].kind = "shdrs" => image.headers = Headers
          /\ IsData(j) => Written(j)
      BY <2>2 DEF RInv, ImageOk
    <3>2. ranges'[j].kind = "shdrs" => image'.headers = Headers'
      BY <1>2, <1>5, <3>1
    <3>3. ASSUME IsData(j)' PROVE Written(j)'
      <4>1. IsData(j) /\ Written(j)
        BY <1>2, <3>1, <3>3 DEF IsData
      <4>2. ranges[j].section \in DOMAIN sections
        BY <1>1, <2>2, <4>1 DEF RInv, RangeOk
      <4>3. PICK s : s = sections[ranges[j].section].range
        OBVIOUS
      <4>4. s.offset \in Nat /\ Readable(s) \in Nat
        BY <4>2, <4>3, ReadableType
      <4>5. /\ buf \in Nat /\ buf' \in Nat /\ buf' >= buf
            /\ \A i \in DOMAIN landed : i \in DOMAIN landed' /\ landed'[i] = landed[i]
        BY DEF GetsOn, IInv, TypeOK
      <4>6. s = sections'[ranges'[j].section].range
        BY <1>2, <4>3
      <4>7. Readable(s) # 0 => /\ s.offset + Readable(s) <= buf
                               /\ \E i \in DOMAIN landed : landed[i].range = j
        BY <4>1, <4>3 DEF Written
      <4>8. Readable(s) # 0 => /\ s.offset + Readable(s) <= buf'
                               /\ \E i \in DOMAIN landed' : landed'[i].range = j
        BY <4>4, <4>5, <4>7
      <4> QED BY <4>6, <4>8 DEF Written, Readable, Least
    <3> QED BY <3>2, <3>3
  <2> QED BY <1>1, <2>1, <2>2
<1>8. ImageOk'
  <2>1. cur' # 0
    BY <1>1
  <2> QED BY <1>5, <1>6, <1>7, <2>1 DEF ImageOk
<1> QED BY <1>3, <1>4, <1>8 DEF RInv

(* What each step writes of the headers.                                   *)
LEMMA HeadersWritten ==
    ASSUME IInv, WriteNext, NEW c, c = cur + 1
    PROVE  /\ image'.nt \in {image.nt, <<NtHeaders>>}
           /\ image'.headers \in {image.headers, Headers}
           /\ ranges[c].kind = "shdrs" => image'.headers = Headers
<1>1. image = [nt |-> image.nt, headers |-> image.headers, relocs |-> image.relocs]
  BY DEF IInv, FieldTypes
<1>3. CASE WriteNtHeaders
  <2>1. ranges[c].kind = "nt" /\ image' = [image EXCEPT !.nt = <<NtHeaders>>]
    BY <1>3 DEF WriteNtHeaders, Turn
  <2>2. PICK h : h = NtHeaders
    OBVIOUS
  <2>3. image' = [nt |-> <<h>>, headers |-> image.headers, relocs |-> image.relocs]
    BY <1>1, <2>1, <2>2
  <2> QED BY <2>1, <2>2, <2>3
<1>4. CASE WriteSectionHeaders
  <2>1. PICK h : h = Headers
    OBVIOUS
  <2>2. image' = [image EXCEPT !.headers = h]
    BY <1>4, <2>1 DEF WriteSectionHeaders, Headers
  <2>3. image' = [nt |-> image.nt, headers |-> h, relocs |-> image.relocs]
    BY <1>1, <2>2
  <2> QED BY <2>1, <2>3
<1>5. CASE WriteRelocSection
  <2>1. ranges[c].kind = "reloc" /\ \E h : image' = [image EXCEPT !.relocs = h]
    BY <1>5 DEF WriteRelocSection, Turn
  <2>2. PICK h : image' = [image EXCEPT !.relocs = h]
    BY <2>1
  <2>3. image' = [nt |-> image.nt, headers |-> image.headers, relocs |-> h]
    BY <1>1, <2>2
  <2> QED BY <2>1, <2>3
<1>6. CASE WriteDosHeader \/ WriteRaw \/ PadUntil \/ WriteCertificateTable
  BY <1>6 DEF WriteDosHeader, WriteRaw, PadUntil, WriteCertificateTable, Turn
<1>7. ASSUME NEW n, WriteSection(n)
      PROVE  ranges[c].kind = "section" /\ UNCHANGED image
  BY <1>7 DEF WriteSection, Turn
<1> QED BY <1>3, <1>4, <1>5, <1>6, <1>7 DEF WriteNext

(* A section has been filled as far as the reader goes.                    *)
LEMMA SectionWritten ==
    ASSUME IInv, IInv', RInv, NEW n \in Nat, WriteSection(n), NEW c, c = cur + 1
    PROVE  GetsOn(c) /\ Written(c)'
<1> PICK i : i = ranges[c].section
  OBVIOUS
<1>1. /\ Turn("section") /\ c \in DOMAIN ranges /\ ranges[c].kind = "section"
      /\ Current = ranges[c] /\ RangeFits(c)
      /\ UNCHANGED <<fmt, layoutVars, relocVars, reloc_offset, ranges>>
      /\ buf \in Nat
  <2>1. Turn("section")
    BY DEF WriteSection
  <2> QED BY <2>1, AtTurn
<1>2. i \in DOMAIN sections /\ ranges[c].offset % fmt.file = 0 /\ SectionOk(i)
      /\ ranges[c].offset = sections[i].range.offset
  BY <1>1 DEF RangeFits, RInv
<1>3. PICK s : s = sections[i].range
  OBVIOUS
<1>4. PICK d : d = sections[i].data
  OBVIOUS
<1>5. PICK a \in Nat \ {0} : a = fmt.file
  BY DEF IInv, FieldTypes
<1>6. /\ s.offset \in Nat /\ s.vsize \in Nat /\ s.fsize \in Nat /\ d \in Nat
      /\ Readable(s) \in Nat /\ Readable(s) <= s.vsize /\ Readable(s) <= s.fsize
      /\ s.fsize = AlignUp(d, a) /\ s.offset % a = 0
  BY <1>2, <1>3, <1>4, <1>5, SectionFacts, ReadableType DEF SectionOk
<1>7. /\ n = d \/ n = s.vsize
      /\ n = 0 => UNCHANGED <<buf, landed>>
      /\ n # 0 => Put(s.offset, n, a)
  BY <1>1, <1>3, <1>4, <1>5 DEF WriteSection
<1>8. UNCHANGED sections /\ ranges' = ranges
  BY <1>1 DEF layoutVars
<1>9. CASE n = 0
  <2>1. Readable(s) = 0
    BY <1>6, <1>7, <1>9, AlignUpZero
  <2>2. GetsOn(c)
    BY <1>1, <1>7, <1>9 DEF GetsOn
  <2>3. Readable(s)' = Readable(s) /\ s = sections'[ranges'[c].section].range
    BY <1>3, <1>8 DEF Readable, Least
  <2> QED BY <2>1, <2>2, <2>3 DEF Written, Readable, Least
<1>10. CASE n # 0
  <2>1. Put(s.offset, n, a)
    BY <1>7, <1>10
  <2>2. /\ GetsOn(c) /\ buf' = AlignUp(s.offset + n, a)
        /\ \E j \in DOMAIN landed' : landed'[j].range = c
    BY <1>1, <1>6, <2>1, PutGrows
  <2>3. AlignUp(n, a) \in Nat /\ AlignUp(n, a) >= n
    BY AlignUpType
  <2>4. buf' = s.offset + AlignUp(n, a)
    <3>1. PICK o \in Nat : o = s.offset /\ o % a = 0
      BY <1>6
    <3>2. AlignUp(o + n, a) = o + AlignUp(n, a)
      BY <1>6, <3>1, AlignUpOffset
    <3> QED BY <2>2, <3>1, <3>2
  <2>5. s.offset + Readable(s) <= buf'
    <3>1. Readable(s) <= AlignUp(n, a)
      <4>1. CASE n = d
        BY <1>6, <4>1
      <4>2. CASE n = s.vsize
        BY <1>6, <2>3, <4>2
      <4> QED BY <1>7, <4>1, <4>2
    <3> QED BY <1>6, <2>3, <2>4, <3>1
  <2>6. s = sections'[ranges'[c].section].range
    BY <1>3, <1>8
  <2> QED BY <2>2, <2>5, <2>6 DEF Written, Readable, Least
<1> QED BY <1>9, <1>10

(* The relocations fill all of the .reloc section.                         *)
LEMMA RelocWritten ==
    ASSUME IInv, IInv', RInv, Turn("reloc"), NEW c, c = cur + 1, GetsOn(c),
           \E j \in DOMAIN landed' : landed'[j].range = c
    PROVE  Written(c)'
<1> PICK i : i = ranges[c].section
  OBVIOUS
<1>1. /\ c \in DOMAIN ranges /\ ranges[c].kind = "reloc" /\ cur' = c /\ c \in Nat /\ c >= 1
      /\ End(ranges[c]) = ranges[c].offset + ranges[c].size
      /\ UNCHANGED <<fmt, layoutVars, relocVars, reloc_offset, ranges>>
  BY AtTurn
<1>2. RangeOk(c) /\ IsData(c)
  BY <1>1 DEF RInv, IsData
<1>3. PICK s : s = sections[i].range
  OBVIOUS
<1>4. i \in DOMAIN sections /\ ranges[c].offset = s.offset /\ ranges[c].size = s.fsize
  BY <1>2, <1>3 DEF RangeOk
<1>5. /\ s.offset \in Nat /\ s.fsize \in Nat
      /\ Readable(s) \in Nat /\ Readable(s) <= s.fsize
  BY <1>3, <1>4, ReadableType
<1>6. UNCHANGED sections /\ ranges' = ranges
  BY <1>1 DEF layoutVars
<1>7. buf' = End(ranges[c])
  <2>1. Progress'
    BY DEF IInv
  <2> QED BY <1>1, <2>1 DEF Progress, End
<1>8. s.offset + Readable(s) <= buf'
  BY <1>1, <1>4, <1>5, <1>7
<1>9. s = sections'[ranges'[c].section].range
  BY <1>3, <1>6
<1> QED BY <1>8, <1>9 DEF Written, Readable, Least

LEMMA ReaderWrite == ASSUME IInv, IInv', RInv, WriteNext PROVE RInv'
<1>1. PICK c : c = cur + 1
  OBVIOUS
<1>2. /\ image'.nt \in {image.nt, <<NtHeaders>>}
      /\ image'.headers \in {image.headers, Headers}
      /\ ranges[c].kind = "shdrs" => image'.headers = Headers
  BY <1>1, HeadersWritten
<1>3. ASSUME NEW n \in DataSizes \cup VirtualSizes, WriteSection(n) PROVE RInv'
  <2>1. n \in Nat
    BY ConstantsAssumption
  <2>2. GetsOn(c) /\ Written(c)'
    BY <1>1, <1>3, <2>1, SectionWritten
  <2> QED BY <1>2, <2>2, ReaderStep
<1>4. CASE ranges[c].kind # "section"
  <2>1. PICK k : Turn(k) /\ \E o \in Nat, n \in Nat, a \in Nat \ {0} : Put(o, n, a)
    BY <1>1, <1>4, WritePuts DEF Putting, Passing, Turn
  <2>2. PICK o \in Nat, n \in Nat, a \in Nat \ {0} : Put(o, n, a)
    BY <2>1
  <2>3. GetsOn(c) /\ \E i \in DOMAIN landed' : landed'[i].range = c
    BY <1>1, <2>1, <2>2, PutGrows
  <2>4. ranges[c].kind = k
    BY <1>1, <2>1 DEF Turn
  <2>5. IsData(c) => Written(c)'
    <3>1. IsData(c) => k = "reloc"
      BY <1>4, <2>4 DEF IsData
    <3> QED BY <1>1, <2>1, <2>3, <3>1, RelocWritten
  <2> QED BY <1>2, <2>3, <2>5, ReaderStep
<1>5. ranges[c].kind = "section" => \E n \in DataSizes \cup VirtualSizes : WriteSection(n)
  BY <1>1 DEF WriteNext, WriteDosHeader, WriteRaw, PadUntil, WriteNtHeaders,
     WriteSectionHeaders, WriteRelocSection, WriteCertificateTable, Turn
<1> QED BY <1>3, <1>4, <1>5

-------------------------------------------------------------------------------
(* The invariant *)

LEMMA ReaderInit == ASSUME Init PROVE RInv
<1>1. /\ sections = <<>> /\ ranges = <<>> /\ data_directories = <<>> /\ headers_len = 0
      /\ cur = 0 /\ image = [nt |-> <<>>, headers |-> <<>>, relocs |-> <<>>]
      /\ stats = [code_address |-> 0, data_address |-> 0, code |-> 0, data |-> 0, bss |-> 0]
  BY DEF Init
<1>2. HeadersOk /\ ImageOk
  BY <1>1 DEF HeadersOk, ImageOk
<1>3. \A e : SumTo(e, 0) = 0
  <2> SUFFICES ASSUME NEW e PROVE SumTo(e, 0) = 0
    OBVIOUS
  <2>1. \A i \in 1..0 : e[i] \in Nat
    OBVIOUS
  <2>2. \E f : /\ f = [i \in 0..0 |-> IF i = 0 THEN 0 ELSE f[i - 1] + e[i]]
               /\ SumTo(e, 0) = f[0]
    BY <2>1, SumToIs
  <2> QED BY <2>2
<1>4. \A C : Of(C, sections) = {} /\ Len(sections) = 0
  BY <1>1 DEF Of
<1>5. StatsOk
  BY <1>1, <1>3, <1>4 DEF StatsOk, StatsAre, IsLowest
<1> QED BY <1>1, <1>2, <1>5 DEF RInv

LEMMA ReaderNext == ASSUME IInv, IInv', RInv, [Next]_vars PROVE RInv'
<1> USE ConstantsAssumption
<1>1. CASE ReserveHeaderNext
  <2>1. CASE ReserveDosHeader
    BY <2>1, ReaderDos
  <2>2. ASSUME NEW n \in Directories, ReserveNtHeaders(n) PROVE RInv'
    BY <2>2, ReaderNt
  <2>3. ASSUME NEW n \in 0..MaxSections, ReserveSectionHeaders(n) PROVE RInv'
    BY <2>3, ReaderSectionHeaders
  <2> QED BY <1>1, <2>1, <2>2, <2>3 DEF ReserveHeaderNext
<1>2. CASE ReserveExtraNext
  <2>1. ASSUME NEW n \in ExtraSizes, NEW a \in Aligns, ReserveRaw(n, a) PROVE RInv'
    BY <2>1, ReaderRaw
  <2>2. ASSUME NEW n \in ExtraSizes, ReserveUntil(n) PROVE RInv'
    BY <2>2, ReaderUntil
  <2>3. ASSUME NEW n \in ExtraSizes, ReserveCertificateTable(n) PROVE RInv'
    BY <2>3, ReaderCertificate
  <2>4. ASSUME NEW n \in Gaps, ReserveVirtual(n) PROVE RInv'
    BY <2>4, ReaderVirtual
  <2> QED BY <1>2, <2>1, <2>2, <2>3, <2>4 DEF ReserveExtraNext
<1>3. CASE ReserveDirectoryNext
  <2>1. PICK n : n = Len(data_directories)
    OBVIOUS
  <2>2. PICK a \in Gaps : SetDataDirectory(n - 1, a, 1)
    BY <1>3, <2>1 DEF ReserveDirectoryNext
  <2>3. n - 1 \in Nat
    BY <1>3, <2>1 DEF ReserveDirectoryNext, IInv, FieldTypes
  <2> QED BY <2>2, <2>3, ReaderDirectory
<1>4. CASE ReserveSectionNext
  <2>1. ASSUME NEW k \in Kinds, NEW vs \in VirtualSizes,
               NEW ds \in DataSizes \cup VirtualSizes, ReserveTypedSection(k, vs, ds)
        PROVE  RInv'
    BY <2>1, ReaderTypedSection
  <2>2. ASSUME NEW a \in Addresses, NEW t \in Types, AddReloc(a, t) PROVE RInv'
    BY <2>2, ReaderReloc
  <2>3. CASE ReserveRelocSection
    BY <2>3, ReaderRelocSection
  <2> QED BY <1>4, <2>1, <2>2, <2>3 DEF ReserveSectionNext
<1>5. CASE WriteNext
  BY <1>5, ReaderWrite
<1>6. CASE UNCHANGED vars
  <2>1. /\ UNCHANGED <<fmt, headers_len, stats, nt_headers_offset, virtual_len,
                       data_directories, section_header_num, sections>>
        /\ UNCHANGED <<ranges, buf, image, cur, landed>>
    BY <1>6 DEF vars, layoutVars, writeVars
  <2>2. HeadersOk' /\ StatsOk'
    BY <2>1 DEF RInv, HeadersOk, StatsOk
  <2>3. (\A i \in DOMAIN sections' : SectionOk(i)') /\ \A j \in DOMAIN ranges' : RangeOk(j)'
    BY <2>1 DEF RInv, SectionOk, RangeOk, IsData
  <2>4. NtHeaders' = NtHeaders /\ Headers' = Headers /\ (Reserved => Reserved')
    BY <2>1 DEF Headers, NtHeaders, OptionalHeaderSize, NtSize, Reserved, HeadersReserved
  <2>5. \A j \in 1..cur : (IsData(j) <=> IsData(j)') /\ (Written(j) => Written(j)')
    BY <2>1 DEF IsData, Written, Readable, Least
  <2>6. ImageOk'
    BY <2>1, <2>4, <2>5 DEF RInv, ImageOk
  <2> QED BY <2>2, <2>3, <2>6 DEF RInv
<1> QED BY <1>1, <1>2, <1>3, <1>4, <1>5, <1>6 DEF Next

(* What the first phase keeps of a section agrees: its range, its data     *)
(* directory and its share of the sizes; what has been written so far is   *)
(* there, and the headers are those of the layout.                         *)
THEOREM ReaderInvariant == Spec => [](IInv /\ RInv)
<1>1. Init => IInv /\ RInv
  BY InitInv, ReaderInit
<1>2. IInv /\ RInv /\ [Next]_vars => IInv' /\ RInv'
  BY NextInv, ReaderNext
<1> QED BY <1>1, <1>2, PTL DEF Spec

-------------------------------------------------------------------------------
(* What the reader finds *)

(* The 16-bit fields of the headers hold the number of sections, which the *)
(* writer is passed in 16 bits, and the size of the optional header: that  *)
(* takes no more than the 16 directories there are.                        *)
FieldsFit ==
    /\ MaxSections < 65536
    /\ \A n \in Directories : 112 + n * DirSize < 65536

LEMMA AllWritten ==
    ASSUME IInv, RInv, Done
    PROVE  /\ image.nt = <<NtHeaders>> /\ Reserved /\ DOMAIN ranges = 1..cur
           /\ \A j \in DOMAIN ranges :
                /\ ranges[j].kind = "shdrs" => image.headers = Headers
                /\ IsData(j) => Written(j)
<1>1. headers_len # 0 /\ Reserved /\ DOMAIN ranges = 1..cur
  BY DEF Done, Reserved, HeadersReserved, IInv, FieldTypes
<1>2. \E j \in DOMAIN ranges : ranges[j].kind = "nt"
  BY <1>1 DEF IInv, Stages
<1>3. image.nt # <<>>
  BY <1>1, <1>2 DEF IInv, Progress
<1> QED BY <1>1, <1>3 DEF RInv, ImageOk

LEMMA NtWritten ==
    ASSUME IInv, RInv, NEW j \in 1..cur, ranges[j].kind = "nt"
    PROVE  image.nt = <<NtHeaders>>
<1>1. image.nt # <<>>
  BY DEF IInv, Progress
<1> QED BY <1>1 DEF RInv, ImageOk

LEMMA OptionalFits ==
    ASSUME IInv, RInv, FieldsFit
    PROVE  /\ section_header_num % 65536 = section_header_num
           /\ NtSize \in Nat /\ Len(data_directories) * DirSize \in Nat
           /\ OptionalHeaderSize = NtSize - 24 + Len(data_directories) * DirSize
<1>1. section_header_num \in Nat /\ section_header_num < 65536
  BY ConstantsAssumption DEF IInv, TypeOK, FieldsFit
<1>2. PICK n : n = Len(data_directories)
  OBVIOUS
<1>3. n \in Nat /\ 112 + n * DirSize < 65536
  <2>1. n \in Nat
    BY <1>2 DEF IInv, FieldTypes
  <2>2. n = 0 \/ n \in Directories
    BY <1>2 DEF RInv, HeadersOk
  <2> QED BY <2>1, <2>2 DEF FieldsFit, DirSize
<1>4. NtSize \in {120, 136}
  BY DEF NtSize
<1>5. PICK m \in Nat : m = NtSize - 24 + n * DirSize
  BY <1>3, <1>4 DEF DirSize
<1>6. m < 65536
  BY <1>3, <1>4, <1>5 DEF DirSize
<1>7. m % 65536 = m /\ section_header_num % 65536 = section_header_num
  BY <1>1, <1>6
<1>8. n * DirSize \in Nat
  BY <1>3 DEF DirSize
<1> QED BY <1>2, <1>4, <1>5, <1>7, <1>8 DEF OptionalHeaderSize

(* The optional header gives the sizes and the first addresses of code and *)
(* data, the section table is where the reader looks for it, is of the     *)
(* length the file header tells, and is within the headers that are loaded.*)
THEOREM HeadersFound == ASSUME FieldsFit PROVE Spec => []HeadersDescribe
<1>1. ASSUME IInv, RInv PROVE HeadersDescribe
  <2> USE <1>1
  <2>1. ASSUME Done PROVE StatsAgree
    <3>1. image.nt = <<NtHeaders>>
      BY <2>1, AllWritten
    <3>2. image.nt[1].stats = stats
      BY <3>1 DEF NtHeaders
    <3>3. StatsAre(stats, sections, fmt.file)
      BY DEF RInv, StatsOk
    <3> QED BY <3>2, <3>3 DEF StatsAgree, StatsAre, Sizes, Of, IsLowest
  <2>2. ASSUME NEW i \in DOMAIN landed, NEW j, j = landed[i].range,
               ranges[j].kind = "nt"
        PROVE  ranges[j].offset = image.nt[1].e_lfanew
    <3>1. j \in 1..cur /\ j \in DOMAIN ranges
      BY <2>2, SMTT(30), ZenonT(30) DEF IInv, Progress, FieldTypes
    <3>2. image.nt = <<NtHeaders>> /\ RangeFits(j)
      BY <2>2, <3>1, NtWritten DEF IInv, Layout
    <3> QED BY <2>2, <3>2 DEF RangeFits, NtHeaders
  <2>3. ASSUME NEW i \in DOMAIN landed, NEW j, j = landed[i].range,
               ranges[j].kind = "shdrs"
        PROVE  /\ landed[i].at = SectionTableAt(image.nt[1])
               /\ Len(image.headers) = image.nt[1].sections
               /\ End(ranges[j]) <= image.nt[1].headers_len
    <3>1. j \in 1..cur /\ j \in DOMAIN ranges /\ cur # 0
      BY <2>3 DEF IInv, Progress, FieldTypes
    <3>2. /\ RangeFits(j) /\ RangeOk(j) /\ landed[i].at = ranges[j].offset
          /\ image.headers = Headers /\ Reserved
      BY <2>3, <3>1 DEF IInv, Layout, Landed, RInv, ImageOk
    <3>3. PICK p : p = j - 1
      OBVIOUS
    <3>4. /\ p \in 1..cur /\ p \in DOMAIN ranges /\ ranges[p].kind = "nt"
          /\ ranges[j].offset = End(ranges[p])
      <4>1. /\ j > 1 /\ ranges[p].kind = "nt" /\ ranges[j].offset = End(ranges[p])
        BY <2>3, <3>2, <3>3 DEF RangeFits
      <4>2. cur \in Nat
        BY DEF IInv, TypeOK, FieldTypes
      <4>3. p \in 1..cur /\ p \in DOMAIN ranges
        BY <3>1, <3>3, <4>1, <4>2, RangeTypes
      <4> QED BY <4>1, <4>3
    <3>5. image.nt = <<NtHeaders>>
      BY <3>4, NtWritten
    <3>6. End(ranges[p]) = nt_headers_offset + (NtSize + Len(data_directories) * DirSize)
      <4>1. RangeFits(p)
        BY <3>4 DEF IInv, Layout
      <4> QED BY <3>4, <4>1 DEF RangeFits, End
    <3>7. /\ image.nt[1].e_lfanew = nt_headers_offset
          /\ image.nt[1].optional = OptionalHeaderSize
          /\ image.nt[1].sections = section_header_num % 65536
          /\ image.nt[1].headers_len = headers_len
      BY <3>5 DEF NtHeaders
    <3>8. landed[i].at = SectionTableAt(image.nt[1])
      <4>1. /\ NtSize \in Nat /\ Len(data_directories) * DirSize \in Nat
            /\ nt_headers_offset \in Nat
            /\ OptionalHeaderSize = NtSize - 24 + Len(data_directories) * DirSize
        BY OptionalFits DEF IInv, TypeOK
      <4>2. PICK z \in Nat : z = Len(data_directories) * DirSize
        BY <4>1
      <4> QED BY <3>2, <3>4, <3>6, <3>7, <4>1, <4>2 DEF SectionTableAt
    <3>9. Len(image.headers) = section_header_num
      <4>1. /\ sections \in Seq(SectionType) /\ Len(sections) = section_header_num
            /\ section_header_num \in Nat
        BY <3>2 DEF IInv, FieldTypes, Reserved
      <4>2. DOMAIN Headers = 1..section_header_num
        BY <4>1 DEF Headers
      <4>3. Len(Headers) = section_header_num
        BY <4>1, <4>2 DEF Headers
      <4> QED BY <3>2, <4>3
    <3>10. section_header_num % 65536 = section_header_num
      BY OptionalFits
    <3>11. End(ranges[j]) <= headers_len
      BY <2>3, <3>2 DEF RangeOk
    <3> QED BY <3>7, <3>8, <3>9, <3>10, <3>11
  <2> QED BY <2>1, <2>2, <2>3 DEF HeadersDescribe
<1> QED BY <1>1, ReaderInvariant, PTL

(* Where the image is complete, no part of a section that the reader would *)
(* take for its contents is missing: it is what was written for it.        *)
THEOREM ContentsBacked == Spec => []SectionsBacked
<1>1. ASSUME IInv, RInv PROVE SectionsBacked
  <2> USE <1>1
  <2> SUFFICES ASSUME Done, NEW i \in DOMAIN image.headers,
                      NEW s, s = image.headers[i], Readable(s) # 0
               PROVE  /\ s.offset + Readable(s) <= buf
                      /\ \E j \in DOMAIN landed :
                            landed[j].at = s.offset /\ ranges[landed[j].range].section = i
    BY DEF SectionsBacked
  <2>1. i \in DOMAIN sections /\ s = sections[i].range
    <3>1. image.headers = Headers
      BY DEF RInv, ImageOk
    <3> QED BY <3>1 DEF Headers
  <2>2. s.fsize # 0
    BY <2>1, ReadableType
  <2>3. PICK j \in DOMAIN ranges : IsData(j) /\ ranges[j].section = i
    BY <2>1, <2>2 DEF RInv, SectionOk
  <2>4. Written(j) /\ ranges[j].offset = s.offset
    BY <2>1, <2>3, AllWritten DEF RInv, RangeOk
  <2>5. PICK l \in DOMAIN landed : landed[l].range = j
    BY <2>1, <2>3, <2>4 DEF Written
  <2>6. landed[l].at = s.offset
    BY <2>4, <2>5 DEF IInv, Landed
  <2> QED BY <2>1, <2>3, <2>4, <2>5, <2>6 DEF Written
<1> QED BY <1>1, ReaderInvariant, PTL

(* The address in the directory of a section that has one leads the reader *)
(* to that section and to no other, and the size to all of its data.       *)
THEOREM DirectoriesFound == Spec => []DirectoriesResolve
<1>1. ASSUME IInv, RInv PROVE DirectoriesResolve
  <2> USE <1>1
  <2> SUFFICES ASSUME Done, NEW i \in DOMAIN sections, NEW k, k = sections[i].kind,
                      NEW d, d = image.nt[1].directories[DirectoryOf[k] + 1],
                      k \in DOMAIN DirectoryOf, sections[i].range.vsize # 0
               PROVE  /\ SectionsAt(d.address) # {} /\ FirstAt(d.address) = i
                      /\ d.size = sections[i].data
                      /\ d.size <= Readable(image.headers[i])
    BY DEF DirectoriesResolve
  <2>1. PICK s : s = sections[i].range
    OBVIOUS
  <2>2. /\ s.address \in Nat /\ s.vsize \in Nat \ {0} /\ s.fsize \in Nat
        /\ i \in Nat /\ i >= 1 /\ i <= Len(sections) /\ Len(sections) \in Nat
        /\ headers_len # 0
    BY <2>1, SectionFacts
  <2>3. /\ s.fsize = AlignUp(sections[i].data, fmt.file) /\ sections[i].data = s.vsize
        /\ data_directories[DirectoryOf[k] + 1] = [address |-> s.address, size |-> s.vsize]
    BY <2>1 DEF RInv, SectionOk
  <2>4. s.fsize >= s.vsize /\ Readable(s) = s.vsize
    <3>1. fmt.file \in Nat \ {0}
      BY DEF IInv, FieldTypes
    <3>2. AlignUp(s.vsize, fmt.file) >= s.vsize
      BY <2>2, <3>1, AlignUpType
    <3> QED BY <2>2, <2>3, <3>2 DEF Readable, Least
  <2>5. image.headers = Headers /\ image.nt = <<NtHeaders>>
    <3>1. section_header_num # 0
      BY <2>2 DEF Done, Reserved
    <3>2. \E j \in DOMAIN ranges : ranges[j].kind = "shdrs"
      BY <2>2, <3>1 DEF RInv, HeadersOk
    <3> QED BY <3>2, AllWritten
  <2>6. d = [address |-> s.address, size |-> s.vsize]
    BY <2>3, <2>5 DEF NtHeaders
  <2>7. PICK a : a = s.address
    OBVIOUS
  <2>8. i \in SectionsAt(a)
    <3>1. i \in DOMAIN image.headers /\ image.headers[i] = s
      BY <2>1, <2>5 DEF Headers
    <3>2. Holds(s, a)
      BY <2>2, <2>4, <2>7 DEF Holds
    <3> QED BY <3>1, <3>2 DEF SectionsAt
  <2>9. ASSUME NEW j \in SectionsAt(a) PROVE j \in Nat /\ i <= j
    <3>1. /\ j \in DOMAIN sections /\ image.headers[j] = sections[j].range
          /\ Holds(image.headers[j], a)
      BY <2>5, <2>9 DEF SectionsAt, Headers
    <3>2. PICK r : r = sections[j].range
      OBVIOUS
    <3>3. /\ r.address \in Nat /\ r.vsize \in Nat /\ j \in Nat /\ j >= 1
          /\ Readable(r) \in Nat /\ Readable(r) <= r.vsize
      BY <3>1, <3>2, SectionFacts, ReadableType
    <3>4. a - r.address < r.vsize
      BY <2>2, <2>7, <3>1, <3>2, <3>3 DEF Holds
    <3>5. CASE j < i
      <4>1. j \in 1..(i - 1)
        BY <2>2, <3>3, <3>5
      <4>2. r.address + r.vsize <= s.address
        BY <2>1, <3>2, <4>1 DEF IInv, SectionsApart
      <4> QED BY <2>2, <2>7, <3>3, <3>4, <4>2
    <3> QED BY <2>2, <3>3, <3>5
  <2>10. FirstAt(a) = i
    <3>1. \E j \in SectionsAt(a) : \A q \in SectionsAt(a) : j <= q
      BY <2>8, <2>9
    <3>2. PICK j : j = FirstAt(a)
      OBVIOUS
    <3>3. j \in SectionsAt(a) /\ \A q \in SectionsAt(a) : j <= q
      BY <3>1, <3>2 DEF FirstAt
    <3>4. j <= i /\ i <= j /\ j \in Nat
      BY <2>8, <2>9, <3>3
    <3> QED BY <2>2, <3>2, <3>4
  <2>11. image.headers[i] = s
    BY <2>1, <2>5 DEF Headers
  <2> QED BY <2>2, <2>3, <2>4, <2>6, <2>7, <2>8, <2>10, <2>11
<1> QED BY <1>1, ReaderInvariant, PTL

-------------------------------------------------------------------------------
(* Sequences, element by element *)

(* The i-th steps of two functions are alike: where the functions agree    *)
(* before it, they agree after it.                                         *)
Step(f, g, i) == f[i - 1] = g[i - 1] => f[i] = g[i]

LEMMA StepsAgree ==
    ASSUME NEW n \in Nat, NEW f, NEW g, f[0] = g[0], \A i \in 1..n : Step(f, g, i)
    PROVE  \A i \in 0..n : f[i] = g[i]
<1> DEFINE T == [i \in 0..n |-> {g[i]}]
<1>1. \A i \in 0..n : T[i] = {g[i]}
  OBVIOUS
<1> HIDE DEF T
<1>2. f[0] \in T[0]
  BY <1>1
<1>3. ASSUME NEW i \in 1..n, f[i - 1] \in T[i - 1] PROVE f[i] \in T[i]
  <2>1. i \in 0..n /\ i - 1 \in 0..n /\ Step(f, g, i)
    OBVIOUS
  <2> QED BY <1>1, <1>3, <2>1 DEF Step
<1>4. \A i \in 0..n : f[i] \in T[i]
  BY <1>2, <1>3, Stays
<1> QED BY <1>1, <1>4

(* The steps of Only.                                                      *)
OnlySteps(f, S, s, K) ==
    /\ f \in [0..Len(s) -> Seq(S)] /\ f[0] = <<>>
    /\ \A i \in 1..Len(s) :
         f[i] = IF s[i] \in K THEN Append(f[i - 1], s[i]) ELSE f[i - 1]

LEMMA OnlyIs ==
    ASSUME NEW S, NEW s \in Seq(S), NEW K
    PROVE  \E f : OnlySteps(f, S, s, K) /\ Only(s, K) = f[Len(s)]
<1> DEFINE V == Seq(S)
           n == Len(s)
           T == [i \in 0..n |-> V]
           G == [i \in 1..n |->
                    [y \in V |-> IF s[i] \in K THEN Append(y, s[i]) ELSE y]]
<1>1. n \in Nat
  OBVIOUS
<1>2. ASSUME NEW i \in 1..n, NEW y \in V
      PROVE  /\ G[i][y] \in V
             /\ G[i][y] = IF s[i] \in K THEN Append(y, s[i]) ELSE y
  <2>1. s[i] \in S
    BY ElementOfSeq
  <2>2. Append(y, s[i]) \in V
    BY <2>1, AppendProperties
  <2> QED BY <2>2
<1>3. <<>> \in V
  BY EmptySeq
<1>4. \A i \in 0..n : T[i] = V
  OBVIOUS
<1> HIDE DEF V, T, G
<1>5. Leads(n, V, T, G, <<>>)
  <2> HIDE DEF n
  <2>1. \A i \in 1..n : i \in 0..n /\ i - 1 \in 0..n
    BY <1>1
  <2>2. 0 \in 0..n
    BY <1>1
  <2> QED BY <1>2, <1>3, <1>4, <2>1, <2>2 DEF Leads
<1>6. PICK g : Solves(g, n, V, T, G, <<>>)
  <2> HIDE DEF n
  <2> QED BY <1>1, <1>5, Iterates
<1>7. /\ g \in [0..n -> V] /\ g[0] = <<>>
      /\ \A i \in 1..n : g[i] = IF s[i] \in K THEN Append(g[i - 1], s[i]) ELSE g[i - 1]
  <2>1. \A i \in 1..n : g[i - 1] \in V
    BY <1>6, <1>1 DEF Solves
  <2> QED BY <1>2, <1>6, <2>1 DEF Solves
<1> DEFINE F(h) == h = [i \in 0..n |->
                           IF i = 0 THEN <<>>
                           ELSE IF s[i] \in K THEN Append(h[i - 1], s[i]) ELSE h[i - 1]]
           f[i \in 0..n] == IF i = 0 THEN <<>>
                            ELSE IF s[i] \in K THEN Append(f[i - 1], s[i]) ELSE f[i - 1]
<1>8. F(g)
  <2>1. ASSUME NEW i \in 0..n
        PROVE  g[i] = IF i = 0 THEN <<>>
                      ELSE IF s[i] \in K THEN Append(g[i - 1], s[i]) ELSE g[i - 1]
    <3> HIDE DEF n
    <3>1. i = 0 \/ i \in 1..n
      BY <1>1
    <3> QED BY <1>1, <1>7, <3>1
  <2> HIDE DEF n
  <2> QED BY <1>7, <2>1
<1>9. F(f)
  BY <1>8
<1> HIDE DEF f
<1>10. f[0] = g[0] /\ \A i \in 1..n : f[i - 1] = g[i - 1] => f[i] = g[i]
  <2> HIDE DEF n
  <2>1. \A i \in 0..n : f[i] = IF i = 0 THEN <<>>
                               ELSE IF s[i] \in K THEN Append(f[i - 1], s[i]) ELSE f[i - 1]
    BY <1>9
  <2>2. \A i \in 1..n : i \in 0..n /\ i # 0
    BY <1>1
  <2> QED BY <1>1, <1>7, <2>1, <2>2
<1>11. \A i \in 0..n : f[i] = g[i]
  <2> HIDE DEF n
  <2>1. \A i \in 1..n : Step(f, g, i)
    BY <1>10 DEF Step
  <2> QED BY <1>1, <1>10, <2>1, StepsAgree, SMTT(30), ZenonT(30)
<1>12. OnlySteps(g, S, s, K)
  BY <1>7 DEF OnlySteps, V
<1>13. Only(s, K) = g[n]
  <2>1. Only(s, K) = f[n]
    BY DEF Only, f
  <2> QED BY <1>1, <1>11, <2>1
<1> QED BY <1>12, <1>13

LEMMA OnlyAppends ==
    ASSUME NEW S, NEW s \in Seq(S), NEW e \in S, NEW K
    PROVE  /\ Only(s, K) \in Seq(S)
           /\ Only(Append(s, e), K) =
                IF e \in K THEN Append(Only(s, K), e) ELSE Only(s, K)
<1> DEFINE t == Append(s, e)
           n == Len(s)
<1>1. n = Len(s) /\ n \in Nat /\ t \in Seq(S) /\ Len(t) = n + 1 /\ t[n + 1] = e
      /\ \A i \in 1..n : t[i] = s[i]
  OBVIOUS
<1>2. PICK f : OnlySteps(f, S, s, K) /\ Only(s, K) = f[n]
  BY OnlyIs
<1>3. f \in [0..n -> Seq(S)]
  BY <1>2 DEF OnlySteps
<1> HIDE DEF t, n
<1>4. PICK g : OnlySteps(g, S, t, K) /\ Only(t, K) = g[n + 1]
  BY <1>1, OnlyIs
<1>5. f[0] = g[0]
  BY <1>2, <1>4 DEF OnlySteps
<1>6. ASSUME NEW i \in 1..n, f[i - 1] = g[i - 1] PROVE f[i] = g[i]
  <2>1. i \in 1..n /\ i \in 1..(n + 1)
    BY <1>1
  <2> QED BY <1>1, <1>2, <1>4, <1>6, <2>1 DEF OnlySteps
<1>7. f[n] = g[n] /\ f[n] \in Seq(S)
  <2>1. n \in Nat /\ n \in 0..n
    BY <1>1
  <2>2. \A i \in 1..n : Step(f, g, i)
    BY <1>6 DEF Step
  <2>3. \A i \in 0..n : f[i] = g[i]
    BY <2>1, <1>5, <2>2, StepsAgree, Zenon
  <2> QED BY <1>3, <2>1, <2>3
<1>8. g[n + 1] = IF e \in K THEN Append(g[n], e) ELSE g[n]
  <2>1. n + 1 \in 1..Len(t) /\ (n + 1) - 1 = n
    BY <1>1
  <2> QED BY <1>1, <1>4, <2>1 DEF OnlySteps
<1> QED BY <1>2, <1>4, <1>7, <1>8 DEF t

LEMMA OnlyEmpty == ASSUME NEW K PROVE Only(<<>>, K) = <<>>
<1>1. <<>> \in Seq(Nat) /\ Len(<<>>) = 0
  OBVIOUS
<1>2. PICK f : OnlySteps(f, Nat, <<>>, K) /\ Only(<<>>, K) = f[0]
  BY <1>1, OnlyIs
<1> QED BY <1>2 DEF OnlySteps

-------------------------------------------------------------------------------
(* What is read of the blocks of relocations *)

Entry == [address : Nat, type : Nat]
WrittenBlock == [page : Nat, size : Nat, entries : Seq(Nat)]

LEMMA RelocationType ==
    ASSUME NEW page \in Nat, NEW e \in Nat PROVE Relocation(page, e) \in Entry
<1>1. PAGE \in Nat \ {0}
  BY DEF PAGE
<1>2. page + (e % PAGE) \in Nat /\ e \div PAGE \in Nat
  BY DEF PAGE
<1> QED BY <1>2 DEF Relocation, Entry

LEMMA ReadBlockType ==
    ASSUME NEW page \in Nat, NEW s \in Seq(Nat)
    PROVE  [i \in DOMAIN s |-> Relocation(page, s[i])] \in Seq(Entry)
<1>1. ASSUME NEW i \in 1..Len(s) PROVE Relocation(page, s[i]) \in Entry
  <2>1. s[i] \in Nat
    BY ElementOfSeq
  <2> QED BY <2>1, RelocationType
<1>2. DOMAIN s = 1..Len(s) /\ Len(s) \in Nat
  OBVIOUS
<1>3. [i \in 1..Len(s) |-> Relocation(page, s[i])] \in Seq(Entry)
  BY <1>1, <1>2, IsASeq
<1> QED BY <1>2, <1>3

LEMMA BlockRead == ASSUME NEW b \in WrittenBlock PROVE ReadBlock(b) \in Seq(Entry)
<1>1. b.page \in Nat /\ b.entries \in Seq(Nat)
  BY DEF WrittenBlock
<1>2. PICK s : s = Only(b.entries, Nat \ {0})
  OBVIOUS
<1>3. s \in Seq(Nat)
  BY <1>1, <1>2, OnlyAppends, ZenonT(40)
<1>4. ReadBlock(b) = [i \in DOMAIN s |-> Relocation(b.page, s[i])]
  BY <1>2 DEF ReadBlock
<1> QED BY <1>1, <1>3, <1>4, ReadBlockType

(* One more entry is one more relocation, but for padding.                 *)
LEMMA BlockReadGrows ==
    ASSUME NEW b \in WrittenBlock, NEW c \in WrittenBlock, NEW e \in Nat,
           c.page = b.page, c.entries = Append(b.entries, e)
    PROVE  ReadBlock(c) = IF e = 0 THEN ReadBlock(b)
                          ELSE Append(ReadBlock(b), Relocation(b.page, e))
<1>1. b.page \in Nat /\ b.entries \in Seq(Nat)
  BY DEF WrittenBlock
<1>2. PICK s : s = Only(b.entries, Nat \ {0})
  OBVIOUS
<1>3. PICK t : t = Only(c.entries, Nat \ {0})
  OBVIOUS
<1>4. s \in Seq(Nat) /\ t = IF e = 0 THEN s ELSE Append(s, e)
  <2>1. PICK K : K = Nat \ {0}
    OBVIOUS
  <2> DEFINE N == Nat
             d == b.entries
  <2>2. d \in Seq(N) /\ e \in N
    BY <1>1
  <2> HIDE DEF N, d
  <2>3. /\ Only(d, K) \in Seq(N)
        /\ Only(Append(d, e), K) = IF e \in K THEN Append(Only(d, K), e) ELSE Only(d, K)
    BY <2>2, OnlyAppends
  <2>4. s = Only(d, K) /\ t = Only(Append(d, e), K)
    BY <1>2, <1>3, <2>1 DEF d
  <2>5. e \in K <=> e # 0
    BY <2>1
  <2> QED BY <2>3, <2>4, <2>5 DEF N
<1>5. PICK r : r = [i \in DOMAIN s |-> Relocation(b.page, s[i])]
  OBVIOUS
<1>6. ReadBlock(b) = r
  BY <1>2, <1>5 DEF ReadBlock
<1>7. ReadBlock(c) = [i \in DOMAIN t |-> Relocation(b.page, t[i])]
  BY <1>3 DEF ReadBlock
<1>8. CASE e = 0
  BY <1>4, <1>5, <1>6, <1>7, <1>8
<1>9. CASE e # 0
  <2>1. t = Append(s, e) /\ t \in Seq(Nat)
    BY <1>4, <1>9
  <2>2. PICK n \in Nat : n = Len(s)
    BY <1>4
  <2>3. /\ DOMAIN t = 1..(n + 1) /\ DOMAIN s = 1..n /\ t[n + 1] = e
        /\ \A i \in 1..n : t[i] = s[i]
    BY <1>4, <2>1, <2>2
  <2>4. r \in Seq(Entry)
    BY <1>1, <1>4, <1>5, ReadBlockType
  <2>5. Len(r) = n
    BY <1>5, <2>2, <2>3, <2>4
  <2>6. PICK x \in Entry : x = Relocation(b.page, e)
    BY <1>1, RelocationType
  <2>7. PICK u : u = [i \in DOMAIN t |-> Relocation(b.page, t[i])]
    OBVIOUS
  <2>8. u \in Seq(Entry)
    BY <1>1, <2>1, <2>7, ReadBlockType
  <2>9. Append(r, x) \in Seq(Entry) /\ Len(Append(r, x)) = n + 1
    BY <2>4, <2>5, AppendProperties
  <2>10. Len(u) = n + 1
    BY <2>2, <2>3, <2>7, <2>8
  <2>11. ASSUME NEW i \in 1..(n + 1) PROVE u[i] = Append(r, x)[i]
    <3>1. u[i] = Relocation(b.page, t[i])
      BY <2>3, <2>7
    <3>2. CASE i = n + 1
      <4>1. Append(r, x)[n + 1] = x
        BY <2>2, <2>4, <2>5
      <4> QED BY <2>3, <2>6, <3>1, <3>2, <4>1
    <3>3. CASE i \in 1..n
      <4>1. Append(r, x)[i] = r[i]
        BY <2>2, <2>4, <2>5, <3>3
      <4>2. r[i] = Relocation(b.page, s[i])
        BY <1>5, <2>3, <3>3
      <4>3. t[i] = s[i]
        BY <2>3, <3>3
      <4> QED BY <3>1, <4>1, <4>2, <4>3, Zenon
    <3>4. i = n + 1 \/ i \in 1..n
      OBVIOUS
    <3> QED BY <3>2, <3>3, <3>4, Zenon
  <2>12. u = Append(r, x)
    BY <2>8, <2>9, <2>10, <2>11, SeqEqual
  <2> QED BY <1>6, <1>7, <1>9, <2>6, <2>7, <2>12
<1> QED BY <1>8, <1>9

LEMMA BlockReadOne ==
    ASSUME NEW b \in WrittenBlock, NEW e \in Nat, b.entries = <<e>>
    PROVE  ReadBlock(b) = IF e = 0 THEN <<>> ELSE <<Relocation(b.page, e)>>
<1>1. PICK a : a = [page |-> b.page, size |-> 0, entries |-> <<>>]
  OBVIOUS
<1>2. a \in WrittenBlock /\ a.page = b.page /\ a.entries = <<>>
  BY <1>1 DEF WrittenBlock
<1>3. b.entries = Append(a.entries, e)
  BY <1>2
<1>4. ReadBlock(b) = IF e = 0 THEN ReadBlock(a)
                     ELSE Append(ReadBlock(a), Relocation(b.page, e))
  BY <1>2, <1>3, BlockReadGrows
<1>5. ReadBlock(a) = <<>>
  BY <1>2, OnlyEmpty DEF ReadBlock
<1> QED BY <1>4, <1>5

(* The steps of ReadRelocs.                                                *)
ReadSteps(f, bs) ==
    /\ f \in [0..Len(bs) -> Seq(Entry)] /\ f[0] = <<>>
    /\ \A i \in 1..Len(bs) : f[i] = f[i - 1] \o ReadBlock(bs[i])

LEMMA ReadIs ==
    ASSUME NEW bs \in Seq(WrittenBlock)
    PROVE  \E f : ReadSteps(f, bs) /\ ReadRelocs(bs) = f[Len(bs)]
<1> DEFINE V == Seq(Entry)
           n == Len(bs)
           T == [i \in 0..n |-> V]
           G == [i \in 1..n |-> [y \in V |-> y \o ReadBlock(bs[i])]]
<1>1. n \in Nat
  OBVIOUS
<1>2. ASSUME NEW i \in 1..n, NEW y \in V
      PROVE  G[i][y] \in V /\ G[i][y] = y \o ReadBlock(bs[i])
  <2>1. bs[i] \in WrittenBlock
    BY ElementOfSeq
  <2>2. ReadBlock(bs[i]) \in V
    BY <2>1, BlockRead
  <2>3. y \o ReadBlock(bs[i]) \in V
    BY <2>2, ConcatProperties
  <2> QED BY <2>3
<1>3. <<>> \in V
  BY EmptySeq
<1>4. \A i \in 0..n : T[i] = V
  OBVIOUS
<1> HIDE DEF V, T, G
<1>5. Leads(n, V, T, G, <<>>)
  <2> HIDE DEF n
  <2>1. \A i \in 1..n : i \in 0..n /\ i - 1 \in 0..n
    BY <1>1
  <2>2. 0 \in 0..n
    BY <1>1
  <2> QED BY <1>2, <1>3, <1>4, <2>1, <2>2 DEF Leads
<1>6. PICK g : Solves(g, n, V, T, G, <<>>)
  <2> HIDE DEF n
  <2> QED BY <1>1, <1>5, Iterates
<1>7. /\ g \in [0..n -> V] /\ g[0] = <<>>
      /\ \A i \in 1..n : g[i] = g[i - 1] \o ReadBlock(bs[i])
  <2>1. \A i \in 1..n : g[i - 1] \in V
    BY <1>6, <1>1 DEF Solves
  <2> QED BY <1>2, <1>6, <2>1 DEF Solves
<1> DEFINE F(h) == h = [i \in 0..n |->
                           IF i = 0 THEN <<>> ELSE h[i - 1] \o ReadBlock(bs[i])]
           f[i \in 0..n] == IF i = 0 THEN <<>> ELSE f[i - 1] \o ReadBlock(bs[i])
<1>8. F(g)
  <2>1. ASSUME NEW i \in 0..n
        PROVE  g[i] = IF i = 0 THEN <<>> ELSE g[i - 1] \o ReadBlock(bs[i])
    <3> HIDE DEF n
    <3>1. i = 0 \/ i \in 1..n
      BY <1>1
    <3> QED BY <1>1, <1>7, <3>1
  <2> HIDE DEF n
  <2> QED BY <1>7, <2>1
<1>9. F(f)
  BY <1>8
<1> HIDE DEF f
<1>10. f[0] = g[0] /\ \A i \in 1..n : f[i - 1] = g[i - 1] => f[i] = g[i]
  <2> HIDE DEF n
  <2>1. \A i \in 0..n : f[i] = IF i = 0 THEN <<>> ELSE f[i - 1] \o ReadBlock(bs[i])
    BY <1>9
  <2>2. 0 \in 0..n /\ \A i \in 1..n : i \in 0..n /\ i # 0
    BY <1>1
  <2>3. f[0] = g[0]
    BY <1>7, <2>1, <2>2
  <2>4. ASSUME NEW i \in 1..n, f[i - 1] = g[i - 1] PROVE f[i] = g[i]
    <3>1. f[i] = f[i - 1] \o ReadBlock(bs[i])
      BY <2>1, <2>2
    <3>2. g[i] = g[i - 1] \o ReadBlock(bs[i])
      BY <1>7
    <3> QED BY <2>4, <3>1, <3>2, Zenon
  <2> QED BY <2>3, <2>4
<1>11. \A i \in 0..n : f[i] = g[i]
  <2> HIDE DEF n
  <2>1. \A i \in 1..n : Step(f, g, i)
    BY <1>10 DEF Step
  <2> QED BY <1>1, <1>10, <2>1, StepsAgree, SMTT(30), ZenonT(30)
<1>12. ReadSteps(g, bs)
  BY <1>7 DEF ReadSteps, V
<1>13. ReadRelocs(bs) = g[n]
  <2>1. ReadRelocs(bs) = f[n]
    BY DEF ReadRelocs, f
  <2> QED BY <1>1, <1>11, <2>1
<1> QED BY <1>12, <1>13

(* A block behind others is read behind them.                              *)
LEMMA ReadExtends ==
    ASSUME NEW as \in Seq(WrittenBlock), NEW bs \in Seq(WrittenBlock),
           NEW n \in Nat, Len(as) = n, Len(bs) = n + 1,
           \A i \in 1..n : bs[i] = as[i]
    PROVE  /\ ReadRelocs(as) \in Seq(Entry)
           /\ ReadRelocs(bs) = ReadRelocs(as) \o ReadBlock(bs[n + 1])
<1>1. PICK f : ReadSteps(f, as) /\ ReadRelocs(as) = f[n]
  BY ReadIs
<1>2. PICK g : ReadSteps(g, bs) /\ ReadRelocs(bs) = g[n + 1]
  BY ReadIs
<1>3. f[0] = g[0]
  BY <1>1, <1>2 DEF ReadSteps
<1>4. ASSUME NEW i \in 1..n, f[i - 1] = g[i - 1] PROVE f[i] = g[i]
  <2>1. i \in 1..(n + 1)
    OBVIOUS
  <2> QED BY <1>1, <1>2, <1>4, <2>1 DEF ReadSteps
<1>5. f[n] = g[n] /\ f[n] \in Seq(Entry)
  <2>1. n \in 0..n
    OBVIOUS
  <2>2. \A i \in 1..n : Step(f, g, i)
    BY <1>4 DEF Step
  <2>3. \A i \in 0..n : f[i] = g[i]
    BY <1>3, <2>2, StepsAgree
  <2> QED BY <1>1, <2>1, <2>3 DEF ReadSteps
<1>6. g[n + 1] = g[n] \o ReadBlock(bs[n + 1])
  <2>1. n + 1 \in 1..Len(bs) /\ (n + 1) - 1 = n
    OBVIOUS
  <2> QED BY <1>2, <2>1 DEF ReadSteps
<1> QED BY <1>1, <1>2, <1>5, <1>6

-------------------------------------------------------------------------------
(* Where the blocks' relocations are among all of them *)

BlockType == [page : Nat, count : Nat]

Before(bs, i) == (RelocSize(bs, i - 1) - 8 * (i - 1)) \div 2

BlocksOf(bs, rs) ==
    [i \in DOMAIN bs |->
        [page |-> bs[i].page, size |-> BlockSize(bs[i]),
         entries |-> SubSeq(rs, Before(bs, i) + 1, Before(bs, i) + bs[i].count)]]

(* The relocations of the first i blocks are the first c[i].               *)
Cuts(c, bs) ==
    /\ c \in [0..Len(bs) -> Nat] /\ c[0] = 0
    /\ \A i \in 1..Len(bs) : c[i] = c[i - 1] + bs[i].count
    /\ \A i \in 0..Len(bs) : Before(bs, i + 1) = c[i]

LEMMA HalfOfRest ==
    ASSUME NEW s \in Nat, NEW m \in Nat, NEW q \in Nat, s = 8 * m + 2 * q
    PROVE  (s - 8 * m) \div 2 = q
OBVIOUS

LEMMA CutsExist == ASSUME NEW bs \in Seq(BlockType) PROVE \E c : Cuts(c, bs)
<1> DEFINE n == Len(bs)
           e == BlockSizes(bs)
           P(m, q) == q \in Nat /\ SumTo(e, m) = 8 * m + 2 * q
           S == {m \in Nat : m <= n => \E q : P(m, q)}
<1>1. n \in Nat
  OBVIOUS
<1>2. ASSUME NEW i \in 1..n
      PROVE  bs[i].count \in Nat /\ e[i] = 8 + 2 * bs[i].count /\ e[i] \in Nat
  <2>1. bs[i] \in BlockType
    BY ElementOfSeq
  <2>2. e[i] = BlockSize(bs[i])
    BY DEF BlockSizes
  <2> QED BY <2>1, <2>2 DEF BlockType, BlockSize
<1> HIDE DEF e, n
<1>3. SumTo(e, 0) = 0
  BY SumToZero
<1>4. ASSUME NEW m \in Nat, m + 1 <= n
      PROVE  \E k \in Nat : k = bs[m + 1].count /\ SumTo(e, m + 1) = SumTo(e, m) + 8 + 2 * k
  <2>1. m + 1 \in 1..n /\ \A i \in 1..m : i \in 1..n
    BY <1>1, <1>4
  <2>2. \A i \in 1..m : e[i] \in Nat /\ e[i] = e[i]
    BY <1>2, <2>1
  <2>3. e[m + 1] \in Nat /\ e[m + 1] = 8 + 2 * bs[m + 1].count /\ bs[m + 1].count \in Nat
    BY <1>2, <2>1
  <2>4. SumTo(e, m + 1) = SumTo(e, m) + e[m + 1]
    BY <2>2, <2>3, SumToExtends
  <2>5. SumTo(e, m) \in Nat
    BY <2>2, SumToType
  <2>6. PICK k \in Nat : k = bs[m + 1].count
    BY <2>3
  <2>7. PICK s \in Nat : s = SumTo(e, m)
    BY <2>5
  <2>8. SumTo(e, m + 1) = s + (8 + 2 * k)
    BY <2>3, <2>4, <2>6, <2>7
  <2>9. SumTo(e, m + 1) = s + 8 + 2 * k
    BY <2>8
  <2> QED BY <2>6, <2>7, <2>9
<1>5. 0 \in S
  <2>1. P(0, 0)
    BY <1>3
  <2> QED BY <2>1
<1>6. ASSUME NEW m \in Nat, m \in S PROVE m + 1 \in S
  <2> SUFFICES ASSUME m + 1 <= n PROVE \E q : P(m + 1, q)
    OBVIOUS
  <2>1. PICK q : P(m, q)
    BY <1>1, <1>6
  <2>2. PICK k \in Nat : SumTo(e, m + 1) = SumTo(e, m) + 8 + 2 * k
    BY <1>4
  <2>3. P(m + 1, q + k)
    BY <2>1, <2>2
  <2> QED BY <2>3
<1>7. \A m \in Nat : m \in S
  <2> HIDE DEF S
  <2> QED BY <1>5, <1>6, SetInduction
<1>8. ASSUME NEW m \in 0..n
      PROVE  \E q \in Nat : SumTo(e, m) = 8 * m + 2 * q /\ Before(bs, m + 1) = q
  <2>1. m \in Nat /\ m <= n
    BY <1>1
  <2>2. PICK q : P(m, q)
    BY <1>7, <2>1
  <2>3. PICK s \in Nat : s = SumTo(e, m)
    BY <2>1, <2>2
  <2>4. (s - 8 * m) \div 2 = q
    BY <2>1, <2>2, <2>3, HalfOfRest
  <2>5. Before(bs, m + 1) = (s - 8 * m) \div 2
    <3>1. (m + 1) - 1 = m
      BY <2>1
    <3>2. RelocSize(bs, m) = s
      BY <2>3 DEF RelocSize, e
    <3> QED BY <3>1, <3>2 DEF Before
  <2> QED BY <2>2, <2>4, <2>5
<1> DEFINE c == [m \in 0..n |-> Before(bs, m + 1)]
<1>9. c \in [0..n -> Nat] /\ \A m \in 0..n : c[m] = Before(bs, m + 1)
  BY <1>8
<1> HIDE DEF c
<1>10. c[0] = 0
  <2>1. 0 \in 0..n
    BY <1>1
  <2>2. PICK q \in Nat : SumTo(e, 0) = 8 * 0 + 2 * q /\ Before(bs, 0 + 1) = q
    BY <1>8, <2>1
  <2> QED BY <1>3, <1>9, <2>1, <2>2
<1>11. ASSUME NEW i \in 1..n PROVE c[i] = c[i - 1] + bs[i].count
  <2>1. PICK m \in Nat : i = m + 1 /\ m \in 0..n /\ m + 1 \in 0..n /\ m + 1 <= n
    <3>1. i = (i - 1) + 1 /\ i - 1 \in Nat /\ i - 1 \in 0..n /\ i \in 0..n
      BY <1>1
    <3> QED BY <1>1, <3>1
  <2>2. PICK q \in Nat : SumTo(e, m) = 8 * m + 2 * q /\ Before(bs, m + 1) = q
    BY <1>8, <2>1
  <2>3. PICK p \in Nat : SumTo(e, m + 1) = 8 * (m + 1) + 2 * p /\ Before(bs, (m + 1) + 1) = p
    BY <1>8, <2>1
  <2>4. PICK k \in Nat : k = bs[m + 1].count /\ SumTo(e, m + 1) = SumTo(e, m) + 8 + 2 * k
    BY <1>4, <2>1
  <2>5. 8 * (m + 1) + 2 * p = (8 * m + 2 * q) + 8 + 2 * k
    BY <2>2, <2>3, <2>4, Zenon
  <2>6. p = q + k
    BY <2>5
  <2>7. c[m + 1] = p /\ c[m] = q
    BY <1>9, <2>1, <2>2, <2>3
  <2>8. i - 1 = m
    BY <2>1
  <2> QED BY <2>1, <2>4, <2>6, <2>7, <2>8
<1>12. Cuts(c, bs)
  BY <1>9, <1>10, <1>11 DEF Cuts, n
<1> QED BY <1>12

(* None is behind the last.                                                *)
LEMMA CutsRise ==
    ASSUME NEW bs \in Seq(BlockType), NEW c, Cuts(c, bs)
    PROVE  \A i \in 0..Len(bs) : c[i] <= c[Len(bs)]
<1> DEFINE n == Len(bs)
           S == {m \in Nat : m <= n => c[n - m] <= c[n]}
<1>1. n \in Nat
  OBVIOUS
<1>2. ASSUME NEW i \in 1..n
      PROVE  c[i] \in Nat /\ c[i - 1] \in Nat /\ c[i - 1] <= c[i]
  <2>1. bs[i] \in BlockType
    BY ElementOfSeq
  <2>2. bs[i].count \in Nat
    BY <2>1 DEF BlockType
  <2>3. i \in 0..n /\ i - 1 \in 0..n
    OBVIOUS
  <2>4. c[i] \in Nat /\ c[i - 1] \in Nat
    BY <2>3 DEF Cuts
  <2>5. c[i] = c[i - 1] + bs[i].count
    BY DEF Cuts
  <2> QED BY <2>2, <2>4, <2>5
<1>3. c[n] \in Nat
  BY <1>1 DEF Cuts
<1> HIDE DEF n
<1>4. 0 \in S
  BY <1>1, <1>3
<1>5. ASSUME NEW m \in Nat, m \in S PROVE m + 1 \in S
  <2> SUFFICES ASSUME m + 1 <= n PROVE c[n - (m + 1)] <= c[n]
    OBVIOUS
  <2>1. PICK i \in 1..n : i = n - m /\ i - 1 = n - (m + 1)
    BY <1>1
  <2>2. c[i - 1] <= c[i] /\ c[i - 1] \in Nat /\ c[i] \in Nat
    BY <1>2
  <2>3. c[i] <= c[n]
    BY <1>1, <1>5, <2>1
  <2>4. c[i - 1] <= c[n]
    BY <1>3, <2>2, <2>3
  <2> QED BY <2>1, <2>4
<1>6. \A m \in Nat : m \in S
  <2> HIDE DEF S
  <2> QED BY <1>4, <1>5, SetInduction
<1>7. ASSUME NEW i \in 0..n PROVE c[i] <= c[n]
  <2>1. PICK m \in Nat : m = n - i /\ m <= n /\ n - m = i
    BY <1>1
  <2>2. m \in S
    BY <1>6
  <2>3. c[n - m] <= c[n]
    BY <2>1, <2>2
  <2> QED BY <2>1, <2>3
<1> QED BY <1>7 DEF n

(* Blocks that begin alike are cut alike as far.                           *)
Alike(bs, cs, m) ==
    m <= Len(bs) /\ m <= Len(cs) /\ \A i \in 1..m : cs[i] = bs[i]

LEMMA CutsAlike ==
    ASSUME NEW bs \in Seq(BlockType), NEW cs \in Seq(BlockType), NEW b, NEW c,
           Cuts(b, bs), Cuts(c, cs), NEW m \in Nat, Alike(bs, cs, m)
    PROVE  \A i \in 0..m : b[i] = c[i]
<1>1. b[0] = c[0]
  BY DEF Cuts
<1>2. ASSUME NEW i \in 1..m, b[i - 1] = c[i - 1] PROVE b[i] = c[i]
  <2>1. i \in 1..Len(bs) /\ i \in 1..Len(cs)
    BY DEF Alike
  <2>2. b[i] = b[i - 1] + bs[i].count /\ c[i] = c[i - 1] + cs[i].count
    BY <2>1 DEF Cuts
  <2>3. cs[i] = bs[i]
    BY DEF Alike
  <2> QED BY <1>2, <2>2, <2>3
<1>3. \A i \in 1..m : Step(b, c, i)
  BY <1>2 DEF Step
<1> QED BY <1>1, <1>3, StepsAgree, Zenon

-------------------------------------------------------------------------------
(* The blocks as they are written *)

CutOf(rs, a, k) == SubSeq(rs, a + 1, a + k)

LEMMA CutIs ==
    ASSUME NEW rs \in Seq(Nat), NEW a \in Nat, NEW k \in Nat, a + k <= Len(rs)
    PROVE  /\ CutOf(rs, a, k) \in Seq(Nat) /\ Len(CutOf(rs, a, k)) = k
           /\ \A j \in 1..k : CutOf(rs, a, k)[j] = rs[a + j]
<1>1. PICK m \in Int, n \in Int : m = a + 1 /\ n = a + k
  OBVIOUS
<1>2. ASSUME NEW j \in m..n PROVE rs[j] \in Nat
  <2>1. j \in 1..Len(rs)
    BY <1>1
  <2> QED BY <2>1, ElementOfSeq
<1>3. PICK s : s = SubSeq(rs, m, n)
  OBVIOUS
<1>4. /\ s \in Seq(Nat) /\ Len(s) = IF m <= n THEN n - m + 1 ELSE 0
      /\ \A j \in 1..(n - m + 1) : s[j] = rs[m + j - 1]
  BY <1>2, <1>3, SubSeqProperties
<1>5. n - m + 1 = k /\ \A j \in 1..k : m + j - 1 = a + j
  BY <1>1
<1>6. Len(s) = k
  BY <1>1, <1>4, <1>5
<1>7. \A j \in 1..k : s[j] = rs[a + j]
  BY <1>4, <1>5
<1> QED BY <1>1, <1>3, <1>4, <1>6, <1>7 DEF CutOf

WrittenAs(p, k, es) == [page |-> p, size |-> 8 + 2 * k, entries |-> es]

(* The block numbered i of those that c cuts.                              *)
IsBlock(bs, rs, c, i) ==
    \E p \in Nat, k \in Nat, a \in Nat :
        /\ p = bs[i].page /\ k = bs[i].count /\ a = c[i - 1] /\ c[i] = a + k
        /\ a + k <= Len(rs)
        /\ BlocksOf(bs, rs)[i] = WrittenAs(p, k, CutOf(rs, a, k))

LEMMA BlockIs ==
    ASSUME NEW bs \in Seq(BlockType), NEW rs \in Seq(Nat), NEW c, Cuts(c, bs),
           c[Len(bs)] = Len(rs), NEW i \in 1..Len(bs)
    PROVE  IsBlock(bs, rs, c, i)
<1>1. bs[i] \in BlockType
  BY ElementOfSeq
<1>2. PICK k \in Nat : k = bs[i].count
  BY <1>1 DEF BlockType
<1>3. PICK a \in Nat : a = c[i - 1] /\ Before(bs, i) = a /\ c[i] = a + k
  <2>1. i - 1 \in 0..Len(bs) /\ (i - 1) + 1 = i
    OBVIOUS
  <2>2. c[i - 1] \in Nat /\ Before(bs, (i - 1) + 1) = c[i - 1]
    BY <2>1 DEF Cuts
  <2>3. c[i] = c[i - 1] + k
    BY <1>2 DEF Cuts
  <2> QED BY <2>1, <2>2, <2>3
<1>4. a + k <= Len(rs)
  <2>1. i \in 0..Len(bs)
    OBVIOUS
  <2>2. c[i] <= c[Len(bs)]
    BY <2>1, CutsRise
  <2> QED BY <1>3, <2>2
<1>5. PICK p \in Nat : p = bs[i].page
  BY <1>1 DEF BlockType
<1>6. BlocksOf(bs, rs)[i] =
        [page |-> bs[i].page, size |-> BlockSize(bs[i]),
         entries |-> SubSeq(rs, Before(bs, i) + 1, Before(bs, i) + bs[i].count)]
  <2>1. i \in DOMAIN bs
    OBVIOUS
  <2> QED BY <2>1, Zenon DEF BlocksOf
<1>7. BlockSize(bs[i]) = 8 + 2 * k
  BY <1>2 DEF BlockSize
<1>8. BlocksOf(bs, rs)[i] = WrittenAs(p, k, CutOf(rs, a, k))
  BY <1>2, <1>3, <1>5, <1>6, <1>7, Zenon DEF WrittenAs, CutOf
<1> QED BY <1>2, <1>3, <1>4, <1>5, <1>8, Zenon DEF IsBlock

LEMMA WrittenFields ==
    ASSUME NEW p, NEW k, NEW es
    PROVE  WrittenAs(p, k, es).page = p /\ WrittenAs(p, k, es).entries = es
BY DEF WrittenAs

LEMMA WrittenType ==
    ASSUME NEW p \in Nat, NEW k \in Nat, NEW es \in Seq(Nat)
    PROVE  WrittenAs(p, k, es) \in WrittenBlock
BY DEF WrittenAs, WrittenBlock

LEMMA BlocksType ==
    ASSUME NEW bs \in Seq(BlockType), NEW rs \in Seq(Nat), NEW c, Cuts(c, bs),
           c[Len(bs)] = Len(rs)
    PROVE  /\ BlocksOf(bs, rs) \in Seq(WrittenBlock)
           /\ Len(BlocksOf(bs, rs)) = Len(bs)
<1>1. ASSUME NEW i \in 1..Len(bs) PROVE BlocksOf(bs, rs)[i] \in WrittenBlock
  <2>1. PICK p \in Nat, k \in Nat, a \in Nat :
          /\ a + k <= Len(rs) /\ BlocksOf(bs, rs)[i] = WrittenAs(p, k, CutOf(rs, a, k))
    <3>1. IsBlock(bs, rs, c, i)
      BY BlockIs
    <3> QED BY <3>1, Zenon DEF IsBlock
  <2>2. CutOf(rs, a, k) \in Seq(Nat)
    BY <2>1, CutIs
  <2> QED BY <2>1, <2>2, WrittenType
<1>2. PICK w : w = BlocksOf(bs, rs)
  OBVIOUS
<1>3. PICK n \in Nat : n = Len(bs) /\ DOMAIN bs = 1..n
  OBVIOUS
<1>4. w = [i \in 1..n |-> w[i]] /\ DOMAIN w = 1..n
  BY <1>2, <1>3 DEF BlocksOf
<1>5. [i \in 1..n |-> w[i]] \in Seq(WrittenBlock)
  <2>1. \A i \in 1..n : w[i] \in WrittenBlock
    BY <1>1, <1>2, <1>3
  <2> QED BY <2>1, IsASeq
<1>6. w \in Seq(WrittenBlock)
  BY <1>4, <1>5
<1>7. Len(w) = n
  BY <1>3, <1>4, <1>6
<1> QED BY <1>2, <1>3, <1>6, <1>7

(* What is appended to the relocations changes none of the blocks that     *)
(* were there.                                                             *)
LEMMA CutStays ==
    ASSUME NEW rs \in Seq(Nat), NEW e \in Nat, NEW a \in Nat, NEW k \in Nat,
           a + k <= Len(rs)
    PROVE  CutOf(Append(rs, e), a, k) = CutOf(rs, a, k)
<1>1. PICK n : n = Len(rs) /\ n \in Nat
  OBVIOUS
<1>2. PICK ss : ss = Append(rs, e)
  OBVIOUS
<1>3. ss \in Seq(Nat) /\ Len(ss) = n + 1 /\ \A j \in 1..n : ss[j] = rs[j]
  BY <1>1, <1>2
<1>4. PICK x : x = CutOf(rs, a, k)
  OBVIOUS
<1>5. PICK y : y = CutOf(ss, a, k)
  OBVIOUS
<1>6. x \in Seq(Nat) /\ Len(x) = k /\ \A j \in 1..k : x[j] = rs[a + j]
  BY <1>4, CutIs
<1>7. y \in Seq(Nat) /\ Len(y) = k /\ \A j \in 1..k : y[j] = ss[a + j]
  <2>1. a + k <= Len(ss)
    BY <1>1, <1>3
  <2> QED BY <1>3, <1>5, <2>1, CutIs
<1>8. ASSUME NEW j \in 1..k PROVE x[j] = y[j]
  <2>1. a + j \in 1..n
    BY <1>1
  <2> QED BY <1>3, <1>6, <1>7, <2>1
<1> QED BY <1>2, <1>4, <1>5, <1>6, <1>7, <1>8, SeqEqual

LEMMA CutGrows ==
    ASSUME NEW rs \in Seq(Nat), NEW e \in Nat, NEW a \in Nat, NEW k \in Nat,
           a + k = Len(rs)
    PROVE  CutOf(Append(rs, e), a, k + 1) = Append(CutOf(rs, a, k), e)
<1>1. PICK n : n = Len(rs) /\ n \in Nat
  OBVIOUS
<1>2. PICK ss : ss = Append(rs, e)
  OBVIOUS
<1>3. ss \in Seq(Nat) /\ Len(ss) = n + 1 /\ ss[n + 1] = e /\ \A j \in 1..n : ss[j] = rs[j]
  BY <1>1, <1>2
<1>4. PICK x : x = CutOf(rs, a, k)
  OBVIOUS
<1>5. PICK y : y = CutOf(ss, a, k + 1)
  OBVIOUS
<1>6. x \in Seq(Nat) /\ Len(x) = k /\ \A j \in 1..k : x[j] = rs[a + j]
  <2>1. a + k <= Len(rs)
    BY <1>1
  <2> QED BY <1>4, <2>1, CutIs
<1>7. y \in Seq(Nat) /\ Len(y) = k + 1 /\ \A j \in 1..(k + 1) : y[j] = ss[a + j]
  <2>1. PICK m \in Nat : m = k + 1
    OBVIOUS
  <2>2. a + m <= Len(ss)
    BY <1>1, <1>3, <2>1
  <2>3. y = CutOf(ss, a, m)
    BY <1>5, <2>1
  <2>4. y \in Seq(Nat) /\ Len(y) = m /\ \A j \in 1..m : y[j] = ss[a + j]
    BY <1>3, <2>2, <2>3, CutIs, ZenonT(40)
  <2> QED BY <2>1, <2>4
<1>8. ASSUME NEW j \in 1..k PROVE y[j] = x[j]
  <2>1. a + j \in 1..n /\ j \in 1..(k + 1)
    BY <1>1
  <2> QED BY <1>3, <1>6, <1>7, <2>1
<1>9. y[Len(y)] = e
  <2>1. k + 1 \in 1..(k + 1) /\ a + (k + 1) = n + 1
    BY <1>1
  <2> QED BY <1>3, <1>7, <2>1
<1>10. y = Append(x, y[Len(y)])
  BY <1>6, <1>7, <1>8, Appended
<1> QED BY <1>2, <1>4, <1>5, <1>9, <1>10

(* Two sequences have the same first m elements.                           *)
Starts(us, vs, m) == \A i \in 1..m : us[i] = vs[i]

LEMMA BlocksStay ==
    ASSUME NEW bs \in Seq(BlockType), NEW cs \in Seq(BlockType), NEW rs \in Seq(Nat),
           NEW e \in Nat, NEW b, NEW c, Cuts(b, bs), Cuts(c, cs),
           b[Len(bs)] = Len(rs), c[Len(cs)] = Len(rs) + 1,
           NEW m \in Nat, Alike(bs, cs, m)
    PROVE  Starts(BlocksOf(cs, Append(rs, e)), BlocksOf(bs, rs), m)
<1>1. PICK ss : ss = Append(rs, e)
  OBVIOUS
<1>2. ss \in Seq(Nat) /\ Len(ss) = Len(rs) + 1
  BY <1>1
<1>3. \A j \in 0..m : b[j] = c[j]
  BY CutsAlike
<1>4. ASSUME NEW i \in 1..m PROVE BlocksOf(cs, ss)[i] = BlocksOf(bs, rs)[i]
  <2>1. i \in 1..Len(bs) /\ i \in 1..Len(cs) /\ cs[i] = bs[i] /\ b[i - 1] = c[i - 1]
    <3>1. i - 1 \in 0..m
      OBVIOUS
    <3> QED BY <1>3, <3>1 DEF Alike
  <2>2. PICK p \in Nat, k \in Nat, a \in Nat :
          /\ p = bs[i].page /\ k = bs[i].count /\ a = b[i - 1] /\ a + k <= Len(rs)
          /\ BlocksOf(bs, rs)[i] = WrittenAs(p, k, CutOf(rs, a, k))
    <3>1. IsBlock(bs, rs, b, i)
      BY <2>1, BlockIs
    <3> QED BY <3>1, Zenon DEF IsBlock
  <2>3. BlocksOf(cs, ss)[i] = WrittenAs(p, k, CutOf(ss, a, k))
    <3>1. PICK q \in Nat, l \in Nat, d \in Nat :
            /\ q = cs[i].page /\ l = cs[i].count /\ d = c[i - 1]
            /\ BlocksOf(cs, ss)[i] = WrittenAs(q, l, CutOf(ss, d, l))
      <4>1. IsBlock(cs, ss, c, i)
        BY <1>2, <2>1, BlockIs
      <4> QED BY <4>1, Zenon DEF IsBlock
    <3> QED BY <2>1, <2>2, <3>1, Zenon
  <2>4. CutOf(ss, a, k) = CutOf(rs, a, k)
    BY <1>1, <2>2, CutStays
  <2> QED BY <2>2, <2>3, <2>4
<1> QED BY <1>1, <1>4 DEF Starts

-------------------------------------------------------------------------------
(* One more relocation *)

ReadOf(bs, rs) == ReadRelocs(BlocksOf(bs, rs))

(* What is read, once e is behind the relocations of which the blocks of   *)
(* page p are the last.                                                    *)
Reads(read, old, p, e) ==
    read = IF e = 0 THEN old ELSE Append(old, Relocation(p, e))

LEMMA ConcatAppend ==
    ASSUME NEW S, NEW s \in Seq(S), NEW t \in Seq(S), NEW x \in S
    PROVE  s \o Append(t, x) = Append(s \o t, x)
<1>1. <<x>> \in Seq(S) /\ s \o t \in Seq(S)
  BY ConcatProperties
<1>2. Append(t, x) = t \o <<x>> /\ Append(s \o t, x) = (s \o t) \o <<x>>
  BY <1>1, AppendIsConcat
<1>3. (s \o t) \o <<x>> = s \o (t \o <<x>>)
  BY <1>1, ConcatAssociative
<1> QED BY <1>2, <1>3

LEMMA ReadGrows ==
    ASSUME NEW vs \in Seq(WrittenBlock), NEW ws \in Seq(WrittenBlock),
           NEW m \in Nat, Len(vs) = m + 1, Len(ws) = m + 1,
           \A i \in 1..m : ws[i] = vs[i],
           NEW e \in Nat, NEW p \in Nat,
           Reads(ReadBlock(ws[m + 1]), ReadBlock(vs[m + 1]), p, e)
    PROVE  Reads(ReadRelocs(ws), ReadRelocs(vs), p, e)
<1> DEFINE us == [i \in 1..m |-> vs[i]]
<1>1. us \in Seq(WrittenBlock) /\ Len(us) = m /\ \A i \in 1..m : us[i] = vs[i]
  <2>1. \A i \in 1..m : vs[i] \in WrittenBlock
    <3>1. \A i \in 1..m : i \in 1..Len(vs)
      OBVIOUS
    <3> QED BY <3>1, ElementOfSeq
  <2>2. us \in Seq(WrittenBlock)
    BY <2>1, IsASeq
  <2>3. DOMAIN us = 1..m
    OBVIOUS
  <2> HIDE DEF us
  <2>4. Len(us) = m
    BY <2>2, <2>3
  <2> QED BY <2>2, <2>4 DEF us
<1> HIDE DEF us
<1>2. ReadRelocs(us) \in Seq(Entry) /\ ReadRelocs(vs) = ReadRelocs(us) \o ReadBlock(vs[m + 1])
  BY <1>1, ReadExtends
<1>3. ReadRelocs(ws) = ReadRelocs(us) \o ReadBlock(ws[m + 1])
  <2>1. \A i \in 1..m : ws[i] = us[i]
    BY <1>1
  <2> QED BY <1>1, <2>1, ReadExtends
<1>4. PICK r \in Seq(Entry) : r = ReadRelocs(us)
  BY <1>2
<1>5. PICK x \in Seq(Entry) : x = ReadBlock(vs[m + 1])
  <2>1. m + 1 \in 1..Len(vs)
    OBVIOUS
  <2>2. vs[m + 1] \in WrittenBlock
    BY <2>1, ElementOfSeq
  <2> QED BY <2>2, BlockRead
<1>6. PICK y \in Entry : y = Relocation(p, e)
  BY RelocationType
<1>7. r \o Append(x, y) = Append(r \o x, y)
  BY ConcatAppend
<1>8. ReadBlock(ws[m + 1]) = IF e = 0 THEN x ELSE Append(x, y)
  BY <1>5, <1>6, Zenon DEF Reads
<1>9. ReadRelocs(vs) = r \o x /\ ReadRelocs(ws) = r \o (IF e = 0 THEN x ELSE Append(x, y))
  BY <1>2, <1>3, <1>4, <1>5, <1>8, Zenon
<1> QED BY <1>6, <1>7, <1>9, Zenon DEF Reads

(* It joins the last block, which is behind m others.                      *)
Counted(bs, cs, m) ==
    /\ Len(bs) = m + 1 /\ Len(cs) = m + 1 /\ Alike(bs, cs, m)
    /\ cs[m + 1].page = bs[m + 1].page /\ cs[m + 1].count = bs[m + 1].count + 1

LEMMA LastGrows ==
    ASSUME NEW bs \in Seq(BlockType), NEW cs \in Seq(BlockType), NEW rs \in Seq(Nat),
           NEW e \in Nat, NEW m \in Nat, Counted(bs, cs, m), Before(bs, Len(bs) + 1) = Len(rs)
    PROVE  /\ Before(cs, Len(cs) + 1) = Len(rs) + 1
           /\ Reads(ReadOf(cs, Append(rs, e)), ReadOf(bs, rs), bs[m + 1].page, e)
<1> USE DEF Counted
<1>1. PICK b : Cuts(b, bs)
  BY CutsExist
<1>2. PICK c : Cuts(c, cs)
  BY CutsExist
<1>3. PICK l \in Nat : l = Len(rs)
  OBVIOUS
<1>4. m + 1 \in 0..(m + 1) /\ m \in 0..m /\ m + 1 \in 1..(m + 1) /\ (m + 1) - 1 = m
      /\ m \in 0..(m + 1)
  OBVIOUS
<1>5. b[m + 1] = l
  BY <1>1, <1>3, <1>4 DEF Cuts
<1>6. b[m] = c[m] /\ Alike(bs, cs, m)
  <2>1. Alike(bs, cs, m)
    BY DEF Counted
  <2>2. \A i \in 0..m : b[i] = c[i]
    BY <1>1, <1>2, <2>1, CutsAlike
  <2> QED BY <1>4, <2>1, <2>2
<1>7. /\ b[m + 1] = b[m] + bs[m + 1].count /\ c[m + 1] = c[m] + cs[m + 1].count
      /\ Before(cs, (m + 1) + 1) = c[m + 1] /\ b[m] \in Nat
  BY <1>1, <1>2, <1>4 DEF Cuts
<1>8. bs[m + 1] \in BlockType
  BY <1>4, ElementOfSeq
<1>9. c[m + 1] = l + 1
  <2>1. PICK k \in Nat : k = bs[m + 1].count
    BY <1>8 DEF BlockType
  <2>2. PICK a \in Nat : a = b[m]
    BY <1>7
  <2>3. c[m + 1] = a + (k + 1) /\ l = a + k
    BY <1>5, <1>6, <1>7, <2>1, <2>2
  <2> QED BY <2>3
<1>10. PICK ss : ss = Append(rs, e)
  OBVIOUS
<1>11. ss \in Seq(Nat) /\ Len(ss) = l + 1
  BY <1>3, <1>10
<1>12. PICK vs \in Seq(WrittenBlock) : vs = BlocksOf(bs, rs) /\ Len(vs) = m + 1
  BY <1>1, <1>3, <1>5, BlocksType
<1>13. PICK ws \in Seq(WrittenBlock) : ws = BlocksOf(cs, ss) /\ Len(ws) = m + 1
  BY <1>2, <1>9, <1>11, BlocksType
<1>14. \A i \in 1..m : ws[i] = vs[i]
  <2>1. b[Len(bs)] = Len(rs) /\ c[Len(cs)] = Len(rs) + 1
    BY <1>3, <1>5, <1>9
  <2>2. Starts(BlocksOf(cs, Append(rs, e)), BlocksOf(bs, rs), m)
    BY <1>1, <1>2, <1>6, <2>1, BlocksStay
  <2> QED BY <1>10, <1>12, <1>13, <2>2 DEF Starts
<1>15. PICK p \in Nat, k \in Nat, a \in Nat :
         /\ p = bs[m + 1].page /\ k = bs[m + 1].count /\ a = b[m] /\ b[m + 1] = a + k
         /\ vs[m + 1] = WrittenAs(p, k, CutOf(rs, a, k))
  <2>1. IsBlock(bs, rs, b, m + 1)
    BY <1>1, <1>3, <1>4, <1>5, BlockIs
  <2> QED BY <1>4, <1>12, <2>1, Zenon DEF IsBlock
<1>16. ws[m + 1] = WrittenAs(p, k + 1, CutOf(ss, a, k + 1))
  <2>1. IsBlock(cs, ss, c, m + 1)
    BY <1>2, <1>4, <1>9, <1>11, BlockIs
  <2>2. PICK q \in Nat, j \in Nat, d \in Nat :
          /\ q = cs[m + 1].page /\ j = cs[m + 1].count /\ d = c[m]
          /\ ws[m + 1] = WrittenAs(q, j, CutOf(ss, d, j))
    BY <1>4, <1>13, <2>1, Zenon DEF IsBlock
  <2> QED BY <1>6, <1>15, <2>2, Zenon
<1>17. CutOf(ss, a, k + 1) = Append(CutOf(rs, a, k), e)
  <2>1. a + k = Len(rs)
    BY <1>3, <1>5, <1>15
  <2> QED BY <1>10, <2>1, CutGrows, SMTT(30), ZenonT(30)
<1>18. Reads(ReadBlock(ws[m + 1]), ReadBlock(vs[m + 1]), p, e)
  <2>1. PICK es : es = CutOf(rs, a, k)
    OBVIOUS
  <2>2. PICK v \in WrittenBlock : v = vs[m + 1]
    BY <1>4, <1>12, ElementOfSeq
  <2>3. PICK w \in WrittenBlock : w = ws[m + 1]
    BY <1>4, <1>13, ElementOfSeq
  <2>4. v.page = p /\ v.entries = es
    BY <1>15, <2>1, <2>2, WrittenFields, SMTT(30), ZenonT(30)
  <2>6. w.page = p /\ w.entries = Append(es, e)
    BY <1>16, <1>17, <2>1, <2>3, WrittenFields, SMTT(30)
  <2>7. w.page = v.page /\ w.entries = Append(v.entries, e)
    BY <2>4, <2>6
  <2>5. ReadBlock(w) = IF e = 0 THEN ReadBlock(v) ELSE Append(ReadBlock(v), Relocation(p, e))
    BY <2>4, <2>7, BlockReadGrows
  <2> QED BY <2>2, <2>3, <2>5 DEF Reads
<1>19. Reads(ReadRelocs(ws), ReadRelocs(vs), p, e)
  BY <1>12, <1>13, <1>14, <1>18, ReadGrows
<1> QED BY <1>3, <1>4, <1>7, <1>9, <1>10, <1>12, <1>13, <1>15, <1>19 DEF ReadOf

(* It begins a block.                                                      *)
LEMMA BlockBegins ==
    ASSUME NEW bs \in Seq(BlockType), NEW x \in BlockType, x.count = 1,
           NEW rs \in Seq(Nat), NEW e \in Nat, Before(bs, Len(bs) + 1) = Len(rs)
    PROVE  /\ Before(Append(bs, x), Len(bs) + 2) = Len(rs) + 1
           /\ Reads(ReadOf(Append(bs, x), Append(rs, e)), ReadOf(bs, rs), x.page, e)
<1>1. PICK n \in Nat : n = Len(bs)
  OBVIOUS
<1>2. PICK cs : cs = Append(bs, x)
  OBVIOUS
<1>3. cs \in Seq(BlockType) /\ Len(cs) = n + 1 /\ cs[n + 1] = x
      /\ \A i \in 1..n : cs[i] = bs[i]
  BY <1>1, <1>2
<1>4. PICK b : Cuts(b, bs)
  BY CutsExist
<1>5. PICK c : Cuts(c, cs)
  BY <1>3, CutsExist
<1>6. PICK l \in Nat : l = Len(rs)
  OBVIOUS
<1>7. n \in 0..n /\ n + 1 \in 0..(n + 1) /\ n + 1 \in 1..(n + 1) /\ (n + 1) - 1 = n
  OBVIOUS
<1>8. b[n] = l
  BY <1>1, <1>4, <1>6, <1>7 DEF Cuts
<1>9. b[n] = c[n] /\ Alike(bs, cs, n)
  <2>1. Alike(bs, cs, n)
    BY <1>1, <1>3 DEF Alike
  <2>2. \A i \in 0..n : b[i] = c[i]
    BY <1>3, <1>4, <1>5, <2>1, CutsAlike
  <2> QED BY <1>7, <2>1, <2>2
<1>10. c[n + 1] = c[n] + cs[n + 1].count /\ Before(cs, (n + 1) + 1) = c[n + 1]
  BY <1>3, <1>5, <1>7 DEF Cuts
<1>11. c[n + 1] = l + 1
  BY <1>3, <1>8, <1>9, <1>10
<1>12. PICK ss : ss = Append(rs, e)
  OBVIOUS
<1>13. ss \in Seq(Nat) /\ Len(ss) = l + 1
  BY <1>6, <1>12
<1>14. PICK vs \in Seq(WrittenBlock) : vs = BlocksOf(bs, rs) /\ Len(vs) = n
  BY <1>1, <1>4, <1>6, <1>8, BlocksType
<1>15. PICK ws \in Seq(WrittenBlock) : ws = BlocksOf(cs, ss) /\ Len(ws) = n + 1
  BY <1>3, <1>5, <1>11, <1>13, BlocksType
<1>16. \A i \in 1..n : ws[i] = vs[i]
  <2>1. b[Len(bs)] = Len(rs) /\ c[Len(cs)] = Len(rs) + 1
    BY <1>1, <1>3, <1>6, <1>8, <1>11
  <2>2. cs \in Seq(BlockType) /\ Alike(bs, cs, n)
    BY <1>3, <1>9
  <2>3. Starts(BlocksOf(cs, Append(rs, e)), BlocksOf(bs, rs), n)
    BY <1>4, <1>5, <2>1, <2>2, BlocksStay
  <2> QED BY <1>12, <1>14, <1>15, <2>3 DEF Starts
<1>17. PICK p \in Nat : p = x.page /\ ws[n + 1] = WrittenAs(p, 1, CutOf(ss, l, 1))
  <2>1. IsBlock(cs, ss, c, n + 1)
    BY <1>3, <1>5, <1>7, <1>11, <1>13, BlockIs
  <2>2. PICK q \in Nat, j \in Nat, d \in Nat :
          /\ q = cs[n + 1].page /\ j = cs[n + 1].count /\ d = c[n]
          /\ ws[n + 1] = WrittenAs(q, j, CutOf(ss, d, j))
    BY <1>7, <1>15, <2>1, Zenon DEF IsBlock
  <2> QED BY <1>3, <1>8, <1>9, <2>2, Zenon
<1>18. CutOf(ss, l, 1) = <<e>>
  <2>1. 0 \in Nat /\ l + 0 <= Len(rs) /\ l + 0 = Len(rs) /\ 0 + 1 = 1
    BY <1>6
  <2>2. CutOf(ss, l, 0 + 1) = Append(CutOf(rs, l, 0), e)
    BY <1>12, <2>1, CutGrows
  <2>3. CutOf(rs, l, 0) \in Seq(Nat) /\ Len(CutOf(rs, l, 0)) = 0
    BY <2>1, CutIs
  <2>4. CutOf(rs, l, 0) = <<>>
    BY <2>3
  <2>5. Append(<<>>, e) = <<e>>
    OBVIOUS
  <2>6. CutOf(ss, l, 0 + 1) = CutOf(ss, l, 1)
    BY <2>1
  <2> QED BY <2>2, <2>4, <2>5, <2>6, Zenon
<1>19. PICK w \in WrittenBlock : w = ws[n + 1]
  BY <1>7, <1>15, ElementOfSeq
<1>20. ReadBlock(w) = IF e = 0 THEN <<>> ELSE <<Relocation(p, e)>>
  <2>1. w.page = p /\ w.entries = <<e>>
    BY <1>17, <1>18, <1>19 DEF WrittenAs
  <2> QED BY <2>1, BlockReadOne
<1>21. ReadRelocs(vs) \in Seq(Entry) /\ ReadRelocs(ws) = ReadRelocs(vs) \o ReadBlock(w)
  BY <1>14, <1>15, <1>16, <1>19, ReadExtends
<1>22. Reads(ReadRelocs(ws), ReadRelocs(vs), p, e)
  <2>1. PICK r \in Seq(Entry) : r = ReadRelocs(vs)
    BY <1>21
  <2>2. PICK y \in Entry : y = Relocation(p, e)
    BY RelocationType
  <2>3. r \o <<>> = r /\ r \o <<y>> = Append(r, y)
    BY AppendIsConcat, ConcatEmptySeq
  <2> QED BY <1>20, <1>21, <2>1, <2>2, <2>3, Zenon DEF Reads
<1>23. Before(cs, n + 2) = l + 1
  <2>1. (n + 1) + 1 = n + 2
    OBVIOUS
  <2> QED BY <1>10, <1>11, <2>1
<1> QED BY <1>1, <1>2, <1>6, <1>12, <1>14, <1>15, <1>17, <1>22, <1>23 DEF ReadOf

-------------------------------------------------------------------------------
(* What the writer keeps of the relocations *)

Even(bs) == \A i \in 1..Len(bs) : bs[i].count % 2 = 0

(* The blocks bs of the relocations rs are what a reader finds as in: all  *)
(* of rs is in some block, no block is empty, and none but the last is of  *)
(* an odd number.                                                          *)
BlocksOk(bs, rs, as) ==
    /\ bs \in Seq(BlockType) /\ rs \in Seq(Nat) /\ as \in Seq(Entry)
    /\ \A i \in 1..Len(bs) : bs[i].count >= 1
    /\ \A i \in 1..(Len(bs) - 1) : bs[i].count % 2 = 0
    /\ Before(bs, Len(bs) + 1) = Len(rs)
    /\ ReadOf(bs, rs) = Only(as, Visible)

RelocInv ==
    /\ BlocksOk(reloc_blocks, relocs, added)
    /\ RelocReserved => Even(reloc_blocks)
    /\ cur = 0 => image.relocs = <<>>
    /\ image.relocs # <<>> =>
         RelocReserved /\ image.relocs = BlocksOf(reloc_blocks, relocs)

WithOne(bs) == [bs EXCEPT ![Len(bs)].count = @ + 1]

LEMMA WithOneIs ==
    ASSUME NEW bs \in Seq(BlockType), bs # <<>>
    PROVE  /\ WithOne(bs) \in Seq(BlockType)
           /\ \E m \in Nat : Counted(bs, WithOne(bs), m)
<1>1. PICK n : n = Len(bs) /\ n \in Nat \ {0} /\ n \in 1..Len(bs)
  OBVIOUS
<1>2. bs[n] \in BlockType
  BY <1>1, ElementOfSeq
<1>3. PICK d : d = [bs[n] EXCEPT !.count = @ + 1]
  OBVIOUS
<1>4. d \in BlockType /\ d.page = bs[n].page /\ d.count = bs[n].count + 1
  BY <1>2, <1>3, SMTT(30) DEF BlockType
<1>5. PICK cs : cs = [bs EXCEPT ![n] = d]
  OBVIOUS
<1>6. /\ cs \in Seq(BlockType) /\ Len(cs) = n
      /\ \A j \in 1..Len(bs) : cs[j] = IF j = n THEN d ELSE bs[j]
  BY <1>1, <1>4, <1>5, ExceptSeq
<1>7. WithOne(bs) = cs
  BY <1>1, <1>3, <1>5 DEF WithOne
<1>8. PICK m \in Nat : n = m + 1
  <2>1. n - 1 \in Nat /\ n = (n - 1) + 1
    BY <1>1
  <2> QED BY <2>1
<1>9. Alike(bs, cs, m)
  <2>1. \A i \in 1..m : i \in 1..Len(bs) /\ i # n
    BY <1>1, <1>8
  <2>2. \A i \in 1..m : cs[i] = bs[i]
    BY <1>6, <2>1
  <2> QED BY <1>1, <1>6, <1>8, <2>2 DEF Alike
<1>10. cs[n] = d
  BY <1>1, <1>6
<1>11. Counted(bs, cs, m)
  BY <1>1, <1>4, <1>6, <1>8, <1>9, <1>10 DEF Counted
<1> QED BY <1>6, <1>7, <1>11

LEMMA BlockJoined ==
    ASSUME NEW bs, NEW rs, NEW as, BlocksOk(bs, rs, as), bs # <<>>,
           NEW e \in Nat, NEW as2 \in Seq(Entry),
           Reads(Only(as2, Visible), Only(as, Visible), bs[Len(bs)].page, e)
    PROVE  BlocksOk(WithOne(bs), Append(rs, e), as2)
<1>1. bs \in Seq(BlockType) /\ rs \in Seq(Nat)
  BY DEF BlocksOk
<1>2. PICK cs \in Seq(BlockType) : cs = WithOne(bs) /\ \E m \in Nat : Counted(bs, cs, m)
  BY <1>1, WithOneIs
<1>3. PICK m \in Nat : Counted(bs, cs, m)
  BY <1>2
<1>4. PICK n \in Nat : n = m + 1 /\ n = Len(bs) /\ n = Len(cs)
  BY <1>3 DEF Counted
<1>5. /\ \A i \in 1..m : cs[i] = bs[i]
      /\ cs[n].page = bs[n].page /\ cs[n].count = bs[n].count + 1
  BY <1>3, <1>4 DEF Counted, Alike
<1>6. bs[n].count \in Nat
  <2>1. n \in 1..Len(bs)
    BY <1>4
  <2>2. bs[n] \in BlockType
    BY <1>1, <2>1, ElementOfSeq
  <2> QED BY <2>2 DEF BlockType
<1>7. /\ Before(cs, Len(cs) + 1) = Len(rs) + 1
      /\ Reads(ReadOf(cs, Append(rs, e)), ReadOf(bs, rs), bs[n].page, e)
  <2>1. Before(bs, Len(bs) + 1) = Len(rs)
    BY DEF BlocksOk
  <2>2. /\ Before(cs, Len(cs) + 1) = Len(rs) + 1
        /\ Reads(ReadOf(cs, Append(rs, e)), ReadOf(bs, rs), bs[m + 1].page, e)
    BY <1>1, <1>3, <2>1, LastGrows
  <2> QED BY <1>4, <2>2
<1>8. ReadOf(cs, Append(rs, e)) = Only(as2, Visible)
  BY <1>4, <1>7, Zenon DEF BlocksOk, Reads
<1>9. Append(rs, e) \in Seq(Nat) /\ Len(Append(rs, e)) = Len(rs) + 1
  BY <1>1
<1>10. ASSUME NEW i \in 1..Len(cs) PROVE cs[i].count >= 1
  <2>1. i = n \/ i \in 1..m
    BY <1>4
  <2>2. CASE i = n
    BY <1>5, <1>6, <2>2
  <2>3. CASE i \in 1..m
    <3>1. i \in 1..Len(bs) /\ cs[i] = bs[i]
      BY <1>4, <1>5, <2>3
    <3> QED BY <3>1 DEF BlocksOk
  <2> QED BY <2>1, <2>2, <2>3
<1>11. ASSUME NEW i \in 1..(Len(cs) - 1) PROVE cs[i].count % 2 = 0
  <2>1. i \in 1..(Len(bs) - 1) /\ i \in 1..m
    BY <1>4
  <2>2. bs[i].count % 2 = 0
    BY <2>1 DEF BlocksOk
  <2> QED BY <1>5, <2>1, <2>2
<1>12. BlocksOk(cs, Append(rs, e), as2)
  BY <1>7, <1>8, <1>9, <1>10, <1>11 DEF BlocksOk
<1> QED BY <1>2, <1>12

LEMMA BlockBegun ==
    ASSUME NEW bs, NEW rs, NEW as, BlocksOk(bs, rs, as), Even(bs),
           NEW x \in BlockType, x.count = 1, NEW cs, cs = Append(bs, x),
           NEW e \in Nat, NEW as2 \in Seq(Entry),
           Reads(Only(as2, Visible), Only(as, Visible), x.page, e)
    PROVE  BlocksOk(cs, Append(rs, e), as2)
<1>1. bs \in Seq(BlockType) /\ rs \in Seq(Nat)
  BY DEF BlocksOk
<1>2. PICK n : n = Len(bs) /\ n \in Nat
  BY <1>1, SMTT(30), ZenonT(30)
<1>3. /\ cs \in Seq(BlockType) /\ Len(cs) = n + 1 /\ cs[n + 1] = x
      /\ \A i \in 1..n : cs[i] = bs[i]
  BY <1>1, <1>2, AppendProperties
<1>4. /\ Before(cs, Len(bs) + 2) = Len(rs) + 1
      /\ Reads(ReadOf(cs, Append(rs, e)), ReadOf(bs, rs), x.page, e)
  <2>1. Before(bs, Len(bs) + 1) = Len(rs)
    BY DEF BlocksOk
  <2> QED BY <1>1, <2>1, BlockBegins
<1>5. ReadOf(cs, Append(rs, e)) = Only(as2, Visible)
  BY <1>4, Zenon DEF BlocksOk, Reads
<1>6. Append(rs, e) \in Seq(Nat) /\ Len(Append(rs, e)) = Len(rs) + 1
  BY <1>1
<1>7. Before(cs, Len(cs) + 1) = Len(rs) + 1
  <2>1. Len(cs) + 1 = Len(bs) + 2
    BY <1>2, <1>3
  <2> QED BY <1>4, <2>1
<1>8. ASSUME NEW i \in 1..Len(cs) PROVE cs[i].count >= 1
  <2>1. i = n + 1 \/ i \in 1..n
    BY <1>2, <1>3
  <2>2. CASE i = n + 1
    BY <1>3, <2>2
  <2>3. CASE i \in 1..n
    <3>1. cs[i] = bs[i] /\ bs[i].count >= 1
      BY <1>2, <1>3, <2>3 DEF BlocksOk
    <3> QED BY <3>1
  <2> QED BY <2>1, <2>2, <2>3
<1>9. ASSUME NEW i \in 1..(Len(cs) - 1) PROVE cs[i].count % 2 = 0
  <2>1. i \in 1..n
    BY <1>2, <1>3
  <2>2. cs[i] = bs[i] /\ bs[i].count % 2 = 0
    BY <1>2, <1>3, <2>1 DEF Even
  <2> QED BY <2>2
<1> QED BY <1>3, <1>5, <1>6, <1>7, <1>8, <1>9 DEF BlocksOk

(* Padding makes the last block even, and is not read.                     *)
LEMMA PaddingOk ==
    ASSUME BlocksOk(reloc_blocks, relocs, added)
    PROVE  BlocksOk(PaddedBlocks, PaddedRelocs, added) /\ Even(PaddedBlocks)
<1>1. reloc_blocks \in Seq(BlockType) /\ added \in Seq(Entry) /\ Len(reloc_blocks) \in Nat
  BY DEF BlocksOk
<1>2. PICK n \in Nat : n = Len(reloc_blocks)
  BY <1>1
<1>3. \A i \in 1..(n - 1) : reloc_blocks[i].count % 2 = 0
  BY <1>2 DEF BlocksOk
<1>4. CASE Odd
  <2>1. reloc_blocks # <<>> /\ reloc_blocks[n].count % 2 # 0 /\ n \in 1..Len(reloc_blocks)
    BY <1>1, <1>2, <1>4 DEF Odd, LastBlock
  <2>2. PaddedBlocks = WithOne(reloc_blocks) /\ PaddedRelocs = Append(relocs, 0)
    BY <1>4 DEF PaddedBlocks, PaddedRelocs, WithOne
  <2>3. Reads(Only(added, Visible), Only(added, Visible), LastBlock.page, 0)
    BY DEF Reads
  <2>4. BlocksOk(WithOne(reloc_blocks), Append(relocs, 0), added)
    <3>1. 0 \in Nat
      OBVIOUS
    <3> QED BY <1>1, <2>1, <2>3, <3>1, BlockJoined, Zenon DEF LastBlock
  <2>5. PICK cs \in Seq(BlockType) :
          cs = WithOne(reloc_blocks) /\ \E m \in Nat : Counted(reloc_blocks, cs, m)
    BY <1>1, <2>1, WithOneIs
  <2>6. PICK m \in Nat : Counted(reloc_blocks, cs, m)
    BY <2>5
  <2>7. /\ n = m + 1 /\ Len(cs) = n /\ \A i \in 1..m : cs[i] = reloc_blocks[i]
        /\ cs[n].count = reloc_blocks[n].count + 1
    BY <1>2, <2>6 DEF Counted, Alike
  <2>8. cs[n].count % 2 = 0
    <3>1. reloc_blocks[n] \in BlockType
      BY <1>1, <2>1, ElementOfSeq
    <3>2. PICK k \in Nat : k = reloc_blocks[n].count
      BY <3>1 DEF BlockType
    <3>3. (k + 1) % 2 = 0
      BY <2>1, <3>2
    <3> QED BY <2>7, <3>2, <3>3
  <2>9. ASSUME NEW i \in 1..Len(cs) PROVE cs[i].count % 2 = 0
    <3>1. i = n \/ (i \in 1..m /\ i \in 1..(n - 1))
      BY <2>7
    <3> QED BY <1>3, <2>7, <2>8, <3>1
  <2> QED BY <2>2, <2>4, <2>5, <2>9 DEF Even
<1>5. CASE ~Odd
  <2>1. PaddedBlocks = reloc_blocks /\ PaddedRelocs = relocs
    BY <1>5 DEF PaddedBlocks, PaddedRelocs
  <2>2. ASSUME NEW i \in 1..Len(reloc_blocks) PROVE reloc_blocks[i].count % 2 = 0
    <3>1. i \in 1..(n - 1) \/ i = n
      BY <1>2
    <3>2. CASE i = n
      <4>1. reloc_blocks # <<>>
        BY <1>1, <2>2
      <4> QED BY <1>2, <1>5, <3>2, <4>1 DEF Odd, LastBlock
    <3> QED BY <1>3, <3>1, <3>2
  <2> QED BY <2>1, <2>2 DEF Even
<1> QED BY <1>4, <1>5

LEMMA OneAdded ==
    ASSUME NEW as \in Seq(Entry), NEW r \in Entry
    PROVE  Only(Append(as, r), Visible) =
             IF r \in Visible THEN Append(Only(as, Visible), r) ELSE Only(as, Visible)
<1>1. PICK S : S = Entry
  OBVIOUS
<1>2. PICK K : K = Visible
  OBVIOUS
<1>3. PICK s \in Seq(S) : s = as
  BY <1>1
<1>4. PICK e \in S : e = r
  BY <1>1
<1>5. /\ Only(s, K) \in Seq(S)
      /\ Only(Append(s, e), K) = IF e \in K THEN Append(Only(s, K), e) ELSE Only(s, K)
  BY OnlyAppends
<1> QED BY <1>2, <1>3, <1>4, <1>5

(* A relocation that is packed is read as it was added.                    *)
LEMMA PackedReads ==
    ASSUME NEW as \in Seq(Entry), NEW a \in Nat, NEW t \in Nat, NEW p, p = a - (a % PAGE),
           NEW e, e = Packed(a, t), NEW r, r = [address |-> a, type |-> t]
    PROVE  /\ p \in Nat /\ e \in Nat /\ Append(as, r) \in Seq(Entry)
           /\ Reads(Only(Append(as, r), Visible), Only(as, Visible), p, e)
<1>1. p \in Nat /\ e \in Nat /\ e % PAGE = a % PAGE /\ e \div PAGE = t /\ p + (a % PAGE) = a
  BY DEF PAGE, Packed
<1>2. Relocation(p, e) = r
  BY <1>1 DEF Relocation
<1>3. r \in Entry /\ (r \in Visible <=> e # 0)
  BY DEF Entry, Visible
<1>4. /\ Append(as, r) \in Seq(Entry)
      /\ Only(Append(as, r), Visible) =
           IF r \in Visible THEN Append(Only(as, Visible), r) ELSE Only(as, Visible)
  <2>1. Append(as, r) \in Seq(Entry)
    BY <1>3, AppendProperties
  <2> QED BY <1>3, <2>1, OneAdded, Zenon
<1> QED BY <1>1, <1>2, <1>3, <1>4, Zenon DEF Reads

-------------------------------------------------------------------------------
(* The steps *)

LEMMA RelocInvInit == ASSUME Init PROVE RelocInv
<1>1. /\ reloc_blocks = <<>> /\ relocs = <<>> /\ added = <<>> /\ sections = <<>>
      /\ image.relocs = <<>> /\ cur = 0
  BY DEF Init
<1>2. PICK bs : bs = reloc_blocks
  OBVIOUS
<1>3. bs \in Seq(BlockType) /\ Len(bs) = 0 /\ bs = <<>>
  BY <1>1, <1>2
<1>4. Before(bs, Len(bs) + 1) = Len(relocs)
  <2>1. PICK c : Cuts(c, bs)
    BY <1>3, CutsExist
  <2>2. 0 \in 0..Len(bs) /\ Len(bs) + 1 = 0 + 1 /\ Len(relocs) = 0
    BY <1>1, <1>3
  <2>3. Before(bs, 0 + 1) = c[0] /\ c[0] = 0
    BY <2>1, <2>2 DEF Cuts
  <2> QED BY <2>2, <2>3
<1>5. ReadOf(bs, relocs) = Only(added, Visible)
  <2>1. BlocksOf(bs, relocs) = <<>>
    BY <1>3 DEF BlocksOf
  <2>2. <<>> \in Seq(WrittenBlock) /\ Len(<<>>) = 0
    OBVIOUS
  <2>3. \E f : ReadSteps(f, <<>>) /\ ReadRelocs(<<>>) = f[0]
    BY <2>2, ReadIs
  <2>4. ReadRelocs(<<>>) = <<>>
    BY <2>3 DEF ReadSteps
  <2> QED BY <1>1, <2>1, <2>4, OnlyEmpty DEF ReadOf
<1>6. relocs \in Seq(Nat) /\ added \in Seq(Entry)
  BY <1>1
<1>7. BlocksOk(reloc_blocks, relocs, added)
  BY <1>2, <1>3, <1>4, <1>5, <1>6 DEF BlocksOk
<1> QED BY <1>1, <1>7 DEF RelocInv, RelocReserved

(* A step that has nothing to do with relocations.                         *)
LEMMA RelocsKept ==
    ASSUME RelocInv, UNCHANGED relocVars, RelocReserved' <=> RelocReserved,
           image'.relocs = image.relocs, cur' = 0 => cur = 0
    PROVE  RelocInv'
BY DEF RelocInv, relocVars

LEMMA RelocAdded ==
    ASSUME RelocInv, NEW a \in Nat, NEW t \in Nat, AddReloc(a, t) PROVE RelocInv'
<1>1. PICK p : p = a - (a % PAGE)
  OBVIOUS
<1>2. PICK e : e = Packed(a, t)
  OBVIOUS
<1>3. PICK r : r = [address |-> a, type |-> t]
  OBVIOUS
<1>4. /\ cur = 0 /\ ~RelocReserved /\ added' = Append(added, r)
      /\ UNCHANGED <<fmt, layoutVars, reloc_offset, ranges, writeVars>>
  BY <1>3 DEF AddReloc
<1>5. BlocksOk(reloc_blocks, relocs, added) /\ added \in Seq(Entry)
  BY DEF RelocInv, BlocksOk
<1>6. /\ p \in Nat /\ e \in Nat /\ added' \in Seq(Entry)
      /\ Reads(Only(added', Visible), Only(added, Visible), p, e)
  BY <1>1, <1>2, <1>3, <1>4, <1>5, PackedReads
<1>7. BlocksOk(reloc_blocks, relocs, added)'
  <2>1. CASE reloc_blocks # <<>> /\ LastBlock.page = p
    <3>1. reloc_blocks' = WithOne(reloc_blocks) /\ relocs' = Append(relocs, e)
      BY <1>1, <1>2, <2>1 DEF AddReloc, WithOne
    <3>2. BlocksOk(WithOne(reloc_blocks), Append(relocs, e), added')
      BY <1>5, <1>6, <2>1, BlockJoined DEF LastBlock
    <3> QED BY <3>1, <3>2
  <2>2. CASE ~(reloc_blocks # <<>> /\ LastBlock.page = p)
    <3>1. PICK x : x = [page |-> p, count |-> 1]
      OBVIOUS
    <3>2. /\ reloc_blocks' = Append(PaddedBlocks, x)
          /\ relocs' = Append(PaddedRelocs, e)
      BY <1>1, <1>2, <2>2, <3>1 DEF AddReloc
    <3>3. x \in BlockType /\ x.count = 1 /\ x.page = p
      BY <1>6, <3>1 DEF BlockType
    <3>4. BlocksOk(PaddedBlocks, PaddedRelocs, added) /\ Even(PaddedBlocks)
      BY <1>5, PaddingOk
    <3>5. BlocksOk(Append(PaddedBlocks, x), Append(PaddedRelocs, e), added')
      BY <1>6, <3>3, <3>4, BlockBegun
    <3> QED BY <3>2, <3>5
  <2> QED BY <2>1, <2>2
<1>8. ~RelocReserved' /\ image'.relocs = <<>>
  <2>1. sections' = sections /\ image' = image
    BY <1>4 DEF layoutVars, writeVars
  <2> QED BY <1>4, <2>1 DEF RelocReserved, RelocInv
<1> QED BY <1>7, <1>8 DEF RelocInv

LEMMA RelocsReserved == ASSUME RelocInv, ReserveRelocSection PROVE RelocInv'
<1>1. /\ reloc_blocks' = PaddedBlocks /\ relocs' = PaddedRelocs /\ added' = added
      /\ image' = image /\ cur = 0
  BY DEF ReserveRelocSection, ReserveSection, writeVars
<1>2. BlocksOk(PaddedBlocks, PaddedRelocs, added) /\ Even(PaddedBlocks)
  BY PaddingOk DEF RelocInv
<1>3. BlocksOk(reloc_blocks, relocs, added)' /\ Even(reloc_blocks')
  BY <1>1, <1>2
<1>4. image'.relocs = <<>>
  BY <1>1 DEF RelocInv
<1> QED BY <1>3, <1>4 DEF RelocInv

(* The other sections are of other kinds.                                  *)
LEMMA TypedSectionKept ==
    ASSUME IInv, RelocInv, NEW k, NEW vs, NEW ds, ReserveTypedSection(k, vs, ds)
    PROVE  RelocInv'
<1>1. PICK s : sections' = Append(sections, s) /\ s.kind = k
  <2>1. PICK s : s = [range |-> SectionRange(vs, ds), kind |-> k, data |-> ds]
    OBVIOUS
  <2> QED BY <2>1 DEF ReserveTypedSection, ReserveSection
<1>2. k # "reloc" /\ cur = 0 /\ UNCHANGED <<relocVars, writeVars>>
  BY DEF ReserveTypedSection, ReserveSection
<1>3. sections \in Seq(SectionType)
  BY DEF IInv, FieldTypes
<1>4. PICK n \in Nat : n = Len(sections) /\ DOMAIN sections = 1..n
  BY <1>3
<1>5. /\ DOMAIN sections' = 1..(n + 1) /\ sections'[n + 1] = s
      /\ \A i \in 1..n : sections'[i] = sections[i]
  BY <1>1, <1>3, <1>4
<1>6. \A i \in 1..(n + 1) : i \in 1..n \/ i = n + 1
  OBVIOUS
<1>7. \A i \in 1..n : i \in 1..(n + 1)
  OBVIOUS
<1>8. RelocReserved' <=> RelocReserved
  BY <1>1, <1>2, <1>4, <1>5, <1>6, <1>7 DEF RelocReserved
<1> QED BY <1>2, <1>8, RelocsKept DEF writeVars

LEMMA RelocsWrite ==
    ASSUME IInv, RelocInv, WriteNext PROVE RelocInv'
<1>1. PICK k : Turn(k)
  BY DEF WriteNext, WriteDosHeader, WriteRaw, PadUntil, WriteNtHeaders,
     WriteSectionHeaders, WriteSection, WriteRelocSection, WriteCertificateTable
<1>2. /\ UNCHANGED <<relocVars, sections, ranges>> /\ cur' = cur + 1 /\ cur \in Nat
      /\ cur < Len(ranges)
  BY <1>1 DEF Turn, layoutVars, IInv, FieldTypes
<1>3. (RelocReserved' <=> RelocReserved) /\ cur' # 0
  BY <1>2 DEF RelocReserved
<1>4. image = [nt |-> image.nt, headers |-> image.headers, relocs |-> image.relocs]
  BY DEF IInv, FieldTypes
<1>5. CASE WriteRelocSection
  <2>1. image'.relocs = RelocBlocksWritten
    BY <1>4, <1>5 DEF WriteRelocSection
  <2>2. RelocBlocksWritten = BlocksOf(reloc_blocks, relocs)
    BY DEF RelocBlocksWritten, BlocksOf, Before
  <2>3. RelocReserved
    <3>1. ranges[cur + 1].kind = "reloc"
      BY <1>5 DEF WriteRelocSection, Turn
    <3>2. cur + 1 \in DOMAIN ranges
      <4>1. ranges \in Seq(RangeType)
        BY DEF IInv, FieldTypes
      <4> QED BY <1>2, <4>1
    <3> QED BY <3>1, <3>2 DEF IInv, Layout, RangeFits
  <2> QED BY <1>2, <1>3, <2>1, <2>2, <2>3 DEF RelocInv, relocVars
<1>6. CASE ~WriteRelocSection
  <2>1. image'.relocs = image.relocs
    BY <1>4, <1>6 DEF WriteNext, WriteDosHeader, WriteRaw, PadUntil, WriteNtHeaders,
       WriteSectionHeaders, WriteSection, WriteCertificateTable
  <2> QED BY <1>2, <1>3, <2>1, RelocsKept
<1> QED BY <1>5, <1>6

LEMMA RelocsNext == ASSUME IInv, RelocInv, [Next]_vars PROVE RelocInv'
<1> USE ConstantsAssumption
<1>1. ASSUME UNCHANGED relocVars, UNCHANGED sections, UNCHANGED <<image, cur>> PROVE RelocInv'
  <2>1. RelocReserved' <=> RelocReserved
    BY <1>1 DEF RelocReserved
  <2> QED BY <1>1, <2>1, RelocsKept
<1>2. CASE ReserveHeaderNext
  <2>1. UNCHANGED relocVars /\ UNCHANGED sections /\ UNCHANGED <<image, cur>>
    BY <1>2 DEF ReserveHeaderNext, ReserveDosHeader, ReserveNtHeaders,
       ReserveSectionHeaders, OnlyReserved, writeVars
  <2> QED BY <1>1, <2>1
<1>3. CASE ReserveExtraNext
  <2>1. UNCHANGED relocVars /\ UNCHANGED sections /\ UNCHANGED <<image, cur>>
    BY <1>3 DEF ReserveExtraNext, ReserveRaw, ReserveUntil, ReserveCertificateTable,
       ReserveVirtual, OnlyReserved, writeVars
  <2> QED BY <1>1, <2>1
<1>4. CASE ReserveDirectoryNext
  <2>1. UNCHANGED relocVars /\ UNCHANGED sections /\ UNCHANGED <<image, cur>>
    BY <1>4 DEF ReserveDirectoryNext, SetDataDirectory, writeVars
  <2> QED BY <1>1, <2>1
<1>5. CASE ReserveSectionNext
  <2>1. ASSUME NEW k \in Kinds, NEW vs \in VirtualSizes,
               NEW ds \in DataSizes \cup VirtualSizes, ReserveTypedSection(k, vs, ds)
        PROVE  RelocInv'
    BY <2>1, TypedSectionKept
  <2>2. ASSUME NEW a \in Addresses, NEW t \in Types, AddReloc(a, t) PROVE RelocInv'
    <3>1. a \in Nat /\ t \in Nat
      OBVIOUS
    <3> QED BY <2>2, <3>1, RelocAdded
  <2>3. CASE ReserveRelocSection
    BY <2>3, RelocsReserved
  <2> QED BY <1>5, <2>1, <2>2, <2>3 DEF ReserveSectionNext
<1>6. CASE WriteNext
  BY <1>6, RelocsWrite
<1>7. CASE UNCHANGED vars
  <2>1. UNCHANGED relocVars /\ UNCHANGED sections /\ UNCHANGED <<image, cur>>
    BY <1>7 DEF vars, layoutVars, writeVars
  <2> QED BY <1>1, <2>1
<1> QED BY <1>2, <1>3, <1>4, <1>5, <1>6, <1>7 DEF Next

(* The blocks of relocations hold what was added, in order; only the last  *)
(* is ever of an odd number, and none is once the section is reserved.     *)
THEOREM RelocInvariant == Spec => [](IInv /\ RelocInv)
<1>1. Init => IInv /\ RelocInv
  BY InitInv, RelocInvInit
<1>2. IInv /\ RelocInv /\ [Next]_vars => IInv' /\ RelocInv'
  BY NextInv, RelocsNext
<1> QED BY <1>1, <1>2, PTL DEF Spec

(* Each block that is written is one the reader accepts, of its own size   *)
(* and of a multiple of four bytes, and what it reads of them are the      *)
(* relocations that were added, in order, without those like padding.      *)
THEOREM RelocsFound == Spec => []RelocsReadBack
<1>1. ASSUME RelocInv PROVE RelocsReadBack
  <2> USE <1>1
  <2> SUFFICES ASSUME image.relocs # <<>>
               PROVE  /\ \A i \in DOMAIN image.relocs : BlockIsValid(image.relocs[i])
                      /\ ReadRelocs(image.relocs) = Only(added, Visible)
    BY DEF RelocsReadBack
  <2>1. PICK bs, rs : bs = reloc_blocks /\ rs = relocs
    OBVIOUS
  <2>2. BlocksOk(bs, rs, added) /\ Even(bs) /\ image.relocs = BlocksOf(bs, rs)
    BY <2>1 DEF RelocInv
  <2>3. ReadRelocs(image.relocs) = Only(added, Visible)
    BY <2>2 DEF BlocksOk, ReadOf
  <2>4. bs \in Seq(BlockType) /\ rs \in Seq(Nat)
    BY <2>2 DEF BlocksOk
  <2>5. PICK c : Cuts(c, bs)
    BY <2>4, CutsExist
  <2>6. c[Len(bs)] = Len(rs)
    <3>1. Len(bs) \in 0..Len(bs)
      BY <2>4
    <3> QED BY <2>2, <2>5, <3>1 DEF Cuts, BlocksOk
  <2>7. DOMAIN image.relocs = 1..Len(bs)
    BY <2>2, <2>4 DEF BlocksOf
  <2>8. ASSUME NEW i \in 1..Len(bs) PROVE BlockIsValid(BlocksOf(bs, rs)[i])
    <3>1. IsBlock(bs, rs, c, i)
      BY <2>4, <2>5, <2>6, BlockIs
    <3>2. PICK p \in Nat, k \in Nat, a \in Nat :
            /\ k = bs[i].count /\ a + k <= Len(rs)
            /\ BlocksOf(bs, rs)[i] = WrittenAs(p, k, CutOf(rs, a, k))
      BY <3>1, Zenon DEF IsBlock
    <3>3. k >= 1 /\ k % 2 = 0
      BY <2>2, <3>2 DEF BlocksOk, Even
    <3>4. PICK es : es = CutOf(rs, a, k)
      OBVIOUS
    <3>5. Len(es) = k
      BY <2>4, <3>2, <3>4, CutIs
    <3>6. PICK b : b = WrittenAs(p, k, es)
      OBVIOUS
    <3>7. b.size = 8 + 2 * k /\ b.entries = es
      BY <3>6 DEF WrittenAs
    <3>8. 8 + 2 * k > 8 /\ (8 + 2 * k) % 4 = 0
      BY <3>3
    <3>9. BlockIsValid(b)
      BY <3>5, <3>7, <3>8 DEF BlockIsValid
    <3> QED BY <3>2, <3>4, <3>6, <3>9
  <2> QED BY <2>2, <2>3, <2>7, <2>8
<1> QED BY <1>1, RelocInvariant, PTL
===============================================================================
