------------------------------ MODULE PeWriter ------------------------------
(***************************************************************************)
(* The two-phase Writer of write/pe.rs.  An image has two address spaces,  *)
(* the file and memory; the writer reserves both, and pads to one          *)
(* alignment in each.  Section headers, data directories and the optional  *)
(* header are written with what the first phase worked out.                *)
(*                                                                         *)
(* The debug assertions of the first phase are guards: they are the        *)
(* protocol of the client.  Those of the second phase are not, they are    *)
(* what Landed and Complete claim; the steps do what a release build does. *)
(***************************************************************************)
EXTENDS Sums, Sequences, FiniteSets

CONSTANTS
    Wides,        \* what new is passed: whether the image is of the 64-bit kind,
    SectionAligns,    \* its alignments in memory
    FileAligns,       \* and in the file
    Directories,  \* the numbers of data directories
    Extras,       \* kinds of file ranges the client reserves by itself
    ExtraSizes,   \* their sizes ...
    Aligns,       \* ... and the alignments of the raw ones
    Kinds,        \* the kinds of sections it reserves
    VirtualSizes, \* their sizes in memory
    DataSizes,    \* their sizes in the file, where they may differ
    Gaps,         \* distances it skips in memory
    MaxVirtual,   \* bound on the memory reserved where it skips one
    Addresses,    \* addresses of relocations
    Types,        \* types of relocations
    MaxExtras,    \* bound on the client's own ranges
    MaxSections,  \* bound on the sections
    MaxRelocs     \* bound on the relocations

(* The content a section's characteristics announce.  A plain section is   *)
(* one the client reserves with characteristics of its own, here with none *)
(* of the three.                                                           *)
ContentOf ==
    [text |-> "code", data |-> "data", rdata |-> "data", bss |-> "bss",
     idata |-> "data", edata |-> "data", pdata |-> "data", xdata |-> "data",
     rsrc |-> "data", reloc |-> "data", plain |-> "none"]

(* IMAGE_DIRECTORY_ENTRY_*, of the sections that have one.                 *)
DirectoryOf == [edata |-> 0, idata |-> 1, rsrc |-> 2, pdata |-> 3, reloc |-> 5]
SECURITY == 4

(* The page of a block of relocations.                                     *)
PAGE == 4096

Formats == [wide : Wides, section : SectionAligns, file : FileAligns]

ASSUME ConstantsAssumption ==
    /\ Wides \subseteq BOOLEAN
    /\ SectionAligns \cup FileAligns \cup Aligns \subseteq Nat \ {0}
    /\ Directories \subseteq Nat
    /\ Extras \subseteq {"raw", "until", "cert"}
    /\ Kinds \subseteq DOMAIN ContentOf
    /\ ExtraSizes \subseteq Nat /\ VirtualSizes \subseteq Nat /\ DataSizes \subseteq Nat
    /\ Gaps \subseteq Nat /\ Addresses \subseteq Nat /\ Types \subseteq 0..15
    /\ MaxExtras \in Nat /\ MaxSections \in Nat /\ MaxRelocs \in Nat
    /\ MaxVirtual \in Nat

(* new: "The alignment values must be powers of two".                      *)
ASSUME PowersOfTwo ==
    \A a \in SectionAligns \cup FileAligns \cup Aligns : \E e \in 0..31 : a = 2^e

VARIABLES
    fmt,          \* is_64, section_alignment and file_alignment
    len,          \* length of the reserved file
    virtual_len,  \* length of the reserved memory
    headers_len,  \* length of the headers, once reserved
    stats,        \* code_address, data_address, code_len, data_len, bss_len
    nt_headers_offset,
    data_directories,    \* [address, size], the directory with index d at d + 1
    section_header_num,
    sections,     \* the sections, in order, with the size of their data
    reloc_blocks, \* the blocks of relocations: [page, count]
    relocs,       \* the relocations of all blocks, with padding
    reloc_offset,
    buf,          \* length of the buffer
    image,        \* what a reader needs of the bytes written
    ranges,       \* client: the file ranges it reserved, in order
    added,        \* client: the relocations it added
    cur,          \* client: the last range written, 0 in the first phase
    landed        \* history: where ranges were put, and the length before

layoutVars == <<len, virtual_len, headers_len, stats, nt_headers_offset,
                data_directories, section_header_num, sections>>
relocVars == <<reloc_blocks, relocs, added>>
writeVars == <<buf, image, cur, landed>>
vars == <<fmt, layoutVars, relocVars, reloc_offset, ranges, writeVars>>

-------------------------------------------------------------------------------
(* Sizes *)

AlignUp(n, a) == n + ((-n) % a)

DosSize == 64
ShdrSize == 40
DirSize == 8
NtSize == IF fmt.wide THEN 136 ELSE 120

(* Mutant: the data directories are left out.                              *)
Bug_OptionalHeaderSize == (NtSize - 24) % 65536

(* What size_of_optional_header gets: the NT headers without signature and *)
(* file header, in 16 bits.                                                *)
OptionalHeaderSize ==
    (NtSize - 24 + Len(data_directories) * DirSize) % 65536

BlockSize(b) == 8 + 2 * b.count

(* The size of the first n blocks.                                         *)
BlockSizes(blocks) == [i \in 1..Len(blocks) |-> BlockSize(blocks[i])]
RelocSize(blocks, n) == SumTo(BlockSizes(blocks), n)

End(r) == r.offset + r.size

-------------------------------------------------------------------------------
(* The first phase: reserving *)

Init ==
    /\ fmt \in Formats
    /\ len = 0 /\ virtual_len = 0 /\ headers_len = 0
    /\ stats = [code_address |-> 0, data_address |-> 0, code |-> 0, data |-> 0, bss |-> 0]
    /\ nt_headers_offset = 0 /\ data_directories = <<>>
    /\ section_header_num = 0 /\ sections = <<>>
    /\ reloc_blocks = <<>> /\ relocs = <<>> /\ reloc_offset = 0
    /\ buf = 0
    /\ image = [nt |-> <<>>, headers |-> <<>>, relocs |-> <<>>]
    /\ ranges = <<>> /\ added = <<>> /\ cur = 0 /\ landed = <<>>

FileRange(k, o, s, a, i) == [kind |-> k, offset |-> o, size |-> s, align |-> a, section |-> i]

Reserving == cur = 0 /\ ranges # <<>>
HeadersReserved == headers_len # 0

(* reserve, of something that is not empty, and the client's note of it.   *)
Reserve(k, s, a, i) ==
    /\ len' = AlignUp(len, a) + s
    /\ ranges' = Append(ranges, FileRange(k, AlignUp(len, a), s, a, i))

OnlyReserved ==
    UNCHANGED <<fmt, virtual_len, headers_len, stats, nt_headers_offset,
                data_directories, section_header_num, sections, relocVars,
                reloc_offset, writeVars>>

ReserveDosHeader ==
    /\ len = 0
    /\ Reserve("dos", DosSize, 1, 0)
    /\ OnlyReserved

(* A range of the client's: a stub or a rich header before the NT headers, *)
(* or data outside of all sections.  The section headers are to follow the *)
(* NT headers, nothing can come between.                                   *)
ReserveExtra(k) ==
    /\ k \in Extras /\ Reserving
    /\ nt_headers_offset = 0 \/ HeadersReserved
    /\ Cardinality({i \in DOMAIN ranges : ranges[i].kind \in Extras}) < MaxExtras

ReserveRaw(n, a) ==
    /\ ReserveExtra("raw") /\ n # 0
    /\ Reserve("raw", n, a, 0)
    /\ OnlyReserved

ReserveUntil(n) ==
    /\ ReserveExtra("until")
    /\ Reserve("until", n, 1, 0)
    /\ OnlyReserved

(* The NT headers and the data directories are one range here: the second  *)
(* is not aligned.                                                         *)
ReserveNtHeaders(n) ==
    /\ Reserving /\ nt_headers_offset = 0
    /\ nt_headers_offset' = AlignUp(len, 8)
    /\ Reserve("nt", NtSize + n * DirSize, 8, 0)
    /\ data_directories' = [d \in 1..n |-> [address |-> 0, size |-> 0]]
    /\ UNCHANGED <<fmt, virtual_len, headers_len, stats, section_header_num,
                   sections, relocVars, reloc_offset, writeVars>>

(* What a data directory is set to; a client must not set one twice.       *)
Unset(d) == d < Len(data_directories) /\ data_directories[d + 1].address = 0
WithDirectory(d, a, s) ==
    [data_directories EXCEPT ![d + 1] = [address |-> a, size |-> s]]

SetDataDirectory(d, a, s) ==
    /\ cur = 0 /\ Unset(d)
    /\ data_directories' = WithDirectory(d, a, s)
    /\ UNCHANGED <<fmt, len, virtual_len, headers_len, stats, nt_headers_offset,
                   section_header_num, sections, relocVars, reloc_offset, ranges,
                   writeVars>>

(* What headers_len is to be: padding before the sections counts.          *)
HeadersLen(n) == AlignUp(len + n * ShdrSize, fmt.file)

(* Mutant: the memory of a section is taken to be of the size of its data. *)
Bug_VirtualAfter(vs, ds) == AlignUp(virtual_len + ds, fmt.section)

(* reserve_virtual, for what has vs bytes in memory and ds in the file.    *)
VirtualAfter(vs, ds) == AlignUp(virtual_len + vs, fmt.section)

(* The headers take the memory at 0.  The client has reserved none yet.    *)
ReserveSectionHeaders(n) ==
    /\ nt_headers_offset # 0 /\ ~HeadersReserved /\ cur = 0
    /\ section_header_num' = n
    /\ ranges' = IF n = 0 THEN ranges
                 ELSE Append(ranges, FileRange("shdrs", len, n * ShdrSize, 1, 0))
    /\ headers_len' = HeadersLen(n)
    /\ len' = HeadersLen(n)
    /\ virtual_len' = VirtualAfter(HeadersLen(n), HeadersLen(n))
    /\ UNCHANGED <<fmt, stats, nt_headers_offset, data_directories, sections,
                   relocVars, reloc_offset, writeVars>>

(* reserve_virtual with nothing to show for it, and reserve_virtual_until. *)
ReserveVirtual(n) ==
    /\ HeadersReserved /\ cur = 0 /\ Len(sections) < section_header_num
    /\ virtual_len < MaxVirtual
    /\ virtual_len' = VirtualAfter(n, 0)
    /\ UNCHANGED <<fmt, len, headers_len, stats, nt_headers_offset, data_directories,
                   section_header_num, sections, relocVars, reloc_offset, ranges,
                   writeVars>>

(* Where a section with vs bytes in memory and ds in the file will be.     *)
SectionRange(vs, ds) ==
    LET fsize == AlignUp(ds, fmt.file) IN
    [address |-> virtual_len, vsize |-> vs, fsize |-> fsize,
     offset |-> IF fsize = 0 THEN 0 ELSE AlignUp(len, fmt.file)]

(* code_len, data_len and bss_len count sizes in memory, aligned as in the *)
(* file; the first section of each content is remembered.                  *)
StatsWith(content, address, vs) ==
    LET n == AlignUp(vs, fmt.file)
        First(old) == IF old = 0 THEN address ELSE old
    IN  CASE content = "code" ->
               [stats EXCEPT !.code_address = First(@), !.code = @ + n]
          [] content = "data" ->
               [stats EXCEPT !.data_address = First(@), !.data = @ + n]
          [] content = "bss"  ->
               [stats EXCEPT !.data_address = First(@), !.bss = @ + n]
          [] OTHER -> stats

(* reserve_section.  What is reserved must have been announced.            *)
ReserveSection(k, vs, ds) ==
    LET s == SectionRange(vs, ds) IN
    /\ HeadersReserved /\ cur = 0
    /\ Len(sections) < section_header_num
    /\ sections' = Append(sections, [range |-> s, kind |-> k, data |-> ds])
    /\ virtual_len' = VirtualAfter(vs, ds)
    /\ stats' = StatsWith(ContentOf[k], s.address, vs)
    /\ IF s.fsize # 0
         THEN Reserve(IF k = "reloc" THEN "reloc" ELSE "section", s.fsize, fmt.file,
                      Len(sections) + 1)
         ELSE UNCHANGED <<len, ranges>>

(* Mutant: the directory gets the size in the file.                        *)
Bug_SectionDirectories(k, vs, ds) ==
    IF k \in DOMAIN DirectoryOf
    THEN WithDirectory(DirectoryOf[k], virtual_len, AlignUp(ds, fmt.file))
    ELSE data_directories

(* The data directory a section is recorded in.                            *)
SectionDirectories(k, vs, ds) ==
    IF k \in DOMAIN DirectoryOf
    THEN WithDirectory(DirectoryOf[k], virtual_len, vs)
    ELSE data_directories

(* The reserve_*_section functions: only plain sections and .data are of   *)
(* two sizes, .bss is not in the file.                                     *)
ReserveTypedSection(k, vs, ds) ==
    /\ k \in Kinds \ {"reloc"}
    /\ k = "bss" => ds = 0
    /\ k \notin {"plain", "data", "bss"} => ds = vs
    /\ k \in DOMAIN DirectoryOf => Unset(DirectoryOf[k])
    /\ ReserveSection(k, vs, ds)
    /\ data_directories' = SectionDirectories(k, vs, ds)
    /\ UNCHANGED <<fmt, headers_len, nt_headers_offset, section_header_num,
                   relocVars, reloc_offset, writeVars>>

(* Blocks must have an even number of relocations.                         *)
LastBlock == reloc_blocks[Len(reloc_blocks)]
Odd == reloc_blocks # <<>> /\ LastBlock.count % 2 # 0
PaddedBlocks ==
    IF Odd THEN [reloc_blocks EXCEPT ![Len(reloc_blocks)].count = @ + 1]
    ELSE reloc_blocks
PaddedRelocs == IF Odd THEN Append(relocs, 0) ELSE relocs

(* A relocation packs its type with its offset in the page.                *)
Packed(a, t) == t * PAGE + (a % PAGE)

RelocReserved == \E i \in DOMAIN sections : sections[i].kind = "reloc"

(* Mutant: a new block is begun without padding the last one.              *)
Bug_AddReloc(a, t) ==
    LET page == a - (a % PAGE)
        same == reloc_blocks # <<>> /\ LastBlock.page = page
    IN
    /\ cur = 0 /\ ~RelocReserved /\ Len(added) < MaxRelocs
    /\ reloc_blocks # <<>> => LastBlock.page <= page
    /\ reloc_blocks' = IF same
         THEN [reloc_blocks EXCEPT ![Len(reloc_blocks)].count = @ + 1]
         ELSE Append(reloc_blocks, [page |-> page, count |-> 1])
    /\ relocs' = Append(relocs, Packed(a, t))
    /\ added' = Append(added, [address |-> a, type |-> t])
    /\ UNCHANGED <<fmt, layoutVars, reloc_offset, ranges, writeVars>>

(* Pages must ascend: the code asserts it.  That none is added behind the  *)
(* .reloc section is up to the client.                                     *)
AddReloc(a, t) ==
    LET page == a - (a % PAGE)
        same == reloc_blocks # <<>> /\ LastBlock.page = page
    IN
    /\ cur = 0 /\ ~RelocReserved /\ Len(added) < MaxRelocs
    /\ reloc_blocks # <<>> => LastBlock.page <= page
    /\ reloc_blocks' = IF same
         THEN [reloc_blocks EXCEPT ![Len(reloc_blocks)].count = @ + 1]
         ELSE Append(PaddedBlocks, [page |-> page, count |-> 1])
    /\ relocs' = Append(IF same THEN relocs ELSE PaddedRelocs, Packed(a, t))
    /\ added' = Append(added, [address |-> a, type |-> t])
    /\ UNCHANGED <<fmt, layoutVars, reloc_offset, ranges, writeVars>>

ReserveRelocSection ==
    LET size == RelocSize(PaddedBlocks, Len(PaddedBlocks)) IN
    /\ "reloc" \in Kinds /\ Unset(DirectoryOf["reloc"])
    /\ ReserveSection("reloc", size, size)
    /\ reloc_blocks' = PaddedBlocks
    /\ relocs' = PaddedRelocs
    /\ data_directories' = SectionDirectories("reloc", size, size)
    /\ reloc_offset' = SectionRange(size, size).offset
    /\ UNCHANGED <<fmt, headers_len, nt_headers_offset, section_header_num, added,
                   writeVars>>

(* The certificate table is found by its offset in the file.               *)
ReserveCertificateTable(n) ==
    LET size == AlignUp(n, 8) IN
    /\ ReserveExtra("cert") /\ size # 0
    /\ Unset(SECURITY)
    /\ Reserve("cert", size, 8, 0)
    /\ data_directories' = WithDirectory(SECURITY, AlignUp(len, 8), size)
    /\ UNCHANGED <<fmt, virtual_len, headers_len, stats, nt_headers_offset,
                   section_header_num, sections, relocVars, reloc_offset, writeVars>>

-------------------------------------------------------------------------------
(* The second phase: writing, in the order of the ranges *)

Reserved == HeadersReserved /\ Len(sections) = section_header_num

(* The range whose turn it is.                                             *)
Turn(k) ==
    /\ Reserved
    /\ cur < Len(ranges) /\ ranges[cur + 1].kind = k
    /\ cur' = cur + 1
    /\ UNCHANGED <<fmt, layoutVars, relocVars, reloc_offset, ranges>>
Current == ranges[cur + 1]

(* n bytes are written at position o, and padded to alignment a.           *)
Put(o, n, a) ==
    /\ buf' = AlignUp(o + n, a)
    /\ landed' = Append(landed, [range |-> cur + 1, from |-> buf, at |-> o])

(* pad_until the offset the client knows, which asserts that it need not   *)
(* go back.                                                                *)
WriteCurrent == Put(Current.offset, Current.size, 1)

(* An output that has no room for the image refuses here, and the client   *)
(* gives up, as it may at any point.                                       *)
WriteDosHeader == Turn("dos") /\ Put(buf, DosSize, 1) /\ UNCHANGED image

(* Mutant: write_align is forgotten.                                       *)
Bug_WriteRaw ==
    /\ Turn("raw")
    /\ IF image.nt = <<>> THEN Put(buf, Current.size, 1)
       ELSE WriteCurrent
    /\ UNCHANGED image

(* Raw data follows write_align; behind a section that the client filled   *)
(* but partly, only pad_until will do.                                     *)
WriteRaw ==
    /\ Turn("raw")
    /\ IF image.nt = <<>> THEN Put(AlignUp(buf, Current.align), Current.size, 1)
       ELSE WriteCurrent
    /\ UNCHANGED image

PadUntil == Turn("until") /\ WriteCurrent /\ UNCHANGED image

(* The NT headers go by what has been reserved until now.                  *)
NtHeaders ==
    [e_lfanew    |-> nt_headers_offset,
     sections    |-> section_header_num % 65536,
     optional    |-> OptionalHeaderSize,
     image_len   |-> virtual_len,
     headers_len |-> headers_len,
     stats       |-> stats,
     directories |-> data_directories]

WriteNtHeaders ==
    /\ Turn("nt")
    /\ Put(nt_headers_offset, NtSize + Len(data_directories) * DirSize, 1)
    /\ image' = [image EXCEPT !.nt = <<NtHeaders>>]

(* The section headers are neither padded nor aligned.                     *)
WriteSectionHeaders ==
    /\ Turn("shdrs")
    /\ Put(buf, Len(sections) * ShdrSize, 1)
    /\ image' = [image EXCEPT !.headers = [i \in DOMAIN sections |-> sections[i].range]]

(* Mutant: the data is not padded.                                         *)
Bug_WriteSection(n) ==
    LET s == sections[Current.section] IN
    /\ Turn("section")
    /\ n = s.data
    /\ IF n = 0 THEN UNCHANGED <<buf, landed>> ELSE Put(s.range.offset, n, 1)
    /\ UNCHANGED image

(* The client writes all data it reserved, or no more than memory has room *)
(* for.  No data is not written at all.                                    *)
WriteSection(n) ==
    LET s == sections[Current.section] IN
    /\ Turn("section")
    /\ n = s.data \/ (n = s.range.vsize /\ n < s.data)
    /\ IF n = 0 THEN UNCHANGED <<buf, landed>> ELSE Put(s.range.offset, n, fmt.file)
    /\ UNCHANGED image

RelocBlocksWritten ==
    [i \in DOMAIN reloc_blocks |->
        LET before == (RelocSize(reloc_blocks, i - 1) - 8 * (i - 1)) \div 2 IN
        [page |-> reloc_blocks[i].page, size |-> BlockSize(reloc_blocks[i]),
         entries |-> SubSeq(relocs, before + 1, before + reloc_blocks[i].count)]]

WriteRelocSection ==
    /\ Turn("reloc")
    /\ Put(reloc_offset, RelocSize(reloc_blocks, Len(reloc_blocks)), fmt.file)
    /\ image' = [image EXCEPT !.relocs = RelocBlocksWritten]

(* The certificate table is padded to the size in its directory.           *)
WriteCertificateTable ==
    LET dir == data_directories[SECURITY + 1] IN
    Turn("cert") /\ Put(dir.address, dir.size, 1) /\ UNCHANGED image

-------------------------------------------------------------------------------
(* A client that may do anything the protocol lets it *)

ReserveHeaderNext ==
    \/ ReserveDosHeader
    \/ \E n \in Directories : ReserveNtHeaders(n)
    \/ \E n \in 0..MaxSections : ReserveSectionHeaders(n)

ReserveExtraNext ==
    \/ \E n \in ExtraSizes, a \in Aligns : ReserveRaw(n, a)
    \/ \E n \in ExtraSizes : ReserveUntil(n) \/ ReserveCertificateTable(n)
    \/ \E n \in Gaps : ReserveVirtual(n)

(* A client sets a directory that gets no section of its own, here the     *)
(* last one, when it knows where that is to be.                            *)
ReserveDirectoryNext ==
    LET n == Len(data_directories) IN
    /\ n > 0 /\ ~HeadersReserved
    /\ \E a \in Gaps : SetDataDirectory(n - 1, a, 1)

ReserveSectionNext ==
    \/ \E k \in Kinds, vs \in VirtualSizes, ds \in DataSizes \cup VirtualSizes :
          ReserveTypedSection(k, vs, ds)
    \/ \E a \in Addresses, t \in Types : AddReloc(a, t)
    \/ ReserveRelocSection

WriteNext ==
    \/ WriteDosHeader
    \/ WriteRaw
    \/ PadUntil
    \/ WriteNtHeaders
    \/ WriteSectionHeaders
    \/ \E n \in DataSizes \cup VirtualSizes : WriteSection(n)
    \/ WriteRelocSection
    \/ WriteCertificateTable

Next ==
    \/ ReserveHeaderNext \/ ReserveExtraNext \/ ReserveDirectoryNext
    \/ ReserveSectionNext \/ WriteNext

Spec == Init /\ [][Next]_vars

(* The writer lays its file out as FileLayout promises.                    *)
FL == INSTANCE FileLayout WITH
          ranges <- [i \in DOMAIN ranges |->
                        [offset |-> ranges[i].offset, size |-> ranges[i].size]],
          extent <- buf,
          pieces <- [i \in DOMAIN landed |->
                        [range |-> landed[i].range, at |-> landed[i].at]]

ImplementsLayout == FL!Spec

-------------------------------------------------------------------------------
(* The reader *)

Least(a, b) == IF a < b THEN a ELSE b

(* pe_file_range: no more than is in the file and in memory.               *)
Readable(s) == Least(s.vsize, s.fsize)

(* pe_data_at: the first section that has something at an address.         *)
Holds(s, a) == s.address <= a /\ a - s.address < Readable(s)
SectionsAt(a) == {i \in DOMAIN image.headers : Holds(image.headers[i], a)}
FirstAt(a) == CHOOSE i \in SectionsAt(a) : \A j \in SectionsAt(a) : i <= j

(* Where the section table is looked for.                                  *)
SectionTableAt(h) == h.e_lfanew + 24 + h.optional

(* The elements of s that are in K, in order: a recursive function, so     *)
(* that it can be reasoned about.                                          *)
Only(s, K) ==
    LET only[i \in 0..Len(s)] ==
            IF i = 0 THEN <<>>
            ELSE IF s[i] \in K THEN Append(only[i - 1], s[i]) ELSE only[i - 1]
    IN  only[Len(s)]

(* What the blocks of relocations are read as; zeros are padding.          *)
Relocation(page, e) == [address |-> page + (e % PAGE), type |-> e \div PAGE]

ReadBlock(b) ==
    LET present == Only(b.entries, Nat \ {0})
    IN  [i \in DOMAIN present |-> Relocation(b.page, present[i])]

ReadRelocs(blocks) ==
    LET read[i \in 0..Len(blocks)] ==
            IF i = 0 THEN <<>> ELSE read[i - 1] \o ReadBlock(blocks[i])
    IN  read[Len(blocks)]

BlockIsValid(b) == b.size > 8 /\ b.size % 4 = 0 /\ b.size = 8 + 2 * Len(b.entries)

-------------------------------------------------------------------------------
(* Properties *)

Done == Reserved /\ cur = Len(ranges)

IsRange(s) ==
    /\ s.address \in Nat /\ s.vsize \in Nat /\ s.offset \in Nat /\ s.fsize \in Nat

(* The fields of the writer keep their types.                              *)
TypeOK ==
    /\ fmt \in Formats
    /\ len \in Nat /\ virtual_len \in Nat /\ headers_len \in Nat
    /\ nt_headers_offset \in Nat /\ section_header_num \in 0..MaxSections
    /\ Len(sections) <= section_header_num
    /\ \A i \in DOMAIN sections :
         /\ sections[i].kind \in Kinds /\ sections[i].data \in Nat
         /\ IsRange(sections[i].range)
    /\ reloc_offset \in Nat /\ buf \in Nat /\ cur \in 0..Len(ranges)

(* Nothing is put anywhere but where it was reserved, and pad_until never  *)
(* has to go back.                                                         *)
Landed ==
    \A i \in DOMAIN landed :
        /\ landed[i].from <= landed[i].at
        /\ landed[i].at = ranges[landed[i].range].offset

(* The buffer gets no longer than was reserved, and is as long in the end, *)
(* as the assertion of the clients has it, but for a last section that was *)
(* not filled.                                                             *)
Complete ==
    /\ buf <= len
    /\ Done /\ ranges[cur].kind # "section" =>
         buf = IF len = headers_len THEN End(ranges[cur]) ELSE len

(* Sections ascend, apart from each other and from the headers, in memory  *)
(* and in the file, on the alignments of the image.                        *)
SectionsApart ==
    \A i \in DOMAIN sections :
        LET s == sections[i].range IN
        /\ s.address % fmt.section = 0 /\ s.offset % fmt.file = 0
        /\ s.address >= headers_len
        /\ s.address + s.vsize <= virtual_len
        /\ s.fsize # 0 => s.offset >= headers_len /\ s.offset + s.fsize <= len
        /\ \A j \in 1..(i - 1) :
             LET r == sections[j].range IN
             /\ r.address + r.vsize <= s.address
             /\ s.fsize # 0 => r.offset + r.fsize <= s.offset

(* The sizes and addresses in the optional header are those of the         *)
(* sections with that content.                                             *)
StatsAgree ==
    LET h == image.nt[1]
        Of(C) == {i \in DOMAIN sections : ContentOf[sections[i].kind] \in C}
        Total(C) ==
            SumTo([i \in DOMAIN sections |->
                       IF i \in Of(C) THEN AlignUp(sections[i].range.vsize, fmt.file) ELSE 0],
                  Len(sections))
        IsLowest(a, S) ==
            IF S = {} THEN a = 0
            ELSE \E i \in S : /\ a = sections[i].range.address
                              /\ \A j \in S : a <= sections[j].range.address
    IN  /\ h.stats.code = Total({"code"}) /\ h.stats.data = Total({"data"})
        /\ h.stats.bss = Total({"bss"})
        /\ IsLowest(h.stats.code_address, Of({"code"}))
        /\ IsLowest(h.stats.data_address, Of({"data", "bss"}))

(* The section table is found behind the optional header, has an entry for *)
(* each section, and all the headers are in the part that is loaded as     *)
(* such; the optional header tells what sections there are.                *)
HeadersDescribe ==
    /\ Done => StatsAgree
    /\ \A i \in DOMAIN landed :
        LET r == ranges[landed[i].range] IN
        /\ r.kind = "nt" => r.offset = image.nt[1].e_lfanew
        /\ r.kind = "shdrs" =>
             /\ landed[i].at = SectionTableAt(image.nt[1])
             /\ Len(image.headers) = image.nt[1].sections
             /\ End(r) <= image.nt[1].headers_len

(* All that the reader takes for the contents of a section is in the file. *)
SectionsBacked ==
    Done => \A i \in DOMAIN image.headers :
        LET s == image.headers[i] IN
        Readable(s) # 0 =>
            /\ s.offset + Readable(s) <= buf
            /\ \E j \in DOMAIN landed :
                  landed[j].at = s.offset /\ ranges[landed[j].range].section = i

(* A directory that got a section of its own leads the reader to the data  *)
(* of that section, all of it and no more.                                 *)
DirectoriesResolve ==
    Done => \A i \in DOMAIN sections :
        LET k == sections[i].kind
            d == image.nt[1].directories[DirectoryOf[k] + 1]
        IN  k \in DOMAIN DirectoryOf /\ sections[i].range.vsize # 0 =>
                /\ SectionsAt(d.address) # {} /\ FirstAt(d.address) = i
                /\ d.size = sections[i].data
                /\ d.size <= Readable(image.headers[i])

(* The relocations that do not look like padding.                          *)
Visible == {r \in [address : Nat, type : Nat] : Packed(r.address, r.type) # 0}

(* The relocations that were added come back, in order, but for those that *)
(* look like padding.                                                      *)
RelocsReadBack ==
    image.relocs # <<>> =>
        /\ \A i \in DOMAIN image.relocs : BlockIsValid(image.relocs[i])
        /\ ReadRelocs(image.relocs) = Only(added, Visible)
=============================================================================
