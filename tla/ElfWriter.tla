------------------------------ MODULE ElfWriter ------------------------------
(***************************************************************************)
(* The two-phase Writer of write/elf/writer.rs.  In the first phase its    *)
(* client builds string tables and reserves section indices, symbol        *)
(* indices and file ranges; in the second it writes everything out, and    *)
(* must do so in the order in which it reserved the ranges.  The writer    *)
(* works out twice where a range starts: once on the reserved length, once *)
(* on the length of the buffer.  Headers and symbols are written with what *)
(* the first phase worked out, so the two must agree.                      *)
(*                                                                         *)
(* The debug assertions of the first phase are guards: they are the        *)
(* protocol of the client.  Those of the second phase are not, they are    *)
(* what NoPanic claims; the steps do what a release build does.            *)
(*                                                                         *)
(* Bytes are counted, not modelled, but for the parts a reader needs to    *)
(* find its way: the counts and indices in the file header, the section    *)
(* headers and the section index of each symbol.                           *)
(***************************************************************************)
EXTENDS Integers, Sequences, FiniteSets

CONSTANTS
    Is64,             \* the file class
    IsRela,           \* relocations carry an addend
    LoReserve,        \* SHN_LORESERVE: the first index that needs an escape
    Kinds,            \* the singleton ranges the client makes use of
    LooseKinds,       \* the repeatable ranges it makes use of
    Counts,           \* the counts it passes to the reserve functions
    Aligns,           \* the alignments it passes to reserve
    NameBytes,        \* the room a string may take in a string table
    MaxRanges,        \* bound on the ranges, the file header included
    MaxIndices,       \* bound on the sections, the null one excluded
    MaxSymbols,       \* bound on symbol table entries, the null one included
    MaxStrings,       \* bound on the strings added to .strtab and .dynstr
    ShndxAfterSymtab  \* the client reserves .symtab_shndx after .symtab

StringTables == {"shstrtab", "strtab", "dynstr"}

(* Ranges whose count is an argument of the reserve function.              *)
ArgKinds == {"phdrs", "dynamic", "hash", "gnu_hash", "verdef", "verneed",
             "attributes"}

(* The ranges the writer keeps an offset field for.                        *)
Singletons == StringTables \cup ArgKinds \cup
              {"shdrs", "symtab", "symtab_shndx", "dynsym", "versym"}

(* The ranges whose offset the client keeps: section data and raw writes,  *)
(* relocations, comdat groups, padding up to an offset of the client's.    *)
Loose == {"data", "reloc", "comdat", "until"}

(* The ranges that are a section of their own, and those the client may    *)
(* make a section of.                                                      *)
SectionKinds == Singletons \ {"phdrs", "shdrs"}
ClientKinds == Loose \ {"until"}

ASSUME ConstantsAssumption ==
    /\ Is64 \in BOOLEAN /\ IsRela \in BOOLEAN /\ ShndxAfterSymtab \in BOOLEAN
    /\ LoReserve \in Nat \ {0}
    /\ Kinds \subseteq Singletons /\ LooseKinds \subseteq Loose
    /\ Counts \subseteq Nat /\ NameBytes \subseteq Nat
    /\ Aligns \subseteq Nat \ {0}
    /\ MaxRanges \in Nat /\ MaxIndices \in Nat /\ MaxSymbols \in Nat /\ MaxStrings \in Nat

(* reserve: "align_start must be a power of two".                          *)
ASSUME PowersOfTwo == \A a \in Aligns : \E e \in 0..31 : a = 2^e

VARIABLES
    len,       \* length of the reserved file
    offset,    \* kind -> start of its range, 0 while not reserved
    index,     \* kind -> its section index, 0 while not reserved
    num,       \* kind -> entries reserved, or bytes of a string table's strings
    need,      \* the kinds that were marked as needed
    buf,       \* length of the buffer
    shndx,     \* symtab_shndx_data
    ehdr,      \* the file header, once written
    headers,   \* the section headers written so far
    symbols,   \* the st_shndx fields of the symbols written so far
    blocks,    \* client: the ranges it reserved, in order
    sections,  \* client: what each section index was reserved for, from 1
    symsecs,   \* client: the section of each symbol it reserved, from 1
    strs,      \* client: the number of strings added
    cur,       \* client: the block being written, 0 in the first phase
    left,      \* client: the entries of that block still to be written
    landed     \* history: where the blocks were actually put

clientVars == <<blocks, sections, symsecs, strs>>
reserveVars == <<len, offset, index, num, need>>
writeVars == <<buf, shndx, ehdr, headers, symbols, cur, left, landed>>
vars == <<reserveVars, clientVars, writeVars>>

-------------------------------------------------------------------------------
(* Sizes and alignments *)

WordAlign == IF Is64 THEN 8 ELSE 4
EhdrSize  == IF Is64 THEN 64 ELSE 52
PhdrSize  == IF Is64 THEN 56 ELSE 32
ShdrSize  == IF Is64 THEN 64 ELSE 40
SymSize   == IF Is64 THEN 24 ELSE 16
DynSize   == IF Is64 THEN 16 ELSE 8
RelSize   == (IF Is64 THEN 16 ELSE 8) + (IF ~IsRela THEN 0 ELSE IF Is64 THEN 8 ELSE 4)

(* util::align, for alignments that are powers of two.                     *)
AlignUp(n, a) == n + ((-n) % a)

(* The alignment each reserve function asks for ...                        *)
ReserveAlign(k) ==
    CASE k \in {"phdrs", "shdrs", "symtab", "dynsym", "dynamic", "gnu_hash",
                "attributes", "reloc"}                           -> WordAlign
      [] k \in {"symtab_shndx", "hash", "verdef", "verneed", "comdat"} -> 4
      [] k = "versym" -> 2
      [] OTHER -> 1

(* Mutant: version sections are written without their padding.             *)
Bug_WriteAlign(k) ==
    IF k \in {"versym", "verdef", "verneed"} THEN 1 ELSE ReserveAlign(k)

(* ... and the one the write functions pad to before they write.           *)
WriteAlign(k) ==
    CASE k \in {"phdrs", "shdrs", "symtab", "dynsym", "dynamic", "gnu_hash",
                "attributes", "reloc"}                           -> WordAlign
      [] k \in {"symtab_shndx", "hash", "verdef", "verneed", "comdat"} -> 4
      [] k = "versym" -> 2
      [] OTHER -> 1

(* The bytes reserved for a singleton, given the counts n.  Every version  *)
(* definition and dependency has one auxiliary entry here.                 *)
RangeSize(k, n) ==
    CASE k \in StringTables      -> 1 + n[k]
      [] k = "phdrs"             -> n[k] * PhdrSize
      [] k = "shdrs"             -> n[k] * ShdrSize
      [] k \in {"symtab", "dynsym"} -> n[k] * SymSize
      [] k = "symtab_shndx"      -> n["symtab"] * 4
      [] k = "versym"            -> n["dynsym"] * 2
      [] k = "dynamic"           -> n[k] * DynSize
      [] k = "hash"              -> 8 + n[k] * 4
      [] k = "gnu_hash"          -> 16 + n[k] * 4
      [] k = "verdef"            -> n[k] * 28
      [] k = "verneed"           -> n[k] * 32
      [] OTHER                   -> n[k]

(* Mutant: a comdat group is reserved without room for its header.         *)
Bug_LooseSize(k, c) == IF k = "reloc" THEN c * RelSize
                       ELSE IF k = "comdat" THEN c * 4 ELSE c

LooseSize(k, c) ==
    CASE k = "reloc"  -> c * RelSize
      [] k = "comdat" -> (c + 1) * 4
      [] OTHER        -> c

(* Whether a reserve function does anything, given the counts n.           *)
Needed(k, n) ==
    CASE k \in {"strtab", "dynstr", "symtab_shndx"} -> k \in need
      [] k = "shstrtab"          -> n["shdrs"] # 0
      [] k = "versym"            -> n["dynsym"] # 0
      [] k \in {"hash", "gnu_hash"} -> TRUE
      [] OTHER                   -> n[k] # 0

-------------------------------------------------------------------------------
(* The first phase: reserving *)

Block(k, o, a, c, s) ==
    [kind |-> k, offset |-> o, align |-> a, count |-> c, size |-> s]

End(b) == b.offset + b.size

Reserving == cur = 0 /\ blocks # <<>>

(* reserve, and what the client remembers of it.                           *)
Reserve(k, a, c, size) ==
    LET o == AlignUp(len, a) IN
    /\ Len(blocks) < MaxRanges
    /\ len' = o + size
    /\ blocks' = Append(blocks, Block(k, o, a, c, size))

Init ==
    /\ len = 0 /\ buf = 0
    /\ offset = [k \in Singletons |-> 0]
    /\ index = [k \in Singletons |-> 0]
    /\ num = [k \in Singletons |-> 0]
    /\ need = {}
    /\ shndx = <<>> /\ headers = <<>> /\ symbols = <<>>
    /\ ehdr = [phnum |-> 0, shoff |-> 0, shnum |-> 0, shstrndx |-> 0]
    /\ blocks = <<>> /\ sections = <<>> /\ symsecs = <<>> /\ strs = 0
    /\ cur = 0 /\ left = 0 /\ landed = <<>>

ReserveFileHeader ==
    /\ len = 0
    /\ Reserve("ehdr", 1, 0, EhdrSize)
    /\ UNCHANGED <<offset, index, num, need, sections, symsecs, strs, writeVars>>

NewSectionIndex == IF num["shdrs"] = 0 THEN 1 ELSE num["shdrs"]

(* reserve_section_index and add_section_name, for the section s.          *)
ReserveSection(s, d) ==
    /\ Reserving /\ "shdrs" \in Kinds
    /\ Len(sections) < MaxIndices
    /\ offset["shdrs"] = 0 /\ offset["shstrtab"] = 0
    /\ num' = [num EXCEPT !["shdrs"] = NewSectionIndex + 1,
                          !["shstrtab"] = @ + d]
    /\ sections' = Append(sections, s)

(* What the reserve_*_section_index functions have in common.              *)
ReserveIndex(k, d) ==
    /\ k \in Kinds /\ index[k] = 0
    /\ ReserveSection([kind |-> k, block |-> 0], d)
    /\ index' = [index EXCEPT ![k] = NewSectionIndex]
    /\ UNCHANGED <<len, offset, need, blocks, symsecs, strs, writeVars>>

ReserveShstrtabIndex(d)      == ReserveIndex("shstrtab", d)
ReserveStrtabIndex(d)        == ReserveIndex("strtab", d)
ReserveSymtabIndex(d)        == ReserveIndex("symtab", d)
ReserveSymtabShndxIndex(d)   == ReserveIndex("symtab_shndx", d)
ReserveDynstrIndex(d)        == ReserveIndex("dynstr", d)
ReserveDynsymIndex(d)        == ReserveIndex("dynsym", d)
ReserveDynamicIndex(d)       == ReserveIndex("dynamic", d)
ReserveHashIndex(d)          == ReserveIndex("hash", d)
ReserveGnuHashIndex(d)       == ReserveIndex("gnu_hash", d)
ReserveGnuVersymIndex(d)     == ReserveIndex("versym", d)
ReserveGnuVerdefIndex(d)     == ReserveIndex("verdef", d)
ReserveGnuVerneedIndex(d)    == ReserveIndex("verneed", d)
ReserveGnuAttributesIndex(d) == ReserveIndex("attributes", d)

(* A section of the client's, for a range that it reserved or will.        *)
ReserveClientIndex(k, i, d) ==
    /\ k \in LooseKinds
    /\ i # 0 =>
        /\ i \in DOMAIN blocks /\ blocks[i].kind = k
        /\ \A j \in DOMAIN sections : sections[j].block # i
    /\ ReserveSection([kind |-> k, block |-> i], d)
    /\ UNCHANGED <<len, offset, index, need, blocks, symsecs, strs, writeVars>>

ReserveNullIndex ==
    /\ Reserving /\ "shdrs" \in Kinds
    /\ num["shdrs"] = 0
    /\ num' = [num EXCEPT !["shdrs"] = 1]
    /\ UNCHANGED <<len, offset, index, need, clientVars, writeVars>>

(* add_string and add_dynamic_string; d is what the string will add to the *)
(* table.                                                                  *)
AddString(k, d) ==
    /\ Reserving /\ k \in Kinds
    /\ offset[k] = 0
    /\ strs < MaxStrings /\ strs' = strs + 1
    /\ need' = need \cup {k}
    /\ num' = [num EXCEPT ![k] = @ + d]
    /\ UNCHANGED <<len, offset, index, blocks, sections, symsecs, writeVars>>

(* require_strtab, require_dynstr and require_symtab_shndx.                *)
Require(k) ==
    /\ Reserving /\ k \in Kinds
    /\ need' = need \cup {k}
    /\ UNCHANGED <<len, offset, index, num, clientVars, writeVars>>

(* No code stops a client from reserving the null symbol after             *)
(* .symtab_shndx, or a dynamic symbol after .gnu.version; it must not.     *)
ReserveNullSymbol ==
    /\ Reserving /\ "symtab" \in Kinds
    /\ offset["symtab"] = 0 /\ num["symtab"] = 0
    /\ offset["symtab_shndx"] = 0
    /\ num' = [num EXCEPT !["symtab"] = 1]
    /\ need' = need \cup {"strtab"}
    /\ UNCHANGED <<len, offset, index, clientVars, writeVars>>

(* Mutant: the need for extended indices is noticed one section too late.  *)
Bug_NeedsShndx(s) == s > LoReserve
NeedsShndx(s) == s >= LoReserve

(* reserve_symbol_index; the section, if any, has its index already.       *)
ReserveSymbol(s) ==
    /\ Reserving /\ "symtab" \in Kinds
    /\ offset["symtab"] = 0 /\ offset["symtab_shndx"] = 0
    /\ num["symtab"] < MaxSymbols
    /\ num' = [num EXCEPT !["symtab"] = (IF @ = 0 THEN 1 ELSE @) + 1]
    /\ need' = need \cup {"strtab"}
                    \cup (IF NeedsShndx(s) THEN {"symtab_shndx"} ELSE {})
    /\ symsecs' = Append(symsecs, s)
    /\ UNCHANGED <<len, offset, index, blocks, sections, strs, writeVars>>

ReserveNullDynamicSymbol ==
    /\ Reserving /\ "dynsym" \in Kinds
    /\ offset["dynsym"] = 0 /\ num["dynsym"] = 0
    /\ offset["versym"] = 0
    /\ num' = [num EXCEPT !["dynsym"] = 1]
    /\ UNCHANGED <<len, offset, index, need, clientVars, writeVars>>

ReserveDynamicSymbol ==
    /\ Reserving /\ "dynsym" \in Kinds
    /\ offset["dynsym"] = 0
    /\ offset["versym"] = 0
    /\ num["dynsym"] < MaxSymbols
    /\ num' = [num EXCEPT !["dynsym"] = (IF @ = 0 THEN 1 ELSE @) + 1]
    /\ UNCHANGED <<len, offset, index, need, clientVars, writeVars>>

(* The reserve function of a singleton, when it has something to reserve:  *)
(* c is the count it is passed, if it takes one.  That a range is reserved *)
(* once is asserted by the code, but for the two hash tables, where it is  *)
(* up to the client.                                                       *)
ReserveRange(k, c) ==
    LET n == IF k \in ArgKinds THEN [num EXCEPT ![k] = c] ELSE num IN
    /\ Reserving /\ k \in Kinds
    /\ offset[k] = 0
    /\ Needed(k, n)
    /\ Reserve(k, ReserveAlign(k), 0, RangeSize(k, n))
    /\ offset' = [offset EXCEPT ![k] = AlignUp(len, ReserveAlign(k))]
    /\ num' = n
    /\ UNCHANGED <<index, need, sections, symsecs, strs, writeVars>>

ReserveProgramHeaders(c) == ReserveRange("phdrs", c)
ReserveSectionHeaders    == ReserveRange("shdrs", 0)
ReserveShstrtab          == ReserveRange("shstrtab", 0)
ReserveStrtab            == ReserveRange("strtab", 0)
ReserveSymtab            == ReserveRange("symtab", 0)
ReserveDynstr            == ReserveRange("dynstr", 0)
ReserveDynsym            == ReserveRange("dynsym", 0)
ReserveDynamic(c)        == ReserveRange("dynamic", c)
ReserveHash(c)           == ReserveRange("hash", c)
ReserveGnuHash(c)        == ReserveRange("gnu_hash", c)
ReserveGnuVersym         == ReserveRange("versym", 0)
ReserveGnuVerdef(c)      == ReserveRange("verdef", c)
ReserveGnuVerneed(c)     == ReserveRange("verneed", c)
ReserveGnuAttributes(c)  == ReserveRange("attributes", c)

(* Nothing in the code asks for .symtab to come first.                     *)
ReserveSymtabShndx ==
    /\ ShndxAfterSymtab => offset["symtab"] # 0 \/ num["symtab"] = 0
    /\ ReserveRange("symtab_shndx", 0)

(* What the client may reserve repeatedly, for its section j or for none.  *)
ReserveLoose(k, c, a, j) ==
    /\ Reserving /\ k \in LooseKinds
    /\ j # 0 => j \in DOMAIN sections /\ sections[j] = [kind |-> k, block |-> 0]
    /\ Reserve(k, IF k = "data" THEN a ELSE ReserveAlign(k), c, LooseSize(k, c))
    /\ sections' = IF j = 0 THEN sections
                   ELSE [sections EXCEPT ![j] =
                             [kind |-> k, block |-> Len(blocks) + 1]]
    /\ UNCHANGED <<offset, index, num, need, symsecs, strs, writeVars>>

ReserveData(c, a, j)     == ReserveLoose("data", c, a, j)
ReserveRelocations(c, j) == ReserveLoose("reloc", c, 1, j)
ReserveComdat(c, j)      == ReserveLoose("comdat", c, 1, j)
ReserveUntil(c)          == ReserveLoose("until", c, 1, 0)

-------------------------------------------------------------------------------
(* The second phase: writing *)

XIndex == LoReserve + 255

Escape(i, escape) == IF i >= LoReserve THEN escape ELSE i

(* What the client has to have done before it writes: sections that were   *)
(* given an index were given their range and can be given their name, the  *)
(* table of extended indices is there if symbols need it.                  *)
Ready ==
    /\ \A k \in SectionKinds :
           index[k] # 0 /\ Needed(k, num) => offset[k] # 0
    /\ \A i \in DOMAIN sections :
           sections[i].kind \in ClientKinds => sections[i].block # 0
    /\ num["shdrs"] # 0 => offset["shdrs"] # 0
    /\ sections # <<>> => offset["shstrtab"] # 0
    /\ "symtab_shndx" \in need /\ num["symtab"] # 0 =>
           offset["symtab_shndx"] # 0

(* write_file_header.                                                      *)
WriteFileHeader ==
    /\ Reserving /\ Ready
    /\ ehdr' = [phnum    |-> num["phdrs"],
                shoff    |-> offset["shdrs"],
                shnum    |-> Escape(num["shdrs"], 0),
                shstrndx |-> Escape(index["shstrtab"], XIndex)]
    /\ buf' = EhdrSize
    /\ cur' = 1 /\ landed' = <<0>>
    /\ UNCHANGED <<reserveVars, clientVars, shndx, headers, symbols, left>>

(* The block whose turn it is.                                             *)
Turn(k) == cur > 0 /\ left = 0 /\ cur < Len(blocks) /\ blocks[cur + 1].kind = k

(* The write functions do nothing for a range whose offset is 0.           *)
Present(b) == b.kind \in Singletons => offset[b.kind] # 0

Start(b) ==
    CASE b.kind = "until" -> buf
      [] b.kind = "data"  -> AlignUp(buf, b.align)
      [] OTHER            -> AlignUp(buf, WriteAlign(b.kind))

(* What is written along with the padding: a whole section, a null entry,  *)
(* a header, or nothing yet.                                               *)
Chunk(b) ==
    CASE b.kind \in StringTables \cup {"hash", "gnu_hash", "attributes"} ->
             RangeSize(b.kind, num)
      [] b.kind = "symtab_shndx"           -> Len(shndx) * 4
      [] b.kind \in {"symtab", "dynsym"}   -> SymSize
      [] b.kind = "versym"                 -> 2
      [] b.kind = "shdrs"                  -> ShdrSize
      [] b.kind = "comdat"                 -> 4
      [] b.kind = "data"                   -> b.count
      [] b.kind = "until"                  -> End(b) - buf
      [] OTHER                             -> 0

(* Mutant: the first symbol is taken for written with the null one.        *)
Bug_Entries(b) ==
    CASE b.kind \in {"symtab", "dynsym", "shdrs"}  -> num[b.kind] - 2
      [] b.kind = "versym"                         -> num["dynsym"] - 2
      [] b.kind \in {"phdrs", "dynamic", "verdef", "verneed"} -> num[b.kind]
      [] b.kind \in {"reloc", "comdat"}            -> b.count
      [] OTHER                                     -> 0

(* The entries that follow, one write call each.                           *)
Entries(b) ==
    CASE b.kind \in {"symtab", "dynsym", "shdrs"}  -> num[b.kind] - 1
      [] b.kind = "versym"                         -> num["dynsym"] - 1
      [] b.kind \in {"phdrs", "dynamic", "verdef", "verneed"} -> num[b.kind]
      [] b.kind \in {"reloc", "comdat"}            -> b.count
      [] OTHER                                     -> 0

EntrySize(k) ==
    CASE k \in {"symtab", "dynsym"} -> SymSize
      [] k = "versym"  -> 2
      [] k = "shdrs"   -> ShdrSize
      [] k = "phdrs"   -> PhdrSize
      [] k = "dynamic" -> DynSize
      [] k = "verdef"  -> 28
      [] k = "verneed" -> 32
      [] k = "reloc"   -> RelSize
      [] OTHER         -> 4

Begin(b) ==
    /\ Present(b)
    /\ cur' = cur + 1
    /\ left' = Entries(b)
    /\ landed' = Append(landed, Start(b))
    /\ buf' = Start(b) + Chunk(b)
    /\ UNCHANGED <<reserveVars, clientVars, ehdr>>

Entry(k) ==
    /\ left > 0 /\ blocks[cur].kind = k
    /\ left' = left - 1
    /\ buf' = buf + EntrySize(k)
    /\ UNCHANGED <<reserveVars, clientVars, ehdr, cur, landed>>

(* Ranges of which only the bytes matter.                                  *)
Opaque == (Singletons \cup Loose) \ {"symtab", "shdrs"}

WriteBlock(k) ==
    /\ Turn(k) /\ Begin(blocks[cur + 1])
    /\ UNCHANGED <<shndx, headers, symbols>>

WriteEntry(k) ==
    /\ Entry(k)
    /\ UNCHANGED <<shndx, headers, symbols>>

WriteAlignProgramHeaders == WriteBlock("phdrs")
WriteProgramHeader       == WriteEntry("phdrs")
WriteShstrtab            == WriteBlock("shstrtab")
WriteStrtab              == WriteBlock("strtab")
WriteSymtabShndx         == WriteBlock("symtab_shndx")
WriteDynstr              == WriteBlock("dynstr")
WriteNullDynamicSymbol   == WriteBlock("dynsym")
WriteDynamicSymbol       == WriteEntry("dynsym")
WriteAlignDynamic        == WriteBlock("dynamic")
WriteDynamic             == WriteEntry("dynamic")
WriteHash                == WriteBlock("hash")
WriteGnuHash             == WriteBlock("gnu_hash")
WriteNullGnuVersym       == WriteBlock("versym")
WriteGnuVersym           == WriteEntry("versym")
WriteAlignGnuVerdef      == WriteBlock("verdef")
WriteGnuVerdef           == WriteEntry("verdef")
WriteAlignGnuVerneed     == WriteBlock("verneed")
WriteGnuVerneed          == WriteEntry("verneed")
WriteGnuAttributes       == WriteBlock("attributes")
WriteData                == WriteBlock("data")
PadUntil                 == WriteBlock("until")
WriteAlignRelocation     == WriteBlock("reloc")
WriteRelocation          == WriteEntry("reloc")
WriteComdatHeader        == WriteBlock("comdat")
WriteComdatEntry         == WriteEntry("comdat")

(* Mutant: only symbols of a section take an extended index.               *)
Bug_PushShndx(s) ==
    shndx' = IF "symtab_shndx" \in need /\ s # 0 THEN Append(shndx, s) ELSE shndx

(* Both symbol functions append to the extended indices if they are        *)
(* needed.                                                                 *)
PushShndx(s) ==
    shndx' = IF "symtab_shndx" \in need THEN Append(shndx, s) ELSE shndx

WriteNullSymbol ==
    /\ Turn("symtab") /\ Begin(blocks[cur + 1])
    /\ symbols' = Append(symbols, 0)
    /\ PushShndx(0)
    /\ UNCHANGED headers

(* write_symbol, for a symbol of section s.                                *)
WriteSymbol(s) ==
    /\ Entry("symtab")
    /\ symbols' = Append(symbols, Escape(s, XIndex))
    /\ PushShndx(s)
    /\ UNCHANGED headers

(* The section a section is linked to.                                     *)
LinkKind(k) ==
    CASE k = "symtab" -> "strtab"
      [] k \in {"symtab_shndx", "reloc", "comdat"} -> "symtab"
      [] k \in {"hash", "gnu_hash", "versym"} -> "dynsym"
      [] k \in {"dynsym", "dynamic", "verdef", "verneed", "attributes"} -> "dynstr"
      [] OTHER -> "none"

(* Mutant: the size in a header does not depend on the range.              *)
Bug_HeaderSize(k) == RangeSize(k, num)

(* The size fields the section headers are made from; those of the string  *)
(* tables, .symtab_shndx and the hash tables are only set by reserving.    *)
HeaderSize(k) ==
    IF /\ k \in StringTables \cup {"symtab_shndx", "hash", "gnu_hash"}
       /\ offset[k] = 0
    THEN 0 ELSE RangeSize(k, num)

HeaderOf(s) ==
    LET own == s.kind \in ClientKinds IN
    [offset |-> IF own THEN blocks[s.block].offset ELSE offset[s.kind],
     size   |-> IF own THEN blocks[s.block].size ELSE HeaderSize(s.kind),
     link   |-> IF LinkKind(s.kind) = "none" THEN 0 ELSE index[LinkKind(s.kind)]]

(* The null header holds the counts that the file header has no room for.  *)
WriteNullSectionHeader ==
    /\ Turn("shdrs") /\ Begin(blocks[cur + 1])
    /\ headers' = <<[offset |-> 0,
                     size |-> IF num["shdrs"] >= LoReserve THEN num["shdrs"] ELSE 0,
                     link |-> IF index["shstrtab"] >= LoReserve
                              THEN index["shstrtab"] ELSE 0]>>
    /\ UNCHANGED <<shndx, symbols>>

(* The write functions of the other section headers, for the section s.    *)
WriteSectionHeader(s) ==
    /\ Entry("shdrs")
    /\ headers' = Append(headers, HeaderOf(s))
    /\ UNCHANGED <<shndx, symbols>>

-------------------------------------------------------------------------------
ReserveIndexNext == \E d \in NameBytes :
    \/ ReserveShstrtabIndex(d)
    \/ ReserveStrtabIndex(d)
    \/ ReserveSymtabIndex(d)
    \/ ReserveSymtabShndxIndex(d)
    \/ ReserveDynstrIndex(d)
    \/ ReserveDynsymIndex(d)
    \/ ReserveDynamicIndex(d)
    \/ ReserveHashIndex(d)
    \/ ReserveGnuHashIndex(d)
    \/ ReserveGnuVersymIndex(d)
    \/ ReserveGnuVerdefIndex(d)
    \/ ReserveGnuVerneedIndex(d)
    \/ ReserveGnuAttributesIndex(d)

ReserveRangeNext ==
    \/ ReserveSectionHeaders
    \/ ReserveShstrtab
    \/ ReserveStrtab
    \/ ReserveSymtab
    \/ ReserveSymtabShndx
    \/ ReserveDynstr
    \/ ReserveDynsym
    \/ ReserveGnuVersym
    \/ \E c \in Counts :
        \/ ReserveProgramHeaders(c)
        \/ ReserveDynamic(c)
        \/ ReserveHash(c)
        \/ ReserveGnuHash(c)
        \/ ReserveGnuVerdef(c)
        \/ ReserveGnuVerneed(c)
        \/ ReserveGnuAttributes(c)

ReserveLooseNext == \E c \in Counts, j \in 0..Len(sections) :
    \/ \E a \in Aligns : ReserveData(c, a, j)
    \/ ReserveRelocations(c, j)
    \/ ReserveComdat(c, j)
    \/ ReserveUntil(c)

ReserveNext ==
    \/ ReserveFileHeader
    \/ ReserveNullIndex
    \/ ReserveIndexNext
    \/ \E k \in ClientKinds, i \in 0..Len(blocks), d \in NameBytes :
           ReserveClientIndex(k, i, d)
    \/ \E k \in {"strtab", "dynstr"}, d \in NameBytes : AddString(k, d)
    \/ \E k \in {"strtab", "dynstr", "symtab_shndx"} : Require(k)
    \/ ReserveNullSymbol
    \/ \E s \in 0..Len(sections) : ReserveSymbol(s)
    \/ ReserveNullDynamicSymbol
    \/ ReserveDynamicSymbol
    \/ ReserveRangeNext
    \/ ReserveLooseNext

WriteBlockNext ==
    \/ WriteAlignProgramHeaders
    \/ WriteShstrtab
    \/ WriteStrtab
    \/ WriteSymtabShndx
    \/ WriteDynstr
    \/ WriteNullDynamicSymbol
    \/ WriteAlignDynamic
    \/ WriteHash
    \/ WriteGnuHash
    \/ WriteNullGnuVersym
    \/ WriteAlignGnuVerdef
    \/ WriteAlignGnuVerneed
    \/ WriteGnuAttributes
    \/ WriteData
    \/ PadUntil
    \/ WriteAlignRelocation
    \/ WriteComdatHeader

WriteEntryNext ==
    \/ WriteProgramHeader
    \/ WriteDynamicSymbol
    \/ WriteDynamic
    \/ WriteGnuVersym
    \/ WriteGnuVerdef
    \/ WriteGnuVerneed
    \/ WriteRelocation
    \/ WriteComdatEntry

(* The client writes symbols and headers in the order of their indices.    *)
WriteNext ==
    \/ WriteFileHeader
    \/ WriteBlockNext
    \/ WriteEntryNext
    \/ WriteNullSymbol
    \/ WriteSymbol(symsecs[Len(symbols)])
    \/ WriteNullSectionHeader
    \/ WriteSectionHeader(sections[Len(headers)])

Next == ReserveNext \/ WriteNext

Spec == Init /\ [][Next]_vars

-------------------------------------------------------------------------------
(* Properties *)

Finished == cur > 0 /\ cur = Len(blocks) /\ left = 0

Blocks == [kind : Singletons \cup Loose \cup {"ehdr"}, offset : Nat,
           align : Nat \ {0}, count : Nat, size : Nat]
Sections == [kind : SectionKinds \cup ClientKinds, block : Nat]
Headers == [offset : Nat, size : Nat, link : Nat]

TypeOK ==
    /\ len \in Nat /\ buf \in Int
    /\ offset \in [Singletons -> Nat]
    /\ index \in [Singletons -> Nat]
    /\ num \in [Singletons -> Nat]
    /\ need \subseteq {"strtab", "dynstr", "symtab_shndx"}
    /\ blocks \in Seq(Blocks)
    /\ sections \in Seq(Sections)
    /\ symsecs \in Seq(Nat) /\ strs \in Nat
    /\ shndx \in Seq(Nat) /\ symbols \in Seq(Nat)
    /\ headers \in Seq(Headers)
    /\ ehdr \in [phnum : Nat, shoff : Nat, shnum : Nat, shstrndx : Nat]
    /\ cur \in 0..Len(blocks) /\ left \in Nat
    /\ landed \in Seq(Int) /\ Len(landed) = cur

(* Every block that was written lies where it was reserved, and the one    *)
(* being written ends where its range ends once its entries are written.   *)
Landed ==
    /\ \A i \in 1..cur : landed[i] = blocks[i].offset
    /\ cur > 0 => buf + left * EntrySize(blocks[cur].kind) = End(blocks[cur])

(* The debug assertions of the second phase hold for a client that writes  *)
(* in the order in which it reserved: whoever's turn it is finds its range *)
(* at the end of the buffer, and the extended indices are complete.        *)
NoPanic ==
    \A k \in Opaque \cup {"symtab", "shdrs"} : Turn(k) =>
        LET b == blocks[cur + 1] IN
        /\ Present(b)
        /\ Start(b) = b.offset /\ buf <= End(b)
        /\ k = "symtab_shndx" => Len(shndx) = num["symtab"]

(* Ranges do not overlap, and are aligned.                                 *)
RangesApart ==
    \A i, j \in DOMAIN blocks :
        /\ blocks[i].offset % blocks[i].align = 0
        /\ i < j => End(blocks[i]) <= blocks[j].offset

(* A finished file has the length that was reserved for it.                *)
Complete == Finished => buf = len

(* In a finished file, a section header describes the range that was       *)
(* written for its section, or an empty one, and links to the section it   *)
(* means.                                                                  *)
HeadersDescribe ==
    Finished => \A i \in 2..Len(headers) :
        LET s == sections[i - 1]
            own == {j \in DOMAIN blocks :
                        IF s.kind \in ClientKinds THEN j = s.block
                        ELSE blocks[j].kind = s.kind}
        IN  /\ own = {} => headers[i].size = 0
            /\ \A j \in own : headers[i].offset = landed[j]
                              /\ headers[i].size = blocks[j].size
            /\ headers[i].link # 0 =>
                   sections[headers[i].link].kind = LinkKind(s.kind)

(* The writer lays its file out as FileLayout promises: a block is a range, *)
(* and its piece is what Begin puts down; the entries fill it.             *)
FL == INSTANCE FileLayout WITH
          ranges <- [i \in DOMAIN blocks |->
                        [offset |-> blocks[i].offset, size |-> blocks[i].size]],
          extent <- buf,
          pieces <- [i \in DOMAIN landed |-> [range |-> i, at |-> landed[i]]]

ImplementsLayout == FL!Spec

-------------------------------------------------------------------------------
(* The reader of read/elf: what it makes of the escapes *)

Shnum == IF ehdr.shnum > 0 THEN ehdr.shnum
         ELSE IF ehdr.shoff = 0 THEN 0 ELSE headers[1].size

Shstrndx == IF ehdr.shstrndx # XIndex THEN ehdr.shstrndx ELSE headers[1].link

(* symbol_section; 0 is no section, and an extended index that is not      *)
(* there is an error.                                                      *)
SymbolSection(i) ==
    CASE symbols[i] = XIndex    -> IF i \in DOMAIN shndx THEN shndx[i] ELSE -1
      [] symbols[i] < LoReserve -> symbols[i]
      [] OTHER                  -> 0

(* A reader finds as many sections as were reserved, the section names in  *)
(* the section that was reserved for them, and every symbol in the section *)
(* it was reserved with, however many sections there are.                  *)
ReadBack ==
    Finished =>
        /\ Shnum = num["shdrs"]
        /\ Shstrndx = index["shstrtab"]
        /\ \A i \in 1..Len(symsecs) :
               symbols # <<>> => SymbolSection(i + 1) = symsecs[i]
===============================================================================
