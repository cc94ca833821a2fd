----------------------------- MODULE ElfBuilder -----------------------------
(***************************************************************************)
(* The ELF builder, build::elf::Builder (src/build/elf.rs): a file is read *)
(* into tables of sections, segments, symbols and versions, changed, and   *)
(* written.  The identifier of an item is its position in its table;       *)
(* deleted items stay in the table, marked.  For 64-bit files.             *)
(*                                                                         *)
(* A name is a sequence of components, each with a length, joined by       *)
(* colons.  Bytes of sections, values of symbols and offsets of            *)
(* relocations are left out; so are tails that strings share, which        *)
(* StringTable models, and .symtab_shndx, which ElfWriter models, and      *)
(* where sections that are not loaded go in the file, which no address     *)
(* depends on.  A file has at most one table of each kind, and physical    *)
(* addresses are the virtual ones.                                         *)
(*                                                                         *)
(* A file has the fields that a builder has, but for indices where a       *)
(* builder has identifiers, and what is found through tables of a section. *)
(***************************************************************************)
EXTENDS Integers, Sequences, SequencesExt

CONSTANT Lengths  \* the length of each component of a name

ASSUME LengthsAssumption == \A c \in DOMAIN Lengths : Lengths[c] \in Nat \ {0}

EhdrSize == 64
PhdrSize == 56
SymSize == 24
RelSize == 24
DynSize == 16

AlignUp(n, a) == IF a > 1 THEN n + ((-n) % a) ELSE n

Total(f(_), s) == FoldLeft(LAMBDA n, x : n + f(x), 0, s)

SetOf(s) == {s[i] : i \in DOMAIN s}

NameLen(n) ==
    IF n = <<>> THEN 0
    ELSE Total(LAMBDA c : Lengths[c], n) + Len(n) - 1

(* The hash of a name: any function of the name will do.                   *)
Hash(n) == NameLen(n)

(* A string table with the names ns.                                       *)
StringsSize(ns) == 1 + MapThenSumSet(LAMBDA n : NameLen(n) + 1, ns \ {<<>>})

(* The identifiers of the items of a table that are not deleted, in order. *)
Live(table) ==
    SelectSeq([i \in DOMAIN table |-> i], LAMBDA i : ~table[i].delete)

(* A table with each item replaced; as a tuple, which TLC evaluates once.  *)
Mapped(table, F(_)) == <<>> \o [i \in DOMAIN table |-> F(table[i])]

IsLive(table, i) == i \in DOMAIN table /\ ~table[i].delete

SectionsOf(b, kind) ==
    SelectSeq(Live(b.sections), LAMBDA i : b.sections[i].kind = kind)

Has(b, kind) == SectionsOf(b, kind) # <<>>

-------------------------------------------------------------------------------
(* Reading *)

FirstOf(s, Test(_)) ==
    LET found == {i \in DOMAIN s : Test(s[i])} IN
    IF found = {} THEN 0 ELSE CHOOSE i \in found : \A j \in found : i <= j

(* The section of a type, and the section that it links to; 0 if none.     *)
OfType(f, type) == FirstOf(f.sections, LAMBDA s : s.kind = type)

LinkOf(f, type) == IF OfType(f, type) = 0 THEN 0 ELSE f.sections[OfType(f, type)].link

(* What a section is taken for: string tables go by what links to them,    *)
(* relocations by the symbols they are against.                            *)
KindRead(f, i) ==
    LET s == f.sections[i] IN
    CASE s.kind = "strtab" /\ i = LinkOf(f, "symtab") -> "strtab"
      [] s.kind = "strtab" /\ i = LinkOf(f, "dynsym") -> "dynstr"
      [] s.kind = "strtab" /\ i = f.shstrndx -> "shstrtab"
      [] s.kind = "strtab" -> "unsupported"
      [] s.kind = "rela" /\ (s.link \in {0, OfType(f, "dynsym")} \/ s.alloc) -> "dynrel"
      [] s.kind = "rela" /\ s.link = OfType(f, "symtab") -> "rel"
      [] s.kind = "rela" -> "unsupported"
      [] OTHER -> s.kind

ContainsAddress(g, addr) == addr >= g.vaddr /\ addr - g.vaddr < g.memsz

LoadAlign(f) ==
    LET aligns == {f.segments[k].align : k \in {k \in DOMAIN f.segments :
                                                   f.segments[k].type = "LOAD"}}
    IN  IF \E a \in aligns : aligns = {a} THEN CHOOSE a \in aligns : TRUE ELSE 1

(* The index in the file of each version, in the order in which they get   *)
(* identifiers; identifiers 0 and 1 are the local and the global version,  *)
(* so that of the version at position k of the table is k + 1.             *)
DefsRead(f) == SelectSeq(f.verdefs, LAMBDA d : ~d.base)
NeedsRead(f) ==
    FlattenSeq([k \in DOMAIN f.verneeds |->
        [j \in DOMAIN f.verneeds[k].auxs |->
            [index |-> f.verneeds[k].auxs[j].index,
             version |-> [kind |-> "need", file |-> k, delete |-> FALSE,
                          names |-> <<f.verneeds[k].auxs[j].name>>]]]])
VersionsRead(f) ==
    [k \in DOMAIN DefsRead(f) |->
        [index |-> DefsRead(f)[k].index,
         version |-> [kind |-> "def", file |-> 0, delete |-> FALSE,
                      names |-> DefsRead(f)[k].names]]] \o NeedsRead(f)

VersionId(f, index) ==
    IF index <= 1 THEN index
    ELSE FirstOf(VersionsRead(f), LAMBDA v : v.index = index) + 1

BaseRead(f) ==
    LET k == FirstOf(f.verdefs, LAMBDA d : d.base) IN
    IF k = 0 THEN <<>> ELSE f.verdefs[k].names[1]

(* What read_file, and what it calls, refuse.                              *)
Readable(f) ==
    LET symbols(i) == IF f.sections[i].link = 0 THEN <<>>
                      ELSE IF KindRead(f, i) = "rel" THEN f.symbols
                      ELSE IF f.sections[i].link = OfType(f, "dynsym") THEN f.dynsyms
                      ELSE <<>>
        vs == VersionsRead(f)
    IN  /\ \A i \in DOMAIN f.sections :
            LET s == f.sections[i] IN
            /\ KindRead(f, i) # "unsupported"
            /\ s.link <= Len(f.sections) /\ s.info <= Len(f.sections)
            /\ s.kind = "rela" => SetOf(s.data) \subseteq 0..Len(symbols(i))
            /\ s.kind \in {"verdef", "verneed"} => s.link = LinkOf(f, "dynsym")
            /\ s.kind = "versym" => /\ s.link = OfType(f, "dynsym")
                                    /\ Len(f.versyms) = Len(f.dynsyms)
        /\ \A t \in {f.symbols, f.dynsyms} : \A i \in DOMAIN t :
               t[i].section <= Len(f.sections)
        /\ \A k, m \in DOMAIN vs : vs[k].index > 1 /\ (vs[k].index = vs[m].index => k = m)
        /\ \A i \in DOMAIN f.versyms :
               f.versyms[i] > 1 => \E k \in DOMAIN vs : vs[k].index = f.versyms[i]

Read(f) ==
    [loadAlign |-> LoadAlign(f), phoff |-> f.phoff,
     sections |-> [i \in DOMAIN f.sections |->
        [name |-> f.sections[i].name, kind |-> KindRead(f, i),
         alloc |-> f.sections[i].alloc, flags |-> f.sections[i].flags,
         tls |-> f.sections[i].tls,
         addr |-> f.sections[i].addr, offset |-> f.sections[i].offset,
         size |-> f.sections[i].size, align |-> f.sections[i].align,
         link |-> f.sections[i].link, info |-> f.sections[i].info,
         len |-> f.sections[i].size, data |-> f.sections[i].data,
         delete |-> FALSE]],
     segments |-> [k \in DOMAIN f.segments |->
        [type |-> f.segments[k].type, flags |-> f.segments[k].flags,
         offset |-> f.segments[k].offset, vaddr |-> f.segments[k].vaddr,
         filesz |-> f.segments[k].filesz, memsz |-> f.segments[k].memsz,
         align |-> f.segments[k].align,
         sections |-> SelectSeq([i \in DOMAIN f.sections |-> i],
                          LAMBDA i : /\ f.sections[i].alloc
                                     /\ ContainsAddress(f.segments[k],
                                                        f.sections[i].addr)),
         delete |-> FALSE]],
     symbols |-> [i \in DOMAIN f.symbols |->
        [name |-> f.symbols[i].name, section |-> f.symbols[i].section,
         local |-> f.symbols[i].local, undef |-> f.symbols[i].undef,
         version |-> 0, delete |-> FALSE]],
     dynsyms |-> [i \in DOMAIN f.dynsyms |->
        [name |-> f.dynsyms[i].name, section |-> f.dynsyms[i].section,
         local |-> f.dynsyms[i].local, undef |-> f.dynsyms[i].undef,
         version |-> IF f.versyms = <<>> THEN 0 ELSE VersionId(f, f.versyms[i]),
         delete |-> FALSE]],
     base |-> BaseRead(f),
     versions |-> [k \in DOMAIN VersionsRead(f) |-> VersionsRead(f)[k].version],
     files |-> [k \in DOMAIN f.verneeds |->
                   [name |-> f.verneeds[k].file, delete |-> FALSE]],
     hashBuckets |-> f.hashBuckets, blooms |-> f.blooms,
     buckets |-> f.buckets]

-------------------------------------------------------------------------------
(* Deleting what refers to deleted items *)

DeleteOrphanSegments(b) ==
    LET sweep(g) ==
            LET kept == SelectSeq(g.sections, LAMBDA i : ~b.sections[i].delete) IN
            IF g.delete \/ g.sections = <<>> THEN g
            ELSE [g EXCEPT !.sections = kept, !.delete = kept = <<>>]
    IN  [b EXCEPT !.segments = Mapped(@, sweep)]

OrphansMarked(b, table) ==
    Mapped(table, LAMBDA y : [y EXCEPT !.delete =
        @ \/ (y.section # 0 /\ b.sections[y.section].delete)])

DeleteOrphanSymbols(b) ==
    [b EXCEPT !.symbols = OrphansMarked(b, @), !.dynsyms = OrphansMarked(b, @)]

DeleteOrphanRelocations(b) ==
    LET kept(table, rels) == SelectSeq(rels, LAMBDA y : y = 0 \/ ~table[y].delete)
        sweep(s) ==
            CASE s.delete -> s
              [] s.kind = "rel" -> [s EXCEPT !.data = kept(b.symbols, @)]
              [] s.kind = "dynrel" -> [s EXCEPT !.data = kept(b.dynsyms, @)]
              [] OTHER -> s
    IN  [b EXCEPT !.sections = Mapped(@, sweep)]

StringTags == {"NEEDED", "SONAME", "RPATH", "RUNPATH"}

(* The entries that the builder computes, and the section they are about.  *)
AutoTags == {"SYMTAB", "STRTAB", "STRSZ", "HASH", "GNU_HASH", "VERSYM",
             "VERDEF", "VERDEFNUM", "VERNEED", "VERNEEDNUM"}
About(tag) ==
    CASE tag = "SYMTAB" -> "dynsym"
      [] tag \in {"STRTAB", "STRSZ"} -> "dynstr"
      [] tag = "HASH" -> "hash"
      [] tag = "GNU_HASH" -> "gnuhash"
      [] tag = "VERSYM" -> "versym"
      [] tag \in {"VERDEF", "VERDEFNUM"} -> "verdef"
      [] tag \in {"VERNEED", "VERNEEDNUM"} -> "verneed"

DeleteOrphanDynamics(b) ==
    LET kept(d) == d.tag \in AutoTags => Has(b, About(d.tag))
        sweep(s) == IF s.kind # "dynamic" \/ s.delete THEN s
                    ELSE [s EXCEPT !.data = SelectSeq(@, kept)]
    IN  [b EXCEPT !.sections = Mapped(@, sweep)]

DeleteOrphans(b) ==
    DeleteOrphanDynamics(DeleteOrphanRelocations(
        DeleteOrphanSymbols(DeleteOrphanSegments(b))))

(* The name of a version that is kept, for DT_RELR needs it.               *)
Relr == <<"GLIBC_ABI_DT_RELR">>

(* delete_unused_versions.                                                 *)
DeleteUnusedVersions(b) ==
    LET named == {b.dynsyms[i].version : i \in SetOf(Live(b.dynsyms))}
        used(k) == k + 1 \in named \/ ( /\ b.versions[k].kind = "need"
                                        /\ b.versions[k].names = <<Relr>> )
        files == {b.versions[k].file : k \in {k \in DOMAIN b.versions :
                     ~b.versions[k].delete /\ used(k)}}
    IN  [b EXCEPT
            !.versions = <<>> \o [k \in DOMAIN @ |-> [@[k] EXCEPT !.delete = @ \/ ~used(k)]],
            !.files = <<>> \o [k \in DOMAIN @ |-> [@[k] EXCEPT !.delete = @ \/ k \notin files]]]

-------------------------------------------------------------------------------
(* Sizes *)

ProgramHeadersSize(b) == Len(Live(b.segments)) * PhdrSize

Defs(b) == SelectSeq(Live(b.versions), LAMBDA k : b.versions[k].kind = "def")
Needs(b) == SelectSeq(Live(b.versions), LAMBDA k : b.versions[k].kind = "need")

(* VersionDef::is_shared, which only the first definition can be.          *)
SharedBase(b) ==
    b.base # <<>> /\ Defs(b) # <<>> /\ b.versions[Head(Defs(b))].names = <<b.base>>

VerdefCount(b) == Len(Defs(b)) + (IF b.base = <<>> THEN 0 ELSE 1)
VerdauxCount(b) ==
    Total(LAMBDA k : Len(b.versions[k].names), Defs(b))
        + (IF b.base = <<>> \/ SharedBase(b) THEN 0 ELSE 1)

DynamicStrings(b) ==
    UNION {{d.val : d \in {b.sections[i].data[k] : k \in {k \in DOMAIN b.sections[i].data :
                              b.sections[i].data[k].tag \in StringTags}}} :
              i \in SetOf(SectionsOf(b, "dynamic"))}
    \cup {b.dynsyms[i].name : i \in SetOf(Live(b.dynsyms))}
    \cup {b.base}
    \cup UNION {SetOf(b.versions[k].names) : k \in SetOf(Live(b.versions))}
    \cup {b.files[k].name : k \in SetOf(Live(b.files))}

(* Symbols::count_defined.                                                 *)
CountDefined(b) == Len(SelectSeq(Live(b.dynsyms), LAMBDA i : ~b.dynsyms[i].undef))

GnuHashSize(b, count) == 16 + b.blooms * 8 + b.buckets * 4 + count * 4

(* section_size, without regard to whether the section is allocated.       *)
SectionSize(b, s) ==
    LET symbols == 1 + Len(Live(b.dynsyms)) IN
    CASE s.kind \in {"progbits", "nobits", "note"} -> s.len
      [] s.kind \in {"rel", "dynrel"} -> Len(s.data) * RelSize
      [] s.kind = "dynamic" -> (1 + Len(s.data)) * DynSize
      [] s.kind = "dynstr" -> StringsSize(DynamicStrings(b))
      [] s.kind = "dynsym" -> symbols * SymSize
      [] s.kind = "hash" -> 8 + b.hashBuckets * 4 + symbols * 4
      [] s.kind = "gnuhash" -> GnuHashSize(b, CountDefined(b))
      [] s.kind = "versym" -> symbols * 2
      [] s.kind = "verdef" -> VerdefCount(b) * 20 + VerdauxCount(b) * 8
      [] s.kind = "verneed" -> Len(Live(b.files)) * 16 + Len(Needs(b)) * 16
      [] OTHER -> 0

(* set_section_sizes.                                                      *)
SetSectionSizes(b) ==
    [b EXCEPT !.sections = Mapped(@, LAMBDA s :
        IF s.delete \/ ~s.alloc THEN s ELSE [s EXCEPT !.size = SectionSize(b, s)])]

-------------------------------------------------------------------------------
(* Segments *)

(* Segment::append_section_range; physical addresses are the virtual ones. *)
AppendRange(g, s) ==
    LET filesize == IF s.kind = "nobits" THEN 0 ELSE s.size
        offset == Min({g.offset, s.offset})
        vaddr == Min({g.vaddr, s.addr})
    IN  IF g.memsz = 0
        THEN [g EXCEPT !.offset = s.offset, !.filesz = filesize,
                       !.vaddr = s.addr, !.memsz = s.size]
        ELSE [g EXCEPT !.offset = offset, !.vaddr = vaddr,
                       !.filesz = Max({@, s.offset + filesize - offset}),
                       !.memsz = Max({@, s.addr + s.size - vaddr})]

(* Where append_section puts a section.                                    *)
Appended(g, s) ==
    IF g.type # "LOAD" THEN s
    ELSE [s EXCEPT !.offset = AlignUp(g.offset + g.filesz, s.align),
                   !.addr = AlignUp(g.vaddr + g.memsz, s.align)]

AppendSection(b, k, i) ==
    LET s == Appended(b.segments[k], b.sections[i]) IN
    [b EXCEPT !.sections[i] = s,
              !.segments[k] = [AppendRange(@, s) EXCEPT !.sections = Append(@, i)]]

(* recalculate_ranges.                                                     *)
RecalculateRanges(b, g) ==
    FoldLeft(LAMBDA h, i : AppendRange(h, b.sections[i]),
             [g EXCEPT !.offset = 0, !.filesz = 0, !.vaddr = 0, !.memsz = 0],
             g.sections)

(* Mutant: the address does not follow from the offset.                    *)
Bug_AddLoadSegment(b, flags, align) ==
    LET ends(f(_)) == {0} \cup {f(b.segments[k]) : k \in SetOf(Live(b.segments))}
        offset == Max(ends(LAMBDA g : g.offset + g.filesz))
        addr == AlignUp(Max(ends(LAMBDA g : g.vaddr + g.memsz)), align)
    IN  [b EXCEPT !.segments = Append(@,
            [type |-> "LOAD", flags |-> flags, offset |-> offset, vaddr |-> addr,
             filesz |-> 0, memsz |-> 0, align |-> align, sections |-> <<>>,
             delete |-> FALSE])]

(* add_load_segment.                                                       *)
AddLoadSegment(b, flags, align) ==
    LET ends(f(_)) == {0} \cup {f(b.segments[k]) : k \in SetOf(Live(b.segments))}
        offset == Max(ends(LAMBDA g : g.offset + g.filesz))
        addr == AlignUp(Max(ends(LAMBDA g : g.vaddr + g.memsz)), align)
                    + (offset % align)
    IN  [b EXCEPT !.segments = Append(@,
            [type |-> "LOAD", flags |-> flags, offset |-> offset, vaddr |-> addr,
             filesz |-> 0, memsz |-> 0, align |-> align, sections |-> <<>>,
             delete |-> FALSE])]

(* Segments::copy.                                                         *)
CopySegment(b, k) ==
    LET g == b.segments[k] IN
    IF g.type = "LOAD" THEN AddLoadSegment(b, g.flags, g.align)
    ELSE [b EXCEPT !.segments = Append(@,
            [g EXCEPT !.offset = 0, !.vaddr = 0, !.filesz = 0, !.memsz = 0,
                      !.sections = <<>>, !.delete = FALSE])]

LoadSegmentAt(b, offset) ==
    FirstOf([k \in DOMAIN b.segments |-> b.segments[k]],
            LAMBDA g : /\ ~g.delete /\ g.type = "LOAD"
                       /\ offset >= g.offset /\ offset - g.offset < g.filesz)

(* The first section of the first segment of a type; 0 if none.            *)
SectionOfSegment(b, type) ==
    LET k == FirstOf(b.segments, LAMBDA g : ~g.delete /\ g.type = type) IN
    IF k = 0 \/ b.segments[k].sections = <<>> THEN 0 ELSE Head(b.segments[k].sections)

-------------------------------------------------------------------------------
(* Writing *)

(* Local symbols come first.                                               *)
LocalsFirst(table) ==
    SelectSeq(Live(table), LAMBDA i : table[i].local)
        \o SelectSeq(Live(table), LAMBDA i : ~table[i].local)

(* The symbols that .gnu.hash finds have a name and are defined.           *)
Hashed(y) == y.name # <<>> /\ (y.section # 0 \/ ~y.undef)

(* Mutant: symbols are not sorted for .gnu.hash.                           *)
Bug_DynsymOrder(b) == LocalsFirst(b.dynsyms)

(* The order of dynamic symbols: those that .gnu.hash finds come last,     *)
(* sorted by bucket.                                                       *)
DynsymOrder(b) ==
    LET order == LocalsFirst(b.dynsyms)
        globals == SelectSeq(order, LAMBDA i : ~b.dynsyms[i].local)
        inBucket(n) == SelectSeq(globals, LAMBDA i :
            Hashed(b.dynsyms[i]) /\ Hash(b.dynsyms[i].name) % b.buckets = n)
    IN  IF ~Has(b, "gnuhash") THEN order
        ELSE SelectSeq(order, LAMBDA i : b.dynsyms[i].local)
                 \o SelectSeq(globals, LAMBDA i : ~Hashed(b.dynsyms[i]))
                 \o FlattenSeq([n \in 1..b.buckets |-> inBucket(n - 1)])

GnuHashCount(b) ==
    IF ~Has(b, "gnuhash") THEN 0
    ELSE Len(SelectSeq(Live(b.dynsyms), LAMBDA i :
                 ~b.dynsyms[i].local /\ Hashed(b.dynsyms[i])))

(* The index that an identifier gets; 0 for none.                          *)
IndexIn(order, i) == FirstOf(order, LAMBDA j : j = i)

(* The tables that are needed though they are not there.                   *)
MissingTable(b) ==
    \/ ~Has(b, "shstrtab") /\ Live(b.sections) # <<>>
    \/ ~Has(b, "symtab") /\ Live(b.symbols) # <<>>
    \/ /\ ~Has(b, "strtab")
       /\ \E i \in SetOf(Live(b.symbols)) : b.symbols[i].name # <<>>
    \/ ~Has(b, "dynsym") /\ Live(b.dynsyms) # <<>>
    \/ ~Has(b, "dynstr") /\ DynamicStrings(b) # {<<>>}
    \/ ~Has(b, "verdef") /\ VerdefCount(b) > 0
    \/ ~Has(b, "verneed") /\ Live(b.files) # <<>>

(* The allocated sections in the order of the file, for a file with        *)
(* segments.                                                               *)
AllocOrder(b) ==
    SortSeq(SelectSeq(Live(b.sections), LAMBDA i :
                b.sections[i].alloc /\ Live(b.segments) # <<>>),
            LAMBDA i, j :
                LET s == b.sections[i] t == b.sections[j] IN
                \/ s.offset < t.offset
                \/ s.offset = t.offset /\ s.size < t.size
                \/ s.offset = t.offset /\ s.size = t.size /\ i < j)

Empty(b, s) ==
    \/ s.kind = "versym" /\ Live(b.dynsyms) = <<>> /\ ~Has(b, "dynsym")
    \/ s.kind = "verdef" /\ VerdefCount(b) = 0
    \/ s.kind = "verneed" /\ Live(b.files) = <<>>

(* What the writer's reserve functions align each table to.                *)
Alignment(s) ==
    CASE s.kind \in {"progbits", "note", "attributes"} -> s.align
      [] s.kind = "versym" -> 2
      [] s.kind \in {"hash", "verdef", "verneed"} -> 4
      [] s.kind \in {"dynstr", "nobits"} -> 1
      [] OTHER -> 8

WrittenSize(b, s) ==
    IF s.kind = "gnuhash" THEN GnuHashSize(b, GnuHashCount(b)) ELSE SectionSize(b, s)

(* Reserving the allocated sections at the offsets they have: out.len is   *)
(* what is reserved, out.err the first error.                              *)
ReserveAlloc(b, out, i) ==
    LET s == b.sections[i]
        at == IF Empty(b, s) THEN 0 ELSE AlignUp(s.offset, Alignment(s))
        err == CASE s.offset < out.len -> "sh_offset"
                 [] s.kind \in {"rel", "attributes", "symtab", "strtab", "shstrtab"} ->
                        "alloc kind"
                 [] at # s.offset -> "unaligned"
                 [] OTHER -> "none"
    IN  IF s.kind = "nobits" \/ out.err # "none" THEN out
        ELSE [len |-> IF Empty(b, s) THEN s.offset ELSE at + WrittenSize(b, s),
              err |-> err]

HeadersLen(b) ==
    EhdrSize + (IF Live(b.segments) = <<>> THEN 0 ELSE ProgramHeadersSize(b))

Layout(b) ==
    FoldLeft(LAMBDA out, i : ReserveAlloc(b, out, i),
             [len |-> HeadersLen(b), err |-> "none"], AllocOrder(b))

NonAlloc(b) ==
    SelectSeq(Live(b.sections), LAMBDA i :
        ~b.sections[i].alloc \/ Live(b.segments) = <<>>)

(* References to sections and symbols that write unwraps.                  *)
Dangling(b) ==
    \/ \E t \in {b.symbols, b.dynsyms} : \E i \in SetOf(Live(t)) :
           t[i].section # 0 /\ ~IsLive(b.sections, t[i].section)
    \/ \E i \in SetOf(Live(b.sections)) :
           LET s == b.sections[i] IN
           \/ s.kind = "rel" /\ \E y \in SetOf(s.data) \ {0} : ~IsLive(b.symbols, y)
           \/ s.kind = "dynrel" /\ \E y \in SetOf(s.data) \ {0} : ~IsLive(b.dynsyms, y)

(* The error of write, for a builder without orphans.                      *)
WriteError(b) ==
    LET kinds == {b.sections[i].kind : i \in SetOf(NonAlloc(b))}
        tags == UNION {{b.sections[i].data[k].tag : k \in DOMAIN b.sections[i].data} :
                          i \in SetOf(SectionsOf(b, "dynamic"))}
        links == UNION {{b.sections[i].link, b.sections[i].info} : i \in
                     {i \in SetOf(Live(b.sections)) : b.sections[i].kind \in
                         {"progbits", "nobits", "note", "rel", "dynrel", "dynamic",
                          "attributes"}}}
    IN  CASE Has(b, "gnuhash") /\ b.buckets = 0 -> "bucket count"
          [] MissingTable(b) -> "missing table"
          [] Live(b.segments) # <<>> /\ b.phoff # EhdrSize -> "e_phoff"
          [] Layout(b).err # "none" -> Layout(b).err
          [] ~(kinds \subseteq {"progbits", "nobits", "note", "attributes", "rel",
                                "shstrtab", "symtab", "strtab"}) -> "non-alloc kind"
          [] Dangling(b) -> "panic"
          [] \E tag \in tags \cap AutoTags : ~Has(b, About(tag)) -> "missing address"
          [] Has(b, "hash") /\ b.hashBuckets = 0 -> "bucket count"
          [] \E i \in links \ {0} : ~IsLive(b.sections, i) -> "deleted link"
          [] OTHER -> "none"

(* What the writer's own section headers link to.                          *)
TableLink(kind) ==
    CASE kind = "symtab" -> "strtab"
      [] kind \in {"dynsym", "verdef", "verneed"} -> "dynstr"
      [] kind \in {"hash", "gnuhash", "versym"} -> "dynsym"
      [] OTHER -> "none"

(* write_gnu_hash: for each bucket the index of its first symbol, and the  *)
(* bucket of each symbol, which ends its chain if the next differs.        *)
GnuHashWritten(b, order) ==
    LET first == Len(order) - GnuHashCount(b)
        bucket(k) == Hash(b.dynsyms[order[k]].name) % b.buckets
        chain == (first + 1)..Len(order)
        starts == FoldLeft(LAMBDA acc, k :
            IF acc.next > bucket(k) THEN acc
            ELSE [heads |-> [acc.heads EXCEPT ![bucket(k) + 1] = k],
                  next |-> bucket(k) + 1],
            [heads |-> [n \in 1..b.buckets |-> 0], next |-> 0],
            [k \in 1..GnuHashCount(b) |-> first + k])
    IN  [heads |-> starts.heads,
         last |-> {k \in chain : k = Len(order) \/ bucket(k) # bucket(k + 1)}]

(* The file that write makes, with its sections and symbols in an order.   *)
FileWith(b, secs, dyns, syms) ==
    LET section(i) == IF i = 0 THEN 0 ELSE IndexIn(secs, i)
        ofKind(kind) == IF Has(b, kind) THEN section(Head(SectionsOf(b, kind))) ELSE 0
        address(kind) == b.sections[Head(SectionsOf(b, kind))].addr
        live(order, ids) == SelectSeq([k \in DOMAIN ids |-> IndexIn(order, ids[k])],
                                      LAMBDA x : x # 0)
        symbol(table, order) == [k \in DOMAIN order |->
            [name |-> table[order[k]].name, section |-> section(table[order[k]].section),
             local |-> table[order[k]].local, undef |-> table[order[k]].undef]]
        value(d) ==
            CASE d.tag = "STRSZ" -> StringsSize(DynamicStrings(b))
              [] d.tag = "VERDEFNUM" -> VerdefCount(b)
              [] d.tag = "VERNEEDNUM" -> Len(Live(b.files))
              [] d.tag \in AutoTags -> address(About(d.tag))
              [] OTHER -> d.num
        data(s) ==
            CASE s.kind = "rel" -> [k \in DOMAIN s.data |-> IndexIn(syms, s.data[k])]
              [] s.kind = "dynrel" -> [k \in DOMAIN s.data |-> IndexIn(dyns, s.data[k])]
              [] s.kind = "dynamic" -> [k \in DOMAIN s.data |->
                     [s.data[k] EXCEPT !.num = value(s.data[k])]]
              [] s.kind = "attributes" -> [sections |-> live(secs, s.data.sections),
                                           symbols |-> live(syms, s.data.symbols)]
              [] OTHER -> s.data
        header(s) ==
            [name |-> s.name,
             kind |-> CASE s.kind \in {"strtab", "dynstr", "shstrtab"} -> "strtab"
                        [] s.kind \in {"rel", "dynrel"} -> "rela"
                        [] OTHER -> s.kind,
             alloc |-> s.alloc, flags |-> s.flags, tls |-> s.tls,
             addr |-> s.addr, offset |-> s.offset, size |-> WrittenSize(b, s),
             align |-> s.align,
             link |-> IF s.kind \in {"symtab", "dynsym", "verdef", "verneed", "hash",
                                     "gnuhash", "versym"}
                      THEN ofKind(TableLink(s.kind)) ELSE section(s.link),
             info |-> section(s.info), data |-> data(s)]
        def(k) == [base |-> FALSE, index |-> k + 1, names |-> b.versions[k].names]
        base == [base |-> TRUE, index |-> 1, names |-> <<b.base>>]
        aux(k) == [index |-> k + 1, name |-> b.versions[k].names[1]]
        needs(i) == SelectSeq(Needs(b), LAMBDA k : b.versions[k].file = i)
        files == SelectSeq(Live(b.files), LAMBDA i : needs(i) # <<>>)
    IN  [phoff |-> b.phoff, shstrndx |-> ofKind("shstrtab"),
         segments |-> [k \in DOMAIN Live(b.segments) |->
            LET g == b.segments[Live(b.segments)[k]] IN
            [type |-> g.type, flags |-> g.flags, offset |-> g.offset, vaddr |-> g.vaddr,
             filesz |-> g.filesz, memsz |-> g.memsz, align |-> g.align]],
         sections |-> [k \in DOMAIN secs |-> header(b.sections[secs[k]])],
         symbols |-> symbol(b.symbols, syms),
         dynsyms |-> symbol(b.dynsyms, dyns),
         versyms |-> IF Has(b, "versym")
                     THEN [k \in DOMAIN dyns |-> b.dynsyms[dyns[k]].version] ELSE <<>>,
         verdefs |-> (IF b.base = <<>> THEN <<>> ELSE <<base>>)
                     \o [k \in DOMAIN Defs(b) |-> def(Defs(b)[k])],
         verneeds |-> [k \in DOMAIN files |->
            [file |-> b.files[files[k]].name,
             auxs |-> [j \in DOMAIN needs(files[k]) |-> aux(needs(files[k])[j])]]],
         hashBuckets |-> b.hashBuckets, blooms |-> b.blooms, buckets |-> b.buckets,
         gnuhash |-> IF Has(b, "gnuhash") THEN GnuHashWritten(b, dyns)
                     ELSE [heads |-> <<>>, last |-> {}]]

Written(b) == FileWith(b, Live(b.sections), DynsymOrder(b), LocalsFirst(b.symbols))

(* GnuHashTable::find: the symbols on the chain of a name's bucket, up to  *)
(* the symbol that ends it.                                                *)
GnuHashFinds(f, name) ==
    LET head == f.gnuhash.heads[(Hash(name) % f.buckets) + 1] IN
    /\ head # 0
    /\ \E k \in head..Len(f.dynsyms) :
           f.dynsyms[k].name = name /\ f.gnuhash.last \cap head..(k - 1) = {}
=============================================================================
