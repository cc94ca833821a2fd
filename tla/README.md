# A verification development for the `object` crate

The `object` crate reads and writes object files: ELF, COFF, PE, Mach-O, XCOFF,
archives. This directory holds TLA+ models of its stateful parts, TLC
configurations that check them on small instances, and TLAPS proofs of what
matters most for every instance. Paths below are relative to the repository.

    tlasany M.tla                          # parse
    tlc -workers 2 -config X.cfg M.tla     # check a run, see PROJECT.json
    tlapm M.tla                            # check the proofs of a module

`PROJECT.json` lists the components, the runs with their properties, a mutant for
each property (a plausible bug in a mapped definition that violates it), the
source lines each definition stands for, the hazards, the findings and the
theorems.

## 1. Inventory

### Components and how they interact

    client --> write::Object (builder) --emit--> elf_write ---> elf::Writer ---+
                  |   |                          coff_write --> coff::Writer --+--> WritableBuffer
       coff stubs-+   +-macho thread vars        macho_write, xcoff_write -----+    (Vec, Streaming)
    client --> build::elf::Builder --write--------------------> elf::Writer       pe::Writer
                  ^ read                                          |
    crates/rewrite: Rewriter                                      +--> StringTable
    readers: read::{elf, coff, pe, macho, xcoff, archive} <-- ReadRef <-- &[u8] | ReadCache

| component | state it keeps | operations | what is hard | what makes it correct |
|---|---|---|---|---|
| string tables (`src/write/string.rs`) | interned strings, offsets | `add`, `write`, `size` | a hand-written sort by tails; two computations of the size | every offset reads back its string; tails are shared; `size` is what `write` produces |
| ELF file writer (`src/write/elf/writer.rs`) | reserved length, offsets, counts, indices, "need" flags; the buffer; `.symtab_shndx` data | about 60 `reserve_*` and 60 `write_*` | two phases that compute every position twice, in an order the client chooses; escapes for large indices | everything lands where it was reserved; no assertion fails; readers find their way |
| ELF object emission (`src/write/elf/object.rs`) | maps from the object's ids to indices and offsets | `elf_write` | three numberings (sections, symbols, groups); local symbols first; errors half way | ids come back as the right indices; the writer's protocol is obeyed |
| object builder (`src/write/mod.rs`) | sections with data and relocations, symbols, standard sections, section symbols, stubs | `add_section`, `section_id`, `append_*`, `set_section_data`, `add_symbol*`, `add_relocation`, ... | operations that call each other and back ends; calls that fail in the middle | symbols lie apart; standard sections are found; addends end up in one place; failures keep what there was |
| COFF writer and emission (`src/write/coff/*.rs`) | as for ELF | as for ELF | relocation overflow, auxiliary symbols, long names | as for ELF |
| Mach-O emission (`src/write/macho.rs`) | offsets, symbol order | `macho_write`, thread variables | symbols sorted by visibility; relocations inverted; load command sizes | as for ELF |
| XCOFF emission (`src/write/xcoff.rs`) | offsets, auxiliary counts | `xcoff_write` | overflow sections, auxiliary symbols | as for ELF |
| PE writer (`src/write/pe.rs`) | file and virtual lengths, sections, data directories, relocation blocks | `reserve_*`, `write_*` | two address spaces, blocks padded to even counts | ranges disjoint in both; blocks cover all relocations |
| output buffers (`src/write/util.rs`) | length, sticky error | `reserve`, `resize`, `write_*` | writes after an error | positions stay right; the first error is returned |
| ELF builder (`src/build/elf.rs`, `table.rs`) | tables of sections, symbols, versions, segments with ids and deleted flags | `read`, `delete_*`, `set_section_sizes`, `write` | dangling ids, moves of sections between segments | no reference to what was deleted; layout like ELF writer |
| rewriter (`crates/rewrite`) | options, the builder | `modify`, `write` | order of modifications | as for the builder |
| stream reader (`src/read/read_cache.rs`) | map of ranges, map of strings, memoized length, the stream's position | `read_bytes_at`, `read_bytes_at_until`, `len`, `clear`; also of a range | references outlive the borrow (`unsafe`); short reads, failures, a file that shrinks | returns what a slice returns; entries stay; loops end |
| format readers (`src/read/*`) | none but iterators | parsing | indices, counts and offsets from the file | bounds; iterators end; reader and writer agree |

There are no threads. What makes the program hard is the *order* in which a client
calls it, what is computed twice and must agree, counts at their limits, calls
that fail after they have changed something, and, in the stream reader, the
stream. `PROJECT.json` lists these hazards at the lines where they bite.

### What is modelled

| module | models | status |
|---|---|---|
| `FileLayout` | what every two-phase writer promises of the file | complete |
| `StringPool` | what a string table promises | complete |
| `StringTable` | `write/string.rs`, refines `StringPool` | complete |
| `ElfWriter` | `write/elf/writer.rs`, any client that follows its protocol; refines `FileLayout` | but for the contents of tables |
| `ElfObjectWrite` | `write/elf/object.rs` as a client of `ElfWriter` | but for flags |
| `PeWriter` | `write/pe.rs`, any client that follows its protocol, and what `read/pe` makes of the image; refines `FileLayout` | but for names and 32-bit wraparound |
| `Object`, `MCObject` | `write/mod.rs`, with the COFF stubs and the Mach-O thread variables | but for names and comdats |
| `ObjectFile` | the objects, ranges and images that the next four modules share | |
| `CoffObject`, `XcoffObject`, `MachoObject` | the emission of each format: what is reserved, in which order it is written and what it contains; and what the reader of the format finds in it | but for flags and types by architecture |
| `Emission`, `MCEmission` | `Object::emit` and `Object::write_stream` over these three; refines `FileLayout` | complete |
| `ElfBuilder` | `build/elf.rs` and `build/table.rs`: reading, deleting orphans, sizes, segments, writing | 64-bit; see section 6 |
| `Rewriter`, `MCRewriter` | `crates/rewrite`: edits in any order, the loop that moves sections, writing | complete |
| `ReadCache` | `read/read_cache.rs` over an adverse stream | complete |
| `ElfWriterProofs`, `PeWriterProofs`, `ReadCacheProofs`, `ObjectProofs`, `StringTableProofs` | theorems about the module of that name | |
| `ElfObjectCalls`, `ElfObjectProofs` | theorems about `ElfObjectWrite`, and the lemmas on its lists of calls | |
| `Sums`, `Numbers` | sums of sequences; lemmas on multiples, rounding, sums, recursions and induction over numbers that the proofs share | |

    StringPool <-- StringTable        FileLayout <-- ElfWriter <-- ElfObjectWrite
                                          ^  ^------ PeWriter
    Object                                +--------- Emission --> CoffObject, XcoffObject, MachoObject
    ElfBuilder <-- Rewriter           ReadCache

## 2. Plan

The order follows the importance of the behaviour: first what every ELF file that
is written goes through, then what feeds it, then the other formats, then programs
built on top. The modules above are done.

What could still be added: the contents of `.hash` and of attributes; the archive
member iterator; program headers in other places than behind the file header, once
the builder supports them.

Theorems still worth proving: `ImplementsLayout` and `AllDelivered` of `Emission`, one
format at a time; `LoadsApart`.

## 3. The models

### FileLayout

What the documentation of `elf::Writer` and `pe::Writer` says of their two phases,
without any table in it: `Reserve` appends a range behind the others; then, in that
order, each range is begun where it was reserved (`Put`), filled within its bounds
(`Fill`) or left out (`Skip`). `ElfWriter`, `PeWriter` and `Emission` each have a
property `ImplementsLayout == FL!Spec`, under a mapping that takes `extent` for the
length of the buffer and `pieces` for the history `landed`. It is the strongest
thing to say of these writers: each computes every position twice, once from sizes
while reserving and once by what it has put into the buffer, and a piece that is
misplaced, too long, out of order or padded differently is no step of `FileLayout`.
For the ELF and PE writers it is also proved, for every client.

### StringPool and StringTable

`StringPool` is the abstract promise: strings are interned while the pool is open,
and `Lay` picks *some* image and offsets from which every string reads back.
`StringTable` is `src/write/string.rs`: `strings` is the `IndexSet`, `offsets` the
vector that `write` fills, `image` the bytes that `write` and its caller produced.
`Add` is `add` (with its assertion as a guard), `Write` is `write`. `Sort` is the
multi-key quicksort on reversed strings: `Classify` is a round of its partition loop,
`SortWith` a call of `sort` in terms of the calls one level below it, and `Depth` a
bound on the levels. `Place` is one iteration of the loop that assigns offsets and
merges tails, `Count` one of the separate walk of `size`. The loops are functions on the
number of rounds, so that they can be reasoned about. The header in front of the strings (a null byte,
or the length in COFF and XCOFF) is the caller's, and matters: the empty string is
given the byte before the first string.

*Run `string_table`* (ELF and COFF headers, bytes `{1,2}`, strings of up to 3
bytes, up to 4 of them): `ImplementsPool` is the refinement; `TailsMerged`
that merging is optimal, which is what the comment on `sort` is for; `SizeAgrees` that `size`
tells what `write` will do. Two byte values and three bytes give every comparison
outcome of the partition (above, equal, below, past the start), tails of tails,
and strings that are prefixes but not tails; four strings give partitions with
more than one string on each side.

### ElfWriter

The writer and the most general client that follows its protocol.
Phase one reserves indices, symbols, strings and ranges in any order; phase two
writes them in the order of the ranges.

| variable | code |
|---|---|
| `len`, `buf` | `self.len`, `self.buffer.len()` |
| `offset[k]`, `index[k]` | the `*_offset` and `*_index` fields |
| `num[k]` | `section_num`, `symtab_num`, `dynsym_num`, `dynamic_num`, ...; the bytes of string tables |
| `need` | `need_strtab`, `need_dynstr`, `need_symtab_shndx` |
| `shndx` | `symtab_shndx_data` |
| `ehdr`, `headers`, `symbols` | what a reader needs of the bytes written: counts and indices, offsets, sizes, links, `st_shndx` |
| `blocks`, `sections`, `symsecs`, `strs`, `cur`, `left` | the client: what it reserved in which order, and where it is in writing it |
| `landed` | history: the position of each range in the buffer |

Each `reserve_*` function is an action, each `write_*` too; those that share their
shape are instances of one operator (`ReserveRange`, `ReserveIndex`, `WriteBlock`,
`WriteEntry`), and the differences between them are in the tables of sizes and
alignments. The alignment of the reserving functions (`ReserveAlign`) and that of
the writing functions (`WriteAlign`) are transcribed separately, since that they
agree is the point. The debug assertions of the *first* phase are guards: they are
the protocol a client must follow. Those of the *second* phase are not: they are
what `NoPanic` claims.

Two rules are the client's alone, and the model makes them explicit: symbols are
not added after `.symtab_shndx` (or `.gnu.version`) was reserved; `.symtab_shndx`
is reserved after `.symtab` (constant `ShndxAfterSymtab`). `Ready` says what a
client must have done before it writes: each section index has its range, and
`.symtab_shndx` is there if it is needed.

*Run `elf_writer_symtab`*: a 64-bit file with up to two symbols and the null one,
in the sections `.symtab`, `.symtab_shndx`, `.gnu.attributes`, `.shstrtab`, any of
which may be missing, in every order of indices and ranges. *Run
`elf_writer_tables`*: a 32-bit file with any three of the remaining ranges
(program headers, string tables, dynamic symbols and their versions, `.dynamic`,
both hash tables, both version tables, attributes, section data, relocations,
groups, explicit padding), any one of them with a section header. Properties:

- `ImplementsLayout`: everything is written where it was reserved, see `FileLayout`;
- `NoPanic`: the assertions of the second phase;
- `Complete`: a finished file has the reserved length;
- `HeadersDescribe`: a section header describes the range that was written for its
  section, and links to the section it means;
- `ReadBack`: a reader (as in `src/read/elf`) finds the number of sections, the
  section name table and the section of each symbol, through the escapes.

Bounds: `LoReserve` (SHN_LORESERVE, 65280 in the code) is 2 or 3, so that the
escapes are taken with as few sections; nothing else in the code depends on its
value. `NameBytes = {2}`, counts of 3 or 5 and the alignment 16 leave the length at
positions that are multiples of nothing relevant, so that every later range needs
padding. Three ranges suffice for each to be first, in the middle or last; that
more of them cannot interfere is what the theorems show. The run of the tables has
one section with a header beside the null one; several are in the other run.
Whoever stops reserving or has finished just stops, so deadlock is not checked.

### ElfObjectWrite

`Object::elf_write` as a client of `ElfWriter`. `ReserveCalls`, `WriteCalls` and
`HeaderCalls` are the three parts of the function, as the sequence of the calls
they make for an object; each call is a step conjoined with the writer's action of
that name, with the arguments the code passes. A call the writer's protocol does
not allow would be a deadlock, which the run checks. `Fail` is an error return: at
the calls that can fail, and with everything done so far left as it is.
`comdatBlock`, `secIndex`, `secBlock`, `relBlock`, `symIndex` and `numLocal` are
`comdat_offsets`, `section_offsets`, `symbol_offsets` and `symtab_num_local`;
`groups`, `rels`, `order` and `heads` record what was written.

*Run `elf_object_write`*: all objects of up to two sections (with up to two
relocations each, against any symbols), two symbols (local or global, in any
section or none) and one group. Two of each is what it takes for an id and an index
to be confused; that more of them are not is what the theorems show. `ObeysWriter` is the refinement of the writer's specification: the
function writes the symbols with the sections it reserved them with, and the
headers in the order of their indices. `SymbolsResolve`, `RelocationsResolve` and
`GroupsResolve` follow a reader from the file back to the object; `LocalsFirst` is
what ELF asks of `sh_info`.
`LoReserve = 4`, so that objects with relocations use the extended indices.

### PeWriter

The writer of PE images, which reserves in two address spaces at once, and the most
general client that follows its protocol.

| variable | code |
|---|---|
| `fmt` | `is_64`, `section_alignment`, `file_alignment` |
| `len`, `virtual_len`, `headers_len` | the fields of that name; `buf` is `self.buffer.len()` |
| `stats` | `code_address`, `data_address`, `code_len`, `data_len`, `bss_len` |
| `sections` | `sections`, with the size of the data before it is padded and the function it was reserved with |
| `reloc_blocks`, `relocs`, `reloc_offset` | the fields of that name; a relocation is its packed 16 bits |
| `data_directories`, `nt_headers_offset`, `section_header_num` | the fields of that name |
| `image` | what a reader needs of the bytes written: the NT headers, the section headers, the blocks of relocations |
| `ranges`, `added`, `cur` | the client: the file ranges and relocations in their order, and the last range it wrote |
| `landed` | history: where each range was put, and how long the buffer was before |

The `reserve_*` functions for sections of a known kind are one action,
`ReserveTypedSection`, over tables of their contents and directories; the rest are
an action each. In the second phase a step is a `write_*` function with the padding
before and after it, at the offset the *writer* holds (`nt_headers_offset`,
`reloc_offset`, `range.file_offset`, the directory of certificates), not at the one
the client noted, so that `ImplementsLayout` compares the two.

What the client must keep to, and no type enforces, is in the guards: nothing is
reserved between the NT headers and the section headers; the announced number of
sections is reserved; relocations are added with ascending pages (asserted), and
none after the `.reloc` section was reserved; each data directory is set once
(asserted, but in `set_data_directory`); a table of certificates is not empty; raw
data after a section that was not filled is preceded by `pad_until`.

*Run `pe_writer`*: 64-bit images with the file alignment below (16) and above (64)
that of memory (32), seven directories, up to two sections (code, uninitialized,
imports, relocations, or of the client's own kind), which may be empty or have one
size in memory (24, 0) and another in the file (20, 40), one range of the client's
own before or after the sections (raw data that asks for an alignment of 128, a gap,
certificates), a gap in memory, and two relocations in one page or two, of types 0
and 3. A section is written with all its data, or with no more than memory has room
for. Two sections are what it takes for one to overlap, or to be mistaken for,
another; two relocations give blocks of even and odd counts; that more do not
interfere is what the theorems show. Nothing obliges a client to go on, so deadlock
is not checked.

- `ImplementsLayout`: everything is written where it was reserved, in that order,
  and `pad_until` never goes back;
- `SectionsApart`: in the file and in memory, from each other and from the headers;
- `HeadersDescribe`: a reader finds the section table behind the optional header,
  and the optional header has the sums and the first addresses of its sections;
- `SectionsBacked`: what a reader takes for the data of a section is in the file;
- `DirectoriesResolve`: the address in a directory leads to the section made for it;
- `RelocsReadBack`: the relocations come back, in order. (`Only`, which drops what
  reads as padding, is a recursive function, so that it can be reasoned about.)

Three corners the properties leave out, because the code does: a relocation of type
0 (`IMAGE_REL_BASED_ABSOLUTE`, which does nothing) at the start of a page is read as
padding; an empty section shares its address with the next one, so that its
directory leads there; and the last section may be written without all its padding,
if the client writes less than it reserved.

### Object

The builder. An operation is an operator on the object (a record), so that
operations call each other as in the code: `AddSymbolData` calls `AppendData` and
`SetSymbolData`, which for a Mach-O thread-local variable calls `AddThreadVar`,
which calls `SectionId`, `AppendData`, `TlvBootstrap` and `PushReloc` twice. The
actions `Call*` are the public operations. Data is a sequence of cells, each as wide as
an implicit addend; alignments and sizes are in cells. `known` holds the symbols
that a client was given, so that it cannot name the internal ones. Three fields are
history: `asked`, the addend that a relocation was to have, `given`, the data of a
section as the client gave it, and a symbol's `align`.

A target (constant `Targets`) is a format, an architecture and the bounds of its
client. *Run `object`* has four. `Coff` has two sections, one of which stands for
three standard ones, so that `StandardFirst` checks that the one found is the first, and
absolute and GOT relocations, for which stubs are made. `Addends` is one section with
up to three relocations for each of two places, absolute or relative (whose addends are
adjusted), in up to three cells that the client has set to something other than 0, before or
after the relocations; a place may be beyond the data. `PowerPc` is an architecture
for which generic relocations are not implemented (`relocates`), only those with flags
of the format (`raw`). In `Macho`, two thread-local variables are five symbols
(variable, initializer, twice, and the shared `_tlv_bootstrap`), three sections and
four relocations, which the bounds allow, in any order with common and ordinary symbols.

- `OneSectionSymbol`: a section has at most one section symbol, the one it knows.
- `AddendsKept`: in a format with explicit addends, the addend is in the relocation. In
  the others, an addend that is not 0 (after the adjustment) *replaces* what the client had
  put there, and one of 0 leaves it, as the implicit addend; of several relocations for one
  place the last one with an addend decides. Everything else is the data as it was given.
  The comment on `Relocation::addend` (`src/src/write/mod.rs:1075`) says "This may be in
  addition to an implicit addend stored at the place of the relocation."; line 715 adds
  nothing to what is stored, so the property says what the code does.
- `StubsResolve`: one stub for each symbol, complete even if the relocation that it was made
  for is refused. The stub's own relocation is a generic one, and `coff_add_stub_symbol`
  returns its error (`src/src/write/coff/object.rs:344`) with the section already added and
  filled. So for `PowerPc` there are no stubs at all, and each attempt leaves one more section
  to which nothing refers; that they stay like that is part of the property.
- `FailureKeeps`: a call that fails leaves the sections and symbols there were as they
  were. What it may add is one section, for a stub, and a symbol only if that is a stub.
- `Placed`: symbols lie in their sections, aligned and apart, and no two at one address
  where subsections follow symbols.
- `ThreadVars`: the entry's first pointer is relocated against `_tlv_bootstrap`, its third
  against an initializer, which is a defined, thread-local symbol that the client was not
  given.

A client may stop anywhere, so deadlock is not checked.

### Emission, with CoffObject, XcoffObject and MachoObject

`Object::emit` for the three other formats. Their code has one shape, which
`Emission` has as its steps: errors that are found before anything is reserved
(`Refuse`), a step for each range that is reserved (`Reserve`), then one for each
call that writes (`Write`), any of which may find something it cannot write (`Fail`).
The three modules, instances in `Emission`, say what differs:

| operator | meaning |
|---|---|
| `Refused(o)` | what is refused at once, e.g. a comdat whose symbol is undefined |
| `Plan(o)` | the ranges with sizes and alignments, computed as the first phase does: from counts, auxiliary entries, names that are too long |
| `Order(o)`, `Position(o, call, ...)` | the order of the second phase, and where each call writes: behind what is there, once padded |
| `Content(o, call, offset)` | the entries that it writes, with offsets and indices from the first phase |
| `Sections`, `Symbols`, `Relocations`, `SymbolRead`, ... | the reader of the format, over the image |

`image` maps offsets to entries (records), not to bytes; an entry holds what readers
look at. A name is a pair of its identity and its length. `CoffObject` has the
comdat selections with the symbols that are moved in front for them, the default
symbols of weak ones, auxiliary entries for files, sections and weak symbols, and the
relocation that holds a count past 16 bits. `XcoffObject` has both widths, addresses,
csect and file auxiliary entries. `MachoObject` has both widths and byte orders, the
sorting of symbols into three groups, explicit addends (a relocation of its own) and
the packing of relocation fields (`Pack`, `Unpack`).

The stream behind `StreamingBuffer` may fail at any write (`Deliver`): nothing
reaches it from then on, while the length of the buffer goes on, as positions depend
on it.

*Run `emission`*: for each format all objects with up to two symbols of any shape
(kind, scope, weak or not, section, short and long name) under two sections; objects
with sections of any shape and up to three relocations, upwards and downwards, over
three symbols of which none has its position for its index; in COFF also groups of one
or both sections with their four symbols in any order. `U16Max = 7` stands for 65535,
`U8Max = 3` for 255 and `SectionMax = 5` for 0xFEFF, from which a COFF reader takes
section numbers for negative ones, so that seven relocations overflow a header. Objects
with as many sections as each of these limits, and one more, have a symbol in every
section and a relocation in the last. `SymNums` is the limit of a field that small
objects do not reach. Two symbols are what it takes for an
auxiliary entry of one to displace another, and for a sort to swap them.
`ImplementsLayout`; `AllDelivered` (success means that the stream has all of the
file, and failure that it has a prefix without gaps); `SymbolsReadBack`,
`SectionsReadBack`, `ComdatsReadBack` follow a reader back to the object. Deadlock is
checked. *Run `emission_big_endian`* is a finding, below.

What the properties leave out because the code loses it: sections of XCOFF without
data have size 0; a 32-bit XCOFF header cannot count 65535 relocations; a weak COFF
symbol reads back as an undefined one with a default; a comdat is found by a strong
symbol behind its section's own; a common symbol of size 0 is undefined. And the casts,
which nothing checks: `coff_write` makes room for `self.sections.len() as u16` section headers
and writes all of them (`src/src/write/coff/object.rs:548`), so that with more than 65535
sections the phases disagree (`Fits`, `Countable`); a symbol's section is told up to number
65278 (0xFEFE) in COFF, 32767 in XCOFF and 255 in Mach-O, where the number wraps round
(`Numbered`; lines 681 to 683 there, `src/src/write/xcoff.rs:484`,
`src/src/write/macho.rs:871`). Up to each of these limits the properties hold, and the
run reaches both sides of it: the reader of an object beyond them has to
get everything else right. Objects with
a Mach-O relocation against the symbol of a file, which has no entry, are not made.

### ElfBuilder and Rewriter

`ElfBuilder` has no variables: a builder is a record (its tables, the numbers of
buckets), a file is a record, and the operations of `build::elf::Builder` are
operators: `Read`, `DeleteOrphans` and its four parts, `DeleteUnusedVersions`,
`SetSectionSizes`, `AddLoadSegment`, `CopySegment`, `AppendSection`,
`RecalculateRanges`, `WriteError` and `Written`. An identifier is a position in a
table; deleted items stay there, marked, as in `build/table.rs`. What the reader
refuses is `Readable`, the first error of `write` is `WriteError`, in the order in
which the code finds them. Names have components with lengths (constant `Lengths`),
since sizes of string tables decide what has to move. `GnuHashWritten` and
`GnuHashFinds` are the hash table of the writer and the lookup of the reader.

`Rewriter` is the state machine over it.

| variable | code |
|---|---|
| `builder`, `modified` | the fields of `Rewriter` |
| `phase` | `edit`: the client calls; `move`: in `move_sections`; `write`: in `Builder::write`; `done`, `failed`: returned |
| `added` | `added_segments` of `move_sections` |
| `err`, `file` | what `write` returned, and the file |
| `edits`, `edited` | a bound, and history: the builder that the client made |

Each edit is an action; a call that finds no dynamic section or interpreter is
refused without effect and has no step. `Finalize` is the start of `write`;
`MoveRound` is one round of the loop that raises the number of segments until it is
enough for what `FindMoveSections` (`Blocks`, `Against`) wants to move; its last round
is `Move`. `Write` is `Builder::write`, which deletes orphans once more.

*Run `rewriter`*: three layouts of a shared library with 22 sections and 6 segments
(headers, interpreter, two loads, dynamic section, notes) with no room, room for a
word, and much room behind the interpreter, with symbol versions needed, defined and
unused, both hash tables, relocations, thread-local sections and attributes; and an
object file. Any two edits, of 14 kinds, with names that fit and names that do not.
Two edits are what it takes for one to undo what another relies on, and every outcome
of the loop, all errors and a second round, happens.

- `ReadsBack`: the file that was written is readable, and means what the client made:
  what was deleted is gone with all that refers to it, everything else refers, by
  name, to what it did, whatever moved and whatever index changed; dynamic entries
  have the addresses and counts of their tables; every symbol is found by its hash.
- `LoadsApart`: sections are backed by a segment in memory and in the file, none
  overlap, and segments are apart and can be mapped.
- `Finishes`: the call of `write` ends, with a file or with an error that is
  `Excused`: two immovable blocks overlap already, the client deleted what is needed,
  or it deleted the last version.

Fairness: weak fairness of `MoveRound` and `Write` only, the rewriter going on once
`write` was called; nothing obliges the client to call anything. The formula is
`WF_vars` with its enabling condition written out (`Running`): both actions have an
outcome in every state of their phases.

*Run `rewriter_interp`* is a finding, below.

### ReadCache

The reader of a stream. The stream is external and adverse: any operation may fail
and leave its position anywhere it may be, a read may be short, and the stream may
become shorter. A call holds the `RefCell`, so calls do not interleave, and
`Call(c)` is a whole call, except for the search of `read_bytes_at_until`, whose
reads are steps (`Search`) since each has an outcome of its own. `ReadCacheRange`
is a reader with an offset; it shares the map.

*Run `read_cache`*: every content of a stream of three bytes over two values,
readers of all of it and of two parts, two entries. `Chunk = 2` and `Limit = 2`
stand for 256 and 4096: a string is found in the first piece, after a short read, or
given up at the limit or at the end. `BytesAgree`: `read_bytes_at` returns what a
slice returns. `UntilSound`, `UntilRefuses`: a string that is found is right, and a
refusal is justified. `EntriesStay`: entries are neither changed nor removed.
`SearchEnds`: the search terminates, under weak fairness of `Search`, which is the
loop in the call going on; nothing is assumed of the stream, of the client, or of
calls happening at all.

## 4. Findings

Each is a run that TLC ends with a counterexample.

- `read_cache_range`: `read_bytes_at_until` returns a string that an earlier call has put
  into the cache for a range that ends before the delimiter, where a slice gives an error
  (`src/src/read/read_cache.rs:132`): strings are keyed by start and delimiter. In the trace
  the second range is the empty one. The run has no readers of a part of the stream
  (`Offsets = {}`), which have another such case without the cache: `ReadCacheRange` checks
  that the string ends in its part, not that the range does (`read_cache.rs:203-213`), so that
  a range that goes beyond the part is searched, too.
- `emission_big_endian`: `RelocationInfo::relocation` (`src/src/macho.rs:3089`) shifts
  the symbol number to the right where a big-endian relocation has it in its upper 24
  bits, so that objects for PowerPC lose it.
- `rewriter_interp`: `elf_set_interpreter` (`src/crates/rewrite/src/elf.rs:539`) with a
  longer path that fits where it is leaves `PT_INTERP` at its old size, so that the
  loader sees the path cut off. Nothing is recalculated for segments whose sections
  did not move.

Comments that do not match the code, noticed on the way and without a run:
`add_section` (`src/src/write/mod.rs:235`) does not create a section symbol; an addend
is not "in addition" to the one in the data (`src/src/write/mod.rs:1075`, see `AddendsKept`);
`reserve_symtab_shndx` (`src/src/write/elf/writer.rs:924`) does not reserve a section
index; `StringTable::add` (`src/src/write/string.rs:21`) does not panic after an
*empty* table was written; `rename_symbols` (`src/crates/rewrite/src/rewriter.rs:93`)
never renames those of the static table, for `elf_rename_symbols` goes over the
dynamic one; `delete_orphan_segments` deletes a `PT_LOAD` that only holds headers;
the writer's documentation does not say that `.symtab_shndx` is to be reserved after
`.symtab` (`NoPanic` needs it); in XCOFF, an empty string that is the only one is
given the offset of a byte of the length.

## 5. Proofs

All are checked by `tlapm` for every value of the constants.

Assumptions: `ConstantsAssumption` types the constants; `PowersOfTwo` is the
assertion of `reserve` on alignments. The theorems of `ElfWriter` have the
hypothesis `ShndxAfterSymtab`, without which `NoPanic` is false (see section 4); those
of `ElfObjectWrite` have it too, since `elf_write` reserves in that order
(`ReserveCalls`) and what it says of clients is then the Writer's guard.
`ObjectAssumption` types the bounds on objects, and says that the Writer's client may
reserve as many bytes and entries as an object has. Nothing is assumed of the client
but the guards of the model.

**`ElfWriterProofs`.** `Landed` and `NoPanic` are not inductive: that the next range
starts at the end of the buffer depends on all the ranges having been reserved in
a row, and on the counts not having changed since. The invariant `IInv` has these
parts:

- `Spaced`: each range starts at the first aligned position after the one before,
  and the reserved length is the end of the last;
- `Stacked`: hence all ranges are apart;
- `Frozen`: the size of a range is what the counts *still* give, so that the second
  phase, which computes sizes anew, computes the same;
- `Owned`: an offset field and its range go together, and a singleton has one range;
- `NotEmpty`, `Counted`, `Ordered`: a table with a null entry has it; the client's
  lists match the counts; `.symtab_shndx` is behind `.symtab`;
- `Written`: how many symbols, headers and extended indices have been written when
  the block `cur` has `left` entries to go;
- `Landed` itself.

The proof has a lemma for each action. In the first phase a step either keeps the
ranges (`KeepsInv`) or appends one (`GrowsInv`); in the second it begins a range
(`BlockInv`) or writes an entry (`EntryInv`). The core is `TurnStart`: a range whose
turn it is starts where the buffer ends once it is padded. From `IInv` follow
`TypeCorrect`, `LandsWhereReserved`, `NeverPanics`, `RangesNeverOverlap` and
`WritesEverything`. `Refines` is `Spec => ImplementsLayout`: from `IInv`, a step of the
first phase is `FL!Reserve` or leaves everything alone, and one of the second is
`FL!Put`, `FL!Skip` or `FL!Fill`, for `TurnStart` says where a range begins and
`Written` how much of it is left.

In the second part of the module, `HeadersFound` is `HeadersDescribe` and `EscapesUndone` is
`ReadBack`. `IInv` counts the symbols and headers that are written; what is in them is
`RInv`, which is inductive together with it:

- `IndexOk`: an index field of the writer is the number under which the client knows
  the section, and every section of a kind that the writer keeps an index of has one;
- `RoomOk`: a symbol in a section past `LoReserve` has asked for `.symtab_shndx`;
- `SymbolsOk`: the symbols written so far, and the extended indices, are those of the
  sections that the symbols were reserved with;
- `HeadersOk`: since the first byte was written the fields that go into the file header
  have not changed, and the section headers are those of the sections, in order.

A link is right because `IndexOk` takes a field to its section; an escape is undone
because `RoomOk` and `Ready` give `.symtab_shndx` a range, and because the null section
header is written first.

**`PeWriterProofs`.** `SectionsApart` is nearly inductive: it needs that both lengths
are beyond all sections, and that `virtual_len` is aligned. `Landed` is not: a step
of the second phase puts a range where a field of the writer, or a computation from
counts, says; the client noted the offset long before. `IInv` adds

- `RangeFits(i)`: where range `i` starts and how large it is by its kind, as the
  fields and counts give it *now*: this is what makes the two phases agree;
- `Stages`: how far the headers have been reserved, and that `len` is the end of the
  last range once there is one (or of the headers);
- `SectionData`: the directory of relocations stays set once they are reserved, so
  that they are not reserved again;
- `Progress`: the buffer ends where the last range that was written ends, or
  earlier if that is a section.

A step of the first phase keeps the ranges there are (`Kept`, `KeptRanges`) and may
append one (`NextRange`, `AppendRange`); `ClientRange` and `SectionReserved` are the
two kinds. A step of the second phase puts the current range (`PutInv`), which
starts at or behind the end of the one before. The arithmetic of padding
(`AlignUpOffset`: padding behind an aligned offset is padding of the size) rests on
lemmas of `Numbers`, where induction over numbers is derived from the principle for
sets (`SetInduction`). From `IInv` follow `TypeCorrect`, `SectionsStayApart`,
`WritesLand`, `FileCompletes` and `Refines`, the refinement of `FileLayout`. The proofs assume the alignments positive, not
that they are powers of two.

In the second part of the module, `HeadersFound`, `ContentsBacked` and `DirectoriesFound` are
`HeadersDescribe`, `SectionsBacked` and `DirectoriesResolve`. What has been kept of a
section is in four places: its range in the file, its entry in `sections`, its data
directory, and its share of the sizes in the optional header. `RInv` ties them together:
`SectionOk` and `RangeOk` for each section and range, `StatsOk` for the sums and lowest
addresses, `HeadersOk` for the order in which the headers are reserved, and `ImageOk` for
what has been written of it: the headers are those of the sections, and the contents of
each section whose turn it was (`Written`) are in the buffer as far as a reader will look.
`HeadersFound` has the hypothesis `FieldsFit`: `section_header_num` and the size of the
optional header are 16-bit fields. The code has it for the sections by the type
(`src/src/write/pe.rs:37`), for the directories since there are 16 of them
(`src/src/pe.rs:389`).

`RelocsFound` is `RelocsReadBack`. A block only has a count, and its relocations are
those behind the ones of the blocks before; they are padded to even counts, in two
functions. `RelocInv` says that the counts cut `relocs` up without rest, that no block
is empty and all but the last even, the last too once they are reserved, and that what a
reader would find in blocks cut like that (`ReadOf`) is what was added, without what looks
like padding. Adding a relocation appends it to the last block or to a new one, behind
a padded one; `LastGrows`, `BlockBegins` and `PaddingOk` follow what each of that does to
what `ReadRelocs` and `ReadBlock` make of it.

**`ElfObjectProofs`**, over the lemmas of `ElfObjectCalls`. `ProtocolObeyed` is the
refinement `ObeysWriter`: `ObjectSpec => Spec`, so that all that is proved of the Writer's
clients (`NoPanic`, `ImplementsLayout`, `ReadBack`) holds of `elf_write`, for every object.
`LocalsComeFirst`, `SymbolsFound`, `RelocationsFound` and `GroupsFound` are
`LocalsFirst`, `SymbolsResolve`, `RelocationsResolve` and `GroupsResolve`. None of these is
inductive: that an index is right when it is used follows from all the calls that were
made before, none of which the state records. What it has is `todo`, the calls that
remain; so the invariant `OInv` says of each list that `elf_write` works through that what
remains is a tail of it (`Left`), and that the head is what its state and the Writer's hold:

- `SymbolsDone`, `SymbolsWritten`: the symbols with an index, and those written, are
  the first ones of `Table(obj)`, locals before globals, and have their places for
  indices;
- `SectionsDone`, `HeadsWritten`: likewise for the sections and the headers, whose list
  is `Directory(obj, x)`. Whether it has `.symtab_shndx` in it (`x`) is only known once
  the calls for sections have been made, since it is a flag of the Writer's that
  decides; until then the invariant holds for both (`Could`);
- `EntriesWritten`, `BlocksDone`: the members of each group, the relocations of each
  section, and where the ranges are;
- `Future`, `Quiet`: the remaining calls are legal, come in the order of their parts,
  and nothing is written before everything is reserved.

`ElfObjectCalls` shows what the sequences of calls are: `FlattenSeq` is taken apart into
steps once, and `Pick(F, todo)`, the remaining calls of one kind, is what the rest is
about. `OInvStep` is the step of the invariant, with a lemma for each call, and
`StepNext` that of the refinement: each call is one of the Writer's actions, with
arguments that one has.

**`ReadCacheProofs`.** `ReferencesStay` is `Spec => EntriesStay`. `read_bytes_at` and
`read_bytes_at_until` extend the lifetime of references into the cache with
`unsafe`; that is sound because entries stay. An insertion could overwrite the entry
if the key was inserted between the lookup and the end of the search; `Pending`, the
invariant, says that it was not.

`SliceOfBytes`, `StringOfSlice` and `RefusalOfSlice` are `BytesAgree`, `UntilSound` and
`UntilRefuses`. Calls share the entries, so that what one returns depends on all that
came before. `IInv` adds to `Pending`: `Held` (an entry of `read_bytes_at` is the part
of the stream between its bounds; one of `read_bytes_at_until` is what comes before a
delimiter of the stream, and has none in it), `Searching` (what a search has gathered is
what the stream has there, without a delimiter) and `Agree`, what the last reply has to
do with a slice. That the stream becomes shorter does not disturb it: entries are true of
what the stream had when it was opened, and so is what they are compared with.

**`ObjectProofs`.** `PlacesApart`, `AddendsInPlace`, `Stubs`, `ThreadVariables`,
`SectionSymbols` and `StandardSections` are `Placed`, `AddendsKept`, `StubsResolve`,
`ThreadVars`, `OneSectionSymbol` and `StandardFirst`; `FailedCallsKeep` is the action
property `FailureKeeps`. The operations are operators on an object that call each
other, so the proof has a lemma for each *operator* (what it keeps of `ObjectOk(o)`, for
any `o`) before one for each action. `IInv` is

- `Typed`, `StdOk`, `SectionsOk`, `SymbolsOk`, `PlacedOk` (together `Sound`), which hold
  after each operator: numbers in an object are those of sections and symbols that are
  there, and the six properties but for stubs and variables. For addends that is a
  statement about each cell (`CellOk`): it is as given and no relocation has stored there,
  or it is what the last of those that did has stored;
- `StubsOk`, which does not: a stub is made of a section, its data, a symbol and a
  relocation, one after the other; it holds again once the call returns, be it with a
  stub (`StubMade`) or with no more than a section that nothing refers to (`Idle`,
  `StubLeft`);
- `VarsOk`, of the symbols that the client was given: an initializer is one it was not,
  so that the client can not move it away;
- the target, which never changes.

`ObjectAssumption` types the constants, and keeps the client from making a section that
looks like a stub's, whose names are the builder's.

**`StringTableProofs`.** `Implementation`, `Announced` and `Merging` are
`ImplementsPool`, `SizeAgrees` and `TailsMerged`; the invariant they share, `Interned`
(the strings are distinct, null-free and of bounded length), is easy, and all the work
is in what a single `write` computes. A recursion of the code is a function on the
number of its rounds; `Iterates` (of `Numbers`) says that there is one, and `Stays` that
it keeps what each round keeps. In this way

- `PartitionParts`: the partition loop keeps `Parted`, that the strings below `lower`
  are above the pivot, those up to `i` at it, and those from `upper` on below it;
- `SortSorts`: a recursion of depth `d` sorts (`Sorts`) whatever is `Sortable` at that
  depth. Each level has fewer strings, or one byte less to compare; strings that agree in
  all bytes down to a null are the same string, which is why the code may leave the
  middle part alone when the pivot is null;
- `PlaceWalks`: each string is `Found` where its offset says: in the data, followed by
  a null byte, or, for the empty string, in the last byte of the header;
- `SameWalk`: `size` walks as `write` does;
- `WalkMerges`: a string is emitted exactly if it is the tail of no other. The heart of it
  is `Between`, which is what the comment on `sort` claims
  (`src/src/write/string.rs:112`): what lies between a string and a tail of it has that
  tail, so that it is enough to look at the string emitted last.

`Implementation` has the hypothesis that the table is not one of XCOFF, where it is
false: an empty string that is alone in its table reads the last byte of the length
(see section 4). `StringTableAssumption` says that strings have no null bytes, which is
what the code relies on (`src/src/write/string.rs:161`) and `add` checks.

### Only model-checked

- `AllDelivered`, `SymbolsReadBack`, `SectionsReadBack`, `ComdatsReadBack` and
  `ImplementsLayout` of `Emission`: the plan, order and contents of each of the three
  formats are computed by recursion over the object (offsets, auxiliary entries, the
  length of names), so that a theorem is an induction over the data of one format. The
  refinement is checked step by step by TLC.
- `ReadsBack` and `LoadsApart` of `Rewriter`: its operations, and the reader they are
  compared with, are recursions over tables and names.
- `SearchEnds` and `Finishes`, which are liveness.

## 6. Not modelled

- In `ElfWriter`: the contents of hash tables, versions and attributes (their sizes
  are); every version definition and dependency has one auxiliary entry;
  `.dynsym_shndx`, which the code does not write; the contents of `.dynamic` and
  program headers; symbols that are absolute or common; assertions on what is in a table
  (e.g. that the first symbol is the null one).
- In `ElfObjectWrite`: section, symbol and relocation flags; names; the contents of
  sections; sections without data in the file have no special case.
- In `PeWriter`: the contents of headers that the client supplies, names and flags of
  sections, sums past 2^32, alignments past what TLC can count to.
- In `Object`: names, mangling and the symbol map, comdats, flags, `set_subsections`,
  the width of a stored addend.
- In `Emission`: flags and types by architecture, the symbol flags a client sets, the
  contents of sections, subsections via symbols, dates.
- In `ElfBuilder`: 32-bit files; bytes, values and addends; the contents of attributes
  but for the sections and symbols they name; `.symtab_shndx`; where sections that are
  not loaded go in the file; tails that dynamic strings share; two tables of a kind;
  physical addresses; hidden versions; a further string table by the name of
  `.annobin.notes`, which is kept as data (`src/src/build/elf.rs:272`); the three errors of the
  reader on the base version (`src/src/build/elf.rs:655`, `662` and `665`), of which the libraries
  of the run have one, in order; debug assertions on the offsets of sections that are not loaded
  (`src/src/build/elf.rs:1555`) and on the sizes of a segment that a section is appended to
  (`src/src/build/elf.rs:2306`). A file that the reader refuses is not edited.
- In the runs of `Rewriter`: a library whose loads differ in `p_align`, which `LoadAlign` has a
  branch for, or whose sections that move have different flags, so that they need several new
  segments in a round.
- In `Rewriter`: sets of names (one name at a time), conversions of names, and the
  queries, which have no effect.
- In `ReadCache`: the sizes of allocations.
- The readers beyond what the writers of the crate produce (imports, exports,
  resources, fat files, fixups, notes, archives): they keep a position at most, and
  their difficulty is in bytes.
- The other components, for the reasons given in `PROJECT.json`: the Wasm reader delegates to another crate; format definitions, endianness and
  plain-data conversions keep no state; examples, tests and tools are clients.
