------------------------------ MODULE Rewriter ------------------------------
(***************************************************************************)
(* The rewriter of crates/rewrite, a client of the ELF builder: a file is  *)
(* read, edited by any calls in any order, and written.  Before a changed  *)
(* file is written, orphans are deleted and sections that no longer fit    *)
(* where they were are moved behind the file, into new segments; these     *)
(* need program headers, which may push away more sections, so that the    *)
(* number of segments to add is raised until it is enough.  Each round of  *)
(* that loop is a step.                                                    *)
(***************************************************************************)
EXTENDS ElfBuilder

CONSTANTS
    Files,          \* the files that are rewritten
    SymbolNames,    \* names of symbols that are deleted
    Renames,        \* pairs of an old and a new name
    SectionNames,   \* names of sections that are deleted
    SectionRenames,
    Libraries,      \* names of libraries that are added, deleted, replaced by
    Paths,          \* paths to search for libraries
    Interpreters,
    MaxEdits        \* bound

VARIABLES
    builder,
    modified,
    edits,     \* history: the number of edits
    phase,     \* edit, move, write, done or failed
    added,     \* the number of segments to add
    err,       \* the error that was returned
    file,      \* the file that was written
    edited     \* history: the builder before anything was deleted or moved

vars == <<builder, modified, edits, phase, added, err, file, edited>>

NoFile == [sections |-> <<>>]

Init ==
    /\ \E f \in Files : builder = Read(f) /\ edited = Read(f)
    /\ modified = FALSE /\ edits = 0 /\ phase = "edit"
    /\ added = 0 /\ err = "none" /\ file = NoFile

-------------------------------------------------------------------------------
(* Edits *)

Edit(b, changed) ==
    /\ phase = "edit" /\ edits < MaxEdits
    /\ builder' = b /\ modified' = (modified \/ changed) /\ edits' = edits + 1
    /\ edited' = b
    /\ UNCHANGED <<phase, added, err, file>>

Named(table, name) == {i \in DOMAIN table : IsLive(table, i) /\ table[i].name = name}

Deleted(table, name) ==
    [i \in DOMAIN table |->
        IF i \in Named(table, name) THEN [table[i] EXCEPT !.delete = TRUE] ELSE table[i]]

Renamed(table, old, new) ==
    [i \in DOMAIN table |->
        IF i \in Named(table, old) THEN [table[i] EXCEPT !.name = new] ELSE table[i]]

(* delete_symbols, from both tables.                                       *)
DeleteSymbols == \E name \in SymbolNames :
    Edit([builder EXCEPT !.symbols = Deleted(@, name), !.dynsyms = Deleted(@, name)],
         Named(builder.symbols, name) \cup Named(builder.dynsyms, name) # {})

(* rename_symbols: elf_rename_symbols goes over the dynamic symbols, and   *)
(* so does elf_rename_dynamic_symbols after it.                            *)
RenameSymbols == \E r \in Renames :
    Edit([builder EXCEPT !.dynsyms = Renamed(@, r.old, r.new)],
         Named(builder.dynsyms, r.old) # {})

DeleteSections == \E name \in SectionNames :
    Edit([builder EXCEPT !.sections = Deleted(@, name)],
         Named(builder.sections, name) # {})

RenameSections == \E r \in SectionRenames :
    Edit([builder EXCEPT !.sections = Renamed(@, r.old, r.new)],
         Named(builder.sections, r.old) # {})

(* dynamic_section, and its entries.                                       *)
DynamicSection == SectionOfSegment(builder, "DYNAMIC")
Dynamic == builder.sections[DynamicSection].data

HasDynamic == DynamicSection # 0 /\ builder.sections[DynamicSection].kind = "dynamic"

(* An edit of the dynamic section; without one it is refused.              *)
EditDynamic(entries, changed) ==
    Edit([builder EXCEPT !.sections[DynamicSection].data = entries], changed)

Entry(tag, val) == [tag |-> tag, val |-> val, num |-> 0]

RunpathTags == {"RPATH", "RUNPATH"}
Tagged(tags) == {k \in DOMAIN Dynamic : Dynamic[k].tag \in tags}

AddDynamicDebug ==
    /\ HasDynamic
    /\ IF Tagged({"DEBUG"}) # {} THEN EditDynamic(Dynamic, FALSE)
       ELSE EditDynamic(Append(Dynamic, Entry("DEBUG", <<>>)), TRUE)

DeleteRunpath ==
    /\ HasDynamic
    /\ EditDynamic(SelectSeq(Dynamic, LAMBDA d : d.tag \notin RunpathTags),
                   Tagged(RunpathTags) # {})

(* set_soname, set_runpath and add_runpath: each entry with one of the     *)
(* tags gets the new value, or has it added to its old one, and if there   *)
(* is none, one is added.                                                  *)
SetStrings(tags, tag, new, add) ==
    /\ HasDynamic
    /\ EditDynamic(
           IF Tagged(tags) = {} THEN Append(Dynamic, Entry(tag, new))
           ELSE [k \in DOMAIN Dynamic |->
                    IF k \in Tagged(tags)
                    THEN [Dynamic[k] EXCEPT !.val = IF add THEN @ \o new ELSE new]
                    ELSE Dynamic[k]],
           TRUE)

SetRunpath == \E path \in Paths : SetStrings(RunpathTags, "RUNPATH", path, FALSE)

AddRunpath == \E path \in Paths : SetStrings(RunpathTags, "RUNPATH", path, TRUE)

SetSoname == \E name \in Libraries : SetStrings({"SONAME"}, "SONAME", name, FALSE)

(* use_runpath and use_rpath.                                              *)
UseTag == \E old, new \in RunpathTags :
    /\ HasDynamic /\ old # new
    /\ EditDynamic([k \in DOMAIN Dynamic |->
                       IF k \in Tagged({old}) THEN [Dynamic[k] EXCEPT !.tag = new]
                       ELSE Dynamic[k]],
                   Tagged({old}) # {})

Needing(name) == {k \in Tagged({"NEEDED"}) : Dynamic[k].val = name}

DeleteNeeded == \E name \in Libraries :
    /\ HasDynamic
    /\ EditDynamic(SelectSeq(Dynamic, LAMBDA d : d.tag # "NEEDED" \/ d.val # name),
                   Needing(name) # {})

ReplaceNeeded == \E old, new \in Libraries :
    /\ HasDynamic /\ old # new
    /\ EditDynamic([k \in DOMAIN Dynamic |->
                       IF k \in Needing(old) THEN Entry("NEEDED", new) ELSE Dynamic[k]],
                   Needing(old) # {})

AddNeeded == \E name \in Libraries :
    /\ HasDynamic
    /\ IF Needing(name) # {} THEN EditDynamic(Dynamic, FALSE)
       ELSE EditDynamic(<<Entry("NEEDED", name)>> \o Dynamic, TRUE)

(* The path gets a terminator.                                             *)
SetInterpreter == \E path \in Interpreters :
    LET i == SectionOfSegment(builder, "INTERP") IN
    /\ i # 0 /\ builder.sections[i].kind = "progbits"
    /\ Edit([builder EXCEPT !.sections[i].data = path,
                            !.sections[i].len = NameLen(path) + 1], TRUE)

-------------------------------------------------------------------------------
(* Moving sections *)

(* The start of move_sections.                                             *)
Prepare(b) == SetSectionSizes(DeleteUnusedVersions(DeleteOrphans(b)))

Finalize ==
    /\ phase = "edit"
    /\ IF modified THEN builder' = Prepare(builder) /\ phase' = "move"
       ELSE UNCHANGED builder /\ phase' = "write"
    /\ UNCHANGED <<modified, edits, added, err, file, edited>>

(* Higher means better to move; 0 means never move.                        *)
MovePriority(b, i) ==
    CASE b.sections[i].kind = "progbits" ->
             IF i = SectionOfSegment(b, "INTERP") THEN 1 ELSE 0
      [] b.sections[i].kind \in {"nobits", "dynamic", "dynrel"} -> 0
      [] OTHER -> 2

AllocSections(b) == SelectSeq(Live(b.sections), LAMBDA i : b.sections[i].alloc)

Block(section, address, size, priority) ==
    [section |-> section, address |-> address, size |-> size, priority |-> priority]

(* What is in memory: the headers, zero-sized blocks at both ends of each  *)
(* segment, and sections, but for those that are flagged for moving and    *)
(* uninitialized thread-local ones.                                        *)
Collected(b, n) ==
    LET loaded(offset, size) ==
            LET k == LoadSegmentAt(b, offset) IN
            IF k = 0 THEN <<>>
            ELSE <<Block(0, b.segments[k].vaddr + offset - b.segments[k].offset, size, 0)>>
        ends(k) == LET g == b.segments[k] IN
                   <<Block(0, g.vaddr, 0, 0), Block(0, g.vaddr + g.memsz, 0, 0)>>
        loads == SelectSeq(Live(b.segments), LAMBDA k : b.segments[k].type = "LOAD")
        section(i) == LET s == b.sections[i] IN Block(i, s.addr, s.size, MovePriority(b, i))
        fixed == SelectSeq(AllocSections(b), LAMBDA i :
            /\ b.sections[i].offset # 0
            /\ ~(b.sections[i].kind = "nobits" /\ b.sections[i].tls))
    IN  loaded(0, EhdrSize)
            \o loaded(b.phoff, ProgramHeadersSize(b) + n * PhdrSize)
            \o FlattenSeq([j \in DOMAIN loads |-> ends(loads[j])])
            \o [j \in DOMAIN fixed |-> section(fixed[j])]

(* In the order of addresses and sizes; the sort is stable.                *)
InOrder(all) ==
    LET before(j, k) ==
            \/ all[j].address < all[k].address
            \/ all[j].address = all[k].address /\ all[j].size < all[k].size
            \/ all[j].address = all[k].address /\ all[j].size = all[k].size /\ j < k
        order == SortSeq([j \in DOMAIN all |-> j], before)
    IN  <<>> \o [j \in DOMAIN order |-> all[order[j]]]

Blocks(b, n) == InOrder(Collected(b, n))

(* A block and the one kept before it: if they overlap, the one that is    *)
(* better to move goes, preferably the earlier.                            *)
Against(out, block) ==
    LET p == out.last IN
    IF p.address + p.size <= block.address THEN [out EXCEPT !.last = block]
    ELSE IF p.priority >= block.priority
         THEN IF p.priority = 0 THEN [out EXCEPT !.overlap = TRUE]
              ELSE [out EXCEPT !.move = Append(@, p.section), !.last = block]
         ELSE [out EXCEPT !.move = Append(@, block.section)]

(* find_move_sections, with n segments to be added.                        *)
FindMoveSections(b, n) ==
    FoldLeft(LAMBDA out, block : IF out.overlap THEN out ELSE Against(out, block),
             [move |-> SelectSeq(AllocSections(b), LAMBDA i : b.sections[i].offset = 0),
              last |-> Block(0, 0, 0, 0), overlap |-> FALSE],
             Blocks(b, n))

(* Moved sections get an offset later.                                     *)
Flag(b, move) ==
    [b EXCEPT !.sections = <<>> \o [i \in DOMAIN @ |->
        IF i \in SetOf(move) THEN [@[i] EXCEPT !.offset = 0] ELSE @[i]]]

(* The distinct flags of the sections, each of which needs a segment.      *)
FlagsOf(b, move) ==
    FoldLeft(LAMBDA flags, i :
                 IF b.sections[i].flags \in SetOf(flags) THEN flags
                 ELSE Append(flags, b.sections[i].flags),
             <<>>, move)

(* The segments, but for PT_LOAD, with a section that moves, and those     *)
(* that have to be split.                                                  *)
Touched(b, move) ==
    SelectSeq(Live(b.segments), LAMBDA k :
        /\ b.segments[k].type # "LOAD"
        /\ SetOf(b.segments[k].sections) \cap SetOf(move) # {})
Split(b, move) ==
    SelectSeq(Touched(b, move), LAMBDA k :
        ~(SetOf(b.segments[k].sections) \subseteq SetOf(move)))

Needed(b, move) == Len(Split(b, move)) + Len(FlagsOf(b, move))

(* The sections in the order of the addresses they had, appended to a new  *)
(* segment for each kind of flags.                                         *)
PlaceSections(b, move) ==
    LET order == SortSeq(move, LAMBDA i, j :
            LET s == b.sections[i] t == b.sections[j] IN
            \/ s.addr < t.addr
            \/ s.addr = t.addr /\ s.size < t.size
            \/ s.addr = t.addr /\ s.size = t.size /\ i < j)
        place(c, flags) ==
            FoldLeft(LAMBDA d, i : AppendSection(d, Len(d.segments), i),
                     AddLoadSegment(c, flags, c.loadAlign),
                     SelectSeq(order, LAMBDA i : b.sections[i].flags = flags))
    IN  FoldLeft(place, b, FlagsOf(b, move))

(* Segments whose sections all moved move along; those that are split keep *)
(* what stays, and a copy gets what moved.                                 *)
FollowSections(b, move) ==
    LET stays(g) ==
            IF SetOf(g.sections) \subseteq SetOf(move) THEN g
            ELSE [g EXCEPT !.sections = SelectSeq(@, LAMBDA i : i \notin SetOf(move))]
        moved == [b EXCEPT !.segments = <<>> \o [k \in DOMAIN @ |->
            IF k \in SetOf(Touched(b, move)) THEN RecalculateRanges(b, stays(@[k]))
            ELSE @[k]]]
        copy(c, k) ==
            FoldLeft(LAMBDA d, i : AppendSection(d, Len(d.segments), i),
                     CopySegment(c, k),
                     SelectSeq(b.segments[k].sections, LAMBDA i : i \in SetOf(move)))
    IN  FoldLeft(copy, moved, Split(b, move))

CoverProgramHeaders(b) ==
    LET size == ProgramHeadersSize(b) IN
    [b EXCEPT !.segments = Mapped(@, LAMBDA g :
        IF g.type # "PHDR" \/ g.delete THEN g
        ELSE [g EXCEPT !.filesz = size, !.memsz = size])]

Move(b, move) == CoverProgramHeaders(FollowSections(PlaceSections(b, move), move))

Fail(e) == phase' = "failed" /\ err' = e /\ UNCHANGED <<builder, added>>

(* Mutant: the number of segments is not raised for split segments.        *)
Bug_Enough(b, move) == added >= Len(FlagsOf(b, move))

(* The fixed point.                                                        *)
Enough(b, move) == added >= Needed(b, move)

(* A round of the loop of move_sections, by what find_move_sections found. *)
Round(found) ==
    LET flagged == Flag(builder, found.move) IN
    \/ found.overlap /\ Fail("overlap")
    \/ /\ ~found.overlap /\ found.move = <<>>
       /\ phase' = "write" /\ UNCHANGED <<builder, added, err>>
    \/ /\ ~found.overlap /\ found.move # <<>> /\ ~Enough(flagged, found.move)
       /\ added' = Needed(flagged, found.move) /\ builder' = flagged
       /\ UNCHANGED <<phase, err>>
    \/ /\ ~found.overlap /\ found.move # <<>> /\ Enough(flagged, found.move)
       /\ builder' = Move(flagged, found.move) /\ phase' = "write"
       /\ UNCHANGED <<added, err>>

MoveRound ==
    /\ phase = "move"
    /\ Round(FindMoveSections(builder, added))
    /\ UNCHANGED <<modified, edits, file, edited>>

(* Builder::write, which deletes orphans itself: b is what is left.        *)
WriteOrFail(b, error) ==
    IF error # "none" THEN Fail(error) /\ UNCHANGED file
    ELSE /\ file' = Written(b) /\ phase' = "done" /\ builder' = b
         /\ UNCHANGED <<added, err>>

WriteBuilder(b) == WriteOrFail(b, WriteError(b))

Write ==
    /\ phase = "write"
    /\ WriteBuilder(DeleteUnusedVersions(DeleteOrphans(builder)))
    /\ UNCHANGED <<modified, edits, edited>>

Ended == phase \in {"done", "failed"} /\ UNCHANGED vars

Next ==
    \/ DeleteSymbols \/ RenameSymbols \/ DeleteSections \/ RenameSections
    \/ AddDynamicDebug \/ DeleteRunpath \/ SetRunpath \/ AddRunpath \/ UseTag
    \/ SetSoname \/ DeleteNeeded \/ ReplaceNeeded \/ AddNeeded \/ SetInterpreter
    \/ Finalize \/ MoveRound \/ Write \/ Ended

(* Once the client has called write, the rewriter runs on its own.  This   *)
(* is WF_vars(MoveRound \/ Write), where what enables these actions is     *)
(* spelled out: their phase, for both have an outcome in any state of it.  *)
Running == phase \in {"move", "write"}

Fairness == []<>(~Running) \/ []<><<Running>>_vars

Spec == Init /\ [][Next]_vars /\ Fairness

-------------------------------------------------------------------------------
(* Properties *)

(* What a file is about, by names: what is kept of its sections, where     *)
(* those are that may be referred to by address, and what its symbols,     *)
(* relocations and dynamic entries refer to.                               *)
Meaning(b) ==
    LET name(i) == IF i = 0 THEN <<>> ELSE b.sections[i].name
        kept(y) == ~y.delete /\ (y.section = 0 \/ IsLive(b.sections, y.section))
        version(y) ==
            IF ~Has(b, "versym") \/ y.version <= 1
            THEN <<"none", <<>>, IF Has(b, "versym") THEN y.version ELSE 0>>
            ELSE LET v == b.versions[y.version - 1] IN
                 <<v.kind, IF v.kind = "need" THEN b.files[v.file].name ELSE <<>>, v.names>>
        symbol(y) == <<y.name, name(y.section), y.local, y.undef, version(y)>>
        symbols(table) == {symbol(table[i]) : i \in {i \in DOMAIN table : kept(table[i])}}
        against(table, rels) ==
            LET here == SelectSeq(rels, LAMBDA y : y = 0 \/ kept(table[y])) IN
            [k \in DOMAIN here |-> IF here[k] = 0 THEN <<>> ELSE symbol(table[here[k]])]
        entries(ds) ==
            LET here == SelectSeq(ds, LAMBDA d : d.tag \in AutoTags => Has(b, About(d.tag))) IN
            [k \in DOMAIN here |-> <<here[k].tag, here[k].val>>]
        contents(s) ==
            CASE s.kind = "rel" -> against(b.symbols, s.data)
              [] s.kind = "dynrel" -> against(b.dynsyms, s.data)
              [] s.kind = "dynamic" -> entries(s.data)
              [] s.kind = "attributes" ->
                    <<{name(i) : i \in {i \in SetOf(s.data.sections) : IsLive(b.sections, i)}},
                      {symbol(b.symbols[i]) : i \in {i \in SetOf(s.data.symbols) :
                                                          kept(b.symbols[i])}}>>
              [] s.kind \in {"progbits", "note", "nobits"} -> <<s.len, s.data>>
              [] OTHER -> <<>>
        section(i) == [name |-> name(i), kind |-> b.sections[i].kind,
                       flags |-> b.sections[i].flags,
                       links |-> <<name(b.sections[i].link), name(b.sections[i].info)>>,
                       addr |-> IF MovePriority(b, i) = 0 THEN b.sections[i].addr ELSE 0,
                       contents |-> contents(b.sections[i])]
        secs == Live(b.sections)
    IN  [sections |-> [k \in DOMAIN secs |-> section(secs[k])],
         symbols |-> symbols(b.symbols), dynsyms |-> symbols(b.dynsyms),
         segments |-> UNION {{<<b.segments[k].type, name(i)>> :
                                 i \in {i \in SetOf(b.segments[k].sections) :
                                            IsLive(b.sections, i)}} :
                          k \in {k \in SetOf(Live(b.segments)) : b.segments[k].type # "LOAD"}}]

(* Dynamic entries about a table say where it is and how much it holds.    *)
EntriesRight(f, b) ==
    LET table(kind) == b.sections[Head(SectionsOf(b, kind))]
    IN  \A i \in SetOf(SectionsOf(b, "dynamic")) : \A k \in DOMAIN b.sections[i].data :
            LET d == b.sections[i].data[k] IN
            d.tag \in AutoTags =>
                CASE d.tag = "STRSZ" -> d.num = table("dynstr").size
                  [] d.tag = "VERDEFNUM" -> d.num = Len(f.verdefs)
                  [] d.tag = "VERNEEDNUM" -> d.num = Len(f.verneeds)
                  [] OTHER -> d.num = table(About(d.tag)).addr

(* A file that is written reads back with the meaning that the client gave *)
(* it: of what was deleted, and of what refers to that, nothing is left,   *)
(* and the rest refers to what it referred to, though every index and many *)
(* addresses changed.  The loader finds tables through dynamic entries,    *)
(* and symbols through .gnu.hash.                                          *)
ReadsBack ==
    phase = "done" =>
        /\ Readable(file)
        /\ Meaning(Read(file)) = Meaning(edited)
        /\ EntriesRight(file, Read(file))
        /\ Has(builder, "gnuhash") =>
               \A k \in DOMAIN file.dynsyms :
                   LET y == file.dynsyms[k] IN
                   ~y.local /\ Hashed(y) => GnuHashFinds(file, y.name)

Apart(a, n, c, m) == a + n <= c \/ c + m <= a \/ n = 0 \/ m = 0

(* A changed file that has segments loads: every allocated section is in   *)
(* one PT_LOAD, in memory and in the file alike; no two sections, nor a    *)
(* section and the headers, take the same memory; segments are apart, and  *)
(* can be mapped.                                                          *)
LoadsApart ==
    phase = "done" /\ modified /\ file.segments # <<>> =>
        LET loads == {file.segments[k] : k \in {k \in DOMAIN file.segments :
                                                    file.segments[k].type = "LOAD"}}
            inMemory == {i \in DOMAIN file.sections :
                /\ file.sections[i].alloc
                /\ ~(file.sections[i].kind = "nobits" /\ file.sections[i].tls)}
            backed(g, s) ==
                /\ s.addr >= g.vaddr /\ s.addr + s.size <= g.vaddr + g.memsz
                /\ s.kind # "nobits" => /\ s.offset - g.offset = s.addr - g.vaddr
                                        /\ s.offset + s.size <= g.offset + g.filesz
            headers == file.phoff + Len(file.segments) * PhdrSize
        IN  /\ \A i \in inMemory : \E g \in loads : backed(g, file.sections[i])
            /\ \A i, j \in inMemory : i # j =>
                   Apart(file.sections[i].addr, file.sections[i].size,
                         file.sections[j].addr, file.sections[j].size)
            /\ \A g \in loads : g.offset = 0 =>
                   \A i \in inMemory : Apart(g.vaddr, headers, file.sections[i].addr,
                                            file.sections[i].size)
            /\ \A g, h \in loads : g # h => Apart(g.vaddr, g.memsz, h.vaddr, h.memsz)
            /\ \A g \in loads : g.offset % g.align = g.vaddr % g.align

Overlap(all) ==
    \E j, k \in DOMAIN all : j < k /\ all[j].address + all[j].size > all[k].address

(* Why the rewriter may refuse: two things that cannot be moved are in     *)
(* each other's way; the client deleted a section that is needed; or no    *)
(* version is left in a table of versions, which is then not written.      *)
Excused ==
    \/ /\ err = "overlap"
       /\ Overlap(SelectSeq(Blocks(builder, added), LAMBDA p : p.priority = 0))
    \/ /\ err \in {"missing table", "deleted link"}
       /\ \E i \in DOMAIN builder.sections : builder.sections[i].delete
    \/ /\ err = "unaligned"
       /\ \E i \in SetOf(Live(builder.sections)) :
              Empty(DeleteUnusedVersions(builder), builder.sections[i])

(* A client's call of write ends: the number of segments to add, which     *)
(* itself may push away more sections, settles, and what the rewriter laid *)
(* out is what the builder's own offset checks accept.                     *)
Finishes == (phase = "move") ~> (phase = "done" \/ (phase = "failed" /\ Excused))

(* The segment of the interpreter holds its whole path.                    *)
InterpreterCovered ==
    phase = "done" =>
        \A k \in DOMAIN file.segments : file.segments[k].type = "INTERP" =>
            LET g == file.segments[k] IN
            \A i \in DOMAIN file.sections :
                ContainsAddress(g, file.sections[i].addr) /\ file.sections[i].alloc =>
                    file.sections[i].offset + file.sections[i].size <= g.offset + g.filesz
=============================================================================
