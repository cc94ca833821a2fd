--------------------------- MODULE ElfObjectWrite ---------------------------
(***************************************************************************)
(* Object::elf_write of write/elf/object.rs: the client of the two-phase   *)
(* Writer that turns an object into a relocatable file.  It works in terms *)
(* of the object's own section and symbol ids, and what it passes to the   *)
(* writer are the indices and offsets the writer returned: locals come     *)
(* before globals, and comdat groups, relocation sections and tables take  *)
(* section indices in between, so no id is an index.                       *)
(*                                                                         *)
(* The calls it makes follow from the object, until one that can fail      *)
(* returns an error.  Each call is a step of the Writer; that the Writer   *)
(* accepts it is the absence of deadlock.                                  *)
(*                                                                         *)
(* Sections without data in the file have empty data here, and symbols     *)
(* that are absolute, common or a file are like undefined ones: they have  *)
(* no section.                                                             *)
(***************************************************************************)
EXTENDS ElfWriter, SequencesExt

CONSTANTS
    MaxComdats,    \* bound on the comdat groups of the object
    MaxMembers,    \* bound on the members of a comdat group
    MaxSections,   \* bound on its sections
    MaxRelocs,     \* bound on the relocations of a section
    Sizes          \* the sizes of its sections

(* A client reserves as many bytes and entries as its object has.          *)
ASSUME ObjectAssumption ==
    /\ MaxComdats \in Nat /\ MaxMembers \in Nat
    /\ MaxSections \in Nat /\ MaxRelocs \in Nat
    /\ Sizes \cup 0..MaxMembers \cup 0..MaxRelocs \subseteq Counts

VARIABLES
    obj,           \* the object
    todo,          \* the calls that remain to be made
    failed,        \* a call has returned an error
    comdatBlock,   \* comdat_offsets: the range of each group
    secIndex,      \* section_offsets: the index of each section,
    secBlock,      \*   the range of its data
    relBlock,      \*   and of its relocations, if it has any
    symIndex,      \* symbol_offsets: the index of each symbol
    numLocal,      \* symtab_num_local
    groups,        \* history: the entries written of each group
    rels,          \* history: the r_sym fields written for each section
    order,         \* history: the symbols in the order they were written
    heads          \* history: the headers, as they were passed to the writer

offsetVars == <<comdatBlock, secIndex, secBlock, relBlock, symIndex, numLocal>>
outputVars == <<groups, rels, order, heads>>
objectVars == <<obj, failed>>
objVars == <<objectVars, todo, offsetVars, outputVars, vars>>

-------------------------------------------------------------------------------
(* The object *)

Seqs(S, n) == UNION {[1..m -> S] : m \in 0..n}

(* Objects with g comdat groups, n sections and m symbols.                 *)
Objects(g, n, m) ==
    [comdats  : [1..g -> [signature : 1..m, members : Seqs(1..n, MaxMembers)]],
     sections : [1..n -> [size : Sizes, align : Aligns,
                          relocs : Seqs(1..m, MaxRelocs)]],
     symbols  : [1..m -> [local : BOOLEAN, section : 0..n]]]

HasRelocs(i) == obj.sections[i].relocs # <<>>

(* Mutant: a symbol's section id is taken for an index.                    *)
Bug_SectionOf(y) == obj.symbols[y].section

(* The section index of a symbol, 0 for none.                              *)
SectionOf(y) ==
    IF obj.symbols[y].section = 0 THEN 0 ELSE secIndex[obj.symbols[y].section]

-------------------------------------------------------------------------------
(* The calls, in the order of the code *)

Call(f, i, k) == [call |-> f, i |-> i, k |-> k]

Once(fs) == [n \in DOMAIN fs |-> Call(fs[n], 0, 0)]

(* The calls F(i) of every element, one after the other.                   *)
ForEach(s, F(_)) == FlattenSeq([i \in DOMAIN s |-> F(i)])

SymbolCalls(o, f, local) ==
    ForEach(o.symbols, LAMBDA y : IF o.symbols[y].local = local
                                  THEN <<Call(f, y, 0)>> ELSE <<>>)

RelocCalls(o, i, calls) == IF o.sections[i].relocs = <<>> THEN <<>> ELSE calls

ReserveCalls(o) ==
    Once(<<"file_header">>)
    \o ForEach(o.comdats, LAMBDA i :
           <<Call("comdat_index", i, 0), Call("comdat", i, 0)>>)
    \o ForEach(o.sections, LAMBDA i :
           <<Call("section_index", i, 0), Call("data", i, 0)>>
           \o RelocCalls(o, i, <<Call("reloc_index", i, 0)>>))
    \o Once(<<"null_symbol">>)
    \o SymbolCalls(o, "symbol", TRUE)
    \o Once(<<"num_local">>)
    \o SymbolCalls(o, "symbol", FALSE)
    \o ForEach(o.symbols, LAMBDA y : <<Call("string", y, 0)>>)
    \o Once(<<"symtab_index", "symtab", "symtab_shndx_index", "symtab_shndx",
              "strtab_index", "strtab">>)
    \o ForEach(o.sections, LAMBDA i :
           RelocCalls(o, i, <<Call("relocations", i, 0)>>))
    \o Once(<<"shstrtab_index", "shstrtab", "section_headers">>)

WriteCalls(o) ==
    Once(<<"write_file_header">>)
    \o ForEach(o.comdats, LAMBDA i :
           <<Call("write_comdat", i, 0)>>
           \o ForEach(o.comdats[i].members, LAMBDA k :
                  <<Call("write_comdat_entry", i, k)>>))
    \o ForEach(o.sections, LAMBDA i : <<Call("write_data", i, 0)>>)
    \o Once(<<"write_null_symbol">>)
    \o SymbolCalls(o, "write_symbol", TRUE)
    \o SymbolCalls(o, "write_symbol", FALSE)
    \o Once(<<"write_symtab_shndx", "write_strtab">>)
    \o ForEach(o.sections, LAMBDA i : RelocCalls(o, i,
           <<Call("write_align_relocation", i, 0)>>
           \o ForEach(o.sections[i].relocs, LAMBDA k :
                  <<Call("write_relocation", i, k)>>)))
    \o Once(<<"write_shstrtab">>)

(* Mutant: the relocation headers are written after all the sections'.     *)
Bug_HeaderCalls(o) ==
    Once(<<"write_null_header">>)
    \o ForEach(o.comdats, LAMBDA i : <<Call("write_comdat_header", i, 0)>>)
    \o ForEach(o.sections, LAMBDA i : <<Call("write_section_header", i, 0)>>)
    \o ForEach(o.sections, LAMBDA i :
           RelocCalls(o, i, <<Call("write_reloc_header", i, 0)>>))
    \o Once(<<"write_symtab_header", "write_symtab_shndx_header",
              "write_strtab_header", "write_shstrtab_header">>)

HeaderCalls(o) ==
    Once(<<"write_null_header">>)
    \o ForEach(o.comdats, LAMBDA i : <<Call("write_comdat_header", i, 0)>>)
    \o ForEach(o.sections, LAMBDA i :
           <<Call("write_section_header", i, 0)>>
           \o RelocCalls(o, i, <<Call("write_reloc_header", i, 0)>>))
    \o Once(<<"write_symtab_header", "write_symtab_shndx_header",
              "write_strtab_header", "write_shstrtab_header">>)

ObjectInit ==
    /\ Init
    /\ \E g \in 0..MaxComdats, n \in 0..MaxSections, m \in 0..(MaxSymbols - 1) :
           obj \in Objects(g, n, m)
    /\ todo = ReserveCalls(obj) \o WriteCalls(obj) \o HeaderCalls(obj)
    /\ failed = FALSE
    /\ comdatBlock = <<>> /\ secIndex = <<>> /\ secBlock = <<>>
    /\ relBlock = [i \in DOMAIN obj.sections |-> 0]
    /\ symIndex = [y \in DOMAIN obj.symbols |-> 0]
    /\ numLocal = 0
    /\ groups = [i \in DOMAIN obj.comdats |-> <<>>]
    /\ rels = [i \in DOMAIN obj.sections |-> <<>>]
    /\ order = <<>> /\ heads = <<>>

Now(f) == todo # <<>> /\ Head(todo).call = f

(* The next call is of f, and it succeeds.                                 *)
Runs(f) == Now(f) /\ todo' = Tail(todo)

I == Head(todo).i
K == Head(todo).k

(* The steps that only advance the writer.                                 *)
Plain == UNCHANGED <<objectVars, offsetVars, outputVars>>

(* The errors, after which nothing more is called: the architecture (asked *)
(* for its relocations first), a comdat kind, the file header, and the     *)
(* flags of a symbol, a relocation or a section.                           *)
Fail ==
    /\ \E f \in {"file_header", "comdat_index", "write_file_header", "write_symbol",
                 "write_relocation", "write_section_header"} : Now(f)
    /\ failed' = TRUE /\ todo' = <<>>
    /\ UNCHANGED <<obj, offsetVars, outputVars, vars>>

-------------------------------------------------------------------------------
(* The first phase *)

FileHeader == Runs("file_header") /\ ReserveFileHeader /\ Plain

ComdatIndex ==
    /\ Runs("comdat_index")
    /\ \E d \in NameBytes : ReserveClientIndex("comdat", 0, d)
    /\ Plain

Comdat ==
    /\ Runs("comdat")
    /\ ReserveComdat(Len(obj.comdats[I].members), Len(sections))
    /\ comdatBlock' = Append(comdatBlock, Len(blocks) + 1)
    /\ UNCHANGED <<objectVars, secIndex, secBlock, relBlock, symIndex, numLocal,
                   outputVars>>

SectionIndex ==
    /\ Runs("section_index")
    /\ \E d \in NameBytes : ReserveClientIndex("data", 0, d)
    /\ secIndex' = Append(secIndex, NewSectionIndex)
    /\ UNCHANGED <<objectVars, comdatBlock, secBlock, relBlock, symIndex,
                   numLocal, outputVars>>

Data ==
    /\ Runs("data")
    /\ ReserveData(obj.sections[I].size, obj.sections[I].align, secIndex[I])
    /\ secBlock' = Append(secBlock, Len(blocks) + 1)
    /\ UNCHANGED <<objectVars, comdatBlock, secIndex, relBlock, symIndex,
                   numLocal, outputVars>>

RelocIndex ==
    /\ Runs("reloc_index")
    /\ \E d \in NameBytes : ReserveClientIndex("reloc", 0, d)
    /\ Plain

NullSymbol == Runs("null_symbol") /\ ReserveNullSymbol /\ Plain

Symbol ==
    /\ Runs("symbol")
    /\ ReserveSymbol(SectionOf(I))
    /\ symIndex' = [symIndex EXCEPT ![I] = num["symtab"]]
    /\ UNCHANGED <<objectVars, comdatBlock, secIndex, secBlock, relBlock,
                   numLocal, outputVars>>

(* Mutant: the null symbol is not counted.                                 *)
Bug_SymbolCount == num["symtab"] - 1

(* symbol_count.                                                           *)
SymbolCount == num["symtab"]

NumLocal ==
    /\ Runs("num_local")
    /\ numLocal' = SymbolCount
    /\ UNCHANGED <<objectVars, comdatBlock, secIndex, secBlock, relBlock,
                   symIndex, outputVars, vars>>

String == Runs("string") /\ (\E d \in NameBytes : AddString("strtab", d)) /\ Plain

SymtabIndex ==
    Runs("symtab_index") /\ (\E d \in NameBytes : ReserveSymtabIndex(d)) /\ Plain

Symtab == Runs("symtab") /\ ReserveSymtab /\ Plain

(* symtab_shndx_needed.                                                    *)
ShndxIndex ==
    /\ Runs("symtab_shndx_index")
    /\ IF "symtab_shndx" \in need
       THEN \E d \in NameBytes : ReserveSymtabShndxIndex(d)
       ELSE UNCHANGED vars
    /\ Plain

Shndx ==
    /\ Runs("symtab_shndx")
    /\ IF "symtab_shndx" \in need THEN ReserveSymtabShndx ELSE UNCHANGED vars
    /\ Plain

StrtabIndex ==
    Runs("strtab_index") /\ (\E d \in NameBytes : ReserveStrtabIndex(d)) /\ Plain

Strtab == Runs("strtab") /\ ReserveStrtab /\ Plain

(* The relocation section has the index after its target's.                *)
Relocations ==
    /\ Runs("relocations")
    /\ ReserveRelocations(Len(obj.sections[I].relocs), secIndex[I] + 1)
    /\ relBlock' = [relBlock EXCEPT ![I] = Len(blocks) + 1]
    /\ UNCHANGED <<objectVars, comdatBlock, secIndex, secBlock, symIndex,
                   numLocal, outputVars>>

ShstrtabIndex ==
    Runs("shstrtab_index") /\ (\E d \in NameBytes : ReserveShstrtabIndex(d)) /\ Plain

Shstrtab == Runs("shstrtab") /\ ReserveShstrtab /\ Plain

SectionHeaders == Runs("section_headers") /\ ReserveSectionHeaders /\ Plain

-------------------------------------------------------------------------------
(* The second phase *)

WFileHeader == Runs("write_file_header") /\ WriteFileHeader /\ Plain

WComdat == Runs("write_comdat") /\ WriteComdatHeader /\ Plain

(* Mutant: a member is named by its id.                                    *)
Bug_GroupEntry(s) == s

(* section_offsets[section.0].index.                                       *)
GroupEntry(s) == secIndex[s]

WComdatEntry ==
    /\ Runs("write_comdat_entry") /\ WriteComdatEntry
    /\ groups' = [groups EXCEPT ![I] =
                      Append(@, GroupEntry(obj.comdats[I].members[K]))]
    /\ UNCHANGED <<objectVars, offsetVars, rels, order, heads>>

WData == Runs("write_data") /\ WriteData /\ Plain

WNullSymbol == Runs("write_null_symbol") /\ WriteNullSymbol /\ Plain

WSymbol ==
    /\ Runs("write_symbol") /\ WriteSymbol(SectionOf(I))
    /\ order' = Append(order, I)
    /\ UNCHANGED <<objectVars, offsetVars, groups, rels, heads>>

WShndx ==
    /\ Runs("write_symtab_shndx")
    /\ IF offset["symtab_shndx"] # 0 THEN WriteSymtabShndx ELSE UNCHANGED vars
    /\ Plain

WStrtab == Runs("write_strtab") /\ WriteStrtab /\ Plain

WAlignRelocation ==
    Runs("write_align_relocation") /\ WriteAlignRelocation /\ Plain

(* Mutant: relocations name symbols by their ids.                          *)
Bug_RSym(y) == y

(* symbol_offsets[reloc.symbol.0].index.                                   *)
RSym(y) == symIndex[y]

WRelocation ==
    /\ Runs("write_relocation") /\ WriteRelocation
    /\ rels' = [rels EXCEPT ![I] = Append(@, RSym(obj.sections[I].relocs[K]))]
    /\ UNCHANGED <<objectVars, offsetVars, groups, order, heads>>

WShstrtab == Runs("write_shstrtab") /\ WriteShstrtab /\ Plain

(* A section header for a section of the kind k and its range b, with the  *)
(* sh_info field i.                                                        *)
Header(k, b, i) ==
    /\ WriteSectionHeader([kind |-> k, block |-> b])
    /\ heads' = Append(heads, [kind |-> k, block |-> b, info |-> i])
    /\ UNCHANGED <<objectVars, offsetVars, groups, rels, order>>

WNullHeader ==
    /\ Runs("write_null_header") /\ WriteNullSectionHeader
    /\ heads' = <<[kind |-> "null", block |-> 0, info |-> 0]>>
    /\ UNCHANGED <<objectVars, offsetVars, groups, rels, order>>

WComdatHeader ==
    /\ Runs("write_comdat_header")
    /\ Header("comdat", comdatBlock[I], RSym(obj.comdats[I].signature))

WHeader ==
    Runs("write_section_header") /\ Header("data", secBlock[I], 0)

WRelocHeader ==
    Runs("write_reloc_header") /\ Header("reloc", relBlock[I], secIndex[I])

WSymtabHeader == Runs("write_symtab_header") /\ Header("symtab", 0, numLocal)

(* Written if the section has a name.                                      *)
WShndxHeader ==
    /\ Runs("write_symtab_shndx_header")
    /\ IF index["symtab_shndx"] # 0 THEN Header("symtab_shndx", 0, 0)
       ELSE Plain /\ UNCHANGED vars

WStrtabHeader == Runs("write_strtab_header") /\ Header("strtab", 0, 0)

WShstrtabHeader == Runs("write_shstrtab_header") /\ Header("shstrtab", 0, 0)

-------------------------------------------------------------------------------
ReservePhase ==
    \/ FileHeader \/ ComdatIndex \/ Comdat \/ SectionIndex \/ Data \/ RelocIndex
    \/ NullSymbol \/ Symbol \/ NumLocal \/ String \/ SymtabIndex \/ Symtab
    \/ ShndxIndex \/ Shndx \/ StrtabIndex \/ Strtab \/ Relocations
    \/ ShstrtabIndex \/ Shstrtab \/ SectionHeaders

WritePhase ==
    \/ WFileHeader \/ WComdat \/ WComdatEntry \/ WData \/ WNullSymbol \/ WSymbol
    \/ WShndx \/ WStrtab \/ WAlignRelocation \/ WRelocation \/ WShstrtab
    \/ WNullHeader \/ WComdatHeader \/ WHeader \/ WRelocHeader \/ WSymtabHeader
    \/ WShndxHeader \/ WStrtabHeader \/ WShstrtabHeader

Returned == todo = <<>> /\ UNCHANGED objVars

ObjectNext == ReservePhase \/ WritePhase \/ Fail \/ Returned

ObjectSpec == ObjectInit /\ [][ObjectNext]_objVars

-------------------------------------------------------------------------------
(* Properties *)

Done == todo = <<>> /\ ~failed

(* elf_write goes through the Writer's two phases as the Writer's protocol *)
(* asks: in particular, it writes the symbols with the sections that it    *)
(* reserved them with, and the section headers in the order of their       *)
(* indices.                                                                *)
ObeysWriter == Spec

(* sh_info of .symtab: "one greater than the symbol table index of the     *)
(* last local symbol": the symbols before it are local, the others not.    *)
LocalsFirst ==
    Done => \A h \in DOMAIN heads : heads[h].kind = "symtab" =>
                \A n \in DOMAIN order :
                    obj.symbols[order[n]].local <=> n < heads[h].info

(* A reader finds every symbol in the section it was defined in: the index *)
(* it reads, extended or not, is that of the header of the section's data. *)
SymbolsResolve ==
    Done =>
        /\ Len(order) = Len(obj.symbols)
        /\ \A n \in DOMAIN order :
               LET s == obj.symbols[order[n]].section
                   x == SymbolSection(n + 1)
               IN  IF s = 0 THEN x = 0
                   ELSE /\ x + 1 \in DOMAIN heads /\ heads[x + 1].kind = "data"
                        /\ heads[x + 1].block = secBlock[s]

(* Each section that has relocations has one relocation section: its       *)
(* header names the section's own, and its entries name the symbols that   *)
(* the relocations refer to.                                               *)
RelocationsResolve ==
    Done => \A i \in DOMAIN obj.sections : HasRelocs(i) =>
        /\ \E h \in DOMAIN heads :
            /\ heads[h].kind = "reloc" /\ heads[h].block = relBlock[i]
            /\ heads[heads[h].info + 1].block = secBlock[i]
        /\ Len(rels[i]) = Len(obj.sections[i].relocs)
        /\ \A k \in DOMAIN rels[i] :
            /\ rels[i][k] \in DOMAIN order
            /\ order[rels[i][k]] = obj.sections[i].relocs[k]

(* A comdat group is named by its signature symbol and consists of the     *)
(* sections that are its members.                                          *)
GroupsResolve ==
    Done => \A i \in DOMAIN obj.comdats :
        /\ \E h \in DOMAIN heads :
            /\ heads[h].kind = "comdat" /\ heads[h].block = comdatBlock[i]
            /\ order[heads[h].info] = obj.comdats[i].signature
        /\ Len(groups[i]) = Len(obj.comdats[i].members)
        /\ \A k \in DOMAIN groups[i] :
            /\ groups[i][k] + 1 \in DOMAIN heads
            /\ heads[groups[i][k] + 1].kind = "data"
            /\ heads[groups[i][k] + 1].block = secBlock[obj.comdats[i].members[k]]
===============================================================================
