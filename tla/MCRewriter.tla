----------------------------- MODULE MCRewriter -----------------------------
(***************************************************************************)
(* Files for Rewriter: a dynamic library, laid out the way linkers do, and *)
(* an object file.                                                         *)
(***************************************************************************)
EXTENDS Rewriter

MCLengths ==
    [c \in {"f", "g"} |-> 1] @@ [c \in {"h", "ld"} |-> 2] @@ [c \in {"m", "libc"} |-> 4]
    @@ [c \in {"a library", "a long path"} |-> 40] @@ [c \in {"libm", "V1", "V2"} |-> 5]
    @@ [c \in {"GLIBC", "GLIBC_ABI_DT_RELR"} |-> 9]

Page == 4096

Section(name, kind, flags, size) ==
    [name |-> <<name>>, kind |-> kind, alloc |-> flags # "none", flags |-> flags,
     tls |-> FALSE, addr |-> 0, offset |-> 0, size |-> size,
     align |-> IF kind \in {"progbits", "note"} THEN 4 ELSE 1,
     link |-> 0, info |-> 0, data |-> <<>>]

Symbol(name, section, local) ==
    [name |-> <<name>>, section |-> section, local |-> local, undef |-> section = 0]

DynamicEntry(tag, val) == [tag |-> tag, val |-> val, num |-> 0]

----------------------------------------------------------------------------
(* Sections in their order; what follows .dynamic leaves room for an entry. *)
LibrarySections ==
    << [Section(".interp", "progbits", "R", 3) EXCEPT !.data = <<"ld">>, !.align = 1],
       Section(".note.a", "note", "R", 92),
       Section(".note.b", "note", "R", 24),
       [Section(".gnu.hash", "gnuhash", "R", 0) EXCEPT !.link = 5],
       [Section(".dynsym", "dynsym", "R", 0) EXCEPT !.link = 6],
       Section(".dynstr", "strtab", "R", 0),
       [Section(".gnu.version", "versym", "R", 0) EXCEPT !.link = 5],
       [Section(".gnu.version_d", "verdef", "R", 0) EXCEPT !.link = 6],
       [Section(".gnu.version_r", "verneed", "R", 0) EXCEPT !.link = 6],
       [Section(".hash", "hash", "R", 0) EXCEPT !.link = 5],
       [Section(".rela.dyn", "rela", "R", 0) EXCEPT !.link = 5, !.data = <<1, 0, 3>>],
       Section(".text", "progbits", "R", 64),
       [Section(".tdata", "progbits", "RW", 8) EXCEPT !.tls = TRUE],
       [Section(".tbss", "nobits", "RW", 16) EXCEPT !.tls = TRUE],
       Section(".init_array", "progbits", "RW", 8),
       [Section(".dynamic", "dynamic", "RW", 0) EXCEPT !.link = 6, !.data =
           << DynamicEntry("NEEDED", <<"libc">>), DynamicEntry("RPATH", <<"ld">>),
              DynamicEntry("GNU_HASH", <<>>), DynamicEntry("SYMTAB", <<>>), DynamicEntry("STRTAB", <<>>),
              DynamicEntry("STRSZ", <<>>), DynamicEntry("VERSYM", <<>>), DynamicEntry("VERDEF", <<>>),
              DynamicEntry("VERDEFNUM", <<>>), DynamicEntry("VERNEED", <<>>),
              DynamicEntry("VERNEEDNUM", <<>>), DynamicEntry("HASH", <<>>) >>],
       Section(".data", "progbits", "RW", 16),
       Section(".bss", "nobits", "RW", 32),
       [Section(".attributes", "attributes", "none", 0) EXCEPT !.data =
           [sections |-> <<13, 12>>, symbols |-> <<1, 2>>]],
       [Section(".symtab", "symtab", "none", 0) EXCEPT !.link = 21],
       Section(".strtab", "strtab", "none", 0),
       Section(".shstrtab", "strtab", "none", 0) >>

Segment(type, flags, offset, vaddr, filesz, memsz, align) ==
    [type |-> type, flags |-> flags, offset |-> offset, vaddr |-> vaddr,
     filesz |-> filesz, memsz |-> memsz, align |-> align]

(* Whether a version is needed that no symbol has, for DT_RELR.             *)
Unplaced(relr) ==
    [phoff |-> EhdrSize, shstrndx |-> 22, segments |-> <<>>,
     sections |-> LibrarySections,
     symbols |-> <<Symbol("f", 12, TRUE), Symbol("g", 13, FALSE), Symbol("m", 0, FALSE)>>,
     dynsyms |-> <<Symbol("m", 0, FALSE), Symbol("f", 0, FALSE), Symbol("g", 12, FALSE),
                   Symbol("h", 17, FALSE)>>,
     versyms |-> <<6, 2, 3, 1>>,
     verdefs |-> <<[base |-> TRUE, index |-> 1, names |-> <<<<"libm">>>>],
                   [base |-> FALSE, index |-> 3, names |-> <<<<"V2">>, <<"V1">>>>]>>,
     verneeds |-> <<[file |-> <<"libc">>, auxs |-> <<[index |-> 2, name |-> <<"GLIBC">>]>>
                       \o (IF relr THEN <<[index |-> 4, name |-> Relr]>> ELSE <<>>)],
                    [file |-> <<"libm">>, auxs |-> <<[index |-> 6, name |-> <<"GLIBC">>]>>]>>,
     hashBuckets |-> 2, blooms |-> 1, buckets |-> 2]

(* Where a linker puts a section behind those placed so far; it leaves     *)
(* some room behind .interp.                                               *)
Put(acc, s, size, room) ==
    LET off == AlignUp(acc.offset, 8)
        addr == IF s.flags # acc.flags THEN AlignUp(acc.addr, Page) + (off % Page)
                ELSE AlignUp(acc.addr, 8)
        gap == CASE s.name = <<".interp">> -> room
                 [] s.kind = "dynamic" -> DynSize
                 [] OTHER -> 0
        zero == s.kind = "nobits"
    IN  [offset |-> IF zero THEN off ELSE off + size + gap,
         addr |-> CASE ~zero -> addr + size + gap
                    [] zero /\ s.tls -> addr
                    [] zero /\ ~s.tls -> addr + size,
         flags |-> s.flags,
         out |-> Append(acc.out, [offset |-> off, addr |-> addr, size |-> size])]

(* The allocated sections of a builder are placed behind six headers.      *)
PlacedIn(b, room) ==
    LET start == EhdrSize + 6 * PhdrSize IN
    FoldLeft(LAMBDA acc, s : Put(acc, s, SectionSize(b, s), room),
             [offset |-> start, addr |-> start, flags |-> "R", out |-> <<>>],
             SelectSeq(b.sections, LAMBDA s : s.alloc)).out

PlacedAt(at) ==
    [i \in DOMAIN LibrarySections |->
        IF i \in DOMAIN at
        THEN [LibrarySections[i] EXCEPT !.offset = at[i].offset, !.addr = at[i].addr,
                                        !.size = at[i].size]
        ELSE LibrarySections[i]]

WithSections(f, s) ==
    LET end(i) == s[i].addr + s[i].size
        over(type, i, j) == Segment(type, s[i].flags, s[i].offset, s[i].addr,
                                    end(j) - s[i].addr, end(j) - s[i].addr, 8)
    IN  [f EXCEPT !.sections = s, !.segments =
            << Segment("PHDR", "R", EhdrSize, EhdrSize, 6 * PhdrSize, 6 * PhdrSize, 8),
               over("INTERP", 1, 1),
               Segment("LOAD", "R", 0, 0, end(12), end(12), Page),
               Segment("LOAD", "RW", s[13].offset, s[13].addr, end(17) - s[13].addr,
                       end(18) - s[13].addr, Page),
               over("DYNAMIC", 16, 16),
               over("NOTE", 2, 3) >>]

Library(relr, room) ==
    WithSections(Unplaced(relr), PlacedAt(PlacedIn(Read(Unplaced(relr)), room)))

----------------------------------------------------------------------------
ObjectFile ==
    [Unplaced(FALSE) EXCEPT !.phoff = 0, !.shstrndx = 5,
     !.sections =
        << [Section(".text", "progbits", "R", 64) EXCEPT !.offset = EhdrSize],
           [Section(".rela.text", "rela", "none", 0) EXCEPT
               !.link = 3, !.info = 1, !.data = <<3, 1, 2>>],
           [Section(".symtab", "symtab", "none", 0) EXCEPT !.link = 4],
           Section(".strtab", "strtab", "none", 0),
           Section(".shstrtab", "strtab", "none", 0) >>,
     !.symbols = <<Symbol("f", 1, TRUE), Symbol("g", 1, FALSE), Symbol("m", 0, FALSE)>>,
     !.dynsyms = <<>>, !.versyms = <<>>, !.verdefs = <<>>, !.verneeds = <<>>]

MCFiles == {Library(TRUE, 0), Library(TRUE, 8), Library(FALSE, 64), ObjectFile}
MCRoomy == {Library(TRUE, 64)}

MCSymbolNames == {<<"f">>, <<"g">>, <<"m">>}
MCRenames == {[old |-> <<"f">>, new |-> <<"h">>], [old |-> <<"g">>, new |-> <<"a library">>]}
MCSectionNames == {<<".note.a">>, <<".gnu.version_r">>, <<".gnu.version">>, <<".tdata">>,
                   <<".gnu.hash">>, <<".symtab">>, <<".text">>}
MCSectionRenames == {[old |-> <<".data">>, new |-> <<".note.b">>]}
MCLibraries == {<<"libc">>, <<"a library">>}
MCPaths == {<<"ld">>, <<"a long path">>}
MCInterpreters == {<<"ld">>, <<"a long path">>}
None == {}
=============================================================================
