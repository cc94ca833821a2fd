------------------------------- MODULE Object -------------------------------
(***************************************************************************)
(* The builder write::Object of write/mod.rs, with what it calls in the    *)
(* back ends while an object is built: the stub symbols of COFF            *)
(* (write/coff/object.rs) and the thread-local variables of Mach-O         *)
(* (write/macho.rs).  A client adds sections, data, symbols and            *)
(* relocations in any order; one call may add sections, symbols, data and  *)
(* relocations of its own, and a call that fails may have done part of it. *)
(*                                                                         *)
(* An operation is an operator on the object, a record, so that operations *)
(* can call each other as they do in the code.  Section data is a sequence *)
(* of cells, each as wide as an implicit addend; offsets, sizes and        *)
(* alignments are in cells.  Names are not modelled, but for what makes a  *)
(* section a standard one.                                                 *)
(***************************************************************************)
EXTENDS Integers, Sequences, FiniteSets

CONSTANT Targets  \* what is built, for which format, by which clients

(* StandardSection::all.                                                   *)
AllStandard == {"Text", "Data", "ReadOnlyData", "ReadOnlyDataWithRel",
                "ReadOnlyString", "UninitializedData", "Tls",
                "UninitializedTls", "TlsVariables", "Common", "GnuProperty"}

(* A target fixes, for its format: whether addends are stored at the place *)
(* of the relocation (implicit), what is added to the addend of a          *)
(* pc-relative relocation (pcAdjust), macho_subsections_via_symbols        *)
(* (viaSymbols), the address size (pointer) and whether generic            *)
(* relocations are implemented for the architecture (relocates); and for   *)
(* its clients: the segment, name and kind of the sections they add        *)
(* (infos), the standard sections they ask for (standards), the kinds of   *)
(* their symbols, the data they add, the sizes of what has no data,        *)
(* alignments, addends, the places and kinds of their relocations, and a   *)
(* bound on each sequence that grows.  Only the builder makes sections     *)
(* that are for a stub (refptr), and section symbols.  The kinds of        *)
(* relocations are those of generic flags that differ here, and raw, with  *)
(* flags of the format, which are not translated.                          *)
ASSUME ObjectAssumption ==
    \A t \in Targets :
        /\ t.format \in {"coff", "elf", "macho"}
        /\ t.implicit \in BOOLEAN /\ t.viaSymbols \in BOOLEAN
        /\ t.viaSymbols => t.format = "macho"
        /\ t.relocates \in BOOLEAN
        /\ t.pointer \in Nat \ {0} /\ t.pcAdjust \in Nat
        /\ t.data \subseteq Seq(Int) /\ t.sizes \subseteq Nat
        /\ t.aligns \subseteq Nat \ {0}
        /\ t.addends \subseteq Int /\ t.places \subseteq Nat
        /\ t.relocKinds \subseteq {"abs", "pcrel", "got", "raw"}
        /\ "refptr" \notin t.infos /\ t.standards \subseteq AllStandard
        /\ t.kinds \subseteq {"Text", "Tls", "Other"}

VARIABLES
    target,   \* the target, chosen once
    obj,      \* the object
    known,    \* history: the symbols the calls have returned
    err       \* history: the last call returned an error

vars == <<target, obj, known, err>>

Format == target.format
Pointer == target.pointer

(* What section_info makes of the standard sections.                       *)
Info(s) ==
    CASE Format = "elf" /\ s = "ReadOnlyString" -> "ReadOnlyData"
      [] Format = "coff" /\ s \in {"ReadOnlyString", "ReadOnlyDataWithRel"} ->
             "ReadOnlyData"
      [] OTHER -> s

IsBss(info) == info \in {"UninitializedData", "UninitializedTls", "Common"}

(* Three fields are history.  A symbol's align is the alignment that       *)
(* add_symbol_data or add_symbol_bss placed it with, 0 if it was not       *)
(* placed by them.  A relocation's asked is the addend it was to have.  A  *)
(* section's given is its data as the calls that add data gave it.         *)
Symbols == [kind : {"Text", "Tls", "Section", "Other"}, section : Nat,
            value : Nat, size : Nat, align : Nat]
Relocs == [offset : Nat, symbol : Nat, addend : Int, asked : Int]

(* Undefined symbols are like absolute, common and file ones here: they    *)
(* have no section.                                                        *)
Undefined(kind) ==
    [kind |-> kind, section |-> 0, value |-> 0, size |-> 0, align |-> 0]

Init ==
    /\ target \in Targets
    /\ obj = [sections |-> <<>>, symbols |-> <<>>, std |-> <<>>,
              stubs |-> <<>>, boot |-> 0]
    /\ known = {} /\ err = FALSE

-------------------------------------------------------------------------------
(* Operations on the object o *)

AlignUp(n, a) == n + ((-n) % a)

Larger(m, n) == IF m < n THEN n ELSE m

Zeros(n) == [i \in 1..n |-> 0]

(* A section as it is added.                                               *)
Section(info) == [info |-> info, size |-> 0, align |-> 1, data |-> <<>>,
                  given |-> <<>>, relocs |-> <<>>, symbol |-> 0]

(* Mutant: a section becomes the standard one although there is one.       *)
Bug_AddSection(o, info) ==
    LET id == Len(o.sections) + 1
        new == {s \in AllStandard : Info(s) = info}
    IN  [o EXCEPT
            !.sections = Append(@, Section(info)),
            !.std = [s \in DOMAIN @ \cup new |-> IF s \in new THEN id ELSE @[s]]]

(* add_section; the id of the section is its position.                     *)
AddSection(o, info) ==
    LET id == Len(o.sections) + 1
        new == {s \in AllStandard : Info(s) = info} \ DOMAIN o.std
    IN  [o EXCEPT
            !.sections = Append(@, Section(info)),
            !.std = [s \in DOMAIN @ \cup new |-> IF s \in new THEN id ELSE @[s]]]

(* section_id; the id is then that of the standard section s.              *)
SectionId(o, s) == IF s \in DOMAIN o.std THEN o ELSE AddSection(o, Info(s))

(* set_data.                                                               *)
SetData(o, i, d, a) ==
    [o EXCEPT !.sections[i] =
        [@ EXCEPT !.data = d, !.given = d, !.size = Len(d), !.align = a]]

(* Where append_data and append_bss put what they append.                  *)
Offset(o, i, a) == AlignUp(o.sections[i].size, a)

AppendData(o, i, d, a) ==
    LET s == o.sections[i]
        v == Offset(o, i, a)
        more == Zeros(v - Len(s.data)) \o d
    IN  [o EXCEPT !.sections[i] =
            [s EXCEPT !.align = Larger(s.align, a),
                      !.data = s.data \o more, !.given = s.given \o more,
                      !.size = v + Len(d)]]

AppendBss(o, i, n, a) ==
    LET s == o.sections[i]
    IN  [o EXCEPT !.sections[i] =
            [s EXCEPT !.align = Larger(s.align, a), !.size = Offset(o, i, a) + n]]

(* add_raw_symbol; the id of the symbol is its position.                   *)
AddRawSymbol(o, y) == [o EXCEPT !.symbols = Append(@, y)]

(* Mutant: the section does not remember its symbol.                       *)
Bug_SectionSymbol(o, i) ==
    IF o.sections[i].symbol # 0 THEN o
    ELSE AddRawSymbol(o, [Undefined("Section") EXCEPT !.section = i])

(* section_symbol; the id is then the symbol field of section i.           *)
SectionSymbol(o, i) ==
    IF o.sections[i].symbol # 0 THEN o
    ELSE [AddRawSymbol(o, [Undefined("Section") EXCEPT !.section = i])
             EXCEPT !.sections[i].symbol = Len(o.symbols) + 1]

PushReloc(o, i, r) == [o EXCEPT !.sections[i].relocs = Append(@, r)]

Define(o, y, i, v, n, a) ==
    [o EXCEPT !.symbols[y] =
        [@ EXCEPT !.section = i, !.value = v, !.size = n, !.align = a]]

(* macho_tlv_bootstrap.                                                    *)
TlvBootstrap(o) ==
    IF o.boot # 0 THEN o
    ELSE [AddRawSymbol(o, Undefined("Text")) EXCEPT !.boot = Len(o.symbols) + 1]

(* Mutant: the third pointer of the entry names the variable itself.       *)
Bug_AddThreadVar(o, y) ==
    LET o2 == SectionId(AddRawSymbol(o, Undefined("Tls")), "TlsVariables")
        t  == o2.std["TlsVariables"]
        at == Offset(o2, t, Pointer)
        o4 == TlvBootstrap(AppendData(o2, t, Zeros(3 * Pointer), Pointer))
        o5 == PushReloc(o4, t, [offset |-> at, symbol |-> o4.boot,
                                addend |-> 0, asked |-> 0])
        o6 == PushReloc(o5, t, [offset |-> at + 2 * Pointer, symbol |-> y,
                                addend |-> 0, asked |-> 0])
    IN  Define(o6, y, t, at, 3 * Pointer, Pointer)

(* macho_add_thread_var for a thread-local variable: the initializer       *)
(* symbol, the entry in __thread_vars and its relocations.  The variable   *)
(* is defined by the entry; the caller defines the initializer, the symbol *)
(* that was added first.                                                   *)
AddThreadVar(o, y) ==
    LET o2 == SectionId(AddRawSymbol(o, Undefined("Tls")), "TlsVariables")
        t  == o2.std["TlsVariables"]
        at == Offset(o2, t, Pointer)
        o4 == TlvBootstrap(AppendData(o2, t, Zeros(3 * Pointer), Pointer))
        o5 == PushReloc(o4, t, [offset |-> at, symbol |-> o4.boot,
                                addend |-> 0, asked |-> 0])
        o6 == PushReloc(o5, t, [offset |-> at + 2 * Pointer,
                                symbol |-> Len(o.symbols) + 1,
                                addend |-> 0, asked |-> 0])
    IN  Define(o6, y, t, at, 3 * Pointer, Pointer)

SetSymbolData(o, y, i, v, n, a) ==
    IF Format = "macho" /\ o.symbols[y].kind = "Tls"
    THEN Define(AddThreadVar(o, y), Len(o.symbols) + 1, i, v, n, a)
    ELSE Define(o, y, i, v, n, a)

(* Mutant: the size is taken as it is.                                     *)
Bug_SymbolSize(n) == n

(* add_symbol_data and add_symbol_bss leave no symbol empty if subsections *)
(* are delimited by symbols.                                               *)
SymbolSize(n) == IF target.viaSymbols /\ n = 0 THEN 1 ELSE n

AddSymbolData(o, y, i, d, a) ==
    LET n == SymbolSize(Len(d))
    IN  SetSymbolData(AppendData(o, i, d \o Zeros(n - Len(d)), a), y, i,
                      Offset(o, i, a), n, a)

AddSymbolBss(o, y, i, n, a) ==
    SetSymbolData(AppendBss(o, i, SymbolSize(n), a), y, i, Offset(o, i, a),
                  SymbolSize(n), a)

(* add_common_symbol, for a symbol that add_symbol is to add.              *)
AddCommonSymbol(o, y, n, a) ==
    LET id == Len(o.symbols) + 1
        o2 == SectionId(AddRawSymbol(o, y), "Common")
    IN  IF Format = "macho" THEN AddSymbolBss(o2, id, o2.std["Common"], n, a)
        ELSE AddRawSymbol(o, [y EXCEPT !.size = n])

(* Mutant: stubs are not remembered.                                       *)
Bug_AddStubSymbol(o, y) ==
    LET i  == Len(o.sections) + 1
        o2 == SetData(AddSection(o, "refptr"), i, Zeros(Pointer), Pointer)
        o3 == PushReloc(o2, i, [offset |-> 0, symbol |-> y, addend |-> 0, asked |-> 0])
        z  == Len(o.symbols) + 1
    IN  [Define(AddRawSymbol(o3, Undefined("Other")), z, i, 0, Pointer, Pointer)
            EXCEPT !.stubs = [x \in {y} |-> z]]

(* coff_add_stub_symbol; the id is then that of stubs.  Its relocation is  *)
(* a generic one too: if they are not implemented for the architecture     *)
(* nothing is done after the section has been added and filled.            *)
AddStubSymbol(o, y) ==
    LET i  == Len(o.sections) + 1
        o2 == SetData(AddSection(o, "refptr"), i, Zeros(Pointer), Pointer)
        o3 == PushReloc(o2, i, [offset |-> 0, symbol |-> y, addend |-> 0, asked |-> 0])
        z  == Len(o.symbols) + 1
    IN  IF y \in DOMAIN o.stubs THEN o
        ELSE IF ~target.relocates THEN o2
        ELSE [Define(AddRawSymbol(o3, Undefined("Other")), z, i, 0, Pointer, Pointer)
                 EXCEPT !.stubs = [x \in DOMAIN @ \cup {y} |->
                                       IF x = y THEN z ELSE @[x]]]

(* Mutant: the symbol is taken for its own stub.                           *)
Bug_Translate(o, kind, y) ==
    IF Format = "coff" /\ kind = "got"
    THEN [AddStubSymbol(o, y) EXCEPT !.symbols[y].size = Pointer] ELSE o

(* What coff_translate_relocation does to the object: it is done before    *)
(* the relocation type is looked at.                                       *)
Translate(o, kind, y) ==
    IF Format = "coff" /\ kind = "got" THEN AddStubSymbol(o, y) ELSE o

(* The symbol a relocation against y ends up with, unless it is refused.   *)
Target(o, kind, y) ==
    IF Format = "coff" /\ kind = "got" THEN Translate(o, kind, y).stubs[y] ELSE y

Adjust(kind, n) == IF kind \in {"pcrel", "got"} THEN n + target.pcAdjust ELSE n

(* Mutant: an addend that was stored is kept in the relocation too.        *)
Bug_StoreAddend(o, i, r) ==
    IF target.implicit /\ r.addend # 0
    THEN PushReloc([o EXCEPT !.sections[i].data[r.offset + 1] = r.addend], i, r)
    ELSE PushReloc(o, i, r)

(* The end of add_relocation: an implicit addend that is not 0 replaces    *)
(* what the data has at the place.                                         *)
StoreAddend(o, i, r) ==
    IF target.implicit /\ r.addend # 0
    THEN PushReloc([o EXCEPT !.sections[i].data[r.offset + 1] = r.addend], i,
                   [r EXCEPT !.addend = 0])
    ELSE PushReloc(o, i, r)

-------------------------------------------------------------------------------
(* The client's calls *)

Room(o) == Len(o.sections) <= target.maxSections /\ Len(o.symbols) <= target.maxSymbols
           /\ \A i \in DOMAIN o.sections :
                  /\ o.sections[i].size <= target.maxData
                  /\ Len(o.sections[i].relocs) <= target.maxRelocs

(* A call has turned the object into o and returned the symbols ys.        *)
Returns(o, ys) ==
    Room(o) /\ obj' = o /\ known' = known \cup ys /\ err' = FALSE /\ UNCHANGED target

Fails(o) == Room(o) /\ obj' = o /\ err' = TRUE /\ UNCHANGED <<target, known>>

SectionIds == DOMAIN obj.sections
SymbolIds == DOMAIN obj.symbols

(* The sections of stubs are not handed out to clients.                    *)
ClientSections == {i \in SectionIds : obj.sections[i].info # "refptr"}

(* add_section; add_subsection is one too, but for Mach-O.                 *)
CallAddSection == \E info \in target.infos : Returns(AddSection(obj, info), {})

CallSectionId == \E s \in target.standards : Returns(SectionId(obj, s), {})

(* "Must not be called for sections that already have data".               *)
CallSetSectionData == \E i \in ClientSections, d \in target.data, a \in target.aligns :
    /\ ~IsBss(obj.sections[i].info) /\ obj.sections[i].data = <<>>
    /\ Returns(SetData(obj, i, d, a), {})

CallAppendSectionData == \E i \in ClientSections, d \in target.data, a \in target.aligns :
    /\ ~IsBss(obj.sections[i].info)
    /\ Returns(AppendData(obj, i, d, a), {})

CallAppendSectionBss == \E i \in ClientSections, n \in target.sizes, a \in target.aligns :
    /\ IsBss(obj.sections[i].info)
    /\ Returns(AppendBss(obj, i, n, a), {})

(* add_symbol, for a symbol that is not defined yet, or a section symbol.  *)
CallAddSymbol ==
    \/ \E k \in target.kinds :
           Returns(AddRawSymbol(obj, Undefined(k)), {Len(obj.symbols) + 1})
    \/ \E i \in ClientSections :
           LET o == SectionSymbol(obj, i) IN Returns(o, {o.sections[i].symbol})

CallAddCommonSymbol == \E k \in target.kinds, n \in target.sizes, a \in target.aligns :
    Returns(AddCommonSymbol(obj, Undefined(k), n, a), {Len(obj.symbols) + 1})

(* Clients define the symbols they added, once, and no section symbols.    *)
Definable(y) == obj.symbols[y].kind # "Section" /\ obj.symbols[y].section = 0

CallAddSymbolData ==
    \E y \in known, i \in ClientSections, d \in target.data, a \in target.aligns :
        /\ Definable(y) /\ ~IsBss(obj.sections[i].info)
        /\ Returns(AddSymbolData(obj, y, i, d, a), {})

CallAddSymbolBss ==
    \E y \in known, i \in ClientSections, n \in target.sizes, a \in target.aligns :
        /\ Definable(y) /\ IsBss(obj.sections[i].info)
        /\ Returns(AddSymbolBss(obj, y, i, n, a), {})

(* symbol_section_and_offset, for symbols with a section.                  *)
CallSymbolSectionAndOffset == \E y \in known :
    LET i == obj.symbols[y].section IN
    /\ i # 0
    /\ IF obj.symbols[y].kind = "Section" THEN Returns(obj, {y})
       ELSE LET o == SectionSymbol(obj, i) IN Returns(o, {o.sections[i].symbol})

(* add_relocation.  A relocation that has no type for the architecture is  *)
(* refused, and one whose addend does not fit the section's data.  Without *)
(* generic relocations the width of an addend is not known either.         *)
CallAddRelocation ==
    \E i \in ClientSections, at \in target.places, y \in known,
       kind \in target.relocKinds, n \in target.addends \cup {-target.pcAdjust},
       supported \in BOOLEAN :
        LET o == Translate(obj, kind, y)
            a == Adjust(kind, n)
            stored == target.implicit /\ a # 0
        IN  /\ ~IsBss(obj.sections[i].info)
            /\ IF /\ supported
                  /\ target.relocates \/ (kind = "raw" /\ ~stored)
                  /\ stored => at < Len(o.sections[i].data)
               THEN Returns(StoreAddend(o, i, [offset |-> at,
                                               symbol |-> Target(obj, kind, y),
                                               addend |-> a, asked |-> a]), {})
               ELSE Fails(o)

Next ==
    \/ CallAddSection \/ CallSectionId
    \/ CallSetSectionData \/ CallAppendSectionData \/ CallAppendSectionBss
    \/ CallAddSymbol \/ CallAddCommonSymbol
    \/ CallAddSymbolData \/ CallAddSymbolBss
    \/ CallSymbolSectionAndOffset
    \/ CallAddRelocation

Spec == Init /\ [][Next]_vars

-------------------------------------------------------------------------------
(* Properties *)

(* section_id: a standard section is the first of the object's sections    *)
(* that looks like it, whoever added it, and whatever other standard       *)
(* section it was added for.                                               *)
StandardFirst ==
    \A s \in AllStandard :
        LET like == {i \in SectionIds : obj.sections[i].info = Info(s)} IN
        IF s \in DOMAIN obj.std
        THEN obj.std[s] \in like /\ \A i \in like : obj.std[s] <= i
        ELSE like = {}

(* "There can only be one section symbol": a section has at most one, it   *)
(* knows it, and the symbol stands for the start of the section.           *)
OneSectionSymbol ==
    \A y \in SymbolIds : obj.symbols[y].kind = "Section" =>
        /\ obj.symbols[y].section # 0 /\ obj.symbols[y].value = 0
        /\ obj.sections[obj.symbols[y].section].symbol = y

(* Symbols that were placed lie in their sections, aligned, whatever was   *)
(* appended since, and two of them share nothing: not their address        *)
(* either, even if they were to be empty, with subsections via symbols,    *)
(* for which sizes are raised to 1.                                        *)
Placed ==
    LET placed == {y \in SymbolIds :
                      /\ obj.symbols[y].align # 0
                      /\ obj.symbols[y].size # 0 \/ target.viaSymbols}
    IN  \A y \in placed :
            LET v == obj.symbols[y] s == obj.sections[v.section] IN
            /\ v.value % v.align = 0 /\ v.align <= s.align
            /\ v.value + v.size <= s.size
            /\ \A z \in placed \ {y} :
                   LET w == obj.symbols[z] IN
                   w.section = v.section =>
                       /\ v.value # w.value
                       /\ v.value + v.size <= w.value \/ w.value + w.size <= v.value

(* The relocations of section s whose addends went to the n-th cell.       *)
StoredAt(s, n) ==
    {k \in DOMAIN s.relocs : /\ target.implicit /\ s.relocs[k].asked # 0
                             /\ s.relocs[k].offset + 1 = n}

(* Relocation::addend and the data: a relocation with an explicit addend   *)
(* has the one it was to have, and one of a format that has no room for an *)
(* addend has none.  There, an addend that is not 0 is at its place in the *)
(* data, instead of what the client gave, until another relocation is      *)
(* given an addend for the same place; and with an addend of 0 what the    *)
(* client gave is the implicit addend.  All else in the data is as it was  *)
(* given, whatever has been appended since.                                *)
AddendsKept ==
    \A i \in SectionIds :
        LET s == obj.sections[i] IN
        /\ \A k \in DOMAIN s.relocs :
               LET r == s.relocs[k] IN
               IF target.implicit
               THEN r.addend = 0 /\ (r.asked # 0 => r.offset < Len(s.data))
               ELSE r.addend = r.asked
        /\ \A n \in DOMAIN s.data :
               IF StoredAt(s, n) = {} THEN s.data[n] = s.given[n]
               ELSE \E k \in StoredAt(s, n) : /\ s.data[n] = s.relocs[k].asked
                                             /\ \A m \in StoredAt(s, n) : m <= k

(* Each symbol has at most one stub: a pointer in a section of its own,    *)
(* whose first relocation is against the symbol.  No stub is left half     *)
(* made by a relocation that is refused after its stub was added, if       *)
(* generic relocations are implemented for the architecture.  If not,      *)
(* there are no stubs, and the sections the refused calls have left are    *)
(* not referred to by anything.                                            *)
StubsResolve ==
    /\ \A y \in DOMAIN obj.stubs :
        LET v == obj.symbols[obj.stubs[y]] IN
        /\ obj.sections[v.section].info = "refptr"
        /\ obj.sections[v.section].relocs[1].offset = v.value
        /\ obj.sections[v.section].relocs[1].symbol = y
    /\ \A i \in SectionIds : obj.sections[i].info = "refptr" =>
        IF target.relocates
        THEN Cardinality({y \in DOMAIN obj.stubs :
                             obj.symbols[obj.stubs[y]].section = i}) = 1
        ELSE /\ obj.sections[i].relocs = <<>> /\ DOMAIN obj.stubs = {}
             /\ \A y \in SymbolIds : obj.symbols[y].section # i

(* A thread-local variable of a client that was defined is an entry of     *)
(* __thread_vars: its first pointer is relocated against _tlv_bootstrap,   *)
(* and its third against an initializer, which is defined and which the    *)
(* client does not know of.                                                *)
ThreadVars ==
    Format = "macho" => \A y \in known :
        LET v == obj.symbols[y]
            relocs == obj.sections[v.section].relocs
        IN
        v.kind = "Tls" /\ v.section # 0 =>
            /\ v.section = obj.std["TlsVariables"] /\ v.size = 3 * Pointer
            /\ \E k \in DOMAIN relocs :
                   relocs[k].offset = v.value /\ relocs[k].symbol = obj.boot
            /\ \E k \in DOMAIN relocs :
                   LET z == relocs[k].symbol IN
                   /\ relocs[k].offset = v.value + 2 * Pointer /\ z \notin known
                   /\ obj.symbols[z].kind = "Tls" /\ obj.symbols[z].section # 0

(* A call that fails changes none of the sections and symbols there were.  *)
(* What it may leave is a stub that the relocation was to go through: a    *)
(* section for it, and no symbol but the stub.                             *)
FailureKeeps ==
    [][err' => /\ SubSeq(obj'.sections, 1, Len(obj.sections)) = obj.sections
               /\ SubSeq(obj'.symbols, 1, Len(obj.symbols)) = obj.symbols
               /\ Len(obj'.sections) <= Len(obj.sections) + 1
               /\ \A i \in DOMAIN obj'.sections \ SectionIds :
                      obj'.sections[i].info = "refptr"
               /\ \A z \in DOMAIN obj'.symbols \ SymbolIds :
                      \E y \in DOMAIN obj'.stubs : obj'.stubs[y] = z]_vars
===============================================================================
