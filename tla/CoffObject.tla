----------------------------- MODULE CoffObject -----------------------------
(***************************************************************************)
(* COFF objects: coff_write of write/coff/object.rs over the writer of     *)
(* write/coff/writer.rs, and what read/coff makes of the file.             *)
(***************************************************************************)
EXTENDS ObjectFile

HeaderSize == 20  SectionSize == 40  RelocSize == 10  SymbolSize == 18

(* An entry has room for a short name; a long one is in the string table.  *)
AddName(name) == [long |-> NameLen(name) > 8, name |-> name]
LongNames(names) == {n \in names : AddName(n).long}

(* A short name that is empty looks like a long one at offset 0, where the *)
(* string table has its length.                                            *)
NameRead(n) == IF n.name = <<>> THEN Garbage ELSE n.name

----------------------------------------------------------------------------
(* Section groups.                                                         *)

(* The section of the comdat's symbol is the group's own; the others are   *)
(* associated with it.  A later comdat may change what an earlier one set. *)
Leader(o, c) == o.symbols[c.symbol].section

(* Mutant: a group's own section is associated with itself.                *)
Bug_Selection(o, s) ==
    LET joined == SelectSeq(o.comdats, LAMBDA c: s \in c.sections)
    IN [kind |-> IF joined = <<>> THEN "none" ELSE "associative",
        number |-> IF joined = <<>> THEN 0 ELSE U16(Leader(o, Last(joined)))]

(* The number has 32 bits, of which a reader takes the lower half.         *)
Selection(o, s) ==
    LET Joined(c)  == s \in c.sections \ {Leader(o, c)}
        Touches(c) == s = Leader(o, c) \/ Joined(c)
        touched == SelectSeq(o.comdats, Touches)
        joined  == SelectSeq(o.comdats, Joined) IN
    [kind |-> IF touched = <<>> THEN "none"
              ELSE IF Joined(Last(touched)) THEN "associative" ELSE "any",
     number |-> IF joined = <<>> THEN 0 ELSE U16(Leader(o, Last(joined)))]

(* What is refused before anything is written.                             *)
Refused(o) ==
    \E k \in DOMAIN o.comdats : LET c == o.comdats[k] IN
        \/ Leader(o, c) <= 0
        \/ \E s \in c.sections : \A i \in DOMAIN o.symbols :
               ~(o.symbols[i].kind = "section" /\ o.symbols[i].section = s)

----------------------------------------------------------------------------
(* The symbol table.                                                       *)

(* Weak symbols are undefined, and name a default symbol that is defined   *)
(* in their stead.  Its name must be unique, for which it borrows that of  *)
(* a defined external symbol, if possible of one that is in no group.      *)
Defined(o) ==
    LET IsDefined(s) == ~s.weak /\ s.scope \in {"linkage", "dynamic"}
                        /\ (s.section > 0 \/ s.section = Absolute)
    IN SelectSeq(o.symbols, IsDefined)

UniqueName(o) ==
    LET grouped == UNION {o.comdats[k].sections : k \in DOMAIN o.comdats}
        free == SelectSeq(Defined(o), LAMBDA s: s.section \notin grouped)
        any  == SelectSeq(Defined(o), LAMBDA s: s.section > 0) IN
    IF free # <<>> /\ free[1].name # <<>> THEN free[1].name
    ELSE IF any # <<>> THEN any[1].name ELSE <<>>

(* ".weak.", the symbol's name, and "." with the unique name.              *)
WeakDefaultName(o, s) ==
    <<6>> \o s.name
          \o (IF UniqueName(o) = <<>> THEN <<>> ELSE <<1>> \o UniqueName(o))

(* How many auxiliary entries follow a symbol, and how many it says.       *)
FileNameEntries(name) == (NameLen(name) + SymbolSize - 1) \div SymbolSize

AuxEntries(s) ==
    IF s.weak THEN 1
    ELSE IF s.kind = "file" THEN FileNameEntries(s.name)
    ELSE IF s.kind = "section" /\ s.section > 0 THEN 1 ELSE 0

AuxCount(s) ==
    IF s.kind = "file" /\ ~s.weak THEN U8(AuxEntries(s)) ELSE AuxEntries(s)

Slots(s) == (IF s.weak THEN 2 ELSE 1) + AuxEntries(s)

SymbolCount(o) == Total(Slots, o.symbols)

(* The index of the symbol itself; that of its default is one less.        *)
SymbolIndex(o, i) ==
    Total(Slots, SubSeq(o.symbols, 1, i - 1)) + (IF o.symbols[i].weak THEN 1 ELSE 0)

SymbolName(s) == IF s.kind = "file" /\ ~s.weak THEN <<5>> ELSE s.name

Strings(o) ==
    LongNames({o.sections[k].name : k \in DOMAIN o.sections}
              \cup {SymbolName(o.symbols[i]) : i \in DOMAIN o.symbols}
              \cup {WeakDefaultName(o, o.symbols[i]) :
                        i \in {j \in DOMAIN o.symbols : o.symbols[j].weak}})

(* Whether a section has more relocations than its header can tell.        *)
Overflows(count) == count > U16Max

(* Mutant: no room for the entry that has the number of relocations.       *)
Bug_RelocEntries(count) == count

RelocEntries(count) == count + (IF Overflows(count) THEN 1 ELSE 0)

(* What is reserved, in order.  The number of section headers is cast to   *)
(* 16 bits; all of them are written.                                       *)
SectionPlan(o, k) ==
    LET s == o.sections[k] IN
      (IF DataLen(s) = 0 THEN <<>> ELSE <<Request("data", k, DataLen(s), 4, 0)>>)
      \o (IF s.relocs = <<>> THEN <<>>
          ELSE <<Request("relocs", k, RelocEntries(Len(s.relocs)) * RelocSize, 1, 0)>>)

Plan(o) ==
    <<Request("header", 0, HeaderSize, 1, 0),
      Request("sections", 0, U16(Len(o.sections)) * SectionSize, 1, 0)>>
    \o FlattenSeq([k \in DOMAIN o.sections |-> SectionPlan(o, k)])
    \o <<Request("symbols", 0, SymbolCount(o) * SymbolSize, 1, 0),
         Request("strings", 0, StringsLen(4, Strings(o)), 1, 0)>>

----------------------------------------------------------------------------
(* Writing.  offset[kind, id] is the offset that was returned by the       *)
(* reservation, 0 if there was none.                                       *)

Order(o) ==
    <<[kind |-> "header", id |-> 0], [kind |-> "sections", id |-> 0]>>
    \o FlattenSeq([k \in DOMAIN o.sections |->
           (IF DataLen(o.sections[k]) = 0 THEN <<>> ELSE <<[kind |-> "data", id |-> k]>>)
           \o (IF o.sections[k].relocs = <<>> THEN <<>>
               ELSE <<[kind |-> "relocs", id |-> k]>>)])
    \o <<[kind |-> "symbols", id |-> 0], [kind |-> "strings", id |-> 0]>>

(* Where the next call starts to write.                                    *)
Position(o, call, buf, offset) ==
    IF call.kind = "data" THEN AlignUp(buf, 4) ELSE buf

SectionEntry(o, k, offset) ==
    LET s == o.sections[k] IN
    [tag |-> "section", name |-> AddName(s.name), size |-> s.size, bss |-> IsBss(s),
     data |-> offset["data", k], relocs |-> offset["relocs", k],
     count |-> IF Overflows(Len(s.relocs)) THEN U16Max ELSE Len(s.relocs),
     overflow |-> Overflows(Len(s.relocs))]

(* Mutant: the number of relocations leaves out its own entry.             *)
Bug_RelocsWritten(o, k) ==
    LET relocs == o.sections[k].relocs IN
      (IF Overflows(Len(relocs))
       THEN <<[tag |-> "reloc", address |-> Len(relocs), symbol |-> 0]>> ELSE <<>>)
      \o [j \in DOMAIN relocs |->
             [tag |-> "reloc", address |-> relocs[j].offset,
              symbol |-> SymbolIndex(o, relocs[j].symbol)]]

RelocsWritten(o, k) ==
    LET relocs == o.sections[k].relocs IN
      (IF Overflows(Len(relocs))
       THEN <<[tag |-> "reloc", address |-> Len(relocs) + 1, symbol |-> 0]>> ELSE <<>>)
      \o [j \in DOMAIN relocs |->
             [tag |-> "reloc", address |-> relocs[j].offset,
              symbol |-> SymbolIndex(o, relocs[j].symbol)]]

(* Weak symbols may only be in a section or undefined.                     *)
WeakNowhere(o) ==
    \E i \in DOMAIN o.symbols :
        o.symbols[i].weak /\ o.symbols[i].section \in {Absolute, Common, NoSection}

(* Numbers without a sign: an absolute symbol has the largest.             *)
SectionNumber(s) ==
    IF s.weak \/ s.section = Common THEN 0 ELSE U16(s.section)

StorageClass(s) ==
    IF s.weak THEN "weak_external"
    ELSE IF s.kind = "file" THEN "file"
    ELSE IF s.kind = "section" THEN IF s.section > 0 THEN "static" ELSE "section"
    ELSE IF s.section \in {Undefined, Common} \/ ~IsLocal(s) THEN "external"
    ELSE "static"

SymbolValue(s) ==
    IF s.weak THEN 0 ELSE IF s.section = Common THEN s.size ELSE s.value

SymbolEntry(name, value, number, class, text, aux) ==
    [tag |-> "symbol", name |-> AddName(name), value |-> value, number |-> number,
     class |-> class, text |-> text, aux |-> aux]

AuxWritten(o, i) ==
    LET s == o.symbols[i] IN
    IF s.weak THEN <<[tag |-> "aux", weak |-> SymbolIndex(o, i) - 1]>>
    ELSE IF s.kind = "file"
    THEN [k \in 1..AuxCount(s) |-> [tag |-> "aux", file |-> s.name]]
    ELSE IF s.kind = "section" /\ s.section > 0
    THEN <<[tag |-> "aux", length |-> o.sections[s.section].size,
            group |-> Selection(o, s.section)]>>
    ELSE <<>>

SymbolWritten(o, i) ==
    LET s == o.symbols[i] IN
      (IF s.weak
       THEN <<SymbolEntry(WeakDefaultName(o, s), s.value,
                  U16(IF s.section = Undefined THEN Absolute ELSE s.section),
                  "external", FALSE, 0)>>
       ELSE <<>>)
      \o <<SymbolEntry(SymbolName(s), SymbolValue(s), SectionNumber(s),
                       StorageClass(s), s.kind = "text", AuxCount(s))>>
      \o AuxWritten(o, i)

(* The entries that a call writes, and the size of each.                   *)
Content(o, call, offset) ==
    CASE call.kind = "header" ->
           <<[tag |-> "header", sections |-> U16(Len(o.sections)),
              symbols |-> offset["symbols", 0], count |-> SymbolCount(o)]>>
      [] call.kind = "sections" ->
           [k \in DOMAIN o.sections |-> SectionEntry(o, k, offset)]
      [] call.kind = "data" -> <<[tag |-> "data", section |-> call.id]>>
      [] call.kind = "relocs" -> RelocsWritten(o, call.id)
      [] call.kind = "symbols" ->
           FlattenSeq([i \in DOMAIN o.symbols |-> SymbolWritten(o, i)])
      [] call.kind = "strings" -> <<[tag |-> "strings", names |-> Strings(o)]>>

EntrySize(o, call) ==
    CASE call.kind = "header"   -> HeaderSize
      [] call.kind = "sections" -> SectionSize
      [] call.kind = "data"     -> DataLen(o.sections[call.id])
      [] call.kind = "relocs"   -> RelocSize
      [] call.kind = "symbols"  -> SymbolSize
      [] call.kind = "strings"  -> StringsLen(4, Strings(o))

----------------------------------------------------------------------------
(* The reader.                                                             *)

Symbols(image) ==
    LET h == EntryAt(image, 0) IN Slice(image, h.symbols, SymbolSize, h.count)

StringAt(image, name) ==
    LET h == EntryAt(image, 0)
        strings == EntryAt(image, h.symbols + h.count * SymbolSize) IN
    IF strings.tag = "strings" /\ name \in strings.names THEN name ELSE Garbage

ReadName(image, n) == IF n.long THEN StringAt(image, n.name) ELSE NameRead(n)

SectionName(image, e) ==
    IF e.name.long THEN StringAt(image, e.name.name) ELSE e.name.name

Sections(image) ==
    Slice(image, HeaderSize, SectionSize, EntryAt(image, 0).sections)

(* The relocations of a section header, behind their number if the number  *)
(* does not fit.                                                           *)
Relocations(image, section) ==
    LET first == EntryAt(image, section.relocs) IN
    IF section.count = U16Max /\ section.overflow
    THEN IF first.tag # "reloc" THEN <<first>>
         ELSE Slice(image, section.relocs + RelocSize, RelocSize, first.address - 1)
    ELSE Slice(image, section.relocs, RelocSize, section.count)

HasAuxSection(e) == e.tag = "symbol" /\ e.aux > 0 /\ e.class = "static" /\ ~e.text

(* The largest section numbers are negative ones.                          *)
NumberRead(e) == IF e.number >= SectionMax THEN I16(e.number) ELSE e.number

SectionRead(e) ==
    LET n == NumberRead(e) IN
    CASE n > 0 \/ n = Absolute -> n
      [] n = NoSection /\ e.class = "file" -> NoSection
      [] n = 0 /\ e.class = "external" -> IF e.value = 0 THEN Undefined ELSE Common
      [] n = 0 /\ e.class = "section" -> Undefined
      [] OTHER -> Unknown

(* What the reader says of the symbol at index i of the table.             *)
SymbolRead(image, i) ==
    LET symbols == Symbols(image)  e == symbols[i + 1] IN
    [name |-> IF e.class = "file" /\ e.aux > 0 THEN symbols[i + 2].file
              ELSE ReadName(image, e.name),
     section |-> SectionRead(e),
     weak |-> e.class = "weak_external",
     local |-> e.class \notin {"external", "weak_external"},
     value |-> e.value]

(* The comdats: the section symbols that lead a group, each with the first *)
(* symbol of its section behind it, and the sections that belong to it.    *)
Comdats(image) ==
    LET symbols == Symbols(image)
        Aux(i) == symbols[i + 2]
        heads == {i \in Iterated(symbols) : HasAuxSection(symbols[i + 1])}
        Number(i) == NumberRead(symbols[i + 1])
        After(i) == {j \in Iterated(symbols) : j > i /\ Number(j) = Number(i)}
        Belongs(h, n) == CASE Aux(h).group.kind = "associative" -> Aux(h).group.number = n
                           [] Aux(h).group.kind = "any" -> Number(h) = n
                           [] OTHER -> FALSE
        Members(n) == {Number(h) : h \in {g \in heads : Belongs(g, n)}}
    IN {[symbol |-> Min(After(i)), sections |-> Members(Number(i))] :
            i \in {h \in heads : Aux(h).group.kind = "any" /\ After(h) # {}}}
=============================================================================
