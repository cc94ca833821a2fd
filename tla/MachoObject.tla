---------------------------- MODULE MachoObject ----------------------------
(***************************************************************************)
(* Mach-O objects: macho_write of write/macho.rs, and what read/macho      *)
(* makes of the file.                                                      *)
(***************************************************************************)
EXTENDS ObjectFile

HeaderSize(o)  == IF o.wide THEN 32 ELSE 28
SegmentSize(o) == IF o.wide THEN 72 ELSE 56
SectionSize(o) == IF o.wide THEN 80 ELSE 68
SymbolSize(o)  == IF o.wide THEN 16 ELSE 12
Pointer(o)     == IF o.wide THEN 8 ELSE 4
VersionSize == 24  SymtabSize == 24  DysymtabSize == 80  RelocSize == 8

----------------------------------------------------------------------------
(* The plan.                                                               *)

CommandsEnd(o) ==
    HeaderSize(o) + SegmentSize(o) + Len(o.sections) * SectionSize(o)
    + (IF o.version THEN VersionSize ELSE 0) + SymtabSize + DysymtabSize

(* Sections with data come first in memory, in the order and at the        *)
(* distances that they have in the file; the others follow.                *)
Place(addr, s) == AlignUp(addr, s.align)
Behind(addr, s) == Place(addr, s) + s.size

DataEnd(sections) ==
    FoldLeft(Behind, 0, SelectSeq(sections, LAMBDA s: ~IsBss(s)))

Address(o, k) ==
    LET before == SubSeq(o.sections, 1, k - 1)  s == o.sections[k] IN
    IF IsBss(s)
    THEN Place(FoldLeft(Behind, DataEnd(o.sections), SelectSeq(before, IsBss)), s)
    ELSE Place(DataEnd(before), s)

(* Symbols of files and sections are left out; the others are local,       *)
(* external or undefined, and but for local ones sorted by their names.    *)
Emitted(s) == s.kind \notin {"file", "section"}

Refused(o) == \E i \in DOMAIN o.symbols : o.symbols[i].kind = "label"

Precedes(a, b) ==
    \E k \in 0..Len(b) :
        /\ k <= Len(a) /\ SubSeq(a, 1, k) = SubSeq(b, 1, k)
        /\ k < Len(b) /\ (k = Len(a) \/ a[k + 1] < b[k + 1])

(* A stable sort of positions by the names of the symbols there.           *)
SortedByName(o, positions) ==
    LET Name(i) == o.symbols[i].name
        Less(i, j) == Precedes(Name(i), Name(j)) \/ (Name(i) = Name(j) /\ i < j)
    IN SortSeq(positions, Less)

Locals(o) ==
    Where(o.symbols, LAMBDA s: Emitted(s) /\ s.section # Undefined /\ IsLocal(s))

(* Mutant: external symbols stay in the order in which they were added.    *)
Bug_Externals(o) ==
    Where(o.symbols, LAMBDA s: Emitted(s) /\ s.section # Undefined /\ ~IsLocal(s))

Externals(o) ==
    SortedByName(o, Where(o.symbols,
        LAMBDA s: Emitted(s) /\ s.section # Undefined /\ ~IsLocal(s)))

Undefineds(o) ==
    SortedByName(o, Where(o.symbols, LAMBDA s: Emitted(s) /\ s.section = Undefined))

SymbolOrder(o) == Locals(o) \o Externals(o) \o Undefineds(o)

(* The index of a symbol; 0 for one that is left out.                      *)
SymbolIndex(o, i) ==
    LET at == Where(SymbolOrder(o), LAMBDA j: j = i)
    IN IF at = <<>> THEN 0 ELSE at[1] - 1

Strings(o) == {o.symbols[i].name : i \in {j \in DOMAIN o.symbols :
                  Emitted(o.symbols[j]) /\ o.symbols[j].name # <<>>}}

(* A relocation with an addend takes two entries.                          *)
RelocEntries(r) == IF r.addend # 0 THEN 2 ELSE 1
RelocCount(s) == Total(RelocEntries, s.relocs)

StringsSize(o) == AlignUp(StringsLen(1, Strings(o)), Pointer(o))

Plan(o) ==
    LET data == Where(o.sections, LAMBDA s: ~IsBss(s))
        relocs == Where(o.sections, LAMBDA s: s.relocs # <<>>) IN
    <<Request("header", 0, HeaderSize(o), 1, 0),
      Request("segment", 0, SegmentSize(o), 1, 0),
      Request("sections", 0, Len(o.sections) * SectionSize(o), 1, 0)>>
    \o (IF o.version THEN <<Request("version", 0, VersionSize, 1, 0)>> ELSE <<>>)
    \o <<Request("symtab", 0, SymtabSize, 1, 0),
         Request("dysymtab", 0, DysymtabSize, 1, 0)>>
    \o [n \in DOMAIN data |->
           Request("data", data[n], DataLen(o.sections[data[n]]),
                   o.sections[data[n]].align, CommandsEnd(o))]
    \o [n \in DOMAIN relocs |->
           Request("relocs", relocs[n], RelocCount(o.sections[relocs[n]]) * RelocSize,
                   Pointer(o), 0)]
    \o <<Request("symbols", 0, Len(SymbolOrder(o)) * SymbolSize(o), Pointer(o), 0),
         Request("strings", 0, StringsSize(o), 1, 0)>>

----------------------------------------------------------------------------
(* Writing.                                                                *)

Order(o) ==
    LET Calls(kind, positions) ==
          [n \in DOMAIN positions |-> [kind |-> kind, id |-> positions[n]]] IN
    Calls("header", <<0>>) \o Calls("segment", <<0>>) \o Calls("sections", <<0>>)
    \o Calls("version", IF o.version THEN <<0>> ELSE <<>>)
    \o Calls("symtab", <<0>>) \o Calls("dysymtab", <<0>>)
    \o Calls("data", Where(o.sections, LAMBDA s: ~IsBss(s)))
    \o Calls("relocs", Where(o.sections, LAMBDA s: s.relocs # <<>>))
    \o Calls("symbols", <<0>>) \o Calls("strings", <<0>>)

(* The buffer is resized to the offset of a section, and aligned before    *)
(* relocations and symbols.                                                *)
Position(o, call, buf, offset) ==
    CASE call.kind = "data" -> offset["data", call.id]
      [] call.kind \in {"relocs", "symbols"} -> AlignUp(buf, Pointer(o))
      [] OTHER -> buf

SectionEntry(o, k, offset) ==
    LET s == o.sections[k] IN
    [tag |-> "section", name |-> s.name, address |-> Address(o, k), size |-> s.size,
     data |-> IF IsBss(s) THEN 0 ELSE CommandsEnd(o) + Address(o, k),
     bss |-> IsBss(s), align |-> s.align,
     relocs |-> offset["relocs", k], count |-> RelocCount(s)]

(* The packed symbol number of a relocation: 24 bits that are shifted the  *)
(* wrong way in a big-endian file (macho.rs).                              *)
Pack(o, n) == IF o.big THEN n \div 256 ELSE n % SymNums
Unpack(h, n) == IF h.big THEN n \div 256 ELSE n
Signed(n) == IF 2 * n >= SymNums THEN n - SymNums ELSE n

(* Relocations are written in descending order, and each behind its addend *)
NeedReverse(relocs) == relocs # <<>> /\ relocs[1].offset < Last(relocs).offset

(* Only some relocations can have an addend.                               *)
NoAddend(o) ==
    ~o.explicit /\ \E k \in DOMAIN o.sections : \E j \in DOMAIN o.sections[k].relocs :
                       o.sections[k].relocs[j].addend # 0

RelocWritten(o, r) ==
    LET s == o.symbols[r.symbol]  extern == s.kind # "section" IN
      (IF r.addend = 0 THEN <<>>
       ELSE <<[tag |-> "reloc", addend |-> TRUE, address |-> r.offset,
               number |-> Pack(o, r.addend), extern |-> FALSE]>>)
      \o <<[tag |-> "reloc", addend |-> FALSE, address |-> r.offset, extern |-> extern,
            number |-> Pack(o, IF extern THEN SymbolIndex(o, r.symbol) ELSE s.section)]>>

RelocsWritten(o, k) ==
    LET relocs == o.sections[k].relocs
        turned == IF NeedReverse(relocs) THEN Reverse(relocs) ELSE relocs
    IN FlattenSeq([j \in DOMAIN turned |-> RelocWritten(o, turned[j])])

SymbolWritten(o, i) ==
    LET s == o.symbols[i] IN
    [tag |-> "symbol", name |-> s.name,
     type |-> IF s.section > 0 THEN "sect" ELSE IF s.section = Undefined THEN "undf"
              ELSE "abs",
     sect |-> IF s.section > 0 THEN U8(s.section) ELSE 0,
     ext |-> s.section = Undefined \/ s.scope \in {"linkage", "dynamic"},
     pext |-> s.scope = "linkage", weak |-> s.weak,
     value |-> s.value + (IF s.section > 0 THEN Address(o, s.section) ELSE 0)]

(* Common symbols, and those of no section, cannot be written.             *)
NoPlace(o) == \E i \in DOMAIN o.symbols :
                  Emitted(o.symbols[i]) /\ o.symbols[i].section \in {Common, NoSection}

Content(o, call, offset) ==
    CASE call.kind = "header" ->
           <<[tag |-> "header", wide |-> o.wide, big |-> o.big,
              commands |-> 3 + (IF o.version THEN 1 ELSE 0),
              size |-> CommandsEnd(o) - HeaderSize(o)]>>
      [] call.kind = "segment" ->
           <<[tag |-> "segment", sections |-> Len(o.sections),
              size |-> SegmentSize(o) + Len(o.sections) * SectionSize(o),
              data |-> CommandsEnd(o), filesize |-> DataEnd(o.sections)]>>
      [] call.kind = "sections" -> [k \in DOMAIN o.sections |-> SectionEntry(o, k, offset)]
      [] call.kind = "version"  -> <<[tag |-> "version", size |-> VersionSize]>>
      [] call.kind = "symtab"   ->
           <<[tag |-> "symtab", size |-> SymtabSize, symbols |-> offset["symbols", 0],
              count |-> Len(SymbolOrder(o)), strings |-> offset["strings", 0]]>>
      [] call.kind = "dysymtab" ->
           <<[tag |-> "dysymtab", size |-> DysymtabSize, locals |-> Len(Locals(o)),
              externals |-> Len(Externals(o)), undefineds |-> Len(Undefineds(o))]>>
      [] call.kind = "data" -> <<[tag |-> "data", section |-> call.id]>>
      [] call.kind = "relocs" -> RelocsWritten(o, call.id)
      [] call.kind = "symbols" ->
           [n \in DOMAIN SymbolOrder(o) |-> SymbolWritten(o, SymbolOrder(o)[n])]
      [] call.kind = "strings" -> <<[tag |-> "strings", names |-> Strings(o)]>>

EntrySize(o, call) ==
    CASE call.kind = "header"   -> HeaderSize(o)
      [] call.kind = "segment"  -> SegmentSize(o)
      [] call.kind = "sections" -> SectionSize(o)
      [] call.kind = "version"  -> VersionSize
      [] call.kind = "symtab"   -> SymtabSize
      [] call.kind = "dysymtab" -> DysymtabSize
      [] call.kind = "data"     -> DataLen(o.sections[call.id])
      [] call.kind = "relocs"   -> RelocSize
      [] call.kind = "symbols"  -> SymbolSize(o)
      [] call.kind = "strings"  -> StringsSize(o)

----------------------------------------------------------------------------
(* The reader.  The load commands are found one behind the other.          *)

Command(image, tag) ==
    LET h == EntryAt(image, 0)
        at[n \in 1..h.commands] ==
            IF n = 1 THEN HeaderSize(h)
            ELSE at[n - 1] + (LET c == EntryAt(image, at[n - 1])
                              IN IF c.tag = "none" THEN 0 ELSE c.size)
        found == {n \in 1..h.commands : EntryAt(image, at[n]).tag = tag}
    IN IF found = {} THEN 0 ELSE at[Min(found)]

Sections(image) ==
    LET h == EntryAt(image, 0)  at == Command(image, "segment") IN
    Slice(image, at + SegmentSize(h), SectionSize(h), EntryAt(image, at).sections)

Symbols(image) ==
    LET c == EntryAt(image, Command(image, "symtab"))
    IN Slice(image, c.symbols, SymbolSize(EntryAt(image, 0)), c.count)

(* An addend is kept for the relocation behind it.                         *)
Relocations(image, section) ==
    LET h == EntryAt(image, 0)
        entries == Slice(image, section.relocs, RelocSize, section.count)
        Value(e) == Unpack(h, e.number) IN
    IF ~AllTagged(entries, "reloc") THEN entries
    ELSE [n \in DOMAIN Where(entries, LAMBDA e: ~e.addend) |->
             LET j == Where(entries, LAMBDA e: ~e.addend)[n]  e == entries[j] IN
             [tag |-> "reloc", address |-> e.address, extern |-> e.extern,
              target |-> Value(e),
              addend |-> IF j > 1 /\ entries[j - 1].addend
                         THEN Signed(Value(entries[j - 1])) ELSE 0]]

SymbolRead(image, i) ==
    LET e == Symbols(image)[i + 1]
        strings == EntryAt(image, EntryAt(image, Command(image, "symtab")).strings) IN
    [name |-> IF e.name = <<>> \/ (strings.tag = "strings" /\ e.name \in strings.names)
              THEN e.name ELSE Garbage,
     section |-> CASE e.type = "undf" -> Undefined
                   [] e.type = "abs" -> Absolute
                   [] OTHER -> IF e.sect = 0 THEN Unknown ELSE e.sect,
     weak |-> e.weak,
     scope |-> IF e.type = "undf" THEN "unknown"
               ELSE IF ~e.ext THEN "compilation"
               ELSE IF e.pext THEN "linkage" ELSE "dynamic",
     address |-> e.value]

(* What the dynamic symbol table says of the symbols, and what holds.      *)
Partitioned(image) ==
    LET d == EntryAt(image, Command(image, "dysymtab"))
        s == Symbols(image) IN
    /\ d.locals + d.externals + d.undefineds = Len(s)
    /\ \A n \in DOMAIN s :
         /\ s[n].ext <=> n > d.locals
         /\ s[n].type = "undf" <=> n > d.locals + d.externals
         /\ (n + 1 \in DOMAIN s /\ n > d.locals /\ n # d.locals + d.externals)
              => ~Precedes(s[n + 1].name, s[n].name)
=============================================================================
