---------------------------- MODULE XcoffObject ----------------------------
(***************************************************************************)
(* XCOFF objects: xcoff_write of write/xcoff.rs, and what read/xcoff makes *)
(* of the file.                                                            *)
(***************************************************************************)
EXTENDS ObjectFile

HeaderSize(o)  == IF o.wide THEN 24 ELSE 20
SectionSize(o) == IF o.wide THEN 72 ELSE 40
RelocSize(o)   == IF o.wide THEN 14 ELSE 10
SymbolSize     == 18

----------------------------------------------------------------------------
(* The plan.                                                               *)

(* Only these sections have addresses, which leave room for their data and *)
(* so none for uninitialized data.                                         *)
HasAddress(s) == s.kind \in {"text", "data", "bss"}

Address(o, k) ==
    LET Advance(addr, s) == IF HasAddress(s) THEN AlignUp(addr + DataLen(s), 4) ELSE addr
    IN IF HasAddress(o.sections[k])
       THEN FoldLeft(Advance, 0, SubSeq(o.sections, 1, k - 1)) ELSE 0

StorageClass(s) ==
    IF s.kind = "file" THEN "file" ELSE IF IsLocal(s) THEN "static"
    ELSE IF s.weak THEN "weak_external" ELSE "external"

IsExternal(class) == class \in {"external", "weak_external"}

(* Symbols of other kinds cannot be written.                               *)
Refused(o) ==
    \E i \in DOMAIN o.symbols : o.symbols[i].kind \notin {"file", "text", "data"}

AuxCount(s) == IF StorageClass(s) = "file" \/ IsExternal(StorageClass(s)) THEN 1 ELSE 0

Slots(s) == 1 + AuxCount(s)

SymbolCount(o) == Total(Slots, o.symbols)

SymbolIndex(o, i) == Total(Slots, SubSeq(o.symbols, 1, i - 1))

(* 64-bit symbols have no room for a name, but the auxiliary entry of a    *)
(* file does.                                                              *)
InStrings(o, s) ==
    NameLen(s.name) > 8 \/ (o.wide /\ StorageClass(s) # "file")

Strings(o) ==
    {o.symbols[i].name : i \in {j \in DOMAIN o.symbols : InStrings(o, o.symbols[j])}}
    \cup (IF o.wide /\ \E i \in DOMAIN o.symbols : o.symbols[i].kind = "file"
          THEN {<<5>>} ELSE {})

Plan(o) ==
    <<Request("header", 0, HeaderSize(o), 1, 0),
      Request("sections", 0, Len(o.sections) * SectionSize(o), 1, 0)>>
    \o [n \in DOMAIN Where(o.sections, LAMBDA s: DataLen(s) # 0) |->
           LET k == Where(o.sections, LAMBDA s: DataLen(s) # 0)[n]
           IN Request("data", k, DataLen(o.sections[k]), 4, 0)]
    \o [n \in DOMAIN Where(o.sections, LAMBDA s: s.relocs # <<>>) |->
           LET k == Where(o.sections, LAMBDA s: s.relocs # <<>>)[n]
           IN Request("relocs", k, Len(o.sections[k].relocs) * RelocSize(o), 1, 0)]
    \o <<Request("symbols", 0, SymbolCount(o) * SymbolSize, 1, 0),
         Request("strings", 0, StringsLen(4, Strings(o)), 1, 0)>>

----------------------------------------------------------------------------
(* Writing.                                                                *)

Order(o) ==
    <<[kind |-> "header", id |-> 0], [kind |-> "sections", id |-> 0]>>
    \o [n \in DOMAIN Where(o.sections, LAMBDA s: DataLen(s) # 0) |->
           [kind |-> "data", id |-> Where(o.sections, LAMBDA s: DataLen(s) # 0)[n]]]
    \o [n \in DOMAIN Where(o.sections, LAMBDA s: s.relocs # <<>>) |->
           [kind |-> "relocs", id |-> Where(o.sections, LAMBDA s: s.relocs # <<>>)[n]]]
    \o <<[kind |-> "symbols", id |-> 0], [kind |-> "strings", id |-> 0]>>

Position(o, call, buf, offset) ==
    IF call.kind = "data" THEN AlignUp(buf, 4) ELSE buf

SectionEntry(o, k, offset) ==
    LET s == o.sections[k] IN
    [tag |-> "section", name |-> s.name, address |-> Address(o, k), size |-> DataLen(s),
     data |-> offset["data", k], relocs |-> offset["relocs", k],
     count |-> IF o.wide THEN Len(s.relocs) ELSE U16(Len(s.relocs))]

SymbolNumber(s) == IF s.section = Common THEN Undefined ELSE I16(s.section)

SymbolValue(o, s) ==
    s.value + (IF s.section > 0 THEN Address(o, s.section) ELSE 0)

(* A name is in its field or, if it has a string, in the string table.     *)
NameEntry(o, name, long) == [long |-> long, name |-> name]

SymbolWritten(o, i) ==
    LET s == o.symbols[i]  class == StorageClass(s) IN
    <<[tag |-> "symbol", class |-> class, aux |-> AuxCount(s),
       name |-> IF class = "file" THEN NameEntry(o, <<5>>, o.wide)
                ELSE NameEntry(o, s.name, InStrings(o, s)),
       value |-> SymbolValue(o, s), number |-> SymbolNumber(s),
       hidden |-> s.scope = "linkage" /\ IsExternal(class)]>>
    \o (IF class = "file"
        THEN <<[tag |-> "aux", name |-> NameEntry(o, s.name, InStrings(o, s))]>>
        ELSE IF IsExternal(class) THEN <<[tag |-> "aux", length |-> s.size]>> ELSE <<>>)

Content(o, call, offset) ==
    CASE call.kind = "header" ->
           <<[tag |-> "header", wide |-> o.wide,
              sections |-> U16(Len(o.sections)),
              symbols |-> offset["symbols", 0], count |-> SymbolCount(o)]>>
      [] call.kind = "sections" -> [k \in DOMAIN o.sections |-> SectionEntry(o, k, offset)]
      [] call.kind = "data" -> <<[tag |-> "data", section |-> call.id]>>
      [] call.kind = "relocs" ->
           [j \in DOMAIN o.sections[call.id].relocs |->
               LET r == o.sections[call.id].relocs[j] IN
               [tag |-> "reloc", address |-> r.offset, symbol |-> SymbolIndex(o, r.symbol)]]
      [] call.kind = "symbols" ->
           FlattenSeq([i \in DOMAIN o.symbols |-> SymbolWritten(o, i)])
      [] call.kind = "strings" -> <<[tag |-> "strings", names |-> Strings(o)]>>

EntrySize(o, call) ==
    CASE call.kind = "header"   -> HeaderSize(o)
      [] call.kind = "sections" -> SectionSize(o)
      [] call.kind = "data"     -> DataLen(o.sections[call.id])
      [] call.kind = "relocs"   -> RelocSize(o)
      [] call.kind = "symbols"  -> SymbolSize
      [] call.kind = "strings"  -> StringsLen(4, Strings(o))

----------------------------------------------------------------------------
(* The reader.                                                             *)

Symbols(image) ==
    LET h == EntryAt(image, 0) IN Slice(image, h.symbols, SymbolSize, h.count)

(* A 32-bit name that starts with a null byte is an offset, 0 if empty.    *)
ReadName(image, n) ==
    LET h == EntryAt(image, 0)
        strings == EntryAt(image, h.symbols + h.count * SymbolSize) IN
    IF n.long THEN IF strings.tag = "strings" /\ n.name \in strings.names
                   THEN n.name ELSE Garbage
    ELSE IF n.name = <<>> THEN Garbage ELSE n.name

Sections(image) ==
    LET h == EntryAt(image, 0)
    IN Slice(image, HeaderSize(h), SectionSize(h), h.sections)

(* The largest count stands for an overflow, which is not read.            *)
Relocations(image, section) ==
    LET h == EntryAt(image, 0) IN
    IF ~h.wide /\ section.count = U16Max THEN <<[tag |-> "none"]>>
    ELSE Slice(image, section.relocs, RelocSize(h), section.count)

SymbolRead(image, i) ==
    LET symbols == Symbols(image)  e == symbols[i + 1]
        aux == symbols[i + 2] IN
    [name |-> IF e.class = "file" /\ e.aux > 0 THEN ReadName(image, aux.name)
              ELSE ReadName(image, e.name),
     section |-> IF e.number >= NoSection THEN e.number ELSE Unknown,
     weak |-> e.class = "weak_external",
     scope |-> IF e.number = Undefined THEN "unknown"
               ELSE IF IsExternal(e.class) THEN IF e.hidden THEN "linkage" ELSE "dynamic"
               ELSE "compilation",
     address |-> IF e.class = "file" THEN 0 ELSE e.value,
     size |-> IF IsExternal(e.class) /\ e.aux > 0 THEN aux.length ELSE 0]
=============================================================================
