------------------------------ MODULE Emission ------------------------------
(***************************************************************************)
(* Object::emit for COFF, XCOFF and Mach-O (write/coff/object.rs,          *)
(* write/xcoff.rs, write/macho.rs), a step for each range that is reserved *)
(* and for each call that writes one, into memory or through               *)
(* Object::write_stream into a stream that may fail (write/util.rs).       *)
(***************************************************************************)
EXTENDS ObjectFile

CONSTANTS
    Objects,   \* the objects that are written
    Buffers    \* what into: "memory", "stream"

ASSUME BuffersAssumption == Buffers \subseteq {"memory", "stream"}

VARIABLES
    obj,       \* the object
    buffer,    \* what it is written into
    phase,     \* "reserve", "write", "ok" or "error"
    ranges,    \* the ranges reserved: [kind, id, offset, size]
    cur,       \* how many of them are written
    buf,       \* the length of the buffer
    landed,    \* where each was put: [range, at]
    image,     \* the entries written, by their offsets
    taken,     \* how many bytes the stream took
    failed     \* whether the stream failed

vars == <<obj, buffer, phase, ranges, cur, buf, landed, image, taken, failed>>

----------------------------------------------------------------------------
(* The formats.                                                            *)
Coff  == INSTANCE CoffObject
Xcoff == INSTANCE XcoffObject
Macho == INSTANCE MachoObject

Refused(o) == CASE o.fmt = "coff"  -> Coff!Refused(o)
                [] o.fmt = "xcoff" -> Xcoff!Refused(o)
                [] o.fmt = "macho" -> Macho!Refused(o)

Plan(o) == CASE o.fmt = "coff"  -> Coff!Plan(o)
             [] o.fmt = "xcoff" -> Xcoff!Plan(o)
             [] o.fmt = "macho" -> Macho!Plan(o)

Order(o) == CASE o.fmt = "coff"  -> Coff!Order(o)
              [] o.fmt = "xcoff" -> Xcoff!Order(o)
              [] o.fmt = "macho" -> Macho!Order(o)

Position(o, call, at, offset) ==
    CASE o.fmt = "coff"  -> Coff!Position(o, call, at, offset)
      [] o.fmt = "xcoff" -> Xcoff!Position(o, call, at, offset)
      [] o.fmt = "macho" -> Macho!Position(o, call, at, offset)

Content(o, call, offset) ==
    CASE o.fmt = "coff"  -> Coff!Content(o, call, offset)
      [] o.fmt = "xcoff" -> Xcoff!Content(o, call, offset)
      [] o.fmt = "macho" -> Macho!Content(o, call, offset)

EntrySize(o, call) ==
    CASE o.fmt = "coff"  -> Coff!EntrySize(o, call)
      [] o.fmt = "xcoff" -> Xcoff!EntrySize(o, call)
      [] o.fmt = "macho" -> Macho!EntrySize(o, call)

(* What cannot be written is found out at this call.                       *)
Unwritable(o, call) ==
    \/ o.fmt = "coff"  /\ call.kind = "symbols" /\ Coff!WeakNowhere(o)
    \/ o.fmt = "macho" /\ call.kind = "relocs"  /\ Macho!NoAddend(o)
    \/ o.fmt = "macho" /\ call.kind = "symbols" /\ Macho!NoPlace(o)

(* The calls that also look at the architecture, the kinds and the flags   *)
(* of what they write, and refuse those that they do not know.             *)
Picky == {"header", "sections", "relocs", "symbols"}

----------------------------------------------------------------------------
Init ==
    /\ obj \in Objects /\ buffer \in Buffers
    /\ phase = "reserve"
    /\ ranges = <<>> /\ cur = 0 /\ buf = 0 /\ landed = <<>>
    /\ image = <<>> /\ taken = 0 /\ failed = FALSE

(* Refused before the first range is reserved.                             *)
Refuse ==
    /\ phase = "reserve" /\ ranges = <<>> /\ Refused(obj)
    /\ phase' = "error"
    /\ UNCHANGED <<obj, buffer, ranges, cur, buf, landed, image, taken, failed>>

(* The next range, behind what is reserved so far.                         *)
ReservedLen == IF ranges = <<>> THEN 0 ELSE Last(ranges).offset + Last(ranges).size

Reserve ==
    /\ phase = "reserve" /\ ~Refused(obj) /\ Len(ranges) < Len(Plan(obj))
    /\ LET r == Plan(obj)[Len(ranges) + 1] IN
         ranges' = Append(ranges,
             [kind |-> r.kind, id |-> r.id, size |-> r.size,
              offset |-> r.base + AlignUp(ReservedLen - r.base, r.align)])
    /\ UNCHANGED <<obj, buffer, phase, cur, buf, landed, image, taken, failed>>

(* The buffer is told the length.                                          *)
Start ==
    /\ phase = "reserve" /\ ~Refused(obj) /\ Len(ranges) = Len(Plan(obj))
    /\ phase' = "write"
    /\ UNCHANGED <<obj, buffer, ranges, cur, buf, landed, image, taken, failed>>

(* The offsets that the calls kept of their reservations, 0 where nothing  *)
(* was reserved.                                                           *)
Offsets ==
    [kind \in {"data", "relocs", "symbols", "strings"}, id \in 0..Len(obj.sections) |->
        LET at == Where(ranges, LAMBDA r: r.kind = kind /\ r.id = id)
        IN IF at = <<>> THEN 0 ELSE ranges[at[1]].offset]

(* Mutant: a later write that succeeds hides that an earlier one failed.   *)
Bug_Deliver(to) ==
    IF buffer = "memory" THEN UNCHANGED <<taken, failed>>
    ELSE \/ taken' = taken + (to - buf) /\ failed' = FALSE
         \/ to > buf /\ taken' \in {taken, taken + (to - buf) - 1} /\ failed' = TRUE

(* The buffer grows.  A stream takes it all, or fails within it; once it   *)
(* has, no more is written to it.                                          *)
Deliver(to) ==
    IF buffer = "memory" \/ failed THEN UNCHANGED <<taken, failed>>
    ELSE \/ taken' = taken + (to - buf) /\ UNCHANGED failed
         \/ to > buf /\ taken' \in {taken, taken + (to - buf) - 1} /\ failed' = TRUE

NextCall == Order(obj)[cur + 1]

(* The next call: padding, and its entries.                                *)
Write ==
    /\ phase = "write" /\ cur < Len(Order(obj)) /\ ~Unwritable(obj, NextCall)
    /\ LET at == Position(obj, NextCall, buf, Offsets)
           entries == Content(obj, NextCall, Offsets)
           size == EntrySize(obj, NextCall) IN
         /\ buf' = at + size * Len(entries)
         /\ image' = image @@ Lay(at, size, entries)
         /\ landed' = Append(landed, [range |-> cur + 1, at |-> at])
    /\ cur' = cur + 1
    /\ Deliver(buf')
    /\ UNCHANGED <<obj, buffer, phase, ranges>>

(* The next call gives an error, behind some of its entries or none.       *)
Fail ==
    /\ phase = "write" /\ cur < Len(Order(obj))
    /\ Unwritable(obj, NextCall) \/ NextCall.kind \in Picky
    /\ phase' = "error"
    /\ UNCHANGED <<obj, buffer, ranges, cur, buf, landed, image, taken, failed>>

(* All is written; write_stream asks the stream for an error.              *)
Finish ==
    /\ phase = "write" /\ cur = Len(Order(obj))
    /\ phase' = IF failed THEN "error" ELSE "ok"
    /\ UNCHANGED <<obj, buffer, ranges, cur, buf, landed, image, taken, failed>>

Ended == phase \in {"ok", "error"} /\ UNCHANGED vars

Next == Refuse \/ Reserve \/ Start \/ Write \/ Fail \/ Finish \/ Ended

Spec == Init /\ [][Next]_vars
----------------------------------------------------------------------------
(* What a reader makes of the file.                                        *)
Written == phase = "ok"

SectionsOf(o) == CASE o.fmt = "coff"  -> Coff!Sections(image)
                   [] o.fmt = "xcoff" -> Xcoff!Sections(image)
                   [] o.fmt = "macho" -> Macho!Sections(image)

(* The names of COFF sections are looked up, the others are in place.      *)
SectionName(header) ==
    IF obj.fmt = "coff" THEN Coff!SectionName(image, header) ELSE header.name

(* The symbols that the reader of a COFF or XCOFF file comes by, but for   *)
(* the defaults of weak symbols, in order; all those of a Mach-O file.     *)
Listed ==
    LET symbols == IF obj.fmt = "xcoff" THEN Xcoff!Symbols(image) ELSE Coff!Symbols(image)
        defaults == {symbols[i].weak : i \in {j \in DOMAIN symbols :
                        symbols[j].tag = "aux" /\ "weak" \in DOMAIN symbols[j]}}
        InOrder(indices) ==
            SelectSeq([n \in DOMAIN symbols |-> n - 1], LAMBDA i: i \in indices)
    IN CASE obj.fmt = "macho" ->
              [n \in 1..Len(Macho!Symbols(image)) |-> n - 1]
         [] obj.fmt = "xcoff" ->
              InOrder(Iterated(symbols))
         [] obj.fmt = "coff" ->
              InOrder(Iterated(symbols) \ defaults)

(* The number of sections of a COFF or XCOFF file has 16 bits.  The COFF   *)
(* writer makes room for so many headers only, and writes all of them.     *)
Countable == obj.fmt = "macho" \/ Len(obj.sections) <= U16Max
Fits == obj.fmt = "coff" => Countable

(* The section of a symbol has 16 bits, of which a COFF reader takes the   *)
(* largest values for something else, or 15, or 8.                         *)
Numbered(s) ==
    s.section <= CASE obj.fmt = "coff"  -> SectionMax - 1
                   [] obj.fmt = "xcoff" -> U16Max \div 2
                   [] obj.fmt = "macho" -> U8Max

(* The symbol at an index of the table reads as symbol s of the object, if *)
(* its section can be told.                                                *)
CoffMatches(s, at) ==
    LET r == Coff!SymbolRead(image, at)
        symbols == Coff!Symbols(image)
        default == symbols[symbols[at + 2].weak + 1] IN
    /\ r.name = s.name /\ r.weak = s.weak
    /\ s.section \in {Undefined, Common} \/ s.weak \/ r.local = IsLocal(s)
    /\ s.weak \/ (Numbered(s) => r.section = s.section)
    /\ s.weak \/ s.section <= 0 \/ r.value = s.value
    /\ s.weak => /\ default.tag = "symbol" /\ default.class = "external"
                 /\ default.value = s.value
                 /\ Numbered(s) => Coff!SectionRead(default) =
                        IF s.section = Undefined THEN Absolute ELSE s.section

Based(s) == s.value + (IF s.section > 0 THEN SectionsOf(obj)[s.section].address ELSE 0)

XcoffMatches(s, at) ==
    LET r == Xcoff!SymbolRead(image, at) IN
    /\ r.name = s.name
    /\ Numbered(s) => r.section = IF s.section = Common THEN Undefined ELSE s.section
    /\ r.section = Undefined \/ s.kind = "file" \/ r.scope = s.scope
    /\ ~Countable \/ s.kind = "file" \/ IsLocal(s)
       \/ (r.weak = s.weak /\ r.size = s.size /\ r.address = Based(s))

MachoMatches(s, at) ==
    LET r == Macho!SymbolRead(image, at) IN
    /\ r.name = s.name /\ r.weak = s.weak
    /\ Numbered(s) => r.section = s.section
    /\ r.section = Undefined \/ r.scope = s.scope
    /\ r.address = Based(s)

Matches(i, at) ==
    CASE obj.fmt = "coff"  -> CoffMatches(obj.symbols[i], at)
      [] obj.fmt = "xcoff" -> XcoffMatches(obj.symbols[i], at)
      [] obj.fmt = "macho" -> MachoMatches(obj.symbols[i], at)

(* The relocations that a reader finds for a section, in the object's      *)
(* order: those of Mach-O may have been turned round.                      *)
Found(k) ==
    LET header == SectionsOf(obj)[k] IN
    CASE obj.fmt = "coff"  -> Coff!Relocations(image, header)
      [] obj.fmt = "xcoff" -> Xcoff!Relocations(image, header)
      [] obj.fmt = "macho" ->
           LET relocs == Macho!Relocations(image, header)
           IN IF Macho!NeedReverse(obj.sections[k].relocs)
              THEN Reverse(relocs) ELSE relocs

(* A relocation that was read is the one that was added: for the same      *)
(* place and, through the symbol table, the same symbol.  Mach-O refers to *)
(* the section of a section symbol instead.                                *)
RelocMatches(found, r) ==
    LET s == obj.symbols[r.symbol] IN
    /\ found.tag = "reloc" /\ found.address = r.offset
    /\ IF obj.fmt # "macho"
       THEN found.symbol = Listed[r.symbol]
       ELSE /\ found.addend = r.addend
            /\ found.extern = (s.kind # "section")
            /\ IF s.kind = "section" THEN found.target = s.section
               ELSE found.target < Len(Listed) /\ Matches(r.symbol, found.target)

----------------------------------------------------------------------------
(* The whole of the layout: whatever the format, every range is written    *)
(* where it was reserved, in the order of the reservations, and nothing is *)
(* written beyond it.  Nothing is said of a COFF object whose sections do  *)
(* not fit.                                                                *)
FL == INSTANCE FileLayout WITH
          ranges <- IF Fits THEN ranges ELSE <<>>, cur <- IF Fits THEN cur ELSE 0,
          extent <- IF Fits THEN buf ELSE 0, pieces <- IF Fits THEN landed ELSE <<>>

ImplementsLayout == FL!Spec

(* A file that is written has the length that the buffer was told, if its  *)
(* sections fit, and write_stream says so only if the stream took all of   *)
(* it, and took it without a gap.                                          *)
AllDelivered ==
    /\ Written => (Fits => buf = ReservedLen) /\ (buffer = "stream" => taken = buf)
    /\ taken <= buf /\ (~failed /\ buffer = "stream" => taken = buf)

(* A symbol keeps its identity: a COFF or XCOFF file lists the symbols of  *)
(* the object in order, whatever auxiliary entries and defaults of weak    *)
(* symbols lie between them, and a Mach-O file has those that are emitted, *)
(* in groups of which the dynamic symbol table tells the truth.  It keeps  *)
(* its section too, if that has one of the numbers that symbols can have.  *)
SymbolsReadBack ==
    Written /\ Fits =>
      IF obj.fmt = "macho"
      THEN LET emitted == {i \in DOMAIN obj.symbols : Macho!Emitted(obj.symbols[i])} IN
           /\ Len(Listed) = Cardinality(emitted)
           /\ \A i \in emitted : \E n \in DOMAIN Listed : Matches(i, Listed[n])
           /\ Macho!Partitioned(image)
      ELSE /\ Len(Listed) = Len(obj.symbols)
           /\ \A i \in DOMAIN Listed : Matches(i, Listed[i])

(* The header of a section tells where its data and its relocations are,   *)
(* and the relocations are for the symbols that they were added for, even  *)
(* where they outnumber what the header can count.  A 32-bit XCOFF header  *)
(* cannot tell of so many, and no COFF or XCOFF file of sections that      *)
(* cannot be counted.                                                      *)
SectionsReadBack ==
    Written /\ Countable =>
      /\ Len(SectionsOf(obj)) = Len(obj.sections)
      /\ \A k \in DOMAIN obj.sections :
           LET s == obj.sections[k]  header == SectionsOf(obj)[k] IN
           /\ header.tag = "section" /\ SectionName(header) = s.name
           /\ header.size = IF obj.fmt = "xcoff" THEN DataLen(s) ELSE s.size
           /\ DataLen(s) > 0 =>
                EntryAt(image, header.data) = [tag |-> "data", section |-> k]
           /\ (obj.fmt = "xcoff" /\ ~obj.wide => Len(s.relocs) < U16Max) =>
                /\ Len(Found(k)) = Len(s.relocs)
                /\ \A j \in DOMAIN s.relocs : RelocMatches(Found(k)[j], s.relocs[j])

(* A COFF reader finds the section groups of the object, each by the       *)
(* symbol that it was added with, if that is strong and the first of its   *)
(* section behind the section's own symbol.                                *)
Leads(o, c) ==
    LET section == o.symbols[c.symbol].section
        others == {i \in DOMAIN o.symbols :
                      i # c.symbol /\ o.symbols[i].section = section}
    IN ~o.symbols[c.symbol].weak
       /\ \A i \in others : IF o.symbols[i].kind = "section" THEN i < c.symbol
                             ELSE i > c.symbol

ComdatsReadBack ==
    (Written /\ obj.fmt = "coff" /\ Fits /\ \A k \in DOMAIN obj.comdats : Leads(obj, obj.comdats[k]))
      => Coff!Comdats(image) =
           {[symbol |-> Listed[obj.comdats[k].symbol],
             sections |-> obj.comdats[k].sections] : k \in DOMAIN obj.comdats}
=============================================================================
