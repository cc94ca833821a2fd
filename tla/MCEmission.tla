----------------------------- MODULE MCEmission -----------------------------
(***************************************************************************)
(* Small objects for Emission: symbols of any shape under fixed sections,  *)
(* sections and relocations of any shape over fixed symbols, more sections *)
(* than a file can tell of, and section groups with their symbols in any   *)
(* order.                                                                  *)
(***************************************************************************)
EXTENDS Emission

CONSTANTS
    BigEndians,   \* the byte orders of Mach-O files: FALSE, TRUE
    MaxSymbols    \* how many symbols of any shape an object has

----------------------------------------------------------------------------
Symbol(kind, name, section, scope, weak) ==
    [kind |-> kind, name |-> name, section |-> section, scope |-> scope,
     weak |-> weak, value |-> IF section > 0 THEN 3 ELSE 0, size |-> 7]

(* Names: short, and too long for the field of a symbol.                   *)
Names == {<<3>>, <<9>>}

Strong(kinds, sections, scopes) ==
    {Symbol(k, n, s, c, FALSE) : k \in kinds, n \in Names, s \in sections, c \in scopes}

Weak(sections, scopes) ==
    {Symbol("data", n, s, c, TRUE) : n \in Names, s \in sections, c \in scopes}

Files(names) == {Symbol("file", n, NoSection, "compilation", FALSE) : n \in names}

SectionSymbol(k) == Symbol("section", <<2>>, k, "compilation", FALSE)

(* A file name may take more than one auxiliary entry of a COFF file.      *)
Shapes(fmt) ==
    CASE fmt = "coff" ->
           Strong({"data"}, {Undefined, Absolute, Common, 1}, {"compilation", "linkage"})
           \cup Strong({"text"}, {1}, {"compilation"})
           \cup Weak({Undefined, Absolute, 1}, {"linkage"})
           \cup Files({<<3>>, <<20>>}) \cup {SectionSymbol(1)}
      [] fmt = "xcoff" ->
           Strong({"data"}, {Undefined, Absolute, Common, 2}, {"compilation", "linkage", "dynamic"})
           \cup Weak({2}, {"linkage"})
           \cup Files(Names) \cup {SectionSymbol(1)}
      [] fmt = "macho" ->
           Strong({"data"}, {Undefined, Absolute, 2}, {"compilation", "linkage", "dynamic"})
           \cup Weak({1}, {"dynamic"}) \cup {Symbol("data", <<3>>, Common, "linkage", FALSE)}
           \cup Files({<<3>>}) \cup {SectionSymbol(1)}

----------------------------------------------------------------------------
Reloc(at, symbol, addend) == [offset |-> at, symbol |-> symbol, addend |-> addend]

Section(kind, name, size, align, relocs) ==
    [kind |-> kind, name |-> name, size |-> size, align |-> align, relocs |-> relocs]

Object(fmt, wide, big, sections, symbols, comdats) ==
    [fmt |-> fmt, wide |-> wide, big |-> big, explicit |-> FALSE, version |-> FALSE,
     sections |-> sections, symbols |-> symbols, comdats |-> comdats]

Widths(fmt) == IF fmt = "coff" THEN {FALSE} ELSE BOOLEAN
Orders(fmt) == IF fmt = "macho" THEN BigEndians ELSE {FALSE}

(* Symbols of any shape; a relocation is for the last, unless it is that   *)
(* of a file, which no relocation is for.                                  *)
AnySymbols(fmt) ==
    {Object(fmt, w, b,
        <<Section("text", <<2>>, 5, 4,
             IF symbols = <<>> \/ Last(symbols).kind = "file" THEN <<>>
             ELSE <<Reloc(1, Len(symbols), 0)>>),
          Section("bss", <<4>>, 6, 1, <<>>)>>,
        symbols, <<>>) :
            w \in Widths(fmt), b \in Orders(fmt),
            symbols \in UNION {[1..n -> Shapes(fmt)] : n \in 0..MaxSymbols}}

(* Relocations: none to more than a header can count, upwards, downwards,  *)
(* and in a Mach-O file with addends.                                      *)
Downwards(n) == [j \in 1..n |-> Reloc(n - j, (j % 3) + 1, 0)]

Fillings(fmt) ==
    {<<>>, <<Reloc(1, 2, 0)>>, <<Reloc(0, 2, 0), Reloc(4, 1, 0)>>,
     Downwards(U16Max), Downwards(U16Max + 1)}
    \cup (IF fmt = "macho"
          THEN {<<Reloc(0, 2, -2), Reloc(4, 3, 1)>>, <<Reloc(4, 2, 0), Reloc(0, 1, -1)>>}
          ELSE {})

(* A file, a weak symbol and a strong one: their indices are neither their *)
(* numbers nor, in a Mach-O file, in their order.                          *)
AnySections(fmt) ==
    {[Object(fmt, w, b,
        <<Section(k, name, size, a, relocs), Section("data", <<2>>, 3, 8, others)>>,
        <<Symbol("data", <<9>>, Absolute, "linkage", FALSE),
          IF fmt = "xcoff" THEN Symbol("data", <<3>>, 2, "compilation", FALSE)
          ELSE SectionSymbol(2),
          Symbol("data", <<3>>, 2, "linkage", TRUE)>>, <<>>)
        EXCEPT !.version = v, !.explicit = v] :
            w \in Widths(fmt), b \in Orders(fmt),
            v \in IF fmt = "macho" THEN BOOLEAN ELSE {FALSE},
            k \in {"text", "bss", "debug"}, size \in {0, 9}, a \in {1, 16},
            name \in IF fmt = "coff" THEN Names ELSE {<<3>>},
            relocs \in Fillings(fmt), others \in {<<>>, <<Reloc(0, 2, 0)>>}}

(* As many sections as the fields of a file can tell of, and more: a       *)
(* symbol of each, and a weak one of the last.                             *)
Counts(fmt) ==
    CASE fmt = "coff"  -> {SectionMax - 1, SectionMax, U16Max, U16Max + 1}
      [] fmt = "xcoff" -> {U16Max \div 2, U16Max \div 2 + 1, U16Max, U16Max + 1}
      [] fmt = "macho" -> {U8Max, U8Max + 1}

ManySections(fmt) ==
    {Object(fmt, w, b,
        [k \in 1..n |->
            Section("data", <<2>>, 4, 4, IF k = n THEN <<Reloc(0, n, 0)>> ELSE <<>>)],
        [k \in 1..n + 1 |->
            IF k > n THEN Symbol("data", <<9>>, n, "linkage", TRUE)
            ELSE Symbol("data", <<3>>, k, "linkage", FALSE)], <<>>) :
            n \in Counts(fmt), w \in Widths(fmt), b \in Orders(fmt)}

(* Groups of one or both sections, with their symbols in any order.        *)
Groups ==
    {Object("coff", FALSE, FALSE,
        <<Section("text", <<2>>, 5, 4, <<>>), Section("data", <<4>>, 3, 4, <<>>)>>,
        [i \in 1..4 |-> <<SectionSymbol(1), SectionSymbol(2),
                          Symbol("text", <<3>>, 1, "linkage", w),
                          Symbol("data", <<9>>, l, "linkage", w2)>>[p[i]]],
        IF both THEN <<[symbol |-> CHOOSE i \in 1..4 : p[i] = 3, sections |-> {1, 2}]>>
        ELSE <<[symbol |-> CHOOSE i \in 1..4 : p[i] = 3, sections |-> {1}],
               [symbol |-> CHOOSE i \in 1..4 : p[i] = 4, sections |-> {2}]>>) :
            p \in {q \in [1..4 -> 1..4] : IsInjective(q)},
            both \in BOOLEAN, l \in {1, 2}, w \in BOOLEAN, w2 \in BOOLEAN}

MCObjects ==
    {o \in UNION {AnySymbols(fmt) \cup AnySections(fmt) \cup ManySections(fmt) :
                     fmt \in {"coff", "xcoff", "macho"}}
           \cup Groups : BigEndians = {FALSE} \/ o.fmt = "macho"}
=============================================================================
