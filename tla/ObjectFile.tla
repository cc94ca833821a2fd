----------------------------- MODULE ObjectFile -----------------------------
(***************************************************************************)
(* An object that is ready to be written (write::Object), and the terms in *)
(* which files of it are described: names, positions, and images, which    *)
(* map the offset at which an entry starts to that entry.  CoffObject,     *)
(* XcoffObject and MachoObject say how each format is laid out, written    *)
(* and read; Emission makes a step of each call.                           *)
(*                                                                         *)
(* An object is a record of                                                *)
(*   fmt       "coff", "xcoff" or "macho"                                  *)
(*   wide      TRUE for 64-bit files,   big   TRUE for big-endian ones     *)
(*   explicit  whether relocations can hold an addend (Mach-O for ARM64)   *)
(*   version   whether a build version was set (Mach-O)                    *)
(*   sections  <<[kind, name, size, align, relocs]>>, relocs being         *)
(*             <<[offset, symbol, addend]>>                                *)
(*   symbols   <<[kind, name, section, scope, weak, value, size]>>         *)
(*   comdats   <<[symbol, sections]>>                                      *)
(***************************************************************************)
EXTENDS Integers, Sequences, FiniteSets, SequencesExt

CONSTANTS
    U16Max,    \* the largest 16-bit count, 65535 in the code
    U8Max,     \* the largest 8-bit count, 255 in the code
    SectionMax,  \* IMAGE_SYM_SECTION_MAX, 0xFEFF in the code
    SymNums    \* how many values a Mach-O symbol number has, 2^24 in the code

ASSUME LimitsAssumption ==
    /\ U16Max \in Nat \ {0} /\ U8Max \in Nat \ {0} /\ SymNums \in Nat \ {0}
    /\ U16Max % 2 = 1 /\ SectionMax \in U16Max \div 2 + 1..U16Max - 1

(* Casts.  Where the code adds 1 behind one, a sum that does not fit wraps *)
(* round in a release build and panics in a debug build.                   *)
U8(n)  == n % (U8Max + 1)
U16(n) == n % (U16Max + 1)
I16(n) == IF 2 * U16(n) > U16Max THEN U16(n) - (U16Max + 1) ELSE U16(n)

----------------------------------------------------------------------------
(* Where a symbol is, if not in section 1, 2, ...                          *)
Undefined == 0
Absolute  == -1
NoSection == -2
Common    == -3
Unknown   == -4

(* A name is the sequence of the lengths of the pieces it is made of; the  *)
(* pieces that are used have different lengths.                            *)
NameLen(name) == FoldSeq(+, 0, name)

(* What a reader makes of a name it cannot find, and of one that is not in *)
(* the file at all.                                                        *)
Garbage == <<0>>

(* Padding a position, or a size.                                          *)
AlignUp(n, a) == ((n + a - 1) \div a) * a

IsBss(section) == section.kind = "bss"

(* Uninitialized data has a size and no data.                              *)
DataLen(section) == IF IsBss(section) THEN 0 ELSE section.size

IsLocal(symbol) == symbol.scope = "compilation"

Total(f(_), s) == FoldLeft(LAMBDA sum, x: sum + f(x), 0, s)

(* The positions of s that satisfy Test, in order.                         *)
Where(s, Test(_)) ==
    SelectSeq([i \in 1..Len(s) |-> i], LAMBDA i: Test(s[i]))

(* A string table with these names, behind a header.  A name is its own    *)
(* offset: StringTable has the offsets.                                    *)
StringsLen(header, names) ==
    header + FoldSet(LAMBDA n, sum: sum + NameLen(n) + 1, 0, names)

----------------------------------------------------------------------------
(* A request for a range of the file, and the whole plan of them.          *)
Request(kind, id, size, align, base) ==
    [kind |-> kind, id |-> id, size |-> size, align |-> align, base |-> base]

(* Entries of one size in a row; what has no size is nowhere.              *)
Lay(at, size, entries) ==
    [p \in {at + size * (k - 1) : k \in IF size = 0 THEN {} ELSE 1..Len(entries)} |->
        entries[(p - at) \div size + 1]]

EntryAt(image, at) ==
    IF at \in DOMAIN image THEN image[at] ELSE [tag |-> "none"]

(* What a reader takes for n entries from an offset on.                    *)
Slice(image, at, size, n) == [k \in 1..n |-> EntryAt(image, at + size * (k - 1))]

AllTagged(entries, tag) == \A k \in DOMAIN entries : entries[k].tag = tag
(* The indices of the symbols that a reader comes by, each behind the      *)
(* auxiliary entries that the one before says it has.                      *)
Iterated(symbols) ==
    LET Steps(seen) ==
          seen \cup {i + 1 + symbols[i + 1].aux :
                        i \in {j \in seen : j < Len(symbols)
                                            /\ symbols[j + 1].tag = "symbol"}}
        upto[n \in 0..Len(symbols)] == IF n = 0 THEN {0} ELSE Steps(upto[n - 1])
    IN {i \in upto[Len(symbols)] : i < Len(symbols)}
=============================================================================
