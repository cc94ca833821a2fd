------------------------------ MODULE StringPool ------------------------------
(***************************************************************************)
(* What a string table promises to the rest of the crate: strings are      *)
(* interned while the table is open, and once it is laid out every one of  *)
(* them can be read back from the offset handed out for it.  Nothing is    *)
(* said of the order of the strings in the table or of which strings share *)
(* bytes; StringTable implements it with tail merging.                     *)
(***************************************************************************)
EXTENDS Naturals, Sequences, SequencesExt

CONSTANT String             \* the null-free byte strings of interest

VARIABLES strings,          \* the interned strings, in order of their ids
          offsets,          \* id -> offset, empty until strings are laid out
          image             \* the bytes of the table, header included

vars == <<strings, offsets, image>>

(* The reader's view of a table: the bytes from an offset up to the next   *)
(* null byte, or no string at all when there is no such byte: <<0>>, a    *)
(* sequence that is not null-free.                                         *)
NoString == <<0>>

ReadAt(table, offset) ==
    LET nulls == {j \in (offset + 1)..Len(table) : table[j] = 0}
    IN  IF nulls = {} THEN NoString
        ELSE SubSeq(table, offset + 1, Min(nulls) - 1)

Init == strings = <<>> /\ offsets = <<>> /\ image = <<>>

Add(s) ==
    /\ offsets = <<>>
    /\ strings' = IF Contains(strings, s) THEN strings ELSE Append(strings, s)
    /\ UNCHANGED <<offsets, image>>

Lay ==
    /\ offsets = <<>>
    /\ DOMAIN offsets' = DOMAIN strings
    /\ \A id \in DOMAIN strings : ReadAt(image', offsets'[id]) = strings[id]
    /\ UNCHANGED strings

Next == Lay \/ \E s \in String : Add(s)

Spec == Init /\ [][Next]_vars
===============================================================================
