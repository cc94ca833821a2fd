------------------------------ MODULE MCObject ------------------------------
(***************************************************************************)
(* Four targets: a COFF object with uninitialized data, a read-only        *)
(* section that two standard sections share, and relocations through       *)
(* stubs; one section of a COFF object with several relocations for each   *)
(* of two places; a COFF object for an architecture without generic        *)
(* relocations; and a Mach-O object with thread-local variables and        *)
(* subsections via symbols.  An implicit addend may not fit the data of a  *)
(* COFF section, and the cells of the client's data are not 0; three of    *)
(* the Mach-O pointers of a thread-local variable are six cells, so there  *)
(* is room for two variables.                                              *)
(***************************************************************************)
EXTENDS Object

CONSTANTS MaxCoffSymbols, MaxAddends, MaxMachoSymbols  \* bounds

Coff == [format |-> "coff", implicit |-> TRUE, pcAdjust |-> 4,
         viaSymbols |-> FALSE, pointer |-> 1, relocates |-> TRUE,
         infos |-> {"ReadOnlyData", "UninitializedData"},
         standards |-> {"ReadOnlyString"}, kinds |-> {"Other"},
         data |-> {<<3>>}, sizes |-> {1}, aligns |-> {1},
         addends |-> {}, places |-> {0},
         relocKinds |-> {"abs", "got"},
         maxSections |-> 3, maxSymbols |-> MaxCoffSymbols,
         maxData |-> 1, maxRelocs |-> 1]

Addends == [Coff EXCEPT !.infos = {"ReadOnlyData"}, !.standards = {},
                        !.aligns = {1, 2}, !.addends = {0}, !.places = {0, 1},
                        !.relocKinds = {"abs", "pcrel"},
                        !.maxSections = 1, !.maxSymbols = 1,
                        !.maxData = 3, !.maxRelocs = MaxAddends]

PowerPc == [Coff EXCEPT !.relocates = FALSE, !.infos = {"ReadOnlyData"},
                        !.relocKinds = {"got", "raw"}, !.addends = {0},
                        !.maxSections = 3, !.maxSymbols = 2]

Macho == [format |-> "macho", implicit |-> TRUE, pcAdjust |-> 4,
          viaSymbols |-> TRUE, pointer |-> 2, relocates |-> TRUE,
          infos |-> {"Tls"}, standards |-> {"TlsVariables"},
          kinds |-> {"Tls", "Text"},
          data |-> {<<>>}, sizes |-> {0}, aligns |-> {1},
          addends |-> {0}, places |-> {},
          relocKinds |-> {},
          maxSections |-> 3, maxSymbols |-> MaxMachoSymbols,
          maxData |-> 13, maxRelocs |-> 4]

MCTargets == {Coff, Addends, PowerPc, Macho}
===============================================================================
