CONSTANTS
    Is64 = TRUE
    IsRela = TRUE
    LoReserve = 3
    Kinds = {"symtab", "symtab_shndx", "attributes", "shstrtab", "shdrs"}
    LooseKinds = {}
    Counts = {5}
    Aligns = {16}
    NameBytes = {2}
    MaxRanges = 6
    MaxIndices = 5
    MaxSymbols = 3
    MaxStrings = 1
    ShndxAfterSymtab = TRUE
SPECIFICATION Spec
INVARIANTS TypeOK NoPanic HeadersDescribe ReadBack
CHECK_DEADLOCK FALSE
