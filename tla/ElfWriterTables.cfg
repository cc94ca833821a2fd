CONSTANTS
    Is64 = FALSE
    IsRela = TRUE
    LoReserve = 2
    Kinds = {"phdrs", "strtab", "dynstr", "dynsym", "versym", "dynamic", "hash",
             "gnu_hash", "verdef", "verneed", "attributes", "shstrtab", "shdrs"}
    LooseKinds = {"data", "reloc", "comdat", "until"}
    Counts = {3}
    Aligns = {16}
    NameBytes = {2}
    MaxRanges = 4
    MaxIndices = 1
    MaxSymbols = 2
    MaxStrings = 1
    ShndxAfterSymtab = TRUE
SPECIFICATION Spec
INVARIANT Complete
PROPERTY ImplementsLayout
CHECK_DEADLOCK FALSE
