CONSTANTS
    Is64 = TRUE
    IsRela = TRUE
    LoReserve = 4
    Kinds = {"symtab", "symtab_shndx", "strtab", "shstrtab", "shdrs"}
    LooseKinds = {"data", "reloc", "comdat"}
    Counts = {0, 1, 2, 5}
    Sizes = {5}
    Aligns = {16}
    NameBytes = {2}
    MaxRanges = 20
    MaxIndices = 20
    MaxSymbols = 3
    MaxStrings = 9
    ShndxAfterSymtab = TRUE
    MaxComdats = 1
    MaxMembers = 1
    MaxSections = 2
    MaxRelocs = 2
SPECIFICATION ObjectSpec
INVARIANTS LocalsFirst SymbolsResolve
           RelocationsResolve GroupsResolve
PROPERTY ObeysWriter
