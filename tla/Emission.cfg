CONSTANTS
    U16Max = 7
    U8Max = 3
    SectionMax = 5
    SymNums = 8
    BigEndians = {FALSE}
    MaxSymbols = 2
    Objects <- MCObjects
    Buffers = {"memory", "stream"}
SPECIFICATION Spec
INVARIANTS AllDelivered SymbolsReadBack SectionsReadBack ComdatsReadBack
PROPERTY ImplementsLayout
