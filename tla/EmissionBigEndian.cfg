CONSTANTS
    U16Max = 7
    U8Max = 3
    SectionMax = 5
    SymNums = 8
    BigEndians = {TRUE}
    MaxSymbols = 1
    Objects <- MCObjects
    Buffers = {"memory"}
SPECIFICATION Spec
INVARIANT SectionsReadBack
