SPECIFICATION Spec
CONSTANTS
    Lengths <- MCLengths
    Files <- MCRoomy
    SymbolNames <- MCSymbolNames
    Renames <- None
    SectionNames <- None
    SectionRenames <- None
    Libraries <- None
    Paths <- None
    Interpreters <- MCInterpreters
    MaxEdits = 1
INVARIANT InterpreterCovered
