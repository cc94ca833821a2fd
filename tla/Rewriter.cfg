SPECIFICATION Spec
CONSTANTS
    Lengths <- MCLengths
    Files <- MCFiles
    SymbolNames <- MCSymbolNames
    Renames <- MCRenames
    SectionNames <- MCSectionNames
    SectionRenames <- MCSectionRenames
    Libraries <- MCLibraries
    Paths <- MCPaths
    Interpreters <- MCInterpreters
    MaxEdits = 2
INVARIANTS ReadsBack LoadsApart
PROPERTY Finishes
