CONSTANTS
    Targets <- MCTargets
    MaxCoffSymbols = 3
    MaxAddends = 3
    MaxMachoSymbols = 5
SPECIFICATION Spec
INVARIANTS StandardFirst OneSectionSymbol StubsResolve AddendsKept Placed
           ThreadVars
PROPERTY FailureKeeps
CHECK_DEADLOCK FALSE
