CONSTANTS
    Byte = {1, 2}
    MaxLen = 3
    MaxStrings = 4
    Formats = {"elf", "coff"}
SPECIFICATION Spec
INVARIANTS TailsMerged SizeAgrees
PROPERTY ImplementsPool
CHECK_DEADLOCK FALSE
