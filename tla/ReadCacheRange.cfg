CONSTANTS
    Ops = {"until"}
    Bytes = {0, 1}
    Delims = {0}
    FileLen = 4
    Chunk = 2
    Limit = 3
    Lengths = {2}
    Direct = Direct
    Offsets = {}
    WindowSize = 0
    MaxEntries = 2
SPECIFICATION Spec
INVARIANT FoundInRange
