CONSTANTS
    Ops = {"bytes", "until"}
    Bytes = {0, 1}
    Delims = {0}
    FileLen = 3
    Chunk = 2
    Limit = 2
    Lengths = {2}
    Direct = Direct
    Offsets = {0, 1}
    WindowSize = 1
    MaxEntries = 2
SPECIFICATION Spec
INVARIANTS BytesAgree UntilSound UntilRefuses
PROPERTIES EntriesStay SearchEnds
