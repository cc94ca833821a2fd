CONSTANTS
    Wides = {TRUE}
    SectionAligns = {32}
    FileAligns = {16, 64}
    Directories = {7}
    Extras = {"raw", "until", "cert"}
    ExtraSizes = {5}
    Aligns = {128}
    Kinds = {"text", "bss", "plain", "idata", "reloc"}
    VirtualSizes = {0, 24}
    DataSizes = {20, 40}
    Gaps = {70}
    MaxVirtual = 400
    Addresses = {4100, 8192}
    Types = {0, 3}
    MaxExtras = 1
    MaxSections = 2
    MaxRelocs = 2
SPECIFICATION Spec
INVARIANTS SectionsApart HeadersDescribe SectionsBacked DirectoriesResolve RelocsReadBack
PROPERTY ImplementsLayout
CHECK_DEADLOCK FALSE
