\* Is every fixture the writer writes accepted without a finding?
SPECIFICATION WriterSpec
CONSTANTS
    Documents <- MCDocuments
    TypeTable <- MCTypeTable
    JunkFloor = 16
    SampleFloor = 24
    MCOffsets = {0, 8, 12, 24}
    MCDataBytes = {16, 24, 40, 80}
    MCMaxTensors = 0
    MCMaxItems = 2
    Layouts <- MCLayouts
    ALIGN = 8
    NumKv = 3
    KvBytes = 40
    SignBit = 1000
    CountSanity = 500
    HugeCounts = {501, 1000}
    SmallTensorCounts = {1, 2, 3, 4}
    SmallKvCounts = {1, 2}
    BadVersions = {0, 4, 99}
    BadAlignments = {0, 3, 7, 48}
    BadTypes = {99}
    HugeOffsets = {4096, 65536}
    HugeDims = {65536}
    JunkSizes = {64, 100}
INVARIANTS FixturesAreClean
