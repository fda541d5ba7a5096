\* Well-formed and half-formed tables: up to two pairs and two tensors.
SPECIFICATION Spec
CONSTANTS
    MaxChunk = 8
    SignBit = 1000
    CountSanity = 3
    VersionMax = 3
    MaxDims = 4
    DefaultAlignment = 32
    AlignKey = "al"
    TextLen <- MCTextLen
    Texts = {"a", "al"}
    Sizes = {0, 36, 54, 60, 72, 91, 100}
    Versions = {0, 1, 3, 4}
    Counts = {0, 1, 2}
    Lengths = {1, 2}
    KvTypes = {0, 5, 6, 8, 9}
    ArrayCounts = {0, 1, 2}
    DimCounts = {1, 2}
    Dims = {1, 1000}
    TensorTypes = {0}
    TensorOffsets = {0, 1000}
    Ints <- MCInts
INVARIANTS TypeOK RecordsTile FirstMatchWins AlignmentHonoured OnlyScreenedNumbers
PROPERTIES StreamSpec
