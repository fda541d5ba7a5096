\* Every truncation point of a file with one pair and one tensor, and bad length fields.
SPECIFICATION Spec
CONSTANTS
    MaxChunk = 8
    SignBit = 1000
    CountSanity = 3
    VersionMax = 3
    MaxDims = 4
    DefaultAlignment = 32
    AlignKey = "al"
    TextLen <- MCTextLen
    Texts = {"", "a", "al"}
    Sizes <- MCEverySize
    Versions = {0, 3, 4}
    Counts = {0, 1, 2, 4, 1000}
    Lengths = {0, 1, 9, 200, 1000}
    KvTypes = {0, 5, 7, 8, 9, 99}
    ArrayCounts = {0, 1, 3, 4, 1000}
    DimCounts = {0, 1, 4, 5}
    Dims = {1}
    TensorTypes = {0}
    TensorOffsets = {0, 1000}
    Ints = {8}
INVARIANTS NoRawException FaultIsLocated RejectionsAreJustified
PROPERTIES Terminates
