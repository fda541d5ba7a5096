\* Only the first tensor with a suffix is judged.
SPECIFICATION Spec
CONSTANTS
    Models <- MCModels
    Names <- MCNames
    EndsWith <- MCEndsWith
    Block <- MCBlock
    ArchNames = {"llama", "qwen2"}
    QuantVersion = 2
    BlockCeiling = 4
    RangeLimit = 6
    ModelSpecs <- MCModelSpecs
    Llama = "llama"
    MCBlocks = 3
    MCKinds = {"reshaped"}
    MCWidths = {2, 3, 4, 6, 8}
INVARIANT EveryCanonicalMatrixFits
