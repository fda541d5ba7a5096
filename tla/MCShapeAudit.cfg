\* Fixtures and damaged fixtures, see MCShapeAudit.
SPECIFICATION Spec
CONSTANTS
    Models <- MCModels
    Names <- MCNames
    EndsWith <- MCEndsWith
    Block <- MCBlock
    ArchNames = {"llama", "qwen2"}
    QuantVersion = 2
    BlockCeiling = 4
    RangeLimit = 6
    ModelSpecs <- MCModelSpecs
    Llama = "llama"
    MCBlocks = 3
    MCKinds = {"built", "retold", "reshaped", "miscounted", "upstream", "foreign"}
    MCWidths = {2, 3, 4, 6, 8}
INVARIANTS TypeOK BlocksAreContiguous OrientationIgnored SilentModelSplits SilentExactlyOnConsistentSpecs
