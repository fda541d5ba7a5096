\* Tokenizer sections and earlier findings of MCAnalyze.
SPECIFICATION Spec
CONSTANTS
    Tokenizers <- MCTokenizers
    Earlier <- MCEarlier
    Names <- MCNames
    Tokens <- MCTokens
    Marked <- MCMarked
    Codes <- MCCodes
    Rank <- MCRank
    CodeOrder <- MCCodeOrder
INVARIANTS TypeOK NothingIsLost EachOnce PrintedAsReturned SilentTokenizerLoads FixturesAreSilent
