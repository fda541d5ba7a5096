\* Batches of up to two paths while one file may change.
SPECIFICATION Spec
CONSTANTS
    Names = {a, b}
    a = a
    b = b
    CommandLines <- MCCommandLines
    Contents = {"clean", "warn", "error", "malformed", "raises"}
    MaxChanges = 1
    MCMaxPaths = 2
INVARIANTS TypeOK ZeroMeansAllPass ThreeMeansFatal  VerdictsAreOfTheDisk
PROPERTY Terminates
