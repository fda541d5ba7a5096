\* A path that names no file, beside one that does.
SPECIFICATION Spec
CONSTANTS
    Names = {a, b}
    a = a
    b = b
    CommandLines <- MCCommandLines
    Contents = {"clean", "warn", "error"}
    MaxChanges = 0
    MCMaxPaths = 2
INVARIANT SentinelErrorsAreRendered
