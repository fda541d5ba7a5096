\* Three rounds over payloads that can be handed to a child and one kind that cannot.
SPECIFICATION Spec
CONSTANTS
    Payloads <- MCPayloads
    Size <- MCSize
    ArgLimit = 131072
    Scans <- MCScans
    Iterations = 3
    MCKinds = {"truncate", "append"}
INVARIANTS TypeOK VerdictsAreTheirOwn OffendersAreArchived ZeroProvesClean
PROPERTIES Terminates
