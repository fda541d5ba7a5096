\* Payloads of the fuzzer's own base model under the limit of Linux on one argument.
SPECIFICATION Spec
CONSTANTS
    Payloads <- MCPayloads
    Size <- MCSize
    ArgLimit = 131072
    Scans <- MCScans
    Iterations = 2
    MCKinds = {"magic", "truncated_header"}
INVARIANT EveryPayloadIsScanned
