---------------------------- MODULE TensorAudit ----------------------------
(***************************************************************************)
(* The rules of sentinel/rules.py about where the tensors of a parsed      *)
(* model lie in its file, in the order analyze runs them.  Each rule is    *)
(* one action; a finding is its code and the tensor it names (0: the file).*)
(*                                                                         *)
(* A document is what parse_gguf returns of a file, together with the two  *)
(* facts the rules ask of the bytes: whether the padding before the data   *)
(* section is all zero, and whether the data section is one value almost   *)
(* everywhere.  Python's integers are unbounded, so are these.             *)
(***************************************************************************)
EXTENDS GgufFormat, Sequences

CONSTANTS
    Documents,      \* the parsed models considered
    TypeTable,      \* registry: type id -> elements and bytes of a block
    JunkFloor,      \* bytes that may follow the last tensor: 1 MiB
    SampleFloor     \* data sections up to this size are not sampled: 64

NumDims == 4        \* registry.GGML_MAX_DIMS: dims is padded with ones to it

Tensor ==
    {t \in [nDims : 1..NumDims, dims : [1..NumDims -> Nat], type : Nat, offset : Nat] :
        \A k \in t.nDims + 1..NumDims : t.dims[k] = 1}

Document ==
    {d \in [size : Nat, metaEnd : Nat, dataStart : Nat, alignment : Nat \ {0},
            tensors : Seq(Tensor), dirtyPadding : BOOLEAN, constantData : BOOLEAN] :
        /\ d.metaEnd <= d.size
        /\ d.dataStart = IF d.tensors = <<>> THEN d.metaEnd
                         ELSE AlignUp(d.metaEnd, d.alignment)}

ASSUME AuditAssumption ==
    /\ Documents \subseteq Document
    /\ TypeTable \in [DOMAIN TypeTable -> [blck : Nat \ {0}, size : Nat \ {0}]]
    /\ JunkFloor \in Nat /\ SampleFloor \in Nat

-----------------------------------------------------------------------------
VARIABLES
    doc,        \* the parsed model under audit
    rule,       \* the rule that runs next
    found       \* findings so far

vars == <<doc, rule, found>>

Rules ==
    {"unknown_types", "offsets_and_overlaps", "past_eof", "padding_zeroed",
     "trailing_junk", "degenerate_data"}

Tensors == DOMAIN doc.tensors
Offset(i) == doc.tensors[i].offset

Unsized == -1       \* None

KnownType(t) == t \in DOMAIN TypeTable
Blocked(t, n) == n % TypeTable[t].blck # 0

RowBytes(t, n) ==
    IF ~KnownType(t) \/ Blocked(t, n) THEN Unsized
    ELSE (n \div TypeTable[t].blck) * TypeTable[t].size

Empty(t) == \E k \in 1..t.nDims : t.dims[k] = 0

TensorBytes(t) ==
    LET row == RowBytes(t.type, t.dims[1])
        rows == t.dims[2] * t.dims[3] * t.dims[4]
    IN  IF Empty(t) \/ row = Unsized THEN Unsized ELSE row * rows

Sized == {i \in Tensors : TensorBytes(doc.tensors[i]) # Unsized}
End(i) == Offset(i) + TensorBytes(doc.tensors[i])
DataBytes == doc.size - doc.dataStart

\* Mutation: a tensor is named by its position counted from one too many.
FindingsOnNext(code, which) == {[code |-> code, tensor |-> i + 1] : i \in which}

Findings(code, which) == {[code |-> code, tensor |-> i] : i \in which}
Report(findings, next) == found' = found \cup findings /\ rule' = next /\ UNCHANGED doc

Init == doc \in Documents /\ rule = "unknown_types" /\ found = {}

-----------------------------------------------------------------------------
(***************************************************************************)
(* The rules.                                                              *)
(***************************************************************************)
UnknownTypes ==
    LET unknown == {i \in Tensors : ~KnownType(doc.tensors[i].type)}
        blocked == {i \in Tensors \ (unknown \cup Sized) :
                        Blocked(doc.tensors[i].type, doc.tensors[i].dims[1])}
    IN  /\ rule = "unknown_types"
        /\ Report(Findings("E_BAD_TENSOR_TYPE", unknown)
                    \cup Findings("E_QUANT_ROW_NOT_BLOCK_ALIGNED", blocked),
                  "offsets_and_overlaps")

\* Mutation: the tensors stay in file order.
InFileOrder(i, j) == i < j

\* The order of sized.sort(key=offset), which is stable.
Before(i, j) == Offset(i) < Offset(j) \/ (Offset(i) = Offset(j) /\ i < j)

\* The sized tensors in that order.
Orders ==
    {order \in UNION {[1..n -> Sized] : n \in 0..Len(doc.tensors)} :
        /\ \A i \in Sized : \E k \in DOMAIN order : order[k] = i
        /\ \A k, m \in DOMAIN order : k < m => Before(order[k], order[m])}

\* Only neighbours are compared.
StartsInside(order) ==
    {k \in DOMAIN order : k > 1 /\ Offset(order[k]) < End(order[k - 1])}

Unaligned == {i \in Sized : Offset(i) % doc.alignment # 0}

OffsetsAndOverlaps ==
    /\ rule = "offsets_and_overlaps"
    /\ \E order \in Orders :
          Report(Findings("E_DATA_UNALIGNED", Unaligned)
                   \cup Findings("E_TENSOR_OVERLAP", {order[k] : k \in StartsInside(order)}),
                 "past_eof")

\* Mutation: offsets are compared with the file, not with its data section.
PastWholeFile == {i \in Sized : End(i) > doc.size}

PastData == {i \in Sized : End(i) > DataBytes}

PastEof ==
    /\ rule = "past_eof"
    /\ Report(Findings("E_TENSOR_PAST_EOF", PastData), "padding_zeroed")

PaddingZeroed ==
    LET dirty == doc.metaEnd < doc.dataStart /\ doc.dataStart <= doc.size /\ doc.dirtyPadding
    IN  /\ rule = "padding_zeroed"
        /\ Report(IF dirty THEN Findings("E_PADDING_NOT_ZERO", {0}) ELSE {}, "trailing_junk")

\* Mutation: nothing at all may follow the last tensor.
NoJunkAllowance == 0

JunkAllowance == IF JunkFloor > 4 * doc.alignment THEN JunkFloor ELSE 4 * doc.alignment

\* Junk is only measured when every tensor could be sized.
HasJunk ==
    /\ Tensors # {} /\ doc.dataStart < doc.size
    /\ Sized = Tensors
    /\ \A i \in Tensors : DataBytes - End(i) > JunkAllowance

TrailingJunk ==
    /\ rule = "trailing_junk"
    /\ Report(IF HasJunk THEN Findings("W_TRAILING_JUNK", {0}) ELSE {}, "degenerate_data")

Degenerate == Tensors # {} /\ DataBytes > SampleFloor /\ doc.constantData

DegenerateData ==
    /\ rule = "degenerate_data"
    /\ Report(IF Degenerate THEN Findings("W_SUSPICIOUS_DENSITY", {0}) ELSE {}, "done")

Done == rule = "done" /\ UNCHANGED vars

Next ==
    \/ UnknownTypes \/ OffsetsAndOverlaps \/ PastEof
    \/ PaddingZeroed \/ TrailingJunk \/ DegenerateData
    \/ Done

Spec == Init /\ [][Next]_vars

-----------------------------------------------------------------------------
(***************************************************************************)
(* Findings name a tensor of the document, or the file.                    *)
(***************************************************************************)
FileCodes == {"E_PADDING_NOT_ZERO", "W_TRAILING_JUNK", "W_SUSPICIOUS_DENSITY"}
TensorCodes ==
    {"E_BAD_TENSOR_TYPE", "E_QUANT_ROW_NOT_BLOCK_ALIGNED", "E_DATA_UNALIGNED",
     "E_TENSOR_OVERLAP", "E_TENSOR_PAST_EOF"}

TypeOK ==
    /\ doc \in Document
    /\ rule \in Rules \cup {"done"}
    /\ found \subseteq [code : FileCodes, tensor : {0}] \cup [code : TensorCodes, tensor : Tensors]

Codes == {f.code : f \in found}
Reported(code) == code \in Codes
NoErrors == Codes \subseteq {"W_TRAILING_JUNK", "W_SUSPICIOUS_DENSITY"}

\* The bytes of the data section a sized tensor occupies.
Bytes(i) == Offset(i) .. (End(i) - 1)
Shared(i, j) == i # j /\ Bytes(i) \cap Bytes(j) # {}

(***************************************************************************)
(* Comparing neighbours is enough: r_offsets_and_overlaps reports an       *)
(* overlap exactly when some two tensors share a byte, wherever they are   *)
(* in the table and however many others lie between them.                  *)
(***************************************************************************)
OverlapsReported ==
    rule \notin {"unknown_types", "offsets_and_overlaps"} =>
        (Reported("E_TENSOR_OVERLAP") <=> \E i, j \in Sized : Shared(i, j))

(***************************************************************************)
(* A file audited without an error can be read: every tensor that has      *)
(* elements has a known type and whole blocks, starts on the alignment,    *)
(* lies inside the data section and shares no byte with another, and the   *)
(* padding hides nothing.                                                  *)
(***************************************************************************)
CleanLayoutIsReadable ==
    rule = "done" /\ NoErrors =>
        /\ \A i \in Tensors :
              Empty(doc.tensors[i]) \/
              /\ i \in Sized
              /\ Offset(i) % doc.alignment = 0
              /\ Bytes(i) \subseteq 0 .. (DataBytes - 1)
              /\ \A j \in Sized : ~Shared(i, j)
        /\ doc.dirtyPadding /\ doc.metaEnd < doc.dataStart => doc.size < doc.dataStart

(***************************************************************************)
(* No false alarm: a file laid out as the format asks (each tensor on the  *)
(* first aligned byte after the one before it, the data section padded to  *)
(* the alignment) has no finding at all.  build_model gives its tensors    *)
(* these offsets; ModelWriter says when its data follows them.             *)
(***************************************************************************)
Packed ==
    /\ Tensors # {} /\ Sized = Tensors
    /\ \A i \in Tensors :
          Offset(i) = IF i = 1 THEN 0 ELSE AlignUp(End(i - 1), doc.alignment)
    /\ DataBytes = AlignUp(End(Len(doc.tensors)), doc.alignment)
    /\ ~doc.dirtyPadding /\ ~doc.constantData

PackedLayoutIsClean == Packed => found = {}
=============================================================================
