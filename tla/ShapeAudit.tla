----------------------------- MODULE ShapeAudit -----------------------------
(***************************************************************************)
(* The rules of sentinel/rules.py about a model's hyperparameters and the  *)
(* shapes of its tensors, in the order analyze runs them, one action each. *)
(*                                                                         *)
(* A tensor's name matters only through the canonical suffixes it ends     *)
(* with and the number behind "blk.".  A rule that raises ends the audit:  *)
(* analyze has no handler, and what was found so far is lost.              *)
(***************************************************************************)
EXTENDS Integers, Sequences

CONSTANTS
    Models,         \* the parsed models considered
    Names,          \* tensor names
    EndsWith,       \* name -> canonical suffixes it ends with
    Block,          \* name -> number behind "blk.", or NoBlock
    ArchNames,      \* keys.ARCH_NAMES
    QuantVersion,   \* registry.GGML_QNT_VERSION: 2
    BlockCeiling,   \* missing blocks are looked for up to this count: 4096
    RangeLimit      \* set(range(n)) exhausts memory above this n

EMB == "token_embd.weight"
OUT == "output.weight"
ATTN_QKV == "attn_qkv.weight"
ATTN_OUT == "attn_out.weight"
FFN_GATE_UP == "ffn_gate_up.weight"
FFN_DOWN == "ffn_down.weight"
NORM == "_norm.weight"
Suffixes == {EMB, OUT, ATTN_QKV, ATTN_OUT, FFN_GATE_UP, FFN_DOWN, NORM}
NoBlock == -1

Hyperparams ==
    {"embedding_length", "vocab_size", "feed_forward_length", "block_count",
     "head_count", "head_count_kv", "key_length", "value_length"}

\* What kv_typed returns: nothing, an integer, or a value of another type.
Absent == [kind |-> "absent", n |-> 0]
Given(n) == [kind |-> "int", n |-> n]
Value == [kind : {"int"}, n : Int] \cup [kind : {"absent", "other"}, n : {0}]

NoArch == "none"
Tensor == [name : Names, dims : {d \in Seq(Nat) : Len(d) \in 1..4}, q4k : BOOLEAN]
Model ==
    [arch : STRING, prefixes : Seq(STRING), quantVersion : Value,
     hyper : [Hyperparams -> Value], tensors : Seq(Tensor)]

ASSUME ShapeAssumption ==
    /\ Models \subseteq Model
    /\ EndsWith \in [Names -> SUBSET Suffixes]
    /\ Block \in [Names -> Nat \cup {NoBlock}]
    /\ NoArch \notin ArchNames
    /\ {QuantVersion, BlockCeiling, RangeLimit} \subseteq Nat
    /\ BlockCeiling <= RangeLimit

-----------------------------------------------------------------------------
VARIABLES
    doc,        \* the parsed model under audit
    rule,       \* the rule that runs next; "raised" when one raised
    found       \* findings so far: a code, and the tensor or pair it names

vars == <<doc, rule, found>>

Rules ==
    {"arch_present", "arch_key_mismatch", "quant_version", "head_geometry",
     "q4k_even_hidden", "block_count", "tensor_shapes", "norm_dims"}

Tensors == DOMAIN doc.tensors
Dims(i) == doc.tensors[i].dims

Finding(code, at) == [code |-> code, at |-> at]
If(condition, code) == IF condition THEN {Finding(code, 0)} ELSE {}
Report(findings, next) == found' = found \cup findings /\ rule' = next /\ UNCHANGED doc

\* Mutation: a rule that raises keeps the findings of those before it.
RaiseKeepsFindings == rule' = "raised" /\ UNCHANGED <<doc, found>>

Raise == found' = {} /\ rule' = "raised" /\ UNCHANGED doc

Abstain == -1       \* None

\* _int_kv: bool is no integer, negative values mean "unset".
Hyper(key) ==
    LET v == doc.hyper[key]
    IN  IF doc.arch # NoArch /\ v.kind = "int" /\ v.n >= 0 THEN v.n ELSE Abstain

hidden == Hyper("embedding_length")
vocab == Hyper("vocab_size")
ffn == Hyper("feed_forward_length")
heads == Hyper("head_count")
kvHeads == Hyper("head_count_kv")
keyLen == Hyper("key_length")
valLen == Hyper("value_length")

Init == doc \in Models /\ rule = "arch_present" /\ found = {}

-----------------------------------------------------------------------------
(***************************************************************************)
(* Metadata.                                                               *)
(***************************************************************************)
ArchPresent ==
    /\ rule = "arch_present"
    /\ Report(If(doc.arch = NoArch, "W_NO_ARCH"), "arch_key_mismatch")

ArchKeyMismatch ==
    /\ rule = "arch_key_mismatch"
    /\ Report({Finding("E_ARCH_KEY_MISMATCH", i) :
                  i \in {i \in DOMAIN doc.prefixes :
                            /\ doc.arch # NoArch
                            /\ doc.prefixes[i] \in ArchNames \ {doc.arch}}},
              "quant_version")

CheckQuantVersion ==
    LET v == doc.quantVersion
    IN  /\ rule = "quant_version"
        /\ Report(IF doc.tensors = <<>> THEN {}
                  ELSE If(v = Absent, "W_NO_QUANT_VERSION")
                         \cup If(v.kind = "int" /\ v.n > QuantVersion, "E_QUANT_VERSION_UNSUPPORTED"),
                  "head_geometry")

\* Mutation: the product of heads and key length is not compared.
NoWidthCheck == FALSE

WidthDiffers == keyLen # Abstain /\ heads * keyLen # hidden

\* attention.rot_ndims is not an official suffix, so its exemption is never met.
HeadGeometry ==
    /\ rule = "head_geometry"
    /\ Report(
         If(keyLen # Abstain /\ valLen # Abstain /\ keyLen # valLen, "E_KV_HEAD_MISMATCH")
           \cup If(keyLen # Abstain /\ keyLen % 2 = 1, "W_HEAD_DIM_ODD")
           \cup If(hidden # Abstain /\ heads > 0 /\ hidden % heads # 0, "W_INCONSISTENT_HYPERPARAM")
           \cup If(hidden # Abstain /\ heads > 0 /\ hidden % heads = 0 /\ WidthDiffers,
                   "E_HEAD_DIM_MISMATCH")
           \cup If(heads # Abstain /\ kvHeads > 0 /\ heads % kvHeads # 0, "W_INCONSISTENT_HYPERPARAM")
           \cup If(valLen # Abstain /\ valLen % 2 = 1, "W_KV_HEAD_DIM_ODD"),
         "q4k_even_hidden")

\* A head count that is not declared is not 0.
Q4kEvenHidden ==
    /\ rule = "q4k_even_hidden"
    /\ Report(If(/\ hidden # Abstain /\ hidden % 2 = 1
                 /\ \E i \in Tensors : doc.tensors[i].q4k
                 /\ heads # 0 /\ kvHeads # 0,
                 "E_FFN_DIM_MISMATCH"),
              "block_count")

-----------------------------------------------------------------------------
(***************************************************************************)
(* Blocks.                                                                 *)
(***************************************************************************)
blocks == Hyper("block_count")
Seen == {Block[doc.tensors[i].name] : i \in Tensors} \ {NoBlock}
Lowest == CHOOSE b \in Seen : \A c \in Seen : b <= c
Highest == CHOOSE b \in Seen : \A c \in Seen : c <= b
Missing == (0 .. blocks - 1) \ Seen

\* Mutation: only the ends of the span are compared.
SpanOnly == Highest + 1 # blocks \/ Lowest # 0

BlocksDiffer ==
    \/ Highest + 1 # blocks \/ Lowest # 0
    \/ blocks \in 1..BlockCeiling /\ Missing # {} /\ Highest + 1 = blocks

BlockCount ==
    /\ rule = "block_count"
    /\ IF doc.arch = NoArch \/ blocks = Abstain \/ Seen = {} THEN Report({}, "tensor_shapes")
       ELSE IF blocks > RangeLimit THEN Raise
       ELSE Report(If(BlocksDiffer, "E_BLOCK_COUNT_MISMATCH"), "tensor_shapes")

-----------------------------------------------------------------------------
(***************************************************************************)
(* Shapes.  A check pairs a canonical suffix with the two dimensions the   *)
(* hyperparameters ask for; it exists only when they are all declared.     *)
(***************************************************************************)
Check(suffix, code, in, out) == [suffix |-> suffix, code |-> code, in |-> in, out |-> out]

Checks ==
    (IF vocab = Abstain \/ hidden = Abstain THEN {}
     ELSE {Check(EMB, "E_EMBED_ROWS_MISMATCH", hidden, vocab),
           Check(OUT, "E_EMBED_ROWS_MISMATCH", hidden, vocab)})
    \cup
    (IF heads <= 0 \/ kvHeads <= 0 \/ keyLen <= 0 \/ hidden = Abstain THEN {}
     ELSE {Check(ATTN_QKV, "E_HEAD_DIM_MISMATCH", hidden, (heads + 2 * kvHeads) * keyLen),
           Check(ATTN_OUT, "E_HEAD_DIM_MISMATCH", heads * keyLen, hidden)})
    \cup
    (IF ffn <= 0 \/ hidden = Abstain THEN {}
     ELSE {Check(FFN_GATE_UP, "E_FFN_DIM_MISMATCH", hidden, 2 * ffn),
           Check(FFN_DOWN, "E_FFN_DIM_MISMATCH", ffn, hidden)})

HasSuffix(suffix, i) == suffix \in EndsWith[doc.tensors[i].name]

\* The tensor need(suffix) returns, if any: the first one.
First(suffix) ==
    {i \in Tensors : HasSuffix(suffix, i) /\ \A j \in 1 .. i - 1 : ~HasSuffix(suffix, j)}

\* Mutation: the matrix must be stored one way round.
DumbbellOneWay(dims, in, out) == dims[1] = in /\ dims[2] = out

\* Either orientation.
Dumbbell(dims, in, out) ==
    (dims[1] = in /\ dims[2] = out) \/ (dims[1] = out /\ dims[2] = in)

Judged(tensors) ==
    {p \in Checks \X DOMAIN tensors : p[2] \in First(p[1].suffix)}

Misfits(tensors) ==
    {Finding(p[1].code, p[2]) :
        p \in {p \in Judged(tensors) : ~Dumbbell(tensors[p[2]].dims, p[1].in, p[1].out)}}

\* declared_dims[1] of a vector is an IndexError.
TensorShapes ==
    /\ rule = "tensor_shapes"
    /\ IF \E p \in Judged(doc.tensors) : Len(Dims(p[2])) < 2 THEN Raise
       ELSE Report(Misfits(doc.tensors), "norm_dims")

NormDims ==
    /\ rule = "norm_dims"
    /\ Report({Finding("W_INCONSISTENT_HYPERPARAM", i) :
                  i \in {i \in Tensors : hidden # Abstain /\ HasSuffix(NORM, i) /\ Dims(i)[1] # hidden}},
              "done")

Done == rule \in {"done", "raised"} /\ UNCHANGED vars

Next ==
    \/ ArchPresent \/ ArchKeyMismatch \/ CheckQuantVersion \/ HeadGeometry
    \/ Q4kEvenHidden \/ BlockCount \/ TensorShapes \/ NormDims
    \/ Done

Spec == Init /\ [][Next]_vars

-----------------------------------------------------------------------------
(***************************************************************************)
(* Findings name a key, a tensor of the model or the file; a rule that     *)
(* raised has left none.                                                   *)
(***************************************************************************)
ModelCodes ==
    {"W_NO_ARCH", "W_NO_QUANT_VERSION", "E_QUANT_VERSION_UNSUPPORTED", "E_KV_HEAD_MISMATCH",
     "W_HEAD_DIM_ODD", "W_KV_HEAD_DIM_ODD", "W_INCONSISTENT_HYPERPARAM",
     "E_HEAD_DIM_MISMATCH", "E_FFN_DIM_MISMATCH", "E_BLOCK_COUNT_MISMATCH"}
MatrixCodes == {"E_EMBED_ROWS_MISMATCH", "E_HEAD_DIM_MISMATCH", "E_FFN_DIM_MISMATCH"}

TypeOK ==
    /\ rule \in Rules \cup {"done", "raised"}
    /\ found \subseteq
          [code : ModelCodes, at : {0}]
            \cup [code : {"E_ARCH_KEY_MISMATCH"}, at : DOMAIN doc.prefixes]
            \cup [code : MatrixCodes \cup {"W_INCONSISTENT_HYPERPARAM"}, at : Tensors]
    /\ rule = "raised" => found = {}

Codes == {f.code : f \in found}

(***************************************************************************)
(* r_block_count: up to the ceiling, the declared count is accepted        *)
(* exactly when the blocks that have tensors are 0, 1, ..., count - 1,     *)
(* whatever the order and number of their tensors.  A model without any    *)
(* numbered block is never reported, whatever count it declares.           *)
(***************************************************************************)
BlocksAreContiguous ==
    rule \in {"tensor_shapes", "norm_dims", "done"} /\ blocks \in 0..BlockCeiling =>
        ("E_BLOCK_COUNT_MISMATCH" \in Codes <=> Seen \notin {{}, 0 .. blocks - 1})

(***************************************************************************)
(* Shape checks are convention-agnostic (rules.py:13-16): a model whose    *)
(* matrices are all stored the other way round gets the same findings.     *)
(***************************************************************************)
Transposed ==
    [i \in Tensors |->
        IF Len(Dims(i)) < 2 THEN doc.tensors[i]
        ELSE [doc.tensors[i] EXCEPT !.dims[1] = Dims(i)[2], !.dims[2] = Dims(i)[1]]]

OrientationIgnored ==
    rule = "norm_dims" => {f \in found : f.code \in MatrixCodes /\ f.at # 0} = Misfits(Transposed)

(***************************************************************************)
(* What a silent audit says about attention: the heads tile the hidden     *)
(* width and share the key-value heads evenly, keys and values are equally *)
(* wide, so that the rows of the fused projection split into one block of  *)
(* hidden and two of kvHeads heads, and the output projection is square.   *)
(***************************************************************************)
AttentionDeclared == heads > 0 /\ kvHeads > 0 /\ keyLen > 0 /\ valLen > 0 /\ hidden # Abstain
Area(i) == Dims(i)[1] * Dims(i)[2]

SilentModelSplits ==
    rule = "done" /\ found = {} /\ AttentionDeclared =>
        /\ hidden = heads * valLen /\ keyLen = valLen /\ heads % kvHeads = 0
        /\ \A i \in First(ATTN_QKV) : Area(i) = hidden * (hidden + 2 * kvHeads * valLen)
        /\ \A i \in First(ATTN_OUT) : Dims(i)[1] = hidden /\ Dims(i)[2] = hidden

(***************************************************************************)
(* rules.py:273: every canonical matrix's leading dims must match.  So a   *)
(* silent audit would have judged every tensor with a canonical suffix.    *)
(***************************************************************************)
EveryCanonicalMatrixFits ==
    rule = "done" /\ found = {} =>
        \A c \in Checks, i \in Tensors :
            HasSuffix(c.suffix, i) => Len(Dims(i)) > 1 /\ Dumbbell(Dims(i), c.in, c.out)

(***************************************************************************)
(* fuzz.py:7-9: anything that is not a SentinelError is a bug by           *)
(* definition.  So no rule raises on a model parse_gguf returned.          *)
(***************************************************************************)
AuditNeverRaises == rule # "raised"
=============================================================================
