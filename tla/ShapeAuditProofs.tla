-------------------------- MODULE ShapeAuditProofs --------------------------
(***************************************************************************)
(* Proofs about ShapeAudit for models with any number of tensors, blocks   *)
(* and hyperparameters of any size, and about the fixtures SyntheticModel  *)
(* builds from specs of any size.                                          *)
(***************************************************************************)
EXTENDS SyntheticModel, Numbers

BeforeHeads == {"arch_present", "arch_key_mismatch", "quant_version", "head_geometry"}
BeforeBlocks == BeforeHeads \cup {"q4k_even_hidden", "block_count"}
BeforeShapes == BeforeBlocks \cup {"tensor_shapes"}
AfterShapes == {"norm_dims", "done"}
AfterBlocks == {"tensor_shapes"} \cup AfterShapes
AfterHeads == {"q4k_even_hidden", "block_count"} \cup AfterBlocks

(***************************************************************************)
(* The block rule has reported if, and only if, the blocks differ.         *)
(***************************************************************************)
Numbered ==
    LET reported == \E f \in found : f.code = "E_BLOCK_COUNT_MISMATCH"
    IN  /\ rule \in BeforeBlocks => ~reported
        /\ rule \in AfterBlocks => (reported <=> blocks # Abstain /\ Seen # {} /\ BlocksDiffer)

(***************************************************************************)
(* Findings that quote a misshapen matrix come from the shape rule alone.  *)
(***************************************************************************)
MatrixFindings == {f \in found : f.code \in MatrixCodes /\ f.at # 0}

Shaped ==
    /\ rule \in BeforeShapes => MatrixFindings = {}
    /\ rule \in AfterShapes =>
          /\ MatrixFindings \subseteq Misfits(doc.tensors)
          /\ Misfits(doc.tensors) \subseteq found
          /\ \A p \in Judged(doc.tensors) : Len(Dims(p[2])) >= 2
    /\ rule = "norm_dims" => MatrixFindings = Misfits(doc.tensors)

(***************************************************************************)
(* Once it has run, the geometry rule's silence means this.                *)
(***************************************************************************)
Tiled ==
    rule \in AfterHeads /\ found = {} =>
        /\ keyLen # Abstain /\ valLen # Abstain => keyLen = valLen
        /\ hidden # Abstain /\ heads > 0 => hidden % heads = 0
        /\ hidden # Abstain /\ heads > 0 /\ hidden % heads = 0 /\ keyLen # Abstain =>
              heads * keyLen = hidden
        /\ heads # Abstain /\ kvHeads > 0 => heads % kvHeads = 0

IInv == doc \in Models /\ TypeOK /\ Numbered /\ Shaped /\ Tiled

-----------------------------------------------------------------------------
(***************************************************************************)
(* What a parsed model holds.                                              *)
(***************************************************************************)
LEMMA ElementOf ==
    ASSUME NEW S, NEW list \in Seq(S), NEW k \in DOMAIN list
    PROVE  list[k] \in S
OBVIOUS

LEMMA HyperIsNatural ==
    ASSUME doc \in Models, NEW key \in Hyperparams
    PROVE  Hyper(key) \in Nat \cup {Abstain}
<1>1. doc.hyper[key] \in Value
    BY ShapeAssumption DEF Model
<1>2. doc.hyper[key].kind = "int" => doc.hyper[key].n \in Int
    BY <1>1 DEF Value
<1> QED
    BY <1>2 DEF Hyper, Abstain

LEMMA HypersAreNatural ==
    ASSUME doc \in Models
    PROVE  {hidden, vocab, ffn, heads, kvHeads, keyLen, valLen, blocks} \subseteq Nat \cup {Abstain}
<1>1. {"embedding_length", "vocab_size", "feed_forward_length", "block_count", "head_count",
       "head_count_kv", "key_length", "value_length"} \subseteq Hyperparams
    BY DEF Hyperparams
<1>2. /\ hidden \in Nat \cup {Abstain}
      /\ vocab \in Nat \cup {Abstain}
      /\ ffn \in Nat \cup {Abstain}
      /\ heads \in Nat \cup {Abstain}
      /\ kvHeads \in Nat \cup {Abstain}
      /\ keyLen \in Nat \cup {Abstain}
      /\ valLen \in Nat \cup {Abstain}
      /\ blocks \in Nat \cup {Abstain}
    BY <1>1, HyperIsNatural DEF hidden, vocab, ffn, heads, kvHeads, keyLen, valLen, blocks
<1> QED
    BY <1>2

LEMMA TensorsAreTyped ==
    ASSUME doc \in Models
    PROVE  /\ Tensors = 1 .. Len(doc.tensors)
           /\ Len(doc.tensors) \in Nat
           /\ \A i \in Tensors :
                 /\ doc.tensors[i].name \in Names
                 /\ Dims(i) \in Seq(Nat)
                 /\ Len(Dims(i)) \in 1..4
<1>1. doc.tensors \in Seq(Tensor)
    BY ShapeAssumption DEF Model
<1>2. Tensors = 1 .. Len(doc.tensors) /\ Len(doc.tensors) \in Nat
    BY <1>1 DEF Tensors
<1>3. \A i \in Tensors : doc.tensors[i] \in Tensor
    BY <1>1, ElementOf DEF Tensors
<1> QED
    BY <1>2, <1>3 DEF Tensor, Dims

(***************************************************************************)
(* No rule changes the model, so what the rules read stays as it is.       *)
(***************************************************************************)
LEMMA ModelIsConstant ==
    ASSUME doc' = doc
    PROVE  /\ hidden' = hidden /\ heads' = heads /\ kvHeads' = kvHeads
           /\ keyLen' = keyLen /\ valLen' = valLen /\ blocks' = blocks
           /\ Tensors' = Tensors /\ Seen' = Seen
           /\ BlocksDiffer' <=> BlocksDiffer
           /\ Misfits(doc.tensors)' = Misfits(doc.tensors)
           /\ Judged(doc.tensors)' = Judged(doc.tensors)
           /\ \A i : Dims(i)' = Dims(i)
<1>1. \A key : Hyper(key)' = Hyper(key)
    BY DEF Hyper
<1>2. /\ hidden' = hidden /\ heads' = heads /\ kvHeads' = kvHeads
      /\ keyLen' = keyLen /\ valLen' = valLen /\ blocks' = blocks
      /\ vocab' = vocab /\ ffn' = ffn
    BY <1>1 DEF hidden, heads, kvHeads, keyLen, valLen, blocks, vocab, ffn
<1>3. Tensors' = Tensors /\ Seen' = Seen /\ \A i : Dims(i)' = Dims(i)
    BY DEF Tensors, Seen, Dims
<1>4. BlocksDiffer' <=> BlocksDiffer
    BY <1>2, <1>3 DEF BlocksDiffer, Highest, Lowest, Missing
<1>5. Checks' = Checks
    BY <1>2 DEF Checks
<1>6. Judged(doc.tensors)' = Judged(doc.tensors)
    BY <1>5 DEF Judged, First, HasSuffix, Tensors
<1>7. Misfits(doc.tensors)' = Misfits(doc.tensors)
    BY <1>6 DEF Misfits
<1> QED
    BY <1>2, <1>3, <1>4, <1>6, <1>7

-----------------------------------------------------------------------------
(***************************************************************************)
(* The findings of the shape rule.                                         *)
(***************************************************************************)
LEMMA MisfitsAreMatrixFindings ==
    ASSUME doc \in Models
    PROVE  /\ Misfits(doc.tensors) \subseteq [code : MatrixCodes, at : Tensors]
           /\ \A f \in Misfits(doc.tensors) : f.code \in MatrixCodes /\ f.at # 0
<1>1. \A c \in Checks : c.code \in MatrixCodes
    BY DEF Checks, Check, MatrixCodes
<1>2. \A p \in Judged(doc.tensors) : p[1] \in Checks /\ p[2] \in Tensors
    BY DEF Judged, Tensors
<1>3. Misfits(doc.tensors) \subseteq [code : MatrixCodes, at : Tensors]
    BY <1>1, <1>2 DEF Misfits, Finding
<1> QED
    BY <1>3, TensorsAreTyped

(***************************************************************************)
(* The rules that neither count blocks nor compare shapes cannot raise and *)
(* report other things.                                                    *)
(***************************************************************************)
Quiet == Rules \ {"block_count", "tensor_shapes"}
Elsewhere ==
    [code : ModelCodes \ {"E_BLOCK_COUNT_MISMATCH"}, at : {0}]
      \cup [code : {"E_ARCH_KEY_MISMATCH"}, at : DOMAIN doc.prefixes]
      \cup [code : {"W_INCONSISTENT_HYPERPARAM"}, at : Tensors]

Follower(r) ==
    IF r = "arch_present" THEN "arch_key_mismatch"
    ELSE IF r = "arch_key_mismatch" THEN "quant_version"
    ELSE IF r = "quant_version" THEN "head_geometry"
    ELSE IF r = "head_geometry" THEN "q4k_even_hidden"
    ELSE IF r = "q4k_even_hidden" THEN "block_count"
    ELSE "done"

LEMMA QuietRules ==
    ASSUME Next, rule \in Quiet
    PROVE  \E findings \in SUBSET Elsewhere : Report(findings, Follower(rule))
<1>1. CASE ArchPresent
  <2>1. If(doc.arch = NoArch, "W_NO_ARCH") \subseteq Elsewhere
      BY DEF If, Finding, Elsewhere, ModelCodes
  <2> QED
      BY <1>1, <2>1 DEF ArchPresent, Follower
<1>2. CASE ArchKeyMismatch
  <2> DEFINE foreign == {i \in DOMAIN doc.prefixes :
                            doc.arch # NoArch /\ doc.prefixes[i] \in ArchNames \ {doc.arch}}
             findings == {Finding("E_ARCH_KEY_MISMATCH", i) : i \in foreign}
  <2>1. findings \subseteq Elsewhere
      BY DEF Finding, Elsewhere
  <2>2. Report(findings, "quant_version") /\ rule = "arch_key_mismatch"
      BY <1>2 DEF ArchKeyMismatch
  <2> HIDE DEF findings
  <2> QED
      BY <2>1, <2>2 DEF Follower
<1>3. CASE CheckQuantVersion
  <2> DEFINE v == doc.quantVersion
             findings == IF doc.tensors = <<>> THEN {}
                         ELSE If(v = Absent, "W_NO_QUANT_VERSION")
                                \cup If(v.kind = "int" /\ v.n > QuantVersion, "E_QUANT_VERSION_UNSUPPORTED")
  <2>1. findings \subseteq Elsewhere
      BY DEF If, Finding, Elsewhere, ModelCodes
  <2>2. Report(findings, "head_geometry") /\ rule = "quant_version"
      BY <1>3 DEF CheckQuantVersion
  <2> HIDE DEF findings
  <2> QED
      BY <2>1, <2>2 DEF Follower
<1>4. CASE HeadGeometry
  <2> DEFINE findings ==
          If(keyLen # Abstain /\ valLen # Abstain /\ keyLen # valLen, "E_KV_HEAD_MISMATCH")
            \cup If(keyLen # Abstain /\ keyLen % 2 = 1, "W_HEAD_DIM_ODD")
            \cup If(hidden # Abstain /\ heads > 0 /\ hidden % heads # 0, "W_INCONSISTENT_HYPERPARAM")
            \cup If(hidden # Abstain /\ heads > 0 /\ hidden % heads = 0 /\ WidthDiffers,
                    "E_HEAD_DIM_MISMATCH")
            \cup If(heads # Abstain /\ kvHeads > 0 /\ heads % kvHeads # 0, "W_INCONSISTENT_HYPERPARAM")
            \cup If(valLen # Abstain /\ valLen % 2 = 1, "W_KV_HEAD_DIM_ODD")
  <2>1. findings \subseteq Elsewhere
      BY DEF If, Finding, Elsewhere, ModelCodes
  <2>2. Report(findings, "q4k_even_hidden") /\ rule = "head_geometry"
      BY <1>4 DEF HeadGeometry
  <2> HIDE DEF findings
  <2> QED
      BY <2>1, <2>2 DEF Follower
<1>5. CASE Q4kEvenHidden
  <2> DEFINE findings ==
          If(/\ hidden # Abstain /\ hidden % 2 = 1
             /\ \E i \in Tensors : doc.tensors[i].q4k
             /\ heads # 0 /\ kvHeads # 0, "E_FFN_DIM_MISMATCH")
  <2>1. findings \subseteq Elsewhere
      BY DEF If, Finding, Elsewhere, ModelCodes
  <2>2. Report(findings, "block_count") /\ rule = "q4k_even_hidden"
      BY <1>5 DEF Q4kEvenHidden
  <2> HIDE DEF findings
  <2> QED
      BY <2>1, <2>2 DEF Follower
<1>6. CASE NormDims
  <2> DEFINE misfits == {i \in Tensors : hidden # Abstain /\ HasSuffix(NORM, i) /\ Dims(i)[1] # hidden}
             findings == {Finding("W_INCONSISTENT_HYPERPARAM", i) : i \in misfits}
  <2>1. findings \subseteq Elsewhere
      BY DEF Finding, Elsewhere
  <2>2. Report(findings, "done") /\ rule = "norm_dims"
      BY <1>6 DEF NormDims
  <2> HIDE DEF findings
  <2> QED
      BY <2>1, <2>2 DEF Follower
<1> QED
    BY <1>1, <1>2, <1>3, <1>4, <1>5, <1>6
    DEF Next, Quiet, Rules, BlockCount, TensorShapes, Done

(***************************************************************************)
(* The ways in which a step can go.                                        *)
(***************************************************************************)
Counted == Report(If(blocks # Abstain /\ Seen # {} /\ BlocksDiffer, "E_BLOCK_COUNT_MISMATCH"),
                  "tensor_shapes")
Compared ==
    /\ Report(Misfits(doc.tensors), "norm_dims")
    /\ \A p \in Judged(doc.tensors) : Len(Dims(p[2])) >= 2

LEMMA StepCases ==
    ASSUME doc \in Models, rule \in Rules \cup {"done", "raised"}, [Next]_vars
    PROVE  \/ UNCHANGED vars
           \/ Raise
           \/ rule \in Quiet /\ \E findings \in SUBSET Elsewhere : Report(findings, Follower(rule))
           \/ rule = "block_count" /\ Counted
           \/ rule = "tensor_shapes" /\ Compared
<1>1. CASE UNCHANGED vars
    BY <1>1
<1>2. CASE Next /\ rule \in {"done", "raised"}
    BY <1>2 DEF Next, ArchPresent, ArchKeyMismatch, CheckQuantVersion, HeadGeometry,
                Q4kEvenHidden, BlockCount, TensorShapes, NormDims, Done
<1>3. CASE Next /\ rule \in Quiet
    BY <1>3, QuietRules
<1>4. CASE Next /\ rule = "block_count"
  <2>1. BlockCount
      BY <1>4 DEF Next, ArchPresent, ArchKeyMismatch, CheckQuantVersion, HeadGeometry,
                  Q4kEvenHidden, TensorShapes, NormDims, Done
  <2>2. doc.arch = NoArch => blocks = Abstain
      BY DEF blocks, Hyper
  <2>3. CASE blocks = Abstain \/ Seen = {}
    <3>1. If(blocks # Abstain /\ Seen # {} /\ BlocksDiffer, "E_BLOCK_COUNT_MISMATCH") = {}
        BY <2>3 DEF If
    <3> QED
        BY <1>4, <2>1, <2>3, <3>1 DEF BlockCount, Counted
  <2>4. CASE ~(blocks = Abstain \/ Seen = {})
    <3>1. If(blocks # Abstain /\ Seen # {} /\ BlocksDiffer, "E_BLOCK_COUNT_MISMATCH")
            = If(BlocksDiffer, "E_BLOCK_COUNT_MISMATCH")
        BY <2>4 DEF If
    <3> QED
        BY <1>4, <2>1, <2>2, <2>4, <3>1 DEF BlockCount, Counted
  <2> QED
      BY <2>3, <2>4
<1>5. CASE Next /\ rule = "tensor_shapes"
  <2>1. TensorShapes
      BY <1>5 DEF Next, ArchPresent, ArchKeyMismatch, CheckQuantVersion, HeadGeometry,
                  Q4kEvenHidden, BlockCount, NormDims, Done
  <2>2. \A p \in Judged(doc.tensors) : p[2] \in Tensors
      BY DEF Judged, Tensors
  <2>3. \A p \in Judged(doc.tensors) : ~(Len(Dims(p[2])) < 2) => Len(Dims(p[2])) >= 2
      BY <2>2, TensorsAreTyped
  <2>4. CASE \E p \in Judged(doc.tensors) : Len(Dims(p[2])) < 2
      BY <2>1, <2>4 DEF TensorShapes
  <2>5. CASE ~ \E p \in Judged(doc.tensors) : Len(Dims(p[2])) < 2
      BY <1>5, <2>1, <2>3, <2>5 DEF TensorShapes, Compared
  <2> QED
      BY <2>4, <2>5
<1> QED
    BY <1>1, <1>2, <1>3, <1>4, <1>5 DEF Quiet

-----------------------------------------------------------------------------
(***************************************************************************)
(* Every step keeps each part of the invariant.                            *)
(***************************************************************************)
Places ==
    [code : ModelCodes, at : {0}]
      \cup [code : {"E_ARCH_KEY_MISMATCH"}, at : DOMAIN doc.prefixes]
      \cup [code : MatrixCodes \cup {"W_INCONSISTENT_HYPERPARAM"}, at : Tensors]

LEMMA StepKeepsTypes ==
    ASSUME doc \in Models, TypeOK, [Next]_vars
    PROVE  TypeOK'
<1>1. found \subseteq Places /\ (doc' = doc => Places' = Places)
    BY DEF TypeOK, Places, Tensors
<1>2. Elsewhere \subseteq Places
    BY DEF Elsewhere, Places
<1>3. ASSUME NEW findings \in SUBSET Places, NEW next \in Rules \cup {"done"},
             Report(findings, next)
      PROVE  TypeOK'
  <2>1. found' \subseteq Places' /\ rule' = next
      BY <1>1, <1>3 DEF Report
  <2>2. next # "raised"
      BY DEF Rules
  <2> QED
      BY <2>1, <2>2 DEF TypeOK, Places
<1>4. CASE UNCHANGED vars
    BY <1>4 DEF TypeOK, vars, Tensors
<1>5. CASE Raise
    BY <1>5 DEF Raise, TypeOK
<1>6. CASE rule \in Quiet /\ \E findings \in SUBSET Elsewhere : Report(findings, Follower(rule))
  <2>1. Follower(rule) \in Rules \cup {"done"}
      BY DEF Follower, Rules
  <2> QED
      BY <1>2, <1>3, <1>6, <2>1
<1>7. CASE Counted
  <2>1. If(blocks # Abstain /\ Seen # {} /\ BlocksDiffer, "E_BLOCK_COUNT_MISMATCH") \subseteq Places
      BY DEF If, Finding, Places, ModelCodes
  <2>2. "tensor_shapes" \in Rules
      BY DEF Rules
  <2> QED
      BY <1>3, <1>7, <2>1, <2>2 DEF Counted
<1>8. CASE Compared
  <2>1. Misfits(doc.tensors) \subseteq Places
      BY MisfitsAreMatrixFindings DEF Places
  <2>2. "norm_dims" \in Rules
      BY DEF Rules
  <2> QED
      BY <1>3, <1>8, <2>1, <2>2 DEF Compared
<1> QED
    BY <1>4, <1>5, <1>6, <1>7, <1>8, StepCases DEF TypeOK

LEMMA StepKeepsNumbered ==
    ASSUME doc \in Models, TypeOK, Numbered, [Next]_vars
    PROVE  Numbered'
<1> DEFINE reported(fs) == \E f \in fs : f.code = "E_BLOCK_COUNT_MISMATCH"
           differ == blocks # Abstain /\ Seen # {} /\ BlocksDiffer
<1>1. /\ rule \in BeforeBlocks => ~reported(found)
      /\ rule \in AfterBlocks => (reported(found) <=> differ)
    BY DEF Numbered
<1>2. SUFFICES ASSUME doc' = doc
               PROVE  /\ rule' \in BeforeBlocks => ~reported(found')
                      /\ rule' \in AfterBlocks => (reported(found') <=> differ)
  <2>1. doc' = doc
      BY StepCases DEF vars, Raise, Report, Counted, Compared, TypeOK
  <2>2. differ' <=> differ
      BY <2>1, ModelIsConstant
  <2> QED
      BY <1>2, <2>1, <2>2 DEF Numbered
<1>3. CASE UNCHANGED vars
    BY <1>1, <1>3 DEF vars
<1>4. CASE Raise
    BY <1>4 DEF Raise, BeforeBlocks, BeforeHeads, AfterBlocks, AfterShapes
<1>5. CASE rule \in Quiet /\ \E findings \in SUBSET Elsewhere : Report(findings, Follower(rule))
  <2>1. PICK findings \in SUBSET Elsewhere : found' = found \cup findings /\ rule' = Follower(rule)
      BY <1>5 DEF Report
  <2>2. ~reported(findings)
      BY DEF Elsewhere
  <2>3. reported(found') <=> reported(found)
      BY <2>1, <2>2
  <2>4. /\ rule' \in BeforeBlocks => rule \in BeforeBlocks
        /\ rule' \in AfterBlocks => rule \in AfterBlocks
      BY <1>5, <2>1 DEF Follower, Quiet, Rules, BeforeBlocks, BeforeHeads, AfterBlocks, AfterShapes
  <2> HIDE DEF reported, differ
  <2> QED
      BY <1>1, <2>3, <2>4
<1>6. CASE rule = "block_count" /\ Counted
  <2>1. ~reported(found)
      BY <1>1, <1>6 DEF BeforeBlocks
  <2>2. found' = found \cup If(differ, "E_BLOCK_COUNT_MISMATCH") /\ rule' = "tensor_shapes"
      BY <1>6 DEF Counted, Report
  <2>3. reported(found') <=> differ
    <3>1. differ => found' = found \cup {Finding("E_BLOCK_COUNT_MISMATCH", 0)}
        BY <2>2 DEF If
    <3>2. ~differ => found' = found
        BY <2>2 DEF If
    <3>3. Finding("E_BLOCK_COUNT_MISMATCH", 0).code = "E_BLOCK_COUNT_MISMATCH"
        BY DEF Finding
    <3>4. differ => reported(found')
      <4> HIDE DEF differ
      <4> QED
          BY <3>1, <3>3
    <3>5. ~differ => ~reported(found')
      <4> HIDE DEF differ
      <4> QED
          BY <3>2, <2>1
    <3> HIDE DEF differ, reported
    <3> QED
        BY <3>4, <3>5
  <2> HIDE DEF reported, differ
  <2> QED
      BY <2>2, <2>3 DEF BeforeBlocks, BeforeHeads
<1>7. CASE rule = "tensor_shapes" /\ Compared
  <2>1. found' = found \cup Misfits(doc.tensors) /\ rule' = "norm_dims"
      BY <1>7 DEF Compared, Report
  <2>2. ~reported(Misfits(doc.tensors))
      BY MisfitsAreMatrixFindings DEF MatrixCodes
  <2>3. reported(found') <=> reported(found)
      BY <2>1, <2>2
  <2> HIDE DEF reported, differ
  <2> QED
      BY <1>1, <1>7, <2>1, <2>3 DEF BeforeBlocks, BeforeHeads, AfterBlocks, AfterShapes
<1> QED
    BY <1>3, <1>4, <1>5, <1>6, <1>7, StepCases DEF TypeOK

LEMMA StepKeepsShaped ==
    ASSUME doc \in Models, TypeOK, Shaped, [Next]_vars
    PROVE  Shaped'
<1> DEFINE quoting(fs) == {f \in fs : f.code \in MatrixCodes /\ f.at # 0}
           misfits == Misfits(doc.tensors)
           long == \A p \in Judged(doc.tensors) : Len(Dims(p[2])) >= 2
<1>1. /\ rule \in BeforeShapes => quoting(found) = {}
      /\ rule \in AfterShapes => quoting(found) \subseteq misfits /\ misfits \subseteq found /\ long
      /\ rule = "norm_dims" => quoting(found) = misfits
    BY DEF Shaped, MatrixFindings
<1>2. SUFFICES ASSUME doc' = doc
               PROVE  /\ rule' \in BeforeShapes => quoting(found') = {}
                      /\ rule' \in AfterShapes =>
                            quoting(found') \subseteq misfits /\ misfits \subseteq found' /\ long
                      /\ rule' = "norm_dims" => quoting(found') = misfits
  <2>1. doc' = doc
      BY StepCases DEF vars, Raise, Report, Counted, Compared, TypeOK
  <2>2. misfits' = misfits /\ MatrixFindings' = quoting(found')
      BY <2>1, ModelIsConstant DEF MatrixFindings
  <2>3. (\A p \in Judged(doc.tensors) : Len(Dims(p[2])) >= 2)' <=> long
      BY <2>1, ModelIsConstant
  <2> HIDE DEF quoting, long, misfits
  <2> QED
      BY <1>2, <2>1, <2>2, <2>3 DEF Shaped, misfits
<1>3. CASE UNCHANGED vars
    BY <1>1, <1>3 DEF vars
<1>4. CASE Raise
    BY <1>4 DEF Raise, BeforeShapes, BeforeBlocks, BeforeHeads, AfterShapes
<1>5. CASE rule \in Quiet /\ \E findings \in SUBSET Elsewhere : Report(findings, Follower(rule))
  <2>1. PICK findings \in SUBSET Elsewhere : found' = found \cup findings /\ rule' = Follower(rule)
      BY <1>5 DEF Report
  <2>2. quoting(findings) = {}
      BY DEF Elsewhere, MatrixCodes
  <2>3. quoting(found') = quoting(found) /\ found \subseteq found'
      BY <2>1, <2>2
  <2>4. /\ rule' \in BeforeShapes => rule \in BeforeShapes
        /\ rule' \in AfterShapes => rule \in AfterShapes
        /\ rule' # "norm_dims"
      BY <1>5, <2>1 DEF Follower, Quiet, Rules, BeforeShapes, BeforeBlocks, BeforeHeads, AfterShapes
  <2> HIDE DEF quoting, misfits, long
  <2> QED
      BY <1>1, <2>3, <2>4
<1>6. CASE rule = "block_count" /\ Counted
  <2>1. found' = found \cup If(blocks # Abstain /\ Seen # {} /\ BlocksDiffer, "E_BLOCK_COUNT_MISMATCH")
        /\ rule' = "tensor_shapes"
      BY <1>6 DEF Counted, Report
  <2>2. quoting(found') = quoting(found)
      BY <2>1 DEF If, Finding, MatrixCodes
  <2> HIDE DEF quoting, misfits, long
  <2> QED
      BY <1>1, <1>6, <2>1, <2>2 DEF BeforeShapes, BeforeBlocks, BeforeHeads, AfterShapes
<1>7. CASE rule = "tensor_shapes" /\ Compared
  <2>1. found' = found \cup misfits /\ rule' = "norm_dims" /\ long
      BY <1>7 DEF Compared, Report
  <2>2. quoting(found) = {}
      BY <1>1, <1>7 DEF BeforeShapes
  <2>3. quoting(misfits) = misfits
      BY MisfitsAreMatrixFindings
  <2>4. quoting(found') = misfits /\ misfits \subseteq found'
    <3> HIDE DEF misfits
    <3> QED
        BY <2>1, <2>2, <2>3
  <2> HIDE DEF quoting, misfits, long
  <2> QED
      BY <2>1, <2>4 DEF BeforeShapes, BeforeBlocks, BeforeHeads
<1> QED
    BY <1>3, <1>4, <1>5, <1>6, <1>7, StepCases DEF TypeOK

\* What the silence of the geometry rule excludes.
Geometry ==
    /\ keyLen # Abstain /\ valLen # Abstain => keyLen = valLen
    /\ hidden # Abstain /\ heads > 0 => hidden % heads = 0
    /\ hidden # Abstain /\ heads > 0 /\ hidden % heads = 0 /\ keyLen # Abstain =>
          heads * keyLen = hidden
    /\ heads # Abstain /\ kvHeads > 0 => heads % kvHeads = 0

LEMMA StepKeepsTiled ==
    ASSUME doc \in Models, TypeOK, Tiled, [Next]_vars
    PROVE  Tiled'
<1>1. rule \in AfterHeads /\ found = {} => Geometry
    BY DEF Tiled, Geometry
<1>2. SUFFICES ASSUME doc' = doc, rule' \in AfterHeads, found' = {}
               PROVE  Geometry
  <2>1. doc' = doc
      BY StepCases DEF vars, Raise, Report, Counted, Compared, TypeOK
  <2>2. Geometry' <=> Geometry
      BY <2>1, ModelIsConstant DEF Geometry
  <2> QED
      BY <1>2, <2>1, <2>2 DEF Tiled, Geometry
<1>3. CASE UNCHANGED vars
    BY <1>1, <1>2, <1>3 DEF vars
<1>4. CASE Raise
    BY <1>2, <1>4 DEF Raise, AfterHeads, AfterBlocks, AfterShapes
<1>5. CASE HeadGeometry
  <2>1. found' =
          found \cup
          (If(keyLen # Abstain /\ valLen # Abstain /\ keyLen # valLen, "E_KV_HEAD_MISMATCH")
            \cup If(keyLen # Abstain /\ keyLen % 2 = 1, "W_HEAD_DIM_ODD")
            \cup If(hidden # Abstain /\ heads > 0 /\ hidden % heads # 0, "W_INCONSISTENT_HYPERPARAM")
            \cup If(hidden # Abstain /\ heads > 0 /\ hidden % heads = 0 /\ WidthDiffers,
                    "E_HEAD_DIM_MISMATCH")
            \cup If(heads # Abstain /\ kvHeads > 0 /\ heads % kvHeads # 0, "W_INCONSISTENT_HYPERPARAM")
            \cup If(valLen # Abstain /\ valLen % 2 = 1, "W_KV_HEAD_DIM_ODD"))
      BY <1>5 DEF HeadGeometry, Report
  <2>2. /\ If(keyLen # Abstain /\ valLen # Abstain /\ keyLen # valLen, "E_KV_HEAD_MISMATCH")
              \subseteq found'
        /\ If(hidden # Abstain /\ heads > 0 /\ hidden % heads # 0, "W_INCONSISTENT_HYPERPARAM")
              \subseteq found'
        /\ If(hidden # Abstain /\ heads > 0 /\ hidden % heads = 0 /\ WidthDiffers,
              "E_HEAD_DIM_MISMATCH") \subseteq found'
        /\ If(heads # Abstain /\ kvHeads > 0 /\ heads % kvHeads # 0, "W_INCONSISTENT_HYPERPARAM")
              \subseteq found'
      BY <2>1
  <2>3. /\ ~(keyLen # Abstain /\ valLen # Abstain /\ keyLen # valLen)
        /\ ~(hidden # Abstain /\ heads > 0 /\ hidden % heads # 0)
        /\ ~(hidden # Abstain /\ heads > 0 /\ hidden % heads = 0 /\ WidthDiffers)
        /\ ~(heads # Abstain /\ kvHeads > 0 /\ heads % kvHeads # 0)
      BY <1>2, <2>2 DEF If
  <2> QED
      BY <2>3 DEF Geometry, WidthDiffers
<1>6. CASE rule \in AfterHeads /\ found \subseteq found'
    BY <1>1, <1>2, <1>6
<1>7. CASE rule \in {"arch_present", "arch_key_mismatch", "quant_version"}
            /\ rule' = Follower(rule)
    BY <1>2, <1>7 DEF Follower, AfterHeads, AfterBlocks, AfterShapes
<1>8. rule = "head_geometry" /\ Next => HeadGeometry
    BY DEF Next, ArchPresent, ArchKeyMismatch, CheckQuantVersion, Q4kEvenHidden, BlockCount,
           TensorShapes, NormDims, Done
<1> QED
    BY <1>3, <1>4, <1>5, <1>6, <1>7, <1>8, StepCases
    DEF TypeOK, Report, Counted, Compared, Quiet, Rules, AfterHeads, AfterBlocks, AfterShapes

LEMMA Start == Init => IInv
<1> SUFFICES ASSUME Init PROVE IInv
    OBVIOUS
<1>1. TypeOK
    BY DEF Init, TypeOK, Rules
<1>2. Numbered
    BY DEF Init, Numbered, AfterBlocks, AfterShapes
<1>3. Shaped
    BY DEF Init, Shaped, MatrixFindings, AfterShapes
<1>4. Tiled
    BY DEF Init, Tiled, AfterHeads, AfterBlocks, AfterShapes
<1> QED
    BY <1>1, <1>2, <1>3, <1>4 DEF Init, IInv

LEMMA Invariance == Spec => []IInv
<1>1. IInv /\ [Next]_vars => IInv'
  <2> SUFFICES ASSUME IInv, [Next]_vars PROVE IInv'
      OBVIOUS
  <2>1. doc' = doc
      BY StepCases DEF vars, Raise, Report, Counted, Compared, TypeOK, IInv
  <2> QED
      BY <2>1, StepKeepsTypes, StepKeepsNumbered, StepKeepsShaped, StepKeepsTiled DEF IInv
<1> QED
    BY Start, <1>1, PTL DEF Spec

-----------------------------------------------------------------------------
(***************************************************************************)
(* TypeOK: findings of the shape rules name tensors and keys of the model, *)
(* whatever its hyperparameters and shapes.                                *)
(***************************************************************************)
THEOREM TypeCorrect == Spec => []TypeOK
BY Invariance, PTL DEF IInv

(***************************************************************************)
(* The first and the last block with tensors.                              *)
(***************************************************************************)
LEMMA EndsOfTheSpan ==
    ASSUME doc \in Models, Seen # {}
    PROVE  /\ Seen \subseteq Nat
           /\ Lowest \in Seen /\ \A b \in Seen : Lowest <= b
           /\ Highest \in Seen /\ \A b \in Seen : b <= Highest
<1> DEFINE n == Len(doc.tensors)
           f == [i \in 1..n |-> Block[doc.tensors[i].name]]
<1>1. n \in Nat /\ Tensors = 1..n /\ \A i \in 1..n : doc.tensors[i].name \in Names
    BY TensorsAreTyped
<1>2. \A i \in 1..n : f[i] \in Nat \cup {NoBlock}
    BY <1>1, ShapeAssumption
<1>3. Seen = {f[i] : i \in 1..n} \ {NoBlock}
    BY <1>1 DEF Seen
<1>4. Seen \subseteq Nat
    BY <1>2, <1>3
<1>5. \E x \in Seen : \A y \in Seen : x <= y
    BY <1>4, SmallestExists
<1>6. \E x \in Seen : \A y \in Seen : y <= x
  <2>1. n \in Nat \ {0} /\ f \in [1..n -> Int]
    <3>1. n # 0
      <4>1. PICK i \in 1..n : TRUE
          BY <1>3
      <4> QED
          BY <1>1, <4>1
    <3>2. \A i \in 1..n : f[i] \in Int
        BY <1>2 DEF NoBlock
    <3> QED
        BY <1>1, <3>1, <3>2
  <2> HIDE DEF f, n
  <2>2. PICK k \in 1..n : \A j \in 1..n : f[j] <= f[k]
      BY <2>1, LargestExists
  <2>3. \A y \in Seen : y <= f[k]
      BY <1>3, <2>2
  <2>4. PICK b \in Seen : b \in Nat /\ b <= f[k]
      BY <1>4, <2>3
  <2>5. f[k] \in Seen
      BY <1>2, <1>3, <2>4 DEF NoBlock
  <2> QED
      BY <2>3, <2>5
<1> QED
    BY <1>4, <1>5, <1>6 DEF Lowest, Highest

LEMMA BlocksDifferExactly ==
    ASSUME doc \in Models, Seen # {}, blocks \in 0..BlockCeiling
    PROVE  BlocksDiffer <=> Seen # 0 .. blocks - 1
<1> DEFINE low == Lowest
           high == Highest
<1>1. /\ Seen \subseteq Nat
      /\ low \in Seen /\ \A b \in Seen : low <= b
      /\ high \in Seen /\ \A b \in Seen : b <= high
    BY EndsOfTheSpan
<1>2. blocks \in Nat /\ BlockCeiling \in Nat
    BY ShapeAssumption
<1>3. BlocksDiffer <=>
          \/ high + 1 # blocks \/ low # 0
          \/ blocks \in 1..BlockCeiling /\ (0 .. blocks - 1) \ Seen # {} /\ high + 1 = blocks
    BY DEF BlocksDiffer, Missing
<1> HIDE DEF low, high
<1>4. ASSUME ~BlocksDiffer
      PROVE  Seen = 0 .. blocks - 1
  <2>1. high + 1 = blocks /\ low = 0
      BY <1>3, <1>4
  <2>2. high \in Nat /\ blocks \in 1..BlockCeiling
      BY <1>1, <1>2, <2>1
  <2>3. (0 .. blocks - 1) \ Seen = {}
      BY <1>3, <1>4, <2>1, <2>2
  <2>4. Seen \subseteq 0 .. blocks - 1
      BY <1>1, <1>2, <2>1, <2>2
  <2> QED
      BY <2>3, <2>4
<1>5. ASSUME Seen = 0 .. blocks - 1
      PROVE  ~BlocksDiffer
  <2>1. blocks >= 1
      BY <1>1, <1>2, <1>5
  <2>2. 0 \in Seen /\ blocks - 1 \in Seen
      BY <1>2, <1>5, <2>1
  <2>3. low = 0 /\ high = blocks - 1
      BY <1>1, <1>2, <1>5, <2>1, <2>2
  <2> QED
      BY <1>2, <1>3, <1>5, <2>3
<1> QED
    BY <1>4, <1>5

(***************************************************************************)
(* BlocksAreContiguous: comparing the ends of the span and looking for     *)
(* missing numbers only when they agree is as good as comparing the sets,  *)
(* for any count up to the ceiling; without a numbered block nothing is    *)
(* compared.                                                               *)
(***************************************************************************)
THEOREM BlocksAreCounted == Spec => []BlocksAreContiguous
<1>1. IInv => BlocksAreContiguous
  <2> SUFFICES ASSUME IInv, rule \in {"tensor_shapes", "norm_dims", "done"},
                      blocks \in 0..BlockCeiling
               PROVE  "E_BLOCK_COUNT_MISMATCH" \in Codes <=> Seen \notin {{}, 0 .. blocks - 1}
      BY DEF BlocksAreContiguous
  <2>1. "E_BLOCK_COUNT_MISMATCH" \in Codes <=>
            blocks # Abstain /\ Seen # {} /\ BlocksDiffer
      BY DEF IInv, Numbered, AfterBlocks, AfterShapes, Codes
  <2>2. blocks # Abstain
      BY DEF Abstain
  <2> QED
      BY <2>1, <2>2, BlocksDifferExactly DEF IInv
<1> QED
    BY Invariance, <1>1, PTL

LEMMA TwoEntriesReplaced ==
    ASSUME NEW t \in Tensor, NEW a, NEW b
    PROVE  [t EXCEPT !.dims[1] = a, !.dims[2] = b].dims = [t.dims EXCEPT ![1] = a, ![2] = b]
BY DEF Tensor

(***************************************************************************)
(* OrientationIgnored: models of any shapes.                               *)
(***************************************************************************)
THEOREM OrientationDoesNotMatter == Spec => []OrientationIgnored
<1>1. IInv => OrientationIgnored
  <2> SUFFICES ASSUME IInv, rule = "norm_dims"
               PROVE  MatrixFindings = Misfits(Transposed)
      BY DEF OrientationIgnored, MatrixFindings
  <2>1. MatrixFindings = Misfits(doc.tensors)
      BY DEF IInv, Shaped
  <2>2. Judged(Transposed) = Judged(doc.tensors)
      BY DEF Judged, Transposed, Tensors
  <2>3. ASSUME NEW p \in Judged(doc.tensors)
        PROVE  Dumbbell(Transposed[p[2]].dims, p[1].in, p[1].out) <=>
                   Dumbbell(doc.tensors[p[2]].dims, p[1].in, p[1].out)
    <3> DEFINE i == p[2]
               d == Dims(i)
    <3>1. i \in Tensors /\ Len(d) >= 2 /\ d \in Seq(Nat) /\ Len(d) \in 1..4
      <4>1. p[2] \in Tensors
          BY DEF Judged, Tensors
      <4> QED
          BY <4>1, TensorsAreTyped DEF IInv, Shaped, AfterShapes
    <3>2. doc.tensors[i] \in Tensor
        BY <3>1, ShapeAssumption, ElementOf DEF IInv, Model, Tensors
    <3>3. Transposed[i].dims = [d EXCEPT ![1] = d[2], ![2] = d[1]]
      <4>1. Transposed[i] = [doc.tensors[i] EXCEPT !.dims[1] = d[2], !.dims[2] = d[1]]
        <5>1. i \in Tensors /\ ~(Len(Dims(i)) < 2)
            BY <3>1
        <5> HIDE DEF i
        <5> QED
            BY <5>1, Zenon DEF Transposed
      <4> QED
          BY <3>2, <4>1, TwoEntriesReplaced DEF Dims
    <3>4. {1, 2} \subseteq DOMAIN d
        BY <3>1
    <3>5. Transposed[i].dims[1] = d[2] /\ Transposed[i].dims[2] = d[1]
      <4> HIDE DEF d
      <4> QED
          BY <3>3, <3>4
    <3> QED
        BY <3>5 DEF Dumbbell, Dims
  <2> QED
      BY <2>1, <2>2, <2>3 DEF Misfits
<1> QED
    BY Invariance, <1>1, PTL

(***************************************************************************)
(* SilentModelSplits: heads, widths and lengths of any size.  Two facts of *)
(* arithmetic first.                                                       *)
(***************************************************************************)
LEMMA RowsOfTheProjection ==
    ASSUME NEW h \in Nat, NEW k \in Nat, NEW l \in Nat
    PROVE  (h + 2 * k) * l = h * l + 2 * k * l
OBVIOUS

LEMMA AreaOfAMatrix ==
    ASSUME NEW dims \in Seq(Nat), Len(dims) >= 2, NEW in \in Nat, NEW out \in Nat,
           Dumbbell(dims, in, out)
    PROVE  dims[1] * dims[2] = in * out
<1>1. dims[1] \in Nat /\ dims[2] \in Nat
    OBVIOUS
<1> QED
    BY <1>1 DEF Dumbbell

\* A model audited without a finding, by the checks of r_head_geometry,
\* r_hidden_dims and r_tensor_shapes together, has heads that split its
\* hidden width and its fused projection exactly.
THEOREM SilenceSplits == Spec => []SilentModelSplits
<1>1. IInv => SilentModelSplits
  <2> SUFFICES ASSUME IInv, rule = "done", found = {}, AttentionDeclared
               PROVE  /\ hidden = heads * valLen /\ keyLen = valLen /\ heads % kvHeads = 0
                      /\ \A i \in First(ATTN_QKV) : Area(i) = hidden * (hidden + 2 * kvHeads * valLen)
                      /\ \A i \in First(ATTN_OUT) : Dims(i)[1] = hidden /\ Dims(i)[2] = hidden
      BY DEF SilentModelSplits
  <2>1. /\ hidden \in Nat /\ heads \in Nat /\ kvHeads \in Nat /\ keyLen \in Nat /\ valLen \in Nat
        /\ hidden # Abstain /\ heads > 0 /\ kvHeads > 0 /\ keyLen > 0 /\ valLen > 0
      BY HypersAreNatural DEF IInv, AttentionDeclared, Abstain
  <2>2. keyLen = valLen /\ hidden = heads * keyLen /\ heads % kvHeads = 0
      BY <2>1 DEF IInv, Tiled, Abstain, AfterHeads, AfterBlocks, AfterShapes
  <2>3. ASSUME NEW c \in Checks, NEW i \in First(c.suffix)
        PROVE  Dims(i) \in Seq(Nat) /\ Len(Dims(i)) >= 2 /\ Dumbbell(Dims(i), c.in, c.out)
    <3>1. i \in Tensors /\ <<c, i>> \in Judged(doc.tensors)
        BY DEF Judged, First, Tensors
    <3>2. Misfits(doc.tensors) = {} /\ Len(Dims(i)) >= 2
        BY <3>1 DEF IInv, Shaped, AfterShapes
    <3>3. Dumbbell(Dims(i), c.in, c.out)
        BY <3>1, <3>2 DEF Misfits, Dims
    <3> QED
        BY <3>1, <3>2, <3>3, TensorsAreTyped DEF IInv
  <2>4. /\ Check(ATTN_QKV, "E_HEAD_DIM_MISMATCH", hidden, (heads + 2 * kvHeads) * keyLen) \in Checks
        /\ Check(ATTN_OUT, "E_HEAD_DIM_MISMATCH", heads * keyLen, hidden) \in Checks
    <3>1. ~(heads <= 0 \/ kvHeads <= 0 \/ keyLen <= 0 \/ hidden = Abstain)
        BY <2>1
    <3> QED
        BY <3>1, Zenon DEF Checks
  <2>5. ASSUME NEW i \in First(ATTN_QKV)
        PROVE  Area(i) = hidden * (hidden + 2 * kvHeads * valLen)
    <3> DEFINE out == (heads + 2 * kvHeads) * keyLen
    <3>1. Dims(i) \in Seq(Nat) /\ Len(Dims(i)) >= 2 /\ Dumbbell(Dims(i), hidden, out)
        BY <2>3, <2>4 DEF Check
    <3>2. out \in Nat /\ hidden \in Nat
        BY <2>1
    <3>3. out = hidden + 2 * kvHeads * valLen
        BY <2>1, <2>2, RowsOfTheProjection
    <3> HIDE DEF out
    <3>4. Area(i) = hidden * out
        BY <3>1, <3>2, AreaOfAMatrix DEF Area
    <3> QED
        BY <3>3, <3>4
  <2>6. ASSUME NEW i \in First(ATTN_OUT)
        PROVE  Dims(i)[1] = hidden /\ Dims(i)[2] = hidden
    <3>1. Dumbbell(Dims(i), heads * keyLen, hidden)
        BY <2>3, <2>4 DEF Check
    <3> QED
        BY <2>2, <3>1 DEF Dumbbell
  <2> QED
      BY <2>2, <2>5, <2>6
<1> QED
    BY Invariance, <1>1, PTL

-----------------------------------------------------------------------------
(***************************************************************************)
(* The models build_model writes: their keys, their rows, their blocks.    *)
(***************************************************************************)
LEMMA WrittenKeys ==
    ASSUME NEW spec \in ModelSpecs, doc = BuildModel(spec)
    PROVE  /\ doc.arch = Llama /\ Llama # NoArch
           /\ hidden = spec.n_embed /\ vocab = spec.n_vocab /\ ffn = spec.n_ffn
           /\ heads = spec.n_head /\ kvHeads = spec.n_kv_head
           /\ keyLen = spec.head_dim /\ valLen = spec.head_dim
           /\ blocks = spec.n_block
<1>1. spec \in ModelSpec
    BY SpecAssumption
<1>2. doc.arch = Llama /\ Llama # NoArch
    BY ShapeAssumption, SpecAssumption DEF BuildModel
<1>3. \A key \in Hyperparams : doc.hyper[key] = Given(ArchKeys(spec)[key])
    BY DEF BuildModel
<1>4. ASSUME NEW key \in Hyperparams, ArchKeys(spec)[key] \in Nat
      PROVE  Hyper(key) = ArchKeys(spec)[key]
  <2>1. doc.hyper[key].kind = "int" /\ doc.hyper[key].n = ArchKeys(spec)[key]
    <3>1. doc.hyper[key] = Given(ArchKeys(spec)[key])
        BY <1>3
    <3> QED
        BY <3>1 DEF Given
  <2>2. ArchKeys(spec)[key] >= 0
      BY <1>4
  <2> QED
      BY <1>2, <2>1, <2>2 DEF Hyper
<1>5. /\ ArchKeys(spec)["embedding_length"] = spec.n_embed
      /\ ArchKeys(spec)["vocab_size"] = spec.n_vocab
      /\ ArchKeys(spec)["feed_forward_length"] = spec.n_ffn
      /\ ArchKeys(spec)["block_count"] = spec.n_block
      /\ ArchKeys(spec)["head_count"] = spec.n_head
      /\ ArchKeys(spec)["head_count_kv"] = spec.n_kv_head
      /\ ArchKeys(spec)["key_length"] = spec.head_dim
      /\ ArchKeys(spec)["value_length"] = spec.head_dim
    BY DEF ArchKeys
<1>6. {spec.n_embed, spec.n_vocab, spec.n_ffn, spec.n_block, spec.n_head, spec.n_kv_head,
       spec.head_dim} \subseteq Nat
    BY <1>1 DEF ModelSpec
<1> QED
    BY <1>2, <1>4, <1>5, <1>6
    DEF hidden, vocab, ffn, heads, kvHeads, keyLen, valLen, blocks, Hyperparams

(***************************************************************************)
(* The parts of a model, with their two leading dimensions.                *)
(***************************************************************************)
Sized(spec, part, width, height) ==
    LET e == spec.n_embed
    IN  \/ part = "token_embd.weight" /\ width = spec.n_vocab /\ height = e
        \/ part = "output.weight" /\ width = e /\ height = spec.n_vocab
        \/ part \in NormParts /\ width = e /\ height = 1
        \/ part = "attn_qkv.weight" /\ width = QkvRows(spec) /\ height = e
        \/ part = "attn_out.weight" /\ width = e /\ height = spec.n_head * spec.head_dim
        \/ part = "attn_rot_embd.weight"
        \/ part = "ffn_gate_up.weight" /\ width = 2 * spec.n_ffn /\ height = e
        \/ part = "ffn_down.weight" /\ width = e /\ height = spec.n_ffn

Writes(spec, block, t) ==
    \E part, width, height :
        /\ part \in Parts /\ Sized(spec, part, width, height)
        /\ t.name = <<block, part>> /\ t.dims = <<width, height, 1, 1>>

LEMMA RowIsWritten ==
    ASSUME NEW spec, NEW block, NEW part \in Parts, NEW width, NEW height,
           Sized(spec, part, width, height)
    PROVE  /\ Writes(spec, block, Row(block, part, width, height))
           /\ Writes(spec, block, Weight(spec, Row(block, part, width, height)))
<1>1. /\ Row(block, part, width, height).name = <<block, part>>
      /\ Row(block, part, width, height).dims = <<width, height, 1, 1>>
      /\ Weight(spec, Row(block, part, width, height)).name = <<block, part>>
      /\ Weight(spec, Row(block, part, width, height)).dims = <<width, height, 1, 1>>
    BY DEF Row, Weight
<1> QED
    BY <1>1 DEF Writes

LEMMA TopIsWritten ==
    ASSUME NEW spec, NEW i \in 1..4
    PROVE  Writes(spec, NoBlock, TopRows(spec)[i])
<1> DEFINE e == spec.n_embed
<1>1. /\ {"token_embd.weight", "token_embd_norm.weight", "output.weight", "output_norm.weight"}
            \subseteq Parts
      /\ {"token_embd_norm.weight", "output_norm.weight"} \subseteq NormParts
    BY DEF Parts, NormParts, Suffixes, EMB, OUT, NORM
<1>2. /\ Sized(spec, "token_embd.weight", spec.n_vocab, e)
      /\ Sized(spec, "token_embd_norm.weight", e, 1)
      /\ Sized(spec, "output.weight", e, spec.n_vocab)
      /\ Sized(spec, "output_norm.weight", e, 1)
    BY <1>1 DEF Sized
<1>3. TopRows(spec) =
        <<Row(NoBlock, "token_embd.weight", spec.n_vocab, e),
          Row(NoBlock, "token_embd_norm.weight", e, 1),
          Row(NoBlock, "output.weight", e, spec.n_vocab),
          Row(NoBlock, "output_norm.weight", e, 1)>>
    BY DEF TopRows
<1> HIDE DEF e
<1> QED
    BY <1>1, <1>2, <1>3, RowIsWritten

LEMMA BlockIsWritten ==
    ASSUME NEW spec, NEW block, NEW j \in 1..7
    PROVE  Writes(spec, block, BlockRows(spec, block)[j])
<1> DEFINE e == spec.n_embed
           q == QkvRows(spec)
           o == spec.n_head * spec.head_dim
           r == spec.head_dim \div 2
           g == 2 * spec.n_ffn
<1>1. /\ {"attn_norm.weight", "attn_qkv.weight", "attn_out.weight", "attn_rot_embd.weight",
          "ffn_norm.weight", "ffn_gate_up.weight", "ffn_down.weight"} \subseteq Parts
      /\ {"attn_norm.weight", "ffn_norm.weight"} \subseteq NormParts
    BY DEF Parts, NormParts, Suffixes, ATTN_QKV, ATTN_OUT, FFN_GATE_UP, FFN_DOWN, NORM
<1>2. /\ Sized(spec, "attn_norm.weight", e, 1)
      /\ Sized(spec, "attn_qkv.weight", q, e)
      /\ Sized(spec, "attn_out.weight", e, o)
      /\ Sized(spec, "attn_rot_embd.weight", r, 1)
      /\ Sized(spec, "ffn_norm.weight", e, 1)
      /\ Sized(spec, "ffn_gate_up.weight", g, e)
      /\ Sized(spec, "ffn_down.weight", e, spec.n_ffn)
    BY <1>1 DEF Sized
<1>3. BlockRows(spec, block) =
        <<Row(block, "attn_norm.weight", e, 1),
          Weight(spec, Row(block, "attn_qkv.weight", q, e)),
          Weight(spec, Row(block, "attn_out.weight", e, o)),
          Row(block, "attn_rot_embd.weight", r, 1),
          Row(block, "ffn_norm.weight", e, 1),
          Weight(spec, Row(block, "ffn_gate_up.weight", g, e)),
          Weight(spec, Row(block, "ffn_down.weight", e, spec.n_ffn))>>
    BY DEF BlockRows
<1> HIDE DEF e, q, o, r, g
<1>4. /\ Writes(spec, block, Row(block, "attn_norm.weight", e, 1))
      /\ Writes(spec, block, Weight(spec, Row(block, "attn_qkv.weight", q, e)))
      /\ Writes(spec, block, Weight(spec, Row(block, "attn_out.weight", e, o)))
      /\ Writes(spec, block, Row(block, "attn_rot_embd.weight", r, 1))
      /\ Writes(spec, block, Row(block, "ffn_norm.weight", e, 1))
      /\ Writes(spec, block, Weight(spec, Row(block, "ffn_gate_up.weight", g, e)))
      /\ Writes(spec, block, Weight(spec, Row(block, "ffn_down.weight", e, spec.n_ffn)))
    BY <1>1, <1>2, RowIsWritten
<1>5. j = 1 \/ j = 2 \/ j = 3 \/ j = 4 \/ j = 5 \/ j = 6 \/ j = 7
    OBVIOUS
<1> QED
    BY <1>3, <1>4, <1>5

BlockOf(i) == IF i <= 4 THEN NoBlock ELSE (i - 5) \div 7

LEMMA WrittenRows ==
    ASSUME NEW spec \in ModelSpecs, doc = BuildModel(spec), doc \in Models
    PROVE  /\ spec.n_block \in Nat /\ Tensors = 1 .. 4 + 7 * spec.n_block
           /\ \A i \in Tensors :
                 /\ Writes(spec, BlockOf(i), doc.tensors[i])
                 /\ Block[doc.tensors[i].name] = BlockOf(i)
                 /\ EndsWith[doc.tensors[i].name] = Endings(doc.tensors[i].name[2])
<1>1. spec.n_block \in Nat
    BY SpecAssumption DEF ModelSpec
<1>2. doc.tensors = Layout(spec)
    BY DEF BuildModel
<1>3. Tensors = 1 .. 4 + 7 * spec.n_block
    BY <1>2 DEF Layout, Tensors
<1>4. ASSUME NEW i \in Tensors
      PROVE  Writes(spec, BlockOf(i), doc.tensors[i])
  <2>1. doc.tensors[i] = IF i <= 4 THEN TopRows(spec)[i]
                         ELSE BlockRows(spec, (i - 5) \div 7)[((i - 5) % 7) + 1]
      BY <1>2, <1>3 DEF Layout
  <2>2. i \in Nat /\ i >= 1
      BY <1>1, <1>3
  <2>3. CASE i <= 4
    <3>1. i \in 1..4
        BY <2>2, <2>3
    <3> QED
        BY <2>1, <2>3, <3>1, TopIsWritten DEF BlockOf
  <2>4. CASE ~(i <= 4)
    <3>1. i - 5 \in Nat /\ 7 \in Nat \ {0}
        BY <2>2, <2>4
    <3>2. (i - 5) % 7 \in 0..6
        BY <3>1
    <3>3. ((i - 5) % 7) + 1 \in 1..7
        BY <3>2
    <3> QED
        BY <2>1, <2>4, <3>3, BlockIsWritten DEF BlockOf
  <2> QED
      BY <2>3, <2>4
<1>5. ASSUME NEW i \in Tensors
      PROVE  /\ Block[doc.tensors[i].name] = BlockOf(i)
             /\ EndsWith[doc.tensors[i].name] = Endings(doc.tensors[i].name[2])
  <2>1. PICK part : part \in Parts /\ doc.tensors[i].name = <<BlockOf(i), part>>
      BY <1>4 DEF Writes
  <2>2. doc.tensors[i].name \in Names
      BY TensorsAreTyped
  <2> QED
      BY <2>1, <2>2, NameAssumption
<1> QED
    BY <1>1, <1>3, <1>4, <1>5

(***************************************************************************)
(* A written matrix has the dimensions its check asks for, whatever the    *)
(* spec, and a written norm is as wide as the model.                       *)
(***************************************************************************)
LEMMA WrittenShapesFit ==
    ASSUME NEW spec \in ModelSpecs, doc = BuildModel(spec), doc \in Models
    PROVE  /\ \A p \in Judged(doc.tensors) : ~(Len(Dims(p[2])) < 2)
           /\ Misfits(doc.tensors) = {}
           /\ \A i \in Tensors : HasSuffix(NORM, i) => Dims(i)[1] = hidden
<1>1. /\ hidden = spec.n_embed /\ vocab = spec.n_vocab /\ ffn = spec.n_ffn
      /\ heads = spec.n_head /\ kvHeads = spec.n_kv_head /\ keyLen = spec.head_dim
    BY WrittenKeys
<1>2. ASSUME NEW i \in Tensors
      PROVE  \E part, width, height :
                /\ part \in Parts /\ Sized(spec, part, width, height)
                /\ EndsWith[doc.tensors[i].name] = Endings(part)
                /\ Len(Dims(i)) = 4 /\ Dims(i)[1] = width /\ Dims(i)[2] = height
  <2>1. PICK part, width, height :
            /\ part \in Parts /\ Sized(spec, part, width, height)
            /\ doc.tensors[i].name = <<BlockOf(i), part>>
            /\ doc.tensors[i].dims = <<width, height, 1, 1>>
      BY WrittenRows DEF Writes
  <2>2. EndsWith[doc.tensors[i].name] = Endings(part)
      BY <2>1, WrittenRows
  <2>3. Len(Dims(i)) = 4 /\ Dims(i)[1] = width /\ Dims(i)[2] = height
      BY <2>1 DEF Dims
  <2> QED
      BY <2>1, <2>2, <2>3
<1>3. ASSUME NEW c \in Checks, NEW i \in Tensors, HasSuffix(c.suffix, i)
      PROVE  Len(Dims(i)) = 4 /\ Dumbbell(Dims(i), c.in, c.out)
  <2>1. PICK part, width, height :
            /\ part \in Parts /\ Sized(spec, part, width, height)
            /\ EndsWith[doc.tensors[i].name] = Endings(part)
            /\ Len(Dims(i)) = 4 /\ Dims(i)[1] = width /\ Dims(i)[2] = height
      BY <1>2
  <2>2. c.suffix \in Endings(part)
      BY <1>3, <2>1 DEF HasSuffix
  <2>3. c \in {Check(EMB, "E_EMBED_ROWS_MISMATCH", hidden, vocab),
               Check(OUT, "E_EMBED_ROWS_MISMATCH", hidden, vocab),
               Check(ATTN_QKV, "E_HEAD_DIM_MISMATCH", hidden, (heads + 2 * kvHeads) * keyLen),
               Check(ATTN_OUT, "E_HEAD_DIM_MISMATCH", heads * keyLen, hidden),
               Check(FFN_GATE_UP, "E_FFN_DIM_MISMATCH", hidden, 2 * ffn),
               Check(FFN_DOWN, "E_FFN_DIM_MISMATCH", ffn, hidden)}
      BY DEF Checks
  <2>4. c.suffix # NORM
      BY <2>3 DEF Check, EMB, OUT, ATTN_QKV, ATTN_OUT, FFN_GATE_UP, FFN_DOWN, NORM
  <2>5. c.suffix = part
      BY <2>2, <2>4 DEF Endings
  <2> DEFINE q == QkvRows(spec)
             o == spec.n_head * spec.head_dim
             g == 2 * spec.n_ffn
  <2>6. q = (heads + 2 * kvHeads) * keyLen /\ o = heads * keyLen /\ g = 2 * ffn
      BY <1>1 DEF QkvRows
  <2>7. \/ part = "token_embd.weight" /\ width = vocab /\ height = hidden
        \/ part = "output.weight" /\ width = hidden /\ height = vocab
        \/ part \in NormParts
        \/ part = "attn_qkv.weight" /\ width = q /\ height = hidden
        \/ part = "attn_out.weight" /\ width = hidden /\ height = o
        \/ part = "attn_rot_embd.weight"
        \/ part = "ffn_gate_up.weight" /\ width = g /\ height = hidden
        \/ part = "ffn_down.weight" /\ width = hidden /\ height = ffn
      BY <1>1, <2>1 DEF Sized
  <2> HIDE DEF q, o, g
  <2>8. \/ c.suffix = "token_embd.weight" /\ c.in = hidden /\ c.out = vocab
        \/ c.suffix = "output.weight" /\ c.in = hidden /\ c.out = vocab
        \/ c.suffix = "attn_qkv.weight" /\ c.in = hidden /\ c.out = q
        \/ c.suffix = "attn_out.weight" /\ c.in = o /\ c.out = hidden
        \/ c.suffix = "ffn_gate_up.weight" /\ c.in = hidden /\ c.out = g
        \/ c.suffix = "ffn_down.weight" /\ c.in = ffn /\ c.out = hidden
      BY <2>3, <2>6 DEF Check, EMB, OUT, ATTN_QKV, ATTN_OUT, FFN_GATE_UP, FFN_DOWN
  <2> QED
      BY <2>1, <2>5, <2>7, <2>8 DEF Dumbbell, NormParts
<1>4. ASSUME NEW p \in Judged(doc.tensors)
      PROVE  /\ Len(Dims(p[2])) = 4
             /\ Dumbbell(doc.tensors[p[2]].dims, p[1].in, p[1].out)
  <2>1. p[1] \in Checks /\ p[2] \in Tensors /\ HasSuffix(p[1].suffix, p[2])
      BY DEF Judged, First, Tensors
  <2> QED
      BY <1>3, <2>1 DEF Dims
<1>5. ASSUME NEW i \in Tensors, HasSuffix(NORM, i)
      PROVE  Dims(i)[1] = hidden
  <2>1. PICK part, width, height :
            /\ part \in Parts /\ Sized(spec, part, width, height)
            /\ EndsWith[doc.tensors[i].name] = Endings(part)
            /\ Dims(i)[1] = width
      BY <1>2
  <2>2. NORM \in Endings(part)
      BY <1>5, <2>1 DEF HasSuffix
  <2>3. part \in NormParts
      BY <2>1, <2>2 DEF Endings, Parts, NormParts, NORM
  <2> QED
      BY <1>1, <2>1, <2>3 DEF Sized, NormParts
<1> QED
    BY <1>4, <1>5 DEF Misfits

(***************************************************************************)
(* The blocks with tensors are those the declared count asks for.          *)
(***************************************************************************)
LEMMA WrittenBlocks ==
    ASSUME NEW spec \in ModelSpecs, doc = BuildModel(spec), doc \in Models
    PROVE  /\ blocks = spec.n_block /\ blocks \in Nat
           /\ Seen = {} <=> blocks = 0
           /\ Seen # {} => ~BlocksDiffer
<1>1. /\ blocks = spec.n_block /\ blocks \in Nat
      /\ Tensors = 1 .. 4 + 7 * blocks
      /\ \A i \in Tensors : Block[doc.tensors[i].name] = BlockOf(i)
    BY WrittenKeys, WrittenRows
<1> DEFINE n == blocks
<1>0. n \in Nat
    BY <1>1
<1>2. Seen = {BlockOf(i) : i \in 1 .. 4 + 7 * n} \ {NoBlock}
    BY <1>1 DEF Seen
<1> HIDE DEF n
<1>3. Seen \subseteq 0 .. n - 1
  <2> SUFFICES ASSUME NEW i \in 1 .. 4 + 7 * n, BlockOf(i) # NoBlock
               PROVE  BlockOf(i) \in 0 .. n - 1
      BY <1>2
  <2>1. i \in Nat /\ i > 4 /\ BlockOf(i) = (i - 5) \div 7
      BY <1>0 DEF BlockOf
  <2>2. i - 5 \in Nat /\ i - 5 < 7 * n
      BY <1>0, <2>1
  <2> DEFINE b == (i - 5) \div 7
             r == (i - 5) % 7
  <2>3. r \in 0..6 /\ b \in Nat /\ i - 5 = (7 * b) + r
      BY <2>2
  <2> HIDE DEF b, r
  <2>4. b < n
      BY <1>0, <2>2, <2>3
  <2> QED
      BY <1>0, <2>1, <2>3, <2>4 DEF b
<1>4. 0 .. n - 1 \subseteq Seen
  <2> SUFFICES ASSUME NEW b \in 0 .. n - 1
               PROVE  b \in Seen
      OBVIOUS
  <2>1. 5 + 7 * b \in 1 .. 4 + 7 * n
      BY <1>0
  <2>2. BlockOf(5 + 7 * b) = b
      BY <1>0 DEF BlockOf
  <2> QED
      BY <1>0, <1>2, <2>1, <2>2 DEF NoBlock
<1>5. Seen = 0 .. n - 1
    BY <1>3, <1>4
<1>6. ASSUME Seen # {}
      PROVE  ~BlocksDiffer
  <2> DEFINE low == Lowest
             high == Highest
  <2>1. /\ low \in Seen /\ \A b \in Seen : low <= b
        /\ high \in Seen /\ \A b \in Seen : b <= high
      BY <1>6, EndsOfTheSpan
  <2>2. BlocksDiffer =>
            high + 1 # n \/ low # 0 \/ (0 .. n - 1) \ Seen # {}
      BY DEF BlocksDiffer, Missing, n
  <2> HIDE DEF low, high
  <2>3. 0 \in Seen /\ n - 1 \in Seen
      BY <1>0, <1>5, <1>6
  <2>4. low = 0 /\ high = n - 1
      BY <1>0, <1>5, <2>1, <2>3
  <2> QED
      BY <1>0, <1>5, <2>2, <2>4
<1>7. Seen = {} <=> n = 0
    BY <1>0, <1>5
<1> QED
    BY <1>1, <1>6, <1>7 DEF n

(***************************************************************************)
(* The divisions that being consistent comes down to.                      *)
(***************************************************************************)
LEMMA MultipleDivides ==
    ASSUME NEW h \in Nat \ {0}, NEW d \in Nat
    PROVE  (h * d) % h = 0
<1>1. h * d = h * d + 0 /\ h * d \in Nat /\ 0 \in 0 .. h - 1
    OBVIOUS
<1> QED
    BY <1>1, DivisionIsUnique

LEMMA EvenMultiple ==
    ASSUME NEW h \in Nat, NEW d \in Nat, d % 2 = 0
    PROVE  (h * d) % 2 = 0
<1> DEFINE k == d \div 2
<1>1. k \in Nat /\ d = 2 * k
    OBVIOUS
<1> HIDE DEF k
<1>2. h * k \in Nat /\ h * d = 2 * (h * k) + 0 /\ h * d \in Nat
    BY <1>1
<1> QED
    BY <1>2, DivisionIsUnique

LEMMA ConsistentGeometry ==
    ASSUME NEW spec \in ModelSpecs
    PROVE  Consistent(spec) <=>
             /\ spec.head_dim % 2 # 1
             /\ spec.n_embed % spec.n_head = 0
             /\ spec.n_head * spec.head_dim = spec.n_embed
             /\ spec.n_head % spec.n_kv_head = 0
             /\ ~(spec.quant_version > QuantVersion)
             /\ ~(spec.n_block > RangeLimit)
<1>1. /\ spec.n_embed \in Nat /\ spec.n_head \in Nat \ {0} /\ spec.head_dim \in Nat
      /\ spec.quant_version \in Nat /\ spec.n_block \in Nat
      /\ QuantVersion \in Nat /\ RangeLimit \in Nat
    BY SpecAssumption, ShapeAssumption DEF ModelSpec
<1>2. spec.head_dim % 2 # 1 <=> spec.head_dim % 2 = 0
    BY <1>1
<1>3. spec.n_embed = spec.n_head * spec.head_dim => spec.n_embed % spec.n_head = 0
    BY <1>1, MultipleDivides
<1>4. /\ spec.quant_version <= QuantVersion <=> ~(spec.quant_version > QuantVersion)
      /\ spec.n_block <= RangeLimit <=> ~(spec.n_block > RangeLimit)
    BY <1>1
<1> QED
    BY <1>2, <1>3, <1>4 DEF Consistent

-----------------------------------------------------------------------------
(***************************************************************************)
(* What the rules that have run leave of a fixture.                        *)
(***************************************************************************)
Decided ==
    \A spec \in ModelSpecs :
        doc = BuildModel(spec) =>
            /\ rule = "raised" => ~Consistent(spec)
            /\ Consistent(spec) => found = {}
            /\ rule \in {"head_geometry"} \cup AfterHeads /\ found = {} =>
                  ~(spec.quant_version > QuantVersion)
            /\ rule \in AfterHeads /\ found = {} =>
                  /\ spec.head_dim % 2 # 1
                  /\ spec.n_embed % spec.n_head = 0
                  /\ spec.n_head * spec.head_dim = spec.n_embed
                  /\ spec.n_head % spec.n_kv_head = 0
            /\ rule \in AfterBlocks => ~(spec.n_block > RangeLimit)

LEMMA NothingReported ==
    ASSUME NEW findings, NEW next, Report(findings, next), findings = {}
    PROVE  found' = found /\ rule' = next
BY DEF Report

LEMMA FixtureMetadata ==
    ASSUME NEW spec \in ModelSpecs, doc = BuildModel(spec), doc \in Models
    PROVE  /\ ArchPresent => found' = found /\ rule' = "arch_key_mismatch"
           /\ ArchKeyMismatch => found' = found /\ rule' = "quant_version"
           /\ CheckQuantVersion =>
                 Report(If(spec.quant_version > QuantVersion, "E_QUANT_VERSION_UNSUPPORTED"),
                        "head_geometry")
<1>1. doc.arch = Llama /\ Llama # NoArch
    BY WrittenKeys
<1>2. /\ doc.prefixes = <<"general", "tokenizer", Llama>>
      /\ doc.quantVersion = Given(spec.quant_version)
    BY DEF BuildModel
<1>3. ASSUME ArchPresent
      PROVE  found' = found /\ rule' = "arch_key_mismatch"
  <2>1. If(doc.arch = NoArch, "W_NO_ARCH") = {}
      BY <1>1 DEF If
  <2> QED
      BY <1>3, <2>1 DEF ArchPresent, Report
<1>4. ASSUME ArchKeyMismatch
      PROVE  found' = found /\ rule' = "quant_version"
  <2>1. \A i \in DOMAIN doc.prefixes : doc.prefixes[i] \notin ArchNames \ {doc.arch}
      BY <1>1, <1>2, SpecAssumption
  <2> DEFINE foreign == {i \in DOMAIN doc.prefixes :
                            /\ doc.arch # NoArch
                            /\ doc.prefixes[i] \in ArchNames \ {doc.arch}}
  <2>2. foreign = {}
      BY <2>1
  <2>3. Report({Finding("E_ARCH_KEY_MISMATCH", i) : i \in foreign}, "quant_version")
      BY <1>4 DEF ArchKeyMismatch
  <2> HIDE DEF foreign
  <2> QED
      BY <2>2, <2>3 DEF Report
<1>5. ASSUME CheckQuantVersion
      PROVE  Report(If(spec.quant_version > QuantVersion, "E_QUANT_VERSION_UNSUPPORTED"),
                    "head_geometry")
  <2> DEFINE v == doc.quantVersion
             over == If(v.kind = "int" /\ v.n > QuantVersion, "E_QUANT_VERSION_UNSUPPORTED")
             none == If(v = Absent, "W_NO_QUANT_VERSION")
  <2>1. v.kind = "int" /\ v.n = spec.quant_version /\ v # Absent
      BY <1>2 DEF Given, Absent
  <2>2. over = If(spec.quant_version > QuantVersion, "E_QUANT_VERSION_UNSUPPORTED") /\ none = {}
      BY <2>1 DEF If
  <2>3. doc.tensors # <<>>
    <3>1. 1 \in Tensors
        BY WrittenRows
    <3> QED
        BY <3>1 DEF Tensors
  <2>4. Report(IF doc.tensors = <<>> THEN {} ELSE none \cup over, "head_geometry")
      BY <1>5 DEF CheckQuantVersion
  <2> HIDE DEF over, none
  <2>5. (IF doc.tensors = <<>> THEN {} ELSE none \cup over) = over
      BY <2>2, <2>3
  <2> QED
      BY <2>2, <2>4, <2>5
<1> QED
    BY <1>3, <1>4, <1>5

LEMMA FixtureGeometry ==
    ASSUME NEW spec \in ModelSpecs, doc = BuildModel(spec), HeadGeometry
    PROVE  /\ rule' = "q4k_even_hidden" /\ found \subseteq found'
           /\ Consistent(spec) => found' = found
           /\ found' = {} =>
                 /\ spec.head_dim % 2 # 1
                 /\ spec.n_embed % spec.n_head = 0
                 /\ spec.n_head * spec.head_dim = spec.n_embed
                 /\ spec.n_head % spec.n_kv_head = 0
<1>1. /\ hidden = spec.n_embed /\ heads = spec.n_head /\ kvHeads = spec.n_kv_head
      /\ keyLen = spec.head_dim /\ valLen = spec.head_dim
    BY WrittenKeys
<1>2. /\ hidden \in Nat /\ heads \in Nat \ {0} /\ kvHeads \in Nat \ {0} /\ keyLen \in Nat
      /\ hidden # Abstain /\ heads # Abstain /\ keyLen # Abstain /\ heads > 0 /\ kvHeads > 0
    BY <1>1, SpecAssumption DEF ModelSpec, Abstain
<1> DEFINE a == If(keyLen # Abstain /\ valLen # Abstain /\ keyLen # valLen, "E_KV_HEAD_MISMATCH")
           b == If(keyLen # Abstain /\ keyLen % 2 = 1, "W_HEAD_DIM_ODD")
           c == If(hidden # Abstain /\ heads > 0 /\ hidden % heads # 0, "W_INCONSISTENT_HYPERPARAM")
           d == If(hidden # Abstain /\ heads > 0 /\ hidden % heads = 0 /\ WidthDiffers,
                   "E_HEAD_DIM_MISMATCH")
           e == If(heads # Abstain /\ kvHeads > 0 /\ heads % kvHeads # 0, "W_INCONSISTENT_HYPERPARAM")
           f == If(valLen # Abstain /\ valLen % 2 = 1, "W_KV_HEAD_DIM_ODD")
<1>3. found' = found \cup (a \cup b \cup c \cup d \cup e \cup f) /\ rule' = "q4k_even_hidden"
    BY DEF HeadGeometry, Report
<1>4. /\ a = {}
      /\ b = {} <=> keyLen % 2 # 1
      /\ c = {} <=> hidden % heads = 0
      /\ d = {} <=> ~(hidden % heads = 0 /\ heads * keyLen # hidden)
      /\ e = {} <=> heads % kvHeads = 0
      /\ f = {} <=> keyLen % 2 # 1
    BY <1>1, <1>2 DEF If, WidthDiffers
<1> HIDE DEF a, b, c, d, e, f
<1>5. ASSUME Consistent(spec)
      PROVE  found' = found
  <2>1. /\ keyLen % 2 # 1 /\ hidden % heads = 0 /\ heads * keyLen = hidden
        /\ heads % kvHeads = 0
      BY <1>1, <1>5, ConsistentGeometry
  <2> QED
      BY <1>3, <1>4, <2>1
<1>6. ASSUME found' = {}
      PROVE  /\ keyLen % 2 # 1 /\ hidden % heads = 0 /\ heads * keyLen = hidden
             /\ heads % kvHeads = 0
  <2>1. b = {} /\ c = {} /\ d = {} /\ e = {}
      BY <1>3, <1>6
  <2> QED
      BY <1>4, <2>1
<1> QED
    BY <1>1, <1>3, <1>5, <1>6

LEMMA FixtureEvenness ==
    ASSUME NEW spec \in ModelSpecs, doc = BuildModel(spec), Q4kEvenHidden
    PROVE  /\ rule' = "block_count" /\ found \subseteq found'
           /\ Consistent(spec) => found' = found
<1>1. hidden = spec.n_embed /\ spec.n_head \in Nat /\ spec.head_dim \in Nat
    BY WrittenKeys, SpecAssumption DEF ModelSpec
<1>2. ASSUME Consistent(spec)
      PROVE  ~(hidden % 2 = 1)
  <2>1. hidden = spec.n_head * spec.head_dim /\ spec.head_dim % 2 = 0
      BY <1>1, <1>2 DEF Consistent
  <2>2. hidden % 2 = 0
      BY <1>1, <2>1, EvenMultiple
  <2> QED
      BY <2>2
<1> DEFINE odd == /\ hidden # Abstain /\ hidden % 2 = 1
                  /\ \E i \in Tensors : doc.tensors[i].q4k
                  /\ heads # 0 /\ kvHeads # 0
<1>3. Report(If(odd, "E_FFN_DIM_MISMATCH"), "block_count")
    BY DEF Q4kEvenHidden
<1>4. Consistent(spec) => ~odd
    BY <1>2
<1> HIDE DEF odd
<1> QED
    BY <1>3, <1>4 DEF Report, If

LEMMA FixtureBlocks ==
    ASSUME NEW spec \in ModelSpecs, doc = BuildModel(spec), doc \in Models, BlockCount
    PROVE  \/ spec.n_block > RangeLimit /\ Raise
           \/ ~(spec.n_block > RangeLimit) /\ found' = found /\ rule' = "tensor_shapes"
<1>1. /\ blocks = spec.n_block /\ blocks \in Nat
      /\ Seen = {} <=> blocks = 0
      /\ Seen # {} => ~BlocksDiffer
    BY WrittenBlocks
<1>2. doc.arch # NoArch /\ blocks # Abstain /\ RangeLimit \in Nat
    BY <1>1, WrittenKeys, ShapeAssumption DEF Abstain
<1>3. CASE Seen = {}
  <2>1. Report({}, "tensor_shapes")
      BY <1>3 DEF BlockCount
  <2> QED
      BY <1>1, <1>2, <1>3, <2>1 DEF Report
<1>4. CASE Seen # {}
  <2>1. IF blocks > RangeLimit THEN Raise
        ELSE Report(If(BlocksDiffer, "E_BLOCK_COUNT_MISMATCH"), "tensor_shapes")
      BY <1>2, <1>4 DEF BlockCount
  <2>2. If(BlocksDiffer, "E_BLOCK_COUNT_MISMATCH") = {}
      BY <1>1, <1>4 DEF If
  <2> QED
      BY <1>1, <2>1, <2>2 DEF Report
<1> QED
    BY <1>3, <1>4

LEMMA FixtureShapes ==
    ASSUME NEW spec \in ModelSpecs, doc = BuildModel(spec), doc \in Models
    PROVE  /\ TensorShapes => found' = found /\ rule' = "norm_dims"
           /\ NormDims => found' = found /\ rule' = "done"
<1>1. /\ \A p \in Judged(doc.tensors) : ~(Len(Dims(p[2])) < 2)
      /\ Misfits(doc.tensors) = {}
      /\ \A i \in Tensors : HasSuffix(NORM, i) => Dims(i)[1] = hidden
    BY WrittenShapesFit
<1>2. ASSUME TensorShapes
      PROVE  found' = found /\ rule' = "norm_dims"
    BY <1>1, <1>2 DEF TensorShapes, Report
<1>3. ASSUME NormDims
      PROVE  found' = found /\ rule' = "done"
  <2> DEFINE wide == {i \in Tensors : hidden # Abstain /\ HasSuffix(NORM, i) /\ Dims(i)[1] # hidden}
  <2>1. wide = {}
      BY <1>1
  <2>2. Report({Finding("W_INCONSISTENT_HYPERPARAM", i) : i \in wide}, "done")
      BY <1>3 DEF NormDims
  <2> HIDE DEF wide
  <2> QED
      BY <2>1, <2>2 DEF Report
<1> QED
    BY <1>2, <1>3

LEMMA StepKeepsDecided ==
    ASSUME IInv, Decided, [Next]_vars
    PROVE  Decided'
<1>1. doc' = doc
    BY StepCases DEF vars, Raise, Report, Counted, Compared, TypeOK, IInv
<1>2. SUFFICES
        ASSUME NEW spec \in ModelSpecs, doc = BuildModel(spec)
        PROVE  /\ rule' = "raised" => ~Consistent(spec)
               /\ Consistent(spec) => found' = {}
               /\ rule' \in {"head_geometry"} \cup AfterHeads /\ found' = {} =>
                     ~(spec.quant_version > QuantVersion)
               /\ rule' \in AfterHeads /\ found' = {} =>
                     /\ spec.head_dim % 2 # 1
                     /\ spec.n_embed % spec.n_head = 0
                     /\ spec.n_head * spec.head_dim = spec.n_embed
                     /\ spec.n_head % spec.n_kv_head = 0
               /\ rule' \in AfterBlocks => ~(spec.n_block > RangeLimit)
    BY <1>1 DEF Decided
<1> DEFINE silentVersion == ~(spec.quant_version > QuantVersion)
           silentHeads == /\ spec.head_dim % 2 # 1
                          /\ spec.n_embed % spec.n_head = 0
                          /\ spec.n_head * spec.head_dim = spec.n_embed
                          /\ spec.n_head % spec.n_kv_head = 0
           loads == ~(spec.n_block > RangeLimit)
<1>3. Consistent(spec) <=> silentVersion /\ silentHeads /\ loads
    BY ConsistentGeometry
<1>4. /\ rule = "raised" => ~Consistent(spec)
      /\ Consistent(spec) => found = {}
      /\ rule \in {"head_geometry"} \cup AfterHeads /\ found = {} => silentVersion
      /\ rule \in AfterHeads /\ found = {} => silentHeads
      /\ rule \in AfterBlocks => loads
    BY <1>2 DEF Decided
<1>5. HeadGeometry =>
        /\ rule' = "q4k_even_hidden" /\ found \subseteq found'
        /\ Consistent(spec) => found' = found
        /\ found' = {} => silentHeads
    BY <1>2, FixtureGeometry
<1> HIDE DEF silentVersion, silentHeads
<1> USE DEF AfterHeads, AfterBlocks, AfterShapes
<1>6. CASE UNCHANGED vars \/ Done
    BY <1>4, <1>6 DEF vars, Done, silentVersion, silentHeads
<1>7. CASE ArchPresent \/ ArchKeyMismatch
  <2>1. found' = found /\ rule' \in {"arch_key_mismatch", "quant_version"}
      BY <1>2, <1>7, FixtureMetadata DEF IInv
  <2> QED
      BY <1>4, <2>1
<1>8. CASE CheckQuantVersion
  <2>1. Report(If(spec.quant_version > QuantVersion, "E_QUANT_VERSION_UNSUPPORTED"), "head_geometry")
      BY <1>2, <1>8, FixtureMetadata DEF IInv
  <2>2. /\ rule' = "head_geometry"
        /\ silentVersion => found' = found
        /\ found' = {} => silentVersion
      BY <2>1 DEF Report, If, silentVersion
  <2> QED
      BY <1>3, <1>4, <2>2 DEF silentVersion
<1>9. CASE HeadGeometry
  <2>1. rule = "head_geometry"
      BY <1>9 DEF HeadGeometry
  <2> QED
      BY <1>4, <1>5, <1>9, <2>1 DEF silentVersion, silentHeads
<1>10. CASE Q4kEvenHidden
  <2>1. /\ rule' = "block_count" /\ found \subseteq found'
        /\ Consistent(spec) => found' = found
      BY <1>2, <1>10, FixtureEvenness
  <2>2. rule = "q4k_even_hidden"
      BY <1>10 DEF Q4kEvenHidden
  <2> QED
      BY <1>4, <2>1, <2>2 DEF silentVersion, silentHeads
<1>11. CASE BlockCount
  <2>1. \/ ~loads /\ Raise
        \/ loads /\ found' = found /\ rule' = "tensor_shapes"
      BY <1>2, <1>11, FixtureBlocks DEF IInv
  <2>2. rule = "block_count"
      BY <1>11 DEF BlockCount
  <2> QED
      BY <1>3, <1>4, <2>1, <2>2 DEF Raise, silentVersion, silentHeads
<1>12. CASE TensorShapes \/ NormDims
  <2>1. found' = found /\ rule' \in {"norm_dims", "done"}
      BY <1>2, <1>12, FixtureShapes DEF IInv
  <2>2. rule \in {"tensor_shapes", "norm_dims"}
      BY <1>12 DEF TensorShapes, NormDims
  <2> QED
      BY <1>4, <2>1, <2>2 DEF silentVersion, silentHeads
<1> QED
    BY <1>6, <1>7, <1>8, <1>9, <1>10, <1>11, <1>12 DEF Next

(***************************************************************************)
(* SilentExactlyOnConsistentSpecs: fixtures of any size, under any table   *)
(* of architectures and any limit on the memory of the block rule.         *)
(***************************************************************************)
THEOREM SilenceDecidesSpecs == Spec => []SilentExactlyOnConsistentSpecs
<1>1. Init => Decided
    BY DEF Init, Decided, AfterHeads, AfterBlocks, AfterShapes
<1>2. IInv /\ Decided /\ [Next]_vars => Decided'
    BY StepKeepsDecided
<1>3. IInv /\ Decided => SilentExactlyOnConsistentSpecs
  <2> SUFFICES ASSUME Decided, rule \in {"done", "raised"},
                      NEW spec \in ModelSpecs, doc = BuildModel(spec)
               PROVE  rule = "done" /\ found = {} <=> Consistent(spec)
      BY DEF SilentExactlyOnConsistentSpecs
  <2>1. /\ rule = "raised" => ~Consistent(spec)
        /\ Consistent(spec) => found = {}
        /\ rule = "done" /\ found = {} => Consistent(spec)
      BY ConsistentGeometry DEF Decided, AfterHeads, AfterBlocks, AfterShapes
  <2> QED
      BY <2>1
<1> QED
    BY Invariance, <1>1, <1>2, <1>3, PTL DEF Spec
=============================================================================
