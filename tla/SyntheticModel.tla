--------------------------- MODULE SyntheticModel ---------------------------
(***************************************************************************)
(* The fixtures of sentinel/generate.py as the shape rules see them: the   *)
(* hyperparameters and the tensor table that build_model writes for a      *)
(* ModelSpec.  A tensor's name is its block and the part behind it.        *)
(***************************************************************************)
EXTENDS ShapeAudit

CONSTANTS ModelSpecs, Llama     \* specs considered; ModelSpec.arch

ModelSpec ==
    [n_vocab : Nat \ {0}, n_embed : Nat \ {0}, n_head : Nat \ {0}, n_kv_head : Nat \ {0},
     n_ffn : Nat \ {0}, n_block : Nat, head_dim : Nat \ {0}, quant_version : Nat, q4k : BOOLEAN]

\* "general" and "tokenizer" are prefixes of keys and name no architecture.
ASSUME SpecAssumption ==
    /\ ModelSpecs \subseteq ModelSpec
    /\ Llama \in ArchNames /\ {"general", "tokenizer"} \cap ArchNames = {}

\* The parts written, and the canonical suffixes each ends with.
NormParts == {"token_embd_norm.weight", "output_norm.weight", "attn_norm.weight", "ffn_norm.weight"}
Parts == NormParts \cup (Suffixes \ {NORM}) \cup {"attn_rot_embd.weight"}
Endings(part) == (Suffixes \cap {part}) \cup (IF part \in NormParts THEN {NORM} ELSE {})

ASSUME NameAssumption ==
    \A n \in Names :
        /\ n \in (Nat \cup {NoBlock}) \X STRING
        /\ n[2] \in Parts => Block[n] = n[1] /\ EndsWith[n] = Endings(n[2])

\* Mutation: keys and values share one projection.
QkvRowsShared(spec) == (spec.n_head + spec.n_kv_head) * spec.head_dim

QkvRows(spec) == (spec.n_head + 2 * spec.n_kv_head) * spec.head_dim

Row(block, part, width, height) == [name |-> <<block, part>>, dims |-> <<width, height, 1, 1>>, q4k |-> FALSE]
Weight(spec, row) == [row EXCEPT !.q4k = spec.q4k]

TopRows(spec) ==
    LET e == spec.n_embed
    IN  <<Row(NoBlock, "token_embd.weight", spec.n_vocab, e),
          Row(NoBlock, "token_embd_norm.weight", e, 1),
          Row(NoBlock, "output.weight", e, spec.n_vocab),
          Row(NoBlock, "output_norm.weight", e, 1)>>

BlockRows(spec, b) ==
    LET e == spec.n_embed
    IN  <<Row(b, "attn_norm.weight", e, 1),
          Weight(spec, Row(b, "attn_qkv.weight", QkvRows(spec), e)),
          Weight(spec, Row(b, "attn_out.weight", e, spec.n_head * spec.head_dim)),
          Row(b, "attn_rot_embd.weight", spec.head_dim \div 2, 1),
          Row(b, "ffn_norm.weight", e, 1),
          Weight(spec, Row(b, "ffn_gate_up.weight", 2 * spec.n_ffn, e)),
          Weight(spec, Row(b, "ffn_down.weight", e, spec.n_ffn))>>

Layout(spec) ==
    [i \in 1 .. 4 + 7 * spec.n_block |->
        IF i <= 4 THEN TopRows(spec)[i]
        ELSE BlockRows(spec, (i - 5) \div 7)[((i - 5) % 7) + 1]]

ArchKeys(spec) ==
    [embedding_length |-> spec.n_embed, vocab_size |-> spec.n_vocab,
     feed_forward_length |-> spec.n_ffn, block_count |-> spec.n_block,
     head_count |-> spec.n_head, head_count_kv |-> spec.n_kv_head,
     key_length |-> spec.head_dim, value_length |-> spec.head_dim]

BuildModel(spec) ==
    [arch |-> Llama, prefixes |-> <<"general", "tokenizer", Llama>>,
     quantVersion |-> Given(spec.quant_version),
     hyper |-> [key \in Hyperparams |-> Given(ArchKeys(spec)[key])],
     tensors |-> Layout(spec)]

-----------------------------------------------------------------------------
(***************************************************************************)
(* The audit decides the specs: of the models build_model writes, exactly  *)
(* those that llama.cpp could load are silent.  No false alarm on a        *)
(* consistent spec (fuzz.py and the tests rely on it), and no inconsistent *)
(* one passes because the writer derived its shapes from the same numbers. *)
(***************************************************************************)
Consistent(spec) ==
    /\ spec.n_embed = spec.n_head * spec.head_dim
    /\ spec.n_head % spec.n_kv_head = 0
    /\ spec.head_dim % 2 = 0
    /\ spec.quant_version <= QuantVersion
    /\ spec.n_block <= RangeLimit

SilentExactlyOnConsistentSpecs ==
    rule \in {"done", "raised"} =>
        \A spec \in ModelSpecs :
            doc = BuildModel(spec) => (rule = "done" /\ found = {} <=> Consistent(spec))
=============================================================================
