---------------------------- MODULE MCShapeAudit ----------------------------
(***************************************************************************)
(* Models for TLC: every fixture of the specs below, and one consistent    *)
(* fixture damaged: two hyperparameters replaced, a tensor reshaped,       *)
(* blocks lost or miscounted, keys under another architecture, and tensors *)
(* with llama.cpp's own name for the attention output.                     *)
(***************************************************************************)
EXTENDS SyntheticModel, TLC

CONSTANTS MCBlocks, MCWidths, MCKinds

MCParts ==
    {"attn_norm.weight", "attn_qkv.weight", "attn_out.weight", "attn_rot_embd.weight",
     "ffn_norm.weight", "ffn_gate_up.weight", "ffn_down.weight", "attn_output.weight"}
MCNames ==
    {NoBlock} \X {"token_embd.weight", "token_embd_norm.weight", "output.weight", "output_norm.weight"}
        \cup (0 .. MCBlocks - 1) \X MCParts
MCEndsWith ==
    [n \in MCNames |->
        Endings(n[2]) \cup (IF n[2] = "attn_output.weight" THEN {OUT} ELSE {})]
MCBlock == [n \in MCNames |-> n[1]]

MCSpec(embed, head, kv, dim, block, quant, q4k) ==
    [n_vocab |-> 3, n_embed |-> embed, n_head |-> head, n_kv_head |-> kv, n_ffn |-> 5,
     n_block |-> block, head_dim |-> dim, quant_version |-> quant, q4k |-> q4k]

MCModelSpecs ==
    {MCSpec(embed, head, kv, dim, 1, 2, q4k) :
        embed \in MCWidths, head \in 1..3, kv \in 1..2, dim \in 1..4, q4k \in BOOLEAN}
    \cup {MCSpec(4, 2, 1, 2, block, quant, FALSE) : block \in 0..MCBlocks, quant \in 1..3}

MCBase == BuildModel(MCSpec(4, 2, 1, 2, MCBlocks, 2, TRUE))
MCSmall == BuildModel(MCSpec(4, 2, 1, 2, 1, 2, TRUE))

MCValues == {Absent, [kind |-> "other", n |-> 0]} \cup {Given(n) : n \in (-1..5) \cup {RangeLimit + 1}}
MCRetold ==
    {[MCSmall EXCEPT !.hyper[k] = v, !.hyper[l] = w] :
        k \in Hyperparams, l \in Hyperparams, v \in MCValues, w \in MCValues}

MCReshape(i, dims) == [MCBase EXCEPT !.tensors[i].dims = dims]
MCReshaped ==
    UNION {LET d == MCBase.tensors[i].dims
           IN  {MCReshape(i, <<d[1]>>), MCReshape(i, <<d[2], d[1]>>),
                MCReshape(i, <<d[1] + 1, d[2]>>), MCReshape(i, <<d[1], d[1]>>)} :
               i \in DOMAIN MCBase.tensors}

\* The tensors of the blocks in kept, and of no other block.
MCKeep(kept) == SelectSeq(MCBase.tensors, LAMBDA t : t.name[1] \in kept \cup {NoBlock})
MCMiscounted ==
    {[MCBase EXCEPT !.tensors = MCKeep(kept), !.hyper["block_count"] = Given(n)] :
        kept \in SUBSET (0 .. MCBlocks - 1), n \in 0 .. RangeLimit + 1}

MCAttnOutput == [Row(0, "attn_output.weight", 4, 4) EXCEPT !.q4k = TRUE]
MCUpstream ==
    {[MCSmall EXCEPT !.tensors = <<MCAttnOutput>> \o @],
     [MCSmall EXCEPT !.tensors = MCKeep({}) \o <<MCAttnOutput>>]}

MCForeign ==
    {[MCSmall EXCEPT !.arch = arch, !.prefixes = Append(@, prefix), !.quantVersion = v] :
        arch \in {NoArch, Llama, "brandnew"}, prefix \in {"qwen2", "other"}, v \in MCValues}

MCKindsOfModel ==
    [built |-> {BuildModel(spec) : spec \in MCModelSpecs}, retold |-> MCRetold,
     reshaped |-> MCReshaped, miscounted |-> MCMiscounted, upstream |-> MCUpstream,
     foreign |-> MCForeign]

MCModels == UNION {MCKindsOfModel[kind] : kind \in MCKinds}
=============================================================================
