----------------------------- MODULE MCAnalyze -----------------------------
(***************************************************************************)
(* Tokenizer sections for TLC: the writer's, with a vocabulary around the  *)
(* number of its special tokens, and small ones in which one part varies   *)
(* at a time: the arrays, the ids, or the template.  The findings made     *)
(* before are up to three that repeat each other in whole or in part.      *)
(***************************************************************************)
EXTENDS Analyze

MCTokens == {"<unk>", "<s>", "</s>", "<|start|>", "<|end|>", "tok"}
MCMarked == {"<|start|>", "<|end|>"}
MCNames == {"t", "u", "head_count", "other"}
MCCodeList ==
    <<"E_BAD_TENSOR_TYPE", "E_TEMPLATE_SPECIAL_TOKENS_UNREGISTERED", "E_TOKENIZER_COUNT_MISMATCH",
      "W_BOS_EOS_MISSING", "W_EMBED_TOKENS_ZERO_ROWS", "W_INCONSISTENT_HYPERPARAM",
      "W_NO_CHAT_TEMPLATE", "W_SPECIAL_TOKEN_IDS_OUT_OF_RANGE", "W_TEMPLATE_NO_SPECIAL_TOKENS",
      "W_VOCAB_MISMATCH">>
MCCodes == {MCCodeList[k] : k \in DOMAIN MCCodeList}
MCCodeOrder == [c \in MCCodes |-> CHOOSE k \in DOMAIN MCCodeList : MCCodeList[k] = c]
MCRank == [c \in MCCodes |-> IF MCCodeOrder[c] <= 3 THEN 2 ELSE 1]

MCFinding(code, tensor, key, offset) ==
    [code |-> code, tensor |-> tensor, key |-> key, offset |-> offset, actual |-> None]
MCType(tensor, offset) == MCFinding("E_BAD_TENSOR_TYPE", tensor, None, offset)
MCHead == MCFinding("W_INCONSISTENT_HYPERPARAM", None, "head_count", NoOffset)
MCHeadAgain == [MCHead EXCEPT !.actual = "other"]
MCHeadAtZero == [MCHead EXCEPT !.offset = 0]
MCEarlier ==
    {<<>>, <<MCHead, MCHeadAgain>>, <<MCHeadAgain, MCHead, MCHeadAgain>>, <<MCHead, MCHeadAtZero>>,
     <<MCHead, MCType("t", 40), MCHead>>, <<MCHead, MCType("t", 40), MCType("u", 20)>>,
     <<MCType("u", 40), MCType("t", 40)>>}

MCPlain ==
    [vocab |-> 2, tokens |-> ArrayOf(<<"tok", "<|start|>">>), added |-> Missing, scores |-> 2, types |-> 2,
     ids |-> [key \in IdKeys |-> Given(1)], adds |-> [add_bos_token |-> TRUE, add_eos_token |-> TRUE],
     template |-> Template(TRUE, <<"<|start|>">>)]

MCArrays ==
    {[MCPlain EXCEPT !.tokens = t, !.scores = s, !.types = y, !.vocab = v] :
        t \in {Missing, ArrayOf(<<>>), MCPlain.tokens}, s \in {-1, 0, 2, 3}, y \in {-1, 1, 2}, v \in {-1, 2, 3}}

MCIdValues ==
    {Absent, [kind |-> "text", n |-> 0], [kind |-> "flag", n |-> 0]} \cup {Given(n) : n \in -1..3}
MCIds ==
    {[MCPlain EXCEPT !.ids[k] = v, !.ids["eos_token_id"] = w, !.adds["add_bos_token"] = a, !.tokens = t] :
        k \in {"bos_token_id", "pad_token_id"}, v \in MCIdValues, w \in MCIdValues,
        a \in BOOLEAN, t \in {Missing, MCPlain.tokens}}

MCTemplates ==
    {[MCPlain EXCEPT !.template = t, !.added = a] :
        t \in {NoTemplate, Template(FALSE, <<>>)}
                \cup {Template(TRUE, marks) : marks \in UNION {[1..n -> MCMarked] : n \in 0..3}},
        a \in {Missing, ArrayOf(<<"<|end|>">>), ArrayOf(<<"tok">>)}}

MCTokenizers ==
    {WrittenTokenizer(n) : n \in 0..7} \cup MCArrays \cup MCIds \cup MCTemplates
=============================================================================
