------------------------------ MODULE Analyze ------------------------------
(***************************************************************************)
(* The end of analyze of sentinel/rules.py: the three rules about the      *)
(* tokenizer section run after all the others, then the findings of the    *)
(* parser and of every rule are deduplicated and ordered for the report.   *)
(*                                                                         *)
(* What the parser and the rules before these found is any sequence of     *)
(* Earlier.  A text is told apart by what the rules ask of it: whether a   *)
(* token starts with "<|", and which <|...|> markers a template uses.      *)
(***************************************************************************)
EXTENDS Integers, Sequences, FiniteSets

CONSTANTS
    Tokenizers,     \* tokenizer sections considered
    Earlier,        \* findings made before these rules
    Names,          \* tensors, keys and values these earlier findings quote
    Tokens,         \* texts of tokens
    Marked,         \* those that start with "<|"
    Codes,          \* finding codes
    Rank,           \* code -> SEVERITY_RANK of its severity
    CodeOrder       \* code -> its place among the codes' strings

None == "None"
NoOffset == -1
Absent == [kind |-> "absent", n |-> 0]
Given(n) == [kind |-> "int", n |-> n]

\* A pair's value as the rules tell it apart; a flag (or a float) may equal 0.
Value == [kind : {"int"}, n : Int] \cup [kind : {"flag"}, n : 0..1] \cup [kind : {"absent", "text"}, n : {0}]

\* _array_kv and _str_kv: a sequence, or nothing.
Missing == [given |-> FALSE, items |-> <<>>]
ArrayOf(items) == [given |-> TRUE, items |-> items]
Template(bar, marks) == [given |-> TRUE, bar |-> bar, marks |-> marks]
NoTemplate == [given |-> FALSE, bar |-> FALSE, marks |-> <<>>]

IdKeys ==
    {"bos_token_id", "eos_token_id", "eot_token_id", "unk_token_id", "sep_token_id", "pad_token_id"}
AddKeys == {"add_bos_token", "add_eos_token"}

Tokenizer ==
    [vocab : Nat \cup {-1},
     tokens : [given : BOOLEAN, items : Seq(Tokens)], added : [given : BOOLEAN, items : Seq(Tokens)],
     scores : Nat \cup {-1}, types : Nat \cup {-1},
     ids : [IdKeys -> Value], adds : [AddKeys -> BOOLEAN],
     template : [given : BOOLEAN, bar : BOOLEAN, marks : Seq(Marked)]]

\* Only the rules below use these.
TokenizerCodes ==
    {"E_TOKENIZER_COUNT_MISMATCH", "W_VOCAB_MISMATCH", "W_EMBED_TOKENS_ZERO_ROWS",
     "W_SPECIAL_TOKEN_IDS_OUT_OF_RANGE", "W_BOS_EOS_MISSING", "W_NO_CHAT_TEMPLATE",
     "W_TEMPLATE_NO_SPECIAL_TOKENS", "E_TEMPLATE_SPECIAL_TOKENS_UNREGISTERED"}

Quoted ==
    Names \cup Tokens \cup IdKeys \cup AddKeys
      \cup {None, "scores", "token_type", "vocab_size", "tokens", "chat_template"}
Finding == [code : Codes, tensor : Quoted, key : Quoted, offset : Int, actual : Quoted]

ASSUME AnalyzeAssumption ==
    /\ Tokenizers \subseteq Tokenizer
    /\ \A list \in Earlier :
          list \in Seq(Finding) /\ \A k \in DOMAIN list : list[k].code \notin TokenizerCodes
    /\ TokenizerCodes \subseteq Codes
    /\ Marked \subseteq Tokens
    /\ Rank \in [Codes -> 0..2]
    /\ CodeOrder \in [Codes -> Nat]
    /\ \A c, d \in Codes : CodeOrder[c] = CodeOrder[d] => c = d

-----------------------------------------------------------------------------
VARIABLES
    doc,            \* the tokenizer section of the parsed model
    pc,             \* the rule that runs next, then the phase of analyze
    findings,       \* of the parser and of every rule so far
    mark,           \* markers of the template looked at
    i,              \* findings the deduplication has looked at
    seen, deduped,  \* its locals
    report          \* what analyze returns

vars == <<doc, pc, findings, mark, i, seen, deduped, report>>

Init ==
    /\ doc \in Tokenizers /\ findings \in Earlier
    /\ pc = "tokenizer_counts"
    /\ mark = 0 /\ i = 0 /\ seen = {} /\ deduped = <<>> /\ report = <<>>

About(code, key, actual) ==
    [code |-> code, tensor |-> None, key |-> key, offset |-> NoOffset, actual |-> actual]
If(condition, code, key) == IF condition THEN <<About(code, key, None)>> ELSE <<>>

Extend(more, next) ==
    findings' = findings \o more /\ pc' = next /\ UNCHANGED <<doc, mark, i, seen, deduped, report>>

-----------------------------------------------------------------------------
(***************************************************************************)
(* The rules.                                                              *)
(***************************************************************************)
NumTokens == Len(doc.tokens.items)

Desynced(entries) == entries # -1 /\ entries # NumTokens

TokenizerCounts ==
    /\ pc = "tokenizer_counts"
    /\ Extend(IF ~doc.tokens.given THEN <<>>
              ELSE If(Desynced(doc.scores), "E_TOKENIZER_COUNT_MISMATCH", "scores")
                     \o If(Desynced(doc.types), "E_TOKENIZER_COUNT_MISMATCH", "token_type")
                     \o If(doc.vocab \notin {-1, NumTokens}, "W_VOCAB_MISMATCH", "vocab_size")
                     \o If(NumTokens = 0, "W_EMBED_TOKENS_ZERO_ROWS", "tokens"),
              "special_ids")

\* Mutation: the id behind the last token is taken for a token.
OutOfRangeByOne(suffix) ==
    doc.tokens.given /\ doc.ids[suffix].kind = "int" /\ doc.ids[suffix].n > NumTokens

\* A negative id stands for no token; without tokens there is no range.
OutOfRange(suffix) ==
    doc.tokens.given /\ doc.ids[suffix].kind = "int" /\ doc.ids[suffix].n >= NumTokens
        /\ doc.ids[suffix].n >= 0

IdOf(add) == IF add = "add_bos_token" THEN doc.ids["bos_token_id"] ELSE doc.ids["eos_token_id"]

\* id_val is None or id_val == 0: token 0 counts as unset, and so does false.
Unset(v) == v.kind = "absent" \/ (v.kind \in {"int", "flag"} /\ v.n = 0)

IdFinding(key) == If(OutOfRange(key), "W_SPECIAL_TOKEN_IDS_OUT_OF_RANGE", key)
AddFinding(add) == If(doc.adds[add] /\ Unset(IdOf(add)), "W_BOS_EOS_MISSING", add)

SpecialIds ==
    /\ pc = "special_ids"
    /\ Extend(IdFinding("bos_token_id") \o IdFinding("eos_token_id") \o IdFinding("eot_token_id")
                \o IdFinding("unk_token_id") \o IdFinding("sep_token_id") \o IdFinding("pad_token_id")
                \o AddFinding("add_bos_token") \o AddFinding("add_eos_token"),
              "chat_template")

Known ==
    {doc.added.items[k] : k \in DOMAIN doc.added.items}
        \cup ({doc.tokens.items[k] : k \in DOMAIN doc.tokens.items} \cap Marked)

ChatTemplate ==
    /\ pc = "chat_template"
    /\ IF ~doc.template.given THEN Extend(If(TRUE, "W_NO_CHAT_TEMPLATE", "chat_template"), "dedup")
       ELSE IF ~doc.template.bar
            THEN Extend(If(TRUE, "W_TEMPLATE_NO_SPECIAL_TOKENS", "chat_template"), "dedup")
       ELSE Extend(<<>>, "markers")

\* findall yields a marker as often as the template uses it.
Marker ==
    /\ pc = "markers" /\ mark < Len(doc.template.marks)
    /\ mark' = mark + 1
    /\ LET text == doc.template.marks[mark + 1]
       IN  findings' =
              IF text \in Known THEN findings
              ELSE Append(findings,
                          About("E_TEMPLATE_SPECIAL_TOKENS_UNREGISTERED", "chat_template", text))
    /\ UNCHANGED <<doc, pc, i, seen, deduped, report>>

MarkersEnd == pc = "markers" /\ mark = Len(doc.template.marks) /\ Extend(<<>>, "dedup")

-----------------------------------------------------------------------------
(***************************************************************************)
(* Deduplication, one finding at a time, and the order of the report.      *)
(***************************************************************************)
\* Mutation: findings are the same whatever their key.
KeyIdWithoutKey(f) == <<f.code, f.tensor, f.offset>>

KeyId(f) == <<f.code, f.tensor, f.key, f.offset>>

\* Mutation: keys are looked up and never remembered.
DedupForgetful ==
    /\ pc = "dedup" /\ i < Len(findings)
    /\ i' = i + 1
    /\ deduped' = IF KeyId(findings[i']) \in seen THEN deduped ELSE Append(deduped, findings[i'])
    /\ UNCHANGED <<doc, pc, findings, mark, seen, report>>

Dedup ==
    /\ pc = "dedup" /\ i < Len(findings)
    /\ i' = i + 1
    /\ LET f == findings[i + 1]
       IN  IF KeyId(f) \in seen THEN UNCHANGED <<seen, deduped>>
           ELSE seen' = seen \cup {KeyId(f)} /\ deduped' = Append(deduped, f)
    /\ UNCHANGED <<doc, pc, findings, mark, report>>

OffsetOrZero(f) == IF f.offset = NoOffset THEN 0 ELSE f.offset

\* Mutation: the ranks are not negated.
MildFirst(f, g) ==
    \/ Rank[f.code] < Rank[g.code]
    \/ Rank[f.code] = Rank[g.code] /\ CodeOrder[f.code] < CodeOrder[g.code]
    \/ f.code = g.code /\ OffsetOrZero(f) < OffsetOrZero(g)

\* (-severity, code, offset or 0), smaller first.
SortsBefore(f, g) ==
    \/ Rank[f.code] > Rank[g.code]
    \/ Rank[f.code] = Rank[g.code] /\ CodeOrder[f.code] < CodeOrder[g.code]
    \/ f.code = g.code /\ OffsetOrZero(f) < OffsetOrZero(g)

\* list.sort is stable.
Ahead(p, q) ==
    \/ SortsBefore(deduped[p], deduped[q])
    \/ ~SortsBefore(deduped[q], deduped[p]) /\ p < q

Place(p) == Cardinality({q \in DOMAIN deduped : Ahead(q, p)}) + 1

Sort ==
    /\ pc = "dedup" /\ i = Len(findings)
    /\ report' = [k \in DOMAIN deduped |->
                     deduped[CHOOSE p \in DOMAIN deduped : Place(p) = k]]
    /\ pc' = "done"
    /\ UNCHANGED <<doc, findings, mark, i, seen, deduped>>

Done == pc = "done" /\ UNCHANGED vars

Next == TokenizerCounts \/ SpecialIds \/ ChatTemplate \/ Marker \/ MarkersEnd \/ Dedup \/ Sort \/ Done

Spec == Init /\ [][Next]_vars

-----------------------------------------------------------------------------
(***************************************************************************)
(* The tokenizer section build_model of sentinel/generate.py writes: five  *)
(* special tokens, then pieces up to n_vocab, with ids of the first.       *)
(***************************************************************************)
Specials == <<"<unk>", "<s>", "</s>", "<|start|>", "<|end|>">>

\* Mutation: the pieces are not counted from the special tokens.
PiecesFromZero(nVocab) == Specials \o [k \in 1..nVocab |-> "tok"]

WrittenTokens(nVocab) == Specials \o [k \in 1 .. nVocab - Len(Specials) |-> "tok"]

WrittenTokenizer(nVocab) ==
    LET tokens == WrittenTokens(nVocab)
    IN  [vocab |-> nVocab, tokens |-> ArrayOf(tokens), added |-> Missing,
         scores |-> Len(tokens), types |-> Len(tokens),
         ids |-> [bos_token_id |-> Given(1), eos_token_id |-> Given(2), eot_token_id |-> Given(3),
                  unk_token_id |-> Absent, sep_token_id |-> Given(0), pad_token_id |-> Given(0)],
         adds |-> [add_bos_token |-> TRUE, add_eos_token |-> TRUE],
         template |-> Template(TRUE, <<"<|start|>", "<|end|>", "<|start|>">>)]

-----------------------------------------------------------------------------
(***************************************************************************)
(* Type correctness; the deduplication has met what it kept.               *)
(***************************************************************************)
TypeOK ==
    /\ pc \in {"tokenizer_counts", "special_ids", "chat_template", "markers", "dedup", "done"}
    /\ mark \in 0..Len(doc.template.marks)
    /\ findings \in Seq(Finding)
    /\ i \in 0..Len(findings)
    /\ seen = {KeyId(findings[k]) : k \in 1..i}
    /\ deduped \in Seq(Finding) /\ Len(deduped) <= i
    /\ report \in Seq(Finding) /\ Len(report) \in {0, Len(deduped)}

(***************************************************************************)
(* Deduplication loses no verdict: every code, tensor, key and offset some *)
(* rule complained about is in the report, once, and told by the finding   *)
(* that complained first; so a severity is in the report exactly when a    *)
(* rule gave it, and the exit code is the one of the full list.            *)
(***************************************************************************)
Repeats(f, g) == f.code = g.code /\ f.tensor = g.tensor /\ f.key = g.key /\ f.offset = g.offset
FirstOf(k) == \A m \in 1 .. k - 1 : ~Repeats(findings[m], findings[k])
Reaches(list, rank) == \E k \in DOMAIN list : Rank[list[k].code] >= rank

NothingIsLost ==
    pc = "done" =>
        /\ \A k \in DOMAIN findings : FirstOf(k) => \E m \in DOMAIN report : report[m] = findings[k]
        /\ \A m \in DOMAIN report : \E k \in DOMAIN findings : FirstOf(k) /\ report[m] = findings[k]
        /\ \A rank \in 0..2 : Reaches(report, rank) <=> Reaches(findings, rank)

EachOnce ==
    \A m, n \in DOMAIN report : Repeats(report[m], report[n]) => m = n

(***************************************************************************)
(* What is printed is what was returned: the renderers of report.py sort   *)
(* the findings again, with a key of their own, and that sort moves        *)
(* nothing, so text, JSON and annotations number the findings alike.       *)
(***************************************************************************)
Badge == [rank \in 0..2 |-> 2 - rank]       \* error 0, warn 1, info 2

RendersBefore(f, g) ==
    LET bf == Badge[Rank[f.code]]
        bg == Badge[Rank[g.code]]
    IN  \/ bf < bg
        \/ bf = bg /\ CodeOrder[f.code] < CodeOrder[g.code]
        \/ bf = bg /\ f.code = g.code /\ OffsetOrZero(f) < OffsetOrZero(g)

PrintedAsReturned ==
    \A m, n \in DOMAIN report : m < n => ~RendersBefore(report[n], report[m])

(***************************************************************************)
(* What a silent report says about a tokenizer with tokens: the parallel   *)
(* arrays and the declared vocabulary agree with it, every id that is an   *)
(* integer and not negative names one of its tokens, the token to wrap a   *)
(* prompt with is one of them, and each marker of the template is a token. *)
(***************************************************************************)
SilentTokenizerLoads ==
    pc = "done" /\ report = <<>> /\ doc.tokens.given =>
        /\ NumTokens > 0
        /\ {doc.scores, doc.types, doc.vocab} \subseteq {-1, NumTokens}
        /\ \A key \in IdKeys :
              doc.ids[key].kind = "int" /\ doc.ids[key].n >= 0 => doc.ids[key].n + 1 \in 1..NumTokens
        /\ doc.adds["add_bos_token"] => doc.ids["bos_token_id"] \notin {Absent, Given(0)}
        /\ \A k \in DOMAIN doc.template.marks :
              \/ \E m \in 1..NumTokens : doc.tokens.items[m] = doc.template.marks[k]
              \/ \E m \in DOMAIN doc.added.items : doc.added.items[m] = doc.template.marks[k]

(***************************************************************************)
(* The fixtures the tests call clean are: nothing is reported about the    *)
(* tokenizer section of a model built with a vocabulary that holds the     *)
(* special tokens, and a smaller n_vocab never passes unnoticed.           *)
(***************************************************************************)
FixturesAreSilent ==
    pc = "done" =>
        \A n \in 0..Len(Specials) + 2 :
            doc = WrittenTokenizer(n) =>
                (n >= Len(Specials) <=> \A m \in DOMAIN report : report[m].code \notin TokenizerCodes)
=============================================================================
