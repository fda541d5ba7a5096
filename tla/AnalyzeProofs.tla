--------------------------- MODULE AnalyzeProofs ----------------------------
(***************************************************************************)
(* Proofs about Analyze for every tokenizer section, every list of earlier *)
(* findings and every table of codes and severities.                       *)
(***************************************************************************)
EXTENDS Analyze, Numbers, FiniteSetTheorems

Collecting == {"tokenizer_counts", "special_ids", "chat_template", "markers"}

(***************************************************************************)
(* What the deduplication kept of the findings it has met.                 *)
(***************************************************************************)
Kept ==
    /\ pc \in Collecting => i = 0 /\ deduped = <<>>
    /\ \A k \in 1..i : FirstOf(k) => \E m \in DOMAIN deduped : deduped[m] = findings[k]
    /\ \A m \in DOMAIN deduped : \E k \in 1..i : FirstOf(k) /\ deduped[m] = findings[k]
    /\ \A m, n \in DOMAIN deduped : Repeats(deduped[m], deduped[n]) => m = n

(***************************************************************************)
(* The report holds at each place the finding whose place it is.           *)
(***************************************************************************)
Placed ==
    /\ pc # "done" => report = <<>>
    /\ pc = "done" =>
          /\ i = Len(findings) /\ Len(report) = Len(deduped)
          /\ \A k \in DOMAIN report :
                \E p \in DOMAIN deduped : Place(p) = k /\ report[k] = deduped[p]
          /\ \A p \in DOMAIN deduped :
                \E k \in DOMAIN report : Place(p) = k /\ report[k] = deduped[p]

(***************************************************************************)
(* What each of the rules that have run means by finding nothing.          *)
(***************************************************************************)
CountsAgree ==
    doc.tokens.given =>
        /\ ~Desynced(doc.scores) /\ ~Desynced(doc.types)
        /\ doc.vocab \in {-1, NumTokens} /\ NumTokens # 0
IdsInRange ==
    /\ \A key \in IdKeys : ~OutOfRange(key)
    /\ \A add \in AddKeys : ~(doc.adds[add] /\ Unset(IdOf(add)))
MarksKnown(n) == \A k \in 1..n : doc.template.marks[k] \in Known

Silent ==
    findings = <<>> =>
        /\ pc # "tokenizer_counts" => CountsAgree
        /\ pc \notin {"tokenizer_counts", "special_ids"} => IdsInRange
        /\ pc = "markers" => MarksKnown(mark)
        /\ pc \in {"dedup", "done"} => MarksKnown(Len(doc.template.marks))

Unread == pc \in {"tokenizer_counts", "special_ids", "chat_template"} => mark = 0

IInv == doc \in Tokenizers /\ TypeOK /\ Unread /\ Kept /\ Placed /\ Silent

-----------------------------------------------------------------------------
(***************************************************************************)
(* Lists of findings.                                                      *)
(***************************************************************************)
LEMMA ElementOf ==
    ASSUME NEW S, NEW list \in Seq(S), NEW k \in DOMAIN list
    PROVE  list[k] \in S
OBVIOUS

LEMMA FunctionIsList ==
    ASSUME NEW S, NEW n \in Nat, NEW list \in [1..n -> S]
    PROVE  list \in Seq(S) /\ Len(list) = n
OBVIOUS

LEMMA Joined ==
    ASSUME NEW S, NEW a \in Seq(S), NEW b \in Seq(S)
    PROVE  /\ a \o b \in Seq(S)
           /\ Len(a \o b) = Len(a) + Len(b)
           /\ a \o b = <<>> => a = <<>> /\ b = <<>>
<1>1. a \o b \in Seq(S) /\ Len(a \o b) = Len(a) + Len(b)
    OBVIOUS
<1>2. ASSUME a \o b = <<>>
      PROVE  a = <<>> /\ b = <<>>
  <2>1. Len(a) = 0 /\ Len(b) = 0
      BY <1>1, <1>2
  <2> QED
      BY <2>1
<1> QED
    BY <1>1, <1>2

LEMMA AboutIsAFinding ==
    ASSUME NEW code \in TokenizerCodes, NEW key \in Quoted, NEW actual \in Quoted
    PROVE  About(code, key, actual) \in Finding
BY AnalyzeAssumption DEF About, Finding, Quoted, NoOffset

LEMMA IfIsAList ==
    ASSUME NEW condition, NEW code \in TokenizerCodes, NEW key \in Quoted
    PROVE  /\ If(condition, code, key) \in Seq(Finding)
           /\ If(condition, code, key) = <<>> => ~condition
<1>1. About(code, key, None) \in Finding
    BY AboutIsAFinding DEF Quoted
<1>2. <<About(code, key, None)>> \in Seq(Finding) /\ <<About(code, key, None)>> # <<>>
    BY <1>1
<1> QED
    BY <1>2 DEF If

LEMMA SectionIsTyped ==
    ASSUME doc \in Tokenizers
    PROVE  /\ doc.template.marks \in Seq(Marked)
           /\ NumTokens \in Nat
           /\ \A add \in AddKeys : doc.adds[add] \in BOOLEAN
<1>1. doc \in Tokenizer
    BY AnalyzeAssumption
<1> QED
    BY <1>1 DEF Tokenizer, NumTokens

-----------------------------------------------------------------------------
(***************************************************************************)
(* What the steps before the deduplication add.                            *)
(***************************************************************************)
CountFindings ==
    IF ~doc.tokens.given THEN <<>>
    ELSE If(Desynced(doc.scores), "E_TOKENIZER_COUNT_MISMATCH", "scores")
           \o If(Desynced(doc.types), "E_TOKENIZER_COUNT_MISMATCH", "token_type")
           \o If(doc.vocab \notin {-1, NumTokens}, "W_VOCAB_MISMATCH", "vocab_size")
           \o If(NumTokens = 0, "W_EMBED_TOKENS_ZERO_ROWS", "tokens")

LEMMA CountFindingsTyped ==
    /\ CountFindings \in Seq(Finding)
    /\ CountFindings = <<>> => CountsAgree
<1> DEFINE a == If(Desynced(doc.scores), "E_TOKENIZER_COUNT_MISMATCH", "scores")
           b == If(Desynced(doc.types), "E_TOKENIZER_COUNT_MISMATCH", "token_type")
           c == If(doc.vocab \notin {-1, NumTokens}, "W_VOCAB_MISMATCH", "vocab_size")
           d == If(NumTokens = 0, "W_EMBED_TOKENS_ZERO_ROWS", "tokens")
<1>1. {"E_TOKENIZER_COUNT_MISMATCH", "W_VOCAB_MISMATCH", "W_EMBED_TOKENS_ZERO_ROWS"}
        \subseteq TokenizerCodes
    BY DEF TokenizerCodes
<1>2. {"scores", "token_type", "vocab_size", "tokens"} \subseteq Quoted
    BY DEF Quoted
<1>3. /\ a \in Seq(Finding) /\ (a = <<>> => ~Desynced(doc.scores))
      /\ b \in Seq(Finding) /\ (b = <<>> => ~Desynced(doc.types))
      /\ c \in Seq(Finding) /\ (c = <<>> => ~(doc.vocab \notin {-1, NumTokens}))
      /\ d \in Seq(Finding) /\ (d = <<>> => ~(NumTokens = 0))
    BY <1>1, <1>2, IfIsAList
<1>4. CountFindings = IF ~doc.tokens.given THEN <<>> ELSE a \o b \o c \o d
    BY DEF CountFindings
<1> HIDE DEF a, b, c, d
<1>5. /\ a \o b \in Seq(Finding) /\ (a \o b = <<>> => a = <<>> /\ b = <<>>)
      /\ a \o b \o c \in Seq(Finding) /\ (a \o b \o c = <<>> => a \o b = <<>> /\ c = <<>>)
      /\ a \o b \o c \o d \in Seq(Finding)
      /\ (a \o b \o c \o d = <<>> => a \o b \o c = <<>> /\ d = <<>>)
    BY <1>3, Joined
<1> QED
    BY <1>3, <1>4, <1>5 DEF CountsAgree

IdFindings ==
    IdFinding("bos_token_id") \o IdFinding("eos_token_id") \o IdFinding("eot_token_id")
      \o IdFinding("unk_token_id") \o IdFinding("sep_token_id") \o IdFinding("pad_token_id")
      \o AddFinding("add_bos_token") \o AddFinding("add_eos_token")

LEMMA IdFindingsTyped ==
    /\ IdFindings \in Seq(Finding)
    /\ IdFindings = <<>> => IdsInRange
<1>1. ASSUME NEW key \in IdKeys
      PROVE  IdFinding(key) \in Seq(Finding) /\ (IdFinding(key) = <<>> => ~OutOfRange(key))
  <2>1. "W_SPECIAL_TOKEN_IDS_OUT_OF_RANGE" \in TokenizerCodes /\ key \in Quoted
      BY DEF TokenizerCodes, Quoted
  <2> QED
      BY <2>1, IfIsAList DEF IdFinding
<1>2. ASSUME NEW add \in AddKeys
      PROVE  /\ AddFinding(add) \in Seq(Finding)
             /\ AddFinding(add) = <<>> => ~(doc.adds[add] /\ Unset(IdOf(add)))
  <2>1. "W_BOS_EOS_MISSING" \in TokenizerCodes /\ add \in Quoted
      BY DEF TokenizerCodes, Quoted
  <2> QED
      BY <2>1, IfIsAList DEF AddFinding
<1> DEFINE a == IdFinding("bos_token_id")
           b == IdFinding("eos_token_id")
           c == IdFinding("eot_token_id")
           d == IdFinding("unk_token_id")
           e == IdFinding("sep_token_id")
           f == IdFinding("pad_token_id")
           g == AddFinding("add_bos_token")
           h == AddFinding("add_eos_token")
<1>3. IdFindings = a \o b \o c \o d \o e \o f \o g \o h
    BY DEF IdFindings
<1>4. /\ a \in Seq(Finding) /\ b \in Seq(Finding) /\ c \in Seq(Finding) /\ d \in Seq(Finding)
      /\ e \in Seq(Finding) /\ f \in Seq(Finding) /\ g \in Seq(Finding) /\ h \in Seq(Finding)
    BY <1>1, <1>2 DEF IdKeys, AddKeys
<1>5. (\A list \in {a, b, c, d, e, f, g, h} : list = <<>>) => IdsInRange
    BY <1>1, <1>2 DEF IdKeys, AddKeys, IdsInRange
<1> HIDE DEF a, b, c, d, e, f, g, h
<1>6. /\ a \o b \in Seq(Finding) /\ (a \o b = <<>> => a = <<>> /\ b = <<>>)
      /\ a \o b \o c \in Seq(Finding) /\ (a \o b \o c = <<>> => a \o b = <<>> /\ c = <<>>)
      /\ a \o b \o c \o d \in Seq(Finding)
      /\ (a \o b \o c \o d = <<>> => a \o b \o c = <<>> /\ d = <<>>)
    BY <1>4, Joined
<1>7. DEFINE abcd == a \o b \o c \o d
<1> HIDE DEF abcd
<1>8. /\ abcd \o e \in Seq(Finding) /\ (abcd \o e = <<>> => abcd = <<>> /\ e = <<>>)
      /\ abcd \o e \o f \in Seq(Finding) /\ (abcd \o e \o f = <<>> => abcd \o e = <<>> /\ f = <<>>)
      /\ abcd \o e \o f \o g \in Seq(Finding)
      /\ (abcd \o e \o f \o g = <<>> => abcd \o e \o f = <<>> /\ g = <<>>)
      /\ abcd \o e \o f \o g \o h \in Seq(Finding)
      /\ (abcd \o e \o f \o g \o h = <<>> => abcd \o e \o f \o g = <<>> /\ h = <<>>)
    BY <1>4, <1>6, Joined DEF abcd
<1>9. IdFindings = abcd \o e \o f \o g \o h
    BY <1>3 DEF abcd
<1> QED
    BY <1>5, <1>6, <1>8, <1>9 DEF abcd

(***************************************************************************)
(* Until the deduplication starts, findings are only appended.             *)
(***************************************************************************)
Appends(more) ==
    /\ findings' = findings \o more
    /\ UNCHANGED <<doc, i, seen, deduped, report>>
    /\ pc' \in Collecting \cup {"dedup"}
    /\ mark' \in 0..Len(doc.template.marks)

LEMMA MarkerAppends ==
    ASSUME doc \in Tokenizers, TypeOK, Marker
    PROVE  /\ \E more \in Seq(Finding) : Appends(more)
           /\ findings' = <<>> => findings = <<>> /\ doc.template.marks[mark'] \in Known
<1> DEFINE text == doc.template.marks[mark + 1]
           new == About("E_TEMPLATE_SPECIAL_TOKENS_UNREGISTERED", "chat_template", text)
<1>1. mark + 1 \in DOMAIN doc.template.marks /\ mark' \in 0..Len(doc.template.marks)
    BY SectionIsTyped DEF TypeOK, Marker
<1>2. text \in Marked
    BY <1>1, SectionIsTyped, ElementOf
<1>3. new \in Finding
  <2>1. /\ "E_TEMPLATE_SPECIAL_TOKENS_UNREGISTERED" \in TokenizerCodes
        /\ "chat_template" \in Quoted /\ text \in Quoted
      BY <1>2, AnalyzeAssumption DEF TokenizerCodes, Quoted
  <2> QED
      BY <2>1, AboutIsAFinding
<1>4. findings' = IF text \in Known THEN findings ELSE Append(findings, new)
    BY DEF Marker
<1>5. mark' = mark + 1 /\ pc' = pc /\ pc = "markers" /\ UNCHANGED <<doc, i, seen, deduped, report>>
    BY DEF Marker
<1> HIDE DEF new, text
<1>6. findings \in Seq(Finding)
    BY DEF TypeOK
<1>7. CASE text \in Known
  <2>1. findings' = findings \o <<>> /\ <<>> \in Seq(Finding)
      BY <1>4, <1>6, <1>7
  <2> QED
      BY <1>1, <1>4, <1>5, <1>7, <2>1 DEF Appends, Collecting, text
<1>8. CASE text \notin Known
  <2>1. findings' = findings \o <<new>> /\ <<new>> \in Seq(Finding)
      BY <1>3, <1>4, <1>6, <1>8
  <2>2. findings' # <<>>
      BY <1>6, <2>1, Joined
  <2> QED
      BY <1>1, <1>5, <2>1, <2>2 DEF Appends, Collecting
<1> QED
    BY <1>7, <1>8

LEMMA RulesAppend ==
    ASSUME doc \in Tokenizers, TypeOK, Next, pc \in Collecting
    PROVE  \E more \in Seq(Finding) : Appends(more)
<1>0. <<>> \in Seq(Finding) /\ mark \in 0..Len(doc.template.marks)
    BY DEF TypeOK
<1>1. CASE TokenizerCounts
    BY <1>0, <1>1, CountFindingsTyped
    DEF TokenizerCounts, Extend, CountFindings, Appends, Collecting
<1>2. CASE SpecialIds
    BY <1>0, <1>2, IdFindingsTyped DEF SpecialIds, Extend, IdFindings, Appends, Collecting
<1>3. CASE ChatTemplate
  <2>1. /\ If(TRUE, "W_NO_CHAT_TEMPLATE", "chat_template") \in Seq(Finding)
        /\ If(TRUE, "W_TEMPLATE_NO_SPECIAL_TOKENS", "chat_template") \in Seq(Finding)
    <3>1. /\ {"W_NO_CHAT_TEMPLATE", "W_TEMPLATE_NO_SPECIAL_TOKENS"} \subseteq TokenizerCodes
          /\ "chat_template" \in Quoted
        BY DEF TokenizerCodes, Quoted
    <3> QED
        BY <3>1, IfIsAList
  <2> QED
      BY <1>0, <1>3, <2>1 DEF ChatTemplate, Extend, Appends, Collecting
<1>4. CASE Marker
    BY <1>4, MarkerAppends
<1>5. CASE MarkersEnd
    BY <1>0, <1>5 DEF MarkersEnd, Extend, Appends
<1> QED
    BY <1>1, <1>2, <1>3, <1>4, <1>5 DEF Next, Dedup, Sort, Done, Collecting

-----------------------------------------------------------------------------
(***************************************************************************)
(* The place of a finding in the report is its own.                        *)
(***************************************************************************)
LEMMA OrderOfFindings ==
    ASSUME NEW f \in Finding, NEW g \in Finding, NEW h \in Finding
    PROVE  /\ ~SortsBefore(f, f)
           /\ SortsBefore(f, g) => ~SortsBefore(g, f)
           /\ SortsBefore(f, g) /\ SortsBefore(g, h) => SortsBefore(f, h)
           /\ ~SortsBefore(f, g) /\ ~SortsBefore(g, f) /\ SortsBefore(g, h) => SortsBefore(f, h)
           /\ ~SortsBefore(f, g) /\ ~SortsBefore(g, f) /\ SortsBefore(h, f) => SortsBefore(h, g)
           /\ ~SortsBefore(f, g) /\ ~SortsBefore(g, f) /\ ~SortsBefore(g, h) /\ ~SortsBefore(h, g) =>
                 ~SortsBefore(f, h) /\ ~SortsBefore(h, f)
<1>1. \A e \in {f, g, h} :
          Rank[e.code] \in Int /\ CodeOrder[e.code] \in Int /\ OffsetOrZero(e) \in Int /\ e.code \in Codes
    BY AnalyzeAssumption DEF Finding, OffsetOrZero
<1>2. \A c, d \in Codes : CodeOrder[c] = CodeOrder[d] => c = d
    BY AnalyzeAssumption
<1> QED
    BY <1>1, <1>2 DEF SortsBefore

LEMMA AheadIsALinearOrder ==
    ASSUME deduped \in Seq(Finding),
           NEW p \in DOMAIN deduped, NEW q \in DOMAIN deduped, NEW r \in DOMAIN deduped
    PROVE  /\ ~Ahead(p, p)
           /\ Ahead(p, q) => ~Ahead(q, p)
           /\ p # q => Ahead(p, q) \/ Ahead(q, p)
           /\ Ahead(p, q) /\ Ahead(q, r) => Ahead(p, r)
<1>1. deduped[p] \in Finding /\ deduped[q] \in Finding /\ deduped[r] \in Finding
    BY ElementOf
<1>2. p \in Int /\ q \in Int /\ r \in Int
    OBVIOUS
<1> QED
    BY <1>1, <1>2, OrderOfFindings DEF Ahead

LEMMA PlaceIsABijection ==
    ASSUME deduped \in Seq(Finding)
    PROVE  /\ \A p \in DOMAIN deduped : Place(p) \in DOMAIN deduped
           /\ \A p, q \in DOMAIN deduped : Ahead(p, q) => Place(p) < Place(q)
           /\ \A k \in DOMAIN deduped : \E p \in DOMAIN deduped : Place(p) = k
<1> DEFINE n == Len(deduped)
           D == 1..n
           before(p) == {q \in D : Ahead(q, p)}
<1>1. n \in Nat /\ DOMAIN deduped = D /\ IsFiniteSet(D) /\ Cardinality(D) = n
  <2>1. n \in Nat /\ DOMAIN deduped = D
      OBVIOUS
  <2> HIDE DEF n
  <2> QED
      BY <2>1, FS_Interval
<1>2. \A p \in D : Place(p) = Cardinality(before(p)) + 1
    BY <1>1 DEF Place
<1> HIDE DEF n
<1>3. ASSUME NEW p \in D
      PROVE  Place(p) \in D
  <2>1. p \notin before(p)
      BY <1>1, AheadIsALinearOrder
  <2>2. IsFiniteSet(D \ {p}) /\ Cardinality(D \ {p}) = n - 1
      BY <1>1, FS_RemoveElement
  <2>3. before(p) \in SUBSET (D \ {p})
      BY <2>1
  <2>4. IsFiniteSet(before(p)) /\ Cardinality(before(p)) <= n - 1
      BY <2>2, <2>3, FS_Subset
  <2>5. Cardinality(before(p)) \in Nat
      BY <2>4, FS_CardinalityType
  <2> QED
      BY <1>1, <1>2, <2>4, <2>5
<1>4. ASSUME NEW p \in D, NEW q \in D, Ahead(p, q)
      PROVE  Place(p) < Place(q)
  <2>1. before(p) \in SUBSET before(q)
      BY <1>1, <1>4, AheadIsALinearOrder
  <2>2. p \in before(q) /\ p \notin before(p)
      BY <1>1, <1>4, AheadIsALinearOrder
  <2>3. IsFiniteSet(before(q))
      BY <1>1, FS_Subset
  <2>4. Cardinality(before(p)) <= Cardinality(before(q))
      BY <2>1, <2>3, FS_Subset
  <2>5. Cardinality(before(p)) # Cardinality(before(q))
      BY <2>1, <2>2, <2>3, FS_Subset
  <2>6. Cardinality(before(p)) \in Nat /\ Cardinality(before(q)) \in Nat
    <3>1. IsFiniteSet(before(p))
        BY <2>1, <2>3, FS_Subset
    <3> QED
        BY <2>3, <3>1, FS_CardinalityType
  <2> QED
      BY <1>2, <2>4, <2>5, <2>6
<1>5. \A k \in D : \E p \in D : Place(p) = k
  <2> DEFINE place == [p \in D |-> Place(p)]
  <2>1. \A p, q \in D : Place(p) = Place(q) => p = q
    <3> SUFFICES ASSUME NEW p \in D, NEW q \in D, p # q
                 PROVE  Place(p) # Place(q)
        OBVIOUS
    <3>1. Ahead(p, q) \/ Ahead(q, p)
        BY <1>1, AheadIsALinearOrder
    <3>2. Place(p) \in Int /\ Place(q) \in Int
        BY <1>3
    <3> QED
        BY <1>4, <3>1, <3>2
  <2>2. place \in Injection(D, D)
      BY <1>3, <2>1 DEF Injection, IsInjective
  <2> HIDE DEF place
  <2>3. place \in Surjection(D, D)
      BY <1>1, <2>2, FS_Injection
  <2> QED
      BY <2>3 DEF Surjection, place
<1> QED
    BY <1>1, <1>3, <1>4, <1>5

-----------------------------------------------------------------------------
(***************************************************************************)
(* Every step keeps each part of the invariant.                            *)
(***************************************************************************)
LEMMA StepKinds ==
    ASSUME doc \in Tokenizers, TypeOK, [Next]_vars
    PROVE  \/ UNCHANGED vars
           \/ pc \in Collecting /\ Next /\ \E more \in Seq(Finding) : Appends(more)
           \/ Dedup
           \/ Sort
BY RulesAppend
DEF Next, TokenizerCounts, SpecialIds, ChatTemplate, Marker, MarkersEnd, Done, Collecting

LEMMA StepKeepsTypes ==
    ASSUME IInv, [Next]_vars
    PROVE  TypeOK'
<1>1. CASE UNCHANGED vars
    BY <1>1 DEF IInv, TypeOK, vars, KeyId
<1>2. CASE pc \in Collecting /\ \E more \in Seq(Finding) : Appends(more)
  <2>1. PICK more \in Seq(Finding) : Appends(more)
      BY <1>2
  <2>2. i = 0 /\ deduped = <<>> /\ report = <<>>
      BY <1>2 DEF IInv, Kept, Placed, Collecting
  <2>3. findings' \in Seq(Finding) /\ Len(findings') \in Nat
      BY <2>1, Joined DEF IInv, TypeOK, Appends
  <2>4. seen' = {}
    <3>1. seen = {}
        BY <2>2 DEF IInv, TypeOK
    <3> QED
        BY <2>1, <3>1 DEF Appends
  <2>5. seen' = {KeyId(findings[k]) : k \in 1..i}'
      BY <2>1, <2>2, <2>4 DEF Appends
  <2> QED
      BY <2>1, <2>2, <2>3, <2>5 DEF Appends, TypeOK, Collecting
<1>3. CASE Dedup
  <2> DEFINE f == findings[i + 1]
  <2>1. i + 1 \in DOMAIN findings /\ i \in Nat /\ i + 1 \in 0..Len(findings)
      BY <1>3 DEF IInv, TypeOK, Dedup
  <2>2. f \in Finding
      BY <2>1, ElementOf DEF IInv, TypeOK
  <2>3. i' = i + 1 /\ UNCHANGED <<doc, pc, findings, mark, report>>
      BY <1>3 DEF Dedup
  <2>4. seen' = seen \cup {KeyId(f)}
      BY <1>3 DEF Dedup
  <2>5. seen' = {KeyId(findings[k]) : k \in 1 .. i + 1}
    <3>1. 1 .. i + 1 = (1..i) \cup {i + 1}
        BY <2>1
    <3>2. seen = {KeyId(findings[k]) : k \in 1..i}
        BY DEF IInv, TypeOK
    <3> QED
        BY <2>4, <3>1, <3>2
  <2>6. {KeyId(findings[k]) : k \in 1 .. i}' = {KeyId(findings[k]) : k \in 1 .. i + 1}
      BY <2>3 DEF KeyId
  <2>7. deduped' \in Seq(Finding) /\ Len(deduped') <= i + 1
    <3> HIDE DEF f
    <3>1. deduped \in Seq(Finding) /\ Len(deduped) <= i
        BY DEF IInv, TypeOK
    <3>2. deduped' = deduped \/ deduped' = Append(deduped, f)
        BY <1>3 DEF Dedup, f
    <3> QED
        BY <2>1, <2>2, <3>1, <3>2
  <2>8. report' = <<>>
      BY <1>3, <2>3 DEF IInv, Placed, Dedup
  <2> QED
      BY <2>1, <2>3, <2>5, <2>6, <2>7, <2>8 DEF IInv, TypeOK
<1>4. CASE Sort
  <2>1. deduped \in Seq(Finding) /\ report' = [k \in DOMAIN deduped |->
                                        deduped[CHOOSE p \in DOMAIN deduped : Place(p) = k]]
      BY <1>4 DEF IInv, TypeOK, Sort
  <2>2. ASSUME NEW k \in DOMAIN deduped
        PROVE  deduped[CHOOSE p \in DOMAIN deduped : Place(p) = k] \in Finding
    <3>1. \E p \in DOMAIN deduped : Place(p) = k
        BY <2>1, PlaceIsABijection
    <3> QED
        BY <2>1, <3>1, ElementOf
  <2>3. report' \in Seq(Finding) /\ Len(report') = Len(deduped)
    <3>1. DOMAIN deduped = 1 .. Len(deduped) /\ Len(deduped) \in Nat
        BY <2>1
    <3> QED
        <4> DEFINE at(k) == deduped[CHOOSE p \in DOMAIN deduped : Place(p) = k]
        <4>1. report' = [k \in 1 .. Len(deduped) |-> at(k)] /\ \A k \in 1 .. Len(deduped) : at(k) \in Finding
            BY <2>1, <2>2, <3>1
        <4> HIDE DEF at
        <4>2. report' \in [1 .. Len(deduped) -> Finding]
            BY <4>1
        <4> QED
            BY <3>1, <4>2, FunctionIsList
  <2>4. /\ UNCHANGED <<doc, findings, mark, i, seen, deduped>> /\ pc' = "done"
      BY <1>4 DEF Sort
  <2>5. {KeyId(findings[k]) : k \in 1 .. i}' = {KeyId(findings[k]) : k \in 1 .. i}
      BY <2>4 DEF KeyId
  <2> QED
      BY <2>3, <2>4, <2>5 DEF IInv, TypeOK
<1> QED
    BY <1>1, <1>2, <1>3, <1>4, StepKinds DEF IInv

LEMMA RepeatsIsEqualKey ==
    ASSUME NEW f, NEW g
    PROVE  Repeats(f, g) <=> KeyId(f) = KeyId(g)
BY DEF Repeats, KeyId

LEMMA StepKeepsKept ==
    ASSUME IInv, [Next]_vars
    PROVE  Kept'
<1>1. CASE UNCHANGED vars
    BY <1>1 DEF IInv, Kept, FirstOf, Repeats, vars
<1>2. CASE pc \in Collecting /\ \E more \in Seq(Finding) : Appends(more)
  <2>1. i' = 0 /\ deduped' = <<>>
      BY <1>2 DEF IInv, Kept, Appends
  <2> QED
      BY <2>1 DEF Kept
<1>3. CASE Dedup
  <2> DEFINE f == findings[i + 1]
             firstOf(k) == \A m \in 1 .. k - 1 : KeyId(findings[m]) # KeyId(findings[k])
  <2>1. i \in Nat /\ i' = i + 1 /\ findings' = findings /\ pc = "dedup" /\ pc' = pc
      BY <1>3 DEF IInv, TypeOK, Dedup
  <2>2. /\ \A k \in 1..i : firstOf(k) => \E m \in DOMAIN deduped : deduped[m] = findings[k]
        /\ \A m \in DOMAIN deduped : \E k \in 1..i : firstOf(k) /\ deduped[m] = findings[k]
        /\ \A m, n \in DOMAIN deduped : KeyId(deduped[m]) = KeyId(deduped[n]) => m = n
      BY RepeatsIsEqualKey DEF IInv, Kept, FirstOf
  <2>3. KeyId(f) \in seen <=> ~firstOf(i + 1)
    <3>1. seen = {KeyId(findings[k]) : k \in 1..i} /\ i + 1 - 1 = i
        BY <2>1 DEF IInv, TypeOK
    <3>2. firstOf(i + 1) <=> \A m \in 1..i : KeyId(findings[m]) # KeyId(f)
      <4>1. 1 .. (i + 1) - 1 = 1..i
          BY <2>1
      <4> QED
          BY <4>1, Zenon
    <3> HIDE DEF firstOf, f
    <3> QED
        BY <3>1, <3>2
  <2>4. \A k \in 1 .. i + 1 : k \in 1..i \/ k = i + 1
      BY <2>1
  <2>5. 1..i \subseteq 1 .. i + 1 /\ i + 1 \in 1 .. i + 1
      BY <2>1
  <2>6. deduped \in Seq(Finding)
      BY DEF IInv, TypeOK
  <2>7. SUFFICES
          /\ \A k \in 1 .. i + 1 : firstOf(k) => \E m \in DOMAIN deduped' : deduped'[m] = findings[k]
          /\ \A m \in DOMAIN deduped' : \E k \in 1 .. i + 1 : firstOf(k) /\ deduped'[m] = findings[k]
          /\ \A m, n \in DOMAIN deduped' : KeyId(deduped'[m]) = KeyId(deduped'[n]) => m = n
    <3> SUFFICES
          /\ \A k \in 1 .. i' : FirstOf(k)' => \E m \in DOMAIN deduped' : deduped'[m] = findings'[k]
          /\ \A m \in DOMAIN deduped' : \E k \in 1 .. i' : FirstOf(k)' /\ deduped'[m] = findings'[k]
          /\ \A m, n \in DOMAIN deduped' : Repeats(deduped'[m], deduped'[n]) => m = n
        BY <2>1 DEF Kept, Collecting
    <3>1. \A k : FirstOf(k)' <=> firstOf(k)
        BY <2>1, RepeatsIsEqualKey DEF FirstOf
    <3> HIDE DEF firstOf
    <3> QED
        BY <2>1, <2>7, <3>1, RepeatsIsEqualKey
  <2>8. CASE KeyId(f) \in seen
    <3>1. deduped' = deduped
        BY <1>3, <2>8 DEF Dedup
    <3> HIDE DEF firstOf, f
    <3> QED
        BY <2>2, <2>3, <2>4, <2>5, <2>8, <3>1
  <2>9. CASE KeyId(f) \notin seen
    <3> DEFINE n == Len(deduped)
    <3>1. deduped' = Append(deduped, f)
        BY <1>3, <2>9 DEF Dedup
    <3>2. /\ n \in Nat /\ DOMAIN deduped = 1..n /\ DOMAIN deduped' = 1 .. n + 1
          /\ deduped'[n + 1] = f
          /\ \A m \in 1..n : deduped'[m] = deduped[m]
        BY <2>6, <3>1
    <3>3. \A m \in 1 .. n + 1 : m \in 1..n \/ m = n + 1
        BY <3>2
    <3>4. \A m \in 1..n : KeyId(deduped[m]) # KeyId(f)
      <4>1. \A k \in 1..i : KeyId(findings[k]) # KeyId(f)
          BY <2>9 DEF IInv, TypeOK
      <4> QED
          BY <2>2, <3>2, <4>1
    <3>5. firstOf(i + 1) /\ f = findings[i + 1]
        BY <2>3, <2>9
    <3> HIDE DEF firstOf, f, n
    <3>6. ASSUME NEW k \in 1 .. i + 1, firstOf(k)
          PROVE  \E m \in DOMAIN deduped' : deduped'[m] = findings[k]
      <4>1. n + 1 \in 1 .. n + 1 /\ 1..n \subseteq 1 .. n + 1
          BY <3>2
      <4>2. CASE k \in 1..i
        <5>1. PICK m \in DOMAIN deduped : deduped[m] = findings[k]
            BY <2>2, <3>6, <4>2
        <5> QED
            BY <3>2, <4>1, <5>1
      <4>3. CASE k = i + 1
        <5>1. n + 1 \in DOMAIN deduped' /\ deduped'[n + 1] = findings[k]
            BY <3>2, <3>5, <4>1, <4>3
        <5> QED
            BY <5>1
      <4> QED
          BY <2>4, <4>2, <4>3
    <3>7. ASSUME NEW m \in DOMAIN deduped'
          PROVE  \E k \in 1 .. i + 1 : firstOf(k) /\ deduped'[m] = findings[k]
        BY <2>2, <2>5, <3>2, <3>3, <3>5
    <3>8. ASSUME NEW m \in DOMAIN deduped', NEW o \in DOMAIN deduped',
                 KeyId(deduped'[m]) = KeyId(deduped'[o])
          PROVE  m = o
        BY <2>2, <3>2, <3>3, <3>4, <3>8
    <3> QED
        BY <3>6, <3>7, <3>8
  <2> QED
      BY <2>8, <2>9
<1>4. CASE Sort
    BY <1>4 DEF IInv, Kept, FirstOf, Repeats, Sort, Collecting
<1> QED
    BY <1>1, <1>2, <1>3, <1>4, StepKinds DEF IInv

LEMMA StepKeepsPlaced ==
    ASSUME IInv, [Next]_vars
    PROVE  Placed'
<1>1. CASE UNCHANGED vars
  <2>1. \A p : Place(p)' = Place(p)
      BY <1>1 DEF Place, Ahead, SortsBefore, OffsetOrZero, vars
  <2> QED
      BY <1>1, <2>1 DEF IInv, Placed, vars
<1>2. CASE pc \in Collecting /\ \E more \in Seq(Finding) : Appends(more)
    BY <1>2 DEF IInv, Placed, Appends, Collecting
<1>3. CASE Dedup
    BY <1>3 DEF IInv, Placed, Dedup
<1>4. CASE Sort
  <2>1. deduped \in Seq(Finding) /\ DOMAIN deduped = 1 .. Len(deduped) /\ Len(deduped) \in Nat
      BY DEF IInv, TypeOK
  <2>2. UNCHANGED <<doc, findings, i, deduped>> /\ pc' = "done" /\ i = Len(findings)
      BY <1>4 DEF Sort
  <2>3. report' = [k \in DOMAIN deduped |-> deduped[CHOOSE p \in DOMAIN deduped : Place(p) = k]]
      BY <1>4 DEF Sort
  <2>4. DOMAIN report' = DOMAIN deduped /\ Len(report') = Len(deduped)
      BY <2>1, <2>3
  <2>5. \A p : Place(p)' = Place(p)
      BY <2>2 DEF Place, Ahead, SortsBefore, OffsetOrZero
  <2>6. ASSUME NEW k \in DOMAIN deduped
        PROVE  \E p \in DOMAIN deduped : Place(p) = k /\ report'[k] = deduped[p]
    <3>1. \E p \in DOMAIN deduped : Place(p) = k
        BY <2>1, PlaceIsABijection
    <3> QED
        BY <2>3, <3>1
  <2>7. ASSUME NEW p \in DOMAIN deduped
        PROVE  Place(p) \in DOMAIN deduped /\ report'[Place(p)] = deduped[p]
    <3>1. Place(p) \in DOMAIN deduped
        BY <2>1, PlaceIsABijection
    <3>2. PICK q \in DOMAIN deduped : Place(q) = Place(p) /\ report'[Place(p)] = deduped[q]
        BY <2>6, <3>1
    <3>3. Place(p) \in Int /\ (q # p => Ahead(p, q) \/ Ahead(q, p))
        BY <2>1, <3>1, AheadIsALinearOrder
    <3>4. q = p
      <4>1. /\ Ahead(p, q) => Place(p) < Place(q)
            /\ Ahead(q, p) => Place(q) < Place(p)
          BY <2>1, PlaceIsABijection
      <4> QED
          BY <3>2, <3>3, <4>1
    <3> QED
        BY <3>1, <3>2, <3>4
  <2> QED
      BY <2>2, <2>4, <2>5, <2>6, <2>7 DEF Placed
<1> QED
    BY <1>1, <1>2, <1>3, <1>4, StepKinds DEF IInv

LEMMA StepKeepsUnread ==
    ASSUME IInv, [Next]_vars
    PROVE  Unread'
BY DEF IInv, Unread, vars, Next, TokenizerCounts, SpecialIds, ChatTemplate, Marker, MarkersEnd,
       Extend, Dedup, Sort, Done

LEMMA StepKeepsSilent ==
    ASSUME IInv, [Next]_vars
    PROVE  Silent'
<1> DEFINE marks == doc.template.marks
<1>1. doc' = doc
    BY StepKinds DEF IInv, vars, Appends, Dedup, Sort
<1>2. /\ CountsAgree' <=> CountsAgree
      /\ IdsInRange' <=> IdsInRange
      /\ \A n : MarksKnown(n)' <=> MarksKnown(n)
    BY <1>1 DEF CountsAgree, Desynced, NumTokens, IdsInRange, OutOfRange, IdOf, Unset,
                MarksKnown, Known
<1>3. /\ findings \in Seq(Finding) /\ mark \in 0 .. Len(marks) /\ Len(marks) \in Nat
      /\ doc \in Tokenizers
    BY SectionIsTyped DEF IInv, TypeOK
<1>4. SUFFICES ASSUME findings' = <<>>
               PROVE  /\ pc' # "tokenizer_counts" => CountsAgree
                      /\ pc' \notin {"tokenizer_counts", "special_ids"} => IdsInRange
                      /\ pc' = "markers" => MarksKnown(mark')
                      /\ pc' \in {"dedup", "done"} => MarksKnown(Len(marks))
    BY <1>1, <1>2 DEF Silent
<1>5. findings = <<>> =>
        /\ pc # "tokenizer_counts" => CountsAgree
        /\ pc \notin {"tokenizer_counts", "special_ids"} => IdsInRange
        /\ pc = "markers" => MarksKnown(mark)
        /\ pc \in {"dedup", "done"} => MarksKnown(Len(marks))
    BY DEF IInv, Silent
<1>6. CASE UNCHANGED vars
    BY <1>4, <1>5, <1>6 DEF vars
<1>7. CASE TokenizerCounts
  <2>1. findings' = findings \o CountFindings /\ pc' = "special_ids"
      BY <1>7 DEF TokenizerCounts, Extend, CountFindings
  <2> QED
      BY <1>3, <1>4, <2>1, CountFindingsTyped, Joined
<1>8. CASE SpecialIds
  <2>1. findings' = findings \o IdFindings /\ pc' = "chat_template" /\ pc = "special_ids"
      BY <1>8 DEF SpecialIds, Extend, IdFindings
  <2>2. findings = <<>> /\ IdFindings = <<>>
      BY <1>3, <1>4, <2>1, IdFindingsTyped, Joined
  <2> QED
      BY <1>5, <2>1, <2>2, IdFindingsTyped
<1>9. CASE ChatTemplate
  <2>1. /\ If(TRUE, "W_NO_CHAT_TEMPLATE", "chat_template") # <<>>
        /\ If(TRUE, "W_TEMPLATE_NO_SPECIAL_TOKENS", "chat_template") # <<>>
        /\ If(TRUE, "W_NO_CHAT_TEMPLATE", "chat_template") \in Seq(Finding)
        /\ If(TRUE, "W_TEMPLATE_NO_SPECIAL_TOKENS", "chat_template") \in Seq(Finding)
    <3>1. /\ {"W_NO_CHAT_TEMPLATE", "W_TEMPLATE_NO_SPECIAL_TOKENS"} \subseteq TokenizerCodes
          /\ "chat_template" \in Quoted
        BY DEF TokenizerCodes, Quoted
    <3> QED
        BY <3>1, IfIsAList
  <2>2. findings' = findings \o <<>> /\ pc' = "markers" /\ mark' = mark
      BY <1>3, <1>4, <1>9, <2>1, Joined DEF ChatTemplate, Extend
  <2>3. findings = <<>> /\ pc = "chat_template"
      BY <1>3, <1>4, <1>9, <2>2 DEF ChatTemplate
  <2>4. mark = 0
      BY <2>3 DEF IInv, Unread
  <2> QED
      BY <1>5, <2>2, <2>3, <2>4 DEF MarksKnown
<1>10. CASE Marker
  <2>1. findings = <<>> /\ marks[mark'] \in Known /\ mark' = mark + 1 /\ pc' = "markers" /\ pc = "markers"
      BY <1>3, <1>4, <1>10, MarkerAppends DEF IInv, Marker
  <2>2. \A k \in 1 .. mark' : k \in 1..mark \/ k = mark'
      BY <1>3, <2>1
  <2> QED
      BY <1>5, <2>1, <2>2 DEF MarksKnown
<1>11. CASE MarkersEnd
  <2>1. findings' = findings \o <<>> /\ pc' = "dedup" /\ pc = "markers" /\ mark = Len(marks)
      BY <1>11 DEF MarkersEnd, Extend
  <2>2. findings = <<>>
      BY <1>3, <1>4, <2>1
  <2> QED
      BY <1>5, <2>1, <2>2
<1>12. CASE Dedup \/ Sort \/ Done
    BY <1>4, <1>5, <1>12 DEF Dedup, Sort, Done, vars
<1> QED
    BY <1>6, <1>7, <1>8, <1>9, <1>10, <1>11, <1>12 DEF Next

LEMMA Start == Init => IInv
<1> SUFFICES ASSUME Init PROVE IInv
    OBVIOUS
<1>1. findings \in Seq(Finding) /\ doc \in Tokenizers /\ doc.template.marks \in Seq(Marked)
    BY AnalyzeAssumption, SectionIsTyped DEF Init
<1>2. TypeOK
  <2>1. {KeyId(findings[k]) : k \in 1..0} = {}
      OBVIOUS
  <2> QED
      BY <1>1, <2>1 DEF Init, TypeOK
<1>3. Kept
    BY DEF Init, Kept
<1>4. Unread /\ Placed /\ Silent
    BY DEF Init, Unread, Placed, Silent
<1> QED
    BY <1>1, <1>2, <1>3, <1>4 DEF IInv

LEMMA Invariance == Spec => []IInv
<1>1. IInv /\ [Next]_vars => IInv'
  <2> SUFFICES ASSUME IInv, [Next]_vars PROVE IInv'
      OBVIOUS
  <2>1. doc' = doc
      BY StepKinds DEF IInv, vars, Appends, Dedup, Sort
  <2> QED
      BY <2>1, StepKeepsTypes, StepKeepsUnread, StepKeepsKept, StepKeepsPlaced, StepKeepsSilent
      DEF IInv
<1> QED
    BY Start, <1>1, PTL DEF Spec

-----------------------------------------------------------------------------
(***************************************************************************)
(* TypeOK: analyze hands on findings only, however many there are.         *)
(***************************************************************************)
THEOREM TypeCorrect == Spec => []TypeOK
BY Invariance, PTL DEF IInv

(***************************************************************************)
(* A finding that repeats an earlier one has a first one before it.        *)
(***************************************************************************)
LEMMA FirstExists ==
    ASSUME findings \in Seq(Finding), NEW k \in DOMAIN findings
    PROVE  \E m \in DOMAIN findings : FirstOf(m) /\ Repeats(findings[m], findings[k])
<1> DEFINE T == {m \in 1..k : Repeats(findings[m], findings[k])}
<1>1. k \in Nat /\ k \in 1..k /\ 1..k \subseteq DOMAIN findings
    OBVIOUS
<1>2. T \in SUBSET Nat /\ T # {}
    BY <1>1 DEF Repeats
<1>3. PICK m \in T : \A n \in T : m <= n
  <2> HIDE DEF T
  <2> QED
      BY <1>2, SmallestExists
<1>4. m \in 1..k /\ Repeats(findings[m], findings[k])
    OBVIOUS
<1>5. ASSUME NEW n \in 1 .. m - 1, Repeats(findings[n], findings[m])
      PROVE  FALSE
  <2>1. n \in 1..k /\ n < m
      BY <1>1, <1>4
  <2>2. n \in T
      BY <1>4, <1>5, <2>1 DEF Repeats
  <2> HIDE DEF T
  <2> QED
      BY <1>3, <1>4, <2>1, <2>2
<1> QED
    BY <1>1, <1>4, <1>5 DEF FirstOf

(***************************************************************************)
(* NothingIsLost in the states of the invariant.                           *)
(***************************************************************************)
LEMMA ReportHoldsFirsts == IInv => NothingIsLost
<1> SUFFICES ASSUME IInv, pc = "done"
             PROVE
               /\ \A k \in DOMAIN findings :
                     FirstOf(k) => \E m \in DOMAIN report : report[m] = findings[k]
               /\ \A m \in DOMAIN report :
                     \E k \in DOMAIN findings : FirstOf(k) /\ report[m] = findings[k]
               /\ \A rank \in 0..2 : Reaches(report, rank) <=> Reaches(findings, rank)
    BY DEF NothingIsLost
<1>1. findings \in Seq(Finding) /\ DOMAIN findings = 1..i
    BY DEF IInv, TypeOK, Placed
<1>2. ASSUME NEW k \in DOMAIN findings, FirstOf(k)
      PROVE  \E m \in DOMAIN report : report[m] = findings[k]
  <2>1. PICK p \in DOMAIN deduped : deduped[p] = findings[k]
      BY <1>1, <1>2 DEF IInv, Kept
  <2> QED
      BY <2>1 DEF IInv, Placed
<1>3. ASSUME NEW m \in DOMAIN report
      PROVE  \E k \in DOMAIN findings : FirstOf(k) /\ report[m] = findings[k]
  <2>1. PICK p \in DOMAIN deduped : report[m] = deduped[p]
      BY DEF IInv, Placed
  <2> QED
      BY <1>1, <2>1 DEF IInv, Kept
<1>4. ASSUME NEW rank \in 0..2
      PROVE  Reaches(report, rank) <=> Reaches(findings, rank)
  <2>1. ASSUME NEW k \in DOMAIN findings, Rank[findings[k].code] >= rank
        PROVE  Reaches(report, rank)
    <3>1. PICK n \in DOMAIN findings : FirstOf(n) /\ Repeats(findings[n], findings[k])
        BY <1>1, FirstExists
    <3>2. PICK m \in DOMAIN report : report[m] = findings[n]
        BY <1>2, <3>1
    <3> QED
        BY <2>1, <3>1, <3>2 DEF Reaches, Repeats
  <2>2. ASSUME NEW m \in DOMAIN report, Rank[report[m].code] >= rank
        PROVE  Reaches(findings, rank)
      BY <1>3, <2>2 DEF Reaches
  <2> QED
      BY <2>1, <2>2 DEF Reaches
<1> QED
    BY <1>2, <1>3, <1>4

(***************************************************************************)
(* NothingIsLost: lists of findings of any length, any severities.         *)
(***************************************************************************)
THEOREM NothingLost == Spec => []NothingIsLost
BY Invariance, ReportHoldsFirsts, PTL

(***************************************************************************)
(* EachOnce.                                                               *)
(***************************************************************************)
THEOREM NothingTwice == Spec => []EachOnce
<1>1. IInv => EachOnce
  <2> SUFFICES ASSUME IInv, NEW m \in DOMAIN report, NEW n \in DOMAIN report,
                      Repeats(report[m], report[n])
               PROVE  m = n
      BY DEF EachOnce
  <2>1. pc = "done"
      BY DEF IInv, Placed
  <2>2. PICK p \in DOMAIN deduped : Place(p) = m /\ report[m] = deduped[p]
      BY <2>1 DEF IInv, Placed
  <2>3. PICK q \in DOMAIN deduped : Place(q) = n /\ report[n] = deduped[q]
      BY <2>1 DEF IInv, Placed
  <2> QED
      BY <2>2, <2>3 DEF IInv, Kept
<1> QED
    BY Invariance, <1>1, PTL

(***************************************************************************)
(* PrintedAsReturned: the key of the renderers orders findings as the key  *)
(* of analyze does, and the sort of analyze has put them in that order.    *)
(***************************************************************************)
THEOREM PrintedInOrder == Spec => []PrintedAsReturned
<1>1. ASSUME NEW f \in Finding, NEW g \in Finding
      PROVE  RendersBefore(f, g) <=> SortsBefore(f, g)
  <2>1. /\ Rank[f.code] \in 0..2 /\ Rank[g.code] \in 0..2
        /\ CodeOrder[f.code] \in Nat /\ CodeOrder[g.code] \in Nat
      BY AnalyzeAssumption DEF Finding
  <2>2. Badge[Rank[f.code]] = 2 - Rank[f.code] /\ Badge[Rank[g.code]] = 2 - Rank[g.code]
      BY <2>1 DEF Badge
  <2> QED
      BY <2>1, <2>2 DEF RendersBefore, SortsBefore
<1>2. IInv => PrintedAsReturned
  <2> SUFFICES ASSUME IInv, NEW m \in DOMAIN report, NEW n \in DOMAIN report, m < n
               PROVE  ~RendersBefore(report[n], report[m])
      BY DEF PrintedAsReturned
  <2>1. pc = "done" /\ deduped \in Seq(Finding)
      BY DEF IInv, Placed, TypeOK
  <2>2. PICK p \in DOMAIN deduped : Place(p) = m /\ report[m] = deduped[p]
      BY <2>1 DEF IInv, Placed
  <2>3. PICK q \in DOMAIN deduped : Place(q) = n /\ report[n] = deduped[q]
      BY <2>1 DEF IInv, Placed
  <2>4. ~Ahead(q, p)
    <3>1. Ahead(q, p) => Place(q) < Place(p)
        BY <2>1, PlaceIsABijection
    <3>2. m \in Int /\ n \in Int
        BY DEF IInv, TypeOK
    <3> QED
        BY <2>2, <2>3, <3>1, <3>2
  <2>5. deduped[p] \in Finding /\ deduped[q] \in Finding
      BY <2>1, ElementOf
  <2> QED
      BY <1>1, <2>2, <2>3, <2>4, <2>5 DEF Ahead
<1> QED
    BY Invariance, <1>2, PTL

(***************************************************************************)
(* SilentTokenizerLoads: tokenizer sections of any size.                   *)
(***************************************************************************)
THEOREM SilenceLoads == Spec => []SilentTokenizerLoads
<1>1. IInv => SilentTokenizerLoads
  <2> SUFFICES ASSUME IInv, pc = "done", report = <<>>, doc.tokens.given
               PROVE
                 /\ NumTokens > 0
                 /\ {doc.scores, doc.types, doc.vocab} \subseteq {-1, NumTokens}
                 /\ \A key \in IdKeys :
                       doc.ids[key].kind = "int" /\ doc.ids[key].n >= 0 =>
                           doc.ids[key].n + 1 \in 1..NumTokens
                 /\ doc.adds["add_bos_token"] => doc.ids["bos_token_id"] \notin {Absent, Given(0)}
                 /\ \A k \in DOMAIN doc.template.marks :
                       \/ \E m \in 1..NumTokens : doc.tokens.items[m] = doc.template.marks[k]
                       \/ \E m \in DOMAIN doc.added.items :
                             doc.added.items[m] = doc.template.marks[k]
      BY DEF SilentTokenizerLoads
  <2>1. findings \in Seq(Finding) /\ i = Len(findings) /\ report \in Seq(Finding)
      BY DEF IInv, TypeOK, Placed
  <2>2. findings = <<>>
    <3> SUFFICES ASSUME findings # <<>> PROVE FALSE
        OBVIOUS
    <3>1. 1 \in 1..i /\ FirstOf(1)
        BY <2>1 DEF FirstOf
    <3>2. PICK p \in DOMAIN deduped : deduped[p] = findings[1]
        BY <3>1 DEF IInv, Kept
    <3> QED
        BY <2>1, <3>2 DEF IInv, Placed
  <2>3. CountsAgree /\ IdsInRange /\ MarksKnown(Len(doc.template.marks))
      BY <2>2 DEF IInv, Silent
  <2>4. /\ NumTokens \in Nat /\ doc.template.marks \in Seq(Marked)
        /\ DOMAIN doc.tokens.items = 1..NumTokens
        /\ \A key \in IdKeys : doc.ids[key] \in Value
    <3>1. doc \in Tokenizer
        BY AnalyzeAssumption DEF IInv
    <3> QED
        BY <3>1 DEF Tokenizer, NumTokens
  <2>5. NumTokens > 0 /\ {doc.scores, doc.types, doc.vocab} \subseteq {-1, NumTokens}
      BY <2>3, <2>4 DEF CountsAgree, Desynced
  <2>6. ASSUME NEW key \in IdKeys, doc.ids[key].kind = "int", doc.ids[key].n >= 0
        PROVE  doc.ids[key].n + 1 \in 1..NumTokens
    <3>1. doc.ids[key].n \in Int
        BY <2>4, <2>6 DEF Value
    <3>2. ~(doc.ids[key].n >= NumTokens)
        BY <2>3, <2>6 DEF IdsInRange, OutOfRange
    <3> QED
        BY <2>4, <2>6, <3>1, <3>2
  <2>7. ASSUME doc.adds["add_bos_token"]
        PROVE  doc.ids["bos_token_id"] \notin {Absent, Given(0)}
    <3>1. ~Unset(IdOf("add_bos_token"))
        BY <2>3, <2>7 DEF IdsInRange, AddKeys
    <3> QED
        BY <3>1 DEF IdOf, Unset, Absent, Given
  <2>8. ASSUME NEW k \in DOMAIN doc.template.marks
        PROVE  \/ \E m \in 1..NumTokens : doc.tokens.items[m] = doc.template.marks[k]
               \/ \E m \in DOMAIN doc.added.items : doc.added.items[m] = doc.template.marks[k]
    <3>1. doc.template.marks[k] \in Known
        BY <2>3, <2>4 DEF MarksKnown
    <3> QED
        BY <2>4, <3>1 DEF Known
  <2> QED
      BY <2>5, <2>6, <2>7, <2>8
<1> QED
    BY Invariance, <1>1, PTL

-----------------------------------------------------------------------------
(***************************************************************************)
(* Sections the rules have nothing to say about, and sections they always  *)
(* have something to say about.                                            *)
(***************************************************************************)
Flawless ==
    /\ CountsAgree /\ IdsInRange
    /\ doc.template.given /\ doc.template.bar
    /\ MarksKnown(Len(doc.template.marks))
Miscounted == doc.tokens.given /\ doc.vocab \notin {-1, NumTokens}

Untold == \A k \in DOMAIN findings : findings[k].code \notin TokenizerCodes
Told(code) == \E k \in DOMAIN findings : findings[k].code = code

Judged ==
    /\ Flawless => Untold
    /\ Miscounted /\ pc # "tokenizer_counts" => Told("W_VOCAB_MISMATCH")

LEMMA FlawlessIsSilent ==
    ASSUME doc \in Tokenizers, TypeOK, Flawless,
           TokenizerCounts \/ SpecialIds \/ ChatTemplate \/ Marker \/ MarkersEnd
    PROVE  findings' = findings
<1>1. findings \in Seq(Finding) /\ findings \o <<>> = findings
    BY DEF TypeOK
<1>2. CASE TokenizerCounts
  <2>1. CountFindings = <<>>
    <3>1. /\ doc.tokens.given => ~Desynced(doc.scores) /\ ~Desynced(doc.types)
          /\ doc.tokens.given => ~(doc.vocab \notin {-1, NumTokens}) /\ ~(NumTokens = 0)
        BY DEF Flawless, CountsAgree
    <3> QED
        BY <3>1 DEF CountFindings, If
  <2> QED
      BY <1>1, <1>2, <2>1 DEF TokenizerCounts, Extend, CountFindings
<1>3. CASE SpecialIds
  <2>1. /\ \A key \in IdKeys : IdFinding(key) = <<>>
        /\ \A add \in AddKeys : AddFinding(add) = <<>>
      BY DEF Flawless, IdsInRange, IdFinding, AddFinding, If
  <2>2. IdFindings = <<>>
      BY <2>1 DEF IdFindings, IdKeys, AddKeys
  <2> QED
      BY <1>1, <1>3, <2>2 DEF SpecialIds, Extend, IdFindings
<1>4. CASE ChatTemplate
    BY <1>1, <1>4 DEF ChatTemplate, Extend, Flawless
<1>5. CASE Marker
  <2>0. mark \in 0 .. Len(doc.template.marks) /\ mark < Len(doc.template.marks)
      BY <1>5 DEF Marker, TypeOK
  <2>1. mark + 1 \in 1 .. Len(doc.template.marks)
    <3>1. Len(doc.template.marks) \in Nat
        BY SectionIsTyped
    <3> QED
        BY <2>0, <3>1
  <2>2. doc.template.marks[mark + 1] \in Known
      BY <2>1 DEF Flawless, MarksKnown
  <2> QED
      BY <1>5, <2>2 DEF Marker
<1>6. CASE MarkersEnd
    BY <1>1, <1>6 DEF MarkersEnd, Extend
<1> QED
    BY <1>2, <1>3, <1>4, <1>5, <1>6

(***************************************************************************)
(* A list holds what the lists it was joined from hold.                    *)
(***************************************************************************)
Has(list, x) == \E k \in DOMAIN list : list[k] = x

LEMMA JoinedHolds ==
    ASSUME NEW S, NEW a \in Seq(S), NEW b \in Seq(S), NEW x
    PROVE  Has(a, x) \/ Has(b, x) => Has(a \o b, x)
<1>1. ASSUME NEW k \in DOMAIN a
      PROVE  k \in DOMAIN (a \o b) /\ (a \o b)[k] = a[k]
    OBVIOUS
<1>2. ASSUME NEW k \in DOMAIN b
      PROVE  Len(a) + k \in DOMAIN (a \o b) /\ (a \o b)[Len(a) + k] = b[k]
    OBVIOUS
<1> QED
    BY <1>1, <1>2 DEF Has

LEMMA MiscountedIsTold ==
    ASSUME doc \in Tokenizers, TypeOK, Miscounted, TokenizerCounts
    PROVE  Told("W_VOCAB_MISMATCH")'
<1> DEFINE a == If(Desynced(doc.scores), "E_TOKENIZER_COUNT_MISMATCH", "scores")
           b == If(Desynced(doc.types), "E_TOKENIZER_COUNT_MISMATCH", "token_type")
           new == About("W_VOCAB_MISMATCH", "vocab_size", None)
           d == If(NumTokens = 0, "W_EMBED_TOKENS_ZERO_ROWS", "tokens")
<1>1. a \in Seq(Finding) /\ b \in Seq(Finding) /\ d \in Seq(Finding) /\ new \in Finding
  <2>1. /\ {"E_TOKENIZER_COUNT_MISMATCH", "W_VOCAB_MISMATCH", "W_EMBED_TOKENS_ZERO_ROWS"}
              \subseteq TokenizerCodes
        /\ {"scores", "token_type", "vocab_size", "tokens", None} \subseteq Quoted
      BY DEF TokenizerCodes, Quoted
  <2> QED
      BY <2>1, IfIsAList, AboutIsAFinding
<1>2. CountFindings = a \o b \o <<new>> \o d
    BY DEF Miscounted, CountFindings, If
<1>3. findings' = findings \o CountFindings
    BY DEF TokenizerCounts, Extend, CountFindings
<1>4. new.code = "W_VOCAB_MISMATCH"
    BY DEF About
<1> HIDE DEF a, b, d, new
<1> DEFINE ab == a \o b
           abc == ab \o <<new>>
<1>5. ab \in Seq(Finding) /\ <<new>> \in Seq(Finding) /\ Has(<<new>>, new)
    BY <1>1, Joined DEF Has
<1> HIDE DEF ab, Has
<1>6. abc \in Seq(Finding) /\ Has(abc, new)
    BY <1>5, Joined, JoinedHolds
<1> HIDE DEF abc
<1>7. CountFindings \in Seq(Finding) /\ Has(CountFindings, new)
  <2>1. abc \o d \in Seq(Finding) /\ Has(abc \o d, new)
      BY <1>1, <1>6, Joined, JoinedHolds
  <2> QED
      BY <1>2, <2>1 DEF ab, abc
<1>8. findings \in Seq(Finding)
    BY DEF TypeOK
<1>9. Has(findings', new)
    BY <1>3, <1>7, <1>8, JoinedHolds
<1> QED
    BY <1>4, <1>9 DEF Told, Has

LEMMA StepKeepsJudged ==
    ASSUME IInv, Judged, [Next]_vars
    PROVE  Judged'
<1>1. doc' = doc /\ doc \in Tokenizers /\ TypeOK
    BY StepKinds DEF IInv, vars, Appends, Dedup, Sort
<1>2. (Flawless' <=> Flawless) /\ (Miscounted' <=> Miscounted)
    BY <1>1 DEF Flawless, Miscounted, CountsAgree, Desynced, NumTokens, IdsInRange, OutOfRange,
                IdOf, Unset, MarksKnown, Known
<1>3. ASSUME Flawless
      PROVE  Untold'
  <2>1. findings' = findings
    <3>1. CASE UNCHANGED vars \/ Dedup \/ Sort \/ Done
        BY <3>1 DEF vars, Dedup, Sort, Done
    <3> QED
        BY <1>1, <1>3, <3>1, FlawlessIsSilent DEF Next
  <2> QED
      BY <1>3, <2>1 DEF Judged, Untold
<1>4. ASSUME Miscounted, pc' # "tokenizer_counts"
      PROVE  Told("W_VOCAB_MISMATCH")'
  <2>1. CASE TokenizerCounts
      BY <1>1, <1>4, <2>1, MiscountedIsTold
  <2>2. CASE pc # "tokenizer_counts"
    <3>1. Told("W_VOCAB_MISMATCH")
        BY <1>4, <2>2 DEF Judged
    <3>2. CASE findings' = findings
        BY <3>1, <3>2 DEF Told
    <3>3. CASE \E more \in Seq(Finding) : Appends(more)
      <4>1. PICK more \in Seq(Finding) : findings' = findings \o more
          BY <3>3 DEF Appends
      <4>2. PICK k \in DOMAIN findings : findings[k].code = "W_VOCAB_MISMATCH"
          BY <3>1 DEF Told
      <4>3. findings \in Seq(Finding) /\ Has(findings, findings[k])
          BY <1>1 DEF TypeOK, Has
      <4>4. Has(findings', findings[k])
          BY <4>1, <4>3, JoinedHolds
      <4> QED
          BY <4>2, <4>4 DEF Told, Has
    <3> QED
        BY <1>1, <3>2, <3>3, StepKinds DEF vars, Dedup, Sort
  <2> QED
      BY <1>4, <2>1, <2>2
      DEF Next, SpecialIds, ChatTemplate, Marker, MarkersEnd, Dedup, Sort, Done, vars
<1> QED
    BY <1>2, <1>3, <1>4 DEF Judged

LEMMA JudgedInvariance == Spec => [](IInv /\ Judged)
<1>1. Init => Judged
    BY AnalyzeAssumption DEF Init, Judged, Untold
<1>2. IInv /\ Judged /\ [Next]_vars => Judged'
    BY StepKeepsJudged
<1> QED
    BY Invariance, <1>1, <1>2, PTL DEF Spec

LEMMA WrittenFields ==
    ASSUME NEW n \in Nat
    PROVE  WrittenTokenizer(n) =
             [vocab |-> n, tokens |-> [given |-> TRUE, items |-> WrittenTokens(n)], added |-> Missing,
              scores |-> Len(WrittenTokens(n)), types |-> Len(WrittenTokens(n)),
              ids |-> [bos_token_id |-> Given(1), eos_token_id |-> Given(2), eot_token_id |-> Given(3),
                       unk_token_id |-> Absent, sep_token_id |-> Given(0), pad_token_id |-> Given(0)],
              adds |-> [add_bos_token |-> TRUE, add_eos_token |-> TRUE],
              template |-> [given |-> TRUE, bar |-> TRUE,
                            marks |-> <<"<|start|>", "<|end|>", "<|start|>">>]]
BY DEF WrittenTokenizer, ArrayOf, Template

(***************************************************************************)
(* The section a fixture is written with is flawless when the vocabulary   *)
(* holds the special tokens, and miscounted when it does not.              *)
(***************************************************************************)
LEMMA WrittenSections ==
    ASSUME NEW n \in Nat, doc = WrittenTokenizer(n), doc \in Tokenizers
    PROVE  IF n >= 5 THEN Flawless ELSE Miscounted
<1> DEFINE pieces == [k \in 1 .. n - 5 |-> "tok"]
<1>1. WrittenTokens(n) = Specials \o pieces /\ Len(Specials) = 5
    BY DEF WrittenTokens, Specials
<1> DEFINE ids == [bos_token_id |-> Given(1), eos_token_id |-> Given(2), eot_token_id |-> Given(3),
                    unk_token_id |-> Absent, sep_token_id |-> Given(0), pad_token_id |-> Given(0)]
           adds == [add_bos_token |-> TRUE, add_eos_token |-> TRUE]
           marks == <<"<|start|>", "<|end|>", "<|start|>">>
<1>2. /\ doc.tokens = [given |-> TRUE, items |-> WrittenTokens(n)] /\ doc.added = Missing
      /\ doc.vocab = n /\ doc.scores = Len(WrittenTokens(n)) /\ doc.types = Len(WrittenTokens(n))
      /\ doc.template = [given |-> TRUE, bar |-> TRUE, marks |-> marks]
      /\ doc.ids = ids
  <2>1. doc = [vocab |-> n, tokens |-> [given |-> TRUE, items |-> WrittenTokens(n)], added |-> Missing,
               scores |-> Len(WrittenTokens(n)), types |-> Len(WrittenTokens(n)),
               ids |-> ids, adds |-> adds, template |-> [given |-> TRUE, bar |-> TRUE, marks |-> marks]]
      BY WrittenFields
  <2> HIDE DEF pieces, ids, adds, marks
  <2> QED
      BY <2>1
<1>3. /\ doc.tokens.given /\ doc.tokens.items = WrittenTokens(n)
      /\ doc.template.given /\ doc.template.bar /\ doc.template.marks = marks
    BY <1>2
<1>4. NumTokens = Len(WrittenTokens(n))
    BY <1>3 DEF NumTokens
<1>5. /\ Len(WrittenTokens(n)) = IF n >= 5 THEN n ELSE 5
      /\ \A k \in 1..5 : k \in DOMAIN WrittenTokens(n) /\ WrittenTokens(n)[k] = Specials[k]
  <2>1. /\ Specials \in Seq({"<unk>", "<s>", "</s>", "<|start|>", "<|end|>"})
        /\ pieces \in Seq({"tok"}) /\ Len(pieces) = IF n >= 5 THEN n - 5 ELSE 0
    <3>1. CASE n >= 5
        BY <3>1, FunctionIsList DEF Specials
    <3>2. CASE ~(n >= 5)
      <4>1. 1 .. n - 5 = {}
          BY <3>2
      <4>2. pieces = <<>>
          BY <4>1
      <4>3. <<>> \in Seq({"tok"}) /\ Len(<<>>) = 0
          OBVIOUS
      <4> HIDE DEF pieces
      <4> QED
          BY <3>2, <4>2, <4>3 DEF Specials
    <3> QED
        BY <3>1, <3>2
  <2> HIDE DEF pieces
  <2>2. /\ Len(WrittenTokens(n)) = 5 + Len(pieces)
        /\ \A k \in 1..5 : k \in DOMAIN WrittenTokens(n) /\ WrittenTokens(n)[k] = Specials[k]
    <3> DEFINE T == {"<unk>", "<s>", "</s>", "<|start|>", "<|end|>", "tok"}
    <3>1. Specials \in Seq(T) /\ pieces \in Seq(T)
        BY <2>1 DEF Specials
    <3> HIDE DEF T
    <3>2. /\ Len(Specials \o pieces) = Len(Specials) + Len(pieces)
          /\ \A k \in DOMAIN Specials :
                k \in DOMAIN (Specials \o pieces) /\ (Specials \o pieces)[k] = Specials[k]
        BY <3>1
    <3>3. DOMAIN Specials = 1..5
        BY <1>1, <3>1
    <3> QED
        BY <1>1, <3>2, <3>3
  <2> QED
      BY <2>1, <2>2
<1> HIDE DEF pieces
<1>6. CASE n >= 5
  <2>1. CountsAgree
      BY <1>2, <1>3, <1>4, <1>5, <1>6 DEF CountsAgree, Desynced
  <2>2. ASSUME NEW key \in IdKeys
        PROVE  ~OutOfRange(key)
    <3>1. doc.ids[key] \in {Given(0), Given(1), Given(2), Given(3), Absent}
        BY <1>2 DEF IdKeys
    <3>2. doc.ids[key].n \in 0..3
        BY <3>1 DEF Given, Absent
    <3> QED
        BY <1>4, <1>5, <1>6, <3>2 DEF OutOfRange
  <2>3. ASSUME NEW add \in AddKeys
        PROVE  ~Unset(IdOf(add))
    <3>1. IdOf(add) \in {Given(1), Given(2)}
        BY <1>2 DEF IdOf
    <3> QED
        BY <3>1 DEF Unset, Given
  <2>4. MarksKnown(Len(doc.template.marks))
    <3>1. doc.template.marks = <<"<|start|>", "<|end|>", "<|start|>">>
        BY <1>3
    <3>2. ASSUME NEW k \in 1..3
          PROVE  /\ doc.template.marks[k] \in {"<|start|>", "<|end|>"}
                 /\ doc.template.marks[k] \in Marked
      <4>1. doc.template.marks \in Seq(Marked)
          BY SectionIsTyped
      <4>2. k \in DOMAIN doc.template.marks
          BY <3>1
      <4> QED
          BY <3>1, <4>1, <4>2, ElementOf
    <3>3. /\ doc.tokens.items[4] = "<|start|>" /\ doc.tokens.items[5] = "<|end|>"
          /\ {4, 5} \subseteq DOMAIN doc.tokens.items
        BY <1>3, <1>5 DEF Specials
    <3> QED
        BY <3>1, <3>2, <3>3 DEF MarksKnown, Known
  <2> QED
      BY <1>6, <2>1, <2>2, <2>3, <2>4, <1>3 DEF Flawless, IdsInRange
<1>7. CASE ~(n >= 5)
    BY <1>2, <1>3, <1>4, <1>5, <1>7 DEF Miscounted
<1> QED
    BY <1>6, <1>7

(***************************************************************************)
(* What FixturesAreSilent says, for a vocabulary of any size.              *)
(***************************************************************************)
FixturesOfAnySizeAreSilent ==
    pc = "done" =>
        \A n \in Nat :
            doc = WrittenTokenizer(n) =>
                (n >= 5 <=> \A m \in DOMAIN report : report[m].code \notin TokenizerCodes)

(***************************************************************************)
(* A tokenizer section build_model writes is silent exactly when n_vocab   *)
(* has room for the special tokens, whatever else the parser and the other *)
(* rules found, and wherever the sort has put it.                          *)
(***************************************************************************)
THEOREM FixturesOfAnySize == Spec => []FixturesOfAnySizeAreSilent
<1>1. IInv /\ Judged => FixturesOfAnySizeAreSilent
  <2> SUFFICES ASSUME IInv, Judged, pc = "done", NEW n \in Nat, doc = WrittenTokenizer(n)
               PROVE  n >= 5 <=> \A m \in DOMAIN report : report[m].code \notin TokenizerCodes
      BY DEF FixturesOfAnySizeAreSilent
  <2>1. doc \in Tokenizers /\ findings \in Seq(Finding)
      BY DEF IInv, TypeOK
  <2>2. IF n >= 5 THEN Flawless ELSE Miscounted
      BY <2>1, WrittenSections
  <2>3. /\ \A k \in DOMAIN findings : FirstOf(k) => \E m \in DOMAIN report : report[m] = findings[k]
        /\ \A m \in DOMAIN report : \E k \in DOMAIN findings : report[m] = findings[k]
      BY ReportHoldsFirsts DEF NothingIsLost
  <2>4. ASSUME n >= 5, NEW m \in DOMAIN report
        PROVE  report[m].code \notin TokenizerCodes
      BY <2>2, <2>3, <2>4 DEF Judged, Untold
  <2>5. ASSUME ~(n >= 5)
        PROVE  \E m \in DOMAIN report : report[m].code \in TokenizerCodes
    <3>1. PICK k \in DOMAIN findings : findings[k].code = "W_VOCAB_MISMATCH"
        BY <2>2, <2>5 DEF Judged, Told
    <3>2. PICK j \in DOMAIN findings : FirstOf(j) /\ Repeats(findings[j], findings[k])
        BY <2>1, FirstExists
    <3>3. PICK m \in DOMAIN report : report[m] = findings[j]
        BY <2>3, <3>2
    <3> QED
        BY <3>1, <3>2, <3>3 DEF Repeats, TokenizerCodes
  <2> QED
      BY <2>4, <2>5
<1> QED
    BY JudgedInvariance, <1>1, PTL

(***************************************************************************)
(* FixturesAreSilent: the sizes around the five special tokens.            *)
(***************************************************************************)
THEOREM FixturesSilent == Spec => []FixturesAreSilent
<1>1. Len(Specials) = 5 /\ 0 .. 5 + 2 \subseteq Nat
    BY DEF Specials
<1>2. FixturesOfAnySizeAreSilent => FixturesAreSilent
    BY <1>1 DEF FixturesOfAnySizeAreSilent, FixturesAreSilent
<1> QED
    BY FixturesOfAnySize, <1>2, PTL
=============================================================================
