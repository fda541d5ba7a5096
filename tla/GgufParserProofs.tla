-------------------------- MODULE GgufParserProofs --------------------------
(***************************************************************************)
(* Theorems about GgufParser, for every file size, every set of field      *)
(* values and every scale of the limits.                                   *)
(*                                                                         *)
(* The inductive invariant is TypeOK with Control: where the parser may be *)
(* when a read has failed, and which locals it has already filled in.      *)
(* Indexed ties the first-match index to the table of pairs, Screened      *)
(* carries the checks of a tensor's numbers from the locals to the table.  *)
(*                                                                         *)
(* Counting adds how many records have been taken and paid for, which      *)
(* makes every step one of RecordStream; Damage and Grounded what is       *)
(* behind an exception and a verdict, Resolved what is behind the          *)
(* alignment, and Place where in the file every record and field lies.     *)
(***************************************************************************)
EXTENDS GgufParser, Numbers

\* The values a field can hold are natural numbers (Ints: integers).
LEMMA FieldValues ==
    /\ MaxChunk \in Nat /\ MaxChunk >= 8
    /\ Sizes \subseteq Nat
    /\ SignBit \in Nat /\ CountSanity \in Nat /\ MaxDims \in Nat
    /\ DefaultAlignment \in Nat \ {0}
    /\ Versions \subseteq Nat /\ Counts \subseteq Nat /\ Lengths \subseteq Nat
    /\ KvTypes \subseteq Nat /\ ArrayCounts \subseteq Nat /\ DimCounts \subseteq Nat
    /\ Dims \subseteq Nat /\ TensorTypes \subseteq Nat /\ TensorOffsets \subseteq Nat
    /\ Ints \subseteq Int
    /\ AlignKey \in Texts
  BY MaxChunkAssumption, ParserAssumption

InEntry == pc \in KvReads \cup TensorReads \cup {"items"}

Control ==
    /\ pc = "magic" => pos = 0 /\ len >= 4
    /\ raised # Quiet => pc \in (Reads \ {"magic"}) \cup {"done"}
    /\ raised.exc = "none" => raised = Quiet
    /\ raised.exc = "BadString" => pc \in {"strText", "done"}
    /\ pc \in StringReads => cur.goal # NoText
    /\ InEntry \/ cur.goal \in {"value", "item"} => cur.text \in Texts
    /\ verdict.kind # "crashed"
    /\ pc = "open" => pos = 0

IInv == TypeOK /\ Control

LEMMA WidthIsNat == ASSUME TypeOK PROVE Width \in Nat
  BY DEF TypeOK, Locals, Width, ScalarBytes

LEMMA FreshIsLocals == ASSUME NEW p \in Nat PROVE Fresh(p) \in Locals
  BY DEF Fresh, Locals, ItemTexts

\* Before the first read of parse_gguf nothing has been taken or recorded.
THEOREM InitIsInductive == Init => IInv
  <1> SUFFICES ASSUME Init PROVE IInv
    OBVIOUS
  <1>1. TypeOK
    <2>1. len \in Sizes /\ pos \in Nat /\ pos <= len
      BY FieldValues DEF Init, ReaderInit
    <2>2. raised \in [exc : Exceptions \cup {"none"}, at : Nat]
      BY DEF Init, ReaderInit, Quiet
    <2>3. pc \in Reads \cup Steps \cup {"done"}
      BY DEF Init, Steps
    <2>4. kv \in Seq(KvEntry) /\ tensors \in Seq(TensorInfo)
          /\ findings \in Seq(Findings)
      BY DEF Init
    <2>5. kvMap \in [Texts -> 0..Len(kv)]
      BY DEF Init
    <2>6. cur \in Locals
      BY FreshIsLocals DEF Init
    <2>7. verdict \in Verdicts
      BY DEF Init, Pending, Verdicts, Nowhere, NoText
    <2> QED BY <2>1, <2>2, <2>3, <2>4, <2>5, <2>6, <2>7, FieldValues DEF Init, TypeOK
  <1>2. Control
    BY DEF Init, ReaderInit, Control, Quiet, Fresh, InEntry, KvReads, TensorReads, StringReads,
           Pending, NoText
  <1> QED BY <1>1, <1>2 DEF IInv
\* A read that fails raises; Handle is the only other step that sees it.
LEMMA FailureIsInductive == IInv /\ (ReadFails \/ Handle \/ Open \/ ReadMagic) => IInv'
  <1> SUFFICES ASSUME IInv, ReadFails \/ Handle \/ Open \/ ReadMagic PROVE IInv'
    OBVIOUS
  <1> USE DEF IInv, TypeOK
  <1>1. CASE ReadFails
    <2>1. TypeOK'
      BY <1>1 DEF ReadFails, Refuse, Raising, Exceptions, header, tables
    <2>2. Control'
      BY <1>1, FieldValues DEF ReadFails, Refuse, Raising, Exceptions, Control, Quiet, Grants, CrossesEnd, Width,
         header, tables, InEntry, Reads
    <2> QED BY <2>1, <2>2
  <1>2. CASE Handle
    <2>1. TypeOK'
      BY <1>2, WidthIsNat DEF Handle, Control, Quiet, Rejected, Crashed, Verdicts, RejectionCodes, Exceptions, header, tables,
         Handles, HandlerCode, TruncationCode, readerVars
    <2>2. Control'
      BY <1>2 DEF Handle, Rejected, Crashed, Control, header, tables, InEntry, readerVars,
         Handles, Section, Reads, KvReads, StringReads, TensorReads, HeaderReads, Exceptions
    <2> QED BY <2>1, <2>2
  <1>3. CASE Open
    <2>1. TypeOK'
      BY <1>3 DEF Open, RaiseError, Goto, Rejected, Verdicts, RejectionCodes, Nowhere, header, tables, readerVars,
         Reads
    <2>2. Control'
      <3>1. pc = "open" /\ pos = 0 /\ raised = Quiet
        BY <1>3 DEF Open, Control, Reads, HeaderReads, KvReads, TensorReads, StringReads
      <3>2. pos' = 0 /\ len' = len /\ raised' = Quiet /\ cur' = cur
        BY <1>3, <3>1 DEF Open, readerVars
      <3>3. \/ pc' = "done" /\ verdict'.kind = "rejected"
            \/ pc' = "magic" /\ verdict' = verdict /\ len >= 4
        BY <1>3, FieldValues DEF Open, RaiseError, Goto, Rejected
      <3> QED
        BY <3>1, <3>2, <3>3
        DEF Control, InEntry, KvReads, TensorReads, StringReads, Quiet
    <2> QED BY <2>1, <2>2
  <1>4. CASE ReadMagic
    <2>1. TypeOK'
      BY <1>4 DEF ReadMagic, Reading, Advance, Width, RaiseError, Goto, Rejected, Verdicts, RejectionCodes, Nowhere,
         header, tables, Reads, HeaderReads, Grants, Quiet
    <2>2. Control'
      BY <1>4 DEF ReadMagic, Reading, Advance, Width, RaiseError, Goto, Rejected, Control,
         header, tables, InEntry, KvReads, TensorReads, StringReads, Quiet
    <2> QED BY <2>1, <2>2
  <1> QED BY <1>1, <1>2, <1>3, <1>4

LEMMA ReadingAdvances ==
    ASSUME TypeOK, NEW p, Reading(p)
    PROVE  /\ pc = p /\ raised = Quiet /\ raised' = Quiet
           /\ len' = len /\ pos' = pos + Width
           /\ pos' \in Nat /\ pos' <= len' /\ pos <= pos'
           /\ len' \in Sizes /\ raised' \in [exc : Exceptions \cup {"none"}, at : Nat]
  BY WidthIsNat, FieldValues DEF TypeOK, Reading, Advance, Grants, Quiet

LEMMA RaisingRejects ==
    ASSUME NEW c \in RejectionCodes, NEW at \in Int, NEW n \in Nat, RaiseError(c, at, n)
    PROVE  pc' = "done" /\ verdict' \in Verdicts /\ verdict'.kind = "rejected"
  BY DEF RaiseError, Rejected, Verdicts

\* Header reads keep the tables and the locals; only the counts are new.
LEMMA HeaderIsInductive == IInv /\ (ReadVersion \/ ReadNTensors \/ ReadNKv) => IInv'
  <1> SUFFICES ASSUME IInv, ReadVersion \/ ReadNTensors \/ ReadNKv PROVE IInv'
    OBVIOUS
  <1> USE DEF IInv
  <1>0. TypeOK /\ Control
    OBVIOUS
  <1>1. CASE ReadVersion
    <2>1. Reading("version") /\ pc' = "nTensors" /\ verdict' = verdict /\ version' \in Nat
      BY <1>1, FieldValues DEF ReadVersion, Goto
    <2>2. UNCHANGED <<nTensors, nKv, kv, kvMap, tensors, alignment, cur, findings>>
      BY <1>1 DEF ReadVersion, tables
    <2>3. TypeOK'
      BY <1>0, <2>1, <2>2, ReadingAdvances DEF TypeOK, Reads, HeaderReads
    <2>4. Control'
      BY <1>0, <2>1, <2>2, ReadingAdvances
      DEF Control, InEntry, KvReads, TensorReads, StringReads, Quiet
    <2> QED BY <2>3, <2>4
  <1>2. ASSUME NEW raw \in Counts, NEW m \in Nat, RejectCount(raw, m)
        PROVE  /\ pc' = "done" /\ verdict' \in Verdicts /\ verdict'.kind = "rejected"
               /\ findings' \in Seq(Findings)
    <2>1. raw \in Nat /\ pos \in Nat /\ findings \in Seq(Findings)
      BY <1>0, FieldValues DEF TypeOK
    <2>2. CASE RaiseError("E_NEGATIVE_COUNT", pos, raw) /\ UNCHANGED findings
      BY <2>1, <2>2, RaisingRejects DEF RejectionCodes
    <2>3. CASE /\ findings' = Append(findings, [code |-> "E_HUGE_ALLOC", at |-> pos])
               /\ RaiseError("E_HUGE_ALLOC", Nowhere, raw)
      <3>1. [code |-> "E_HUGE_ALLOC", at |-> pos] \in Findings
        BY <2>1 DEF Findings
      <3>2. findings' \in Seq(Findings)
        BY <2>1, <2>3, <3>1
      <3> QED BY <2>1, <2>3, <3>2, RaisingRejects DEF RejectionCodes, Nowhere
    <2> QED BY <1>2, <2>2, <2>3 DEF RejectCount
  <1>3. ASSUME NEW raw \in Counts, NEW m \in Nat, AcceptsCount(raw, m)
        PROVE  raw \in Nat /\ raw <= CountSanity
    BY <1>3, FieldValues DEF AcceptsCount, CountTooBig
  <1>4. CASE ReadNTensors
    <2>1. PICK raw \in Counts :
             \/ RejectCount(raw, 16) /\ UNCHANGED nTensors
             \/ AcceptsCount(raw, 16) /\ nTensors' = raw /\ Goto("nKv") /\ UNCHANGED findings
      BY <1>4 DEF ReadNTensors
    <2>2. Reading("nTensors") /\ UNCHANGED <<version, nKv, kv, kvMap, tensors, alignment, cur>>
      BY <1>4 DEF ReadNTensors, tables
    <2>3. /\ nTensors' \in Nat /\ nTensors' <= CountSanity /\ findings' \in Seq(Findings)
          /\ \/ pc' = "done" /\ verdict' \in Verdicts /\ verdict'.kind = "rejected"
             \/ pc' = "nKv" /\ verdict' = verdict
      BY <1>0, <1>2, <1>3, <2>1 DEF Goto, TypeOK
    <2>4. TypeOK'
      BY <1>0, <2>2, <2>3, ReadingAdvances DEF TypeOK, Reads, HeaderReads
    <2>5. Control'
      BY <1>0, <2>2, <2>3, ReadingAdvances
      DEF Control, InEntry, KvReads, TensorReads, StringReads, Quiet
    <2> QED BY <2>4, <2>5
  <1>5. CASE ReadNKv
    <2>1. PICK raw \in Counts :
             \/ RejectCount(raw, 13) /\ UNCHANGED nKv
             \/ /\ AcceptsCount(raw, 13)
                /\ nKv' = raw
                /\ IF SupportedVersion(version) THEN Goto("kv")
                   ELSE RaiseError("E_VERSION", 4, version)
                /\ UNCHANGED findings
      BY <1>5 DEF ReadNKv
    <2>2. Reading("nKv") /\ UNCHANGED <<version, nTensors, kv, kvMap, tensors, alignment, cur>>
      BY <1>5 DEF ReadNKv, tables
    <2>3. /\ nKv' \in Nat /\ nKv' <= CountSanity /\ findings' \in Seq(Findings)
          /\ \/ pc' = "done" /\ verdict' \in Verdicts /\ verdict'.kind = "rejected"
             \/ pc' = "kv" /\ verdict' = verdict
      <3>1. CASE RejectCount(raw, 13) /\ UNCHANGED nKv
        BY <1>0, <1>2, <3>1 DEF TypeOK
      <3>2. CASE /\ AcceptsCount(raw, 13) /\ nKv' = raw /\ UNCHANGED findings
                 /\ Goto("kv") \/ RaiseError("E_VERSION", 4, version)
        <4>1. nKv' \in Nat /\ nKv' <= CountSanity /\ findings' \in Seq(Findings)
          BY <1>0, <1>3, <3>2 DEF TypeOK
        <4>2. CASE Goto("kv")
          BY <4>1, <4>2 DEF Goto
        <4>3. CASE RaiseError("E_VERSION", 4, version)
          BY <1>0, <4>1, <4>3, RaisingRejects DEF TypeOK, RejectionCodes
        <4> QED BY <3>2, <4>2, <4>3
      <3> QED BY <2>1, <3>1, <3>2
    <2>4. TypeOK'
      BY <1>0, <2>2, <2>3, ReadingAdvances DEF TypeOK, Steps
    <2>5. Control'
      BY <1>0, <2>2, <2>3, ReadingAdvances
      DEF Control, InEntry, KvReads, TensorReads, StringReads, Quiet
    <2> QED BY <2>4, <2>5
  <1> QED BY <1>1, <1>4, <1>5

LEMMA PutKvIsTyped ==
    ASSUME TypeOK, cur.text \in Texts, NEW v \in Values, PutKv(v)
    PROVE  /\ kv' \in Seq(KvEntry) /\ kvMap' \in [Texts -> 0..Len(kv')]
           /\ pc' = "kv" /\ verdict' = verdict /\ tensors' = tensors /\ cur' = cur
  <1> DEFINE e == [key |-> cur.text, type |-> cur.type, value |-> v,
                   entryAt |-> cur.entryAt, valueAt |-> cur.valueAt]
  <1>1. e \in KvEntry
    BY DEF TypeOK, Locals, KvEntry
  <1>2. kv' = Append(kv, e)
    BY DEF PutKv
  <1>3. kv' \in Seq(KvEntry) /\ Len(kv') = Len(kv) + 1 /\ Len(kv) \in Nat
    BY <1>1, <1>2 DEF TypeOK
  <1>4. kvMap' \in [Texts -> 0..Len(kv')]
    <2>1. kvMap' = IF kvMap[cur.text] = 0 THEN [kvMap EXCEPT ![cur.text] = Len(kv')] ELSE kvMap
      BY DEF PutKv, IndexFirst
    <2>2. kvMap \in [Texts -> 0..Len(kv')]
      BY <1>3 DEF TypeOK
    <2> QED BY <1>3, <2>1, <2>2
  <1> QED BY <1>3, <1>4 DEF PutKv, Goto

LEMMA IndexedIsEntry ==
    ASSUME TypeOK, NEW t \in Texts, kvMap[t] # 0
    PROVE  kvMap[t] \in 1..Len(kv) /\ kv[kvMap[t]] \in KvEntry
  BY DEF TypeOK

LEMMA PutItemIsTyped ==
    ASSUME TypeOK, NEW t \in Texts \cup {NoText}, PutItem(t)
    PROVE  /\ cur' \in Locals /\ cur'.text = cur.text /\ cur'.goal = cur.goal
           /\ pc' = "items" /\ verdict' = verdict
           /\ UNCHANGED <<kv, kvMap, tensors>>
  <1>1. cur.items \in ItemTexts /\ cur \in Locals
    BY DEF TypeOK, Locals
  <1>2. Append(cur.items, t) \in ItemTexts
    BY <1>1 DEF ItemTexts
  <1> QED BY <1>1, <1>2 DEF PutItem, Locals, Goto, tables

LEMMA StringIsInductive == IInv /\ ReadString => IInv'
  <1> SUFFICES ASSUME IInv, ReadString PROVE IInv'
    OBVIOUS
  <1>0. TypeOK /\ Control
    BY DEF IInv
  <1>1. CASE ReadStringLength
    <2>1. PICK n \in Lengths :
             \/ n >= SignBit /\ RaiseError("E_NEGATIVE_COUNT", pos, n) /\ UNCHANGED cur
             \/ n < SignBit /\ cur' = [cur EXCEPT !.slen = n] /\ Goto("strText")
      BY <1>1 DEF ReadStringLength
    <2>2. /\ Reading("strLen")
          /\ UNCHANGED <<version, nTensors, nKv, kv, kvMap, tensors, alignment, findings>>
      BY <1>1 DEF ReadStringLength, header, tables
    <2>3. /\ cur' \in Locals /\ cur'.goal = cur.goal /\ cur'.text = cur.text
          /\ \/ pc' = "done" /\ verdict' \in Verdicts /\ verdict'.kind = "rejected"
             \/ pc' = "strText" /\ verdict' = verdict
      <3>1. n \in Nat /\ pos \in Int /\ cur \in Locals
        BY <1>0, FieldValues DEF TypeOK
      <3>2. CASE RaiseError("E_NEGATIVE_COUNT", pos, n) /\ UNCHANGED cur
        BY <3>1, <3>2, RaisingRejects DEF RejectionCodes
      <3>3. CASE cur' = [cur EXCEPT !.slen = n] /\ Goto("strText")
        BY <3>1, <3>3 DEF Goto, Locals
      <3> QED BY <2>1, <3>2, <3>3
    <2>4. TypeOK'
      BY <1>0, <2>2, <2>3, ReadingAdvances DEF TypeOK, Reads, StringReads
    <2>5. Control'
      BY <1>0, <2>2, <2>3, ReadingAdvances
      DEF Control, InEntry, KvReads, TensorReads, StringReads, Quiet
    <2> QED BY <2>4, <2>5 DEF IInv
  <1>2. CASE ReadText
    <2>1. PICK t \in Decodings(cur.slen) :
             \/ /\ cur.goal \in {"key", "name"}
                /\ cur' = [cur EXCEPT !.text = t]
                /\ Goto(IF cur.goal = "key" THEN "kvType" ELSE "nDims")
                /\ UNCHANGED tables
             \/ cur.goal = "value" /\ PutKv(StringValue(t))
             \/ cur.goal = "item" /\ PutItem(t)
      BY <1>2 DEF ReadText
    <2>2. /\ Reading("strText")
          /\ UNCHANGED <<version, nTensors, nKv, alignment, findings>>
      BY <1>2 DEF ReadText, header
    <2>3. t \in Texts
      BY <2>1 DEF Decodings
    <2>4. CASE /\ cur.goal \in {"key", "name"}
               /\ cur' = [cur EXCEPT !.text = t]
               /\ Goto(IF cur.goal = "key" THEN "kvType" ELSE "nDims")
               /\ UNCHANGED tables
      <3>1. /\ cur' \in Locals /\ cur'.text \in Texts
            /\ pc' \in {"kvType", "nDims"} /\ verdict' = verdict
            /\ UNCHANGED <<kv, kvMap, tensors>>
        BY <1>0, <2>3, <2>4 DEF TypeOK, Locals, Goto, tables
      <3>2. TypeOK'
        BY <1>0, <2>2, <3>1, ReadingAdvances DEF TypeOK, Reads, KvReads, TensorReads
      <3>3. Control'
        BY <1>0, <2>2, <3>1, ReadingAdvances DEF Control, StringReads, Quiet
      <3> QED BY <3>2, <3>3 DEF IInv
    <2>5. CASE cur.goal = "value" /\ PutKv(StringValue(t))
      <3>1. StringValue(t) \in Values
        BY <2>3 DEF StringValue, Values
      <3>2. cur.text \in Texts
        BY <1>0, <2>5 DEF Control
      <3>3. TypeOK'
        BY <1>0, <2>2, <2>5, <3>1, <3>2, ReadingAdvances, PutKvIsTyped DEF TypeOK, Steps
      <3>4. Control'
        BY <1>0, <2>2, <2>5, <3>1, <3>2, ReadingAdvances, PutKvIsTyped
        DEF Control, StringReads, Quiet
      <3> QED BY <3>3, <3>4 DEF IInv
    <2>6. CASE cur.goal = "item" /\ PutItem(t)
      <3>1. TypeOK'
        BY <1>0, <2>2, <2>3, <2>6, ReadingAdvances, PutItemIsTyped DEF TypeOK, Steps
      <3>2. Control'
        BY <1>0, <2>2, <2>3, <2>6, ReadingAdvances, PutItemIsTyped DEF Control, StringReads, Quiet
      <3> QED BY <3>1, <3>2 DEF IInv
    <2> QED BY <2>1, <2>4, <2>5, <2>6
  <1>3. CASE ReadBadText
    <2>0. cur.slen \in Nat /\ pos \in Nat /\ len \in Nat /\ len \in Sizes
      BY <1>0, FieldValues DEF TypeOK, Locals
    <2>1. /\ pc = "strText" /\ raised = Quiet /\ len' = len
          /\ pos' \in Nat /\ pos' <= len
          /\ raised' = [exc |-> "BadString", at |-> pos]
          /\ UNCHANGED <<pc, version, nTensors, nKv, kv, kvMap, tensors, alignment, cur,
                         findings, verdict>>
      <3>1. pos' = pos + cur.slen /\ pos + cur.slen <= len
        BY <1>3 DEF ReadBadText, AdvanceOverBadText, Grants
      <3>2. pos' - cur.slen = pos
        BY <2>0, <3>1
      <3> QED
        BY <1>3, <2>0, <3>1, <3>2 DEF ReadBadText, AdvanceOverBadText, Raising, header, tables
    <2>2. TypeOK'
      BY <1>0, <2>0, <2>1 DEF TypeOK, Exceptions
    <2>3. Control'
      BY <1>0, <2>1 DEF Control, InEntry, StringReads, KvReads, TensorReads, Reads, Quiet
    <2> QED BY <2>2, <2>3 DEF IInv
  <1> QED BY <1>1, <1>2, <1>3 DEF ReadString

LEMMA UsableIsPositive ==
    ASSUME TypeOK, NEW t \in Texts, kvMap[t] # 0, UsableAlignment(kv[kvMap[t]].value)
    PROVE  kv[kvMap[t]].value.n \in Nat \ {0}
  <1>1. kv[kvMap[t]].value \in Values
    BY IndexedIsEntry DEF KvEntry
  <1>2. kv[kvMap[t]].value.n \in Int
    BY <1>1 DEF Values
  <1> QED BY <1>2 DEF UsableAlignment, PowerOfTwo

LEMMA KvIsInductive == IInv /\ (ReadKv \/ ResolveAlignment) => IInv'
  <1> SUFFICES ASSUME IInv, ReadKv \/ ResolveAlignment PROVE IInv'
    OBVIOUS
  <1>0. TypeOK /\ Control /\ cur \in Locals
    BY DEF IInv, TypeOK
  <1>1. CASE BeginKv
    <2>1. /\ pc = "kv" /\ pc' = "strLen" /\ verdict' = verdict
          /\ cur' \in Locals /\ cur'.goal = "key"
          /\ UNCHANGED <<len, pos, raised, version, nTensors, nKv, kv, kvMap, tensors,
                         alignment, findings>>
      <3>1. pos \in Nat
        BY <1>0 DEF TypeOK
      <3>2. cur' = [Fresh(pos) EXCEPT !.goal = "key"] /\ Fresh(pos) \in Locals
        BY <1>1, <3>1, FreshIsLocals DEF BeginKv
      <3>3. cur' \in Locals /\ cur'.goal = "key"
        BY <3>2 DEF Locals
      <3> QED BY <1>1, <3>3 DEF BeginKv, Goto, readerVars, header, tables
    <2>2. TypeOK'
      BY <1>0, <2>1 DEF TypeOK, Reads, StringReads
    <2>3. Control'
      BY <1>0, <2>1 DEF Control, InEntry, Reads, HeaderReads, KvReads, TensorReads, StringReads, Quiet, NoText
    <2> QED BY <2>2, <2>3 DEF IInv
  <1>2. CASE ReadKvType
    <2>1. PICK t \in KvTypes :
             \/ /\ t \notin ValueTypes
                /\ RaiseError("E_BAD_KV_TYPE", pos, t)
                /\ UNCHANGED cur
             \/ /\ t \in ValueTypes
                /\ cur' = [cur EXCEPT !.type = t, !.valueAt = pos', !.goal = "value"]
                /\ Goto(IF t = Str THEN "strLen" ELSE IF t = Array THEN "elemType" ELSE "scalar")
      BY <1>2 DEF ReadKvType
    <2>2. /\ Reading("kvType")
          /\ UNCHANGED <<version, nTensors, nKv, kv, kvMap, tensors, alignment, findings>>
      BY <1>2 DEF ReadKvType, header, tables
    <2>3. t \in Nat /\ pos \in Int /\ pos' \in Nat /\ pc = "kvType" /\ cur.text \in Texts
      BY <1>0, <2>2, FieldValues, ReadingAdvances DEF TypeOK, Control, InEntry, KvReads
    <2>4. /\ cur' \in Locals /\ cur'.text = cur.text
          /\ \/ pc' = "done" /\ verdict' \in Verdicts /\ verdict'.kind = "rejected"
             \/ pc' \in {"strLen", "elemType", "scalar"} /\ verdict' = verdict /\ cur'.goal = "value"
      <3>1. CASE RaiseError("E_BAD_KV_TYPE", pos, t) /\ UNCHANGED cur
        BY <1>0, <2>3, <3>1, RaisingRejects DEF RejectionCodes
      <3>2. CASE /\ cur' = [cur EXCEPT !.type = t, !.valueAt = pos', !.goal = "value"]
                 /\ Goto(IF t = Str THEN "strLen" ELSE IF t = Array THEN "elemType" ELSE "scalar")
        BY <1>0, <2>3, <3>2 DEF Goto, Locals
      <3> QED BY <2>1, <3>1, <3>2
    <2>5. TypeOK'
      BY <1>0, <2>2, <2>4, ReadingAdvances DEF TypeOK, Reads, StringReads, KvReads
    <2>6. Control'
      BY <1>0, <2>2, <2>3, <2>4, ReadingAdvances DEF Control, InEntry, Reads, HeaderReads, KvReads, TensorReads, StringReads, Quiet, NoText
    <2> QED BY <2>5, <2>6 DEF IInv
  <1>3. CASE ReadScalar
    <2>1. PICK v \in ScalarValues(cur.type) : PutKv(v)
      BY <1>3 DEF ReadScalar
    <2>2. Reading("scalar") /\ UNCHANGED <<version, nTensors, nKv, alignment, findings>>
      BY <1>3 DEF ReadScalar, header
    <2>3. v \in Values
      BY <2>1, FieldValues DEF ScalarValues, IntValue, OtherValue, Values
    <2>4. cur.text \in Texts /\ pc = "scalar"
      BY <1>0, <2>2, ReadingAdvances DEF Control, InEntry, KvReads
    <2>5. TypeOK'
      BY <1>0, <2>1, <2>2, <2>3, <2>4, ReadingAdvances, PutKvIsTyped DEF TypeOK, Steps
    <2>6. Control'
      BY <1>0, <2>1, <2>2, <2>3, <2>4, ReadingAdvances, PutKvIsTyped DEF Control, InEntry, Reads, HeaderReads, KvReads, TensorReads, StringReads, Quiet
    <2> QED BY <2>5, <2>6 DEF IInv
  <1>4. CASE ReadElemType
    <2>1. PICK t \in KvTypes : cur' = [cur EXCEPT !.elem = t]
      BY <1>4 DEF ReadElemType
    <2>2. /\ Reading("elemType") /\ pc' = "arrayCount" /\ verdict' = verdict
          /\ UNCHANGED <<version, nTensors, nKv, kv, kvMap, tensors, alignment, findings>>
      BY <1>4 DEF ReadElemType, Goto, header, tables
    <2>3. cur' \in Locals /\ cur'.text = cur.text /\ cur'.goal = cur.goal
      BY <1>0, <2>1, FieldValues DEF Locals
    <2>4. TypeOK'
      BY <1>0, <2>2, <2>3, ReadingAdvances DEF TypeOK, Reads, KvReads
    <2>5. Control'
      BY <1>0, <2>2, <2>3, ReadingAdvances DEF Control, InEntry, Reads, HeaderReads, KvReads, TensorReads, StringReads, Quiet
    <2> QED BY <2>4, <2>5 DEF IInv
  <1>5. CASE ReadArrayCount
    <2>1. /\ Reading("arrayCount") /\ pos' \in Nat
          /\ UNCHANGED <<version, nTensors, nKv, kv, kvMap, tensors, alignment, findings>>
      BY <1>0, <1>5, ReadingAdvances DEF ReadArrayCount, header, tables
    <2>2. /\ cur' \in Locals /\ cur'.text = cur.text /\ cur'.goal = cur.goal
          /\ \/ pc' = "done" /\ verdict' \in Verdicts /\ verdict'.kind = "rejected"
             \/ pc' = "items" /\ verdict' = verdict
      <3>1. PICK n \in ArrayCounts :
               \/ RaiseError("E_BAD_KV_TYPE", pos' - 12, cur.elem) /\ UNCHANGED cur
               \/ RaiseError("E_NEGATIVE_COUNT", pos, n) /\ UNCHANGED cur
               \/ RaiseError("E_HUGE_ALLOC", pos, n) /\ UNCHANGED cur
               \/ RaiseError("E_TRUNCATED_KV_VALUE", cur.valueAt, n) /\ UNCHANGED cur
               \/ cur' = [cur EXCEPT !.count = n] /\ Goto("items")
        BY <1>5 DEF ReadArrayCount
      <3>2. /\ n \in Nat /\ pos' - 12 \in Int /\ pos \in Int
            /\ cur.elem \in Nat /\ cur.valueAt \in Int
        BY <1>0, <2>1, FieldValues DEF TypeOK, Locals
      <3>3. CASE cur' = [cur EXCEPT !.count = n] /\ Goto("items")
        BY <1>0, <3>2, <3>3 DEF Goto, Locals
      <3>4. CASE UNCHANGED cur
                 /\ \E c \in RejectionCodes, at \in Int, m \in Nat : RaiseError(c, at, m)
        BY <1>0, <3>4, RaisingRejects
      <3> QED BY <3>1, <3>2, <3>3, <3>4 DEF RejectionCodes
    <2>3. TypeOK'
      BY <1>0, <2>1, <2>2, ReadingAdvances DEF TypeOK, Steps
    <2>4. Control'
      BY <1>0, <2>1, <2>2, ReadingAdvances DEF Control, InEntry, Reads, HeaderReads, KvReads, TensorReads, StringReads, Quiet
    <2> QED BY <2>3, <2>4 DEF IInv
  <1>6. CASE NextItem
    <2>1. /\ pc = "items" /\ raised = Quiet /\ cur.text \in Texts
          /\ UNCHANGED <<len, pos, raised, version, nTensors, nKv, alignment, findings>>
      BY <1>0, <1>6 DEF NextItem, readerVars, header, Control, InEntry,
         Reads, HeaderReads, KvReads, TensorReads, StringReads
    <2>2. CASE ExpectString("item") /\ UNCHANGED tables
      <3>1. /\ cur' \in Locals /\ cur'.text = cur.text /\ cur'.goal = "item"
            /\ pc' = "strLen" /\ verdict' = verdict /\ UNCHANGED <<kv, kvMap, tensors>>
        BY <1>0, <2>2 DEF ExpectString, Goto, Locals, tables
      <3>2. TypeOK'
        BY <1>0, <2>1, <3>1 DEF TypeOK, Reads, StringReads
      <3>3. Control'
        BY <1>0, <2>1, <3>1 DEF Control, InEntry, Reads, HeaderReads, KvReads, TensorReads, StringReads, Quiet, NoText
      <3> QED BY <3>2, <3>3 DEF IInv
    <2>3. CASE Goto("elem") /\ UNCHANGED <<tables, cur>>
      <3>1. pc' = "elem" /\ verdict' = verdict /\ UNCHANGED <<kv, kvMap, tensors, cur>>
        BY <2>3 DEF Goto, tables
      <3>2. TypeOK'
        BY <1>0, <2>1, <3>1 DEF TypeOK, Reads, KvReads
      <3>3. Control'
        BY <1>0, <2>1, <3>1 DEF Control, InEntry, Reads, HeaderReads, KvReads, TensorReads, StringReads, Quiet
      <3> QED BY <3>2, <3>3 DEF IInv
    <2>4. CASE PutKv(ArrayValue)
      <3>1. ArrayValue \in Values
        BY <1>0 DEF ArrayValue, Values, Locals
      <3>2. TypeOK'
        BY <1>0, <2>1, <2>4, <3>1, PutKvIsTyped DEF TypeOK, Steps
      <3>3. Control'
        BY <1>0, <2>1, <2>4, <3>1, PutKvIsTyped DEF Control, InEntry, Reads, HeaderReads, KvReads, TensorReads, StringReads, Quiet
      <3> QED BY <3>2, <3>3 DEF IInv
    <2> QED BY <1>6, <2>2, <2>3, <2>4 DEF NextItem
  <1>7. CASE ReadItem
    <2>1. /\ Reading("elem") /\ PutItem(NoText)
          /\ UNCHANGED <<version, nTensors, nKv, alignment, findings>>
      BY <1>7 DEF ReadItem, header
    <2>2. pc = "elem"
      BY <1>0, <2>1, ReadingAdvances
    <2>3. TypeOK'
      BY <1>0, <2>1, ReadingAdvances, PutItemIsTyped DEF TypeOK, Steps
    <2>4. Control'
      BY <1>0, <2>1, <2>2, ReadingAdvances, PutItemIsTyped DEF Control, InEntry, Reads, HeaderReads, KvReads, TensorReads, StringReads, Quiet
    <2> QED BY <2>3, <2>4 DEF IInv
  <1>8. CASE ResolveAlignment
    <2>1. /\ pc = "kv" /\ pc' = "tensor" /\ verdict' = verdict
          /\ UNCHANGED <<len, pos, raised, version, nTensors, nKv, kv, kvMap, tensors, cur>>
      BY <1>8 DEF ResolveAlignment, Goto, readerVars, header, tables
    <2>2. alignment' \in Nat \ {0} /\ findings' \in Seq(Findings)
      <3> DEFINE i == kvMap[AlignKey]
      <3>0. findings \in Seq(Findings)
        BY <1>0 DEF TypeOK
      <3>1. CASE alignment' = DefaultAlignment /\ UNCHANGED findings
        BY <3>0, <3>1, FieldValues
      <3>2. CASE /\ i # 0 /\ UsableAlignment(kv[i].value)
                 /\ alignment' = kv[i].value.n /\ UNCHANGED findings
        BY <1>0, <3>0, <3>2, FieldValues, UsableIsPositive
      <3>3. CASE /\ alignment' = DefaultAlignment
                 /\ findings' = Append(findings, [code |-> "W_NO_ALIGNMENT", at |-> kv[i].valueAt])
                 /\ i # 0
        <4>1. [code |-> "W_NO_ALIGNMENT", at |-> kv[i].valueAt] \in Findings
          BY <1>0, <3>3, FieldValues, IndexedIsEntry DEF Findings, KvEntry
        <4> QED BY <3>0, <3>3, <4>1, FieldValues
      <3> QED BY <1>8, <3>1, <3>2, <3>3 DEF ResolveAlignment
    <2>3. TypeOK'
      BY <1>0, <2>1, <2>2 DEF TypeOK, Steps
    <2>4. Control'
      BY <1>0, <2>1 DEF Control, InEntry, Reads, HeaderReads, KvReads, TensorReads, StringReads, Quiet
    <2> QED BY <2>3, <2>4 DEF IInv
  <1> QED BY <1>1, <1>2, <1>3, <1>4, <1>5, <1>6, <1>7, <1>8 DEF ReadKv

LEMMA TensorIsInductive == IInv /\ (ReadTensor \/ Finish) => IInv'
  <1> SUFFICES ASSUME IInv, ReadTensor \/ Finish PROVE IInv'
    OBVIOUS
  <1>0. TypeOK /\ Control /\ cur \in Locals
    BY DEF IInv, TypeOK
  <1>1. CASE BeginTensor
    <2>1. /\ pc = "tensor" /\ pc' = "strLen" /\ verdict' = verdict
          /\ cur' \in Locals /\ cur'.goal = "name"
          /\ UNCHANGED <<len, pos, raised, version, nTensors, nKv, kv, kvMap, tensors,
                         alignment, findings>>
      <3>1. pos \in Nat
        BY <1>0 DEF TypeOK
      <3>2. cur' = [Fresh(pos) EXCEPT !.goal = "name"] /\ Fresh(pos) \in Locals
        BY <1>1, <3>1, FreshIsLocals DEF BeginTensor
      <3>3. cur' \in Locals /\ cur'.goal = "name"
        BY <3>2 DEF Locals
      <3> QED BY <1>1, <3>3 DEF BeginTensor, Goto, readerVars, header, tables
    <2>2. TypeOK'
      BY <1>0, <2>1 DEF TypeOK, Reads, StringReads
    <2>3. Control'
      BY <1>0, <2>1 DEF Control, InEntry, Reads, HeaderReads, KvReads, TensorReads, StringReads, Quiet, NoText
    <2> QED BY <2>2, <2>3 DEF IInv
  <1>2. CASE ReadNDims
    <2>1. PICK n \in DimCounts :
             \/ RaiseError("E_TOO_MANY_DIMS", cur.entryAt, n) /\ UNCHANGED cur
             \/ cur' = [cur EXCEPT !.nDims = n, !.dimsAt = pos'] /\ Goto("dim")
      BY <1>2 DEF ReadNDims
    <2>2. /\ Reading("nDims") /\ pos' \in Nat
          /\ UNCHANGED <<version, nTensors, nKv, kv, kvMap, tensors, alignment, findings>>
      BY <1>0, <1>2, ReadingAdvances DEF ReadNDims, header, tables
    <2>3. n \in Nat /\ cur.entryAt \in Int
      BY <1>0, FieldValues DEF Locals
    <2>4. /\ cur' \in Locals /\ cur'.text = cur.text /\ cur'.goal = cur.goal
          /\ \/ pc' = "done" /\ verdict' \in Verdicts /\ verdict'.kind = "rejected"
             \/ pc' = "dim" /\ verdict' = verdict
      <3>1. CASE RaiseError("E_TOO_MANY_DIMS", cur.entryAt, n) /\ UNCHANGED cur
        BY <1>0, <2>3, <3>1, RaisingRejects DEF RejectionCodes
      <3>2. CASE cur' = [cur EXCEPT !.nDims = n, !.dimsAt = pos'] /\ Goto("dim")
        BY <1>0, <2>2, <2>3, <3>2 DEF Goto, Locals
      <3> QED BY <2>1, <3>1, <3>2
    <2>5. TypeOK'
      BY <1>0, <2>2, <2>4, ReadingAdvances DEF TypeOK, Reads, TensorReads
    <2>6. Control'
      BY <1>0, <2>2, <2>4, ReadingAdvances DEF Control, InEntry, Reads, HeaderReads, KvReads, TensorReads, StringReads, Quiet
    <2> QED BY <2>5, <2>6 DEF IInv
  <1>3. CASE ReadDim
    <2>1. PICK d \in Dims :
             /\ cur' = [cur EXCEPT !.dims = Append(cur.dims, d), !.typeAt = pos']
             /\ \/ Goto("dim")
                \/ RaiseError("E_NEGATIVE_DIM", cur.dimsAt, 0)
                \/ Goto("tensorType")
      BY <1>3 DEF ReadDim
    <2>2. /\ Reading("dim") /\ pos' \in Nat
          /\ UNCHANGED <<version, nTensors, nKv, kv, kvMap, tensors, alignment, findings>>
      BY <1>0, <1>3, ReadingAdvances DEF ReadDim, header, tables
    <2>3. cur' \in Locals /\ cur'.text = cur.text /\ cur'.goal = cur.goal
      <3>1. Append(cur.dims, d) \in Seq(Nat)
        BY <1>0, FieldValues DEF Locals
      <3> QED BY <1>0, <2>1, <2>2, <3>1 DEF Locals
    <2>4. \/ pc' = "done" /\ verdict' \in Verdicts /\ verdict'.kind = "rejected"
          \/ pc' \in {"dim", "tensorType"} /\ verdict' = verdict
      <3>1. cur.dimsAt \in Int /\ 0 \in Nat
        BY <1>0 DEF Locals
      <3>2. CASE RaiseError("E_NEGATIVE_DIM", cur.dimsAt, 0)
        BY <3>1, <3>2, RaisingRejects DEF RejectionCodes
      <3> QED BY <2>1, <3>2 DEF Goto
    <2>5. TypeOK'
      BY <1>0, <2>2, <2>3, <2>4, ReadingAdvances DEF TypeOK, Reads, TensorReads
    <2>6. Control'
      BY <1>0, <2>2, <2>3, <2>4, ReadingAdvances DEF Control, InEntry, Reads, HeaderReads, KvReads, TensorReads, StringReads, Quiet
    <2> QED BY <2>5, <2>6 DEF IInv
  <1>4. CASE ReadTensorType
    <2>1. PICK t \in TensorTypes : cur' = [cur EXCEPT !.type = t]
      BY <1>4 DEF ReadTensorType
    <2>2. /\ Reading("tensorType") /\ pc' = "tensorOffset" /\ verdict' = verdict
          /\ UNCHANGED <<version, nTensors, nKv, kv, kvMap, tensors, alignment, findings>>
      BY <1>4 DEF ReadTensorType, Goto, header, tables
    <2>3. cur' \in Locals /\ cur'.text = cur.text /\ cur'.goal = cur.goal
      BY <1>0, <2>1, FieldValues DEF Locals
    <2>4. TypeOK'
      BY <1>0, <2>2, <2>3, ReadingAdvances DEF TypeOK, Reads, TensorReads
    <2>5. Control'
      BY <1>0, <2>2, <2>3, ReadingAdvances DEF Control, InEntry, Reads, HeaderReads, KvReads, TensorReads, StringReads, Quiet
    <2> QED BY <2>4, <2>5 DEF IInv
  <1>5. CASE ReadTensorOffset
    <2>1. /\ Reading("tensorOffset") /\ pc = "tensorOffset"
          /\ UNCHANGED <<version, nTensors, nKv, kv, kvMap, alignment, cur, findings>>
      BY <1>0, <1>5, ReadingAdvances DEF ReadTensorOffset, header
    <2>2. cur.text \in Texts /\ pos \in Nat
      BY <1>0, <2>1 DEF Control, InEntry, TensorReads, TypeOK
    <2>3. PICK o \in TensorOffsets :
             \/ RaiseError("E_NEGATIVE_COUNT", pos, o) /\ UNCHANGED tensors
             \/ /\ tensors' = Append(tensors,
                      [name |-> cur.text, dims |-> cur.dims, type |-> cur.type, offset |-> o,
                       entryAt |-> cur.entryAt, dimsAt |-> cur.dimsAt,
                       typeAt |-> cur.typeAt, offsetAt |-> pos])
                /\ Goto("tensor")
      BY <1>5 DEF ReadTensorOffset
    <2>4. o \in Nat
      BY FieldValues
    <2>5. /\ tensors' \in Seq(TensorInfo)
          /\ \/ pc' = "done" /\ verdict' \in Verdicts /\ verdict'.kind = "rejected"
             \/ pc' = "tensor" /\ verdict' = verdict
      <3> DEFINE t == [name |-> cur.text, dims |-> cur.dims, type |-> cur.type, offset |-> o,
                       entryAt |-> cur.entryAt, dimsAt |-> cur.dimsAt,
                       typeAt |-> cur.typeAt, offsetAt |-> pos]
      <3>1. tensors \in Seq(TensorInfo)
        BY <1>0 DEF TypeOK
      <3>2. t \in TensorInfo
        BY <1>0, <2>2, <2>4 DEF TensorInfo, Locals
      <3>3. CASE RaiseError("E_NEGATIVE_COUNT", pos, o) /\ UNCHANGED tensors
        BY <2>2, <2>4, <3>1, <3>3, RaisingRejects DEF RejectionCodes
      <3>4. CASE tensors' = Append(tensors, t) /\ Goto("tensor")
        BY <3>1, <3>2, <3>4 DEF Goto
      <3> QED BY <2>3, <3>3, <3>4
    <2>6. TypeOK'
      BY <1>0, <2>1, <2>5, ReadingAdvances DEF TypeOK, Steps
    <2>7. Control'
      BY <1>0, <2>1, <2>5, ReadingAdvances DEF Control, InEntry, Reads, HeaderReads, KvReads, TensorReads, StringReads, Quiet
    <2> QED BY <2>6, <2>7 DEF IInv
  <1>6. CASE Finish
    <2>1. /\ pc' = "done" /\ verdict' = Parsed
          /\ UNCHANGED <<len, pos, raised, version, nTensors, nKv, kv, kvMap, tensors,
                         alignment, cur, findings>>
      BY <1>6 DEF Finish, readerVars, header, tables
    <2>2. Parsed \in Verdicts /\ Parsed.kind = "parsed"
      BY DEF Parsed, Pending, Verdicts, Nowhere
    <2>3. TypeOK'
      BY <1>0, <2>1, <2>2 DEF TypeOK
    <2>4. Control'
      BY <1>0, <2>1, <2>2 DEF Control, InEntry, Reads, HeaderReads, KvReads, TensorReads, StringReads, Quiet
    <2> QED BY <2>3, <2>4 DEF IInv
  <1> QED BY <1>1, <1>2, <1>3, <1>4, <1>5, <1>6 DEF ReadTensor

\* Every read, handler and check of parse_gguf keeps the invariant.
THEOREM StepIsInductive == IInv /\ [Next]_vars => IInv'
  <1> SUFFICES ASSUME IInv, [Next]_vars PROVE IInv'
    OBVIOUS
  <1>1. CASE UNCHANGED vars
    BY <1>1 DEF IInv, TypeOK, Control, InEntry, vars
  <1>2. CASE Step
    BY <1>2, FailureIsInductive, HeaderIsInductive, StringIsInductive, KvIsInductive,
       TensorIsInductive
    DEF Step, ReadHeader
  <1> QED BY <1>1, <1>2 DEF Next, Done

(***************************************************************************)
(* The parser's state is well typed on every file: in particular the       *)
(* cursor stays in the buffer and kv_map only names entries that exist.    *)
(***************************************************************************)
THEOREM TypeCorrect == Spec => []TypeOK
  <1>1. Spec => []IInv
    BY InitIsInductive, StepIsInductive, PTL DEF Spec
  <1>2. IInv => TypeOK
    BY DEF IInv
  <1> QED BY <1>1, <1>2, PTL

(***************************************************************************)
(* No Eof, OverAlloc or BadString leaves parse_gguf: the one read outside  *)
(* the try blocks cannot fail, and the header, whose block has no clause   *)
(* for BadString, reads no text.                                           *)
(***************************************************************************)
THEOREM ReaderExceptionsAreCaught == Spec => []NoRawException
  <1>1. Spec => []IInv
    BY InitIsInductive, StepIsInductive, PTL DEF Spec
  <1>2. IInv => NoRawException
    BY DEF IInv, Control, NoRawException
  <1> QED BY <1>1, <1>2, PTL

-----------------------------------------------------------------------------
(***************************************************************************)
(* kv_map.  Only an append to kv moves it, and then at one key.            *)
(***************************************************************************)
LEMMA PairsArePut ==
    ASSUME IInv, [Next]_vars
    PROVE  \/ UNCHANGED <<kv, kvMap>>
           \/ cur.text \in Texts /\ \E v \in Values : PutKv(v)
  <1>0. Control
    BY DEF IInv
  <1>1. CASE UNCHANGED vars
    BY <1>1 DEF vars
  <1>2. CASE Open \/ ReadFails \/ Handle \/ ReadHeader
    BY <1>2 DEF Open, ReadFails, Handle, ReadHeader, ReadMagic, ReadVersion, ReadNTensors, ReadNKv, tables
  <1>3. CASE ReadStringLength \/ ReadBadText
    BY <1>3 DEF ReadStringLength, ReadBadText, tables
  <1>4. CASE ReadText
    <2>1. PICK t \in Decodings(cur.slen) :
             \/ UNCHANGED tables
             \/ cur.goal = "value" /\ PutKv(StringValue(t))
             \/ cur.goal = "item" /\ PutItem(t)
      BY <1>4 DEF ReadText
    <2>2. StringValue(t) \in Values
      BY <2>1 DEF Decodings, StringValue, Values
    <2> QED BY <1>0, <2>1, <2>2 DEF Control, PutItem, tables
  <1>5. CASE BeginKv \/ ReadKvType \/ ReadElemType \/ ReadArrayCount \/ ReadItem
    <2>1. CASE BeginKv
      BY <2>1 DEF BeginKv, tables
    <2>4. CASE ReadKvType
      BY <2>4 DEF ReadKvType, tables
    <2>2. CASE ReadElemType \/ ReadArrayCount
      BY <2>2 DEF ReadElemType, ReadArrayCount, tables
    <2>3. CASE ReadItem
      BY <2>3 DEF ReadItem, PutItem, tables
    <2> QED BY <1>5, <2>1, <2>2, <2>3, <2>4
  <1>6. CASE ReadScalar
    <2>1. PICK v \in ScalarValues(cur.type) : PutKv(v)
      BY <1>6 DEF ReadScalar
    <2>2. v \in Values
      BY FieldValues DEF ScalarValues, IntValue, OtherValue, Values
    <2>3. pc = "scalar"
      BY <1>6 DEF ReadScalar, Reading
    <2> QED BY <1>0, <2>1, <2>2, <2>3 DEF Control, InEntry, KvReads
  <1>7. CASE NextItem
    <2>1. UNCHANGED tables \/ PutKv(ArrayValue)
      BY <1>7 DEF NextItem
    <2>2. ArrayValue \in Values
      BY DEF IInv, TypeOK, Locals, ArrayValue, Values
    <2>3. pc = "items"
      BY <1>7 DEF NextItem
    <2> QED BY <1>0, <2>1, <2>2, <2>3 DEF Control, InEntry, tables
  <1>8. CASE ResolveAlignment \/ ReadTensor \/ Finish
    <2>1. CASE ResolveAlignment \/ Finish
      BY <2>1 DEF ResolveAlignment, Finish, tables
    <2>2. CASE BeginTensor
      BY <2>2 DEF BeginTensor, tables
    <2>4. CASE ReadNDims
      BY <2>4 DEF ReadNDims, tables
    <2>5. CASE ReadDim
      BY <2>5 DEF ReadDim, tables
    <2>3. CASE ReadTensorType \/ ReadTensorOffset
      BY <2>3 DEF ReadTensorType, ReadTensorOffset, tables
    <2> QED BY <1>8, <2>1, <2>2, <2>3, <2>4, <2>5 DEF ReadTensor
  <1> QED BY <1>1, <1>2, <1>3, <1>4, <1>5, <1>6, <1>7, <1>8
          DEF Next, Done, Step, ReadString, ReadKv

\* The map points at an entry of the key, and no entry of it comes earlier.
Indexed ==
    \A t \in Texts :
        /\ kvMap[t] # 0 => kv[kvMap[t]].key = t
        /\ \A j \in 1..Len(kv) : kv[j].key = t => kvMap[t] # 0 /\ kvMap[t] <= j

LEMMA PutKvIsIndexed ==
    ASSUME TypeOK, Indexed, cur.text \in Texts, NEW v \in Values, PutKv(v)
    PROVE  Indexed'
  <1> DEFINE e == [key |-> cur.text, type |-> cur.type, value |-> v,
                   entryAt |-> cur.entryAt, valueAt |-> cur.valueAt]
             n == Len(kv)
  <1>1. kv \in Seq(KvEntry) /\ n \in Nat /\ kvMap \in [Texts -> 0..n]
    BY DEF TypeOK
  <1>2. e \in KvEntry /\ e.key = cur.text
    BY DEF TypeOK, Locals, KvEntry
  <1>3. kv' = Append(kv, e)
    BY DEF PutKv
  <1>4. /\ Len(kv') = n + 1 /\ kv'[n + 1] = e
        /\ \A j \in 1..n : kv'[j] = kv[j]
    BY <1>1, <1>2, <1>3
  <1>5. kvMap' = IF kvMap[cur.text] = 0 THEN [kvMap EXCEPT ![cur.text] = n + 1] ELSE kvMap
    BY <1>4 DEF PutKv, IndexFirst
  <1> HIDE DEF e, n
  <1> SUFFICES ASSUME NEW t \in Texts
               PROVE  /\ kvMap'[t] # 0 => kv'[kvMap'[t]].key = t
                      /\ \A j \in 1..Len(kv') : kv'[j].key = t => kvMap'[t] # 0 /\ kvMap'[t] <= j
    BY DEF Indexed
  <1>6. /\ kvMap[t] \in 0..n
        /\ kvMap[t] # 0 => kv[kvMap[t]].key = t
        /\ \A j \in 1..n : kv[j].key = t => kvMap[t] # 0 /\ kvMap[t] <= j
    BY <1>1 DEF Indexed, n
  <1>7. CASE t = cur.text /\ kvMap[t] = 0
    <2>1. kvMap'[t] = n + 1
      BY <1>1, <1>5, <1>7
    <2>2. ASSUME NEW j \in 1..n PROVE kv'[j].key # t
      BY <1>4, <1>6, <1>7
    <2> QED BY <1>1, <1>2, <1>4, <1>7, <2>1, <2>2
  <1>8. CASE t # cur.text \/ kvMap[t] # 0
    <2>1. kvMap'[t] = kvMap[t]
      BY <1>1, <1>5, <1>8
    <2>2. kvMap[t] # 0 => kvMap[t] \in 1..n
      BY <1>1, <1>6
    <2>3. ASSUME NEW j \in 1 .. n + 1, kv'[j].key = t PROVE kvMap[t] # 0 /\ kvMap[t] <= j
      <3>1. CASE j \in 1..n
        BY <1>4, <1>6, <2>3, <3>1
      <3>2. CASE j = n + 1
        BY <1>1, <1>2, <1>4, <1>6, <1>8, <2>2, <2>3, <3>2
      <3> QED BY <1>1, <3>1, <3>2
    <2> QED BY <1>4, <1>6, <2>1, <2>2, <2>3
  <1> QED BY <1>7, <1>8

\* On every file, kv_map maps a key that was read to its first entry in kv,
\* at every point of the parse.
THEOREM MapIsInductive == Spec => [](IInv /\ Indexed)
  <1>1. Init => IInv /\ Indexed
    BY InitIsInductive DEF Init, Indexed
  <1>2. IInv /\ Indexed /\ [Next]_vars => (IInv /\ Indexed)'
    <2> SUFFICES ASSUME IInv, Indexed, [Next]_vars PROVE IInv' /\ Indexed'
      OBVIOUS
    <2>1. IInv' /\ TypeOK
      BY StepIsInductive DEF IInv
    <2>2. CASE UNCHANGED <<kv, kvMap>>
      BY <2>1, <2>2 DEF Indexed
    <2>3. CASE cur.text \in Texts /\ \E v \in Values : PutKv(v)
      BY <2>1, <2>3, PutKvIsIndexed
    <2> QED BY <2>1, <2>2, <2>3, PairsArePut
  <1> QED BY <1>1, <1>2, PTL DEF Spec

\* What the index answers is the first of the entries of a key.
LEMMA IndexIsFirst ==
    ASSUME TypeOK, Indexed, NEW t \in Texts
    PROVE  /\ kvMap[t] \in 0..Len(kv)
           /\ kvMap[t] # 0 <=> EntriesOf(t) # {}
           /\ kvMap[t] # 0 => FirstOf(t) = kvMap[t]
  <1>1. /\ DOMAIN kv = 1..Len(kv) /\ Len(kv) \in Nat
        /\ kvMap[t] \in 0..Len(kv)
    BY DEF TypeOK
  <1>2. \A j \in EntriesOf(t) : kvMap[t] # 0 /\ kvMap[t] <= j
    BY <1>1 DEF EntriesOf, Indexed
  <1>3. kvMap[t] # 0 => kvMap[t] \in EntriesOf(t)
    BY <1>1 DEF EntriesOf, Indexed
  <1>4. ASSUME kvMap[t] # 0 PROVE FirstOf(t) = kvMap[t]
    <2>1. kvMap[t] \in EntriesOf(t)
      BY <1>3, <1>4
    <2>2. FirstOf(t) \in EntriesOf(t) /\ \A j \in EntriesOf(t) : FirstOf(t) <= j
      BY <1>2, <2>1 DEF FirstOf
    <2>3. FirstOf(t) \in Nat /\ kvMap[t] \in Nat
      BY <1>1, <2>2 DEF EntriesOf
    <2> QED BY <1>2, <2>1, <2>2, <2>3
  <1> QED BY <1>1, <1>2, <1>3, <1>4

(***************************************************************************)
(* On every file, kv_map answers with the first entry of a key, however    *)
(* many later pairs repeat it.                                             *)
(***************************************************************************)
THEOREM FirstEntryWins == Spec => []FirstMatchWins
  <1>1. IInv /\ Indexed => FirstMatchWins
    BY IndexIsFirst DEF IInv, FirstMatchWins
  <1> QED BY <1>1, MapIsInductive, PTL

-----------------------------------------------------------------------------
(***************************************************************************)
(* Dimensions.  No step but the last read of a tensor info extends the     *)
(* table, and by then its dims have been counted and screened.             *)
(***************************************************************************)
Screened ==
    /\ pc \in StringReads /\ cur.goal = "name" => cur.dims = <<>>
    /\ pc = "nDims" => cur.dims = <<>>
    /\ pc = "dim" => cur.nDims \in 1..MaxDims /\ Len(cur.dims) < cur.nDims
    /\ pc \in {"tensorType", "tensorOffset"} =>
          Len(cur.dims) \in 1..MaxDims /\ ~HasNegativeDim(cur.dims)

\* Steps outside the tensor table, and those that leave the locals alone.
LEMMA ScreenedElsewhere ==
    ASSUME IInv, Screened, [Next]_vars, ~ReadTensor
    PROVE  Screened' /\ tensors' = tensors
  <1>0. TypeOK /\ cur \in Locals
    BY DEF IInv, TypeOK
  <1> USE DEF StringReads
  <1>1. CASE UNCHANGED vars
    BY <1>1 DEF Screened, vars
  <1>2. CASE ReadFails \/ ReadBadText
    BY <1>2 DEF ReadFails, ReadBadText, Screened, tables
  <1>3. CASE Open \/ Handle \/ ReadHeader \/ Finish \/ ResolveAlignment
    <2>1. tensors' = tensors
      BY <1>3 DEF Open, Handle, ReadHeader, ReadMagic, ReadVersion, ReadNTensors, ReadNKv, Finish,
         ResolveAlignment, tables
    <2>2. pc' \in {"magic", "version", "nTensors", "nKv", "kv", "tensor", "done"}
      BY <1>3 DEF Open, Handle, ReadHeader, ReadMagic, ReadVersion, ReadNTensors, ReadNKv, Finish,
         ResolveAlignment, RejectCount, RaiseError, Goto
    <2> QED BY <2>1, <2>2 DEF Screened
  <1>4. CASE ReadStringLength
    <2>1. pc = "strLen" /\ tensors' = tensors
      BY <1>4 DEF ReadStringLength, Reading, tables
    <2>2. CASE pc' = "done"
      BY <2>1, <2>2 DEF Screened
    <2>3. CASE pc' = "strText" /\ \E n \in Lengths : cur' = [cur EXCEPT !.slen = n]
      BY <1>0, <2>1, <2>3 DEF Screened, Locals
    <2> QED BY <1>4, <2>2, <2>3 DEF ReadStringLength, RaiseError, Goto
  <1>5. CASE ReadText
    <2>1. PICK t \in Decodings(cur.slen) :
             \/ /\ cur.goal \in {"key", "name"}
                /\ cur' = [cur EXCEPT !.text = t]
                /\ Goto(IF cur.goal = "key" THEN "kvType" ELSE "nDims")
                /\ UNCHANGED tables
             \/ cur.goal = "value" /\ PutKv(StringValue(t))
             \/ cur.goal = "item" /\ PutItem(t)
      BY <1>5 DEF ReadText
    <2>2. pc = "strText"
      BY <1>5 DEF ReadText, Reading
    <2>3. CASE /\ cur.goal \in {"key", "name"}
               /\ cur' = [cur EXCEPT !.text = t]
               /\ Goto(IF cur.goal = "key" THEN "kvType" ELSE "nDims")
               /\ UNCHANGED tables
      BY <1>0, <2>2, <2>3 DEF Screened, Goto, Locals, tables
    <2>4. CASE PutKv(StringValue(t)) \/ PutItem(t)
      BY <2>4 DEF Screened, PutKv, PutItem, Goto, tables
    <2> QED BY <2>1, <2>3, <2>4
  <1>6. CASE ReadKv
    <2>1. tensors' = tensors
      <3>1. CASE BeginKv
        BY <3>1 DEF BeginKv, tables
      <3>5. CASE ReadKvType
        BY <3>5 DEF ReadKvType, tables
      <3>6. CASE ReadElemType
        BY <3>6 DEF ReadElemType, tables
      <3>2. CASE ReadArrayCount
        BY <3>2 DEF ReadArrayCount, tables
      <3>3. CASE ReadScalar \/ ReadItem
        BY <3>3 DEF ReadScalar, ReadItem, PutKv, PutItem, tables
      <3>4. CASE NextItem
        BY <3>4 DEF NextItem, PutKv, tables
      <3> QED BY <1>6, <3>1, <3>2, <3>3, <3>4, <3>5, <3>6 DEF ReadKv
    <2>2. \/ pc' \in {"kvType", "scalar", "elemType", "arrayCount", "elem", "items", "kv", "done"}
          \/ pc' = "strLen" /\ cur'.goal \in {"key", "value", "item"}
      <3>1. CASE BeginKv
        <4>1. Fresh(pos) \in Locals
          BY <1>0, FreshIsLocals DEF TypeOK
        <4> QED BY <3>1, <4>1 DEF BeginKv, Goto, Locals
      <3>2. CASE ReadKvType
        BY <1>0, <3>2 DEF ReadKvType, RaiseError, Goto, Locals
      <3>3. CASE ReadScalar \/ ReadElemType \/ ReadItem
        BY <3>3 DEF ReadScalar, ReadElemType, ReadItem, PutKv, PutItem, Goto
      <3>4. CASE ReadArrayCount
        BY <3>4 DEF ReadArrayCount, RaiseError, Goto
      <3>5. CASE NextItem
        BY <1>0, <3>5 DEF NextItem, ExpectString, PutKv, Goto, Locals
      <3> QED BY <1>6, <3>1, <3>2, <3>3, <3>4, <3>5 DEF ReadKv
    <2> QED BY <2>1, <2>2 DEF Screened
  <1> QED BY <1>1, <1>2, <1>3, <1>4, <1>5, <1>6 DEF Next, Done, Step, ReadString

LEMMA ScreenedInTensors ==
    ASSUME IInv, Screened, OnlyScreenedNumbers, ReadTensor
    PROVE  Screened' /\ OnlyScreenedNumbers'
  <1>0. TypeOK /\ cur \in Locals /\ cur.dims \in Seq(Nat)
    BY DEF IInv, TypeOK, Locals
  <1> USE DEF StringReads
  <1>1. CASE BeginTensor
    <2>1. Fresh(pos) \in Locals /\ Fresh(pos).dims = <<>>
      BY <1>0, FreshIsLocals DEF TypeOK, Fresh
    <2>2. pc' = "strLen" /\ cur'.dims = <<>> /\ tensors' = tensors
      BY <1>1, <2>1 DEF BeginTensor, Goto, Locals, tables
    <2> QED BY <2>2 DEF Screened, OnlyScreenedNumbers
  <1>2. CASE ReadNDims
    <2>1. pc = "nDims" /\ tensors' = tensors
      BY <1>2 DEF ReadNDims, Reading, tables
    <2>4. PICK n \in DimCounts :
             \/ RaiseError("E_TOO_MANY_DIMS", cur.entryAt, n) /\ UNCHANGED cur
             \/ /\ n \in 1..MaxDims
                /\ cur' = [cur EXCEPT !.nDims = n, !.dimsAt = pos']
                /\ Goto("dim")
      BY <1>2, Zenon DEF ReadNDims
    <2>2. CASE pc' = "done"
      BY <2>1, <2>2 DEF Screened, OnlyScreenedNumbers
    <2>3. CASE pc' = "dim" /\ n \in 1..MaxDims /\ cur' = [cur EXCEPT !.nDims = n, !.dimsAt = pos']
      <3>1. cur.dims = <<>>
        BY <2>1 DEF Screened
      <3>2. cur'.dims = <<>> /\ cur'.nDims \in 1..MaxDims
        BY <1>0, <2>3, <3>1 DEF Locals
      <3> QED BY <2>1, <2>3, <3>2 DEF Screened, OnlyScreenedNumbers
    <2> QED BY <2>2, <2>3, <2>4 DEF RaiseError, Goto
  <1>3. CASE ReadDim
    <2>1. pc = "dim" /\ tensors' = tensors
      BY <1>3 DEF ReadDim, Reading, tables
    <2>2. PICK d \in Dims :
             /\ cur' = [cur EXCEPT !.dims = Append(cur.dims, d), !.typeAt = pos']
             /\ \/ Len(Append(cur.dims, d)) < cur.nDims /\ Goto("dim")
                \/ RaiseError("E_NEGATIVE_DIM", cur.dimsAt, 0)
                \/ /\ ~(Len(Append(cur.dims, d)) < cur.nDims)
                   /\ ~HasNegativeDim(Append(cur.dims, d))
                   /\ Goto("tensorType")
      BY <1>3, Zenon DEF ReadDim
    <2> DEFINE dims == Append(cur.dims, d)
    <2>3. /\ cur.nDims \in 1..MaxDims /\ Len(cur.dims) < cur.nDims /\ MaxDims \in Nat
          /\ Len(cur.dims) \in Nat
      BY <1>0, <2>1, FieldValues DEF Screened
    <2>4. Len(dims) = Len(cur.dims) + 1
      BY <1>0, <2>2, FieldValues
    <2>5. cur'.dims = dims /\ cur'.nDims = cur.nDims
      BY <1>0, <2>2 DEF Locals
    <2> HIDE DEF dims
    <2>6. \/ pc' = "done"
          \/ pc' = "dim" /\ Len(dims) < cur.nDims
          \/ pc' = "tensorType" /\ ~HasNegativeDim(dims) /\ Len(dims) \in 1..MaxDims
      BY <2>2, <2>3, <2>4 DEF dims, RaiseError, Goto
    <2> QED BY <2>1, <2>3, <2>5, <2>6 DEF Screened, OnlyScreenedNumbers
  <1>4. CASE ReadTensorType
    <2>1. /\ pc = "tensorType" /\ pc' = "tensorOffset" /\ tensors' = tensors
          /\ cur'.dims = cur.dims
      BY <1>0, <1>4 DEF ReadTensorType, Reading, Goto, Locals, tables
    <2> QED BY <2>1 DEF Screened, OnlyScreenedNumbers
  <1>5. CASE ReadTensorOffset
    <2>1. pc = "tensorOffset" /\ cur' = cur /\ pc' \in {"done", "tensor"}
      BY <1>5 DEF ReadTensorOffset, Reading, RaiseError, Goto
    <2>2. Len(cur.dims) \in 1..MaxDims /\ ~HasNegativeDim(cur.dims) /\ SignBit \in Nat
      BY <2>1, FieldValues DEF Screened
    <2>3. Screened'
      BY <2>1 DEF Screened
    <2>4. CASE tensors' = tensors
      BY <2>3, <2>4 DEF OnlyScreenedNumbers
    <2>5. CASE \E o \in TensorOffsets :
                  /\ o < SignBit
                  /\ tensors' = Append(tensors,
                        [name |-> cur.text, dims |-> cur.dims, type |-> cur.type, offset |-> o,
                         entryAt |-> cur.entryAt, dimsAt |-> cur.dimsAt,
                         typeAt |-> cur.typeAt, offsetAt |-> pos])
      <3>1. PICK t : tensors' = Append(tensors, t) /\ t.dims = cur.dims /\ t.offset < SignBit
        BY <2>5
      <3>2. DOMAIN cur.dims = 1..Len(cur.dims)
        BY <1>0
      <3>3. \A d \in DOMAIN cur.dims : cur.dims[d] < SignBit
        BY <1>0, <2>2, <3>2 DEF HasNegativeDim
      <3>4. /\ DOMAIN tensors' = 1 .. Len(tensors) + 1 /\ Len(tensors) \in Nat
            /\ DOMAIN tensors = 1..Len(tensors)
            /\ \A i \in 1..Len(tensors) : tensors'[i] = tensors[i]
            /\ tensors'[Len(tensors) + 1] = t
        BY <1>0, <3>1 DEF TypeOK
      <3>5. ASSUME NEW i \in DOMAIN tensors'
            PROVE  /\ Len(tensors'[i].dims) \in 1..MaxDims
                   /\ \A d \in DOMAIN tensors'[i].dims : tensors'[i].dims[d] < SignBit
                   /\ tensors'[i].offset < SignBit
        <4>1. CASE i \in 1..Len(tensors)
          BY <3>4, <4>1 DEF OnlyScreenedNumbers
        <4>2. CASE i = Len(tensors) + 1
          BY <2>2, <3>1, <3>3, <3>4, <4>2
        <4> QED BY <3>4, <4>1, <4>2
      <3> QED BY <2>3, <3>5 DEF OnlyScreenedNumbers
    <2> QED BY <1>5, <2>4, <2>5 DEF ReadTensorOffset
  <1> QED BY <1>1, <1>2, <1>3, <1>4, <1>5 DEF ReadTensor

(***************************************************************************)
(* On every file, no dimension or offset with the sign bit and no number   *)
(* of dimensions outside 1..GGML_MAX_DIMS reaches the rules.               *)
(***************************************************************************)
THEOREM TensorsAreScreened == Spec => []OnlyScreenedNumbers
  <1> DEFINE I == IInv /\ Screened /\ OnlyScreenedNumbers
  <1>1. Init => I
    BY InitIsInductive DEF Init, Screened, OnlyScreenedNumbers, StringReads
  <1>2. I /\ [Next]_vars => I'
    <2> SUFFICES ASSUME I, [Next]_vars PROVE I'
      OBVIOUS
    <2>1. IInv'
      BY StepIsInductive
    <2>2. CASE ReadTensor
      BY <2>1, <2>2, ScreenedInTensors
    <2>3. CASE ~ReadTensor
      BY <2>1, <2>3, ScreenedElsewhere DEF OnlyScreenedNumbers
    <2> QED BY <2>2, <2>3
  <1>3. I => OnlyScreenedNumbers
    OBVIOUS
  <1> QED BY <1>1, <1>2, <1>3, PTL DEF Spec

-----------------------------------------------------------------------------
(***************************************************************************)
(* Refinement: GgufParser implements RecordStream, for every file size,    *)
(* every set of field values and every scale of the limits.  Counting      *)
(* strengthens the invariant with how many records are in the tables at    *)
(* each point of the parse, and how far the cursor has at least come in    *)
(* the current one.                                                        *)
(***************************************************************************)
BeforeTables == pc \in {"open", "magic"} \cup HeaderReads
InKv == pc \in KvReads \cup {"items"} \/ (pc \in StringReads /\ cur.goal # "name")
InTensor == pc \in TensorReads \/ (pc \in StringReads /\ cur.goal = "name")

\* Bytes of the current record that are certainly behind the cursor.
Behind ==
    IF pc \in StringReads
    THEN (IF cur.goal \in {"key", "name"} THEN 0 ELSE IF cur.goal = "value" THEN 12 ELSE 24)
         + (IF pc = "strText" THEN 8 ELSE 0)
    ELSE IF pc \in {"kvType", "nDims"} THEN 8
    ELSE IF pc \in {"scalar", "elemType", "dim"} THEN 12
    ELSE IF pc = "arrayCount" THEN 16
    ELSE IF pc = "tensorType" THEN 20
    ELSE 24

Counting ==
    /\ BeforeTables => kv = <<>> /\ tensors = <<>>
    /\ pc = "version" => pos = 4
    /\ pc = "nTensors" => pos = 8
    /\ pc = "nKv" => pos = 16
    /\ pc = "kv" => Len(kv) <= nKv /\ tensors = <<>>
    /\ InKv => Len(kv) < nKv /\ tensors = <<>>
    /\ pc = "tensor" => Len(kv) = nKv /\ Len(tensors) <= nTensors
    /\ InTensor => Len(kv) = nKv /\ Len(tensors) < nTensors
    /\ InKv \/ InTensor => cur.entryAt + Behind <= pos
    /\ pc # "done" => verdict = Pending
    /\ pc = "done" => verdict = Parsed \/ verdict.kind = "rejected"

RInv == IInv /\ Counting

LEMMA MinusNone == ASSUME NEW n \in Nat, NEW m, m = 0 PROVE n - m = n
  OBVIOUS

Simulates == Stream!Next \/ UNCHANGED Stream!vars

\* A parser that has read nothing is a stream of which nothing is announced.
THEOREM InitRefines == Init => RInv /\ Stream!Init
  <1> SUFFICES ASSUME Init PROVE RInv /\ Stream!Init
    OBVIOUS
  <1>1. IInv
    BY InitIsInductive
  <1>2. pc = "open" /\ verdict = Pending /\ kv = <<>> /\ tensors = <<>> /\ len \in Nat
    BY FieldValues DEF Init, ReaderInit
  <1>3. Counting
    BY <1>2 DEF Counting, BeforeTables, InKv, InTensor, Reads, HeaderReads, KvReads, TensorReads, StringReads
  <1>4. Stream!Init
    BY <1>2 DEF Stream!Init, StreamStage, StreamKvLeft, StreamTensorsLeft, StreamSpent,
       Refused, InTables, BetweenRecords, Pending, Parsed, Reads, HeaderReads, KvReads, TensorReads, StringReads
  <1> QED BY <1>1, <1>3, <1>4 DEF RInv

\* An error at any point of the parse is the abstract refusal.
LEMMA RefusalRefines ==
    ASSUME RInv, pc # "done", pc' = "done", verdict'.kind = "rejected", len' = len
    PROVE  Counting' /\ Simulates
  <1>1. verdict = Pending
    BY DEF RInv, Counting
  <1>2. verdict' # Pending /\ verdict' # Parsed /\ Pending # Parsed
    BY DEF Pending, Parsed
  <1>3. Counting'
    BY DEF Counting, BeforeTables, InKv, InTensor, Reads, HeaderReads, KvReads, TensorReads, StringReads
  <1>4. StreamStage \in {"header", "tables"}
    BY <1>1, <1>2 DEF StreamStage, Refused
  <1>5. ~InTables' /\ ~BetweenRecords'
    BY DEF InTables, BetweenRecords, Reads, HeaderReads, KvReads, TensorReads, StringReads
  <1>6. /\ StreamStage' = "refused" /\ StreamKvLeft' = 0 /\ StreamTensorsLeft' = 0
        /\ StreamSpent' = 0
    BY <1>2, <1>5 DEF StreamStage, StreamKvLeft, StreamTensorsLeft, StreamSpent, Refused
  <1>7. Stream!Refuse
    BY <1>4, <1>6 DEF Stream!Refuse
  <1> QED BY <1>3, <1>7 DEF Simulates, Stream!Next

\* A step inside the header, and one inside the tables that takes no record.
LEMMA HeaderStutters ==
    ASSUME RInv, BeforeTables, BeforeTables', verdict' = verdict, len' = len
    PROVE  Simulates
  <1>1. verdict = Pending /\ Pending # Parsed
    BY DEF RInv, Counting, BeforeTables, HeaderReads, Pending, Parsed
  <1>2. ~InTables /\ ~InTables' /\ ~BetweenRecords /\ ~BetweenRecords'
    BY DEF BeforeTables, InTables, BetweenRecords, Reads, HeaderReads, KvReads, TensorReads, StringReads
  <1> QED
    BY <1>1, <1>2 DEF Simulates, Stream!vars, StreamStage, StreamKvLeft, StreamTensorsLeft,
       StreamSpent, Refused

LEMMA TablesStutter ==
    ASSUME RInv, InTables, InTables', UNCHANGED <<verdict, len, nKv, nTensors, kv, tensors>>,
           StreamSpent' = StreamSpent
    PROVE  Simulates
  BY DEF Simulates, Stream!vars, StreamStage, StreamKvLeft, StreamTensorsLeft

LEMMA ReadFailureRefines ==
    RInv /\ (ReadFails \/ ReadBadText \/ Handle) => Counting' /\ Simulates
  <1> SUFFICES ASSUME RInv, ReadFails \/ ReadBadText \/ Handle PROVE Counting' /\ Simulates
    OBVIOUS
  <1>0. IInv /\ Counting /\ TypeOK
    BY DEF RInv, IInv
  <1>1. CASE ReadFails \/ ReadBadText
    <2>1. /\ UNCHANGED <<len, pc, version, nTensors, nKv, kv, tensors, cur, verdict>>
          /\ pos' = pos \/ pc = "strText"
          /\ pos <= pos' /\ pos \in Nat /\ pos' \in Nat
      <3>1. CASE ReadFails
        BY <1>0, <3>1 DEF ReadFails, Refuse, header, tables, TypeOK
      <3>2. CASE ReadBadText
        <4>1. pos \in Nat /\ cur.slen \in Nat /\ pos' = pos + cur.slen
          BY <1>0, <3>2 DEF ReadBadText, AdvanceOverBadText, TypeOK, Locals
        <4> QED BY <3>2, <4>1 DEF ReadBadText, AdvanceOverBadText, header, tables
      <3> QED BY <1>1, <3>1, <3>2
    <2>2. pc \in Reads
      BY <1>1 DEF ReadFails, ReadBadText, Reads, StringReads
    <2>3. Counting'
      <3>1. cur.entryAt \in Nat /\ Behind \in Nat /\ Behind' = Behind
        BY <1>0, <2>1 DEF TypeOK, Locals, Behind
      <3>2. InKv' = InKv /\ InTensor' = InTensor /\ BeforeTables' = BeforeTables
        BY <2>1 DEF InKv, InTensor, BeforeTables
      <3> QED BY <1>0, <2>1, <3>1, <3>2 DEF Counting
    <2>4. ~BetweenRecords /\ ~BetweenRecords' /\ InTables' = InTables
      BY <2>1, <2>2 DEF BetweenRecords, InTables, Reads, HeaderReads, KvReads, TensorReads, StringReads
    <2>5. verdict = Pending /\ Pending # Parsed
      BY <1>0, <2>2 DEF Counting, Pending, Parsed, Reads, HeaderReads, KvReads, TensorReads, StringReads
    <2>6. Simulates
      BY <2>1, <2>4, <2>5
      DEF Simulates, Stream!vars, StreamStage, StreamKvLeft, StreamTensorsLeft, StreamSpent, Refused
    <2> QED BY <2>3, <2>6
  <1>2. CASE Handle
    <2>1. pc # "done" /\ pc' = "done" /\ len' = len
      BY <1>2 DEF Handle, readerVars, Reads, HeaderReads, KvReads, TensorReads, StringReads
    <2>2. verdict'.kind # "crashed"
      BY <1>0, <1>2, FailureIsInductive DEF IInv, Control
    <2>3. verdict'.kind = "rejected"
      BY <1>2, <2>2 DEF Handle, Rejected, Crashed
    <2> QED BY <2>1, <2>3, RefusalRefines
  <1> QED BY <1>1, <1>2

LEMMA HeaderRefines ==
    RInv /\ (Open \/ ReadHeader) => Counting' /\ Simulates
  <1> SUFFICES ASSUME RInv, Open \/ ReadHeader PROVE Counting' /\ Simulates
    OBVIOUS
  <1>0. IInv /\ Counting /\ TypeOK /\ Control
    BY DEF RInv, IInv
  <1>1. CASE Open
    <2>1. pc = "open" /\ len' = len /\ UNCHANGED <<kv, tensors>>
      BY <1>1 DEF Open, readerVars, tables
    <2>2. CASE pc' = "magic" /\ verdict' = verdict
      <3>1. Counting'
        BY <1>0, <2>1, <2>2 DEF Counting, BeforeTables, InKv, InTensor, Reads, HeaderReads, KvReads, TensorReads, StringReads
      <3> QED BY <2>1, <2>2, <3>1, HeaderStutters DEF BeforeTables
    <2>3. CASE pc' = "done" /\ verdict'.kind = "rejected"
      BY <2>1, <2>3, RefusalRefines
    <2> QED BY <1>1, <2>2, <2>3 DEF Open, RaiseError, Goto, Rejected
  <1>2. CASE ReadMagic
    <2>1. pc = "magic" /\ pos' = 4 /\ len' = len /\ UNCHANGED <<kv, tensors>>
      BY <1>0, <1>2, ReadingAdvances DEF ReadMagic, Width, Control, tables
    <2>2. CASE pc' = "version" /\ verdict' = verdict
      <3>1. Counting'
        BY <1>0, <2>1, <2>2 DEF Counting, BeforeTables, InKv, InTensor, Reads, HeaderReads, KvReads, TensorReads, StringReads
      <3> QED BY <2>1, <2>2, <3>1, HeaderStutters DEF BeforeTables, HeaderReads
    <2>3. CASE pc' = "done" /\ verdict'.kind = "rejected"
      BY <2>1, <2>3, RefusalRefines
    <2> QED BY <1>2, <2>2, <2>3 DEF ReadMagic, RaiseError, Goto, Rejected
  <1>3. CASE ReadVersion
    <2>1. /\ pc = "version" /\ pc' = "nTensors" /\ pos' = 8 /\ len' = len /\ verdict' = verdict
          /\ UNCHANGED <<kv, tensors>>
      BY <1>0, <1>3, ReadingAdvances DEF ReadVersion, Width, Counting, Goto, tables
    <2>2. Counting'
      BY <1>0, <2>1 DEF Counting, BeforeTables, InKv, InTensor, Reads, HeaderReads, KvReads, TensorReads, StringReads
    <2> QED BY <2>1, <2>2, HeaderStutters DEF BeforeTables, HeaderReads
  <1>4. CASE ReadNTensors
    <2>1. pc = "nTensors" /\ pos' = 16 /\ len' = len /\ UNCHANGED <<kv, tensors>>
      BY <1>0, <1>4, ReadingAdvances DEF ReadNTensors, Width, Counting, tables
    <2>2. CASE pc' = "nKv" /\ verdict' = verdict
      <3>1. Counting'
        BY <1>0, <2>1, <2>2 DEF Counting, BeforeTables, InKv, InTensor, Reads, HeaderReads, KvReads, TensorReads, StringReads
      <3> QED BY <2>1, <2>2, <3>1, HeaderStutters DEF BeforeTables, HeaderReads
    <2>3. CASE pc' = "done" /\ verdict'.kind = "rejected"
      BY <2>1, <2>3, RefusalRefines
    <2> QED BY <1>4, <2>2, <2>3 DEF ReadNTensors, RejectCount, RaiseError, Goto, Rejected
  <1>5. CASE ReadNKv
    <2>1. /\ pc = "nKv" /\ pos' = 24 /\ len' = len /\ UNCHANGED <<nTensors, kv, tensors>>
          /\ 24 <= len /\ len \in Nat
      <3>1. Reading("nKv") /\ UNCHANGED <<nTensors, kv, tensors>>
        BY <1>5 DEF ReadNKv, tables
      <3>2. pc = "nKv" /\ pos' = pos + Width /\ pos' <= len' /\ len' = len /\ len' \in Sizes
        BY <1>0, <3>1, ReadingAdvances
      <3>3. pos = 16 /\ Width = 8
        BY <1>0, <3>2 DEF Counting, Width
      <3> QED BY <3>1, <3>2, <3>3, FieldValues
    <2>2. CASE pc' = "kv" /\ verdict' = verdict
      <3>0. /\ kv = <<>> /\ tensors = <<>> /\ verdict = Pending /\ Pending # Parsed
            /\ nTensors \in Nat /\ nKv' \in Nat
        <4>1. TypeOK'
          BY <1>0, <1>5, HeaderIsInductive DEF IInv
        <4> QED BY <1>0, <2>1, <4>1
                DEF Counting, BeforeTables, HeaderReads, Pending, Parsed, TypeOK
      <3>1. Counting'
        BY <1>0, <2>1, <2>2, <3>0 DEF Counting, BeforeTables, InKv, InTensor, Reads, HeaderReads, KvReads, TensorReads, StringReads
      <3>2. /\ ~InTables /\ InTables' /\ BetweenRecords' /\ ~BetweenRecords
        BY <2>1, <2>2 DEF InTables, BetweenRecords, Reads, HeaderReads, KvReads, TensorReads, StringReads
      <3>5. Len(kv') = 0 /\ Len(tensors') = 0
        BY <2>1, <3>0
      <3>3. /\ StreamStage = "header" /\ StreamStage' = "tables"
            /\ StreamSpent' = 24 /\ StreamKvLeft' \in Nat /\ StreamTensorsLeft' \in Nat
        <4>1. StreamStage = "header" /\ StreamStage' = "tables"
          BY <2>2, <3>0, <3>2 DEF StreamStage, Refused
        <4>2. StreamSpent' = 24
          BY <2>1, <3>2 DEF StreamSpent
        <4>3. StreamKvLeft' = nKv' /\ StreamTensorsLeft' = nTensors
          BY <2>1, <3>0, <3>2, <3>5, MinusNone DEF StreamKvLeft, StreamTensorsLeft
        <4> QED BY <3>0, <4>1, <4>2, <4>3
      <3>4. Stream!Announce
        BY <2>1, <3>3 DEF Stream!Announce, Stream!HeaderCost
      <3> QED BY <3>1, <3>4 DEF Simulates, Stream!Next
    <2>3. CASE pc' = "done" /\ verdict'.kind = "rejected"
      BY <2>1, <2>3, RefusalRefines
    <2> QED BY <1>5, <2>2, <2>3 DEF ReadNKv, RejectCount, RaiseError, Goto, Rejected
  <1> QED BY <1>1, <1>2, <1>3, <1>4, <1>5 DEF ReadHeader

\* A read inside a record: nothing is taken, and the cursor gets further.
LEMMA WithinRecordRefines ==
    ASSUME RInv, InKv \/ InTensor, InKv' = InKv, InTensor' = InTensor,
           cur'.entryAt = cur.entryAt, cur.entryAt + Behind' <= pos',
           UNCHANGED <<verdict, len, nKv, nTensors, kv, tensors>>
    PROVE  Counting' /\ Simulates
  <1>0. Counting
    BY DEF RInv
  <1>1. verdict = Pending /\ Pending # Parsed
    BY <1>0 DEF Counting, InKv, InTensor, Pending, Parsed, Reads, HeaderReads, KvReads, TensorReads, StringReads
  <1>2. /\ InTables /\ InTables' /\ ~BetweenRecords /\ ~BetweenRecords'
        /\ ~BeforeTables' /\ pc' \notin {"done", "kv", "tensor", "version", "nTensors", "nKv"}
    BY DEF InTables, BetweenRecords, InKv, InTensor, BeforeTables, Reads, HeaderReads, KvReads, TensorReads, StringReads
  <1>3. Counting'
    BY <1>0, <1>1, <1>2 DEF Counting
  <1>4. StreamSpent' = StreamSpent
    BY <1>1, <1>2 DEF StreamSpent
  <1> QED BY <1>2, <1>3, <1>4, TablesStutter

\* A record begins at the cursor.
LEMMA BeginningRefines ==
    ASSUME RInv, BetweenRecords, pc = "kv" => InKv' /\ Len(kv) < nKv,
           pc = "tensor" => InTensor' /\ Len(tensors) < nTensors,
           pc' = "strLen", cur'.goal \in {"key", "name"}, cur'.entryAt = pos,
           UNCHANGED <<pos, verdict, len, nKv, nTensors, kv, tensors>>
    PROVE  Counting' /\ Simulates
  <1>0. Counting /\ pos \in Nat
    BY DEF RInv, IInv, TypeOK
  <1>1. verdict = Pending /\ Pending # Parsed
    BY <1>0 DEF Counting, BetweenRecords, Pending, Parsed
  <1>2. /\ InTables /\ InTables' /\ ~BetweenRecords' /\ ~BeforeTables'
        /\ ~(InKv' /\ InTensor')
    BY DEF InTables, BetweenRecords, BeforeTables, InKv, InTensor, Reads, HeaderReads, KvReads, TensorReads, StringReads
  <1>3. cur'.entryAt + Behind' <= pos'
    <2>1. Behind' = 0
      BY DEF Behind, StringReads
    <2> QED BY <1>0, <2>1
  <1>4. Counting'
    BY <1>0, <1>1, <1>2, <1>3 DEF Counting, BetweenRecords
  <1>5. StreamSpent' = StreamSpent
    BY <1>1, <1>2 DEF StreamSpent
  <1> QED BY <1>2, <1>4, <1>5, TablesStutter

\* A pair is complete: the abstract parser takes it for at least 13 bytes.
LEMMA TakingKvRefines ==
    ASSUME RInv, InKv, pc' = "kv", Len(kv') = Len(kv) + 1,
           cur.entryAt + 13 <= pos', pos' <= len,
           UNCHANGED <<verdict, len, nKv, nTensors, tensors>>
    PROVE  Counting' /\ Simulates
  <1>0. /\ Counting /\ Len(kv) \in Nat /\ nKv \in Nat /\ Len(kv) < nKv /\ tensors = <<>>
    BY DEF RInv, IInv, TypeOK, Counting
  <1>1. verdict = Pending /\ Pending # Parsed
    BY <1>0 DEF Counting, InKv, Pending, Parsed, Reads, HeaderReads, KvReads, TensorReads, StringReads
  <1>2. InTables /\ InTables' /\ ~BetweenRecords /\ BetweenRecords'
    BY DEF InTables, BetweenRecords, InKv, Reads, HeaderReads, KvReads, TensorReads, StringReads
  <1>3. Counting'
    BY <1>0, <1>1 DEF Counting, BeforeTables, InKv, InTensor, Reads, HeaderReads, KvReads, TensorReads, StringReads
  <1>4. StreamStage = "tables" /\ StreamStage' = "tables"
    BY <1>2 DEF StreamStage
  <1>5. StreamKvLeft = nKv - Len(kv) /\ StreamKvLeft' = nKv - (Len(kv) + 1)
    BY <1>2 DEF StreamKvLeft
  <1>6. StreamTensorsLeft' = StreamTensorsLeft
    BY <1>2 DEF StreamTensorsLeft
  <1>7. StreamSpent = cur.entryAt /\ StreamSpent' = pos'
    BY <1>1, <1>2 DEF StreamSpent
  <1>8. StreamKvLeft > 0 /\ StreamKvLeft' = StreamKvLeft - 1
    BY <1>0, <1>5
  <1>9. Stream!TakeKv
    BY <1>4, <1>6, <1>7, <1>8 DEF Stream!TakeKv, Stream!Pay, Stream!KvCost
  <1> QED BY <1>3, <1>9 DEF Simulates, Stream!Next

\* A tensor info is complete: taken, after all pairs, for at least 32 bytes.
LEMMA TakingTensorRefines ==
    ASSUME RInv, InTensor, pc' = "tensor", Len(tensors') = Len(tensors) + 1,
           cur.entryAt + 32 <= pos', pos' <= len,
           UNCHANGED <<verdict, len, nKv, nTensors, kv>>
    PROVE  Counting' /\ Simulates
  <1>0. /\ Counting /\ Len(tensors) \in Nat /\ nTensors \in Nat /\ Len(tensors) < nTensors
        /\ Len(kv) = nKv /\ nKv \in Nat
    BY DEF RInv, IInv, TypeOK, Counting
  <1>1. verdict = Pending /\ Pending # Parsed
    BY <1>0 DEF Counting, InTensor, Pending, Parsed, Reads, HeaderReads, KvReads, TensorReads, StringReads
  <1>2. InTables /\ InTables' /\ ~BetweenRecords /\ BetweenRecords'
    BY DEF InTables, BetweenRecords, InTensor, Reads, HeaderReads, KvReads, TensorReads, StringReads
  <1>3. Counting'
    BY <1>0, <1>1 DEF Counting, BeforeTables, InKv, InTensor, Reads, HeaderReads, KvReads, TensorReads, StringReads
  <1>4. StreamStage = "tables" /\ StreamStage' = "tables"
    BY <1>2 DEF StreamStage
  <1>5. /\ StreamTensorsLeft = nTensors - Len(tensors)
        /\ StreamTensorsLeft' = nTensors - (Len(tensors) + 1)
    BY <1>2 DEF StreamTensorsLeft
  <1>6. StreamKvLeft = 0 /\ StreamKvLeft' = StreamKvLeft
    BY <1>0, <1>2 DEF StreamKvLeft
  <1>7. StreamSpent = cur.entryAt /\ StreamSpent' = pos'
    BY <1>1, <1>2 DEF StreamSpent
  <1>8. StreamTensorsLeft > 0 /\ StreamTensorsLeft' = StreamTensorsLeft - 1
    BY <1>0, <1>5
  <1>9. Stream!TakeTensor
    BY <1>4, <1>6, <1>7, <1>8 DEF Stream!TakeTensor, Stream!Pay, Stream!TensorCost
  <1> QED BY <1>3, <1>9 DEF Simulates, Stream!Next

LEMMA ScalarBytesPositive == \A t : ScalarBytes(t) \in Nat /\ ScalarBytes(t) >= 1
  BY DEF ScalarBytes

\* A successful read inside a record, whose bytes pay for Behind.
LEMMA ReadRefines ==
    ASSUME RInv, NEW p, Reading(p), InKv \/ InTensor, InKv' = InKv, InTensor' = InTensor,
           cur'.entryAt = cur.entryAt, Behind' \in Nat, Behind' <= Behind + Width,
           UNCHANGED <<verdict, nKv, nTensors, kv, tensors>>
    PROVE  Counting' /\ Simulates
  <1>1. TypeOK /\ cur.entryAt \in Nat /\ cur.entryAt + Behind <= pos
    BY DEF RInv, IInv, TypeOK, Locals, Counting
  <1>2. Behind \in Nat /\ Width \in Nat /\ pos \in Nat
    BY <1>1, WidthIsNat DEF Behind, TypeOK
  <1>3. pos' = pos + Width /\ len' = len
    BY <1>1, ReadingAdvances
  <1>4. ASSUME NEW n \in Nat, n <= Behind + Width PROVE cur.entryAt + n <= pos + Width
    BY <1>1, <1>2, <1>4
  <1>5. cur.entryAt + Behind' <= pos + Width
    BY <1>4
  <1> QED BY <1>3, <1>5, WithinRecordRefines

\* A step inside a record that only moves pc, to a place no further on.
LEMMA MoveRefines ==
    ASSUME RInv, InKv \/ InTensor, InKv' = InKv, InTensor' = InTensor,
           cur'.entryAt = cur.entryAt, Behind' = Behind,
           UNCHANGED <<pos, verdict, len, nKv, nTensors, kv, tensors>>
    PROVE  Counting' /\ Simulates
  <1>1. cur.entryAt + Behind <= pos
    BY DEF RInv, Counting
  <1> QED BY <1>1, WithinRecordRefines

LEMMA PutKvTakes ==
    ASSUME RInv, NEW v \in Values, PutKv(v)
    PROVE  /\ pc' = "kv" /\ Len(kv') = Len(kv) + 1
           /\ UNCHANGED <<verdict, tensors>>
  BY DEF RInv, IInv, TypeOK, PutKv, Goto

\* A read that completes a pair.
LEMMA ReadTakesKv ==
    ASSUME RInv, NEW p, Reading(p), InKv, NEW v \in Values, PutKv(v),
           13 <= Behind + Width, UNCHANGED <<nKv, nTensors>>
    PROVE  Counting' /\ Simulates
  <1>1. TypeOK /\ cur.entryAt \in Nat /\ cur.entryAt + Behind <= pos
    BY DEF RInv, IInv, TypeOK, Locals, Counting
  <1>2. Behind \in Nat /\ Width \in Nat /\ pos \in Nat
    BY <1>1, WidthIsNat DEF Behind, TypeOK
  <1>3. pos' = pos + Width /\ len' = len /\ pos' <= len'
    BY <1>1, ReadingAdvances
  <1>4. cur.entryAt + 13 <= pos + Width
    BY <1>1, <1>2
  <1> QED BY <1>3, <1>4, PutKvTakes, TakingKvRefines

LEMMA StringRefines == RInv /\ ReadString => Counting' /\ Simulates
  <1> SUFFICES ASSUME RInv, ReadString PROVE Counting' /\ Simulates
    OBVIOUS
  <1>0. TypeOK /\ Control /\ cur \in Locals /\ cur.slen \in Nat /\ IInv
    BY DEF RInv, IInv, TypeOK, Locals
  <1>1. CASE ReadStringLength
    <2>1. /\ Reading("strLen") /\ pc = "strLen" /\ len' = len
          /\ UNCHANGED <<nTensors, nKv, kv, tensors>>
      BY <1>0, <1>1, ReadingAdvances DEF ReadStringLength, header, tables
    <2>2. PICK n \in Lengths :
             \/ RaiseError("E_NEGATIVE_COUNT", pos, n)
             \/ cur' = [cur EXCEPT !.slen = n] /\ Goto("strText")
      BY <1>1 DEF ReadStringLength
    <2>3. CASE RaiseError("E_NEGATIVE_COUNT", pos, n)
      BY <2>1, <2>3, RefusalRefines DEF RaiseError, Rejected
    <2>4. CASE cur' = [cur EXCEPT !.slen = n] /\ Goto("strText")
      <3>1. /\ pc' = "strText" /\ verdict' = verdict
            /\ cur'.goal = cur.goal /\ cur'.entryAt = cur.entryAt
        BY <1>0, <2>4 DEF Goto, Locals
      <3>2. (InKv \/ InTensor) /\ InKv' = InKv /\ InTensor' = InTensor
        BY <2>1, <3>1 DEF InKv, InTensor, StringReads, KvReads, TensorReads
      <3>3. Behind' = Behind + 8 /\ Behind \in Nat /\ Width = 8
        BY <2>1, <3>1 DEF Behind, StringReads, Width
      <3>4. Behind' \in Nat /\ Behind' <= Behind + Width
        BY <3>3
      <3> QED BY <2>1, <3>1, <3>2, <3>4, ReadRefines
    <2> QED BY <2>2, <2>3, <2>4
  <1>2. CASE ReadText
    <2>1. /\ Reading("strText") /\ pc = "strText" /\ UNCHANGED <<nTensors, nKv>>
      BY <1>0, <1>2, ReadingAdvances DEF ReadText, header
    <2>2. PICK t \in Decodings(cur.slen) :
             \/ /\ cur.goal \in {"key", "name"}
                /\ cur' = [cur EXCEPT !.text = t]
                /\ Goto(IF cur.goal = "key" THEN "kvType" ELSE "nDims")
                /\ UNCHANGED tables
             \/ cur.goal = "value" /\ PutKv(StringValue(t))
             \/ cur.goal = "item" /\ PutItem(t)
      BY <1>2 DEF ReadText
    <2>3. t \in Texts /\ Width = cur.slen
      BY <2>1 DEF Decodings, Width
    <2>4. CASE /\ cur.goal \in {"key", "name"}
               /\ cur' = [cur EXCEPT !.text = t]
               /\ Goto(IF cur.goal = "key" THEN "kvType" ELSE "nDims")
               /\ UNCHANGED tables
      <3>1. /\ pc' = (IF cur.goal = "key" THEN "kvType" ELSE "nDims")
            /\ cur'.entryAt = cur.entryAt /\ UNCHANGED <<verdict, kv, tensors>>
        BY <1>0, <2>4 DEF Goto, Locals, tables
      <3>2. (InKv \/ InTensor) /\ InKv' = InKv /\ InTensor' = InTensor
        BY <2>1, <2>4, <3>1 DEF InKv, InTensor, StringReads, KvReads, TensorReads
      <3>3. Behind' = 8 /\ Behind = 8
        BY <2>1, <2>4, <3>1 DEF Behind, StringReads
      <3>4. Behind' \in Nat /\ Behind' <= Behind + Width
        BY <1>0, <2>3, <3>3
      <3> QED BY <2>1, <3>1, <3>2, <3>4, ReadRefines
    <2>5. CASE cur.goal = "value" /\ PutKv(StringValue(t))
      <3>1. StringValue(t) \in Values
        BY <2>3 DEF StringValue, Values
      <3>2. InKv /\ Behind = 20
        BY <2>1, <2>5 DEF InKv, StringReads, Behind
      <3> QED BY <1>0, <2>1, <2>3, <2>5, <3>1, <3>2, ReadTakesKv
    <2>6. CASE cur.goal = "item" /\ PutItem(t)
      <3>1. /\ pc' = "items" /\ cur'.entryAt = cur.entryAt
            /\ UNCHANGED <<verdict, kv, tensors>>
        BY <1>0, <2>6 DEF PutItem, Goto, Locals, tables
      <3>2. /\ InKv /\ InKv' = InKv /\ InTensor' = InTensor
            /\ Behind = 32 /\ Behind' = 24
        BY <2>1, <2>6, <3>1 DEF InKv, InTensor, StringReads, KvReads, TensorReads, Behind
      <3>3. Behind' \in Nat /\ Behind' <= Behind + Width
        BY <1>0, <2>3, <3>2
      <3> QED BY <2>1, <3>1, <3>2, <3>3, ReadRefines
    <2> QED BY <2>2, <2>4, <2>5, <2>6
  <1> QED BY <1>1, <1>2, ReadFailureRefines DEF ReadString

LEMMA KvRefines == RInv /\ (ReadKv \/ ResolveAlignment) => Counting' /\ Simulates
  <1> SUFFICES ASSUME RInv, ReadKv \/ ResolveAlignment PROVE Counting' /\ Simulates
    OBVIOUS
  <1>0. TypeOK /\ Control /\ cur \in Locals /\ IInv /\ Counting
    BY DEF RInv, IInv, TypeOK
  <1>1. CASE BeginKv
    <2>1. pos \in Nat /\ Fresh(pos).entryAt = pos /\ Fresh(pos) \in Locals
      BY <1>0, FreshIsLocals DEF TypeOK, Fresh
    <2>2. /\ pc = "kv" /\ pc' = "strLen" /\ Len(kv) < nKv
          /\ cur'.goal = "key" /\ cur'.entryAt = pos
          /\ UNCHANGED <<pos, verdict, len, nKv, nTensors, kv, tensors>>
      BY <1>1, <2>1 DEF BeginKv, Goto, readerVars, header, tables, Locals
    <2> QED BY <2>2, BeginningRefines DEF BetweenRecords, InKv, StringReads
  <1>2. CASE ReadKvType
    <2>1. /\ Reading("kvType") /\ pc = "kvType" /\ len' = len
          /\ UNCHANGED <<nTensors, nKv, kv, tensors>>
      BY <1>0, <1>2, ReadingAdvances DEF ReadKvType, header, tables
    <2>2. PICK t \in KvTypes :
             \/ RaiseError("E_BAD_KV_TYPE", pos, t)
             \/ /\ cur' = [cur EXCEPT !.type = t, !.valueAt = pos', !.goal = "value"]
                /\ Goto(IF t = Str THEN "strLen" ELSE IF t = Array THEN "elemType" ELSE "scalar")
      BY <1>2 DEF ReadKvType
    <2>3. CASE RaiseError("E_BAD_KV_TYPE", pos, t)
      BY <2>1, <2>3, RefusalRefines DEF RaiseError, Rejected
    <2>4. CASE /\ cur' = [cur EXCEPT !.type = t, !.valueAt = pos', !.goal = "value"]
               /\ Goto(IF t = Str THEN "strLen" ELSE IF t = Array THEN "elemType" ELSE "scalar")
      <3>1. /\ pc' \in {"strLen", "elemType", "scalar"} /\ verdict' = verdict
            /\ cur'.goal = "value" /\ cur'.entryAt = cur.entryAt
        BY <1>0, <2>4 DEF Goto, Locals
      <3>2. (InKv \/ InTensor) /\ InKv' = InKv /\ InTensor' = InTensor
        BY <2>1, <3>1 DEF InKv, InTensor, StringReads, KvReads, TensorReads
      <3>3. Behind' = 12 /\ Behind = 8 /\ Width = 4
        BY <2>1, <3>1 DEF Behind, StringReads, Width
      <3>4. Behind' \in Nat /\ Behind' <= Behind + Width
        BY <3>3
      <3> QED BY <2>1, <3>1, <3>2, <3>4, ReadRefines
    <2> QED BY <2>2, <2>3, <2>4
  <1>3. CASE ReadScalar
    <2>1. Reading("scalar") /\ pc = "scalar" /\ UNCHANGED <<nTensors, nKv>>
      BY <1>0, <1>3, ReadingAdvances DEF ReadScalar, header
    <2>2. PICK v \in ScalarValues(cur.type) : PutKv(v)
      BY <1>3 DEF ReadScalar
    <2>3. v \in Values
      BY FieldValues DEF ScalarValues, IntValue, OtherValue, Values
    <2>4. InKv /\ Behind = 12 /\ Width \in Nat /\ Width >= 1
      BY <2>1, ScalarBytesPositive DEF InKv, KvReads, Behind, StringReads, Width
    <2>5. 13 <= Behind + Width
      BY <2>4
    <2> QED BY <2>1, <2>2, <2>3, <2>4, <2>5, ReadTakesKv
  <1>4. CASE ReadElemType
    <2>1. /\ Reading("elemType") /\ pc = "elemType" /\ pc' = "arrayCount"
          /\ cur'.entryAt = cur.entryAt
          /\ UNCHANGED <<verdict, nTensors, nKv, kv, tensors>>
      BY <1>0, <1>4, ReadingAdvances DEF ReadElemType, Goto, header, tables, Locals
    <2>2. (InKv \/ InTensor) /\ InKv' = InKv /\ InTensor' = InTensor
      BY <2>1 DEF InKv, InTensor, StringReads, KvReads, TensorReads
    <2>3. Behind' = 16 /\ Behind = 12 /\ Width = 4
      BY <2>1 DEF Behind, StringReads, Width
    <2>4. Behind' \in Nat /\ Behind' <= Behind + Width
      BY <2>3
    <2> QED BY <2>1, <2>2, <2>4, ReadRefines
  <1>5. CASE ReadArrayCount
    <2>1. /\ Reading("arrayCount") /\ pc = "arrayCount" /\ len' = len
          /\ UNCHANGED <<nTensors, nKv, kv, tensors>>
      BY <1>0, <1>5, ReadingAdvances DEF ReadArrayCount, header, tables
    <2>2. CASE \E c, at, n : RaiseError(c, at, n)
      BY <2>1, <2>2, RefusalRefines DEF RaiseError, Rejected
    <2>3. CASE \E n \in ArrayCounts : cur' = [cur EXCEPT !.count = n] /\ Goto("items")
      <3>1. pc' = "items" /\ verdict' = verdict /\ cur'.entryAt = cur.entryAt
        BY <1>0, <2>3 DEF Goto, Locals
      <3>2. (InKv \/ InTensor) /\ InKv' = InKv /\ InTensor' = InTensor
        BY <2>1, <3>1 DEF InKv, InTensor, StringReads, KvReads, TensorReads
      <3>3. Behind' = 24 /\ Behind = 16 /\ Width = 8
        BY <2>1, <3>1 DEF Behind, StringReads, Width
      <3>4. Behind' \in Nat /\ Behind' <= Behind + Width
        BY <3>3
      <3> QED BY <2>1, <3>1, <3>2, <3>4, ReadRefines
    <2> QED BY <1>5, <2>2, <2>3 DEF ReadArrayCount
  <1>6. CASE NextItem
    <2>1. pc = "items" /\ InKv /\ Behind = 24 /\ UNCHANGED <<len, pos, nTensors, nKv>>
      BY <1>6 DEF NextItem, readerVars, header, InKv, Behind, StringReads
    <2>2. CASE (ExpectString("item") \/ (Goto("elem") /\ UNCHANGED cur)) /\ UNCHANGED tables
      <3>1. /\ pc' = "elem" \/ (pc' = "strLen" /\ cur'.goal = "item")
            /\ cur'.entryAt = cur.entryAt /\ UNCHANGED <<verdict, kv, tensors>>
        BY <1>0, <2>2 DEF ExpectString, Goto, Locals, tables
      <3>2. InKv' = InKv /\ InTensor' = InTensor /\ Behind' = Behind
        BY <2>1, <3>1 DEF InKv, InTensor, StringReads, KvReads, TensorReads, Behind
      <3> QED BY <2>1, <3>1, <3>2, MoveRefines
    <2>3. CASE PutKv(ArrayValue)
      <3>1. ArrayValue \in Values
        BY <1>0 DEF ArrayValue, Values, Locals
      <3>2. cur.entryAt \in Nat /\ pos \in Nat /\ pos <= len /\ cur.entryAt + Behind <= pos
        BY <1>0, <2>1 DEF TypeOK, Locals, Counting
      <3>3. cur.entryAt + 13 <= pos
        BY <2>1, <3>2
      <3> QED BY <2>1, <2>3, <3>1, <3>2, <3>3, PutKvTakes, TakingKvRefines
    <2> QED BY <1>6, <2>2, <2>3 DEF NextItem, tables
  <1>7. CASE ReadItem
    <2>1. /\ Reading("elem") /\ pc = "elem" /\ pc' = "items"
          /\ cur'.entryAt = cur.entryAt
          /\ UNCHANGED <<verdict, nTensors, nKv, kv, tensors>>
      BY <1>0, <1>7, ReadingAdvances DEF ReadItem, PutItem, Goto, header, tables, Locals
    <2>2. (InKv \/ InTensor) /\ InKv' = InKv /\ InTensor' = InTensor
      BY <2>1 DEF InKv, InTensor, StringReads, KvReads, TensorReads
    <2>3. Behind' = 24 /\ Behind = 24 /\ Width \in Nat
      BY <1>0, <2>1, WidthIsNat DEF Behind, StringReads
    <2>4. Behind' \in Nat /\ Behind' <= Behind + Width
      BY <2>3
    <2> QED BY <2>1, <2>2, <2>4, ReadRefines
  <1>8. CASE ResolveAlignment
    <2>1. /\ pc = "kv" /\ pc' = "tensor" /\ Len(kv) = nKv
          /\ UNCHANGED <<len, pos, verdict, nTensors, nKv, kv, tensors>>
      BY <1>8 DEF ResolveAlignment, Goto, readerVars, header, tables
    <2>2. tensors = <<>> /\ nTensors \in Nat
      BY <1>0, <2>1 DEF Counting, TypeOK
    <2>3. Len(tensors') <= nTensors'
      BY <2>1, <2>2
    <2>4. Counting'
      BY <1>0, <2>1, <2>3 DEF Counting, BeforeTables, InKv, InTensor, HeaderReads, KvReads, TensorReads, StringReads
    <2>5. InTables /\ InTables' /\ BetweenRecords /\ BetweenRecords'
      BY <2>1 DEF InTables, BetweenRecords
    <2>6. StreamSpent' = StreamSpent
      BY <2>1, <2>5 DEF StreamSpent
    <2> QED BY <2>1, <2>4, <2>5, <2>6, TablesStutter
  <1> QED BY <1>1, <1>2, <1>3, <1>4, <1>5, <1>6, <1>7, <1>8 DEF ReadKv

LEMMA TensorRefines == RInv /\ (ReadTensor \/ Finish) => Counting' /\ Simulates
  <1> SUFFICES ASSUME RInv, ReadTensor \/ Finish PROVE Counting' /\ Simulates
    OBVIOUS
  <1>0. TypeOK /\ Control /\ cur \in Locals /\ IInv /\ Counting
    BY DEF RInv, IInv, TypeOK
  <1>1. CASE BeginTensor
    <2>1. pos \in Nat /\ Fresh(pos).entryAt = pos /\ Fresh(pos) \in Locals
      BY <1>0, FreshIsLocals DEF TypeOK, Fresh
    <2>2. /\ pc = "tensor" /\ pc' = "strLen" /\ Len(tensors) < nTensors
          /\ cur'.goal = "name" /\ cur'.entryAt = pos
          /\ UNCHANGED <<pos, verdict, len, nKv, nTensors, kv, tensors>>
      BY <1>1, <2>1 DEF BeginTensor, Goto, readerVars, header, tables, Locals
    <2> QED BY <2>2, BeginningRefines DEF BetweenRecords, InTensor, StringReads
  <1>2. CASE ReadNDims
    <2>1. /\ Reading("nDims") /\ pc = "nDims" /\ len' = len
          /\ UNCHANGED <<nTensors, nKv, kv, tensors>>
      BY <1>0, <1>2, ReadingAdvances DEF ReadNDims, header, tables
    <2>2. PICK n \in DimCounts :
             \/ RaiseError("E_TOO_MANY_DIMS", cur.entryAt, n)
             \/ cur' = [cur EXCEPT !.nDims = n, !.dimsAt = pos'] /\ Goto("dim")
      BY <1>2 DEF ReadNDims
    <2>3. CASE RaiseError("E_TOO_MANY_DIMS", cur.entryAt, n)
      BY <2>1, <2>3, RefusalRefines DEF RaiseError, Rejected
    <2>4. CASE cur' = [cur EXCEPT !.nDims = n, !.dimsAt = pos'] /\ Goto("dim")
      <3>1. pc' = "dim" /\ verdict' = verdict /\ cur'.entryAt = cur.entryAt
        BY <1>0, <2>4 DEF Goto, Locals
      <3>2. (InKv \/ InTensor) /\ InKv' = InKv /\ InTensor' = InTensor
        BY <2>1, <3>1 DEF InKv, InTensor, StringReads, KvReads, TensorReads
      <3>3. Behind' = 12 /\ Behind = 8 /\ Width = 4
        BY <2>1, <3>1 DEF Behind, StringReads, Width
      <3>4. Behind' \in Nat /\ Behind' <= Behind + Width
        BY <3>3
      <3> QED BY <2>1, <3>1, <3>2, <3>4, ReadRefines
    <2> QED BY <2>2, <2>3, <2>4
  <1>3. CASE ReadDim
    <2>1. /\ Reading("dim") /\ pc = "dim" /\ len' = len
          /\ UNCHANGED <<nTensors, nKv, kv, tensors>>
      BY <1>0, <1>3, ReadingAdvances DEF ReadDim, header, tables
    <2>2. PICK d \in Dims :
             /\ cur' = [cur EXCEPT !.dims = Append(cur.dims, d), !.typeAt = pos']
             /\ \/ RaiseError("E_NEGATIVE_DIM", cur.dimsAt, 0)
                \/ Goto("dim")
                \/ Goto("tensorType")
      BY <1>3 DEF ReadDim
    <2>3. CASE RaiseError("E_NEGATIVE_DIM", cur.dimsAt, 0)
      BY <2>1, <2>3, RefusalRefines DEF RaiseError, Rejected
    <2>4. CASE Goto("dim") \/ Goto("tensorType")
      <3>1. pc' \in {"dim", "tensorType"} /\ verdict' = verdict /\ cur'.entryAt = cur.entryAt
        BY <1>0, <2>2, <2>4 DEF Goto, Locals
      <3>2. (InKv \/ InTensor) /\ InKv' = InKv /\ InTensor' = InTensor
        BY <2>1, <3>1 DEF InKv, InTensor, StringReads, KvReads, TensorReads
      <3>3. Behind' \in {12, 20} /\ Behind = 12 /\ Width = 8
        BY <2>1, <3>1 DEF Behind, StringReads, Width
      <3>4. Behind' \in Nat /\ Behind' <= Behind + Width
        BY <3>3
      <3> QED BY <2>1, <3>1, <3>2, <3>4, ReadRefines
    <2> QED BY <2>2, <2>3, <2>4
  <1>4. CASE ReadTensorType
    <2>1. /\ Reading("tensorType") /\ pc = "tensorType" /\ pc' = "tensorOffset"
          /\ cur'.entryAt = cur.entryAt
          /\ UNCHANGED <<verdict, nTensors, nKv, kv, tensors>>
      BY <1>0, <1>4, ReadingAdvances DEF ReadTensorType, Goto, header, tables, Locals
    <2>2. (InKv \/ InTensor) /\ InKv' = InKv /\ InTensor' = InTensor
      BY <2>1 DEF InKv, InTensor, StringReads, KvReads, TensorReads
    <2>3. Behind' = 24 /\ Behind = 20 /\ Width = 4
      BY <2>1 DEF Behind, StringReads, Width
    <2>4. Behind' \in Nat /\ Behind' <= Behind + Width
      BY <2>3
    <2> QED BY <2>1, <2>2, <2>4, ReadRefines
  <1>5. CASE ReadTensorOffset
    <2>1. /\ Reading("tensorOffset") /\ pc = "tensorOffset" /\ InTensor
          /\ len' = len /\ pos' <= len' /\ pos' = pos + Width /\ Width = 8 /\ Behind = 24
          /\ UNCHANGED <<nTensors, nKv, kv>>
      BY <1>0, <1>5, ReadingAdvances
      DEF ReadTensorOffset, header, InTensor, TensorReads, StringReads, Width, Behind
    <2>2. CASE \E c, at, n : RaiseError(c, at, n)
      BY <2>1, <2>2, RefusalRefines DEF RaiseError, Rejected
    <2>3. CASE (\E t : tensors' = Append(tensors, t)) /\ Goto("tensor")
      <3>1. pc' = "tensor" /\ verdict' = verdict /\ Len(tensors') = Len(tensors) + 1
        BY <1>0, <2>3 DEF Goto, TypeOK
      <3>2. cur.entryAt \in Nat /\ pos \in Nat /\ cur.entryAt + Behind <= pos
        BY <1>0, <2>1 DEF TypeOK, Locals, Counting
      <3>3. cur.entryAt + 32 <= pos + Width
        BY <2>1, <3>2
      <3> QED BY <2>1, <3>1, <3>3, TakingTensorRefines
    <2> QED BY <1>5, <2>2, <2>3 DEF ReadTensorOffset
  <1>6. CASE Finish
    <2>1. /\ pc = "tensor" /\ pc' = "done" /\ Len(tensors) = nTensors /\ verdict' = Parsed
          /\ UNCHANGED <<len, pos, nTensors, nKv, kv, tensors>>
      BY <1>6 DEF Finish, readerVars, header, tables
    <2>2. Len(kv) = nKv /\ nKv \in Nat /\ nTensors \in Nat
      BY <1>0, <2>1 DEF Counting, TypeOK
    <2>3. Counting'
      BY <2>1, <2>2 DEF Counting, BeforeTables, InKv, InTensor, HeaderReads, KvReads, TensorReads, StringReads
    <2>4. InTables /\ ~InTables' /\ BetweenRecords /\ Parsed # Pending
      BY <2>1 DEF InTables, BetweenRecords, KvReads, TensorReads, StringReads, Parsed, Pending
    <2>5. StreamStage = "tables" /\ StreamStage' = "whole"
      BY <2>1, <2>4 DEF StreamStage, Refused
    <2>6. StreamKvLeft = 0 /\ StreamTensorsLeft = 0
      BY <2>1, <2>2, <2>4 DEF StreamKvLeft, StreamTensorsLeft
    <2>7. StreamKvLeft' = 0 /\ StreamTensorsLeft' = 0 /\ StreamSpent' = StreamSpent
      BY <2>1, <2>4 DEF StreamKvLeft, StreamTensorsLeft, StreamSpent
    <2>8. Stream!Deliver
      BY <2>1, <2>5, <2>6, <2>7 DEF Stream!Deliver
    <2> QED BY <2>3, <2>8 DEF Simulates, Stream!Next
  <1> QED BY <1>1, <1>2, <1>3, <1>4, <1>5, <1>6 DEF ReadTensor

\* Every read of parse_gguf announces, takes a record, delivers, refuses, or is
\* not seen in the stream.
THEOREM StepRefines == RInv /\ [Next]_vars => RInv' /\ Simulates
  <1> SUFFICES ASSUME RInv, [Next]_vars PROVE RInv' /\ Simulates
    OBVIOUS
  <1>1. IInv'
    BY StepIsInductive DEF RInv
  <1>2. CASE UNCHANGED vars
    <2>1. Counting'
      BY <1>2 DEF RInv, Counting, BeforeTables, InKv, InTensor, Behind, vars
    <2>2. UNCHANGED Stream!vars
      BY <1>2 DEF Stream!vars, StreamStage, StreamKvLeft, StreamTensorsLeft, StreamSpent,
         InTables, BetweenRecords, Refused, vars
    <2> QED BY <1>1, <2>1, <2>2 DEF RInv, Simulates
  <1>3. CASE Step
    BY <1>1, <1>3, ReadFailureRefines, HeaderRefines, StringRefines, KvRefines, TensorRefines
    DEF Step, RInv
  <1> QED BY <1>2, <1>3 DEF Next, Done

(***************************************************************************)
(* Counting is an invariant: between two records the tables hold no more   *)
(* entries than the header announced, all pairs precede the first tensor   *)
(* info, and every record has cost its smallest encoding by its end.       *)
(***************************************************************************)
THEOREM RecordsAreCounted == Spec => []Counting
  <1>1. Init => RInv
    BY InitRefines
  <1>2. RInv /\ [Next]_vars => RInv'
    BY StepRefines
  <1>3. RInv => Counting
    BY DEF RInv
  <1> QED BY <1>1, <1>2, <1>3, PTL DEF Spec

(***************************************************************************)
(* parse_gguf implements RecordStream, on every file.                      *)
(***************************************************************************)
THEOREM ParserImplementsStream == Spec => StreamSpec
  <1>1. Init => RInv /\ Stream!Init
    BY InitRefines
  <1>2. RInv /\ [Next]_vars => RInv' /\ [Stream!Next]_Stream!vars
    BY StepRefines DEF Simulates
  <1> QED BY <1>1, <1>2, PTL DEF Spec, StreamSpec, Stream!Spec

-----------------------------------------------------------------------------
(***************************************************************************)
(* Refusals.  While an exception is on its way to the handler, Damage says *)
(* what it knows of the file; and where the offsets lie that a check may   *)
(* quote.                                                                  *)
(***************************************************************************)
Damage ==
    /\ raised.exc \in {"Eof", "OverAlloc"} => raised.at = pos
    /\ raised.exc = "Eof" /\ pc # "done" => Width > Remaining
    /\ raised.exc = "OverAlloc" /\ pc # "done" => MaxChunk < Width /\ Width <= Remaining
    /\ raised.exc = "BadString" => cur.entryAt <= raised.at /\ raised.at < pos
    /\ BeforeTables => cur.entryAt = 0
    /\ pc \in {"elemType", "arrayCount"} => cur.entryAt <= cur.valueAt /\ cur.valueAt <= pos
    /\ pc = "dim" => cur.entryAt <= cur.dimsAt /\ cur.dimsAt <= pos

Grounded == RejectionsAreJustified /\ FaultIsLocated

DInv == RInv /\ Damage /\ Grounded

\* What the offsets and widths of a state with pc # "done" are.
LEMMA DamageTypes ==
    ASSUME DInv
    PROVE  /\ pos \in Nat /\ len \in Nat /\ pos <= len /\ cur \in Locals /\ cur.entryAt \in Nat
           /\ Width \in Nat /\ MaxChunk \in Nat /\ CountSanity \in Nat
           /\ raised \in [exc : Exceptions \cup {"none"}, at : Nat]
           /\ InKv \/ InTensor => cur.entryAt + Behind <= pos
  BY FieldValues, WidthIsNat DEF DInv, RInv, IInv, TypeOK, Locals, Counting

\* As long as the parser runs, there is no refusal to account for.
LEMMA PendingIsGrounded == ASSUME verdict = Pending PROVE Grounded
  BY DEF Grounded, RejectionsAreJustified, FaultIsLocated, Pending, TruncationCodes, NoText

LEMMA PendingPersists == ASSUME verdict' = verdict, verdict = Pending PROVE Grounded'
  BY DEF Grounded, RejectionsAreJustified, FaultIsLocated, Pending, TruncationCodes, NoText

\* A check that refuses a number it has read, at a field that was read.
LEMMA CheckedRefusal ==
    ASSUME NEW c, c \notin TruncationCodes \cup {"E_HUGE_ALLOC", "E_TRUNCATED_KV_VALUE"},
           NEW at, NEW n, RaiseError(c, at, n), raised' = Quiet,
           at = Nowhere \/ (cur'.entryAt <= at /\ at < pos')
    PROVE  Grounded'
  BY DEF RaiseError, Rejected, Grounded, RejectionsAreJustified, FaultIsLocated, Quiet,
     TruncationCodes

\* A read that fails, and the except clause that turns it into a code.
LEMMA FailuresAreGrounded ==
    ASSUME DInv, ReadFails \/ ReadBadText \/ Handle \/ Open
    PROVE  Damage' /\ Grounded'
  <1>0. /\ Counting /\ Control /\ Damage /\ Grounded
        /\ pc # "done" => verdict = Pending
    BY DEF DInv, RInv, IInv, Counting
  <1>1. CASE ReadFails
    <2>1. /\ UNCHANGED <<len, pos, pc, cur, verdict>> /\ pc \in Reads /\ pc # "done"
          /\ ~Grants(Width)
          /\ raised' = Raising(IF CrossesEnd(Width) THEN "Eof" ELSE "OverAlloc", pos)
      BY <1>1 DEF ReadFails, Refuse, Reads, HeaderReads, KvReads, TensorReads, StringReads
    <2>2. Width' = Width /\ Remaining' = Remaining /\ BeforeTables' = BeforeTables
      BY <2>1 DEF Width, Remaining, BeforeTables
    <2>3. IF CrossesEnd(Width) THEN Width > Remaining ELSE MaxChunk < Width /\ Width <= Remaining
      BY <2>1, DamageTypes DEF CrossesEnd, Grants, Remaining
    <2>4. Damage'
      BY <1>0, <2>1, <2>2, <2>3 DEF Damage, Raising
    <2>5. verdict' = Pending
      BY <1>0, <2>1
    <2>6. Grounded'
      BY <2>5 DEF Grounded, RejectionsAreJustified, FaultIsLocated, Pending, TruncationCodes, NoText
    <2> QED BY <2>4, <2>6
  <1>2. CASE ReadBadText
    <2>1. /\ UNCHANGED <<len, pc, cur, verdict>> /\ pc = "strText"
          /\ cur.slen \in Nat /\ cur.slen > 0 /\ pos' = pos + cur.slen
          /\ raised' = Raising("BadString", pos' - cur.slen)
      BY <1>2, DamageTypes DEF ReadBadText, AdvanceOverBadText, Locals
    <2>2. pos' \in Nat /\ raised'.at = pos /\ raised'.exc = "BadString" /\ pos < pos'
      BY <2>1, DamageTypes DEF Raising
    <2>3. cur.entryAt <= pos
      <3>1. InKv \/ InTensor
        BY <2>1 DEF InKv, InTensor, StringReads
      <3>2. Behind \in Nat
        BY DEF Behind
      <3> QED BY <3>1, <3>2, DamageTypes
    <2>4. Damage'
      BY <2>1, <2>2, <2>3 DEF Damage, BeforeTables, HeaderReads
    <2>5. verdict' = Pending
      BY <1>0, <2>1
    <2>6. Grounded'
      BY <2>5 DEF Grounded, RejectionsAreJustified, FaultIsLocated, Pending, TruncationCodes, NoText
    <2> QED BY <2>4, <2>6
  <1>3. CASE Handle
    <2>1. /\ UNCHANGED <<len, pos, raised, cur>> /\ pc \in Reads /\ pc # "done" /\ pc' = "done"
          /\ raised # Quiet
      BY <1>3 DEF Handle, readerVars, Reads, HeaderReads, KvReads, TensorReads, StringReads
    <2>2. Damage'
      BY <1>0, <2>1 DEF Damage, BeforeTables, HeaderReads
    <2>3. raised.exc \in Exceptions
      BY <1>0, <2>1, DamageTypes DEF Control
    <2>4. verdict' = Rejected(HandlerCode(Section, raised.exc), raised.at, Width)
      <3>1. verdict'.kind # "crashed"
        BY <1>0, <1>3, FailureIsInductive DEF DInv, RInv, IInv, Control
      <3> QED BY <1>3, <3>1 DEF Handle, Crashed
    <2>5. Remaining' = Remaining /\ Remaining \in Int
      BY <2>1, DamageTypes DEF Remaining
    <2>6. CASE raised.exc = "Eof"
      <3>1. verdict'.code \in TruncationCodes /\ verdict'.claim = Width /\ verdict'.at = pos
        BY <1>0, <2>4, <2>6 DEF Rejected, HandlerCode, TruncationCode, TruncationCodes, Damage
      <3>2. Width > Remaining
        BY <1>0, <2>1, <2>6 DEF Damage
      <3> QED BY <2>1, <2>2, <2>5, <3>1, <3>2
              DEF Grounded, RejectionsAreJustified, FaultIsLocated, TruncationCodes
    <2>7. CASE raised.exc = "OverAlloc"
      <3>1. verdict'.code = "E_HUGE_ALLOC" /\ verdict'.claim = Width /\ verdict'.at = pos
        BY <1>0, <2>4, <2>7 DEF Rejected, HandlerCode, Damage
      <3>2. MaxChunk < Width /\ Width <= Remaining
        BY <1>0, <2>1, <2>7 DEF Damage
      <3>3. raised'.exc = "OverAlloc" /\ pos' = pos
        BY <2>1, <2>7
      <3>4. MaxChunk < verdict'.claim /\ verdict'.claim <= Remaining'
        BY <2>5, <3>1, <3>2
      <3>5. RejectionsAreJustified'
        BY <3>1, <3>3, <3>4 DEF RejectionsAreJustified, TruncationCodes
      <3>6. FaultIsLocated'
        BY <3>1, <3>3 DEF FaultIsLocated
      <3> QED BY <2>2, <3>5, <3>6 DEF Grounded
    <2>8. CASE raised.exc = "BadString"
      <3>1. verdict'.code = "E_BAD_STRING" /\ verdict'.at = raised.at
        BY <2>4, <2>8 DEF Rejected, HandlerCode
      <3>2. cur.entryAt <= raised.at /\ raised.at < pos
        BY <1>0, <2>8 DEF Damage
      <3> QED BY <2>1, <2>2, <2>8, <3>1, <3>2
              DEF Grounded, RejectionsAreJustified, FaultIsLocated, TruncationCodes
    <2> QED BY <2>3, <2>6, <2>7, <2>8 DEF Exceptions
  <1>4. CASE Open
    <2>1. pc = "open" /\ raised = Quiet /\ UNCHANGED <<len, pos, raised, cur>> /\ cur.entryAt = 0
      BY <1>0, <1>4 DEF Open, readerVars, Control, Damage, BeforeTables,
         Reads, HeaderReads, KvReads, TensorReads, StringReads
    <2>2. Damage' \/ pc' \notin {"done", "magic"}
      BY <2>1 DEF Damage, BeforeTables, HeaderReads, Quiet
    <2>3. pc' \in {"done", "magic"}
      BY <1>4 DEF Open, RaiseError, Goto
    <2>4. Grounded'
      <3>1. CASE verdict' = Pending
        BY <3>1 DEF Grounded, RejectionsAreJustified, FaultIsLocated, Pending, TruncationCodes, NoText
      <3>2. CASE RaiseError("E_ZERO_FILE", Nowhere, 0)
        BY <2>1, <3>2, CheckedRefusal DEF TruncationCodes
      <3>3. CASE len < 4 /\ RaiseError("E_TRUNCATED_HEADER", Nowhere, 0)
        BY <2>1, <3>3 DEF RaiseError, Rejected, Grounded, RejectionsAreJustified, FaultIsLocated,
           TruncationCodes, Nowhere
      <3> QED BY <1>0, <1>4, <2>1, <3>1, <3>2, <3>3 DEF Open, Goto
    <2> QED BY <2>2, <2>3, <2>4
  <1> QED BY <1>1, <1>2, <1>3, <1>4

\* A step that succeeds, leaves the header behind and quotes no offset yet.
LEMMA QuietStepIsGrounded ==
    ASSUME DInv, pc # "done", raised' = Quiet, verdict' = verdict, ~BeforeTables',
           pc' \notin {"elemType", "arrayCount", "dim"}
    PROVE  Damage' /\ Grounded'
  <1>1. verdict = Pending
    BY DEF DInv, RInv, Counting
  <1>2. Damage'
    BY DEF Damage, Quiet
  <1>3. Grounded'
    BY <1>1, PendingIsGrounded, PendingPersists
  <1> QED BY <1>2, <1>3

\* A check that refuses what it has just read: nothing is left to establish
\* but that the refusal is grounded.
LEMMA RefusalIsQuiet ==
    ASSUME raised' = Quiet, pc' = "done" PROVE Damage'
  BY DEF Damage, Quiet, BeforeTables, HeaderReads

LEMMA HeaderIsGrounded == ASSUME DInv, ReadHeader PROVE Damage' /\ Grounded'
  <1>0. /\ Counting /\ Damage /\ TypeOK
        /\ pc # "done" => verdict = Pending
    BY DEF DInv, RInv, IInv, Counting
  <1>1. ASSUME BeforeTables', raised' = Quiet, cur' = cur, BeforeTables, verdict' = verdict
        PROVE  Damage' /\ Grounded'
    <2>1. Damage'
      BY <1>0, <1>1 DEF Damage, Quiet, BeforeTables, HeaderReads
    <2>2. verdict = Pending
      BY <1>0, <1>1 DEF BeforeTables, HeaderReads
    <2> QED BY <1>1, <2>1, <2>2, PendingPersists, <1>0
  <1>2. CASE ReadMagic
    <2>1. pc = "magic" /\ raised' = Quiet /\ cur' = cur
      BY <1>0, <1>2, ReadingAdvances DEF ReadMagic
    <2>2. CASE Goto("version")
      BY <1>1, <2>1, <2>2 DEF Goto, BeforeTables, HeaderReads
    <2>3. CASE RaiseError("E_MAGIC", Nowhere, 0)
      BY <2>1, <2>3, CheckedRefusal, RefusalIsQuiet DEF TruncationCodes, RaiseError
    <2> QED BY <1>2, <2>2, <2>3 DEF ReadMagic
  <1>3. CASE ReadVersion
    <2>1. pc = "version" /\ raised' = Quiet /\ cur' = cur
      BY <1>0, <1>3, ReadingAdvances DEF ReadVersion
    <2> QED BY <1>1, <1>3, <2>1 DEF ReadVersion, Goto, BeforeTables, HeaderReads
  <1>4. ASSUME NEW raw \in Counts, NEW m \in {13, 16}, RejectCount(raw, m), raised' = Quiet,
               cur' = cur, cur.entryAt = 0, len' = len, pos' = pos + 8,
               \/ m = 16 /\ pos = 8
               \/ m = 13 /\ pos = 16
        PROVE  Damage' /\ Grounded'
    <2>1. raw \in Nat /\ pos \in Nat /\ len \in Nat
      BY <1>0, FieldValues DEF TypeOK
    <2>2. CASE RaiseError("E_NEGATIVE_COUNT", pos, raw)
      <3>1. cur'.entryAt <= pos /\ pos < pos'
        BY <1>4, <2>1
      <3> QED BY <1>4, <2>2, <3>1, CheckedRefusal, RefusalIsQuiet DEF TruncationCodes, RaiseError
    <2>3. CASE CountTooBig(raw, m) /\ RaiseError("E_HUGE_ALLOC", Nowhere, raw)
      <3>1. \/ raw > CountSanity
            \/ pos' = 16 /\ raw * SmallestTensor > Remaining'
            \/ pos' = 24 /\ raw * SmallestKv > Remaining'
        BY <1>4, <2>1, <2>3, FieldValues DEF CountTooBig, Remaining, SmallestTensor, SmallestKv
      <3>2. /\ verdict'.code = "E_HUGE_ALLOC" /\ verdict'.claim = raw /\ verdict'.at = Nowhere
            /\ pc' = "done"
        BY <2>3 DEF RaiseError, Rejected
      <3>3. raised'.exc # "OverAlloc"
        BY <1>4 DEF Quiet
      <3> QED BY <1>4, <3>1, <3>2, <3>3, RefusalIsQuiet
              DEF Grounded, RejectionsAreJustified, FaultIsLocated, TruncationCodes
    <2> QED BY <1>4, <2>2, <2>3 DEF RejectCount
  <1>5. CASE ReadNTensors
    <2>1. /\ pc = "nTensors" /\ pos = 8 /\ raised' = Quiet /\ cur' = cur /\ cur.entryAt = 0
          /\ len' = len /\ pos' = pos + 8
      BY <1>0, <1>5, ReadingAdvances
      DEF ReadNTensors, Counting, Damage, BeforeTables, HeaderReads, Width
    <2>2. CASE Goto("nKv")
      BY <1>1, <2>1, <2>2 DEF Goto, BeforeTables, HeaderReads
    <2>3. CASE \E raw \in Counts : RejectCount(raw, 16)
      BY <1>4, <2>1, <2>3
    <2> QED BY <1>5, <2>2, <2>3 DEF ReadNTensors
  <1>6. CASE ReadNKv
    <2>1. /\ pc = "nKv" /\ pos = 16 /\ raised' = Quiet /\ cur' = cur /\ cur.entryAt = 0
          /\ len' = len /\ pos' = pos + 8
      BY <1>0, <1>6, ReadingAdvances
      DEF ReadNKv, Counting, Damage, BeforeTables, HeaderReads, Width
    <2>2. CASE Goto("kv")
      BY <2>1, <2>2, QuietStepIsGrounded DEF Goto, BeforeTables, HeaderReads
    <2>3. CASE \E raw \in Counts : RejectCount(raw, 13)
      BY <1>4, <2>1, <2>3
    <2>4. CASE RaiseError("E_VERSION", 4, version)
      <3>1. cur'.entryAt <= 4 /\ 4 < pos'
        BY <2>1
      <3> QED BY <2>1, <2>4, <3>1, CheckedRefusal, RefusalIsQuiet DEF TruncationCodes, RaiseError
    <2> QED BY <1>6, <2>2, <2>3, <2>4 DEF ReadNKv
  <1> QED BY <1>2, <1>3, <1>5, <1>6 DEF ReadHeader

\* A read inside a record: bytes that can be quoted lie behind the cursor.
LEMMA ReadQuotes ==
    ASSUME DInv, NEW p, Reading(p), InKv \/ InTensor
    PROVE  /\ pc = p /\ raised' = Quiet /\ pos \in Nat /\ pos' = pos + Width /\ len' = len
           /\ cur \in Locals /\ cur.entryAt \in Nat /\ cur.entryAt + Behind <= pos
           /\ Damage /\ verdict = Pending
  <1>1. TypeOK /\ Counting /\ Damage
    BY DEF DInv, RInv, IInv
  <1>2. pc # "done"
    BY DEF InKv, InTensor, KvReads, TensorReads, StringReads
  <1> QED BY <1>1, <1>2, ReadingAdvances DEF TypeOK, Locals, Counting

LEMMA StringIsGrounded ==
    ASSUME DInv, ReadStringLength \/ ReadText PROVE Damage' /\ Grounded'
  <1>1. CASE ReadStringLength
    <2>1. Reading("strLen") /\ pc = "strLen"
      BY <1>1 DEF ReadStringLength, Reading
    <2>2. (InKv \/ InTensor) /\ Width = 8 /\ Behind \in Nat
      BY <2>1 DEF InKv, InTensor, StringReads, Width, Behind
    <2>3. /\ raised' = Quiet /\ cur.entryAt <= pos /\ pos < pos'
      BY <2>1, <2>2, ReadQuotes
    <2>4. CASE \E n : RaiseError("E_NEGATIVE_COUNT", pos, n) /\ UNCHANGED cur
      BY <2>3, <2>4, CheckedRefusal, RefusalIsQuiet DEF TruncationCodes, RaiseError
    <2>5. CASE Goto("strText")
      BY <2>1, <2>3, <2>5, QuietStepIsGrounded DEF Goto, BeforeTables, HeaderReads
    <2> QED BY <1>1, <2>4, <2>5 DEF ReadStringLength
  <1>2. CASE ReadText
    <2>1. Reading("strText") /\ pc = "strText"
      BY <1>2 DEF ReadText, Reading
    <2>2. InKv \/ InTensor
      BY <2>1 DEF InKv, InTensor, StringReads
    <2>3. verdict' = verdict /\ pc' \in {"kvType", "nDims", "kv", "items"}
      BY <1>2 DEF ReadText, PutKv, PutItem, Goto
    <2> QED BY <2>1, <2>2, <2>3, ReadQuotes, QuietStepIsGrounded DEF BeforeTables, HeaderReads
  <1> QED BY <1>1, <1>2

LEMMA KvIsGrounded == ASSUME DInv, ReadKv \/ ResolveAlignment PROVE Damage' /\ Grounded'
  <1>0. /\ Counting /\ Damage /\ Control /\ TypeOK /\ cur \in Locals
        /\ pc # "done" => verdict = Pending
    BY DEF DInv, RInv, IInv, TypeOK, Counting
  <1>1. CASE BeginKv \/ NextItem \/ ResolveAlignment
    <2>1. /\ pc \in {"kv", "items"} /\ raised' = raised /\ verdict' = verdict
          /\ pc' \in {"strLen", "elem", "kv", "tensor"}
      BY <1>1 DEF BeginKv, NextItem, ResolveAlignment, readerVars, ExpectString, PutKv, Goto
    <2>2. raised = Quiet
      BY <1>0, <2>1 DEF Control, Reads, HeaderReads, KvReads, TensorReads, StringReads
    <2> QED BY <2>1, <2>2, QuietStepIsGrounded DEF BeforeTables, HeaderReads
  <1>2. CASE ReadScalar \/ ReadItem
    <2>1. /\ pc \in {"scalar", "elem"} /\ Reading(pc) /\ verdict' = verdict
          /\ pc' \in {"kv", "items"}
      BY <1>2 DEF ReadScalar, ReadItem, Reading, PutKv, PutItem, Goto
    <2>2. InKv
      BY <2>1 DEF InKv, KvReads
    <2> QED BY <2>1, <2>2, ReadQuotes, QuietStepIsGrounded DEF BeforeTables, HeaderReads
  <1>3. CASE ReadKvType
    <2>1. Reading("kvType") /\ pc = "kvType"
      BY <1>3 DEF ReadKvType, Reading
    <2>2. InKv /\ Width = 4 /\ Behind = 8
      BY <2>1 DEF InKv, KvReads, StringReads, Width, Behind
    <2>3. /\ raised' = Quiet /\ cur.entryAt <= pos /\ pos < pos' /\ pos' \in Nat /\ cur.entryAt <= pos'
      BY <2>1, <2>2, ReadQuotes
    <2>4. PICK t \in KvTypes :
             \/ RaiseError("E_BAD_KV_TYPE", pos, t) /\ UNCHANGED cur
             \/ /\ cur' = [cur EXCEPT !.type = t, !.valueAt = pos', !.goal = "value"]
                /\ Goto(IF t = Str THEN "strLen" ELSE IF t = Array THEN "elemType" ELSE "scalar")
      BY <1>3, Zenon DEF ReadKvType
    <2>5. CASE RaiseError("E_BAD_KV_TYPE", pos, t) /\ UNCHANGED cur
      BY <2>3, <2>5, CheckedRefusal, RefusalIsQuiet DEF TruncationCodes, RaiseError
    <2>6. CASE /\ cur' = [cur EXCEPT !.type = t, !.valueAt = pos', !.goal = "value"]
               /\ Goto(IF t = Str THEN "strLen" ELSE IF t = Array THEN "elemType" ELSE "scalar")
      <3>1. /\ cur'.entryAt = cur.entryAt /\ cur'.valueAt = pos' /\ verdict' = verdict
            /\ pc' \in {"strLen", "elemType", "scalar"}
        BY <1>0, <2>6 DEF Locals, Goto
      <3>2. Damage'
        BY <2>3, <3>1 DEF Damage, Quiet, BeforeTables, HeaderReads
      <3> QED BY <1>0, <2>1, <3>1, <3>2, PendingPersists
    <2> QED BY <2>4, <2>5, <2>6
  <1>4. CASE ReadElemType
    <2>1. Reading("elemType") /\ pc = "elemType" /\ pc' = "arrayCount" /\ verdict' = verdict
      BY <1>4 DEF ReadElemType, Reading, Goto
    <2>2. InKv /\ Width = 4
      BY <2>1 DEF InKv, KvReads, Width
    <2>3. raised' = Quiet /\ cur.entryAt <= cur.valueAt /\ cur.valueAt <= pos'
      <3>1. cur.valueAt \in Nat /\ cur.entryAt <= cur.valueAt /\ cur.valueAt <= pos
        BY <1>0, <2>1 DEF Damage, Locals
      <3> QED BY <2>1, <2>2, <3>1, ReadQuotes
    <2>4. cur'.entryAt = cur.entryAt /\ cur'.valueAt = cur.valueAt
      BY <1>0, <1>4 DEF ReadElemType, Locals
    <2>5. Damage'
      BY <2>1, <2>3, <2>4 DEF Damage, Quiet, BeforeTables, HeaderReads
    <2> QED BY <1>0, <2>1, <2>5, PendingPersists
  <1>5. CASE ReadArrayCount
    <2>1. Reading("arrayCount") /\ pc = "arrayCount"
      BY <1>5 DEF ReadArrayCount, Reading
    <2>2. InKv /\ Width = 8 /\ Behind = 16
      BY <2>1 DEF InKv, KvReads, StringReads, Width, Behind
    <2>3. /\ raised' = Quiet /\ pos' = pos + 8 /\ pos \in Nat /\ len' = len
          /\ cur.entryAt <= pos /\ cur.entryAt <= pos' - 12 /\ pos' - 12 < pos' /\ pos < pos'
      BY <2>1, <2>2, ReadQuotes
    <2>4. cur.valueAt \in Nat /\ cur.entryAt <= cur.valueAt /\ cur.valueAt < pos'
      BY <1>0, <2>1, <2>3 DEF Damage, Locals
    <2>5. PICK n \in ArrayCounts :
             \/ RaiseError("E_BAD_KV_TYPE", pos' - 12, cur.elem) /\ UNCHANGED cur
             \/ RaiseError("E_NEGATIVE_COUNT", pos, n) /\ UNCHANGED cur
             \/ n > CountSanity /\ RaiseError("E_HUGE_ALLOC", pos, n) /\ UNCHANGED cur
             \/ /\ cur.elem \in ValueTypes \ {Array}
                /\ n * ElemMin(cur.elem) > len - pos'
                /\ RaiseError("E_TRUNCATED_KV_VALUE", cur.valueAt, n) /\ UNCHANGED cur
             \/ Goto("items")
      BY <1>5 DEF ReadArrayCount
    <2>6. CASE RaiseError("E_BAD_KV_TYPE", pos' - 12, cur.elem) /\ UNCHANGED cur
      BY <2>3, <2>6, CheckedRefusal, RefusalIsQuiet DEF TruncationCodes, RaiseError
    <2>7. CASE RaiseError("E_NEGATIVE_COUNT", pos, n) /\ UNCHANGED cur
      BY <2>3, <2>7, CheckedRefusal, RefusalIsQuiet DEF TruncationCodes, RaiseError
    <2>8. CASE n > CountSanity /\ RaiseError("E_HUGE_ALLOC", pos, n) /\ UNCHANGED cur
      <3>1. /\ verdict'.code = "E_HUGE_ALLOC" /\ verdict'.claim = n /\ verdict'.at = pos
            /\ pc' = "done"
        BY <2>8 DEF RaiseError, Rejected
      <3> QED BY <2>3, <2>8, <3>1, RefusalIsQuiet
              DEF Grounded, RejectionsAreJustified, FaultIsLocated, TruncationCodes, Quiet
    <2>9. CASE /\ cur.elem \in ValueTypes \ {Array}
               /\ n * ElemMin(cur.elem) > len - pos'
               /\ RaiseError("E_TRUNCATED_KV_VALUE", cur.valueAt, n) /\ UNCHANGED cur
      <3>1. /\ verdict'.code = "E_TRUNCATED_KV_VALUE" /\ verdict'.claim = n
            /\ verdict'.at = cur.valueAt /\ pc' = "done"
        BY <2>9 DEF RaiseError, Rejected
      <3>2. n * SmallestItem(cur.elem) > Remaining'
        <4>1. n \in Nat /\ len \in Int /\ Remaining' = len - pos'
          BY <2>3, FieldValues, DamageTypes DEF Remaining
        <4>2. \/ cur.elem = Str /\ ElemMin(cur.elem) = 4 /\ SmallestItem(cur.elem) = 8
              \/ ElemMin(cur.elem) = 1 /\ SmallestItem(cur.elem) = 1
              \/ ElemMin(cur.elem) = 2 /\ SmallestItem(cur.elem) \in {2, 4, 8}
          BY <2>9 DEF ElemMin, SmallestItem, ScalarBytes, Str, Bool
        <4> QED BY <2>3, <2>9, <4>1, <4>2
      <3> QED BY <2>3, <2>4, <2>9, <3>1, <3>2, RefusalIsQuiet
              DEF Grounded, RejectionsAreJustified, FaultIsLocated, TruncationCodes, Quiet
    <2>10. CASE Goto("items")
      BY <2>1, <2>3, <2>10, QuietStepIsGrounded DEF Goto, BeforeTables, HeaderReads
    <2> QED BY <2>5, <2>6, <2>7, <2>8, <2>9, <2>10
  <1> QED BY <1>1, <1>2, <1>3, <1>4, <1>5 DEF ReadKv

LEMMA TensorIsGrounded == ASSUME DInv, ReadTensor \/ Finish PROVE Damage' /\ Grounded'
  <1>0. /\ Counting /\ Damage /\ Control /\ TypeOK /\ cur \in Locals
        /\ pc # "done" => verdict = Pending
    BY DEF DInv, RInv, IInv, TypeOK, Counting
  <1>1. CASE BeginTensor \/ Finish
    <2>1. pc = "tensor" /\ raised' = raised
      BY <1>1 DEF BeginTensor, Finish, readerVars
    <2>2. raised = Quiet
      BY <1>0, <2>1 DEF Control, Reads, HeaderReads, KvReads, TensorReads, StringReads
    <2>3. CASE BeginTensor
      BY <2>1, <2>2, <2>3, QuietStepIsGrounded DEF BeginTensor, Goto, BeforeTables, HeaderReads
    <2>4. CASE Finish
      <3>1. verdict' = Parsed /\ pc' = "done"
        BY <2>4 DEF Finish
      <3>2. Grounded'
        BY <3>1 DEF Grounded, RejectionsAreJustified, FaultIsLocated, Parsed, Pending,
           TruncationCodes, NoText
      <3> QED BY <2>1, <2>2, <3>1, <3>2, RefusalIsQuiet
    <2> QED BY <1>1, <2>3, <2>4
  <1>2. CASE ReadNDims
    <2>1. Reading("nDims") /\ pc = "nDims"
      BY <1>2 DEF ReadNDims, Reading
    <2>2. InTensor /\ Width = 4 /\ Behind = 8
      BY <2>1 DEF InTensor, TensorReads, StringReads, Width, Behind
    <2>3. /\ raised' = Quiet /\ pos' \in Nat /\ cur.entryAt < pos' /\ cur.entryAt <= cur.entryAt
          /\ cur.entryAt <= pos'
      BY <2>1, <2>2, ReadQuotes
    <2>4. PICK n \in DimCounts :
             \/ RaiseError("E_TOO_MANY_DIMS", cur.entryAt, n) /\ UNCHANGED cur
             \/ cur' = [cur EXCEPT !.nDims = n, !.dimsAt = pos'] /\ Goto("dim")
      BY <1>2, Zenon DEF ReadNDims
    <2>5. CASE RaiseError("E_TOO_MANY_DIMS", cur.entryAt, n) /\ UNCHANGED cur
      BY <2>3, <2>5, CheckedRefusal, RefusalIsQuiet DEF TruncationCodes, RaiseError
    <2>6. CASE cur' = [cur EXCEPT !.nDims = n, !.dimsAt = pos'] /\ Goto("dim")
      <3>1. /\ cur'.entryAt = cur.entryAt /\ cur'.dimsAt = pos' /\ verdict' = verdict
            /\ pc' = "dim"
        BY <1>0, <2>6 DEF Locals, Goto
      <3>2. Damage'
        BY <2>3, <3>1 DEF Damage, Quiet, BeforeTables, HeaderReads
      <3> QED BY <1>0, <2>1, <3>1, <3>2, PendingPersists
    <2> QED BY <2>4, <2>5, <2>6
  <1>3. CASE ReadDim
    <2>1. Reading("dim") /\ pc = "dim"
      BY <1>3 DEF ReadDim, Reading
    <2>2. InTensor /\ Width = 8
      BY <2>1 DEF InTensor, TensorReads, Width
    <2>3. raised' = Quiet /\ cur.entryAt <= cur.dimsAt /\ cur.dimsAt < pos' /\ cur.dimsAt <= pos'
      <3>1. cur.dimsAt \in Nat /\ cur.entryAt <= cur.dimsAt /\ cur.dimsAt <= pos
        BY <1>0, <2>1 DEF Damage, Locals
      <3> QED BY <2>1, <2>2, <3>1, ReadQuotes
    <2>4. PICK d \in Dims :
             /\ cur' = [cur EXCEPT !.dims = Append(cur.dims, d), !.typeAt = pos']
             /\ \/ RaiseError("E_NEGATIVE_DIM", cur.dimsAt, 0)
                \/ Goto("dim")
                \/ Goto("tensorType")
      BY <1>3, Zenon DEF ReadDim
    <2>5. cur'.entryAt = cur.entryAt /\ cur'.dimsAt = cur.dimsAt
      BY <1>0, <2>4 DEF Locals
    <2>6. CASE RaiseError("E_NEGATIVE_DIM", cur.dimsAt, 0)
      BY <2>3, <2>5, <2>6, CheckedRefusal, RefusalIsQuiet DEF TruncationCodes, RaiseError
    <2>7. CASE Goto("dim") \/ Goto("tensorType")
      <3>1. verdict' = verdict /\ pc' \in {"dim", "tensorType"}
        BY <2>7 DEF Goto
      <3>2. Damage'
        BY <2>3, <2>5, <3>1 DEF Damage, Quiet, BeforeTables, HeaderReads
      <3> QED BY <1>0, <2>1, <3>1, <3>2, PendingPersists
    <2> QED BY <2>4, <2>6, <2>7
  <1>4. CASE ReadTensorType
    <2>1. /\ Reading("tensorType") /\ pc = "tensorType" /\ pc' = "tensorOffset"
          /\ verdict' = verdict
      BY <1>4 DEF ReadTensorType, Reading, Goto
    <2>2. InTensor
      BY <2>1 DEF InTensor, TensorReads
    <2> QED BY <2>1, <2>2, ReadQuotes, QuietStepIsGrounded DEF BeforeTables, HeaderReads
  <1>5. CASE ReadTensorOffset
    <2>1. Reading("tensorOffset") /\ pc = "tensorOffset" /\ cur' = cur
      BY <1>5 DEF ReadTensorOffset, Reading
    <2>2. InTensor /\ Width = 8 /\ Behind = 24
      BY <2>1 DEF InTensor, TensorReads, StringReads, Width, Behind
    <2>3. raised' = Quiet /\ cur.entryAt <= pos /\ pos < pos'
      BY <2>1, <2>2, ReadQuotes
    <2>4. CASE \E n : RaiseError("E_NEGATIVE_COUNT", pos, n)
      BY <2>1, <2>3, <2>4, CheckedRefusal, RefusalIsQuiet DEF TruncationCodes, RaiseError
    <2>5. CASE Goto("tensor")
      BY <2>1, <2>3, <2>5, QuietStepIsGrounded DEF Goto, BeforeTables, HeaderReads
    <2> QED BY <1>5, <2>4, <2>5 DEF ReadTensorOffset
  <1> QED BY <1>1, <1>2, <1>3, <1>4, <1>5 DEF ReadTensor

\* Damage and Grounded are invariants of parse_gguf on every file.
LEMMA DamageIsInductive == Spec => []DInv
  <1>1. Init => DInv
    <2> SUFFICES ASSUME Init PROVE DInv
      OBVIOUS
    <2>1. RInv
      BY InitRefines
    <2>2. Damage
      BY DEF Init, ReaderInit, Damage, Quiet, Fresh
    <2>3. Grounded
      BY PendingIsGrounded DEF Init
    <2> QED BY <2>1, <2>2, <2>3 DEF DInv
  <1>2. DInv /\ [Next]_vars => DInv'
    <2> SUFFICES ASSUME DInv, [Next]_vars PROVE DInv'
      OBVIOUS
    <2>1. RInv'
      BY StepRefines DEF DInv
    <2>2. CASE UNCHANGED vars
      BY <2>1, <2>2 DEF DInv, Damage, Grounded, RejectionsAreJustified, FaultIsLocated, vars,
         BeforeTables, Width, Remaining
    <2>3. CASE Step
      BY <2>1, <2>3, FailuresAreGrounded, HeaderIsGrounded, StringIsGrounded, KvIsGrounded,
         TensorIsGrounded
      DEF DInv, Step, ReadString
    <2> QED BY <2>2, <2>3 DEF Next, Done
  <1> QED BY <1>1, <1>2, PTL DEF Spec

(***************************************************************************)
(* On every file: what the size screens and the cursor refuse is not       *)
(* there, so no file that holds what it claims is lost.                    *)
(***************************************************************************)
THEOREM RefusalsAreJustified == Spec => []RejectionsAreJustified
  <1>1. DInv => RejectionsAreJustified
    BY DEF DInv, Grounded
  <1> QED BY <1>1, DamageIsInductive, PTL

(***************************************************************************)
(* On every file: a truncation is reported where the missing bytes would   *)
(* begin, any other located fault at a field that was read, inside the     *)
(* record under construction.                                              *)
(***************************************************************************)
THEOREM FaultsAreLocated == Spec => []FaultIsLocated
  <1>1. DInv => FaultIsLocated
    BY DEF DInv, Grounded
  <1> QED BY <1>1, DamageIsInductive, PTL

-----------------------------------------------------------------------------
(***************************************************************************)
(* Alignment.  It is resolved once, between the two tables, from a table   *)
(* of pairs that no later step extends; and until then a parser that is    *)
(* still running has recorded nothing, because the only earlier finding    *)
(* is the one _read_count leaves before it raises.                         *)
(***************************************************************************)
Late == InTensor \/ pc = "tensor" \/ verdict = Parsed

Warned == \E k \in DOMAIN findings : findings[k].code = "W_NO_ALIGNMENT"

Settled ==
    LET i == kvMap[AlignKey]
        usable == i # 0 /\ UsableAlignment(kv[i].value)
    IN  /\ alignment = IF usable THEN kv[i].value.n ELSE DefaultAlignment
        /\ Warned <=> i # 0 /\ ~usable

Resolved == IF Late THEN Settled ELSE verdict = Pending => findings = <<>>

\* The steps of the key/value table, and what none of them records.
LEMMA OnlyInKv ==
    ReadKv => /\ pc \in {"kv", "kvType", "scalar", "elemType", "arrayCount", "items", "elem"}
              /\ findings' = findings
  <1>1. BeginKv => pc = "kv" /\ findings' = findings
    BY DEF BeginKv
  <1>2. ReadKvType => pc = "kvType" /\ findings' = findings
    BY DEF ReadKvType, Reading
  <1>3. ReadScalar => pc = "scalar" /\ findings' = findings
    BY DEF ReadScalar, Reading
  <1>4. ReadElemType => pc = "elemType" /\ findings' = findings
    BY DEF ReadElemType, Reading
  <1>5. ReadArrayCount => pc = "arrayCount" /\ findings' = findings
    BY DEF ReadArrayCount, Reading
  <1>6. NextItem => pc = "items" /\ findings' = findings
    BY DEF NextItem
  <1>7. ReadItem => pc = "elem" /\ findings' = findings
    BY DEF ReadItem, Reading
  <1> QED BY <1>1, <1>2, <1>3, <1>4, <1>5, <1>6, <1>7 DEF ReadKv

\* From the tensor table on nothing that decides the alignment changes.
LEMMA LateSteps ==
    ASSUME RInv, Late, [Next]_vars
    PROVE  UNCHANGED <<kv, kvMap, alignment, findings>> /\ (Late' \/ pc' = "done")
  <1>0. /\ TypeOK /\ Counting /\ cur \in Locals
        /\ pc \in TensorReads \cup {"tensor", "done"} \/ (pc \in StringReads /\ cur.goal = "name")
    BY DEF RInv, IInv, TypeOK, Counting, Late, InTensor, Pending, Parsed
  <1>1. CASE UNCHANGED vars
    BY <1>1 DEF vars, Late, InTensor
  <1>2. CASE ReadFails \/ ReadBadText \/ Handle \/ Finish
    BY <1>0, <1>2 DEF ReadFails, ReadBadText, Handle, Finish, Late, InTensor, tables, Parsed, Reads,
       HeaderReads, KvReads, StringReads, TensorReads
  <1>3. CASE ReadStringLength
    <2>1. pc \in StringReads /\ cur.goal = "name"
      BY <1>0, <1>3 DEF ReadStringLength, Reading, StringReads, TensorReads
    <2>2. UNCHANGED <<kv, kvMap, alignment, findings>>
      BY <1>3 DEF ReadStringLength, tables
    <2>3. pc' = "done" \/ (pc' = "strText" /\ cur'.goal = cur.goal)
      BY <1>0, <1>3 DEF ReadStringLength, RaiseError, Goto, Locals
    <2> QED BY <2>1, <2>2, <2>3 DEF Late, InTensor, StringReads
  <1>4. CASE ReadText
    <2>1. cur.goal = "name"
      BY <1>0, <1>4 DEF ReadText, Reading, StringReads, TensorReads
    <2>2. UNCHANGED <<kv, kvMap, alignment, findings>> /\ pc' = "nDims"
      BY <1>4, <2>1 DEF ReadText, tables, Goto
    <2> QED BY <2>2 DEF Late, InTensor, TensorReads
  <1>5. CASE BeginTensor
    BY <1>0, <1>5 DEF BeginTensor, Fresh, Goto, tables, Late, InTensor, StringReads
  <1>6. CASE ReadNDims \/ ReadDim \/ ReadTensorType \/ ReadTensorOffset
    <2>1. /\ UNCHANGED <<kv, kvMap, alignment, findings>>
          /\ pc' \in {"done", "dim", "tensorType", "tensorOffset", "tensor"}
      <3>1. CASE ReadNDims
        BY <3>1 DEF ReadNDims, RaiseError, Goto, tables
      <3>2. CASE ReadDim
        BY <3>2 DEF ReadDim, RaiseError, Goto, tables
      <3>3. CASE ReadTensorType
        BY <3>3 DEF ReadTensorType, Goto, tables
      <3>4. CASE ReadTensorOffset
        BY <3>4 DEF ReadTensorOffset, RaiseError, Goto
      <3> QED BY <1>6, <3>1, <3>2, <3>3, <3>4
    <2> QED BY <2>1 DEF Late, InTensor, TensorReads
  <1>7. ~(Open \/ ReadHeader \/ ReadKv \/ ResolveAlignment)
    <2>1. ~Open /\ ~ResolveAlignment
      BY <1>0 DEF Open, ResolveAlignment, StringReads, TensorReads
    <2>2. ~ReadHeader
      BY <1>0 DEF ReadHeader, ReadMagic, ReadVersion, ReadNTensors, ReadNKv, Reading, StringReads,
         TensorReads
    <2>3. ~ReadKv
      BY <1>0, OnlyInKv DEF StringReads, TensorReads
    <2> QED BY <2>1, <2>2, <2>3
  <1> QED BY <1>1, <1>2, <1>3, <1>4, <1>5, <1>6, <1>7 DEF Next, Step, Done, ReadString, ReadTensor

\* Before it no step records a finding and goes on.
LEMMA EarlySteps ==
    ASSUME RInv, ~Late, [Next]_vars, ~ResolveAlignment
    PROVE  ~Late' /\ (verdict' = Pending => verdict = Pending /\ findings' = findings)
  <1>0. /\ TypeOK /\ Counting /\ cur \in Locals
        /\ pc \notin TensorReads \cup {"tensor"} /\ verdict # Parsed
        /\ pc \in StringReads => cur.goal # "name"
        /\ pc # "done" => verdict = Pending
    BY DEF RInv, IInv, TypeOK, Counting, Late, InTensor
  <1>1. CASE UNCHANGED vars
    BY <1>1 DEF vars, Late, InTensor
  <1>2. \A c, at, n : Rejected(c, at, n) # Pending /\ Rejected(c, at, n) # Parsed
    BY DEF Rejected, Pending, Parsed
  <1>3. \A c, at : Crashed(c, at) # Pending /\ Crashed(c, at) # Parsed
    BY DEF Crashed, Pending, Parsed
  <1>4. ASSUME pc' = "done", verdict' # Pending, verdict' # Parsed
        PROVE  ~Late'
    BY <1>4 DEF Late, InTensor, StringReads, TensorReads
  <1>5. CASE ReadFails \/ ReadBadText
    <2>1. UNCHANGED <<pc, cur, verdict, findings>> /\ pc # "done"
      BY <1>5 DEF ReadFails, ReadBadText, Reads, HeaderReads, KvReads, StringReads, TensorReads
    <2> QED BY <1>0, <2>1 DEF Late, InTensor
  <1>6. CASE Handle
    <2>1. pc' = "done" /\ verdict' # Pending /\ verdict' # Parsed
      BY <1>2, <1>3, <1>6 DEF Handle
    <2> QED BY <1>4, <2>1
  <1>7. CASE Open \/ ReadHeader
    <2>1. /\ pc # "done"
          /\ \/ pc' = "done" /\ verdict' # Pending /\ verdict' # Parsed
             \/ /\ pc' \in {"magic", "version", "nTensors", "nKv", "kv"}
                /\ verdict' = verdict /\ findings' = findings
      BY <1>2, <1>7 DEF Open, ReadHeader, ReadMagic, ReadVersion, ReadNTensors, ReadNKv, Reading,
         RaiseError, Goto, RejectCount
    <2> QED BY <1>0, <1>4, <2>1 DEF Late, InTensor, StringReads, TensorReads
  <1>8. CASE ReadStringLength
    <2>1. /\ pc # "done" /\ cur.goal # "name"
          /\ \/ pc' = "done" /\ verdict' # Pending /\ verdict' # Parsed
             \/ pc' = "strText" /\ cur'.goal = cur.goal /\ verdict' = verdict /\ findings' = findings
      BY <1>0, <1>2, <1>8 DEF ReadStringLength, Reading, RaiseError, Goto, StringReads, Locals
    <2> QED BY <1>0, <1>4, <2>1 DEF Late, InTensor, StringReads, TensorReads
  <1>9. CASE ReadText
    <2>1. /\ pc # "done" /\ findings' = findings /\ verdict' = verdict
          /\ pc' \in {"kvType", "kv", "items"}
      BY <1>0, <1>9 DEF ReadText, Reading, Goto, PutKv, PutItem, StringReads
    <2> QED BY <1>0, <2>1 DEF Late, InTensor, StringReads, TensorReads
  <1>10. CASE ReadKv
    <2>1. pc # "done" /\ findings' = findings
      BY <1>10, OnlyInKv
    <2>2. \/ pc' = "done" /\ verdict' # Pending /\ verdict' # Parsed
          \/ /\ pc' \in {"kv", "items", "elem", "scalar", "elemType", "arrayCount"}
             /\ verdict' = verdict
          \/ pc' = "strLen" /\ cur'.goal # "name" /\ verdict' = verdict
      <3>1. CASE BeginKv
        BY <3>1 DEF BeginKv, Fresh, Goto
      <3>2. CASE ReadKvType
        BY <1>0, <1>2, <3>2 DEF ReadKvType, RaiseError, Goto, Locals
      <3>3. CASE ReadScalar \/ ReadElemType \/ ReadItem
        BY <3>3 DEF ReadScalar, ReadElemType, ReadItem, PutKv, PutItem, Goto
      <3>4. CASE ReadArrayCount
        BY <1>2, <3>4 DEF ReadArrayCount, RaiseError, Goto
      <3>5. CASE NextItem
        BY <1>0, <3>5 DEF NextItem, ExpectString, PutKv, Goto, Locals
      <3> QED BY <1>10, <3>1, <3>2, <3>3, <3>4, <3>5 DEF ReadKv
    <2> QED BY <1>0, <1>4, <2>1, <2>2 DEF Late, InTensor, StringReads, TensorReads
  <1>11. ~ReadTensor /\ ~Finish
    <2>1. ~BeginTensor /\ ~Finish
      BY <1>0 DEF BeginTensor, Finish
    <2>2. \A p \in TensorReads : ~Reading(p)
      BY <1>0 DEF Reading
    <2>3. ~(Reading("nDims") \/ Reading("dim") \/ Reading("tensorType") \/ Reading("tensorOffset"))
      BY <2>2 DEF TensorReads
    <2>4. ~(ReadNDims \/ ReadDim \/ ReadTensorType \/ ReadTensorOffset)
      BY <2>3, Zenon DEF ReadNDims, ReadDim, ReadTensorType, ReadTensorOffset
    <2> QED BY <2>1, <2>4 DEF ReadTensor
  <1> QED BY <1>1, <1>5, <1>6, <1>7, <1>8, <1>9, <1>10, <1>11 DEF Next, Step, Done, ReadString

\* The step between the tables settles it.
LEMMA ResolvingSettles ==
    ASSUME RInv, Resolved, ResolveAlignment
    PROVE  Late' /\ Settled'
  <1>1. pc = "kv" /\ verdict = Pending /\ ~Late
    BY DEF ResolveAlignment, RInv, Counting, Late, InTensor, StringReads, TensorReads, Pending, Parsed
  <1>2. findings = <<>>
    BY <1>1 DEF Resolved
  <1>3. UNCHANGED <<kv, kvMap>> /\ pc' = "tensor"
    BY DEF ResolveAlignment, tables, Goto
  <1> DEFINE i == kvMap[AlignKey]
             usable == UsableAlignment(kv[i].value)
             n == kv[i].value.n
  <1>4. Settled' <=> /\ alignment' = IF i # 0 /\ usable THEN n ELSE DefaultAlignment
                     /\ Warned' <=> i # 0 /\ ~(i # 0 /\ usable)
    BY <1>3 DEF Settled, UsableAlignment
  <1>5. findings' = <<>> => ~Warned'
    BY DEF Warned
  <1>6. \/ i = 0 /\ alignment' = DefaultAlignment /\ findings' = findings
        \/ i # 0 /\ usable /\ alignment' = n /\ findings' = findings
        \/ /\ i # 0 /\ ~usable /\ alignment' = DefaultAlignment
           /\ findings' = Append(findings, [code |-> "W_NO_ALIGNMENT", at |-> kv[i].valueAt])
    BY DEF ResolveAlignment
  <1>7. Late'
    BY <1>3 DEF Late
  <1> HIDE DEF i, usable, n
  <1>8. CASE i = 0 /\ alignment' = DefaultAlignment /\ findings' = <<>>
    BY <1>4, <1>5, <1>7, <1>8
  <1>9. CASE i # 0 /\ usable /\ alignment' = n /\ findings' = <<>>
    BY <1>4, <1>5, <1>7, <1>9
  <1>10. CASE /\ i # 0 /\ ~usable /\ alignment' = DefaultAlignment
             /\ findings' = Append(findings, [code |-> "W_NO_ALIGNMENT", at |-> kv[i].valueAt])
    <2>1. findings'[1].code = "W_NO_ALIGNMENT" /\ 1 \in DOMAIN findings'
      BY <1>2, <1>10
    <2>2. Warned'
      BY <2>1 DEF Warned
    <2> QED BY <1>4, <1>7, <1>10, <2>2
  <1> QED BY <1>2, <1>6, <1>8, <1>9, <1>10

(***************************************************************************)
(* On every file: from the tensor table on the alignment is the file's own *)
(* when its first declaration is a power of two in the sense of 2^k (the   *)
(* code tests n & (n - 1)), and the default with a warning for a declared  *)
(* one that is not; and the data section starts at the least padding.      *)
(***************************************************************************)
THEOREM AlignmentIsHonoured == Spec => []AlignmentHonoured
  <1>1. Init => RInv /\ Resolved
    BY InitRefines DEF Init, Resolved, Late, InTensor, StringReads, TensorReads, Pending, Parsed
  <1>2. RInv /\ Resolved /\ [Next]_vars => RInv' /\ Resolved'
    <2> SUFFICES ASSUME RInv, Resolved, [Next]_vars PROVE RInv' /\ Resolved'
      OBVIOUS
    <2>1. RInv'
      BY StepRefines
    <2>2. CASE Late
      <3>1. Settled'
        BY <2>2, LateSteps DEF Resolved, Settled, Warned
      <3>2. ~Late' => verdict' # Pending
        BY <2>1, <2>2, LateSteps DEF RInv, Counting, Pending, Parsed
      <3> QED BY <2>1, <3>1, <3>2 DEF Resolved
    <2>3. CASE ResolveAlignment
      BY <2>1, <2>3, ResolvingSettles DEF Resolved
    <2>4. CASE ~Late /\ ~ResolveAlignment
      BY <2>1, <2>4, EarlySteps DEF Resolved
    <2> QED BY <2>2, <2>3, <2>4
  <1>3. RInv /\ Resolved /\ Indexed => AlignmentHonoured
    <2> SUFFICES ASSUME RInv, Resolved, Indexed, InTensorTable PROVE AlignmentHonoured
      BY DEF AlignmentHonoured
    <2> DEFINE i == kvMap[AlignKey]
               v == kv[i].value
               usable == i # 0 /\ UsableAlignment(v)
               first == kv[FirstOf(AlignKey)].value
               declared == EntriesOf(AlignKey) # {}
    <2>1. TypeOK /\ AlignKey \in Texts
      BY FieldValues DEF RInv, IInv
    <2>2. /\ alignment = IF usable THEN v.n ELSE DefaultAlignment
          /\ Warned <=> i # 0 /\ ~usable
      BY DEF InTensorTable, Resolved, Late, InTensor, Settled
    <2>3. declared <=> i # 0
      BY <2>1, IndexIsFirst
    <2>4. i # 0 => first = v
      BY <2>1, IndexIsFirst
    <2>5. i # 0 => (IsAlignment(v) <=> UsableAlignment(v))
      <3> SUFFICES ASSUME i # 0 PROVE IsAlignment(v) <=> UsableAlignment(v)
        OBVIOUS
      <3>1. v \in Values
        BY <2>1, IndexedIsEntry DEF KvEntry
      <3>2. v.n \in Int
        BY <3>1 DEF Values
      <3> QED BY <3>2, PowersOfTwo DEF IsAlignment, UsableAlignment
    <2>6. pos \in Nat /\ alignment \in Nat \ {0}
      BY <2>1 DEF TypeOK
    <2>7. nTensors > 0 => DataStart % alignment = 0 /\ DataStart - MetaEnd \in 0..alignment - 1
      <3> DEFINE u == AlignUp(pos, alignment)
      <3>1. u \in Nat /\ u >= pos /\ u < pos + alignment /\ u % alignment = 0
        BY <2>6, RoundingAligns, RoundingBounds
      <3> HIDE DEF u
      <3>2. u - pos \in 0..alignment - 1
        BY <2>6, <3>1
      <3> QED BY <3>1, <3>2 DEF DataStart, MetaEnd, u
    <2> HIDE DEF i, v, first, declared
    <2> QED BY <2>2, <2>3, <2>4, <2>5, <2>7 DEF AlignmentHonoured, Warned, declared, first
  <1> QED BY <1>1, <1>2, <1>3, MapIsInductive, PTL DEF Spec

-----------------------------------------------------------------------------
(***************************************************************************)
(* Bytes.  StringsBytes is defined by recursion over the prefixes of an    *)
(* array: the recursion has a solution, the solutions for a sequence and   *)
(* for one more string agree, so one more string adds its own bytes.       *)
(***************************************************************************)
Sums(items, f) ==
    f = [n \in 0..Len(items) |-> IF n = 0 THEN 0 ELSE f[n - 1] + TextBytes(items[n])]

LEMMA TextBytesAreNat == \A t \in Texts : TextBytes(t) \in Nat /\ TextBytes(t) = 8 + TextLen[t]
  BY ParserAssumption DEF TextBytes

LEMMA SumsUnfold ==
    ASSUME NEW items \in Seq(Texts), NEW f, Sums(items, f)
    PROVE  /\ f[0] = 0
           /\ \A n \in 1..Len(items) : f[n] = f[n - 1] + TextBytes(items[n])
           /\ \A n \in 0..Len(items) : f[n] \in Nat
  <1> DEFINE L == Len(items)
  <1>1. L \in Nat /\ \A n \in 1..L : TextBytes(items[n]) \in Nat
    BY TextBytesAreNat
  <1>2. f = [n \in 0..L |-> IF n = 0 THEN 0 ELSE f[n - 1] + TextBytes(items[n])]
    BY DEF Sums
  <1> HIDE DEF L
  <1>3. f[0] = 0
    <2>1. 0 \in 0..L
      BY <1>1
    <2> QED BY <1>2, <2>1
  <1>4. ASSUME NEW n \in 1..L PROVE f[n] = f[n - 1] + TextBytes(items[n])
    <2>1. n \in 0..L /\ n # 0
      BY <1>1
    <2> QED BY <1>2, <2>1
  <1> DEFINE T == {n \in 0..L : f[n] \notin Nat}
  <1>5. T = {}
    <2> SUFFICES ASSUME T # {} PROVE FALSE
      OBVIOUS
    <2>1. T \in SUBSET Nat
      BY <1>1
    <2>2. PICK n \in T : \A m \in T : n <= m
      <3> HIDE DEF T
      <3> QED BY <2>1, SmallestExists
    <2>3. n \in 0..L /\ n # 0 /\ f[n] \notin Nat
      BY <1>3
    <2>4. n \in 1..L /\ n - 1 \in 0..L /\ n - 1 < n
      BY <1>1, <2>3
    <2>5. n - 1 \notin T
      <3> HIDE DEF T
      <3> QED BY <2>2, <2>3, <2>4
    <2>6. f[n - 1] \in Nat
      BY <2>4, <2>5
    <2> QED BY <1>1, <1>4, <2>3, <2>4, <2>6
  <1> QED BY <1>3, <1>4, <1>5 DEF L

LEMMA SumsExist ==
    ASSUME NEW items \in Seq(Texts)
    PROVE  \E f : Sums(items, f)
  <1> DEFINE L == Len(items)
             step == [p \in Nat \X Nat |->
                        IF p[1] < L THEN p[2] + TextBytes(items[p[1] + 1]) ELSE p[2]]
  <1>1. L \in Nat /\ \A n \in 1..L : TextBytes(items[n]) \in Nat
    BY TextBytesAreNat
  <1>2. ASSUME NEW p \in Nat \X Nat
        PROVE  (IF p[1] < L THEN p[2] + TextBytes(items[p[1] + 1]) ELSE p[2]) \in Nat
    <2>1. p[1] \in Nat /\ p[2] \in Nat
      OBVIOUS
    <2>2. CASE p[1] < L
      <3>1. p[1] + 1 \in 1..L
        BY <1>1, <2>1, <2>2
      <3>2. TextBytes(items[p[1] + 1]) \in Nat
        BY <1>1, <3>1
      <3> QED BY <2>1, <2>2, <3>2
    <2>3. CASE ~(p[1] < L)
      BY <2>1, <2>3
    <2> QED BY <2>2, <2>3
  <1>3. step \in [Nat \X Nat -> Nat] /\ 0 \in Nat
    BY <1>2
  <1>4. PICK g \in [Nat -> Nat] : g[0] = 0 /\ \A k \in Nat : g[k + 1] = step[<<k, g[k]>>]
    <2> HIDE DEF step
    <2>1. PICK f : Recursive(Nat, 0, step, f)
      BY <1>3, RecursionExists
    <2> QED BY <2>1 DEF Recursive
  <1>5. ASSUME NEW n \in 1..L PROVE g[n] = g[n - 1] + TextBytes(items[n])
    <2>1. n - 1 \in Nat /\ (n - 1) + 1 = n /\ n - 1 < L
      BY <1>1
    <2>2. <<n - 1, g[n - 1]>> \in Nat \X Nat
      BY <1>4, <2>1
    <2>3. step[<<n - 1, g[n - 1]>>] = g[n - 1] + TextBytes(items[n])
      <3> HIDE DEF L
      <3> QED BY <2>1, <2>2
    <2> HIDE DEF step
    <2> QED BY <1>4, <2>1, <2>3
  <1> HIDE DEF step
  <1> DEFINE f == [n \in 0..L |-> g[n]]
  <1>6. ASSUME NEW n \in 0..L
        PROVE  f[n] = IF n = 0 THEN 0 ELSE f[n - 1] + TextBytes(items[n])
    <2>1. CASE n = 0
      BY <1>4, <2>1
    <2>2. CASE n # 0
      <3>1. n \in 1..L /\ n - 1 \in 0..L
        BY <1>1, <2>2
      <3>2. f[n] = g[n] /\ f[n - 1] = g[n - 1]
        BY <3>1
      <3> QED BY <1>5, <2>2, <3>1, <3>2
    <2> QED BY <2>1, <2>2
  <1>7. Sums(items, f)
    <2>1. f = [n \in 0..L |-> f[n]]
      OBVIOUS
    <2> HIDE DEF f
    <2> QED BY <1>6, <2>1 DEF Sums
  <1> QED BY <1>7

\* The solutions for a sequence and for a longer one agree on the shorter.
LEMMA SumsAgree ==
    ASSUME NEW items \in Seq(Texts), NEW t \in Texts, NEW f, NEW g,
           Sums(items, f), Sums(Append(items, t), g)
    PROVE  g[Len(items)] = f[Len(items)]
  <1> DEFINE L == Len(items)
             longer == Append(items, t)
             T == {n \in 0..L : g[n] # f[n]}
  <1>1. /\ L \in Nat /\ longer \in Seq(Texts) /\ Len(longer) = L + 1
        /\ \A n \in 1..L : longer[n] = items[n]
    OBVIOUS
  <1>2. f[0] = 0 /\ \A n \in 1..L : f[n] = f[n - 1] + TextBytes(items[n])
    BY SumsUnfold
  <1>3. g[0] = 0 /\ \A n \in 1..L : g[n] = g[n - 1] + TextBytes(items[n])
    <2> HIDE DEF longer, L
    <2>1. g[0] = 0 /\ \A n \in 1..Len(longer) : g[n] = g[n - 1] + TextBytes(longer[n])
      BY <1>1, SumsUnfold DEF longer
    <2>2. \A n \in 1..L : n \in 1..Len(longer)
      BY <1>1
    <2> QED BY <1>1, <2>1, <2>2
  <1> HIDE DEF longer, L
  <1>4. T = {}
    <2> SUFFICES ASSUME T # {} PROVE FALSE
      OBVIOUS
    <2>1. T \in SUBSET Nat
      BY <1>1
    <2>2. PICK n \in T : \A m \in T : n <= m
      <3> HIDE DEF T
      <3> QED BY <2>1, SmallestExists
    <2>3. n \in 0..L /\ n # 0 /\ g[n] # f[n]
      BY <1>2, <1>3
    <2>4. n \in 1..L /\ n - 1 \in 0..L /\ n - 1 < n
      BY <1>1, <2>3
    <2>5. n - 1 \notin T
      <3> HIDE DEF T
      <3> QED BY <2>2, <2>3, <2>4
    <2>6. g[n - 1] = f[n - 1]
      BY <2>4, <2>5
    <2> QED BY <1>2, <1>3, <2>3, <2>4, <2>6
  <1>5. L \in 0..L
    BY <1>1
  <1> QED BY <1>4, <1>5 DEF L

LEMMA StringsBytesIsSum ==
    ASSUME NEW items \in Seq(Texts)
    PROVE  \E f : Sums(items, f) /\ StringsBytes(items) = f[Len(items)]
  <1> DEFINE f == CHOOSE g : Sums(items, g)
  <1>1. Sums(items, f)
    BY SumsExist
  <1>2. StringsBytes(items) = f[Len(items)]
    BY DEF StringsBytes, Sums
  <1> QED BY <1>1, <1>2

\* No string takes no bytes; one more takes its own.
LEMMA StringsBytesGrow ==
    /\ StringsBytes(<<>>) = 0
    /\ \A items \in Seq(Texts) : StringsBytes(items) \in Nat
    /\ \A items \in Seq(Texts), t \in Texts :
          StringsBytes(Append(items, t)) = StringsBytes(items) + TextBytes(t)
  <1>1. StringsBytes(<<>>) = 0
    <2> DEFINE none == <<>>
    <2>1. none \in Seq(Texts) /\ Len(none) = 0
      OBVIOUS
    <2> HIDE DEF none
    <2>2. StringsBytes(none) = 0
      BY <2>1, StringsBytesIsSum, SumsUnfold
    <2> QED BY <2>2 DEF none
  <1>2. ASSUME NEW items \in Seq(Texts) PROVE StringsBytes(items) \in Nat
    <2>1. Len(items) \in 0..Len(items)
      OBVIOUS
    <2> QED BY <2>1, StringsBytesIsSum, SumsUnfold
  <1>3. ASSUME NEW items \in Seq(Texts), NEW t \in Texts
        PROVE  StringsBytes(Append(items, t)) = StringsBytes(items) + TextBytes(t)
    <2> DEFINE L == Len(items)
               longer == Append(items, t)
    <2>1. /\ L \in Nat /\ longer \in Seq(Texts) /\ Len(longer) = L + 1 /\ longer[L + 1] = t
          /\ L + 1 \in 1..Len(longer) /\ (L + 1) - 1 = L
      OBVIOUS
    <2>2. PICK f : Sums(items, f) /\ StringsBytes(items) = f[L]
      BY StringsBytesIsSum
    <2>3. PICK g : Sums(longer, g) /\ StringsBytes(longer) = g[Len(longer)]
      <3> HIDE DEF longer
      <3> QED BY <2>1, StringsBytesIsSum
    <2>4. g[L] = f[L]
      BY <2>2, <2>3, SumsAgree
    <2>5. g[L + 1] = g[L] + TextBytes(t)
      <3> HIDE DEF longer, L
      <3>1. g[L + 1] = g[(L + 1) - 1] + TextBytes(longer[L + 1])
        BY <2>1, <2>3, SumsUnfold
      <3> QED BY <2>1, <3>1
    <2> HIDE DEF longer, L
    <2>6. StringsBytes(longer) = StringsBytes(items) + TextBytes(t)
      BY <2>1, <2>2, <2>3, <2>4, <2>5
    <2> QED BY <2>6 DEF longer
  <1> QED BY <1>1, <1>2, <1>3

-----------------------------------------------------------------------------
(***************************************************************************)
(* Positions.  What RecordsTile says of whole records follows from where   *)
(* the cursor is at every read of the record under construction: Place     *)
(* counts the bytes behind it field by field.  It says nothing of a read   *)
(* that has failed, which only Handle follows.                             *)
(***************************************************************************)
Stored ==
    /\ \A i \in DOMAIN kv :
          /\ kv[i].entryAt = (IF i = 1 THEN TablesBegin ELSE KvEnd(kv[i - 1]))
          /\ kv[i].valueAt = kv[i].entryAt + TextBytes(kv[i].key) + 4
    /\ \A i \in DOMAIN tensors :
          LET t == tensors[i]
          IN  /\ t.entryAt = (IF i = 1 THEN KvTableEnd ELSE TensorEnd(tensors[i - 1]))
              /\ t.dimsAt = t.entryAt + TextBytes(t.name) + 4
              /\ t.typeAt = t.dimsAt + 8 * Len(t.dims)
              /\ t.offsetAt = t.typeAt + 4

Between == pc \in {"kv", "tensor"} \/ verdict = Parsed => pos = TablesEnd

AfterText == cur.entryAt + TextBytes(cur.text)
TextBegins == IF pc = "strText" THEN pos - 8 ELSE pos
ItemsBytes ==
    IF cur.elem = Str THEN StringsBytes(cur.items) ELSE Len(cur.items) * ScalarBytes(cur.elem)

InArray(p) ==
    /\ cur.type = Array /\ cur.valueAt = AfterText + 4
    /\ cur.elem = Str => cur.items \in Seq(Texts)
    /\ p = cur.valueAt + 12 + ItemsBytes

InString ==
    /\ cur.goal \in {"key", "name"} =>
          TextBegins = cur.entryAt /\ cur.items = <<>> /\ cur.dims = <<>>
    /\ cur.goal = "value" =>
          cur.type = Str /\ cur.valueAt = AfterText + 4 /\ TextBegins = cur.valueAt
    /\ cur.goal = "item" => cur.elem = Str /\ InArray(TextBegins)

InValue ==
    /\ pc = "kvType" => pos = AfterText /\ cur.items = <<>>
    /\ pc \in {"scalar", "elemType", "arrayCount"} =>
          /\ cur.valueAt = AfterText + 4
          /\ pos = cur.valueAt + (IF pc = "arrayCount" THEN 4 ELSE 0)
          /\ pc = "scalar" => cur.type \notin {Str, Array}
          /\ pc # "scalar" => cur.type = Array /\ cur.items = <<>>
    /\ pc \in {"items", "elem"} => InArray(pos) /\ (pc = "elem" => cur.elem # Str)

InInfo ==
    /\ pc = "nDims" => pos = AfterText /\ cur.dims = <<>>
    /\ pc \in {"dim", "tensorType", "tensorOffset"} =>
          cur.dimsAt = AfterText + 4
    /\ pc = "dim" => pos = cur.dimsAt + 8 * Len(cur.dims)
    /\ pc \in {"tensorType", "tensorOffset"} =>
          /\ cur.typeAt = cur.dimsAt + 8 * Len(cur.dims)
          /\ pos = cur.typeAt + (IF pc = "tensorOffset" THEN 4 ELSE 0)

Place ==
    /\ InKv \/ InTensor => cur.entryAt = TablesEnd
    /\ pc \in StringReads => InString
    /\ InValue
    /\ InInfo

Tiled == Stored /\ Between /\ (raised = Quiet => Place)
TInv == RInv /\ Tiled

LEMMA TilingFacts ==
    ASSUME TInv
    PROVE  /\ TypeOK /\ Control /\ Counting /\ Stored /\ cur \in Locals
           /\ cur.entryAt \in Nat /\ cur.valueAt \in Nat /\ cur.dimsAt \in Nat
           /\ cur.typeAt \in Nat /\ cur.slen \in Nat /\ pos \in Nat
           /\ cur.items \in ItemTexts /\ cur.dims \in Seq(Nat)
           /\ raised = Quiet => Place
           /\ cur.text \in Texts => TextBytes(cur.text) \in Nat
           /\ pc # "done" => verdict = Pending
  BY TextBytesAreNat DEF TInv, RInv, IInv, Tiled, TypeOK, Locals, Counting

LEMMA TablesKept ==
    ASSUME UNCHANGED <<kv, tensors>>
    PROVE  TablesEnd' = TablesEnd /\ KvTableEnd' = KvTableEnd /\ (Stored => Stored')
  BY DEF TablesEnd, KvTableEnd, Stored

\* A parse that is refused keeps its records and goes nowhere.
LEMMA RefusalTiles ==
    ASSUME TInv, UNCHANGED <<kv, tensors>>, pc' = "done", verdict' # Parsed
    PROVE  Tiled'
  BY TablesKept
  DEF TInv, Tiled, Between, Place, InKv, InTensor, InValue, InInfo, KvReads, TensorReads, StringReads

\* A step inside a record has only its own place to justify.
LEMMA InsideTiles ==
    ASSUME TInv, pc # "done", UNCHANGED <<kv, tensors, verdict>>, pc' \notin {"kv", "tensor", "done"},
           raised' = Quiet => Place'
    PROVE  Tiled'
  BY TablesKept DEF TInv, RInv, Counting, Tiled, Between, Pending, Parsed

LEMMA ValueBytesOf ==
    ASSUME NEW e
    PROVE  /\ e.type = Str => ValueBytes(e) = TextBytes(e.value.text)
           /\ e.type = Array =>
                 ValueBytes(e) = 12 + (IF e.value.elem = Str THEN StringsBytes(e.value.items)
                                       ELSE Len(e.value.items) * ScalarBytes(e.value.elem))
           /\ e.type \notin {Str, Array} => ValueBytes(e) = ScalarBytes(e.type)
  BY DEF ValueBytes, Str, Array

\* A pair that is put ends where the cursor is.
LEMMA PutKvTiles ==
    ASSUME TInv, raised' = Quiet, InKv, cur.text \in Texts, NEW v \in Values, PutKv(v),
           cur.entryAt = TablesEnd, cur.valueAt = AfterText + 4,
           NEW e, e = [key |-> cur.text, type |-> cur.type, value |-> v,
                       entryAt |-> cur.entryAt, valueAt |-> cur.valueAt],
           pos' = cur.valueAt + ValueBytes(e)
    PROVE  Tiled'
  <1> DEFINE n == Len(kv)
  <1>1. /\ kv \in Seq(KvEntry) /\ n \in Nat /\ DOMAIN kv = 1..n /\ tensors = <<>> /\ Stored
        /\ verdict = Pending
    BY DEF TInv, RInv, IInv, Tiled, TypeOK, Counting, InKv, KvReads, StringReads
  <1>2. e \in KvEntry
    BY TilingFacts DEF KvEntry, TypeOK, Locals
  <1>3. kv' = Append(kv, e) /\ tensors' = tensors /\ pc' = "kv" /\ verdict' = verdict
    BY DEF PutKv, Goto
  <1>4. /\ Len(kv') = n + 1 /\ DOMAIN kv' = 1 .. n + 1 /\ kv'[n + 1] = e /\ kv' # <<>>
        /\ \A j \in 1..n : kv'[j] = kv[j]
    BY <1>1, <1>2, <1>3
  <1>5. /\ e.entryAt = TablesEnd /\ e.valueAt = e.entryAt + TextBytes(e.key) + 4
        /\ KvEnd(e) = pos'
    <2>1. e.entryAt + TextBytes(e.key) + 4 = e.valueAt
      BY DEF AfterText
    <2>2. KvEnd(e) = (e.entryAt + TextBytes(e.key) + 4) + ValueBytes(e)
      BY DEF KvEnd
    <2> QED BY <2>1, <2>2
  <1>6. TablesEnd = IF n = 0 THEN TablesBegin ELSE KvEnd(kv[n])
    BY <1>1 DEF TablesEnd, KvTableEnd
  <1> HIDE DEF n
  <1>7. ASSUME NEW i \in 1 .. n + 1
        PROVE  /\ kv'[i].entryAt = (IF i = 1 THEN TablesBegin ELSE KvEnd(kv'[i - 1]))
               /\ kv'[i].valueAt = kv'[i].entryAt + TextBytes(kv'[i].key) + 4
    <2>1. CASE i = n + 1
      <3>1. n # 0 => n \in 1..n
        BY <1>1
      <3>2. i - 1 = n /\ (i = 1 <=> n = 0)
        BY <1>1, <2>1
      <3> QED BY <1>4, <1>5, <1>6, <2>1, <3>1, <3>2
    <2>2. CASE i # n + 1
      <3>1. i \in 1..n /\ (i # 1 => i - 1 \in 1..n)
        BY <1>1, <2>2
      <3>2. /\ kv[i].entryAt = (IF i = 1 THEN TablesBegin ELSE KvEnd(kv[i - 1]))
            /\ kv[i].valueAt = kv[i].entryAt + TextBytes(kv[i].key) + 4
        BY <1>1, <3>1 DEF Stored
      <3> QED BY <1>4, <3>1, <3>2
    <2> QED BY <2>1, <2>2
  <1>8. Stored'
    BY <1>1, <1>3, <1>4, <1>7 DEF Stored
  <1>9. pos' = TablesEnd'
    BY <1>1, <1>3, <1>4, <1>5 DEF TablesEnd, KvTableEnd
  <1>10. Place'
    BY <1>3 DEF Place, InKv, InTensor, InValue, InInfo, KvReads, TensorReads, StringReads
  <1> QED BY <1>8, <1>9, <1>10 DEF Tiled, Between

\* A record boundary: what is stored is what it was, and the cursor is behind it.
LEMMA BoundaryTiles ==
    ASSUME TInv, UNCHANGED <<kv, tensors>>, pc' \in {"kv", "tensor"}, pos' = TablesEnd
    PROVE  Tiled'
  BY TablesKept
  DEF TInv, Tiled, Between, Place, InKv, InTensor, InValue, InInfo, KvReads, TensorReads, StringReads

LEMMA HeaderTiles ==
    ASSUME TInv, Open \/ ReadFails \/ Handle \/ ReadHeader \/ ReadBadText
    PROVE  Tiled'
  <1>0. /\ TypeOK /\ Control /\ Counting /\ Stored /\ (pc # "done" => verdict = Pending)
        /\ pc = "nKv" => pos = 16 /\ kv = <<>> /\ tensors = <<>>
    BY TilingFacts DEF Counting, BeforeTables, HeaderReads
  <1>1. CASE ReadFails \/ ReadBadText
    <2>1. /\ UNCHANGED <<kv, tensors, pc, verdict>> /\ raised' # Quiet
          /\ pc \notin {"kv", "tensor", "done"}
      BY <1>1 DEF ReadFails, ReadBadText, Refuse, AdvanceOverBadText, Raising, Quiet, tables, Reads,
         HeaderReads, KvReads, TensorReads, StringReads
    <2> QED BY <2>1, InsideTiles
  <1>2. CASE Handle
    <2>1. /\ UNCHANGED <<kv, tensors>> /\ pc' = "done" /\ verdict' # Parsed
      BY <1>2 DEF Handle, tables, Rejected, Crashed, Parsed, Pending
    <2> QED BY <2>1, RefusalTiles
  <1>3. CASE Open \/ ReadMagic \/ ReadVersion \/ ReadNTensors
    <2>1. /\ UNCHANGED <<kv, tensors>> /\ pc # "done"
          /\ \/ pc' = "done" /\ verdict' # Parsed
             \/ pc' \in {"magic", "version", "nTensors", "nKv"} /\ verdict' = verdict
      BY <1>3 DEF Open, ReadMagic, ReadVersion, ReadNTensors, Reading, RaiseError, Goto, RejectCount,
         Rejected, Parsed, Pending, tables
    <2>2. pc' \in {"magic", "version", "nTensors", "nKv"} => Place'
      BY DEF Place, InKv, InTensor, InValue, InInfo, KvReads, TensorReads, StringReads
    <2> QED BY <2>1, <2>2, InsideTiles, RefusalTiles
  <1>4. CASE ReadNKv
    <2>1. /\ UNCHANGED <<kv, tensors>> /\ pc = "nKv" /\ Reading("nKv")
          /\ \/ pc' = "done" /\ verdict' # Parsed
             \/ pc' = "kv"
      BY <1>4 DEF ReadNKv, Reading, RaiseError, Goto, RejectCount, Rejected, Parsed, Pending, tables
    <2>2. pos' = 24
      BY <1>0, <2>1, ReadingAdvances DEF Width
    <2>3. TablesEnd = 24
      BY <1>0, <2>1 DEF TablesEnd, KvTableEnd, TablesBegin, HeaderBytes
    <2> QED BY <2>1, <2>2, <2>3, BoundaryTiles, RefusalTiles
  <1> QED BY <1>1, <1>2, <1>3, <1>4 DEF ReadHeader

\* A text that has been read ends TextBytes behind where it begins.
LEMMA TextIsRead ==
    ASSUME TInv, Reading("strText"), NEW t \in Decodings(cur.slen)
    PROVE  /\ t \in Texts /\ TextBytes(t) \in Nat /\ pos' = TextBegins + TextBytes(t)
           /\ pc = "strText" /\ raised' = Quiet /\ InString
           /\ (InKv \/ InTensor) /\ cur.entryAt = TablesEnd
  <1>1. /\ t \in Texts /\ TextLen[t] = cur.slen
    BY DEF Decodings
  <1>2. /\ pc = "strText" /\ raised = Quiet /\ raised' = Quiet /\ pos' = pos + cur.slen
    BY TilingFacts, ReadingAdvances DEF Width
  <1>3. Place /\ pos \in Nat /\ cur.slen \in Nat
    BY <1>2, TilingFacts
  <1>4. InKv \/ InTensor
    BY <1>2 DEF InKv, InTensor, StringReads
  <1>5. TextBytes(t) = 8 + cur.slen /\ TextBegins = pos - 8
    BY <1>1, <1>2, TextBytesAreNat DEF TextBegins
  <1> QED BY <1>1, <1>2, <1>3, <1>4, <1>5 DEF Place, StringReads

LEMMA StringTiles ==
    ASSUME TInv, ReadStringLength \/ ReadText
    PROVE  Tiled'
  <1>0. /\ TypeOK /\ Control /\ Counting /\ Stored /\ cur \in Locals /\ pos \in Nat
        /\ cur.entryAt \in Nat /\ cur.valueAt \in Nat /\ cur.items \in ItemTexts
        /\ pc # "done" => verdict = Pending
    BY TilingFacts
  <1>1. CASE ReadStringLength
    <2>1. Reading("strLen") /\ UNCHANGED <<kv, tensors>>
      BY <1>1 DEF ReadStringLength, tables
    <2>2. pc = "strLen" /\ raised = Quiet /\ raised' = Quiet /\ pos' = pos + 8
      BY <1>0, <2>1, ReadingAdvances DEF Width
    <2>3. CASE \E c, at, n : RaiseError(c, at, n)
      BY <2>1, <2>3, RefusalTiles DEF RaiseError, Rejected, Parsed, Pending
    <2>4. CASE (\E n : cur' = [cur EXCEPT !.slen = n]) /\ Goto("strText")
      <3>1. /\ pc' = "strText" /\ verdict' = verdict
            /\ cur'.entryAt = cur.entryAt /\ cur'.goal = cur.goal /\ cur'.text = cur.text
            /\ cur'.type = cur.type /\ cur'.valueAt = cur.valueAt /\ cur'.elem = cur.elem
            /\ cur'.items = cur.items /\ cur'.dims = cur.dims
        BY <1>0, <2>4 DEF Goto, Locals
      <3>2. Place /\ InString /\ (InKv \/ InTensor) /\ cur.entryAt = TablesEnd
        BY <2>2, TilingFacts DEF Place, InKv, InTensor, StringReads
      <3>3. TextBegins' = TextBegins /\ TextBegins = pos
        BY <1>0, <2>2, <3>1 DEF TextBegins
      <3>4. AfterText' = AfterText /\ ItemsBytes' = ItemsBytes
        BY <3>1 DEF AfterText, ItemsBytes
      <3>5. InString'
        BY <3>1, <3>2, <3>3, <3>4 DEF InString, InArray
      <3>6. Place'
        BY <2>1, <3>1, <3>2, <3>5, TablesKept DEF Place, InValue, InInfo
      <3> QED BY <2>1, <2>2, <3>1, <3>6, InsideTiles
    <2> QED BY <1>1, <2>3, <2>4 DEF ReadStringLength
  <1>2. CASE ReadText
    <2>1. Reading("strText")
      BY <1>2 DEF ReadText
    <2>2. PICK t \in Decodings(cur.slen) :
             \/ /\ cur.goal \in {"key", "name"}
                /\ cur' = [cur EXCEPT !.text = t]
                /\ Goto(IF cur.goal = "key" THEN "kvType" ELSE "nDims")
                /\ UNCHANGED tables
             \/ cur.goal = "value" /\ PutKv(StringValue(t))
             \/ cur.goal = "item" /\ PutItem(t)
      BY <1>2 DEF ReadText
    <2>3. /\ t \in Texts /\ TextBytes(t) \in Nat /\ pos' = TextBegins + TextBytes(t)
          /\ pc = "strText" /\ raised' = Quiet /\ InString
          /\ (InKv \/ InTensor) /\ cur.entryAt = TablesEnd
      BY <2>1, TextIsRead
    <2>4. CASE /\ cur.goal \in {"key", "name"}
               /\ cur' = [cur EXCEPT !.text = t]
               /\ Goto(IF cur.goal = "key" THEN "kvType" ELSE "nDims")
               /\ UNCHANGED tables
      <3>1. /\ cur'.text = t /\ cur'.entryAt = cur.entryAt /\ cur'.items = cur.items
            /\ cur'.dims = cur.dims
            /\ pc' \in {"kvType", "nDims"} /\ verdict' = verdict
            /\ UNCHANGED <<kv, tensors>>
        BY <1>0, <2>4 DEF Goto, Locals, tables
      <3>2. TextBegins = cur.entryAt /\ cur.items = <<>> /\ cur.dims = <<>>
        BY <2>3, <2>4 DEF InString
      <3>3. pos' = AfterText'
        BY <2>3, <3>1, <3>2 DEF AfterText
      <3>4. Place'
        BY <2>3, <3>1, <3>2, <3>3, TablesKept DEF Place, InValue, InInfo, StringReads
      <3> QED BY <2>3, <3>1, <3>4, InsideTiles
    <2>5. CASE cur.goal = "value" /\ PutKv(StringValue(t))
      <3>1. cur.type = Str /\ cur.valueAt = AfterText + 4 /\ TextBegins = cur.valueAt
        BY <2>3, <2>5 DEF InString
      <3>2. StringValue(t) \in Values /\ StringValue(t).text = t
        BY <2>3 DEF StringValue, Values
      <3>3. cur.text \in Texts
        BY <1>0, <2>5 DEF Control
      <3>4. InKv
        BY <2>3, <2>5 DEF InKv, StringReads
      <3> DEFINE e == [key |-> cur.text, type |-> cur.type, value |-> StringValue(t),
                       entryAt |-> cur.entryAt, valueAt |-> cur.valueAt]
      <3>5. ValueBytes(e) = TextBytes(t)
        BY <3>1, <3>2, ValueBytesOf
      <3> HIDE DEF e
      <3>6. pos' = cur.valueAt + ValueBytes(e)
        BY <2>3, <3>1, <3>5
      <3> QED BY <2>3, <2>5, <3>1, <3>2, <3>3, <3>4, <3>6, PutKvTiles DEF e
    <2>6. CASE cur.goal = "item" /\ PutItem(t)
      <3>1. cur.elem = Str /\ InArray(TextBegins)
        BY <2>3, <2>6 DEF InString
      <3>2. /\ cur'.items = Append(cur.items, t) /\ cur'.entryAt = cur.entryAt
            /\ cur'.text = cur.text /\ cur'.type = cur.type /\ cur'.valueAt = cur.valueAt
            /\ cur'.elem = cur.elem
            /\ pc' = "items" /\ verdict' = verdict /\ UNCHANGED <<kv, tensors>>
        BY <1>0, <2>6 DEF PutItem, Goto, Locals, tables
      <3>3. cur.items \in Seq(Texts)
        BY <3>1 DEF InArray
      <3>4. /\ cur'.items \in Seq(Texts) /\ StringsBytes(cur.items) \in Nat
            /\ StringsBytes(cur'.items) = StringsBytes(cur.items) + TextBytes(t)
        BY <2>3, <3>2, <3>3, StringsBytesGrow
      <3>5. TextBegins = cur.valueAt + 12 + StringsBytes(cur.items)
        BY <3>1 DEF InArray, ItemsBytes
      <3>6. pos' = cur.valueAt + 12 + StringsBytes(cur'.items)
        <4> DEFINE before == StringsBytes(cur.items)
                   after == StringsBytes(cur'.items)
                   v == cur.valueAt
        <4>1. v \in Nat /\ before \in Nat /\ after = before + TextBytes(t)
          BY <1>0, <3>4
        <4>2. TextBegins = v + 12 + before
          BY <3>5
        <4> HIDE DEF before, after, v
        <4>3. pos' = v + 12 + after
          BY <2>3, <4>1, <4>2
        <4> QED BY <4>3 DEF v, after
      <3>7. InArray(pos)'
        BY <3>1, <3>2, <3>4, <3>6 DEF InArray, ItemsBytes, AfterText
      <3>8. Place'
        BY <2>3, <3>2, <3>7, TablesKept DEF Place, InValue, InInfo, StringReads
      <3> QED BY <2>3, <3>2, <3>8, InsideTiles
    <2> QED BY <2>2, <2>4, <2>5, <2>6
  <1> QED BY <1>1, <1>2

LEMMA KvTiles ==
    ASSUME TInv, ReadKv \/ ResolveAlignment
    PROVE  Tiled'
  <1>0. /\ TypeOK /\ Control /\ Counting /\ Stored /\ cur \in Locals /\ pos \in Nat
        /\ cur.entryAt \in Nat /\ cur.valueAt \in Nat /\ cur.items \in ItemTexts
        /\ pc # "done" => verdict = Pending
        /\ raised = Quiet => Place
    BY TilingFacts
  <1>1. pc \in {"kv", "items"} => raised = Quiet
    BY <1>0 DEF Control, Reads, HeaderReads, KvReads, TensorReads, StringReads
  <1>2. CASE BeginKv
    <2>1. /\ UNCHANGED <<kv, tensors, verdict, pos>> /\ pc = "kv" /\ pc' = "strLen"
          /\ cur' = [Fresh(pos) EXCEPT !.goal = "key"]
      BY <1>2 DEF BeginKv, Goto, readerVars, tables
    <2>2. pos = TablesEnd
      BY <2>1 DEF TInv, Tiled, Between
    <2>3. cur'.entryAt = pos /\ cur'.items = <<>> /\ cur'.dims = <<>> /\ cur'.goal = "key"
      BY <2>1 DEF Fresh
    <2>4. Place'
      BY <2>1, <2>2, <2>3, TablesKept DEF Place, InString, TextBegins, InValue, InInfo
    <2> QED BY <2>1, <2>4, InsideTiles
  <1>3. CASE ReadKvType
    <2>1. Reading("kvType") /\ UNCHANGED <<kv, tensors>>
      BY <1>3 DEF ReadKvType, tables
    <2>2. pc = "kvType" /\ raised = Quiet /\ raised' = Quiet /\ pos' = pos + 4
      BY <1>0, <2>1, ReadingAdvances DEF Width
    <2>3. PICK t \in KvTypes :
             \/ RaiseError("E_BAD_KV_TYPE", pos, t) /\ UNCHANGED cur
             \/ /\ t \in ValueTypes
                /\ cur' = [cur EXCEPT !.type = t, !.valueAt = pos', !.goal = "value"]
                /\ Goto(IF t = Str THEN "strLen" ELSE IF t = Array THEN "elemType" ELSE "scalar")
      BY <1>3, Zenon DEF ReadKvType
    <2>4. CASE RaiseError("E_BAD_KV_TYPE", pos, t)
      BY <2>1, <2>4, RefusalTiles DEF RaiseError, Rejected, Parsed, Pending
    <2>5. CASE /\ cur' = [cur EXCEPT !.type = t, !.valueAt = pos', !.goal = "value"]
               /\ Goto(IF t = Str THEN "strLen" ELSE IF t = Array THEN "elemType" ELSE "scalar")
      <3>1. /\ cur'.type = t /\ cur'.valueAt = pos' /\ cur'.goal = "value"
            /\ cur'.entryAt = cur.entryAt /\ cur'.text = cur.text /\ cur'.items = cur.items
        BY <1>0, <2>5 DEF Locals
      <3>2. /\ pc' = (IF t = Str THEN "strLen" ELSE IF t = Array THEN "elemType" ELSE "scalar")
            /\ verdict' = verdict
        BY <2>5 DEF Goto
      <3>3. /\ pos = AfterText /\ cur.items = <<>> /\ cur.entryAt = TablesEnd
        BY <1>0, <2>2 DEF Place, InValue, InKv, KvReads
      <3>4. cur'.valueAt = AfterText' + 4 /\ pos' = cur'.valueAt + 0
        BY <1>0, <2>2, <3>1, <3>3 DEF AfterText
      <3>5. CASE t = Str
        <4>1. pc' = "strLen" /\ TextBegins' = cur'.valueAt
          BY <3>1, <3>2, <3>5 DEF TextBegins
        <4>2. Place'
          BY <2>1, <3>1, <3>3, <3>4, <3>5, <4>1, TablesKept
          DEF Place, InString, InValue, InInfo
        <4> QED BY <2>1, <2>2, <3>2, <4>1, <4>2, InsideTiles
      <3>6. CASE t = Array
        <4>1. pc' = "elemType"
          BY <3>2, <3>6 DEF Str, Array
        <4>2. Place'
          BY <2>1, <3>1, <3>3, <3>4, <3>6, <4>1, TablesKept
          DEF Place, StringReads, InValue, InInfo
        <4> QED BY <2>1, <2>2, <3>2, <4>1, <4>2, InsideTiles
      <3>7. CASE t \notin {Str, Array}
        <4>1. pc' = "scalar"
          BY <3>2, <3>7
        <4>2. Place'
          BY <2>1, <3>1, <3>3, <3>4, <3>7, <4>1, TablesKept
          DEF Place, StringReads, InValue, InInfo
        <4> QED BY <2>1, <2>2, <3>2, <4>1, <4>2, InsideTiles
      <3> QED BY <3>5, <3>6, <3>7
    <2> QED BY <2>3, <2>4, <2>5
  <1>4. CASE ReadScalar
    <2>1. Reading("scalar")
      BY <1>4 DEF ReadScalar
    <2>2. pc = "scalar" /\ raised = Quiet /\ raised' = Quiet /\ pos' = pos + ScalarBytes(cur.type)
      BY <1>0, <2>1, ReadingAdvances DEF Width
    <2>3. /\ cur.valueAt = AfterText + 4 /\ pos = cur.valueAt + 0
          /\ cur.type \notin {Str, Array} /\ cur.entryAt = TablesEnd /\ InKv
      BY <1>0, <2>2 DEF Place, InValue, InKv, KvReads
    <2>4. PICK v \in ScalarValues(cur.type) : PutKv(v)
      BY <1>4 DEF ReadScalar
    <2>5. v \in Values
      BY FieldValues DEF ScalarValues, IntValue, OtherValue, Values
    <2>6. cur.text \in Texts
      BY <1>0, <2>2 DEF Control, InEntry, KvReads
    <2> DEFINE e == [key |-> cur.text, type |-> cur.type, value |-> v,
                     entryAt |-> cur.entryAt, valueAt |-> cur.valueAt]
    <2>7. ValueBytes(e) = ScalarBytes(cur.type)
      BY <2>3, ValueBytesOf
    <2> HIDE DEF e
    <2>8. pos' = cur.valueAt + ValueBytes(e)
      BY <1>0, <2>2, <2>3, <2>7
    <2> QED BY <2>2, <2>3, <2>4, <2>5, <2>6, <2>8, PutKvTiles DEF e
  <1>5. CASE ReadElemType
    <2>1. /\ Reading("elemType") /\ pc' = "arrayCount" /\ UNCHANGED <<kv, tensors, verdict>>
      BY <1>5 DEF ReadElemType, Goto, tables
    <2>2. pc = "elemType" /\ raised = Quiet /\ raised' = Quiet /\ pos' = pos + 4
      BY <1>0, <2>1, ReadingAdvances DEF Width
    <2>3. /\ cur.valueAt = AfterText + 4 /\ pos = cur.valueAt + 0
          /\ cur.type = Array /\ cur.items = <<>> /\ cur.entryAt = TablesEnd
      BY <1>0, <2>2 DEF Place, InValue, InKv, KvReads
    <2>4. /\ cur'.type = cur.type /\ cur'.valueAt = cur.valueAt /\ cur'.text = cur.text
          /\ cur'.entryAt = cur.entryAt /\ cur'.items = cur.items
      BY <1>0, <1>5 DEF ReadElemType, Locals
    <2>5. pos' = cur'.valueAt + 4 /\ AfterText' = AfterText
      BY <1>0, <2>2, <2>3, <2>4 DEF AfterText
    <2>6. Place'
      BY <2>1, <2>3, <2>4, <2>5, TablesKept DEF Place, StringReads, InValue, InInfo
    <2> QED BY <2>1, <2>2, <2>6, InsideTiles
  <1>6. CASE ReadArrayCount
    <2>1. Reading("arrayCount") /\ UNCHANGED <<kv, tensors>>
      BY <1>6 DEF ReadArrayCount, tables
    <2>2. pc = "arrayCount" /\ raised = Quiet /\ raised' = Quiet /\ pos' = pos + 8
      BY <1>0, <2>1, ReadingAdvances DEF Width
    <2>3. CASE \E c, at, n : RaiseError(c, at, n)
      BY <2>1, <2>3, RefusalTiles DEF RaiseError, Rejected, Parsed, Pending
    <2>4. CASE (\E n : cur' = [cur EXCEPT !.count = n]) /\ Goto("items")
      <3>1. /\ cur.valueAt = AfterText + 4 /\ pos = cur.valueAt + 4
            /\ cur.type = Array /\ cur.items = <<>> /\ cur.entryAt = TablesEnd
        BY <1>0, <2>2 DEF Place, InValue, InKv, KvReads
      <3>2. /\ cur'.type = cur.type /\ cur'.valueAt = cur.valueAt /\ cur'.text = cur.text
            /\ cur'.entryAt = cur.entryAt /\ cur'.items = <<>> /\ cur'.elem = cur.elem
            /\ pc' = "items" /\ verdict' = verdict
        BY <1>0, <2>4, <3>1 DEF Goto, Locals
      <3>3. ItemsBytes' = 0
        <4>1. Len(cur'.items) = 0 /\ ScalarBytes(cur'.elem) \in Nat
          BY <3>2, ScalarBytesPositive
        <4>2. StringsBytes(cur'.items) = 0
          BY <3>2, StringsBytesGrow
        <4> QED BY <4>1, <4>2 DEF ItemsBytes
      <3>4. AfterText' = AfterText /\ pos' = cur'.valueAt + 12 + ItemsBytes'
        <4>1. AfterText' = AfterText
          BY <3>2 DEF AfterText
        <4>2. pos' = cur.valueAt + 12 + 0
          BY <1>0, <2>2, <3>1
        <4> QED BY <3>2, <3>3, <4>1, <4>2
      <3>5. InArray(pos)'
        BY <3>1, <3>2, <3>4 DEF InArray
      <3>6. Place'
        BY <2>1, <3>1, <3>2, <3>5, TablesKept DEF Place, StringReads, InValue, InInfo
      <3> QED BY <2>1, <2>2, <3>2, <3>6, InsideTiles
    <2> QED BY <1>6, <2>3, <2>4 DEF ReadArrayCount
  <1>7. CASE NextItem
    <2>1. pc = "items" /\ UNCHANGED <<pos, raised>>
      BY <1>7 DEF NextItem, readerVars
    <2>2. /\ raised = Quiet /\ raised' = Quiet /\ InArray(pos) /\ cur.entryAt = TablesEnd /\ InKv
      BY <1>0, <1>1, <2>1 DEF Place, InValue, InKv
    <2>3. CASE cur.elem = Str /\ ExpectString("item") /\ UNCHANGED tables
      <3>1. /\ cur'.type = cur.type /\ cur'.valueAt = cur.valueAt /\ cur'.text = cur.text
            /\ cur'.entryAt = cur.entryAt /\ cur'.items = cur.items /\ cur'.elem = cur.elem
            /\ cur'.goal = "item" /\ pc' = "strLen"
            /\ UNCHANGED <<kv, tensors, verdict>>
        BY <1>0, <2>3 DEF ExpectString, Goto, Locals, tables
      <3>2. AfterText' = AfterText /\ ItemsBytes' = ItemsBytes /\ TextBegins' = pos
        BY <2>1, <3>1 DEF AfterText, ItemsBytes, TextBegins
      <3>3. InArray(TextBegins)'
        BY <2>2, <3>1, <3>2 DEF InArray
      <3>4. Place'
        BY <2>2, <2>3, <3>1, <3>3, TablesKept DEF Place, InString, InValue, InInfo
      <3> QED BY <2>1, <3>1, <3>4, InsideTiles
    <2>4. CASE cur.elem # Str /\ Goto("elem") /\ UNCHANGED <<tables, cur>>
      <3>1. pc' = "elem" /\ UNCHANGED <<kv, tensors, verdict, cur>>
        BY <2>4 DEF Goto, tables
      <3>2. InArray(pos)'
        BY <2>1, <2>2, <3>1 DEF InArray, AfterText, ItemsBytes
      <3>3. Place'
        BY <2>2, <2>4, <3>1, <3>2, TablesKept DEF Place, StringReads, InValue, InInfo
      <3> QED BY <2>1, <3>1, <3>3, InsideTiles
    <2>5. CASE PutKv(ArrayValue)
      <3>1. /\ ArrayValue \in Values /\ ArrayValue.elem = cur.elem /\ ArrayValue.items = cur.items
        BY <1>0 DEF Locals, ArrayValue, Values
      <3>2. cur.text \in Texts
        BY <1>0, <2>1 DEF Control, InEntry
      <3>3. cur.type = Array /\ cur.valueAt = AfterText + 4 /\ pos' = cur.valueAt + 12 + ItemsBytes
        BY <2>1, <2>2 DEF InArray
      <3> DEFINE e == [key |-> cur.text, type |-> cur.type, value |-> ArrayValue,
                       entryAt |-> cur.entryAt, valueAt |-> cur.valueAt]
      <3>4. ValueBytes(e) = 12 + ItemsBytes
        BY <3>1, <3>3, ValueBytesOf DEF ItemsBytes
      <3>5. ItemsBytes \in Nat
        <4>1. Len(cur.items) \in Nat /\ ScalarBytes(cur.elem) \in Nat
          BY <1>0, ScalarBytesPositive DEF ItemTexts
        <4>2. Len(cur.items) * ScalarBytes(cur.elem) \in Nat
          BY <4>1
        <4>3. cur.elem = Str => StringsBytes(cur.items) \in Nat
          BY <2>2, StringsBytesGrow DEF InArray
        <4> QED BY <4>2, <4>3 DEF ItemsBytes
      <3> HIDE DEF e
      <3>6. pos' = cur.valueAt + ValueBytes(e)
        BY <1>0, <3>3, <3>4, <3>5
      <3> QED BY <2>2, <2>5, <3>1, <3>2, <3>3, <3>6, PutKvTiles DEF e
    <2> QED BY <1>7, <2>3, <2>4, <2>5 DEF NextItem
  <1>8. CASE ReadItem
    <2>1. Reading("elem")
      BY <1>8 DEF ReadItem
    <2>2. pc = "elem" /\ raised = Quiet /\ raised' = Quiet /\ pos' = pos + ScalarBytes(cur.elem)
      BY <1>0, <2>1, ReadingAdvances DEF Width
    <2>3. cur.elem # Str /\ InArray(pos) /\ cur.entryAt = TablesEnd
      BY <1>0, <2>2 DEF Place, InValue, InKv, KvReads
    <2>4. /\ cur'.type = cur.type /\ cur'.valueAt = cur.valueAt /\ cur'.text = cur.text
          /\ cur'.entryAt = cur.entryAt /\ cur'.elem = cur.elem
          /\ cur'.items = Append(cur.items, NoText) /\ pc' = "items"
          /\ UNCHANGED <<kv, tensors, verdict>>
      BY <1>0, <1>8 DEF ReadItem, PutItem, Goto, Locals, tables
    <2>5. Len(cur'.items) = Len(cur.items) + 1 /\ Len(cur.items) \in Nat
      BY <1>0, <2>4 DEF ItemTexts
    <2>6. ItemsBytes' = ItemsBytes + ScalarBytes(cur.elem) /\ ItemsBytes \in Nat
      <3> DEFINE n == Len(cur.items)
                 w == ScalarBytes(cur.elem)
      <3>1. n \in Nat /\ w \in Nat
        BY <2>5, ScalarBytesPositive
      <3>2. ItemsBytes = n * w /\ ItemsBytes' = (n + 1) * w
        BY <2>3, <2>4, <2>5 DEF ItemsBytes
      <3> HIDE DEF n, w
      <3>3. (n + 1) * w = (n * w) + w /\ n * w \in Nat
        BY <3>1
      <3>4. ItemsBytes' = ItemsBytes + w /\ ItemsBytes \in Nat
        BY <3>2, <3>3
      <3> QED BY <3>4 DEF w
    <2>7. AfterText' = AfterText /\ pos' = cur'.valueAt + 12 + ItemsBytes'
      <3>1. pos = cur.valueAt + 12 + ItemsBytes /\ ScalarBytes(cur.elem) \in Nat
        BY <2>3, ScalarBytesPositive DEF InArray
      <3>2. AfterText' = AfterText
        BY <2>4 DEF AfterText
      <3> DEFINE w == ScalarBytes(cur.elem)
                 v == cur.valueAt
      <3>3. v \in Nat /\ w \in Nat /\ pos' = pos + w /\ pos = v + 12 + ItemsBytes
            /\ ItemsBytes' = ItemsBytes + w /\ ItemsBytes \in Nat /\ cur'.valueAt = v
        BY <1>0, <2>2, <2>4, <2>6, <3>1
      <3> HIDE DEF v, w
      <3>4. pos' = v + 12 + ItemsBytes'
        BY <3>3
      <3> QED BY <3>2, <3>3, <3>4
    <2>8. InArray(pos)'
      BY <2>3, <2>4, <2>7 DEF InArray
    <2>9. Place'
      BY <2>3, <2>4, <2>8, TablesKept DEF Place, StringReads, InValue, InInfo
    <2> QED BY <2>2, <2>4, <2>9, InsideTiles
  <1>9. CASE ResolveAlignment
    <2>1. /\ UNCHANGED <<kv, tensors, pos>> /\ pc = "kv" /\ pc' = "tensor"
      BY <1>9 DEF ResolveAlignment, Goto, readerVars, tables
    <2>2. pos' = TablesEnd
      BY <2>1 DEF TInv, Tiled, Between
    <2> QED BY <2>1, <2>2, BoundaryTiles
  <1> QED BY <1>2, <1>3, <1>4, <1>5, <1>6, <1>7, <1>8, <1>9 DEF ReadKv

\* A tensor info that is put ends where the cursor is.
LEMMA PutTensorTiles ==
    ASSUME TInv, InTensor, pc' = "tensor", UNCHANGED <<kv, verdict>>,
           NEW t \in TensorInfo, tensors' = Append(tensors, t),
           t.entryAt = TablesEnd,
           t.dimsAt = t.entryAt + TextBytes(t.name) + 4,
           t.typeAt = t.dimsAt + 8 * Len(t.dims),
           t.offsetAt = t.typeAt + 4,
           pos' = t.offsetAt + 8
    PROVE  Tiled'
  <1> DEFINE n == Len(tensors)
  <1>1. /\ tensors \in Seq(TensorInfo) /\ n \in Nat /\ DOMAIN tensors = 1..n /\ Stored
        /\ verdict = Pending
    BY DEF TInv, RInv, IInv, Tiled, TypeOK, Counting, InTensor, TensorReads, StringReads
  <1>2. /\ Len(tensors') = n + 1 /\ DOMAIN tensors' = 1 .. n + 1 /\ tensors'[n + 1] = t
        /\ tensors' # <<>>
        /\ \A j \in 1..n : tensors'[j] = tensors[j]
    BY <1>1
  <1>3. TensorEnd(t) = pos'
    <2> DEFINE a == t.entryAt
               b == TextBytes(t.name)
               c == 8 * Len(t.dims)
    <2>1. a \in Nat /\ b \in Nat /\ c \in Nat
      BY TextBytesAreNat DEF TensorInfo
    <2>2. TensorEnd(t) = a + b + 4 + c + 12 /\ pos' = (((a + b + 4) + c) + 4) + 8
      BY DEF TensorEnd
    <2> HIDE DEF a, b, c
    <2>3. a + b + 4 + c + 12 = (((a + b + 4) + c) + 4) + 8
      BY <2>1
    <2> QED BY <2>2, <2>3
  <1>4. KvTableEnd' = KvTableEnd
    BY DEF KvTableEnd
  <1>5. TablesEnd = IF n = 0 THEN KvTableEnd ELSE TensorEnd(tensors[n])
    BY <1>1 DEF TablesEnd
  <1> HIDE DEF n
  <1>6. ASSUME NEW i \in 1 .. n + 1
        PROVE  LET u == tensors'[i]
               IN  /\ u.entryAt = (IF i = 1 THEN KvTableEnd ELSE TensorEnd(tensors'[i - 1]))
                   /\ u.dimsAt = u.entryAt + TextBytes(u.name) + 4
                   /\ u.typeAt = u.dimsAt + 8 * Len(u.dims)
                   /\ u.offsetAt = u.typeAt + 4
    <2>1. CASE i = n + 1
      <3>1. n # 0 => n \in 1..n
        BY <1>1
      <3>2. i - 1 = n /\ (i = 1 <=> n = 0)
        BY <1>1, <2>1
      <3>3. t.entryAt = (IF i = 1 THEN KvTableEnd ELSE TensorEnd(tensors'[i - 1]))
        BY <1>2, <1>5, <3>1, <3>2
      <3>4. tensors'[i] = t
        BY <1>2, <2>1
      <3> QED BY <3>3, <3>4
    <2>2. CASE i # n + 1
      <3>1. i \in 1..n /\ (i # 1 => i - 1 \in 1..n)
        BY <1>1, <2>2
      <3>2. LET u == tensors[i]
            IN  /\ u.entryAt = (IF i = 1 THEN KvTableEnd ELSE TensorEnd(tensors[i - 1]))
                /\ u.dimsAt = u.entryAt + TextBytes(u.name) + 4
                /\ u.typeAt = u.dimsAt + 8 * Len(u.dims)
                /\ u.offsetAt = u.typeAt + 4
        BY <1>1, <3>1 DEF Stored
      <3>3. tensors'[i] = tensors[i] /\ (i # 1 => tensors'[i - 1] = tensors[i - 1])
        BY <1>2, <3>1
      <3> QED BY <3>2, <3>3
    <2> QED BY <2>1, <2>2
  <1>7. Stored'
    <2>1. /\ \A i \in DOMAIN kv' :
               /\ kv'[i].entryAt = (IF i = 1 THEN TablesBegin ELSE KvEnd(kv'[i - 1]))
               /\ kv'[i].valueAt = kv'[i].entryAt + TextBytes(kv'[i].key) + 4
      BY <1>1 DEF Stored
    <2>2. DOMAIN tensors' = 1 .. n + 1
      BY <1>2
    <2> QED BY <1>4, <1>6, <2>1, <2>2 DEF Stored
  <1>8. pos' = TablesEnd'
    BY <1>2, <1>3 DEF TablesEnd
  <1>9. Place'
    BY DEF Place, InKv, InTensor, InValue, InInfo, KvReads, TensorReads, StringReads
  <1> QED BY <1>7, <1>8, <1>9 DEF Tiled, Between

LEMMA TensorTiles ==
    ASSUME TInv, ReadTensor \/ Finish
    PROVE  Tiled'
  <1>0. /\ TypeOK /\ Control /\ Counting /\ Stored /\ cur \in Locals /\ pos \in Nat
        /\ cur.entryAt \in Nat /\ cur.dimsAt \in Nat /\ cur.typeAt \in Nat
        /\ cur.dims \in Seq(Nat)
        /\ pc # "done" => verdict = Pending
        /\ raised = Quiet => Place
    BY TilingFacts
  <1>1. CASE BeginTensor
    <2>1. /\ UNCHANGED <<kv, tensors, verdict, pos>> /\ pc = "tensor" /\ pc' = "strLen"
          /\ cur' = [Fresh(pos) EXCEPT !.goal = "name"]
      BY <1>1 DEF BeginTensor, Goto, readerVars, tables
    <2>2. pos = TablesEnd
      BY <2>1 DEF TInv, Tiled, Between
    <2>3. cur'.entryAt = pos /\ cur'.items = <<>> /\ cur'.dims = <<>> /\ cur'.goal = "name"
      BY <2>1 DEF Fresh
    <2>4. Place'
      BY <2>1, <2>2, <2>3, TablesKept DEF Place, InString, TextBegins, InValue, InInfo
    <2> QED BY <2>1, <2>4, InsideTiles
  <1>2. CASE ReadNDims
    <2>1. Reading("nDims") /\ UNCHANGED <<kv, tensors>>
      BY <1>2, Zenon DEF ReadNDims, tables
    <2>2. pc = "nDims" /\ raised = Quiet /\ raised' = Quiet /\ pos' = pos + 4
      BY <1>0, <2>1, ReadingAdvances DEF Width
    <2>3. PICK n \in DimCounts :
             \/ RaiseError("E_TOO_MANY_DIMS", cur.entryAt, n)
             \/ cur' = [cur EXCEPT !.nDims = n, !.dimsAt = pos'] /\ Goto("dim")
      BY <1>2, Zenon DEF ReadNDims
    <2>4. CASE RaiseError("E_TOO_MANY_DIMS", cur.entryAt, n)
      BY <2>1, <2>4, RefusalTiles DEF RaiseError, Rejected, Parsed, Pending
    <2>5. CASE cur' = [cur EXCEPT !.nDims = n, !.dimsAt = pos'] /\ Goto("dim")
      <3>1. pos = AfterText /\ cur.dims = <<>> /\ cur.entryAt = TablesEnd
        BY <1>0, <2>2 DEF Place, InInfo, InTensor, TensorReads
      <3>2. /\ cur'.dimsAt = pos' /\ cur'.entryAt = cur.entryAt /\ cur'.text = cur.text
            /\ cur'.dims = <<>> /\ pc' = "dim" /\ verdict' = verdict
        BY <1>0, <2>5, <3>1 DEF Locals, Goto
      <3>3. cur'.dimsAt = AfterText' + 4 /\ pos' = cur'.dimsAt + 8 * Len(cur'.dims)
        BY <1>0, <2>2, <3>1, <3>2 DEF AfterText
      <3>4. Place'
        BY <2>1, <3>1, <3>2, <3>3, TablesKept DEF Place, StringReads, InValue, InInfo
      <3> QED BY <2>1, <2>2, <3>2, <3>4, InsideTiles
    <2> QED BY <2>3, <2>4, <2>5
  <1>3. CASE ReadDim
    <2>1. Reading("dim") /\ UNCHANGED <<kv, tensors>>
      BY <1>3 DEF ReadDim, tables
    <2>2. pc = "dim" /\ raised = Quiet /\ raised' = Quiet /\ pos' = pos + 8
      BY <1>0, <2>1, ReadingAdvances DEF Width
    <2>3. PICK d \in Dims :
             /\ cur' = [cur EXCEPT !.dims = Append(cur.dims, d), !.typeAt = pos']
             /\ \/ RaiseError("E_NEGATIVE_DIM", cur.dimsAt, 0)
                \/ Goto("dim")
                \/ Goto("tensorType")
      BY <1>3, Zenon DEF ReadDim
    <2>4. CASE RaiseError("E_NEGATIVE_DIM", cur.dimsAt, 0)
      BY <2>1, <2>4, RefusalTiles DEF RaiseError, Rejected, Parsed, Pending
    <2>5. CASE Goto("dim") \/ Goto("tensorType")
      <3>1. /\ cur.dimsAt = AfterText + 4 /\ pos = cur.dimsAt + 8 * Len(cur.dims)
            /\ cur.entryAt = TablesEnd
        BY <1>0, <2>2 DEF Place, InInfo, InTensor, TensorReads
      <3>2. /\ cur'.typeAt = pos' /\ cur'.entryAt = cur.entryAt /\ cur'.text = cur.text
            /\ cur'.dimsAt = cur.dimsAt /\ cur'.dims = Append(cur.dims, d)
        BY <1>0, <2>3 DEF Locals
      <3>3. pc' \in {"dim", "tensorType"} /\ verdict' = verdict
        BY <2>5 DEF Goto
      <3>4. Len(cur'.dims) = Len(cur.dims) + 1 /\ Len(cur.dims) \in Nat
        BY <1>0, <3>2, FieldValues
      <3>5. pos' = cur'.dimsAt + 8 * Len(cur'.dims) /\ AfterText' = AfterText
        <4> DEFINE n == Len(cur.dims)
                   p == cur.dimsAt
        <4>1. n \in Nat /\ p \in Nat /\ pos' = (p + 8 * n) + 8
          BY <1>0, <2>2, <3>1, <3>4
        <4> HIDE DEF n, p
        <4>2. pos' = p + 8 * (n + 1)
          BY <4>1
        <4> QED BY <3>2, <3>4, <4>2 DEF n, p, AfterText
      <3>6. Place'
        BY <2>1, <3>1, <3>2, <3>3, <3>5, TablesKept DEF Place, StringReads, InValue, InInfo
      <3> QED BY <2>1, <2>2, <3>3, <3>6, InsideTiles
    <2> QED BY <2>3, <2>4, <2>5
  <1>4. CASE ReadTensorType
    <2>1. /\ Reading("tensorType") /\ pc' = "tensorOffset" /\ UNCHANGED <<kv, tensors, verdict>>
      BY <1>4 DEF ReadTensorType, Goto, tables
    <2>2. pc = "tensorType" /\ raised = Quiet /\ raised' = Quiet /\ pos' = pos + 4
      BY <1>0, <2>1, ReadingAdvances DEF Width
    <2>3. /\ cur.dimsAt = AfterText + 4 /\ cur.typeAt = cur.dimsAt + 8 * Len(cur.dims)
          /\ pos = cur.typeAt + 0 /\ cur.entryAt = TablesEnd
      BY <1>0, <2>2 DEF Place, InInfo, InTensor, TensorReads
    <2>4. /\ cur'.dimsAt = cur.dimsAt /\ cur'.typeAt = cur.typeAt /\ cur'.text = cur.text
          /\ cur'.entryAt = cur.entryAt /\ cur'.dims = cur.dims
      BY <1>0, <1>4 DEF ReadTensorType, Locals
    <2>5. pos' = cur'.typeAt + 4 /\ AfterText' = AfterText
      BY <1>0, <2>2, <2>3, <2>4 DEF AfterText
    <2>6. Place'
      BY <2>1, <2>3, <2>4, <2>5, TablesKept DEF Place, StringReads, InValue, InInfo
    <2> QED BY <2>1, <2>2, <2>6, InsideTiles
  <1>5. CASE ReadTensorOffset
    <2>1. Reading("tensorOffset") /\ UNCHANGED kv
      BY <1>5 DEF ReadTensorOffset
    <2>2. pc = "tensorOffset" /\ raised = Quiet /\ raised' = Quiet /\ pos' = pos + 8
      BY <1>0, <2>1, ReadingAdvances DEF Width
    <2>3. /\ cur.dimsAt = AfterText + 4 /\ cur.typeAt = cur.dimsAt + 8 * Len(cur.dims)
          /\ pos = cur.typeAt + 4 /\ cur.entryAt = TablesEnd /\ InTensor
      BY <1>0, <2>2 DEF Place, InInfo, InTensor, TensorReads
    <2>4. PICK o \in TensorOffsets :
             \/ RaiseError("E_NEGATIVE_COUNT", pos, o) /\ UNCHANGED tensors
             \/ /\ tensors' = Append(tensors,
                     [name |-> cur.text, dims |-> cur.dims, type |-> cur.type, offset |-> o,
                      entryAt |-> cur.entryAt, dimsAt |-> cur.dimsAt,
                      typeAt |-> cur.typeAt, offsetAt |-> pos])
                /\ Goto("tensor")
      BY <1>5 DEF ReadTensorOffset
    <2>5. CASE RaiseError("E_NEGATIVE_COUNT", pos, o) /\ UNCHANGED tensors
      BY <2>1, <2>5, RefusalTiles DEF RaiseError, Rejected, Parsed, Pending
    <2> DEFINE t == [name |-> cur.text, dims |-> cur.dims, type |-> cur.type, offset |-> o,
                     entryAt |-> cur.entryAt, dimsAt |-> cur.dimsAt,
                     typeAt |-> cur.typeAt, offsetAt |-> pos]
    <2>6. CASE tensors' = Append(tensors, t) /\ Goto("tensor")
      <3>1. t \in TensorInfo
        <4>1. cur.text \in Texts
          BY <1>0, <2>2 DEF Control, InEntry, TensorReads
        <4>2. o \in Nat /\ cur.type \in Nat
          BY <1>0, FieldValues DEF Locals
        <4> QED BY <1>0, <4>1, <4>2 DEF TensorInfo
      <3>2. /\ t.entryAt = TablesEnd /\ t.dimsAt = t.entryAt + TextBytes(t.name) + 4
            /\ t.typeAt = t.dimsAt + 8 * Len(t.dims) /\ t.offsetAt = t.typeAt + 4
            /\ pos' = t.offsetAt + 8
        BY <2>2, <2>3 DEF AfterText
      <3>3. pc' = "tensor" /\ UNCHANGED <<kv, verdict>>
        BY <2>1, <2>6 DEF Goto
      <3> HIDE DEF t
      <3> QED BY <2>3, <2>6, <3>1, <3>2, <3>3, PutTensorTiles
    <2> QED BY <2>4, <2>5, <2>6
  <1>6. CASE Finish
    <2>1. /\ UNCHANGED <<kv, tensors, pos>> /\ pc = "tensor" /\ pc' = "done"
      BY <1>6 DEF Finish, readerVars, tables
    <2>2. pos' = TablesEnd'
      BY <2>1, TablesKept DEF TInv, Tiled, Between
    <2>3. Place'
      BY <2>1 DEF Place, InKv, InTensor, InValue, InInfo, KvReads, TensorReads, StringReads
    <2> QED BY <1>0, <2>1, <2>2, <2>3, TablesKept DEF Tiled, Between
  <1> QED BY <1>1, <1>2, <1>3, <1>4, <1>5, <1>6 DEF ReadTensor

(***************************************************************************)
(* On every file: the offsets parse_gguf records are those of the bytes.   *)
(* Records lie end to end from byte 24, each field offset a finding may    *)
(* quote is its own, and between two records, and after the last, the      *)
(* cursor stands at the end of what was stored.                            *)
(***************************************************************************)
THEOREM RecordsAreTiled == Spec => []RecordsTile
  <1>1. Init => TInv
    <2> SUFFICES ASSUME Init PROVE TInv
      OBVIOUS
    <2>1. RInv
      BY InitRefines
    <2>2. kv = <<>> /\ tensors = <<>> /\ pc = "open" /\ verdict = Pending
      BY DEF Init
    <2>3. Stored /\ Between
      BY <2>2 DEF Stored, Between, Pending, Parsed
    <2>4. Place
      BY <2>2 DEF Place, InKv, InTensor, InValue, InInfo, KvReads, TensorReads, StringReads
    <2> QED BY <2>1, <2>3, <2>4 DEF TInv, Tiled
  <1>2. TInv /\ [Next]_vars => TInv'
    <2> SUFFICES ASSUME TInv, [Next]_vars PROVE TInv'
      OBVIOUS
    <2>1. RInv'
      BY StepRefines DEF TInv
    <2>2. CASE UNCHANGED vars
      <3>1. UNCHANGED <<kv, tensors, pc, pos, cur, verdict, raised>>
        BY <2>2 DEF vars
      <3>2. Stored' /\ Between'
        BY <3>1, TablesKept DEF TInv, Tiled, Between
      <3>3. Place' = Place
        BY <3>1, TablesKept
        DEF Place, InKv, InTensor, InString, InValue, InInfo, InArray, TextBegins, AfterText, ItemsBytes
      <3> QED BY <2>1, <3>1, <3>2, <3>3 DEF TInv, Tiled
    <2>3. CASE Step
      BY <2>1, <2>3, HeaderTiles, StringTiles, KvTiles, TensorTiles DEF TInv, Step, ReadString
    <2> QED BY <2>2, <2>3 DEF Next, Done
  <1>3. TInv => RecordsTile
    BY DEF TInv, Tiled, Stored, Between, RecordsTile
  <1> QED BY <1>1, <1>2, <1>3, PTL DEF Spec
=============================================================================
