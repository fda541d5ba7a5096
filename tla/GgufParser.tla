----------------------------- MODULE GgufParser -----------------------------
(***************************************************************************)
(* parse_gguf of sentinel/parser.py: header, key/value table, alignment    *)
(* and tensor-info table of one GGUF file, over the cursor of Reader.      *)
(*                                                                         *)
(* The content of the file is not fixed in advance.  The parser is purely  *)
(* sequential, every byte is read at most once, so a read that returns any *)
(* value of its field stands for every file of len bytes.  Widths are the  *)
(* real ones (8-byte counts, 4-byte tags); the sign bit and the sanity     *)
(* ceiling are scaled down through the constants.                          *)
(*                                                                         *)
(* Each action is one read of the program together with the checks the     *)
(* code makes before its next read.  A read that fails leaves its          *)
(* exception in raised, and Handle is the except clause around it.         *)
(***************************************************************************)
EXTENDS Reader, GgufFormat, Sequences, FiniteSets

CONSTANTS
    Sizes,              \* sizes of the files considered
    SignBit,            \* INT64_SIGN_BIT
    CountSanity,        \* COUNT_SANITY
    VersionMax,         \* GGUF_VERSION_MAX
    MaxDims,            \* registry.GGML_MAX_DIMS
    DefaultAlignment,   \* GGUF_DEFAULT_ALIGNMENT
    AlignKey,           \* ALIGN_KEY
    Texts,              \* the strings a file can hold
    TextLen,            \* their length in UTF-8 bytes
    Versions, Counts, Lengths, KvTypes, ArrayCounts, DimCounts, Dims,
    TensorTypes, TensorOffsets,     \* values the integer fields can hold
    Ints                \* values of an integer KV

ASSUME ParserAssumption ==
    /\ Sizes \subseteq Nat
    /\ {SignBit, CountSanity, VersionMax, MaxDims, DefaultAlignment} \subseteq Nat \ {0}
    /\ CountSanity < SignBit
    /\ AlignKey \in Texts
    /\ TextLen \in [Texts -> Nat]
    /\ UNION {Versions, Counts, Lengths, KvTypes, ArrayCounts, DimCounts, Dims,
              TensorTypes, TensorOffsets} \subseteq Nat
    /\ Ints \subseteq Int

-----------------------------------------------------------------------------
\* The parser's own lower bound on one array element.
ElemMin(t) == IF t = Str THEN 4 ELSE IF t \in {0, 1, Bool} THEN 1 ELSE 2

\* What a file may hold in a scalar of type t; only integers are told apart.
IntValue(n) == [kind |-> "int", n |-> n]
OtherValue(k) == [kind |-> k, n |-> 0]
ScalarValues(t) ==
    IF t \in UnsignedTypes THEN {IntValue(n) : n \in Ints \cap Nat}
    ELSE IF t \in SignedTypes THEN {IntValue(n) : n \in Ints}
    ELSE {OtherValue(IF t = Bool THEN "bool" ELSE "float")}

Decodings(n) == {t \in Texts : TextLen[t] = n}

-----------------------------------------------------------------------------
VARIABLES
    pc,             \* the read the parser is about to make
    version, nTensors, nKv,     \* header fields
    kv,             \* entries in file order
    kvMap,          \* text -> index in kv of its first entry, 0 if none
    alignment,
    tensors,        \* tensor infos in file order
    cur,            \* locals of the entry under construction
    findings,       \* problems recorded without raising
    verdict         \* pending, parsed, rejected with a code, or crashed

header == <<version, nTensors, nKv>>
tables == <<kv, kvMap, tensors>>
vars == <<len, pos, raised, pc, version, nTensors, nKv, kv, kvMap, alignment,
          tensors, cur, findings, verdict>>

Nowhere == -1       \* offset=None
NoText == "<none>"

\* Locals at the top of a loop iteration that starts at byte p.
Fresh(p) ==
    [entryAt |-> p, goal |-> NoText, text |-> NoText, type |-> 0, valueAt |-> p,
     slen |-> 0, elem |-> 0, count |-> 0, items |-> <<>>,
     nDims |-> 0, dims |-> <<>>, dimsAt |-> p, typeAt |-> p]

Pending == [kind |-> "pending", code |-> NoText, at |-> Nowhere, claim |-> 0]
Parsed == [Pending EXCEPT !.kind = "parsed"]
Rejected(code, at, claim) == [kind |-> "rejected", code |-> code, at |-> at, claim |-> claim]
Crashed(e, at) == [kind |-> "crashed", code |-> e, at |-> at, claim |-> 0]

Init ==
    /\ ReaderInit(Sizes)
    /\ pc = "open"
    /\ version = 0 /\ nTensors = 0 /\ nKv = 0
    /\ kv = <<>> /\ kvMap = [t \in Texts |-> 0] /\ tensors = <<>>
    /\ alignment = DefaultAlignment
    /\ cur = Fresh(0)
    /\ findings = <<>>
    /\ verdict = Pending

\* raise SentinelError: the file is refused and the exception leaves parse_gguf.
RaiseError(code, at, claim) ==
    /\ verdict' = Rejected(code, at, claim)
    /\ pc' = "done"

Goto(p) == pc' = p /\ UNCHANGED verdict

(***************************************************************************)
(* The reads.                                                              *)
(***************************************************************************)
HeaderReads == {"version", "nTensors", "nKv"}
StringReads == {"strLen", "strText"}
KvReads == {"kvType", "scalar", "elemType", "arrayCount", "elem"}
TensorReads == {"nDims", "dim", "tensorType", "tensorOffset"}
Reads == {"magic"} \cup HeaderReads \cup StringReads \cup KvReads \cup TensorReads
Steps == {"open", "kv", "items", "tensor"}

Width ==
    IF pc = "strText" THEN cur.slen
    ELSE IF pc = "scalar" THEN ScalarBytes(cur.type)
    ELSE IF pc = "elem" THEN ScalarBytes(cur.elem)
    ELSE IF pc \in {"magic", "version", "kvType", "elemType", "nDims", "tensorType"} THEN 4
    ELSE 8

\* The read pc names succeeds, and the action says what becomes of its value.
Reading(p) == pc = p /\ raised = Quiet /\ Advance(Width)

ReadFails ==
    /\ pc \in Reads
    /\ raised = Quiet
    /\ Refuse(Width)
    /\ UNCHANGED <<pc, header, tables, alignment, cur, findings, verdict>>

(***************************************************************************)
(* Header.                                                                 *)
(***************************************************************************)
Open ==
    /\ pc = "open"
    /\ IF len = 0 THEN RaiseError("E_ZERO_FILE", Nowhere, 0)
       ELSE IF len < 4 THEN RaiseError("E_TRUNCATED_HEADER", Nowhere, 0)
       ELSE Goto("magic")
    /\ UNCHANGED <<readerVars, header, tables, alignment, cur, findings>>

ReadMagic ==
    /\ Reading("magic")
    /\ \/ Goto("version")
       \/ RaiseError("E_MAGIC", Nowhere, 0)
    /\ UNCHANGED <<header, tables, alignment, cur, findings>>

ReadVersion ==
    /\ Reading("version")
    /\ version' \in Versions
    /\ Goto("nTensors")
    /\ UNCHANGED <<nTensors, nKv, tables, alignment, cur, findings>>

(***************************************************************************)
(* _read_count.  Its caller passes rd.remaining() before the eight bytes   *)
(* of the count itself are read, which is Remaining of the current state.  *)
(* The ceiling and the budget record a finding before they raise.          *)
(***************************************************************************)
CountTooBig(raw, minEach) == raw > CountSanity \/ raw * minEach > Remaining

RejectCount(raw, minEach) ==
    /\ \/ /\ raw >= SignBit
          /\ RaiseError("E_NEGATIVE_COUNT", pos, raw)
          /\ UNCHANGED findings
       \/ /\ raw < SignBit
          /\ CountTooBig(raw, minEach)
          /\ findings' = Append(findings, [code |-> "E_HUGE_ALLOC", at |-> pos])
          /\ RaiseError("E_HUGE_ALLOC", Nowhere, raw)

AcceptsCount(raw, minEach) == raw < SignBit /\ ~CountTooBig(raw, minEach)

ReadNTensors ==
    /\ Reading("nTensors")
    /\ \E raw \in Counts :
          \/ RejectCount(raw, 16) /\ UNCHANGED nTensors
          \/ AcceptsCount(raw, 16) /\ nTensors' = raw /\ Goto("nKv") /\ UNCHANGED findings
    /\ UNCHANGED <<version, nKv, tables, alignment, cur>>

SupportedVersion(v) == v # 0 /\ v <= VersionMax

\* The version is judged only after both counts have been accepted.
ReadNKv ==
    /\ Reading("nKv")
    /\ \E raw \in Counts :
          \/ RejectCount(raw, 13) /\ UNCHANGED nKv
          \/ /\ AcceptsCount(raw, 13)
             /\ nKv' = raw
             /\ IF SupportedVersion(version) THEN Goto("kv")
                ELSE RaiseError("E_VERSION", 4, version)
             /\ UNCHANGED findings
    /\ UNCHANGED <<version, nTensors, tables, alignment, cur>>

(***************************************************************************)
(* Strings: a key, a string value, an element of a string array, or a      *)
(* tensor name, as cur.goal says.                                          *)
(***************************************************************************)
ExpectString(goal) == cur' = [cur EXCEPT !.goal = goal] /\ Goto("strLen")

ReadStringLength ==
    /\ Reading("strLen")
    /\ \E n \in Lengths :
          \/ n >= SignBit /\ RaiseError("E_NEGATIVE_COUNT", pos, n) /\ UNCHANGED cur
          \/ n < SignBit /\ cur' = [cur EXCEPT !.slen = n] /\ Goto("strText")
    /\ UNCHANGED <<header, tables, alignment, findings>>

\* Mutation: a duplicate key replaces the earlier entry.
IndexLast(key, i) == [kvMap EXCEPT ![key] = i]

\* kv_map keeps the first entry of a key.
IndexFirst(key, i) == IF kvMap[key] = 0 THEN [kvMap EXCEPT ![key] = i] ELSE kvMap

\* kv_entries.append and the kv_map update behind it.
PutKv(value) ==
    /\ kv' = Append(kv, [key |-> cur.text, type |-> cur.type, value |-> value,
                         entryAt |-> cur.entryAt, valueAt |-> cur.valueAt])
    /\ kvMap' = IndexFirst(cur.text, Len(kv'))
    /\ Goto("kv")
    /\ UNCHANGED <<tensors, cur>>

PutItem(item) ==
    /\ cur' = [cur EXCEPT !.items = Append(cur.items, item)]
    /\ Goto("items")
    /\ UNCHANGED tables

StringValue(t) == [kind |-> "string", n |-> 0, text |-> t]
ArrayValue == [kind |-> "array", n |-> 0, elem |-> cur.elem, items |-> cur.items]

ReadText ==
    /\ Reading("strText")
    /\ \E t \in Decodings(cur.slen) :
          \/ /\ cur.goal \in {"key", "name"}
             /\ cur' = [cur EXCEPT !.text = t]
             /\ Goto(IF cur.goal = "key" THEN "kvType" ELSE "nDims")
             /\ UNCHANGED tables
          \/ cur.goal = "value" /\ PutKv(StringValue(t))
          \/ cur.goal = "item" /\ PutItem(t)
    /\ UNCHANGED <<header, alignment, findings>>

ReadBadText ==
    /\ pc = "strText"
    /\ raised = Quiet
    /\ AdvanceOverBadText(cur.slen)
    /\ UNCHANGED <<pc, header, tables, alignment, cur, findings, verdict>>

(***************************************************************************)
(* Key/value table.                                                        *)
(***************************************************************************)
BeginKv ==
    /\ pc = "kv"
    /\ Len(kv) < nKv
    /\ cur' = [Fresh(pos) EXCEPT !.goal = "key"]
    /\ Goto("strLen")
    /\ UNCHANGED <<readerVars, header, tables, alignment, findings>>

ReadKvType ==
    /\ Reading("kvType")
    /\ \E t \in KvTypes :
          \/ /\ t \notin ValueTypes
             /\ RaiseError("E_BAD_KV_TYPE", pos, t)
             /\ UNCHANGED cur
          \/ /\ t \in ValueTypes
             /\ cur' = [cur EXCEPT !.type = t, !.valueAt = pos', !.goal = "value"]
             /\ Goto(IF t = Str THEN "strLen" ELSE IF t = Array THEN "elemType" ELSE "scalar")
    /\ UNCHANGED <<header, tables, alignment, findings>>

ReadScalar ==
    /\ Reading("scalar")
    /\ \E v \in ScalarValues(cur.type) : PutKv(v)
    /\ UNCHANGED <<header, alignment, findings>>

ReadElemType ==
    /\ Reading("elemType")
    /\ \E t \in KvTypes : cur' = [cur EXCEPT !.elem = t]
    /\ Goto("arrayCount")
    /\ UNCHANGED <<header, tables, alignment, findings>>

\* Element type and count are both read before either is judged; here the
\* budget is what really remains after them.
ReadArrayCount ==
    /\ Reading("arrayCount")
    /\ \E n \in ArrayCounts :
          IF cur.elem = Array \/ cur.elem \notin ValueTypes
          THEN RaiseError("E_BAD_KV_TYPE", pos' - 12, cur.elem) /\ UNCHANGED cur
          ELSE IF n >= SignBit
          THEN RaiseError("E_NEGATIVE_COUNT", pos, n) /\ UNCHANGED cur
          ELSE IF n > CountSanity
          THEN RaiseError("E_HUGE_ALLOC", pos, n) /\ UNCHANGED cur
          ELSE IF n * ElemMin(cur.elem) > len - pos'
          THEN RaiseError("E_TRUNCATED_KV_VALUE", cur.valueAt, n) /\ UNCHANGED cur
          ELSE cur' = [cur EXCEPT !.count = n] /\ Goto("items")
    /\ UNCHANGED <<header, tables, alignment, findings>>

\* The element loop of an array, and its end.
NextItem ==
    /\ pc = "items"
    /\ \/ /\ Len(cur.items) < cur.count
          /\ cur.elem = Str
          /\ ExpectString("item")
          /\ UNCHANGED tables
       \/ /\ Len(cur.items) < cur.count
          /\ cur.elem # Str
          /\ Goto("elem")
          /\ UNCHANGED <<tables, cur>>
       \/ Len(cur.items) = cur.count /\ PutKv(ArrayValue)
    /\ UNCHANGED <<readerVars, header, alignment, findings>>

\* An item of a numeric array is only its bytes: no later step looks at it.
ReadItem ==
    /\ Reading("elem")
    /\ PutItem(NoText)
    /\ UNCHANGED <<header, alignment, findings>>

\* Mutation: any integer is taken for an alignment.
AnyInteger(v) == v.kind = "int"

\* kv_map.get(ALIGN_KEY), judged once the whole table is in.
UsableAlignment(v) == v.kind = "int" /\ PowerOfTwo(v.n)

ResolveAlignment ==
    /\ pc = "kv"
    /\ Len(kv) = nKv
    /\ LET i == kvMap[AlignKey]
       IN  \/ i = 0 /\ alignment' = DefaultAlignment /\ UNCHANGED findings
           \/ /\ i # 0
              /\ UsableAlignment(kv[i].value)
              /\ alignment' = kv[i].value.n
              /\ UNCHANGED findings
           \/ /\ i # 0
              /\ ~UsableAlignment(kv[i].value)
              /\ alignment' = DefaultAlignment
              /\ findings' = Append(findings, [code |-> "W_NO_ALIGNMENT", at |-> kv[i].valueAt])
    /\ Goto("tensor")
    /\ UNCHANGED <<readerVars, header, tables, cur>>

(***************************************************************************)
(* Tensor-info table.                                                      *)
(***************************************************************************)
BeginTensor ==
    /\ pc = "tensor"
    /\ Len(tensors) < nTensors
    /\ cur' = [Fresh(pos) EXCEPT !.goal = "name"]
    /\ Goto("strLen")
    /\ UNCHANGED <<readerVars, header, tables, alignment, findings>>

\* Mutation: dims_off is taken before n_dims is read.
ReadNDimsAtTag ==
    /\ Reading("nDims")
    /\ \E n \in DimCounts \cap 1..MaxDims :
          cur' = [cur EXCEPT !.nDims = n, !.dimsAt = pos]
    /\ Goto("dim")
    /\ UNCHANGED <<header, tables, alignment, findings>>

ReadNDims ==
    /\ Reading("nDims")
    /\ \E n \in DimCounts :
          \/ /\ n \notin 1..MaxDims
             /\ RaiseError("E_TOO_MANY_DIMS", cur.entryAt, n)
             /\ UNCHANGED cur
          \/ /\ n \in 1..MaxDims
             /\ cur' = [cur EXCEPT !.nDims = n, !.dimsAt = pos']
             /\ Goto("dim")
    /\ UNCHANGED <<header, tables, alignment, findings>>

\* Mutation: only the leading dim is screened.
LeadingDimNegative(dims) == dims[1] >= SignBit

HasNegativeDim(dims) == \E i \in 1..Len(dims) : dims[i] >= SignBit

\* All dims are read before the first of them is judged.
ReadDim ==
    /\ Reading("dim")
    /\ \E d \in Dims :
          LET dims == Append(cur.dims, d)
          IN  /\ cur' = [cur EXCEPT !.dims = dims, !.typeAt = pos']
              /\ IF Len(dims) < cur.nDims THEN Goto("dim")
                 ELSE IF HasNegativeDim(dims)
                 THEN RaiseError("E_NEGATIVE_DIM", cur.dimsAt, 0)
                 ELSE Goto("tensorType")
    /\ UNCHANGED <<header, tables, alignment, findings>>

ReadTensorType ==
    /\ Reading("tensorType")
    /\ \E t \in TensorTypes : cur' = [cur EXCEPT !.type = t]
    /\ Goto("tensorOffset")
    /\ UNCHANGED <<header, tables, alignment, findings>>

ReadTensorOffset ==
    /\ Reading("tensorOffset")
    /\ \E o \in TensorOffsets :
          \/ /\ o >= SignBit
             /\ RaiseError("E_NEGATIVE_COUNT", pos, o)
             /\ UNCHANGED tensors
          \/ /\ o < SignBit
             /\ tensors' = Append(tensors,
                   [name |-> cur.text, dims |-> cur.dims, type |-> cur.type, offset |-> o,
                    entryAt |-> cur.entryAt, dimsAt |-> cur.dimsAt,
                    typeAt |-> cur.typeAt, offsetAt |-> pos])
             /\ Goto("tensor")
    /\ UNCHANGED <<header, kv, kvMap, alignment, cur, findings>>

MetaEnd == pos
DataStart == IF nTensors > 0 THEN AlignUp(MetaEnd, alignment) ELSE MetaEnd

\* Mutation: the table ends wherever the parser stops, not at the count.
FinishEarly ==
    /\ pc = "tensor"
    /\ verdict' = Parsed
    /\ pc' = "done"
    /\ UNCHANGED <<readerVars, header, tables, alignment, cur, findings>>

Finish ==
    /\ pc = "tensor"
    /\ Len(tensors) = nTensors
    /\ verdict' = Parsed
    /\ pc' = "done"
    /\ UNCHANGED <<readerVars, header, tables, alignment, cur, findings>>

(***************************************************************************)
(* The three try blocks.  The magic is read outside all of them, and the   *)
(* header's has no clause for BadString.                                   *)
(***************************************************************************)
Section ==
    IF pc \in HeaderReads THEN "header"
    ELSE IF pc \in TensorReads \/ (pc \in StringReads /\ cur.goal = "name") THEN "tensors"
    ELSE IF pc \in KvReads \cup StringReads THEN "kv"
    ELSE "none"

TruncationCode(s) ==
    IF s = "header" THEN "E_TRUNCATED_HEADER"
    ELSE IF s = "kv" THEN "E_TRUNCATED_KV" ELSE "E_TRUNCATED_TENSOR_INFO"

\* Mutation: the kv section forgets its BadString clause.
HandlesNoBadKey(s, e) ==
    \/ s = "tensors" /\ e \in Exceptions
    \/ s \in {"header", "kv"} /\ e \in {"Eof", "OverAlloc"}

Handles(s, e) ==
    \/ s \in {"kv", "tensors"} /\ e \in Exceptions
    \/ s = "header" /\ e \in {"Eof", "OverAlloc"}

HandlerCode(s, e) ==
    IF e = "Eof" THEN TruncationCode(s)
    ELSE IF e = "OverAlloc" THEN "E_HUGE_ALLOC" ELSE "E_BAD_STRING"

\* Mutation: a failed read inside a pair is skipped and the loop goes on.
HandleBySkipping ==
    /\ pc \in Reads
    /\ raised # Quiet
    /\ raised' = Quiet
    /\ Goto("kv")
    /\ UNCHANGED <<len, pos, header, tables, alignment, cur, findings>>

Handle ==
    /\ pc \in Reads
    /\ raised # Quiet
    /\ verdict' = IF Handles(Section, raised.exc)
                  THEN Rejected(HandlerCode(Section, raised.exc), raised.at, Width)
                  ELSE Crashed(raised.exc, raised.at)
    /\ pc' = "done"
    /\ UNCHANGED <<readerVars, header, tables, alignment, cur, findings>>

-----------------------------------------------------------------------------
Done == pc = "done" /\ UNCHANGED vars

ReadHeader == ReadMagic \/ ReadVersion \/ ReadNTensors \/ ReadNKv
ReadString == ReadStringLength \/ ReadText \/ ReadBadText
ReadKv == BeginKv \/ ReadKvType \/ ReadScalar \/ ReadElemType \/ ReadArrayCount
             \/ NextItem \/ ReadItem
ReadTensor == BeginTensor \/ ReadNDims \/ ReadDim \/ ReadTensorType \/ ReadTensorOffset

Step ==
    \/ Open \/ ReadFails \/ Handle
    \/ ReadHeader \/ ReadString \/ ReadKv \/ ResolveAlignment \/ ReadTensor \/ Finish

Next == Step \/ Done

\* parse_gguf is one call on one thread: it runs until it returns or raises.
Spec == Init /\ [][Next]_vars /\ WF_vars(Step)

-----------------------------------------------------------------------------
(***************************************************************************)
(* Type correctness of the parser's state.                                 *)
(***************************************************************************)
ItemTexts == Seq(Texts \cup {NoText})

Values ==
    [kind : {"int", "bool", "float"}, n : Int]
        \cup [kind : {"string"}, n : {0}, text : Texts]
        \cup [kind : {"array"}, n : {0}, elem : Nat, items : ItemTexts]

KvEntry == [key : Texts, type : Nat, value : Values, entryAt : Nat, valueAt : Nat]

TensorInfo ==
    [name : Texts, dims : Seq(Nat), type : Nat, offset : Nat,
     entryAt : Nat, dimsAt : Nat, typeAt : Nat, offsetAt : Nat]

Locals ==
    [entryAt : Nat, goal : {NoText, "key", "value", "item", "name"},
     text : Texts \cup {NoText}, type : Nat, valueAt : Nat, slen : Nat,
     elem : Nat, count : Nat, items : ItemTexts,
     nDims : Nat, dims : Seq(Nat), dimsAt : Nat, typeAt : Nat]

RejectionCodes ==
    {"E_ZERO_FILE", "E_MAGIC", "E_VERSION", "E_TRUNCATED_HEADER", "E_TRUNCATED_KV",
     "E_TRUNCATED_TENSOR_INFO", "E_TRUNCATED_KV_VALUE", "E_BAD_KV_TYPE", "E_BAD_STRING",
     "E_HUGE_ALLOC", "E_NEGATIVE_COUNT", "E_NEGATIVE_DIM", "E_TOO_MANY_DIMS"}

Verdicts ==
    [kind : {"pending", "parsed", "rejected", "crashed"},
     code : RejectionCodes \cup Exceptions \cup {NoText}, at : Int, claim : Nat]

Findings == [code : {"E_HUGE_ALLOC", "W_NO_ALIGNMENT"}, at : Nat]

TypeOK ==
    /\ len \in Sizes
    /\ pos \in Nat /\ pos <= len
    /\ raised \in [exc : Exceptions \cup {"none"}, at : Nat]
    /\ pc \in Reads \cup Steps \cup {"done"}
    /\ version \in Nat
    /\ nTensors \in Nat /\ nTensors <= CountSanity
    /\ nKv \in Nat /\ nKv <= CountSanity
    /\ kv \in Seq(KvEntry)
    /\ kvMap \in [Texts -> 0..Len(kv)]
    /\ tensors \in Seq(TensorInfo)
    /\ alignment \in Nat \ {0}
    /\ cur \in Locals
    /\ findings \in Seq(Findings)
    /\ verdict \in Verdicts

(***************************************************************************)
(* Records in the file.                                                    *)
(***************************************************************************)
HeaderBytes == 24

TextBytes(t) == 8 + TextLen[t]

\* Bytes of the first n strings of an array.
StringsBytes(items) ==
    LET upTo[n \in 0..Len(items)] ==
            IF n = 0 THEN 0 ELSE upTo[n - 1] + TextBytes(items[n])
    IN  upTo[Len(items)]

ValueBytes(e) ==
    CASE e.type = Str -> TextBytes(e.value.text)
      [] e.type = Array -> 12 + (IF e.value.elem = Str THEN StringsBytes(e.value.items)
                                 ELSE Len(e.value.items) * ScalarBytes(e.value.elem))
      [] OTHER -> ScalarBytes(e.type)

KvEnd(e) == e.entryAt + TextBytes(e.key) + 4 + ValueBytes(e)
TensorEnd(t) == t.entryAt + TextBytes(t.name) + 4 + 8 * Len(t.dims) + 12

TablesBegin == HeaderBytes
KvTableEnd == IF kv = <<>> THEN TablesBegin ELSE KvEnd(kv[Len(kv)])
TablesEnd == IF tensors = <<>> THEN KvTableEnd ELSE TensorEnd(tensors[Len(tensors)])

(***************************************************************************)
(* The offsets parse_gguf records are those of the bytes: every entry      *)
(* begins where the one before it ends, the inner offsets a finding may    *)
(* quote lie at their fields, and the cursor is at the end of the last     *)
(* whole record whenever the loop is between two of them.                  *)
(***************************************************************************)
RecordsTile ==
    /\ \A i \in DOMAIN kv :
          /\ kv[i].entryAt = (IF i = 1 THEN TablesBegin ELSE KvEnd(kv[i - 1]))
          /\ kv[i].valueAt = kv[i].entryAt + TextBytes(kv[i].key) + 4
    /\ \A i \in DOMAIN tensors :
          LET t == tensors[i]
          IN  /\ t.entryAt = (IF i = 1 THEN KvTableEnd ELSE TensorEnd(tensors[i - 1]))
              /\ t.dimsAt = t.entryAt + TextBytes(t.name) + 4
              /\ t.typeAt = t.dimsAt + 8 * Len(t.dims)
              /\ t.offsetAt = t.typeAt + 4
    /\ pc \in {"kv", "tensor"} \/ verdict = Parsed => pos = TablesEnd

(***************************************************************************)
(* Every outcome is a result or a coded SentinelError: no reader exception *)
(* leaves parse_gguf through a gap in the three try blocks.                *)
(***************************************************************************)
NoRawException == verdict.kind # "crashed"

(***************************************************************************)
(* A refusal points at the damage.  A truncation is at the cursor, where   *)
(* the missing bytes would begin; any other located fault is a field that  *)
(* was read, inside the record under construction (or in the header).      *)
(***************************************************************************)
TruncationCodes == {"E_TRUNCATED_HEADER", "E_TRUNCATED_KV", "E_TRUNCATED_TENSOR_INFO"}

FaultIsLocated ==
    verdict.kind = "rejected" /\ verdict.at # Nowhere =>
        IF verdict.code \in TruncationCodes \/ raised.exc = "OverAlloc"
        THEN verdict.at = pos
        ELSE cur.entryAt <= verdict.at /\ verdict.at < pos

(***************************************************************************)
(* The size screens refuse only what cannot be there: whatever was claimed *)
(* when the file is called truncated or too large, the smallest encoding   *)
(* of it is longer than the bytes left or over the sanity ceiling.  No     *)
(* file that holds what it claims is lost, but one with a string longer    *)
(* than a chunk; and only a string the file does hold is refused for that: *)
(* bytes that are missing are a truncation, however many were claimed.     *)
(***************************************************************************)
SmallestTensor == 8 + 4 + 8 + 4 + 8
SmallestKv == 8 + 4 + 1
SmallestItem(t) == IF t = Str THEN 8 ELSE ScalarBytes(t)

RejectionsAreJustified ==
    /\ verdict.code = "E_HUGE_ALLOC" =>
          IF raised.exc = "OverAlloc" THEN MaxChunk < verdict.claim /\ verdict.claim <= Remaining
          ELSE \/ verdict.claim > CountSanity
               \/ pos = 16 /\ verdict.claim * SmallestTensor > Remaining
               \/ pos = 24 /\ verdict.claim * SmallestKv > Remaining
    /\ verdict.code = "E_TRUNCATED_KV_VALUE" =>
          verdict.claim * SmallestItem(cur.elem) > Remaining
    /\ verdict.code \in TruncationCodes => len < 4 \/ verdict.claim > Remaining

(***************************************************************************)
(* kv_map answers like gguf_find_key: the first entry of a key, whatever   *)
(* later duplicates say.                                                   *)
(***************************************************************************)
EntriesOf(t) == {i \in DOMAIN kv : kv[i].key = t}
FirstOf(t) == CHOOSE i \in EntriesOf(t) : \A j \in EntriesOf(t) : i <= j

FirstMatchWins ==
    \A t \in Texts : kvMap[t] = IF EntriesOf(t) = {} THEN 0 ELSE FirstOf(t)

(***************************************************************************)
(* The alignment used from the tensor table on is the file's own when its  *)
(* first declaration is a positive power of two, and otherwise the default *)
(* with W_NO_ALIGNMENT recorded if there was one to ignore; the data       *)
(* section of a parsed file starts at the next multiple of it.             *)
(***************************************************************************)
InTensorTable == pc \in TensorReads \cup {"tensor"} \/ verdict = Parsed

IsAlignment(v) == v.kind = "int" /\ \E k \in 0..v.n : v.n = TwoTo[k]

AlignmentHonoured ==
    InTensorTable =>
        LET declared == EntriesOf(AlignKey) # {}
            usable == declared /\ IsAlignment(kv[FirstOf(AlignKey)].value)
            warned == \E i \in DOMAIN findings : findings[i].code = "W_NO_ALIGNMENT"
        IN  /\ alignment = IF usable THEN kv[FirstOf(AlignKey)].value.n ELSE DefaultAlignment
            /\ warned <=> declared /\ ~usable
            /\ verdict = Parsed /\ nTensors > 0 =>
                  DataStart % alignment = 0 /\ DataStart - MetaEnd \in 0..alignment - 1

(***************************************************************************)
(* No number with the int64 sign bit, and no dimension count outside       *)
(* 1..GGML_MAX_DIMS, reaches a ParsedModel: the geometry rules multiply    *)
(* these without looking again.                                            *)
(***************************************************************************)
OnlyScreenedNumbers ==
    \A i \in DOMAIN tensors :
        /\ Len(tensors[i].dims) \in 1..MaxDims
        /\ \A d \in DOMAIN tensors[i].dims : tensors[i].dims[d] < SignBit
        /\ tensors[i].offset < SignBit

(***************************************************************************)
(* parse_gguf returns or raises on every file: the loops are bounded by    *)
(* counts that were checked, and every read moves the cursor or fails.     *)
(***************************************************************************)
Terminates == <>(verdict # Pending)

(***************************************************************************)
(* parse_gguf implements RecordStream: announced records are delivered     *)
(* one by one and in order, each paid for with bytes of the file, and a    *)
(* file is delivered whole or not at all.                                  *)
(***************************************************************************)
BetweenRecords == pc \in {"kv", "tensor"}
InTables == pc \in KvReads \cup StringReads \cup TensorReads \cup {"kv", "items", "tensor"}
Refused == verdict # Pending /\ verdict # Parsed

StreamStage ==
    IF InTables THEN "tables"
    ELSE IF Refused THEN "refused" ELSE IF verdict = Parsed THEN "whole" ELSE "header"
StreamKvLeft == IF InTables THEN nKv - Len(kv) ELSE 0
StreamTensorsLeft == IF InTables THEN nTensors - Len(tensors) ELSE 0
StreamSpent ==
    IF BetweenRecords \/ verdict = Parsed THEN pos
    ELSE IF InTables THEN cur.entryAt ELSE 0

Stream == INSTANCE RecordStream WITH
    size <- len, stage <- StreamStage, kvLeft <- StreamKvLeft,
    tensorsLeft <- StreamTensorsLeft, spent <- StreamSpent

StreamSpec == Stream!Spec
=============================================================================
