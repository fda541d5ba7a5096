---------------------------- MODULE ModelWriter ----------------------------
(***************************************************************************)
(* The life of a fixture: build_model of sentinel/generate.py writes it    *)
(* tensor by tensor, mutate damages it, parse_gguf reads it back, and the  *)
(* layout rules of TensorAudit judge what was read.  Besides, the rules    *)
(* see documents nobody wrote, as in TensorAudit.                          *)
(*                                                                         *)
(* A file is its size and the fields a mutation can change; where the      *)
(* parts of its data section are is kept in dataAt, where its records say  *)
(* they are in infos, and where the records themselves end in recordEnds.  *)
(***************************************************************************)
EXTENDS TensorAudit, FiniteSets

CONSTANTS
    Layouts,            \* what _tensor_layout may ask for
    ALIGN,              \* generate.ALIGN and parser.GGUF_DEFAULT_ALIGNMENT: 32
    NumKv, KvBytes,     \* the key/value section: 28 entries, and its length
    SignBit,            \* 2^63
    CountSanity,        \* 50,000,000
    HugeCounts,         \* counts mutate writes: 2^63 and 2^40
    SmallTensorCounts,  \* 1..4
    SmallKvCounts,      \* 1..2
    BadVersions,        \* 0, 4, 99, 999999
    BadAlignments,      \* 0, 3, 7, 48
    BadTypes,           \* 99, 500, 2^31, 10000
    HugeOffsets,        \* 2^62, 2^48, 10^11
    HugeDims,           \* 2^40, 2^45, 10^12
    JunkSizes           \* bytes append adds: 1,200,000 up to 4,000,000

HeaderBytes == 24
VERSION == 3

Item == [nameLen : Nat \ {0}, dims : [1..NumDims -> Nat \ {0}], type : Nat]

\* A fixture has no more tensors and pairs than the parser takes, and a pair
\* at least 13 bytes.
ASSUME WriterAssumption ==
    /\ Layouts \subseteq Seq(Item) \ {<<>>}
    /\ ALIGN \in Nat \ {0} /\ PowerOfTwo(ALIGN)
    /\ NumKv \in Nat /\ KvBytes \in Nat /\ 13 * NumKv <= KvBytes
    /\ SignBit \in Nat /\ CountSanity \in Nat /\ CountSanity < SignBit
    /\ NumKv <= CountSanity /\ \A l \in Layouts : Len(l) <= CountSanity

\* What mutate writes is wrong by itself.
ASSUME MutationAssumption ==
    /\ HugeCounts \cup SmallTensorCounts \cup SmallKvCounts \cup HugeOffsets
         \cup BadVersions \cup BadAlignments \cup BadTypes \cup HugeDims \cup JunkSizes \subseteq Nat
    /\ \A n \in HugeCounts : n > CountSanity
    /\ BadVersions \cap 1..VERSION = {}
    /\ \A a \in BadAlignments : ~PowerOfTwo(a)
    /\ BadTypes \cap DOMAIN TypeTable = {}

-----------------------------------------------------------------------------
VARIABLES
    stage,      \* "write", "written", "damaged", "audit", or how it ended: "refused", "raised"
    layout,     \* the tensors to write
    cursor,     \* build_model's position in the data section
    infos,      \* records written so far
    recordEnds, \* where in the file each of them ends
    dataLen,    \* bytes of data_parts
    dataAt,     \* where in the joined data_parts each tensor starts
    file,       \* what the file holds
    kind,       \* the corruption class applied to it
    parsed      \* codes of parse_gguf: the one it raised, or those it recovered from

writerVars == <<stage, layout, cursor, infos, recordEnds, dataLen, dataAt, file, kind, parsed>>

Blank == [size |-> 0, magic |-> TRUE, version |-> VERSION, nTensors |-> 0, nKv |-> NumKv,
          alignment |-> ALIGN, kvType |-> TRUE, tensors |-> <<>>]
Nothing == [size |-> 0, metaEnd |-> 0, dataStart |-> 0, alignment |-> ALIGN, tensors |-> <<>>,
            dirtyPadding |-> FALSE, constantData |-> FALSE]

WriterInit ==
    /\ rule = "unknown_types" /\ found = {}
    /\ cursor = 0 /\ infos = <<>> /\ recordEnds = <<>> /\ dataLen = 0 /\ dataAt = <<>>
    /\ file = Blank /\ kind = "none" /\ parsed = {}
    /\ \/ stage = "audit" /\ doc \in Documents /\ layout = <<>>
       \/ stage = "write" /\ doc = Nothing /\ layout \in Layouts

-----------------------------------------------------------------------------
(***************************************************************************)
(* build_model: one record and one part of the data per tensor.  The       *)
(* offsets are aligned; the data parts are joined without a gap.           *)
(***************************************************************************)
\* _tensor_data_bytes: unlike tensor_bytes it gives 0 for an empty tensor.
PartBytes(t) ==
    LET row == RowBytes(t.type, t.dims[1])
    IN  IF row = Unsized THEN Unsized ELSE row * t.dims[2] * t.dims[3] * t.dims[4]

\* What mutate writes is out of scale for a fixture: offsets and rows that end
\* behind its data even if every tensor were as long as the longest, and junk
\* that stays above what is allowed when every tensor left a gap.
ASSUME ScaleAssumption ==
    \A l \in Layouts : \A i \in DOMAIN l :
        LET data == Len(l) * (PartBytes(l[i]) + ALIGN)
        IN  /\ \A o \in HugeOffsets : o >= data
            /\ KnownType(l[1].type) => \A n \in HugeDims : RowBytes(l[1].type, n) >= data
            /\ \A n \in JunkSizes : n > JunkFloor + Len(l) * ALIGN /\ n > (4 + Len(l)) * ALIGN

\* Mutation: positions are rounded down.
RoundedDown(c) == ALIGN * (c \div ALIGN)

NextOffset(c) == AlignUp(c, ALIGN)

\* enc_tensor: name length, name, n_dims, four dims, type, offset.
RecordBytes(item) == 8 + item.nameLen + 4 + 8 * NumDims + 4 + 8

\* Where the first k records end.
TableEnd(k) == IF k = 0 THEN HeaderBytes + KvBytes ELSE recordEnds[k]

WriteTensor ==
    LET item == layout[Len(infos) + 1]
        size == PartBytes(item)
        at == IF infos = <<>> THEN 0 ELSE NextOffset(cursor)
    IN  /\ stage = "write" /\ Len(infos) < Len(layout)
        /\ IF size = Unsized
           THEN stage' = "raised" /\ UNCHANGED <<cursor, infos, recordEnds, dataLen, dataAt>>
           ELSE /\ infos' = Append(infos, [nDims |-> NumDims, dims |-> item.dims,
                                           type |-> item.type, offset |-> at])
                /\ recordEnds' = Append(recordEnds, TableEnd(Len(infos)) + RecordBytes(item))
                /\ dataAt' = Append(dataAt, dataLen)
                /\ dataLen' = dataLen + size
                /\ cursor' = at + size
                /\ UNCHANGED stage
        /\ UNCHANGED <<vars, layout, file, kind, parsed>>

\* Mutation: the tensor table is not padded.
TableUnpadded(end) == end

PaddedTable(end) == AlignUp(end, ALIGN)

Written ==
    LET n == Len(layout)
        pad == AlignUp(cursor, ALIGN) - cursor
    IN  [Blank EXCEPT !.nTensors = n, !.tensors = infos,
                      !.size = PaddedTable(TableEnd(n)) + dataLen + pad]

CloseFile ==
    /\ stage = "write" /\ Len(infos) = Len(layout)
    /\ file' = Written /\ stage' = "written"
    /\ UNCHANGED <<vars, layout, cursor, infos, recordEnds, dataLen, dataAt, kind, parsed>>

-----------------------------------------------------------------------------
(***************************************************************************)
(* mutate: one corruption class applied to a written file.  The class      *)
(* flip, one bit pattern anywhere in the file, is left out.                *)
(***************************************************************************)
Mutate(k, damaged) ==
    /\ stage = "written"
    /\ stage' = "damaged" /\ kind' = k /\ file' = damaged
    /\ UNCHANGED <<vars, layout, cursor, infos, recordEnds, dataLen, dataAt, parsed>>

Magic == Mutate("magic", [file EXCEPT !.magic = FALSE])
Version == \E v \in BadVersions : Mutate("version", [file EXCEPT !.version = v])
Alignment == \E a \in BadAlignments : Mutate("alignment", [file EXCEPT !.alignment = a])
KvType == Mutate("kv_type", [file EXCEPT !.kvType = FALSE])

\* n_tensors is never set above the number of records the builder writes.
CountTensors ==
    \E n \in HugeCounts \cup (SmallTensorCounts \cap 1..Len(layout)) :
        Mutate("count_tensors", [file EXCEPT !.nTensors = n])

CountKv ==
    \E n \in HugeCounts \cup SmallKvCounts : Mutate("count_kv", [file EXCEPT !.nKv = n])

\* randrange(max(8, len - 8)), and a cut at 0 leaves one byte.
Truncate == \E cut \in 1..file.size - 9 : Mutate("truncate", [file EXCEPT !.size = cut])
TruncatedHeader == \E cut \in 1..11 : Mutate("truncated_header", [file EXCEPT !.size = cut])
AppendJunk == \E n \in JunkSizes : Mutate("append", [file EXCEPT !.size = @ + n])

\* The anchor token_embd.weight is the first tensor of every layout.
TensorType == \E t \in BadTypes : Mutate("tensor_type", [file EXCEPT !.tensors[1].type = t])
TensorOffset ==
    \E o \in HugeOffsets : Mutate("tensor_offset", [file EXCEPT !.tensors[1].offset = o])
TensorDim == \E n \in HugeDims : Mutate("tensor_dim", [file EXCEPT !.tensors[1].dims[1] = n])

Zero ==
    \/ Mutate("zero", [file EXCEPT !.version = 0])
    \/ Mutate("zero", [file EXCEPT !.alignment = 0])

Damage ==
    \/ Magic \/ Version \/ Alignment \/ KvType \/ CountTensors \/ CountKv
    \/ Truncate \/ TruncatedHeader \/ AppendJunk
    \/ TensorType \/ TensorOffset \/ TensorDim \/ Zero

-----------------------------------------------------------------------------
(***************************************************************************)
(* parse_gguf on such a file: the first check that fails names the code it *)
(* raises.  One of several codes may do where the model does not say which *)
(* entry a cut hits.                                                       *)
(***************************************************************************)
\* Mutation: the version is checked against the newest one only.
NotTooNew(v) == v <= VERSION

VersionOk(v) == v # 0 /\ v <= VERSION

CountCodes(n, minEach, left) ==
    IF n >= SignBit THEN {"E_NEGATIVE_COUNT"}
    ELSE IF n > CountSanity \/ n * minEach > left THEN {"E_HUGE_ALLOC"} ELSE {}

\* Fewer pairs than there are: the second pair read as a tensor has n_dims 5,
\* its type tag; the third leads into the middle of a string.
MisreadTable == IF file.nKv = 1 THEN {"E_TOO_MANY_DIMS"} ELSE {"E_TRUNCATED_TENSOR_INFO"}

\* The checks in the order of the code, each with the codes it may raise.
Checks ==
    LET tensorCount == CountCodes(file.nTensors, 16, file.size - 8)
        kvCount == CountCodes(file.nKv, 13, file.size - 16)
    IN  << <<file.size < 4, {"E_TRUNCATED_HEADER"}>>,
           <<~file.magic, {"E_MAGIC"}>>,
           <<file.size < 16, {"E_TRUNCATED_HEADER"}>>,
           <<tensorCount # {}, tensorCount>>,
           <<file.size < HeaderBytes, {"E_TRUNCATED_HEADER"}>>,
           <<kvCount # {}, kvCount>>,
           <<~VersionOk(file.version), {"E_VERSION"}>>,
           <<~file.kvType, {"E_BAD_KV_TYPE"}>>,
           <<file.nKv < NumKv, MisreadTable>>,
           <<file.size < HeaderBytes + KvBytes, {"E_TRUNCATED_KV", "E_TRUNCATED_KV_VALUE"}>>,
           <<file.nTensors <= Len(layout) /\ file.size < TableEnd(file.nTensors),
             {"E_TRUNCATED_TENSOR_INFO"}>> >>

FirstFailure(i) == Checks[i][1] /\ \A j \in 1 .. i - 1 : ~Checks[j][1]

Refusals == UNION {Checks[i][2] : i \in {k \in DOMAIN Checks : FirstFailure(k)}}

Refuse ==
    /\ stage \in {"written", "damaged"} /\ Refusals # {}
    /\ \E code \in Refusals : parsed' = {code}
    /\ stage' = "refused"
    /\ UNCHANGED <<vars, layout, cursor, infos, recordEnds, dataLen, dataAt, file, kind>>

Usable == IF PowerOfTwo(file.alignment) THEN file.alignment ELSE ALIGN
Recovered == IF PowerOfTwo(file.alignment) THEN {} ELSE {"W_NO_ALIGNMENT"}

\* Records behind the declared count stand where the padding should be: the
\* first byte of the next one, the length of its name, is not zero.
ParsedModel ==
    LET end == TableEnd(file.nTensors)
    IN  [size |-> file.size, metaEnd |-> end, alignment |-> Usable,
         dataStart |-> AlignUp(end, Usable),
         tensors |-> SubSeq(file.tensors, 1, file.nTensors),
         dirtyPadding |-> file.nTensors < Len(layout) /\ AlignUp(end, ALIGN) # end,
         constantData |-> FALSE]

Deliver ==
    /\ stage \in {"written", "damaged"} /\ Refusals = {}
    /\ parsed' = Recovered /\ doc' = ParsedModel
    /\ stage' = "audit"
    /\ UNCHANGED <<rule, found, layout, cursor, infos, recordEnds, dataLen, dataAt, file, kind>>

Audit == stage = "audit" /\ Next /\ UNCHANGED writerVars

Ended == stage \in {"refused", "raised"} /\ UNCHANGED <<vars, writerVars>>

WriterNext == WriteTensor \/ CloseFile \/ Damage \/ Refuse \/ Deliver \/ Audit \/ Ended

WriterSpec == WriterInit /\ [][WriterNext]_<<vars, writerVars>>

-----------------------------------------------------------------------------
(***************************************************************************)
(* What is written has a shape: offsets grow, the data is as long as its   *)
(* parts, and what a file holds was written into it.                       *)
(***************************************************************************)
WriterTypeOK ==
    /\ stage \in {"write", "written", "damaged", "audit", "refused", "raised"}
    /\ layout \in Layouts \cup {<<>>}
    /\ Len(infos) = Len(dataAt) /\ Len(infos) <= Len(layout)
    /\ \A i \in DOMAIN infos : infos[i] \in Tensor
    /\ dataLen <= cursor
    /\ \A i \in DOMAIN infos :
          /\ dataAt[i] <= infos[i].offset
          /\ i > 1 => infos[i].offset >= infos[i - 1].offset + PartBytes(infos[i - 1])
    /\ stage = "refused" => Cardinality(parsed) = 1

Reports == Codes \cup parsed
Scanned == stage = "refused" \/ rule = "done"

\* Detectors of the corruption classes: STRONG in tests/_shared.py.
Wanted ==
    [magic |-> {"E_MAGIC"}, version |-> {"E_VERSION"},
     truncated_header |-> {"E_TRUNCATED_HEADER"}, tensor_type |-> {"E_BAD_TENSOR_TYPE"},
     tensor_offset |-> {"E_TENSOR_PAST_EOF"}, append |-> {"W_TRAILING_JUNK"},
     zero |-> {"E_VERSION", "W_NO_ALIGNMENT"}, alignment |-> {"W_NO_ALIGNMENT"},
     kv_type |-> {"E_BAD_KV_TYPE"}, tensor_dim |-> {"E_TENSOR_OVERLAP", "E_TENSOR_PAST_EOF"}]

(***************************************************************************)
(* Every corruption class with a detector in tests/_shared.py is detected  *)
(* in every model the writer writes, not only in the one the tests damage: *)
(* neither an earlier check of the parser nor a rule that abstains hides   *)
(* it.                                                                     *)
(***************************************************************************)
StrongClassesAreCaught ==
    Scanned /\ kind \in DOMAIN Wanted => Reports \cap Wanted[kind] # {}

(***************************************************************************)
(* A file that lost a byte of a tensor by a cut is refused or has a tensor *)
(* past the end; a count of tensors set too low is seen in the padding     *)
(* unless the shortened table ends on the alignment.                       *)
(***************************************************************************)
LostTensorsAreReported ==
    Scanned =>
        /\ kind = "truncate" /\ file.size < PaddedTable(TableEnd(Len(layout))) + dataLen =>
              stage = "refused" \/ Reported("E_TENSOR_PAST_EOF")
        /\ kind = "count_tensors" /\ file.nTensors < Len(layout) =>
              Reported("E_PADDING_NOT_ZERO") \/ TableEnd(file.nTensors) % ALIGN = 0

(***************************************************************************)
(* When the parts of the data are multiples of the alignment, the writer   *)
(* keeps its promise: every tensor's bytes are where its record says, and  *)
(* the undamaged file is scanned without a finding.                        *)
(***************************************************************************)
AlignedFixturesAreSound ==
    LET aligned == \A i \in DOMAIN layout : PartBytes(layout[i]) % ALIGN = 0
    IN  Scanned /\ kind = "none" /\ layout # <<>> /\ aligned =>
            /\ Reports = {}
            /\ \A i \in DOMAIN infos : dataAt[i] = infos[i].offset

(***************************************************************************)
(* tests/test_roundtrip.py: what the builder emits the reader accepts      *)
(* without a finding, whatever the sizes of the tensors.  build_model      *)
(* aligns the offsets but joins the data without gaps.                     *)
(***************************************************************************)
FixturesAreClean == Scanned /\ kind = "none" /\ layout # <<>> => Reports = {}
=============================================================================
