------------------------- MODULE TensorAuditProofs -------------------------
(***************************************************************************)
(* Theorems about TensorAudit, for every set of documents, every type      *)
(* table and every value of the floors.  Settled says of each rule that    *)
(* has run that its defect is absent or reported.                          *)
(***************************************************************************)
EXTENDS TensorAudit, Numbers

LEMMA TensorTyped ==
    ASSUME doc \in Document, NEW i \in Tensors
    PROVE  /\ doc.tensors[i] \in Tensor
           /\ Offset(i) \in Nat /\ doc.tensors[i].type \in Nat
           /\ doc.tensors[i].nDims \in 1..NumDims
           /\ doc.tensors[i].dims \in [1..NumDims -> Nat]
           /\ \A k \in doc.tensors[i].nDims + 1..NumDims : doc.tensors[i].dims[k] = 1
  <1>1. doc.tensors \in Seq(Tensor)
    BY DEF Document
  <1>2. doc.tensors[i] \in Tensor
    BY <1>1 DEF Tensors
  <1> QED BY <1>2 DEF Tensor, Offset

LEMMA WholeBlocks ==
    ASSUME NEW n \in Nat \ {0}, NEW b \in Nat \ {0}, n % b = 0
    PROVE  n \div b \in Nat \ {0}
  OBVIOUS

LEMMA PositiveProduct ==
    ASSUME NEW a \in Nat \ {0}, NEW b \in Nat \ {0}
    PROVE  a * b \in Nat \ {0}
  OBVIOUS

LEMMA NatProduct ==
    ASSUME NEW a \in Nat, NEW b \in Nat
    PROVE  a * b \in Nat
  OBVIOUS

\* A tensor that could be sized has at least one byte.
LEMMA SizedIsPositive ==
    ASSUME doc \in Document, NEW i \in Sized
    PROVE  TensorBytes(doc.tensors[i]) \in Nat \ {0}
  <1> DEFINE t == doc.tensors[i]
             row == RowBytes(t.type, t.dims[1])
  <1>1. i \in Tensors /\ TensorBytes(t) # Unsized
    BY DEF Sized
  <1>2. /\ t.nDims \in 1..4 /\ t.dims \in [1..4 -> Nat]
        /\ \A k \in t.nDims + 1..4 : t.dims[k] = 1
    BY <1>1, TensorTyped DEF NumDims
  <1>3. ~Empty(t) /\ row # Unsized /\ TensorBytes(t) = row * (t.dims[2] * t.dims[3] * t.dims[4])
    BY <1>1 DEF TensorBytes
  <1>4. \A k \in 1..4 : t.dims[k] \in Nat \ {0}
    BY <1>2, <1>3 DEF Empty
  <1>5. t.dims[2] * t.dims[3] * t.dims[4] \in Nat \ {0}
    <2> DEFINE d2 == t.dims[2]
               d3 == t.dims[3]
               d4 == t.dims[4]
    <2>1. d2 \in Nat \ {0} /\ d3 \in Nat \ {0} /\ d4 \in Nat \ {0}
      BY <1>4
    <2> HIDE DEF d2, d3, d4
    <2>2. d2 * d3 \in Nat \ {0}
      BY <2>1, PositiveProduct
    <2>3. d2 * d3 * d4 \in Nat \ {0}
      BY <2>1, <2>2, PositiveProduct
    <2> QED BY <2>3 DEF d2, d3, d4
  <1>6. row \in Nat \ {0}
    <2>1. KnownType(t.type) /\ ~Blocked(t.type, t.dims[1])
          /\ row = (t.dims[1] \div TypeTable[t.type].blck) * TypeTable[t.type].size
      BY <1>3 DEF RowBytes
    <2>2. TypeTable[t.type].blck \in Nat \ {0} /\ TypeTable[t.type].size \in Nat \ {0}
      BY <2>1, AuditAssumption DEF KnownType
    <2>3. t.dims[1] \div TypeTable[t.type].blck \in Nat \ {0}
      BY <1>4, <2>1, <2>2, WholeBlocks DEF Blocked
    <2> QED BY <2>1, <2>2, <2>3, PositiveProduct
  <1> QED BY <1>3, <1>5, <1>6, PositiveProduct

LEMMA Extents ==
    ASSUME doc \in Document, NEW i \in Sized
    PROVE  i \in Tensors /\ Offset(i) \in Nat /\ End(i) \in Nat /\ Offset(i) < End(i)
  <1>1. i \in Tensors
    BY DEF Sized
  <1>2. Offset(i) \in Nat /\ TensorBytes(doc.tensors[i]) \in Nat \ {0}
    BY <1>1, TensorTyped, SizedIsPositive
  <1> QED BY <1>1, <1>2 DEF End

LEMMA SharedIsInside ==
    ASSUME doc \in Document, NEW i \in Sized, NEW j \in Sized
    PROVE  Shared(i, j) <=> i # j /\ Offset(j) < End(i) /\ Offset(i) < End(j)
  <1>1. /\ Offset(i) \in Nat /\ End(i) \in Nat /\ Offset(i) < End(i)
        /\ Offset(j) \in Nat /\ End(j) \in Nat /\ Offset(j) < End(j)
    BY Extents
  <1>2. ASSUME Shared(i, j) PROVE i # j /\ Offset(j) < End(i) /\ Offset(i) < End(j)
    <2>1. PICK b \in Bytes(i) : b \in Bytes(j)
      BY <1>2 DEF Shared
    <2> QED BY <1>1, <1>2, <2>1 DEF Bytes, Shared
  <1>3. ASSUME i # j, Offset(j) < End(i), Offset(i) < End(j) PROVE Shared(i, j)
    <2> DEFINE b == IF Offset(i) <= Offset(j) THEN Offset(j) ELSE Offset(i)
    <2>1. b \in Bytes(i) /\ b \in Bytes(j)
      BY <1>1, <1>3 DEF Bytes
    <2> QED BY <1>3, <2>1 DEF Shared
  <1> QED BY <1>2, <1>3

(***************************************************************************)
(* In offset order some tensor starts inside its predecessor if and only   *)
(* if some two tensors share a byte: the predecessor of the later one of   *)
(* the two need not be the other, but then it starts no later.             *)
(***************************************************************************)
LEMMA NeighboursSuffice ==
    ASSUME doc \in Document, NEW order \in Orders
    PROVE  StartsInside(order) # {} <=> \E i, j \in Sized : Shared(i, j)
  <1>0. PICK n \in Nat : order \in [1..n -> Sized]
    BY DEF Orders
  <1>1. /\ \A i \in Sized : \E k \in 1..n : order[k] = i
        /\ \A k, m \in 1..n : k < m => Before(order[k], order[m])
    BY <1>0 DEF Orders
  <1>2. \A k \in 1..n : /\ order[k] \in Sized /\ Offset(order[k]) \in Nat
                        /\ End(order[k]) \in Nat /\ Offset(order[k]) < End(order[k])
    BY <1>0, Extents
  <1>3. \A k, m \in 1..n : k <= m => Offset(order[k]) <= Offset(order[m])
    BY <1>1, <1>2 DEF Before
  <1>4. ASSUME NEW k \in StartsInside(order) PROVE \E i, j \in Sized : Shared(i, j)
    <2>1. k \in 1..n /\ k - 1 \in 1..n /\ k - 1 < k /\ Offset(order[k]) < End(order[k - 1])
      BY <1>0 DEF StartsInside
    <2>2. order[k - 1] # order[k]
      <3>1. Before(order[k - 1], order[k])
        BY <1>1, <2>1
      <3>2. order[k] \in Tensors /\ order[k] \in Int
        BY <1>2, <2>1 DEF Sized, Tensors, Document
      <3> QED BY <1>2, <2>1, <3>1, <3>2 DEF Before
    <2>3. Offset(order[k - 1]) <= Offset(order[k])
      BY <1>3, <2>1
    <2>4. Shared(order[k - 1], order[k])
      BY <1>2, <2>1, <2>2, <2>3, SharedIsInside
    <2> QED BY <1>2, <2>1, <2>4
  <1>5. ASSUME NEW i \in Sized, NEW j \in Sized, Shared(i, j) PROVE StartsInside(order) # {}
    <2>1. PICK k \in 1..n : order[k] = i
      BY <1>1
    <2>2. PICK m \in 1..n : order[m] = j
      BY <1>1
    <2>3. i # j /\ Offset(j) < End(i) /\ Offset(i) < End(j)
      BY <1>5, SharedIsInside
    <2>4. ASSUME NEW p \in 1..n, NEW q \in 1..n, p < q, Offset(order[q]) < End(order[p])
          PROVE  p + 1 \in StartsInside(order)
      <3>1. p + 1 \in 1..n /\ p + 1 <= q /\ p + 1 > 1 /\ (p + 1) - 1 = p
        BY <2>4
      <3>2. Offset(order[p + 1]) <= Offset(order[q])
        BY <1>3, <3>1
      <3>3. Offset(order[p + 1]) < End(order[p])
        BY <1>2, <2>4, <3>1, <3>2
      <3> QED BY <1>0, <3>1, <3>3 DEF StartsInside
    <2>5. CASE k < m
      BY <2>1, <2>2, <2>3, <2>4, <2>5
    <2>6. CASE m < k
      BY <2>1, <2>2, <2>3, <2>4, <2>6
    <2> QED BY <2>1, <2>2, <2>3, <2>5, <2>6
  <1> QED BY <1>4, <1>5

(***************************************************************************)
(* The inductive invariant: what each rule that has run has settled.       *)
(***************************************************************************)
AfterTypes == (Rules \cup {"done"}) \ {"unknown_types"}
AfterOverlaps == AfterTypes \ {"offsets_and_overlaps"}
AfterEof == AfterOverlaps \ {"past_eof"}
AfterPadding == AfterEof \ {"padding_zeroed"}

NonEmpty == {i \in Tensors : ~Empty(doc.tensors[i])}
SharedPairs == {p \in Sized \X Sized : Shared(p[1], p[2])}
HidesRecords == doc.metaEnd < doc.dataStart /\ doc.dataStart <= doc.size /\ doc.dirtyPadding

TypesSettled ==
    rule \in AfterTypes =>
        \/ NonEmpty \subseteq Sized
        \/ Reported("E_BAD_TENSOR_TYPE") \/ Reported("E_QUANT_ROW_NOT_BLOCK_ALIGNED")
OffsetsSettled == rule \in AfterOverlaps => Unaligned = {} \/ Reported("E_DATA_UNALIGNED")
OverlapsSettled ==
    Reported("E_TENSOR_OVERLAP") <=> rule \in AfterOverlaps /\ SharedPairs # {}
EofSettled == rule \in AfterEof => PastData = {} \/ Reported("E_TENSOR_PAST_EOF")
PaddingSettled == rule \in AfterPadding => ~HidesRecords \/ Reported("E_PADDING_NOT_ZERO")

Settled ==
    TypesSettled /\ OffsetsSettled /\ OverlapsSettled /\ EofSettled /\ PaddingSettled

IInv == TypeOK /\ Settled

\* An audit about to begin.
Fresh == rule = "unknown_types" /\ found = {} /\ doc \in Document

LEMMA FreshSettles == Fresh => IInv
  <1> SUFFICES ASSUME Fresh PROVE IInv
    OBVIOUS
  <1>1. rule = "unknown_types" /\ found = {} /\ doc \in Document
    BY DEF Fresh
  <1>2. TypeOK
    BY <1>1 DEF TypeOK, Rules
  <1>3. Codes = {} /\ rule \notin AfterTypes
    BY <1>1 DEF Codes, AfterTypes
  <1>4. Settled
    BY <1>3 DEF Settled, TypesSettled, OffsetsSettled, OverlapsSettled, EofSettled,
                PaddingSettled, Reported, AfterOverlaps, AfterEof, AfterPadding
  <1> QED BY <1>2, <1>4 DEF IInv

LEMMA InitSettles == Init => IInv
  BY FreshSettles, AuditAssumption DEF Init, Fresh

\* Findings only accumulate, and what the rules look at stays.
LEMMA ReportGrows ==
    ASSUME NEW F, NEW next, Report(F, next)
    PROVE  /\ rule' = next /\ doc' = doc /\ found' = found \cup F
           /\ Codes' = Codes \cup {f.code : f \in F}
           /\ Tensors' = Tensors /\ Sized' = Sized /\ NonEmpty' = NonEmpty
           /\ Unaligned' = Unaligned /\ PastData' = PastData /\ SharedPairs' = SharedPairs
  <1>1. rule' = next /\ doc' = doc /\ found' = found \cup F
    BY DEF Report
  <1>2. Codes' = Codes \cup {f.code : f \in F}
    BY <1>1 DEF Codes
  <1>3. Tensors' = Tensors /\ Sized' = Sized /\ NonEmpty' = NonEmpty
    BY <1>1 DEF Tensors, Sized, NonEmpty
  <1>4. Unaligned' = Unaligned /\ PastData' = PastData
    BY <1>1 DEF Unaligned, PastData, Offset, End, DataBytes, Sized, Tensors
  <1>5. SharedPairs' = SharedPairs
    BY <1>1 DEF SharedPairs, Shared, Bytes, Offset, End, Sized, Tensors
  <1> QED BY <1>1, <1>2, <1>3, <1>4, <1>5

LEMMA CodesOf ==
    ASSUME NEW c, NEW which
    PROVE  {f.code : f \in Findings(c, which)} = IF which = {} THEN {} ELSE {c}
  <1> DEFINE S == {f.code : f \in Findings(c, which)}
  <1>1. \A f \in Findings(c, which) : f.code = c
    BY DEF Findings
  <1>2. ASSUME NEW i \in which PROVE [code |-> c, tensor |-> i] \in Findings(c, which)
    BY DEF Findings
  <1>3. CASE which = {}
    BY <1>3 DEF Findings
  <1>4. CASE which # {}
    <2>1. c \in S
      <3>1. PICK i \in which : TRUE
        BY <1>4
      <3>2. [code |-> c, tensor |-> i] \in Findings(c, which) /\ [code |-> c, tensor |-> i].code = c
        BY <1>2
      <3> QED BY <3>2
    <2>2. S \subseteq {c}
      BY <1>1
    <2> QED BY <1>4, <2>1, <2>2
  <1> QED BY <1>3, <1>4

LEMMA TensorFindings ==
    ASSUME NEW c \in TensorCodes, NEW which, which \subseteq Tensors
    PROVE  Findings(c, which) \subseteq [code : TensorCodes, tensor : Tensors]
  BY DEF Findings

LEMMA FileFindings ==
    ASSUME NEW c \in FileCodes
    PROVE  Findings(c, {0}) \subseteq [code : FileCodes, tensor : {0}]
  BY DEF Findings

LEMMA ReportIsTyped ==
    ASSUME TypeOK, NEW F, NEW next \in Rules \cup {"done"}, Report(F, next),
           F \subseteq [code : FileCodes, tensor : {0}] \cup [code : TensorCodes, tensor : Tensors]
    PROVE  TypeOK'
  <1>1. rule' = next /\ doc' = doc /\ found' = found \cup F /\ Tensors' = Tensors
    BY ReportGrows
  <1>2. /\ doc \in Document
        /\ found \subseteq [code : FileCodes, tensor : {0}] \cup [code : TensorCodes, tensor : Tensors]
    BY DEF TypeOK
  <1>3. found' \subseteq [code : FileCodes, tensor : {0}] \cup [code : TensorCodes, tensor : Tensors']
    BY <1>1, <1>2
  <1>4. doc' \in Document /\ rule' \in Rules \cup {"done"}
    BY <1>1, <1>2
  <1> QED BY <1>3, <1>4 DEF TypeOK, Rules, FileCodes, TensorCodes

LEMMA PairsExist == SharedPairs # {} <=> \E i, j \in Sized : Shared(i, j)
  <1>1. ASSUME NEW i \in Sized, NEW j \in Sized, Shared(i, j) PROVE <<i, j>> \in SharedPairs
    BY <1>1 DEF SharedPairs
  <1>2. ASSUME NEW p \in SharedPairs PROVE \E i, j \in Sized : Shared(i, j)
    BY DEF SharedPairs
  <1> QED BY <1>1, <1>2

LEMMA StepSettles == IInv /\ [Next]_vars => IInv'
  <1> SUFFICES ASSUME IInv, [Next]_vars PROVE IInv'
    OBVIOUS
  <1>0. TypeOK /\ Settled /\ doc \in Document
    BY DEF IInv, TypeOK
  <1> USE DEF AfterTypes, AfterOverlaps, AfterEof, AfterPadding, Rules
  <1> DEFINE CodesIn(F) == {f.code : f \in F}
  <1>1. CASE UnknownTypes
    <2> DEFINE unknown == {i \in Tensors : ~KnownType(doc.tensors[i].type)}
               blocked == {i \in Tensors \ (unknown \cup Sized) :
                               Blocked(doc.tensors[i].type, doc.tensors[i].dims[1])}
               A == Findings("E_BAD_TENSOR_TYPE", unknown)
               B == Findings("E_QUANT_ROW_NOT_BLOCK_ALIGNED", blocked)
    <2>1. rule = "unknown_types" /\ Report(A \cup B, "offsets_and_overlaps")
      BY <1>1 DEF UnknownTypes
    <2>2. TypeOK'
      <3>1. A \cup B \subseteq [code : TensorCodes, tensor : Tensors]
        BY TensorFindings DEF TensorCodes
      <3> QED BY <1>0, <2>1, <3>1, ReportIsTyped
    <2>3. ASSUME NEW i \in Tensors, unknown = {}, blocked = {}
          PROVE  i \in Sized \/ Empty(doc.tensors[i])
      <3>1. i \in Sized \/ ~Blocked(doc.tensors[i].type, doc.tensors[i].dims[1])
        BY <2>3
      <3>2. ASSUME i \notin Sized, ~Empty(doc.tensors[i]) PROVE FALSE
        <4> DEFINE t == doc.tensors[i]
        <4>1. KnownType(t.type) /\ ~Blocked(t.type, t.dims[1])
          BY <2>3, <3>1, <3>2
        <4>2. RowBytes(t.type, t.dims[1]) = Unsized
              \/ RowBytes(t.type, t.dims[1]) * (t.dims[2] * t.dims[3] * t.dims[4]) = Unsized
          BY <3>2 DEF Sized, TensorBytes
        <4>3. RowBytes(t.type, t.dims[1]) = (t.dims[1] \div TypeTable[t.type].blck) * TypeTable[t.type].size
          BY <4>1 DEF RowBytes
        <4>4. t.dims[1] \in Nat /\ t.dims[2] \in Nat /\ t.dims[3] \in Nat /\ t.dims[4] \in Nat
          BY <1>0, TensorTyped DEF NumDims
        <4>5. TypeTable[t.type].blck \in Nat \ {0} /\ TypeTable[t.type].size \in Nat
          BY <4>1, AuditAssumption DEF KnownType
        <4>6. t.dims[1] \div TypeTable[t.type].blck \in Nat
          BY <4>4, <4>5
        <4>7. RowBytes(t.type, t.dims[1]) \in Nat
          BY <4>3, <4>5, <4>6, NatProduct
        <4>8. t.dims[2] * t.dims[3] * t.dims[4] \in Nat
          BY <4>4, NatProduct
        <4>9. RowBytes(t.type, t.dims[1]) * (t.dims[2] * t.dims[3] * t.dims[4]) \in Nat
          BY <4>7, <4>8, NatProduct
        <4> QED BY <4>2, <4>7, <4>9 DEF Unsized
      <3> QED BY <3>2
    <2>4. /\ CodesIn(A) = IF unknown = {} THEN {} ELSE {"E_BAD_TENSOR_TYPE"}
          /\ CodesIn(B) = IF blocked = {} THEN {} ELSE {"E_QUANT_ROW_NOT_BLOCK_ALIGNED"}
      BY CodesOf
    <2>5. /\ rule' = "offsets_and_overlaps" /\ Codes' = Codes \cup CodesIn(A \cup B)
          /\ NonEmpty' = NonEmpty /\ Sized' = Sized
      BY <2>1, ReportGrows
    <2>6. NonEmpty \subseteq Sized \/ unknown # {} \/ blocked # {}
      BY <2>3 DEF NonEmpty
    <2>7. TypesSettled'
      <3> HIDE DEF unknown, blocked
      <3> QED BY <2>4, <2>5, <2>6 DEF TypesSettled, Reported
    <2>8. OverlapsSettled'
      <3>1. "E_TENSOR_OVERLAP" \notin CodesIn(A \cup B)
        BY <2>4
      <3>2. "E_TENSOR_OVERLAP" \notin Codes
        BY <1>0, <2>1 DEF Settled, OverlapsSettled, Reported
      <3> QED BY <2>5, <3>1, <3>2 DEF OverlapsSettled, Reported
    <2>9. OffsetsSettled' /\ EofSettled' /\ PaddingSettled'
      BY <2>5 DEF OffsetsSettled, EofSettled, PaddingSettled
    <2> QED BY <2>2, <2>7, <2>8, <2>9 DEF IInv, Settled
  <1>2. CASE OffsetsAndOverlaps
    <2>1. PICK order \in Orders :
             Report(Findings("E_DATA_UNALIGNED", Unaligned)
                      \cup Findings("E_TENSOR_OVERLAP", {order[k] : k \in StartsInside(order)}),
                    "past_eof")
      BY <1>2 DEF OffsetsAndOverlaps
    <2> DEFINE inside == {order[k] : k \in StartsInside(order)}
               A == Findings("E_DATA_UNALIGNED", Unaligned)
               B == Findings("E_TENSOR_OVERLAP", inside)
    <2>2. rule = "offsets_and_overlaps" /\ Report(A \cup B, "past_eof")
      BY <1>2, <2>1 DEF OffsetsAndOverlaps
    <2>3. Unaligned \subseteq Tensors /\ inside \subseteq Tensors
      <3>1. Unaligned \subseteq Tensors /\ Sized \subseteq Tensors
        BY DEF Unaligned, Sized
      <3>2. \A k \in DOMAIN order : order[k] \in Sized
        BY DEF Orders
      <3> QED BY <3>1, <3>2 DEF StartsInside
    <2>4. TypeOK'
      <3>1. A \cup B \subseteq [code : TensorCodes, tensor : Tensors]
        BY <2>3, TensorFindings DEF TensorCodes
      <3> QED BY <1>0, <2>2, <3>1, ReportIsTyped
    <2>5. inside = {} <=> SharedPairs = {}
      <3>1. inside # {} <=> StartsInside(order) # {}
        OBVIOUS
      <3>2. StartsInside(order) # {} <=> \E i, j \in Sized : Shared(i, j)
        BY <1>0, NeighboursSuffice
      <3>3. SharedPairs # {} <=> \E i, j \in Sized : Shared(i, j)
        BY PairsExist
      <3> QED BY <3>1, <3>2, <3>3
    <2>6. /\ CodesIn(A) = IF Unaligned = {} THEN {} ELSE {"E_DATA_UNALIGNED"}
          /\ CodesIn(B) = IF inside = {} THEN {} ELSE {"E_TENSOR_OVERLAP"}
      BY CodesOf
    <2>7. /\ rule' = "past_eof" /\ Codes' = Codes \cup CodesIn(A) \cup CodesIn(B)
          /\ NonEmpty' = NonEmpty /\ Sized' = Sized
          /\ Unaligned' = Unaligned /\ SharedPairs' = SharedPairs
      <3>1. CodesIn(A \cup B) = CodesIn(A) \cup CodesIn(B)
        OBVIOUS
      <3> QED BY <2>2, <3>1, ReportGrows
    <2> HIDE DEF A, B, inside, CodesIn
    <2>8. TypesSettled'
      BY <1>0, <2>2, <2>7 DEF Settled, TypesSettled, Reported
    <2>9. OffsetsSettled'
      BY <2>6, <2>7 DEF OffsetsSettled, Reported
    <2>10. OverlapsSettled'
      <3>1. "E_TENSOR_OVERLAP" \notin Codes
        BY <1>0, <2>2 DEF Settled, OverlapsSettled, Reported
      <3> QED BY <2>5, <2>6, <2>7, <3>1 DEF OverlapsSettled, Reported
    <2>11. EofSettled' /\ PaddingSettled'
      BY <2>7 DEF EofSettled, PaddingSettled
    <2> QED BY <2>4, <2>8, <2>9, <2>10, <2>11 DEF IInv, Settled
  <1>3. CASE PastEof
    <2> DEFINE A == Findings("E_TENSOR_PAST_EOF", PastData)
    <2>1. rule = "past_eof" /\ Report(A, "padding_zeroed")
      BY <1>3 DEF PastEof
    <2>2. TypeOK'
      <3>1. A \subseteq [code : TensorCodes, tensor : Tensors]
        BY TensorFindings DEF PastData, Sized, TensorCodes
      <3> QED BY <1>0, <2>1, <3>1, ReportIsTyped
    <2>3. CodesIn(A) = IF PastData = {} THEN {} ELSE {"E_TENSOR_PAST_EOF"}
      BY CodesOf
    <2>4. /\ rule' = "padding_zeroed" /\ Codes' = Codes \cup CodesIn(A) /\ doc' = doc
          /\ NonEmpty' = NonEmpty /\ Sized' = Sized /\ PastData' = PastData
          /\ Unaligned' = Unaligned /\ SharedPairs' = SharedPairs
      BY <2>1, ReportGrows
    <2> HIDE DEF A, CodesIn
    <2>5. TypesSettled' /\ OffsetsSettled'
      BY <1>0, <2>1, <2>4 DEF Settled, TypesSettled, OffsetsSettled, Reported
    <2>6. OverlapsSettled'
      BY <1>0, <2>1, <2>3, <2>4 DEF Settled, OverlapsSettled, Reported
    <2>7. EofSettled'
      BY <1>0, <2>1, <2>3, <2>4 DEF Settled, EofSettled, Reported
    <2>8. PaddingSettled'
      BY <1>0, <2>1, <2>3, <2>4 DEF Settled, PaddingSettled, HidesRecords, Reported
    <2> QED BY <2>2, <2>5, <2>6, <2>7, <2>8 DEF IInv, Settled
  <1>4. CASE PaddingZeroed
    <2> DEFINE A == IF HidesRecords THEN Findings("E_PADDING_NOT_ZERO", {0}) ELSE {}
    <2>1. rule = "padding_zeroed" /\ Report(A, "trailing_junk")
      BY <1>4 DEF PaddingZeroed, HidesRecords
    <2>2. TypeOK'
      <3>1. A \subseteq [code : FileCodes, tensor : {0}]
        BY FileFindings DEF FileCodes
      <3> QED BY <1>0, <2>1, <3>1, ReportIsTyped
    <2>3. CodesIn(A) = IF HidesRecords THEN {"E_PADDING_NOT_ZERO"} ELSE {}
      BY CodesOf
    <2>4. /\ rule' = "trailing_junk" /\ Codes' = Codes \cup CodesIn(A) /\ doc' = doc
          /\ NonEmpty' = NonEmpty /\ Sized' = Sized /\ PastData' = PastData
          /\ Unaligned' = Unaligned /\ SharedPairs' = SharedPairs
      BY <2>1, ReportGrows
    <2> HIDE DEF A, CodesIn
    <2>5. TypesSettled' /\ OffsetsSettled'
      BY <1>0, <2>1, <2>4 DEF Settled, TypesSettled, OffsetsSettled, Reported
    <2>6. OverlapsSettled'
      BY <1>0, <2>1, <2>3, <2>4 DEF Settled, OverlapsSettled, Reported
    <2>7. EofSettled'
      BY <1>0, <2>1, <2>3, <2>4 DEF Settled, EofSettled, Reported
    <2>8. PaddingSettled'
      BY <1>0, <2>1, <2>3, <2>4 DEF Settled, PaddingSettled, HidesRecords, Reported
    <2> QED BY <2>2, <2>5, <2>6, <2>7, <2>8 DEF IInv, Settled
  <1>5. CASE TrailingJunk
    <2> DEFINE A == IF HasJunk THEN Findings("W_TRAILING_JUNK", {0}) ELSE {}
    <2>1. rule = "trailing_junk" /\ Report(A, "degenerate_data")
      BY <1>5 DEF TrailingJunk
    <2>2. TypeOK'
      <3>1. A \subseteq [code : FileCodes, tensor : {0}]
        BY FileFindings DEF FileCodes
      <3> QED BY <1>0, <2>1, <3>1, ReportIsTyped
    <2>3. CodesIn(A) = IF HasJunk THEN {"W_TRAILING_JUNK"} ELSE {}
      BY CodesOf
    <2>4. /\ rule' = "degenerate_data" /\ Codes' = Codes \cup CodesIn(A) /\ doc' = doc
          /\ NonEmpty' = NonEmpty /\ Sized' = Sized /\ PastData' = PastData
          /\ Unaligned' = Unaligned /\ SharedPairs' = SharedPairs
      BY <2>1, ReportGrows
    <2> HIDE DEF A, CodesIn
    <2>5. TypesSettled' /\ OffsetsSettled'
      BY <1>0, <2>1, <2>4 DEF Settled, TypesSettled, OffsetsSettled, Reported
    <2>6. OverlapsSettled'
      BY <1>0, <2>1, <2>3, <2>4 DEF Settled, OverlapsSettled, Reported
    <2>7. EofSettled'
      BY <1>0, <2>1, <2>3, <2>4 DEF Settled, EofSettled, Reported
    <2>8. PaddingSettled'
      BY <1>0, <2>1, <2>3, <2>4 DEF Settled, PaddingSettled, HidesRecords, Reported
    <2> QED BY <2>2, <2>5, <2>6, <2>7, <2>8 DEF IInv, Settled
  <1>6. CASE DegenerateData
    <2> DEFINE A == IF Degenerate THEN Findings("W_SUSPICIOUS_DENSITY", {0}) ELSE {}
    <2>1. rule = "degenerate_data" /\ Report(A, "done")
      BY <1>6 DEF DegenerateData
    <2>2. TypeOK'
      <3>1. A \subseteq [code : FileCodes, tensor : {0}]
        BY FileFindings DEF FileCodes
      <3> QED BY <1>0, <2>1, <3>1, ReportIsTyped
    <2>3. CodesIn(A) = IF Degenerate THEN {"W_SUSPICIOUS_DENSITY"} ELSE {}
      BY CodesOf
    <2>4. /\ rule' = "done" /\ Codes' = Codes \cup CodesIn(A) /\ doc' = doc
          /\ NonEmpty' = NonEmpty /\ Sized' = Sized /\ PastData' = PastData
          /\ Unaligned' = Unaligned /\ SharedPairs' = SharedPairs
      BY <2>1, ReportGrows
    <2> HIDE DEF A, CodesIn
    <2>5. TypesSettled' /\ OffsetsSettled'
      BY <1>0, <2>1, <2>4 DEF Settled, TypesSettled, OffsetsSettled, Reported
    <2>6. OverlapsSettled'
      BY <1>0, <2>1, <2>3, <2>4 DEF Settled, OverlapsSettled, Reported
    <2>7. EofSettled'
      BY <1>0, <2>1, <2>3, <2>4 DEF Settled, EofSettled, Reported
    <2>8. PaddingSettled'
      BY <1>0, <2>1, <2>3, <2>4 DEF Settled, PaddingSettled, HidesRecords, Reported
    <2> QED BY <2>2, <2>5, <2>6, <2>7, <2>8 DEF IInv, Settled
  <1>7. CASE UNCHANGED vars
    <2>1. Report({}, rule)
      <3>1. rule' = rule /\ doc' = doc /\ found' = found
        BY <1>7 DEF vars
      <3>2. found' = found \cup {}
        BY <3>1
      <3> QED BY <3>1, <3>2 DEF Report
    <2>2. TypeOK'
      BY <1>0, <2>1, ReportIsTyped DEF TypeOK
    <2>3. /\ rule' = rule /\ Codes' = Codes /\ doc' = doc
          /\ NonEmpty' = NonEmpty /\ Sized' = Sized /\ PastData' = PastData
          /\ Unaligned' = Unaligned /\ SharedPairs' = SharedPairs
      <3>1. {f.code : f \in {}} = {}
        OBVIOUS
      <3>2. Codes' = Codes \cup {f.code : f \in {}}
        BY <2>1, ReportGrows
      <3>3. Codes' = Codes
        BY <3>1, <3>2
      <3> QED BY <2>1, <3>3, ReportGrows
    <2>4. Settled'
      BY <1>0, <2>3 DEF Settled, TypesSettled, OffsetsSettled, OverlapsSettled, EofSettled,
                        PaddingSettled, HidesRecords, Reported
    <2> QED BY <2>2, <2>4 DEF IInv
  <1> QED BY <1>1, <1>2, <1>3, <1>4, <1>5, <1>6, <1>7 DEF Next, Done

LEMMA RulesSettle == Spec => []IInv
  BY InitSettles, StepSettles, PTL DEF Spec

(***************************************************************************)
(* Findings always name a tensor of the document, or the file.             *)
(***************************************************************************)
THEOREM TypeCorrect == Spec => []TypeOK
  <1>1. IInv => TypeOK
    BY DEF IInv
  <1> QED BY <1>1, RulesSettle, PTL

LEMMA SettledOverlaps == IInv => OverlapsReported
  BY PairsExist DEF IInv, TypeOK, Settled, OverlapsSettled, OverlapsReported,
                    AfterOverlaps, AfterTypes, Rules

(***************************************************************************)
(* r_offsets_and_overlaps reports an overlap exactly when two tensors      *)
(* share a byte, for any number of tensors of any sizes.                   *)
(***************************************************************************)
THEOREM OverlapsAreReported == Spec => []OverlapsReported
  BY SettledOverlaps, RulesSettle, PTL

LEMMA SettledIsReadable == IInv => CleanLayoutIsReadable
  <1>1. ASSUME IInv, rule = "done", NoErrors PROVE CleanLayoutIsReadable
    <2>1. TypeOK /\ doc \in Document
      BY <1>1 DEF IInv, TypeOK
    <2>2. /\ ~Reported("E_BAD_TENSOR_TYPE") /\ ~Reported("E_QUANT_ROW_NOT_BLOCK_ALIGNED")
          /\ ~Reported("E_DATA_UNALIGNED") /\ ~Reported("E_TENSOR_OVERLAP")
          /\ ~Reported("E_TENSOR_PAST_EOF") /\ ~Reported("E_PADDING_NOT_ZERO")
      BY <1>1 DEF NoErrors, Reported
    <2>3. /\ NonEmpty \subseteq Sized /\ Unaligned = {} /\ SharedPairs = {} /\ PastData = {}
          /\ ~(doc.metaEnd < doc.dataStart /\ doc.dataStart <= doc.size /\ doc.dirtyPadding)
      BY <1>1, <2>2 DEF IInv, Settled, TypesSettled, OffsetsSettled, OverlapsSettled, EofSettled,
                        PaddingSettled, HidesRecords,
                        AfterTypes, AfterOverlaps, AfterEof, AfterPadding, Rules
    <2>4. ASSUME NEW i \in Sized
          PROVE  /\ Offset(i) % doc.alignment = 0
                 /\ Bytes(i) \subseteq 0 .. (DataBytes - 1)
                 /\ \A j \in Sized : ~Shared(i, j)
      <3>1. Offset(i) \in Nat /\ End(i) \in Nat /\ DataBytes \in Int
        BY <2>1, Extents DEF DataBytes, Document
      <3>2. Offset(i) % doc.alignment = 0 /\ ~(End(i) > DataBytes)
        BY <2>3 DEF Unaligned, PastData
      <3>3. Bytes(i) \subseteq 0 .. (DataBytes - 1)
        BY <3>1, <3>2 DEF Bytes
      <3>4. \A j \in Sized : ~Shared(i, j)
        BY <2>3, PairsExist
      <3> QED BY <3>2, <3>3, <3>4
    <2>5. doc.dirtyPadding /\ doc.metaEnd < doc.dataStart => doc.size < doc.dataStart
      BY <2>1, <2>3 DEF Document
    <2> QED BY <2>3, <2>4, <2>5 DEF CleanLayoutIsReadable, NonEmpty
  <1> QED BY <1>1 DEF CleanLayoutIsReadable

(***************************************************************************)
(* A layout without errors can be read, for every document.                *)
(***************************************************************************)
THEOREM CleanLayoutsAreReadable == Spec => []CleanLayoutIsReadable
  BY SettledIsReadable, RulesSettle, PTL

-----------------------------------------------------------------------------
(***************************************************************************)
(* A packed layout: every tensor ends before any later one starts.  The    *)
(* first tensor of which that is wrong would be wrong about its neighbour. *)
(***************************************************************************)
LEMMA PackedTensorsAreApart ==
    ASSUME doc \in Document, Packed, NEW i \in Tensors, NEW j \in Tensors, i < j
    PROVE  End(i) <= Offset(j)
  <1> DEFINE n == Len(doc.tensors)
             T == {q \in 1..n : \E p \in 1..n : p < q /\ ~(End(p) <= Offset(q))}
  <1>1. n \in Nat /\ Tensors = 1..n /\ Sized = 1..n
    BY DEF Tensors, Packed, Document
  <1>2. \A p \in 1..n : Offset(p) \in Nat /\ End(p) \in Nat /\ Offset(p) < End(p)
    BY <1>1, Extents
  <1>3. ASSUME NEW p \in 1..n, p # 1 PROVE End(p - 1) <= Offset(p)
    <2>1. p - 1 \in 1..n /\ Offset(p) = AlignUp(End(p - 1), doc.alignment)
      BY <1>1, <1>3 DEF Packed
    <2>2. doc.alignment \in Nat \ {0}
      BY DEF Document
    <2> QED BY <1>2, <2>1, <2>2, RoundingBounds
  <1>4. SUFFICES ASSUME T # {} PROVE FALSE
    BY <1>1
  <1>5. PICK q \in T : \A r \in T : q <= r
    <2>1. T \in SUBSET Nat
      BY <1>1
    <2> HIDE DEF T
    <2> QED BY <1>4, <2>1, SmallestExists
  <1>6. PICK p \in 1..n : p < q /\ ~(End(p) <= Offset(q))
    OBVIOUS
  <1>7. q \in 1..n /\ q # 1 /\ q - 1 \in 1..n
    BY <1>1, <1>6
  <1>8. End(q - 1) <= Offset(q)
    BY <1>3, <1>7
  <1>9. p # q - 1
    BY <1>6, <1>8
  <1>10. p < q - 1
    BY <1>1, <1>6, <1>9
  <1>11. End(p) <= Offset(q - 1)
    <2>1. q - 1 \notin T
      <3> HIDE DEF T
      <3> QED BY <1>5, <1>7
    <2> QED BY <1>7, <1>10, <2>1
  <1>12. /\ End(p) \in Nat /\ End(q - 1) \in Nat /\ Offset(q) \in Nat
         /\ Offset(q - 1) \in Nat /\ Offset(q - 1) < End(q - 1)
    BY <1>2, <1>6, <1>7
  <1>13. End(p) <= Offset(q)
    BY <1>8, <1>11, <1>12
  <1> QED BY <1>6, <1>13

\* So no rule has anything to report.
Unknown == {i \in Tensors : ~KnownType(doc.tensors[i].type)}

LEMMA PackedIsBlameless ==
    ASSUME doc \in Document, Packed
    PROVE  /\ Unknown = {} /\ Sized = Tensors /\ Unaligned = {} /\ SharedPairs = {}
           /\ PastData = {} /\ ~HasJunk /\ ~doc.dirtyPadding /\ ~doc.constantData
  <1> DEFINE n == Len(doc.tensors)
             a == doc.alignment
  <1>1. /\ n \in Nat /\ Tensors = 1..n /\ Sized = 1..n /\ n \in 1..n
        /\ a \in Nat \ {0} /\ ~doc.dirtyPadding /\ ~doc.constantData
    BY DEF Tensors, Packed, Document
  <1>2. \A i \in 1..n : Offset(i) \in Nat /\ End(i) \in Nat /\ Offset(i) < End(i)
    BY <1>1, Extents
  <1>3. Unknown = {}
    <2>1. ASSUME NEW i \in Unknown PROVE FALSE
      <3>1. RowBytes(doc.tensors[i].type, doc.tensors[i].dims[1]) = Unsized
        BY <2>1 DEF Unknown, RowBytes
      <3>2. i \notin Sized
        BY <3>1 DEF Sized, TensorBytes
      <3> QED BY <1>1, <3>2 DEF Unknown
    <2> QED BY <2>1
  <1>4. Unaligned = {}
    <2>1. ASSUME NEW i \in 1..n PROVE Offset(i) % a = 0
      <3>1. CASE i = 1
        BY <1>1, <3>1 DEF Packed
      <3>2. CASE i # 1
        <4>1. i - 1 \in 1..n /\ Offset(i) = AlignUp(End(i - 1), a)
          BY <1>1, <3>2 DEF Packed
        <4> QED BY <1>1, <1>2, <4>1, RoundingAligns
      <3> QED BY <3>1, <3>2
    <2> QED BY <1>1, <2>1 DEF Unaligned
  <1>5. SharedPairs = {}
    <2>1. ASSUME NEW i \in 1..n, NEW j \in 1..n, Shared(i, j) PROVE FALSE
      <3>1. i # j /\ Offset(j) < End(i) /\ Offset(i) < End(j)
        BY <1>1, <2>1, SharedIsInside
      <3>2. CASE i < j
        BY <1>1, <1>2, <3>1, <3>2, PackedTensorsAreApart
      <3>3. CASE j < i
        BY <1>1, <1>2, <3>1, <3>3, PackedTensorsAreApart
      <3> QED BY <3>1, <3>2, <3>3
    <2> QED BY <1>1, <2>1, PairsExist
  <1>6. DataBytes = AlignUp(End(n), a)
    BY DEF Packed
  <1>7. \A i \in 1..n : End(i) <= End(n)
    <2>1. ASSUME NEW i \in 1..n, i # n PROVE End(i) <= End(n)
      <3>1. End(i) <= Offset(n)
        BY <1>1, <2>1, PackedTensorsAreApart
      <3>2. End(i) \in Nat /\ Offset(n) \in Nat /\ End(n) \in Nat /\ Offset(n) < End(n)
        BY <1>1, <1>2
      <3> QED BY <3>1, <3>2
    <2> QED BY <1>1, <1>2, <2>1
  <1>8. DataBytes \in Nat /\ End(n) <= DataBytes /\ DataBytes < End(n) + a
    BY <1>1, <1>2, <1>6, RoundingBounds
  <1>9. PastData = {}
    <2>1. ASSUME NEW i \in 1..n PROVE ~(End(i) > DataBytes)
      <3>1. End(i) \in Nat /\ End(n) \in Nat /\ End(i) <= End(n)
        BY <1>1, <1>2, <1>7
      <3> QED BY <1>8, <3>1
    <2> QED BY <1>1, <1>2, <1>8, <2>1 DEF PastData
  <1>10. ~HasJunk
    <2>1. JunkAllowance \in Nat /\ a <= JunkAllowance
      BY <1>1, AuditAssumption DEF JunkAllowance
    <2>2. ~(DataBytes - End(n) > JunkAllowance)
      <3>1. End(n) \in Nat
        BY <1>1, <1>2
      <3> QED BY <1>1, <1>8, <2>1, <3>1
    <2> QED BY <1>1, <2>2 DEF HasJunk
  <1> QED BY <1>1, <1>3, <1>4, <1>5, <1>9, <1>10

LEMMA PackedStepIsQuiet ==
    ASSUME TypeOK, Packed, Next PROVE found' = found /\ doc' = doc
  <1>1. doc \in Document
    BY DEF TypeOK
  <1>2. /\ Unknown = {} /\ Sized = Tensors /\ Unaligned = {} /\ SharedPairs = {}
        /\ PastData = {} /\ ~HasJunk /\ ~doc.dirtyPadding /\ ~doc.constantData
    BY <1>1, PackedIsBlameless
  <1>3. \A c : Findings(c, {}) = {}
    BY DEF Findings
  <1>4. CASE UnknownTypes
    <2>1. {i \in Tensors \ (Unknown \cup Sized) :
              Blocked(doc.tensors[i].type, doc.tensors[i].dims[1])} = {}
      BY <1>2
    <2> QED BY <1>2, <1>3, <1>4, <2>1 DEF UnknownTypes, Unknown, Report
  <1>5. CASE OffsetsAndOverlaps
    <2>1. PICK order \in Orders :
             Report(Findings("E_DATA_UNALIGNED", Unaligned)
                      \cup Findings("E_TENSOR_OVERLAP", {order[k] : k \in StartsInside(order)}),
                    "past_eof")
      BY <1>5 DEF OffsetsAndOverlaps
    <2>2. StartsInside(order) = {}
      BY <1>1, <1>2, NeighboursSuffice, PairsExist
    <2>3. {order[k] : k \in StartsInside(order)} = {}
      BY <2>2
    <2> QED BY <1>2, <1>3, <2>1, <2>3 DEF Report
  <1>6. CASE PastEof
    BY <1>2, <1>3, <1>6 DEF PastEof, Report
  <1>7. CASE PaddingZeroed
    BY <1>2, <1>7 DEF PaddingZeroed, Report
  <1>8. CASE TrailingJunk
    BY <1>2, <1>8 DEF TrailingJunk, Report
  <1>9. CASE DegenerateData
    BY <1>2, <1>9 DEF DegenerateData, Degenerate, Report
  <1>10. CASE Done
    BY <1>10 DEF Done, vars
  <1> QED BY <1>4, <1>5, <1>6, <1>7, <1>8, <1>9, <1>10 DEF Next

\* Packed speaks of the document alone.
LEMMA PackedPersists == ASSUME doc' = doc PROVE Packed' <=> Packed
  BY DEF Packed, Tensors, Sized, Offset, End, DataBytes

LEMMA PackedStaysClean ==
    ASSUME TypeOK, PackedLayoutIsClean, [Next]_vars PROVE PackedLayoutIsClean'
  <1>1. doc' = doc
    BY DEF Next, vars, Done, UnknownTypes, OffsetsAndOverlaps, PastEof, PaddingZeroed,
           TrailingJunk, DegenerateData, Report
  <1>2. ASSUME Packed PROVE found' = found
    BY <1>2, PackedStepIsQuiet DEF vars
  <1> QED BY <1>1, <1>2, PackedPersists DEF PackedLayoutIsClean

(***************************************************************************)
(* A file laid out as the format asks has no finding of the layout rules,  *)
(* for any number of tensors of any types and sizes and every alignment.   *)
(***************************************************************************)
THEOREM PackedLayoutsAreClean == Spec => []PackedLayoutIsClean
  <1>1. Init => PackedLayoutIsClean
    BY DEF Init, PackedLayoutIsClean
  <1>2. TypeOK /\ PackedLayoutIsClean /\ [Next]_vars => PackedLayoutIsClean'
    BY PackedStaysClean
  <1> QED BY <1>1, <1>2, TypeCorrect, PTL DEF Spec

-----------------------------------------------------------------------------
(***************************************************************************)
(* Two rules that do not abstain: what unknown_types and trailing_junk     *)
(* look for is among the findings once they have run.                      *)
(***************************************************************************)
AfterJunk == AfterPadding \ {"trailing_junk"}

Accused ==
    /\ rule \in AfterTypes => Unknown = {} \/ Reported("E_BAD_TENSOR_TYPE")
    /\ rule \in AfterJunk => ~HasJunk \/ Reported("W_TRAILING_JUNK")

LEMMA FreshAccuses == Fresh => Accused /\ PackedLayoutIsClean
  BY DEF Fresh, PackedLayoutIsClean, Accused, AfterTypes, AfterJunk, AfterPadding, AfterEof, AfterOverlaps, Rules

LEMMA StepAccuses == Accused /\ [Next]_vars => Accused'
  <1> SUFFICES ASSUME Accused, [Next]_vars PROVE Accused'
    OBVIOUS
  <1> USE DEF AfterTypes, AfterOverlaps, AfterEof, AfterPadding, AfterJunk, Rules
  <1>1. ASSUME doc' = doc PROVE Unknown' = Unknown /\ HasJunk' = HasJunk
    BY <1>1 DEF Unknown, HasJunk, Tensors, Sized, Offset, End, DataBytes, JunkAllowance
  <1>2. ASSUME NEW F, NEW next, Report(F, next), rule \in AfterTypes, next \notin AfterJunk
        PROVE  Accused'
    BY <1>1, <1>2, ReportGrows DEF Accused, Reported
  <1>3. CASE UnknownTypes
    <2> DEFINE blocked == {i \in Tensors \ (Unknown \cup Sized) :
                               Blocked(doc.tensors[i].type, doc.tensors[i].dims[1])}
               A == Findings("E_BAD_TENSOR_TYPE", Unknown)
               B == Findings("E_QUANT_ROW_NOT_BLOCK_ALIGNED", blocked)
    <2>1. Report(A \cup B, "offsets_and_overlaps")
      BY <1>3 DEF UnknownTypes, Unknown
    <2>2. {f.code : f \in A} = IF Unknown = {} THEN {} ELSE {"E_BAD_TENSOR_TYPE"}
      BY CodesOf
    <2> HIDE DEF A, B
    <2>3. doc' = doc /\ rule' = "offsets_and_overlaps" /\ {f.code : f \in A} \subseteq Codes'
      BY <2>1, ReportGrows
    <2> QED BY <1>1, <2>2, <2>3 DEF Accused, Reported
  <1>4. CASE OffsetsAndOverlaps
    BY <1>2, <1>4 DEF OffsetsAndOverlaps
  <1>5. CASE PastEof
    BY <1>2, <1>5 DEF PastEof
  <1>6. CASE PaddingZeroed
    BY <1>2, <1>6 DEF PaddingZeroed
  <1>7. CASE TrailingJunk
    <2> DEFINE A == IF HasJunk THEN Findings("W_TRAILING_JUNK", {0}) ELSE {}
    <2>1. rule = "trailing_junk" /\ Report(A, "degenerate_data")
      BY <1>7 DEF TrailingJunk
    <2>2. {f.code : f \in A} = IF HasJunk THEN {"W_TRAILING_JUNK"} ELSE {}
      BY CodesOf
    <2> HIDE DEF A
    <2>3. doc' = doc /\ rule' = "degenerate_data" /\ Codes' = Codes \cup {f.code : f \in A}
      BY <2>1, ReportGrows
    <2> QED BY <1>1, <2>1, <2>2, <2>3 DEF Accused, Reported
  <1>8. CASE DegenerateData
    <2>1. PICK F : Report(F, "done") /\ rule = "degenerate_data"
      BY <1>8 DEF DegenerateData
    <2>2. doc' = doc /\ rule' = "done" /\ Codes \subseteq Codes'
      BY <2>1, ReportGrows
    <2> QED BY <1>1, <2>1, <2>2 DEF Accused, Reported
  <1>9. CASE UNCHANGED vars
    BY <1>1, <1>9 DEF vars, Accused, Reported, Codes
  <1> QED BY <1>3, <1>4, <1>5, <1>6, <1>7, <1>8, <1>9 DEF Next, Done
=============================================================================
