------------------------- MODULE ModelWriterProofs -------------------------
(***************************************************************************)
(* Theorems about ModelWriter: the writer, the corruption classes, the     *)
(* parser's checks and the layout rules together, for every set of         *)
(* layouts, every type table and alignment, and every value a mutation     *)
(* writes that the three assumptions of the module allow.                  *)
(*                                                                         *)
(* The inductive invariant says of each stage what the file can be: while  *)
(* it is written, where each tensor's record and data lie (Listed,         *)
(* Placed); afterwards, which damage of the written file it is (FileFits)  *)
(* and what the parser and the rules have made of it (Lived).              *)
(***************************************************************************)
EXTENDS ModelWriter, TensorAuditProofs, FiniteSetTheorems

Stages == {"write", "written", "damaged", "audit", "refused", "raised"}

Shaped ==
    /\ stage \in Stages
    /\ layout \in Layouts \cup {<<>>}
    /\ infos \in Seq(Tensor) /\ recordEnds \in Seq(Nat) /\ dataAt \in Seq(Nat)
    /\ Len(recordEnds) = Len(infos) /\ Len(dataAt) = Len(infos) /\ Len(infos) <= Len(layout)
    /\ cursor \in Nat /\ dataLen \in Nat

AllAligned == \A i \in DOMAIN layout : PartBytes(layout[i]) % ALIGN = 0

\* The shortest record, of a one-byte name, has 57 bytes.
Listed ==
    \A i \in DOMAIN infos :
        /\ infos[i].nDims = NumDims
        /\ infos[i].dims = layout[i].dims /\ infos[i].type = layout[i].type
        /\ PartBytes(layout[i]) \in Nat \ {0}
        /\ infos[i].offset = IF i = 1 THEN 0
                             ELSE AlignUp(infos[i - 1].offset + PartBytes(layout[i - 1]), ALIGN)
        /\ infos[i].offset + PartBytes(layout[i]) <= cursor
        /\ dataAt[i] <= infos[i].offset
        /\ AllAligned => dataAt[i] = infos[i].offset
        /\ recordEnds[i] >= HeaderBytes + KvBytes + 57 * i
        /\ \A j \in 1..i : recordEnds[j] <= recordEnds[i]

Placed ==
    /\ cursor = IF infos = <<>> THEN 0 ELSE infos[Len(infos)].offset + PartBytes(layout[Len(infos)])
    /\ dataLen <= cursor /\ cursor <= dataLen + Len(infos) * ALIGN
    /\ infos # <<>> =>
          \E m \in DOMAIN infos : cursor + ALIGN <= Len(infos) * (PartBytes(layout[m]) + ALIGN)
    /\ AllAligned => dataLen = cursor /\ cursor % ALIGN = 0

-----------------------------------------------------------------------------
(***************************************************************************)
(* What an item and its record say of its bytes.                           *)
(***************************************************************************)
LEMMA ItemsOf ==
    ASSUME NEW l \in Layouts
    PROVE  /\ l \in Seq(Item) /\ Len(l) \in Nat \ {0} /\ DOMAIN l = 1..Len(l)
           /\ Len(l) <= CountSanity
           /\ \A i \in 1..Len(l) : l[i] \in Item
  <1>1. l \in Seq(Item) /\ l # <<>> /\ Len(l) <= CountSanity
    BY WriterAssumption
  <1> QED BY <1>1

LEMMA ItemTyped ==
    ASSUME NEW item \in Item
    PROVE  /\ item.nameLen \in Nat \ {0} /\ item.type \in Nat
           /\ item.dims \in [1..4 -> Nat \ {0}]
           /\ \A k \in 1..4 : item.dims[k] \in Nat \ {0}
           /\ item.dims \in [1..NumDims -> Nat]
  BY DEF Item, NumDims

LEMMA RowIsPositive ==
    ASSUME NEW t \in Nat, NEW n \in Nat \ {0}, RowBytes(t, n) # Unsized
    PROVE  KnownType(t) /\ RowBytes(t, n) \in Nat \ {0}
  <1>1. KnownType(t) /\ n % TypeTable[t].blck = 0
        /\ RowBytes(t, n) = (n \div TypeTable[t].blck) * TypeTable[t].size
    BY DEF RowBytes, Blocked
  <1>2. TypeTable[t].blck \in Nat \ {0} /\ TypeTable[t].size \in Nat \ {0}
    BY <1>1, AuditAssumption DEF KnownType
  <1>3. n \div TypeTable[t].blck \in Nat \ {0}
    BY <1>1, <1>2, WholeBlocks
  <1> QED BY <1>1, <1>2, <1>3, PositiveProduct

LEMMA RowTimesRows ==
    ASSUME NEW r \in Nat \ {0}, NEW b \in Nat \ {0}, NEW c \in Nat \ {0}, NEW d \in Nat \ {0}
    PROVE  /\ r * b * c * d \in Nat \ {0}
           /\ r * b * c * d = r * (b * c * d)
           /\ r * (b * c * d) >= r
  <1>1. b * c \in Nat \ {0} /\ r * b \in Nat \ {0}
    BY PositiveProduct
  <1>2. b * c * d \in Nat \ {0} /\ r * b * c \in Nat \ {0}
    BY <1>1, PositiveProduct
  <1>3. r * b * c * d \in Nat \ {0}
    BY <1>2, PositiveProduct
  <1>4. r * b * c * d = r * (b * c * d)
    OBVIOUS
  <1>5. \A x \in Nat \ {0} : r * x >= r
    OBVIOUS
  <1> QED BY <1>2, <1>3, <1>4, <1>5

LEMMA PartIsPositive ==
    ASSUME NEW item \in Item, PartBytes(item) # Unsized
    PROVE  /\ PartBytes(item) \in Nat \ {0}
           /\ RowBytes(item.type, item.dims[1]) \in Nat \ {0} /\ KnownType(item.type)
           /\ PartBytes(item) = RowBytes(item.type, item.dims[1])
                                  * (item.dims[2] * item.dims[3] * item.dims[4])
  <1> DEFINE row == RowBytes(item.type, item.dims[1])
             d2 == item.dims[2]
             d3 == item.dims[3]
             d4 == item.dims[4]
  <1>1. row # Unsized /\ PartBytes(item) = row * d2 * d3 * d4
    BY DEF PartBytes
  <1>2. row \in Nat \ {0} /\ KnownType(item.type)
    BY <1>1, ItemTyped, RowIsPositive
  <1>3. d2 \in Nat \ {0} /\ d3 \in Nat \ {0} /\ d4 \in Nat \ {0}
    BY ItemTyped
  <1> HIDE DEF row, d2, d3, d4
  <1>4. PartBytes(item) \in Nat \ {0} /\ PartBytes(item) = row * (d2 * d3 * d4)
    BY <1>1, <1>2, <1>3, RowTimesRows
  <1> QED BY <1>2, <1>4 DEF row, d2, d3, d4

\* The reader finds the size the writer wrote.
LEMMA RecordedBytes ==
    ASSUME NEW item \in Item, PartBytes(item) # Unsized,
           NEW t \in Tensor, t.nDims = NumDims, t.dims = item.dims, t.type = item.type
    PROVE  TensorBytes(t) = PartBytes(item) /\ TensorBytes(t) # Unsized
  <1>1. ~Empty(t)
    BY ItemTyped DEF Empty, NumDims
  <1>2. RowBytes(t.type, t.dims[1]) # Unsized
    BY PartIsPositive DEF Unsized
  <1>3. TensorBytes(t) = RowBytes(t.type, t.dims[1]) * (t.dims[2] * t.dims[3] * t.dims[4])
    BY <1>1, <1>2 DEF TensorBytes
  <1> QED BY <1>3, PartIsPositive DEF Unsized

-----------------------------------------------------------------------------
(***************************************************************************)
(* The records of a file under construction.                               *)
(***************************************************************************)
LEMMA RecordsOf ==
    ASSUME Shaped, Listed
    PROVE  /\ Len(infos) \in Nat /\ DOMAIN infos = 1..Len(infos)
           /\ \A i \in 1..Len(infos) :
                 /\ infos[i] \in Tensor /\ infos[i].offset \in Nat
                 /\ recordEnds[i] \in Nat /\ dataAt[i] \in Nat
                 /\ layout[i] \in Item /\ PartBytes(layout[i]) \in Nat \ {0}
  <1>1. /\ Len(infos) \in Nat /\ DOMAIN infos = 1..Len(infos)
        /\ \A i \in 1..Len(infos) :
              infos[i] \in Tensor /\ recordEnds[i] \in Nat /\ dataAt[i] \in Nat
    <2>1. /\ infos \in Seq(Tensor) /\ recordEnds \in Seq(Nat) /\ dataAt \in Seq(Nat)
          /\ Len(recordEnds) = Len(infos) /\ Len(dataAt) = Len(infos)
      BY DEF Shaped
    <2>2. Len(infos) \in Nat /\ DOMAIN infos = 1..Len(infos)
      BY <2>1
    <2>3. \A i \in 1..Len(infos) : infos[i] \in Tensor
      BY <2>1
    <2>4. \A i \in 1..Len(infos) : recordEnds[i] \in Nat
      BY <2>1
    <2>5. \A i \in 1..Len(infos) : dataAt[i] \in Nat
      BY <2>1
    <2> QED BY <2>2, <2>3, <2>4, <2>5
  <1>2. \A i \in 1..Len(infos) : infos[i].offset \in Nat
    BY <1>1 DEF Tensor
  <1>3. \A i \in 1..Len(infos) : layout[i] \in Item
    BY <1>1, ItemsOf DEF Shaped
  <1> QED BY <1>1, <1>2, <1>3 DEF Listed

LEMMA TableGrows ==
    ASSUME Shaped, Listed
    PROVE  /\ \A k \in 0..Len(infos) :
                 /\ TableEnd(k) \in Nat
                 /\ TableEnd(k) >= HeaderBytes + KvBytes + 57 * k
           /\ \A j, k \in 0..Len(infos) : j <= k => TableEnd(j) <= TableEnd(k)
  <1>1. KvBytes \in Nat /\ HeaderBytes = 24
    BY WriterAssumption DEF HeaderBytes
  <1>2. /\ Len(infos) \in Nat /\ DOMAIN infos = 1..Len(infos)
        /\ \A i \in 1..Len(infos) : recordEnds[i] \in Nat
    BY RecordsOf
  <1>3. \A i \in 1..Len(infos) :
           /\ recordEnds[i] >= HeaderBytes + KvBytes + 57 * i
           /\ \A j \in 1..i : recordEnds[j] <= recordEnds[i]
    BY <1>2 DEF Listed
  <1>4. \A k \in 0..Len(infos) :
           TableEnd(k) \in Nat /\ TableEnd(k) >= HeaderBytes + KvBytes + 57 * k
    BY <1>1, <1>2, <1>3 DEF TableEnd
  <1>5. \A k \in 0..Len(infos) : TableEnd(0) <= TableEnd(k)
    BY <1>1, <1>4 DEF TableEnd
  <1>6. \A j, k \in 1..Len(infos) : j <= k => TableEnd(j) <= TableEnd(k)
    BY <1>2, <1>3 DEF TableEnd
  <1> QED BY <1>2, <1>4, <1>5, <1>6

LEMMA MultiplesAdd ==
    ASSUME NEW p \in Nat, NEW q \in Nat, NEW a \in Nat \ {0}, p % a = 0, q % a = 0
    PROVE  (p + q) % a = 0
  <1> DEFINE j == p \div a
             k == q \div a
  <1>1. j \in Nat /\ p = (a * j) + (p % a)
    BY Division
  <1>2. k \in Nat /\ q = (a * k) + (q % a)
    BY Division
  <1> HIDE DEF j, k
  <1>3. p + q = a * (j + k) + 0
    BY <1>1, <1>2
  <1>4. p + q \in Nat /\ j + k \in Nat /\ 0 \in 0 .. a - 1
    BY <1>1, <1>2
  <1> QED BY <1>3, <1>4, DivisionIsUnique

LEMMA OneMore ==
    ASSUME NEW n \in Nat \ {0}, NEW c \in Nat, NEW a \in Nat \ {0}, NEW p \in Nat, NEW q \in Nat,
           c + a <= n * (p + a)
    PROVE  c + a + q + a <= (n + 1) * ((IF p >= q THEN p ELSE q) + a)
  <1> DEFINE h == (IF p >= q THEN p ELSE q) + a
  <1>1. h \in Nat /\ p + a <= h /\ q + a <= h
    OBVIOUS
  <1> HIDE DEF h
  <1>2. n * (p + a) <= n * h
    BY <1>1
  <1>3. (n + 1) * h = n * h + h /\ n * h \in Nat /\ n * (p + a) \in Nat
    BY <1>1
  <1>4. c + a + q + a <= (n + 1) * h
    BY <1>1, <1>2, <1>3
  <1> QED BY <1>4 DEF h

\* The tensor build_model appends next: where it stands and how far it reaches.
LEMMA NextRecord ==
    ASSUME Shaped, Listed, Placed, layout \in Layouts, WriteTensor, stage' # "raised"
    PROVE  \E at \in Nat, size \in Nat \ {0} :
              LET n == Len(infos)
                  item == layout[n + 1]
                  record == [nDims |-> NumDims, dims |-> item.dims, type |-> item.type, offset |-> at]
              IN  /\ n + 1 \in 1..Len(layout) /\ item \in Item /\ size = PartBytes(item)
                  /\ record \in Tensor
                  /\ at = IF n = 0 THEN 0 ELSE AlignUp(cursor, ALIGN)
                  /\ cursor <= at /\ at < cursor + ALIGN
                  /\ AllAligned => at = cursor /\ size % ALIGN = 0
                  /\ infos' = Append(infos, record)
                  /\ recordEnds' = Append(recordEnds, TableEnd(n) + RecordBytes(item))
                  /\ dataAt' = Append(dataAt, dataLen)
                  /\ dataLen' = dataLen + size /\ cursor' = at + size
                  /\ layout' = layout /\ stage' = stage
  <1> DEFINE n == Len(infos)
             item == layout[n + 1]
             size == PartBytes(item)
             at == IF infos = <<>> THEN 0 ELSE NextOffset(cursor)
             record == [nDims |-> NumDims, dims |-> item.dims, type |-> item.type, offset |-> at]
  <1>0. n \in Nat /\ cursor \in Nat /\ ALIGN \in Nat \ {0} /\ (infos = <<>> <=> n = 0)
    BY WriterAssumption DEF Shaped
  <1>1. n < Len(layout) /\ layout' = layout
    BY DEF WriteTensor
  <1>2. size # Unsized
    BY DEF WriteTensor
  <1>3. /\ infos' = Append(infos, record)
        /\ recordEnds' = Append(recordEnds, TableEnd(n) + RecordBytes(item))
        /\ dataAt' = Append(dataAt, dataLen)
        /\ dataLen' = dataLen + size /\ cursor' = at + size /\ stage' = stage
    BY <1>2 DEF WriteTensor
  <1>4. n + 1 \in 1..Len(layout) /\ item \in Item
    BY <1>0, <1>1, ItemsOf
  <1>5. size \in Nat \ {0}
    BY <1>2, <1>4, PartIsPositive
  <1>6. at = IF n = 0 THEN 0 ELSE AlignUp(cursor, ALIGN)
    BY <1>0 DEF NextOffset
  <1>7. n = 0 => cursor = 0
    BY <1>0 DEF Placed
  <1>8. at \in Nat /\ cursor <= at /\ at < cursor + ALIGN
    <2>1. CASE n = 0
      BY <1>0, <1>6, <1>7, <2>1
    <2>2. CASE n # 0
      <3>1. at = AlignUp(cursor, ALIGN)
        BY <1>6, <2>2
      <3> HIDE DEF at
      <3> QED BY <1>0, <3>1, RoundingBounds
    <2> QED BY <2>1, <2>2
  <1>9. AllAligned => at = cursor /\ size % ALIGN = 0
    <2>1. ASSUME AllAligned PROVE at = cursor /\ size % ALIGN = 0
      <3>1. cursor % ALIGN = 0
        BY <2>1 DEF Placed
      <3>2. at = cursor
        BY <1>0, <1>6, <1>7, <3>1, RoundingFixesMultiples
      <3>3. DOMAIN layout = 1..Len(layout)
        BY ItemsOf
      <3> QED BY <1>4, <2>1, <3>2, <3>3 DEF AllAligned
    <2> QED BY <2>1
  <1>10. record \in Tensor
    <2>1. item.dims \in [1..NumDims -> Nat] /\ item.type \in Nat
      BY <1>4, ItemTyped
    <2> HIDE DEF at, item
    <2> QED BY <1>8, <2>1 DEF Tensor, NumDims
  <1> HIDE DEF at, size
  <1>11. /\ n + 1 \in 1..Len(layout) /\ item \in Item /\ size = PartBytes(item)
         /\ record \in Tensor
         /\ at = IF n = 0 THEN 0 ELSE AlignUp(cursor, ALIGN)
         /\ cursor <= at /\ at < cursor + ALIGN
         /\ AllAligned => at = cursor /\ size % ALIGN = 0
         /\ infos' = Append(infos, record)
         /\ recordEnds' = Append(recordEnds, TableEnd(n) + RecordBytes(item))
         /\ dataAt' = Append(dataAt, dataLen)
         /\ dataLen' = dataLen + size /\ cursor' = at + size
         /\ layout' = layout /\ stage' = stage
    BY <1>1, <1>3, <1>4, <1>6, <1>8, <1>9, <1>10 DEF size
  <1> QED BY <1>5, <1>8, <1>11

LEMMA WritingKeepsPlace ==
    ASSUME Shaped, Listed, Placed, layout \in Layouts, WriteTensor
    PROVE  Shaped' /\ Listed' /\ Placed'
  <1>1. CASE stage' = "raised"
    <2>1. UNCHANGED <<layout, cursor, infos, recordEnds, dataLen, dataAt>>
      BY <1>1 DEF WriteTensor
    <2> QED BY <1>1, <2>1 DEF Shaped, Stages, Listed, Placed, AllAligned
  <1>2. CASE stage' # "raised"
    <2> DEFINE n == Len(infos)
               item == layout[n + 1]
    <2>1. PICK at \in Nat, size \in Nat \ {0} :
              /\ n + 1 \in 1..Len(layout) /\ item \in Item /\ size = PartBytes(item)
              /\ [nDims |-> NumDims, dims |-> item.dims, type |-> item.type, offset |-> at] \in Tensor
              /\ at = IF n = 0 THEN 0 ELSE AlignUp(cursor, ALIGN)
              /\ cursor <= at /\ at < cursor + ALIGN
              /\ AllAligned => at = cursor /\ size % ALIGN = 0
              /\ infos' = Append(infos, [nDims |-> NumDims, dims |-> item.dims,
                                         type |-> item.type, offset |-> at])
              /\ recordEnds' = Append(recordEnds, TableEnd(n) + RecordBytes(item))
              /\ dataAt' = Append(dataAt, dataLen)
              /\ dataLen' = dataLen + size /\ cursor' = at + size
              /\ layout' = layout /\ stage' = stage
      BY <1>2, NextRecord
    <2> DEFINE record == [nDims |-> NumDims, dims |-> item.dims, type |-> item.type, offset |-> at]
               end == TableEnd(n) + RecordBytes(item)
    <2>2. /\ infos \in Seq(Tensor) /\ recordEnds \in Seq(Nat) /\ dataAt \in Seq(Nat)
          /\ Len(recordEnds) = n /\ Len(dataAt) = n
      BY DEF Shaped
    <2>3. n \in Nat /\ cursor \in Nat /\ dataLen \in Nat /\ ALIGN \in Nat \ {0}
      BY <2>2, WriterAssumption DEF Shaped
    <2>4. /\ at \in Nat /\ size \in Nat \ {0} /\ cursor <= at /\ at < cursor + ALIGN
          /\ dataLen' = dataLen + size /\ cursor' = at + size
      BY <2>1
    <2>5. /\ layout' = layout /\ stage' = stage /\ item \in Item /\ size = PartBytes(item)
          /\ n + 1 \in 1..Len(layout)
          /\ AllAligned => at = cursor /\ size % ALIGN = 0
      BY <2>1
    <2>6. at = IF n = 0 THEN 0 ELSE AlignUp(cursor, ALIGN)
      BY <2>1
    <2>7. end \in Nat /\ \A k \in 0..n : TableEnd(k) \in Nat /\ TableEnd(k) <= end
          /\ end >= HeaderBytes + KvBytes + 57 * (n + 1)
      <3>1. /\ \A k \in 0..n : TableEnd(k) \in Nat /\ TableEnd(k) <= TableEnd(n)
            /\ TableEnd(n) >= HeaderBytes + KvBytes + 57 * n
        <4>1. \A j, k \in 0..n : j <= k => TableEnd(j) <= TableEnd(k)
          BY TableGrows
        <4>2. \A k \in 0..n : TableEnd(k) \in Nat /\ TableEnd(k) >= HeaderBytes + KvBytes + 57 * k
          BY TableGrows
        <4>3. n \in 0..n
          BY <2>3
        <4> QED BY <4>1, <4>2, <4>3
      <3>2. RecordBytes(item) \in Nat /\ RecordBytes(item) >= 57
        <4>1. item.nameLen \in Nat \ {0}
          BY <2>5, ItemTyped
        <4> HIDE DEF item
        <4> QED BY <4>1 DEF RecordBytes, NumDims
      <3>3. HeaderBytes \in Nat /\ KvBytes \in Nat /\ TableEnd(n) \in Nat
        BY <2>3, <3>1, WriterAssumption DEF HeaderBytes
      <3> DEFINE b == RecordBytes(item)
                 e == TableEnd(n)
      <3>4. e + b \in Nat /\ e <= e + b /\ e + b >= HeaderBytes + KvBytes + 57 * (n + 1)
        <4>1. b \in Nat /\ b >= 57 /\ e \in Nat /\ e >= HeaderBytes + KvBytes + 57 * n
          BY <3>1, <3>2, <3>3
        <4> HIDE DEF b, e
        <4> QED BY <2>3, <3>3, <4>1
      <3>5. \A k \in 0..n : TableEnd(k) <= e + b
        <4>1. \A k \in 0..n : TableEnd(k) \in Nat /\ TableEnd(k) <= e
          BY <3>1
        <4>2. b \in Nat /\ e \in Nat
          BY <3>2, <3>3
        <4> HIDE DEF b, e
        <4> QED BY <4>1, <4>2
      <3> QED BY <3>1, <3>4, <3>5
    <2> HIDE DEF item
    <2>8. record \in Tensor /\ record.nDims = NumDims /\ record.dims = item.dims
          /\ record.type = item.type /\ record.offset = at
      BY <2>1
    <2>9. infos' = Append(infos, record) /\ recordEnds' = Append(recordEnds, end)
          /\ dataAt' = Append(dataAt, dataLen)
      BY <2>1
    <2> HIDE DEF record, end
    <2>10. infos' \in Seq(Tensor) /\ Len(infos') = n + 1 /\ infos'[n + 1] = record
          /\ DOMAIN infos' = 1 .. n + 1 /\ \A i \in 1..n : infos'[i] = infos[i]
      BY <2>8, <2>9, <2>2
    <2>11. recordEnds' \in Seq(Nat) /\ Len(recordEnds') = n + 1 /\ recordEnds'[n + 1] = end
          /\ \A i \in 1..n : recordEnds'[i] = recordEnds[i]
      <3>1. end \in Nat
        BY <2>7
      <3> QED BY <2>9, <2>2, <3>1
    <2>12. dataAt' \in Seq(Nat) /\ Len(dataAt') = n + 1 /\ dataAt'[n + 1] = dataLen
          /\ \A i \in 1..n : dataAt'[i] = dataAt[i]
      BY <2>3, <2>9, <2>2
    <2>13. Shaped'
      <3>1. cursor' \in Nat /\ dataLen' \in Nat /\ layout' = layout /\ stage' = stage
        <4>1. cursor' \in Nat /\ dataLen' \in Nat
          BY <2>3, <2>4
        <4> QED BY <2>5, <4>1
      <3>2. stage \in Stages /\ layout \in Layouts \cup {<<>>} /\ n + 1 <= Len(layout)
        BY <2>5 DEF Shaped
      <3> QED BY <2>10, <2>11, <2>12, <3>1, <3>2 DEF Shaped, Stages
    <2>14. AllAligned' <=> AllAligned
      BY <2>5 DEF AllAligned
    <2>15. DOMAIN infos = 1..n /\ \A i \in 1..n : /\ infos[i] \in Tensor /\ infos[i].offset \in Nat
                                  /\ recordEnds[i] \in Nat /\ dataAt[i] \in Nat
                                  /\ PartBytes(layout[i]) \in Nat \ {0}
      BY RecordsOf
    <2>16. cursor' \in Nat /\ cursor <= cursor' /\ layout' = layout
      <3>1. cursor' \in Nat /\ cursor <= cursor'
        BY <2>3, <2>4
      <3> QED BY <2>5, <3>1
    <2>17. n # 0 => cursor = infos[n].offset + PartBytes(layout[n])
      BY <2>3 DEF Placed
    <2>18. dataLen <= cursor /\ cursor <= dataLen + n * ALIGN /\ (n = 0 => cursor = 0)
           /\ (AllAligned => dataLen = cursor /\ cursor % ALIGN = 0)
      BY <2>3 DEF Placed
    <2>19. Listed'
      <3> SUFFICES ASSUME NEW i \in 1 .. n + 1
                   PROVE  /\ infos'[i].nDims = NumDims
                          /\ infos'[i].dims = layout[i].dims /\ infos'[i].type = layout[i].type
                          /\ PartBytes(layout[i]) \in Nat \ {0}
                          /\ infos'[i].offset = IF i = 1 THEN 0
                               ELSE AlignUp(infos'[i - 1].offset + PartBytes(layout[i - 1]), ALIGN)
                          /\ infos'[i].offset + PartBytes(layout[i]) <= cursor'
                          /\ dataAt'[i] <= infos'[i].offset
                          /\ AllAligned => dataAt'[i] = infos'[i].offset
                          /\ recordEnds'[i] >= HeaderBytes + KvBytes + 57 * i
                          /\ \A j \in 1..i : recordEnds'[j] <= recordEnds'[i]
        BY <2>10, <2>14, <2>16 DEF Listed
      <3>1. CASE i \in 1..n
        <4>1. infos'[i] = infos[i] /\ recordEnds'[i] = recordEnds[i] /\ dataAt'[i] = dataAt[i]
              /\ (i # 1 => i - 1 \in 1..n /\ infos'[i - 1] = infos[i - 1])
              /\ \A j \in 1..i : recordEnds'[j] = recordEnds[j]
          <5>1. i # 1 => i - 1 \in 1..n
            BY <2>3, <3>1
          <5>2. \A j \in 1..i : j \in 1..n
            BY <2>3, <3>1
          <5> QED BY <2>10, <2>11, <2>12, <3>1, <5>1, <5>2
        <4>2. /\ infos[i].nDims = NumDims
              /\ infos[i].dims = layout[i].dims /\ infos[i].type = layout[i].type
              /\ PartBytes(layout[i]) \in Nat \ {0}
              /\ infos[i].offset = IF i = 1 THEN 0
                                   ELSE AlignUp(infos[i - 1].offset + PartBytes(layout[i - 1]), ALIGN)
              /\ infos[i].offset + PartBytes(layout[i]) <= cursor
              /\ dataAt[i] <= infos[i].offset
              /\ AllAligned => dataAt[i] = infos[i].offset
              /\ recordEnds[i] >= HeaderBytes + KvBytes + 57 * i
              /\ \A j \in 1..i : recordEnds[j] <= recordEnds[i]
          BY <2>15, <3>1 DEF Listed
        <4>3. infos[i].offset + PartBytes(layout[i]) <= cursor'
          <5>1. infos[i].offset \in Nat /\ PartBytes(layout[i]) \in Nat
            BY <2>15, <3>1
          <5>2. infos[i].offset + PartBytes(layout[i]) <= cursor
            BY <4>2
          <5> QED BY <2>3, <2>16, <5>1, <5>2
        <4> QED BY <4>1, <4>2, <4>3
      <3>2. CASE i = n + 1
        <4>1. infos'[i] = record /\ recordEnds'[i] = end /\ dataAt'[i] = dataLen /\ layout[i] = item
          BY <2>10, <2>11, <2>12, <3>2 DEF item
        <4>2. at = IF i = 1 THEN 0 ELSE AlignUp(infos'[i - 1].offset + PartBytes(layout[i - 1]), ALIGN)
          <5>1. CASE n = 0
            BY <2>6, <3>2, <5>1
          <5>2. CASE n # 0
            <6>1. i # 1 /\ i - 1 = n /\ n \in 1..n /\ infos'[n] = infos[n]
              BY <2>3, <2>10, <3>2, <5>2
            <6> QED BY <2>17, <2>6, <5>2, <6>1
          <5> QED BY <5>1, <5>2
        <4>3. dataLen <= at /\ (AllAligned => dataLen = at)
          <5>1. dataLen <= at
            BY <2>3, <2>18, <2>4
          <5>2. AllAligned => dataLen = cursor /\ cursor = at
            BY <2>5, <2>18
          <5> QED BY <5>1, <5>2
        <4>4. \A j \in 1..i : recordEnds'[j] <= end
          <5>1. \A j \in 1..n : recordEnds[j] <= end
            <6>1. \A k \in 1..n : k \in 0..n /\ TableEnd(k) = recordEnds[k]
              BY <2>3 DEF TableEnd
            <6>2. \A k \in 0..n : TableEnd(k) <= end
              BY <2>7
            <6> QED BY <6>1, <6>2
          <5>2. end <= end
            BY <2>7
          <5>3. \A j \in 1..i : j \in 1..n \/ j = n + 1
            BY <2>3, <3>2
          <5> QED BY <2>11, <5>1, <5>2, <5>3
        <4>5. end >= HeaderBytes + KvBytes + 57 * i
          BY <2>7, <3>2
        <4>6. PartBytes(layout[i]) = size /\ size \in Nat \ {0} /\ at + size <= cursor'
          BY <2>3, <2>4, <2>5, <4>1
        <4> QED BY <2>8, <4>1, <4>2, <4>3, <4>4, <4>5, <4>6
      <3> QED BY <2>3, <3>1, <3>2
    <2>20. Placed'
      <3>1. cursor' = IF infos' = <<>> THEN 0
                      ELSE infos'[Len(infos')].offset + PartBytes(layout[Len(infos')])
        <4>1. infos' # <<>> /\ infos'[n + 1].offset = at
          BY <2>3, <2>8, <2>10
        <4>2. PartBytes(layout[n + 1]) = size
          BY <2>5 DEF item
        <4> QED BY <2>10, <2>4, <4>1, <4>2
      <3>2. dataLen' <= cursor' /\ cursor' <= dataLen' + Len(infos') * ALIGN
        <4>1. (n + 1) * ALIGN = n * ALIGN + ALIGN /\ n * ALIGN \in Nat
          BY <2>3
        <4>2. cursor <= dataLen + n * ALIGN /\ dataLen <= cursor
          BY <2>18
        <4> DEFINE gaps == n * ALIGN
        <4>3. gaps \in Nat /\ (n + 1) * ALIGN = gaps + ALIGN /\ cursor <= dataLen + gaps
          BY <4>1, <4>2
        <4> HIDE DEF gaps
        <4>4. dataLen + size <= at + size /\ at + size <= dataLen + size + (gaps + ALIGN)
          BY <2>3, <2>4, <4>2, <4>3
        <4> QED BY <2>10, <2>4, <4>3, <4>4
      <3>3. \E m \in 1 .. n + 1 : cursor' + ALIGN <= (n + 1) * (PartBytes(layout[m]) + ALIGN)
        <4>1. PartBytes(layout[n + 1]) = size
          BY <2>5 DEF item
        <4>2. CASE n = 0
          <5>1. cursor' + ALIGN <= (n + 1) * (PartBytes(layout[n + 1]) + ALIGN)
            <6>1. cursor = 0 /\ at = 0
              BY <2>18, <2>6, <4>2
            <6> QED BY <2>3, <2>4, <4>1, <4>2, <6>1
          <5> QED BY <2>3, <5>1
        <4>3. CASE n # 0
          <5>1. PICK m \in 1..n : cursor + ALIGN <= n * (PartBytes(layout[m]) + ALIGN)
            <6>1. infos # <<>>
              BY <2>3, <4>3
            <6> QED BY <2>15, <6>1 DEF Placed
          <5>2. PartBytes(layout[m]) \in Nat
            BY <2>15
          <5>3. cursor + ALIGN + size + ALIGN <=
                   (n + 1) * ((IF PartBytes(layout[m]) >= size THEN PartBytes(layout[m]) ELSE size) + ALIGN)
            <6>1. n \in Nat \ {0} /\ size \in Nat
              BY <2>3, <2>4, <4>3
            <6> QED BY <2>3, <5>1, <5>2, <6>1, OneMore
          <5>4. cursor' + ALIGN <= cursor + ALIGN + size + ALIGN
            BY <2>3, <2>4
          <5>5. CASE PartBytes(layout[m]) >= size
            <6> DEFINE b == (n + 1) * (PartBytes(layout[m]) + ALIGN)
            <6>1. b \in Nat /\ cursor + ALIGN + size + ALIGN <= b
              <7>1. b \in Nat
                BY <2>3, <5>2
              <7> QED BY <5>3, <5>5, <7>1
            <6> HIDE DEF b
            <6>2. cursor' + ALIGN <= b
              BY <2>3, <2>16, <2>4, <5>4, <6>1
            <6> QED BY <2>3, <6>2 DEF b
          <5>6. CASE ~(PartBytes(layout[m]) >= size)
            <6> DEFINE b == (n + 1) * (size + ALIGN)
            <6>1. b \in Nat /\ cursor + ALIGN + size + ALIGN <= b
              <7>1. b \in Nat
                BY <2>3, <2>4
              <7> QED BY <5>3, <5>6, <7>1
            <6> HIDE DEF b
            <6>2. cursor' + ALIGN <= b
              BY <2>3, <2>16, <2>4, <5>4, <6>1
            <6> QED BY <2>3, <4>1, <6>2 DEF b
          <5> QED BY <5>5, <5>6
        <4> QED BY <4>2, <4>3
      <3>4. AllAligned => dataLen' = cursor' /\ cursor' % ALIGN = 0
        <4>1. ASSUME AllAligned PROVE dataLen' = cursor' /\ cursor' % ALIGN = 0
          <5>1. at = cursor /\ size % ALIGN = 0 /\ dataLen = cursor /\ cursor % ALIGN = 0
            BY <2>18, <2>5, <4>1
          <5>2. (at + size) % ALIGN = 0
            BY <2>3, <2>4, <5>1, MultiplesAdd
          <5> QED BY <2>4, <5>1, <5>2
        <4> QED BY <4>1
      <3> QED BY <2>10, <2>14, <2>16, <3>1, <3>2, <3>3, <3>4 DEF Placed
    <2> QED BY <2>13, <2>19, <2>20
  <1> QED BY <1>1, <1>2

-----------------------------------------------------------------------------
(***************************************************************************)
(* What a file can be after each corruption class, field by field.         *)
(***************************************************************************)
Kinds ==
    {"none", "magic", "version", "alignment", "kv_type", "count_tensors", "count_kv", "truncate",
     "truncated_header", "append", "tensor_type", "tensor_offset", "tensor_dim", "zero"}

File == [size : Nat, magic : BOOLEAN, version : Nat, nTensors : Nat, nKv : Nat,
         alignment : Nat, kvType : BOOLEAN, tensors : Seq(Tensor)]

Versions(k) ==
    IF k = "version" THEN BadVersions ELSE IF k = "zero" THEN {0, VERSION} ELSE {VERSION}
Alignments(k) ==
    IF k = "alignment" THEN BadAlignments ELSE IF k = "zero" THEN {0, ALIGN} ELSE {ALIGN}
TensorCounts(k) ==
    IF k = "count_tensors" THEN HugeCounts \cup 1..Len(layout) ELSE {Len(layout)}
KvCounts(k) == IF k = "count_kv" THEN HugeCounts \cup SmallKvCounts ELSE {NumKv}
Sizes(k) ==
    IF k = "truncate" THEN 1 .. Written.size - 9
    ELSE IF k = "truncated_header" THEN 1..11
    ELSE IF k = "append" THEN {Written.size + n : n \in JunkSizes} ELSE {Written.size}
Tables(k) ==
    IF k = "tensor_type" THEN {[infos EXCEPT ![1].type = t] : t \in BadTypes}
    ELSE IF k = "tensor_offset" THEN {[infos EXCEPT ![1].offset = o] : o \in HugeOffsets}
    ELSE IF k = "tensor_dim" THEN {[infos EXCEPT ![1].dims[1] = n] : n \in HugeDims}
    ELSE {infos}

Fits(f, k) ==
    /\ f \in File /\ k \in Kinds
    /\ f.magic <=> k # "magic"
    /\ f.kvType <=> k # "kv_type"
    /\ f.version \in Versions(k) /\ f.alignment \in Alignments(k)
    /\ k = "zero" => f.version = 0 \/ f.alignment = 0
    /\ f.nTensors \in TensorCounts(k) /\ f.nKv \in KvCounts(k)
    /\ f.size \in Sizes(k) /\ f.tensors \in Tables(k)

\* The writer is done with the file.
Complete == layout \in Layouts /\ Len(infos) = Len(layout)

LEMMA CompleteShape ==
    ASSUME Shaped, Complete
    PROVE  /\ Len(layout) \in Nat \ {0} /\ Len(layout) <= CountSanity /\ Len(infos) = Len(layout)
           /\ infos \in Seq(Tensor) /\ DOMAIN infos = 1..Len(layout) /\ 1 \in 1..Len(layout)
           /\ DOMAIN layout = 1..Len(layout)
           /\ \A i \in 1..Len(layout) : infos[i] \in Tensor
  <1>1. Len(layout) \in Nat \ {0} /\ Len(layout) <= CountSanity /\ DOMAIN layout = 1..Len(layout)
    BY ItemsOf DEF Complete
  <1>2. infos \in Seq(Tensor) /\ Len(infos) = Len(layout)
    BY DEF Shaped, Complete
  <1>3. DOMAIN infos = 1..Len(layout) /\ \A i \in 1..Len(layout) : infos[i] \in Tensor
    BY <1>2
  <1> QED BY <1>1, <1>2, <1>3

\* The size of the file: the padded table, the data, the padding behind it.
LEMMA WrittenSize ==
    ASSUME Shaped, Listed, Placed, Complete
    PROVE  LET table == PaddedTable(TableEnd(Len(layout)))
               pad == AlignUp(cursor, ALIGN) - cursor
           IN  /\ table \in Nat /\ TableEnd(Len(layout)) <= table
               /\ table % ALIGN = 0
               /\ pad \in 0 .. ALIGN - 1
               /\ Written.size = table + dataLen + pad
               /\ Written.size \in Nat
  <1> DEFINE end == TableEnd(Len(layout))
             table == PaddedTable(end)
             up == AlignUp(cursor, ALIGN)
  <1>1. Len(layout) \in 0..Len(infos)
    BY CompleteShape
  <1>2. end \in Nat
    BY <1>1, TableGrows
  <1>3. cursor \in Nat /\ dataLen \in Nat /\ ALIGN \in Nat \ {0}
    BY WriterAssumption DEF Shaped
  <1>4. Written.size = table + dataLen + (up - cursor)
    BY DEF Written, Blank
  <1> HIDE DEF end
  <1>5. table \in Nat /\ end <= table /\ table % ALIGN = 0
    BY <1>2, <1>3, RoundingBounds, RoundingAligns DEF PaddedTable
  <1>6. up \in Nat /\ cursor <= up /\ up < cursor + ALIGN
    BY <1>3, RoundingBounds
  <1> HIDE DEF table, up
  <1>7. up - cursor \in 0 .. ALIGN - 1 /\ table + dataLen + (up - cursor) \in Nat
    BY <1>3, <1>5, <1>6
  <1> QED BY <1>4, <1>5, <1>7 DEF end, table, up

LEMMA WrittenFits ==
    ASSUME Shaped, Listed, Placed, Complete
    PROVE  Fits(Written, "none")
  <1> DEFINE n == Len(layout)
             size == PaddedTable(TableEnd(n)) + dataLen + (AlignUp(cursor, ALIGN) - cursor)
  <1>1. Written = [Blank EXCEPT !.nTensors = n, !.tensors = infos, !.size = size]
    BY DEF Written
  <1>2. size \in Nat
    BY WrittenSize
  <1>3. n \in Nat /\ infos \in Seq(Tensor)
    BY CompleteShape
  <1> HIDE DEF n, size
  <1>4. /\ Written \in File
        /\ Written.magic = TRUE /\ Written.version = VERSION /\ Written.nTensors = n
        /\ Written.nKv = NumKv /\ Written.alignment = ALIGN /\ Written.kvType = TRUE
        /\ Written.tensors = infos
    BY <1>1, <1>2, <1>3, WriterAssumption DEF Blank, File, VERSION
  <1> QED BY <1>4 DEF n, Fits, Kinds, Versions, Alignments, TensorCounts, KvCounts, Sizes, Tables

\* What is left of the first record when one of its fields is overwritten.
LEMMA OverwrittenTables ==
    ASSUME Shaped, Listed, Complete,
           NEW k \in {"tensor_type", "tensor_offset", "tensor_dim"}, NEW table \in Tables(k)
    PROVE  table \in Seq(Tensor) /\ Len(table) = Len(layout)
  <1>1. infos \in Seq(Tensor) /\ Len(infos) = Len(layout) /\ infos # <<>> /\ infos[1] \in Tensor
        /\ infos[1].nDims = NumDims /\ 1 \in DOMAIN infos
    BY CompleteShape DEF Listed
  <1>2. ASSUME NEW first \in Tensor, table = [infos EXCEPT ![1] = first]
        PROVE  table \in Seq(Tensor) /\ Len(table) = Len(layout)
    BY <1>1, <1>2
  <1>3. CASE k = "tensor_type"
    <2>1. PICK t \in BadTypes : table = [infos EXCEPT ![1].type = t]
      BY <1>3 DEF Tables
    <2>2. [infos[1] EXCEPT !.type = t] \in Tensor
      BY <1>1, MutationAssumption DEF Tensor
    <2> QED BY <1>2, <2>1, <2>2
  <1>4. CASE k = "tensor_offset"
    <2>1. PICK o \in HugeOffsets : table = [infos EXCEPT ![1].offset = o]
      BY <1>4 DEF Tables
    <2>2. [infos[1] EXCEPT !.offset = o] \in Tensor
      BY <1>1, MutationAssumption DEF Tensor
    <2> QED BY <1>2, <2>1, <2>2
  <1>5. CASE k = "tensor_dim"
    <2>1. PICK n \in HugeDims : table = [infos EXCEPT ![1].dims[1] = n]
      BY <1>5 DEF Tables
    <2>2. [infos[1].dims EXCEPT ![1] = n] \in [1..NumDims -> Nat]
      BY <1>1, MutationAssumption DEF Tensor, NumDims
    <2>3. [infos[1] EXCEPT !.dims = [infos[1].dims EXCEPT ![1] = n]] \in Tensor
      <3> DEFINE d == [infos[1].dims EXCEPT ![1] = n]
      <3> HIDE DEF d
      <3>1. d \in [1..NumDims -> Nat]
        BY <2>2 DEF d
      <3>2. [infos[1] EXCEPT !.dims = d] \in Tensor
        <4> DEFINE t == [infos[1] EXCEPT !.dims = d]
        <4>1. t \in [nDims : 1..NumDims, dims : [1..NumDims -> Nat], type : Nat, offset : Nat]
          BY <1>1, <3>1 DEF Tensor
        <4>2. t.nDims = 4
          BY <1>1 DEF Tensor, NumDims
        <4>3. \A j \in t.nDims + 1..NumDims : t.dims[j] = 1
          BY <4>2 DEF NumDims
        <4> QED BY <4>1, <4>3 DEF Tensor
      <3> QED BY <3>2 DEF d
    <2> QED BY <1>2, <2>1, <2>3
  <1> QED BY <1>3, <1>4, <1>5

LEMMA MutationFits ==
    ASSUME Shaped, Listed, Placed, Complete, Fits(file, "none"), Damage
    PROVE  Fits(file', kind')
  <1>1. /\ file \in File /\ file.magic = TRUE /\ file.kvType = TRUE /\ file.version = VERSION
        /\ file.alignment = ALIGN /\ file.nTensors = Len(layout) /\ file.nKv = NumKv
        /\ file.size = Written.size /\ file.tensors = infos
    BY DEF Fits, File, Versions, Alignments, TensorCounts, KvCounts, Sizes, Tables
  <1>2. Written.size \in Nat
    BY WrittenSize
  <1> USE DEF Fits, Kinds, Versions, Alignments, TensorCounts, KvCounts, Sizes, Tables
  <1>3. CASE Magic
    BY <1>1, <1>3 DEF Magic, Mutate, File
  <1>4. CASE Version
    BY <1>1, <1>4, MutationAssumption DEF Version, Mutate, File
  <1>5. CASE Alignment
    BY <1>1, <1>5, MutationAssumption DEF Alignment, Mutate, File
  <1>6. CASE KvType
    BY <1>1, <1>6 DEF KvType, Mutate, File
  <1>7. CASE CountTensors
    BY <1>1, <1>7, MutationAssumption DEF CountTensors, Mutate, File
  <1>8. CASE CountKv
    BY <1>1, <1>8, MutationAssumption DEF CountKv, Mutate, File
  <1>9. CASE Truncate
    BY <1>1, <1>2, <1>9 DEF Truncate, Mutate, File
  <1>10. CASE TruncatedHeader
    BY <1>1, <1>10 DEF TruncatedHeader, Mutate, File
  <1>11. CASE AppendJunk
    BY <1>1, <1>2, <1>11, MutationAssumption DEF AppendJunk, Mutate, File
  <1>12. CASE Zero
    BY <1>1, <1>12 DEF Zero, Mutate, File
  <1>13. ASSUME NEW k \in {"tensor_type", "tensor_offset", "tensor_dim"}, NEW table \in Tables(k),
                kind' = k, file' = [file EXCEPT !.tensors = table]
         PROVE  Fits(file', kind')
    <2>1. table \in Seq(Tensor)
      BY <1>13, OverwrittenTables
    <2>2. /\ file' \in File /\ file'.tensors = table /\ file'.magic = file.magic
          /\ file'.kvType = file.kvType /\ file'.version = file.version
          /\ file'.alignment = file.alignment /\ file'.nTensors = file.nTensors
          /\ file'.nKv = file.nKv /\ file'.size = file.size
      BY <1>1, <1>13, <2>1 DEF File
    <2> QED BY <1>1, <1>13, <2>2
  <1>14. CASE TensorType
    <2>1. PICK t \in BadTypes : kind' = "tensor_type"
                                /\ file' = [file EXCEPT !.tensors = [infos EXCEPT ![1].type = t]]
      BY <1>1, <1>14 DEF TensorType, Mutate
    <2> QED BY <1>13, <2>1
  <1>15. CASE TensorOffset
    <2>1. PICK o \in HugeOffsets : kind' = "tensor_offset"
                                /\ file' = [file EXCEPT !.tensors = [infos EXCEPT ![1].offset = o]]
      BY <1>1, <1>15 DEF TensorOffset, Mutate
    <2> QED BY <1>13, <2>1
  <1>16. CASE TensorDim
    <2>1. PICK n \in HugeDims : kind' = "tensor_dim"
                                /\ file' = [file EXCEPT !.tensors = [infos EXCEPT ![1].dims[1] = n]]
      BY <1>1, <1>16 DEF TensorDim, Mutate
    <2> QED BY <1>13, <2>1
  <1> QED BY <1>3, <1>4, <1>5, <1>6, <1>7, <1>8, <1>9, <1>10, <1>11, <1>12, <1>14, <1>15, <1>16 DEF Damage

-----------------------------------------------------------------------------
(***************************************************************************)
(* The parser's checks: which of them a file fails first.                  *)
(***************************************************************************)
TensorCountCodes == CountCodes(file.nTensors, 16, file.size - 8)
KvCountCodes == CountCodes(file.nKv, 13, file.size - 16)

LEMMA CheckRows ==
    /\ DOMAIN Checks = 1..11
    /\ Checks[1] = <<file.size < 4, {"E_TRUNCATED_HEADER"}>>
    /\ Checks[2] = <<~file.magic, {"E_MAGIC"}>>
    /\ Checks[3] = <<file.size < 16, {"E_TRUNCATED_HEADER"}>>
    /\ Checks[4] = <<TensorCountCodes # {}, TensorCountCodes>>
    /\ Checks[5] = <<file.size < HeaderBytes, {"E_TRUNCATED_HEADER"}>>
    /\ Checks[6] = <<KvCountCodes # {}, KvCountCodes>>
    /\ Checks[7] = <<~VersionOk(file.version), {"E_VERSION"}>>
    /\ Checks[8] = <<~file.kvType, {"E_BAD_KV_TYPE"}>>
    /\ Checks[9] = <<file.nKv < NumKv, MisreadTable>>
    /\ Checks[10] = <<file.size < HeaderBytes + KvBytes, {"E_TRUNCATED_KV", "E_TRUNCATED_KV_VALUE"}>>
    /\ Checks[11] = <<file.nTensors <= Len(layout) /\ file.size < TableEnd(file.nTensors),
                      {"E_TRUNCATED_TENSOR_INFO"}>>
  BY DEF Checks, TensorCountCodes, KvCountCodes

LEMMA Conditions ==
    /\ Checks[1][1] <=> file.size < 4
    /\ Checks[2][1] <=> ~file.magic
    /\ Checks[3][1] <=> file.size < 16
    /\ Checks[4][1] <=> TensorCountCodes # {}
    /\ Checks[5][1] <=> file.size < HeaderBytes
    /\ Checks[6][1] <=> KvCountCodes # {}
    /\ Checks[7][1] <=> ~VersionOk(file.version)
    /\ Checks[8][1] <=> ~file.kvType
    /\ Checks[9][1] <=> file.nKv < NumKv
    /\ Checks[10][1] <=> file.size < HeaderBytes + KvBytes
    /\ Checks[11][1] <=> file.nTensors <= Len(layout) /\ file.size < TableEnd(file.nTensors)
  <1>1. \A a, b : <<a, b>>[1] = a
    OBVIOUS
  <1>2. Checks[1][1] <=> file.size < 4
    <2> DEFINE c == file.size < 4
    <2>1. Checks[1] = <<c, {"E_TRUNCATED_HEADER"}>>
      BY CheckRows
    <2> HIDE DEF c
    <2>2. Checks[1][1] = c
      BY <2>1
    <2> QED BY <2>2 DEF c
  <1>3. Checks[2][1] <=> ~file.magic
    BY <1>1, CheckRows, Zenon
  <1>4. Checks[3][1] <=> file.size < 16
    <2> DEFINE c == file.size < 16
    <2>1. Checks[3] = <<c, {"E_TRUNCATED_HEADER"}>>
      BY CheckRows
    <2> HIDE DEF c
    <2>2. Checks[3][1] = c
      BY <2>1
    <2> QED BY <2>2 DEF c
  <1>5. Checks[4][1] <=> TensorCountCodes # {}
    BY <1>1, CheckRows, Zenon
  <1>6. Checks[5][1] <=> file.size < HeaderBytes
    <2> DEFINE c == file.size < HeaderBytes
    <2>1. Checks[5] = <<c, {"E_TRUNCATED_HEADER"}>>
      BY CheckRows
    <2> HIDE DEF c
    <2>2. Checks[5][1] = c
      BY <2>1
    <2> QED BY <2>2 DEF c
  <1>7. Checks[6][1] <=> KvCountCodes # {}
    BY <1>1, CheckRows, Zenon
  <1>8. Checks[7][1] <=> ~VersionOk(file.version)
    BY <1>1, CheckRows, Zenon
  <1>9. Checks[8][1] <=> ~file.kvType
    BY <1>1, CheckRows, Zenon
  <1>10. Checks[9][1] <=> file.nKv < NumKv
    <2> DEFINE c == file.nKv < NumKv
    <2>1. Checks[9] = <<c, MisreadTable>>
      BY CheckRows
    <2> HIDE DEF c
    <2>2. Checks[9][1] = c
      BY <2>1
    <2> QED BY <2>2 DEF c
  <1>11. Checks[10][1] <=> file.size < HeaderBytes + KvBytes
    <2> DEFINE c == file.size < HeaderBytes + KvBytes
    <2>1. Checks[10] = <<c, {"E_TRUNCATED_KV", "E_TRUNCATED_KV_VALUE"}>>
      BY CheckRows
    <2> HIDE DEF c
    <2>2. Checks[10][1] = c
      BY <2>1
    <2> QED BY <2>2 DEF c
  <1>12. Checks[11][1] <=> file.nTensors <= Len(layout) /\ file.size < TableEnd(file.nTensors)
    BY <1>1, CheckRows, Zenon
  <1> QED BY <1>2, <1>3, <1>4, <1>5, <1>6, <1>7, <1>8, <1>9, <1>10, <1>11, <1>12

LEMMA RefusalCodes ==
    /\ Checks[1][2] = {"E_TRUNCATED_HEADER"}
    /\ Checks[2][2] = {"E_MAGIC"}
    /\ Checks[3][2] = {"E_TRUNCATED_HEADER"}
    /\ Checks[4][2] = TensorCountCodes
    /\ Checks[5][2] = {"E_TRUNCATED_HEADER"}
    /\ Checks[6][2] = KvCountCodes
    /\ Checks[7][2] = {"E_VERSION"}
    /\ Checks[8][2] = {"E_BAD_KV_TYPE"}
    /\ Checks[9][2] = MisreadTable
    /\ Checks[10][2] = {"E_TRUNCATED_KV", "E_TRUNCATED_KV_VALUE"}
    /\ Checks[11][2] = {"E_TRUNCATED_TENSOR_INFO"}
  <1>1. \A a, b : <<a, b>>[2] = b
    OBVIOUS
  <1> QED BY <1>1, CheckRows

\* A file is refused with the codes of the first check it fails.
LEMMA RefusedBy ==
    ASSUME NEW i \in 1..11, FirstFailure(i)
    PROVE  Refusals = Checks[i][2]
  <1>1. DOMAIN Checks = 1..11
    BY CheckRows
  <1>2. ASSUME NEW k \in 1..11, FirstFailure(k) PROVE k = i
    <2>1. k < i => k \in 1 .. i - 1
      OBVIOUS
    <2>2. i < k => i \in 1 .. k - 1
      OBVIOUS
    <2>3. k < i \/ i < k \/ k = i
      OBVIOUS
    <2> QED BY <1>2, <2>1, <2>2, <2>3 DEF FirstFailure
  <1>3. {k \in DOMAIN Checks : FirstFailure(k)} = {i}
    BY <1>1, <1>2
  <1>4. {Checks[k][2] : k \in {i}} = {Checks[i][2]}
    OBVIOUS
  <1> QED BY <1>3, <1>4 DEF Refusals

LEMMA NotRefused ==
    ASSUME \A i \in 1..11 : ~Checks[i][1]
    PROVE  Refusals = {}
  <1>1. {k \in DOMAIN Checks : FirstFailure(k)} = {}
    BY CheckRows DEF FirstFailure
  <1> QED BY <1>1 DEF Refusals

\* An accepted file fails none of them.
LEMMA Accepted ==
    ASSUME Refusals = {}
    PROVE  \A i \in 1..11 : ~Checks[i][1]
  <1> DEFINE T == {i \in 1..11 : Checks[i][1]}
  <1>1. SUFFICES ASSUME T # {} PROVE FALSE
    OBVIOUS
  <1>2. PICK i \in T : \A j \in T : i <= j
    <2>1. T \in SUBSET Nat
      OBVIOUS
    <2> HIDE DEF T
    <2> QED BY <1>1, <2>1, SmallestExists
  <1>3. i \in 1..11 /\ Checks[i][1]
    OBVIOUS
  <1>4. FirstFailure(i)
    <2>1. ASSUME NEW j \in 1 .. i - 1, Checks[j][1] PROVE FALSE
      <3>1. j \in T
        BY <1>3, <2>1
      <3> HIDE DEF T
      <3>2. i <= j
        BY <1>2, <3>1
      <3> QED BY <1>3, <2>1, <3>2
    <2> QED BY <1>3, <2>1 DEF FirstFailure
  <1>5. Checks[i][2] = {}
    BY <1>3, <1>4, RefusedBy
  <1>6. Checks[i][2] # {}
    <2>1. MisreadTable # {}
      BY DEF MisreadTable
    <2>2. i \in {1, 2, 3, 4, 5, 6, 7, 8, 9, 10, 11}
      BY <1>3
    <2> QED BY <1>3, <2>1, <2>2, Conditions, RefusalCodes
  <1> QED BY <1>5, <1>6

LEMMA CountAccepted ==
    ASSUME NEW n \in Nat, NEW minEach \in Nat, NEW left \in Int
    PROVE  CountCodes(n, minEach, left) = {} <=> n <= CountSanity /\ n * minEach <= left
  <1>1. CountSanity \in Nat /\ SignBit \in Nat /\ CountSanity < SignBit /\ n * minEach \in Nat
    BY WriterAssumption
  <1> QED BY <1>1 DEF CountCodes

-----------------------------------------------------------------------------
(***************************************************************************)
(* Files that kept their header: they pass the checks of the counts.       *)
(***************************************************************************)
LEMMA Room ==
    ASSUME Shaped, Listed, Placed, Complete, file \in File, file.size >= Written.size,
           file.nTensors \in 1..Len(layout)
    PROVE  /\ TableEnd(file.nTensors) \in Nat
           /\ TableEnd(file.nTensors) <= TableEnd(Len(layout))
           /\ TableEnd(Len(layout)) \in Nat /\ TableEnd(Len(layout)) <= file.size
           /\ file.size >= HeaderBytes + KvBytes + 57 * file.nTensors
           /\ PaddedTable(TableEnd(Len(layout))) + dataLen <= file.size
  <1> DEFINE n == Len(layout)
             k == file.nTensors
             end == TableEnd(n)
             table == PaddedTable(end)
             pad == AlignUp(cursor, ALIGN) - cursor
  <1>1. n \in Nat \ {0} /\ n \in 0..Len(infos) /\ k \in 0..Len(infos) /\ k \in Nat /\ k <= n
    BY CompleteShape
  <1>2. TableEnd(k) \in Nat /\ end \in Nat /\ TableEnd(k) <= end
        /\ TableEnd(k) >= HeaderBytes + KvBytes + 57 * k
    <2>1. /\ \A j \in 0..Len(infos) : TableEnd(j) \in Nat /\ TableEnd(j) >= HeaderBytes + KvBytes + 57 * j
          /\ \A i, j \in 0..Len(infos) : i <= j => TableEnd(i) <= TableEnd(j)
      BY TableGrows
    <2> HIDE DEF n, k
    <2> QED BY <1>1, <2>1
  <1>3. /\ table \in Nat /\ end <= table /\ pad \in 0 .. ALIGN - 1
        /\ Written.size = table + dataLen + pad
    BY WrittenSize
  <1>4. dataLen \in Nat /\ file.size \in Nat /\ ALIGN \in Nat \ {0} /\ file.size >= Written.size
        /\ HeaderBytes \in Nat /\ KvBytes \in Nat
    BY WriterAssumption DEF Shaped, File, HeaderBytes
  <1> DEFINE e == TableEnd(k)
  <1> HIDE DEF n, k, end, table, pad, e
  <1>5. table + dataLen <= file.size
    BY <1>3, <1>4
  <1>6. end <= file.size
    BY <1>2, <1>3, <1>4, <1>5
  <1>7. e \in Nat /\ e <= end /\ e >= HeaderBytes + KvBytes + 57 * k
    BY <1>2 DEF e
  <1>8. file.size >= HeaderBytes + KvBytes + 57 * k
    BY <1>1, <1>2, <1>4, <1>6, <1>7
  <1> QED BY <1>2, <1>5, <1>6, <1>8 DEF n, k, end, table

LEMMA HeaderPasses ==
    ASSUME Shaped, Listed, Placed, Complete, file \in File, file.size >= Written.size,
           file.nTensors \in 1..Len(layout), file.nKv = NumKv
    PROVE  \A i \in {1, 3, 4, 5, 6, 9, 10, 11} : ~Checks[i][1]
  <1> DEFINE k == file.nTensors
             size == file.size
  <1>1. k \in Nat /\ k <= CountSanity
    <2>1. Len(layout) \in Nat /\ Len(layout) <= CountSanity /\ CountSanity \in Nat
      BY CompleteShape, WriterAssumption
    <2> QED BY <2>1
  <1>2. size \in Nat /\ size >= 24 + KvBytes + 57 * k
    BY Room DEF File, HeaderBytes
  <1>3. KvBytes \in Nat /\ NumKv \in Nat /\ 13 * NumKv <= KvBytes /\ NumKv <= CountSanity
    BY WriterAssumption
  <1>4. ~(size < TableEnd(k))
    <2>1. TableEnd(k) \in Nat /\ TableEnd(k) <= TableEnd(Len(layout))
          /\ TableEnd(Len(layout)) \in Nat /\ TableEnd(Len(layout)) <= size
      BY Room
    <2> QED BY <1>2, <2>1
  <1> HIDE DEF k, size
  <1>5. k * 16 <= size - 8 /\ size - 8 \in Int
    BY <1>1, <1>2, <1>3
  <1>6. NumKv * 13 <= size - 16 /\ size - 16 \in Int
    BY <1>1, <1>2, <1>3
  <1>7. ~(size < 4) /\ ~(size < 16) /\ ~(size < 24) /\ ~(size < 24 + KvBytes)
    BY <1>1, <1>2, <1>3
  <1>8. CountCodes(k, 16, size - 8) = {}
    BY <1>1, <1>5, CountAccepted
  <1>9. CountCodes(NumKv, 13, size - 16) = {}
    BY <1>3, <1>6, CountAccepted
  <1>10. TensorCountCodes = {} /\ KvCountCodes = {}
    BY <1>8, <1>9 DEF TensorCountCodes, KvCountCodes, k, size
  <1>11. ~(file.nKv < NumKv)
    BY <1>3
  <1>12. ~Checks[1][1] /\ ~Checks[3][1] /\ ~Checks[5][1] /\ ~Checks[10][1]
    BY <1>7, Conditions DEF size, HeaderBytes
  <1>13. ~Checks[4][1] /\ ~Checks[6][1] /\ ~Checks[9][1] /\ ~Checks[11][1]
    BY <1>4, <1>10, <1>11, Conditions DEF k, size
  <1> QED BY <1>12, <1>13

\* Files the parser has nothing against.
LEMMA Readable ==
    ASSUME Shaped, Listed, Placed, Complete, file \in File, file.size >= Written.size,
           file.nTensors \in 1..Len(layout), file.nKv = NumKv,
           file.magic, file.kvType, VersionOk(file.version)
    PROVE  Refusals = {}
  <1>1. \A i \in {1, 3, 4, 5, 6, 9, 10, 11} : ~Checks[i][1]
    BY HeaderPasses
  <1>2. ~Checks[2][1] /\ ~Checks[7][1] /\ ~Checks[8][1]
    BY Conditions
  <1>3. \A i \in 1..11 : i = 2 \/ i = 7 \/ i = 8 \/ i \in {1, 3, 4, 5, 6, 9, 10, 11}
    OBVIOUS
  <1>4. \A i \in 1..11 : ~Checks[i][1]
    BY <1>1, <1>2, <1>3
  <1> QED BY <1>4, NotRefused

-----------------------------------------------------------------------------
(***************************************************************************)
(* What the parser makes of each corruption class.                         *)
(***************************************************************************)
LEMMA FieldsTyped ==
    ASSUME Fits(file, kind)
    PROVE  /\ file.size \in Nat /\ file.version \in Nat /\ file.nTensors \in Nat /\ file.nKv \in Nat
           /\ file.alignment \in Nat /\ file.tensors \in Seq(Tensor)
           /\ file \in File /\ kind \in Kinds
  BY DEF Fits, File

\* The classes that leave the counts alone and do not cut the file.
LEMMA HeaderKept ==
    ASSUME Shaped, Listed, Placed, Complete, Fits(file, kind),
           kind \notin {"count_tensors", "count_kv", "truncate", "truncated_header"}
    PROVE  /\ file.nTensors = Len(layout) /\ Len(layout) \in 1..Len(layout) /\ file.nKv = NumKv
           /\ file.size \in Nat /\ file.size >= Written.size /\ file \in File
  <1>1. Len(layout) \in 1..Len(layout) /\ Written.size \in Nat
    BY CompleteShape, WrittenSize
  <1>2. file.nTensors = Len(layout) /\ file.nKv = NumKv
    BY DEF Fits, TensorCounts, KvCounts
  <1>3. file.size \in Nat /\ file \in File
    BY FieldsTyped
  <1>4. file.size >= Written.size
    <2>1. file.size \in Sizes(kind)
      BY DEF Fits
    <2>2. CASE kind = "append"
      <3>1. PICK n \in JunkSizes : file.size = Written.size + n
        BY <2>1, <2>2 DEF Sizes
      <3> QED BY <1>1, <3>1, MutationAssumption
    <2>3. CASE kind # "append"
      BY <1>1, <2>1, <2>3 DEF Sizes
    <2> QED BY <2>2, <2>3
  <1> QED BY <1>1, <1>2, <1>3, <1>4

LEMMA BadMagicIsRefused ==
    ASSUME Shaped, Listed, Placed, Complete, Fits(file, kind), kind = "magic"
    PROVE  Refusals = {"E_MAGIC"}
  <1>1. \A i \in {1, 3, 4, 5, 6, 9, 10, 11} : ~Checks[i][1]
    BY HeaderKept, HeaderPasses
  <1>2. Checks[2][1]
    BY Conditions DEF Fits
  <1>3. FirstFailure(2)
    BY <1>1, <1>2 DEF FirstFailure
  <1> QED BY <1>3, RefusedBy, RefusalCodes

LEMMA BadVersionIsRefused ==
    ASSUME Shaped, Listed, Placed, Complete, Fits(file, kind),
           kind = "version" \/ (kind = "zero" /\ file.version = 0)
    PROVE  Refusals = {"E_VERSION"}
  <1>1. \A i \in {1, 3, 4, 5, 6, 9, 10, 11} : ~Checks[i][1]
    BY HeaderKept, HeaderPasses
  <1>2. ~Checks[2][1]
    BY Conditions DEF Fits
  <1>3. ~VersionOk(file.version)
    BY MutationAssumption, FieldsTyped DEF Fits, Versions, VersionOk, VERSION
  <1>4. Checks[7][1]
    BY <1>3, Conditions
  <1>5. FirstFailure(7)
    BY <1>1, <1>2, <1>4 DEF FirstFailure
  <1> QED BY <1>5, RefusedBy, RefusalCodes

LEMMA BadKvTypeIsRefused ==
    ASSUME Shaped, Listed, Placed, Complete, Fits(file, kind), kind = "kv_type"
    PROVE  Refusals = {"E_BAD_KV_TYPE"}
  <1>1. \A i \in {1, 3, 4, 5, 6, 9, 10, 11} : ~Checks[i][1]
    BY HeaderKept, HeaderPasses
  <1>2. ~Checks[2][1] /\ Checks[8][1]
    BY Conditions DEF Fits
  <1>3. ~Checks[7][1]
    BY Conditions DEF Fits, Versions, VersionOk, VERSION
  <1>4. FirstFailure(8)
    BY <1>1, <1>2, <1>3 DEF FirstFailure
  <1> QED BY <1>4, RefusedBy, RefusalCodes

LEMMA CutHeaderIsRefused ==
    ASSUME Fits(file, kind), kind = "truncated_header"
    PROVE  Refusals = {"E_TRUNCATED_HEADER"}
  <1>1. file.size \in 1..11 /\ file.magic
    BY DEF Fits, Sizes
  <1>2. file.size < 16
    BY <1>1
  <1>3. ~Checks[2][1] /\ Checks[3][1]
    BY <1>1, <1>2, Conditions
  <1>4. FirstFailure(1) \/ FirstFailure(3)
    BY <1>3 DEF FirstFailure
  <1> QED BY <1>4, RefusedBy, RefusalCodes

\* The classes the parser lets through.
LEMMA LetThrough ==
    ASSUME Shaped, Listed, Placed, Complete, Fits(file, kind),
           \/ kind \in {"none", "alignment", "append", "tensor_type", "tensor_offset", "tensor_dim"}
           \/ kind = "zero" /\ file.version # 0
           \/ kind = "count_tensors" /\ file.nTensors <= Len(layout)
    PROVE  Refusals = {}
  <1>1. Len(layout) \in Nat /\ Written.size \in Nat
    BY CompleteShape, WrittenSize
  <1>2. file \in File /\ file.size >= Written.size /\ file.nKv = NumKv
        /\ file.nTensors \in 1..Len(layout)
    <2>1. CASE kind # "count_tensors"
      BY <2>1, HeaderKept
    <2>2. CASE kind = "count_tensors"
      <3>1. file.size = Written.size /\ file.nKv = NumKv
            /\ file.nTensors \in HugeCounts \cup 1..Len(layout)
        BY <2>2 DEF Fits, Sizes, KvCounts, TensorCounts
      <3>2. \A n \in HugeCounts : n \in Nat /\ n > Len(layout)
        BY CompleteShape, MutationAssumption, WriterAssumption
      <3>3. file.nTensors \in 1..Len(layout)
        BY <1>1, <2>2, <3>1, <3>2
      <3> QED BY <1>1, <3>1, <3>3, FieldsTyped
    <2> QED BY <2>1, <2>2
  <1>3. file.magic /\ file.kvType
    BY DEF Fits
  <1>4. VersionOk(file.version)
    BY DEF Fits, Versions, VersionOk, VERSION
  <1> QED BY <1>2, <1>3, <1>4, Readable

\* What an accepted file is known to hold.
LEMMA AcceptedCounts ==
    ASSUME Shaped, Complete, Fits(file, kind), Refusals = {}
    PROVE  /\ file.nTensors \in 1..Len(layout)
           /\ TableEnd(file.nTensors) \in Nat => TableEnd(file.nTensors) <= file.size
  <1>1. \A i \in 1..11 : ~Checks[i][1]
    BY Accepted
  <1>2. TensorCountCodes = {}
        /\ ~(file.nTensors <= Len(layout) /\ file.size < TableEnd(file.nTensors))
    BY <1>1, Conditions
  <1>3. file.nTensors \in Nat /\ file.size \in Nat
    BY FieldsTyped
  <1>4. file.nTensors <= CountSanity
    <2>1. 16 \in Nat /\ file.size - 8 \in Int
      BY <1>3
    <2> QED BY <1>2, <1>3, <2>1, CountAccepted DEF TensorCountCodes
  <1>5. Len(layout) \in Nat \ {0} /\ CountSanity \in Nat
    BY CompleteShape, WriterAssumption
  <1>6. file.nTensors \in 1..Len(layout)
    <2>1. file.nTensors \in HugeCounts \cup 1..Len(layout) \cup {Len(layout)}
      BY DEF Fits, TensorCounts
    <2>2. file.nTensors \notin HugeCounts
      BY <1>3, <1>4, <1>5, MutationAssumption
    <2> QED BY <1>5, <2>1, <2>2
  <1> QED BY <1>2, <1>3, <1>5, <1>6

LEMMA TablesTyped ==
    ASSUME Shaped, Listed, Complete, Fits(file, kind)
    PROVE  file.tensors \in Seq(Tensor) /\ Len(file.tensors) = Len(layout)
  <1>1. file.tensors \in Tables(kind)
    BY DEF Fits
  <1>2. CASE kind \in {"tensor_type", "tensor_offset", "tensor_dim"}
    BY <1>1, <1>2, OverwrittenTables
  <1>3. CASE kind \notin {"tensor_type", "tensor_offset", "tensor_dim"}
    BY <1>1, <1>3, CompleteShape DEF Tables
  <1> QED BY <1>2, <1>3

LEMMA UsableTyped ==
    ASSUME Fits(file, kind)
    PROVE  Usable \in Nat \ {0}
  BY FieldsTyped, WriterAssumption DEF Usable, PowerOfTwo

LEMMA ParsedShape ==
    ASSUME Shaped, Listed, Complete, Fits(file, kind), Refusals = {}
    PROVE  /\ ParsedModel \in Document
           /\ Len(ParsedModel.tensors) = file.nTensors
           /\ DOMAIN ParsedModel.tensors = 1..file.nTensors
           /\ \A i \in 1..file.nTensors : ParsedModel.tensors[i] = file.tensors[i]
  <1> DEFINE k == file.nTensors
             end == TableEnd(k)
             table == SubSeq(file.tensors, 1, k)
             dirty == k < Len(layout) /\ AlignUp(end, ALIGN) # end
             model == [size |-> file.size, metaEnd |-> end, alignment |-> Usable,
                       dataStart |-> AlignUp(end, Usable), tensors |-> table,
                       dirtyPadding |-> dirty, constantData |-> FALSE]
  <1>1. k \in 1..Len(layout) /\ Len(layout) \in Nat
    BY AcceptedCounts, CompleteShape
  <1>2. end \in Nat
    <2>1. k \in 0..Len(infos)
      BY <1>1, CompleteShape
    <2> HIDE DEF k
    <2> QED BY <2>1, TableGrows
  <1>3. end <= file.size /\ file.size \in Nat
    BY <1>2, AcceptedCounts, FieldsTyped
  <1>4. file.tensors \in Seq(Tensor) /\ Len(file.tensors) = Len(layout)
    BY TablesTyped
  <1>5. table \in Seq(Tensor) /\ Len(table) = k /\ DOMAIN table = 1..k
        /\ \A i \in 1..k : table[i] = file.tensors[i]
    BY <1>1, <1>4
  <1>6. Usable \in Nat \ {0} /\ AlignUp(end, Usable) \in Nat
    BY <1>2, UsableTyped, RoundingBounds
  <1>7. ParsedModel = model
    BY DEF ParsedModel
  <1>8. table # <<>>
    <2>1. Len(table) # 0
      BY <1>1, <1>5
    <2> HIDE DEF table
    <2> QED BY <2>1
  <1>9. dirty \in BOOLEAN
    OBVIOUS
  <1> HIDE DEF k, end, table, dirty
  <1>10. model \in Document
    BY <1>3, <1>2, <1>5, <1>6, <1>8, <1>9 DEF Document
  <1>11. model.tensors = table
    OBVIOUS
  <1> QED BY <1>5, <1>7, <1>10, <1>11 DEF k

\* What the audit sees of a file it was given.
LEMMA ReadBack ==
    ASSUME Shaped, Listed, Placed, Complete, Fits(file, kind), Refusals = {}, doc = ParsedModel
    PROVE  /\ doc \in Document
           /\ Tensors = 1..file.nTensors /\ Len(doc.tensors) = file.nTensors
           /\ file.nTensors \in 1..Len(layout)
           /\ \A i \in Tensors : doc.tensors[i] = file.tensors[i]
           /\ doc.size = file.size /\ doc.metaEnd = TableEnd(file.nTensors)
           /\ doc.alignment = Usable /\ doc.dataStart = AlignUp(TableEnd(file.nTensors), Usable)
           /\ doc.constantData = FALSE
           /\ doc.dirtyPadding <=> file.nTensors < Len(layout)
                 /\ AlignUp(TableEnd(file.nTensors), ALIGN) # TableEnd(file.nTensors)
  <1>1. doc \in Document /\ Tensors = 1..file.nTensors /\ Len(doc.tensors) = file.nTensors
        /\ \A i \in Tensors : doc.tensors[i] = file.tensors[i]
    BY ParsedShape DEF Tensors
  <1>2. /\ doc.size = file.size /\ doc.metaEnd = TableEnd(file.nTensors)
        /\ doc.alignment = Usable /\ doc.dataStart = AlignUp(TableEnd(file.nTensors), Usable)
        /\ doc.constantData = FALSE
    BY DEF ParsedModel
  <1>3. doc.dirtyPadding <=> file.nTensors < Len(layout)
           /\ AlignUp(TableEnd(file.nTensors), ALIGN) # TableEnd(file.nTensors)
    <2> DEFINE d == file.nTensors < Len(layout)
                    /\ AlignUp(TableEnd(file.nTensors), ALIGN) # TableEnd(file.nTensors)
    <2>1. doc.dirtyPadding = d
      <3> HIDE DEF d
      <3> QED BY DEF ParsedModel, d
    <2> QED BY <2>1
  <1>4. file.nTensors \in 1..Len(layout)
    BY AcceptedCounts
  <1> QED BY <1>1, <1>2, <1>3, <1>4

-----------------------------------------------------------------------------
(***************************************************************************)
(* What the layout rules find in an accepted file.                         *)
(***************************************************************************)
\* A record nobody touched lies where it was written.
LEMMA UntouchedRecord ==
    ASSUME Shaped, Listed, Placed, Complete, Fits(file, kind), Refusals = {}, doc = ParsedModel,
           NEW i \in Tensors, doc.tensors[i] = infos[i]
    PROVE  /\ i \in Sized /\ i \in 1..Len(infos) /\ infos[i].offset \in Nat
           /\ PartBytes(layout[i]) \in Nat \ {0}
           /\ Offset(i) = infos[i].offset
           /\ End(i) = infos[i].offset + PartBytes(layout[i])
           /\ End(i) \in Nat /\ End(i) <= cursor
  <1>1. i \in 1..Len(infos) /\ i \in DOMAIN infos
    BY ReadBack, CompleteShape
  <1>2. /\ infos[i] \in Tensor /\ infos[i].offset \in Nat /\ layout[i] \in Item
        /\ PartBytes(layout[i]) \in Nat \ {0}
    BY <1>1, RecordsOf
  <1>3. /\ infos[i].nDims = NumDims /\ infos[i].dims = layout[i].dims
        /\ infos[i].type = layout[i].type
        /\ infos[i].offset + PartBytes(layout[i]) <= cursor
    BY <1>1 DEF Listed
  <1>4. PartBytes(layout[i]) # Unsized
    BY <1>2 DEF Unsized
  <1>5. TensorBytes(infos[i]) = PartBytes(layout[i]) /\ TensorBytes(infos[i]) # Unsized
    BY <1>2, <1>3, <1>4, RecordedBytes
  <1>6. i \in Sized
    BY <1>5 DEF Sized
  <1>7. Offset(i) = infos[i].offset /\ End(i) = infos[i].offset + PartBytes(layout[i])
    BY <1>5 DEF Offset, End
  <1> QED BY <1>1, <1>2, <1>3, <1>6, <1>7

\* The data section of a file whose count and alignment were left alone.
LEMMA WholeData ==
    ASSUME Shaped, Listed, Placed, Complete, Fits(file, kind), Refusals = {}, doc = ParsedModel,
           file.nTensors = Len(layout), file.alignment = ALIGN
    PROVE  LET table == PaddedTable(TableEnd(Len(layout)))
               pad == AlignUp(cursor, ALIGN) - cursor
           IN  /\ table \in Nat /\ doc.dataStart = table /\ doc.alignment = ALIGN
               /\ DataBytes = file.size - table /\ DataBytes \in Int
               /\ pad \in 0 .. ALIGN - 1
               /\ DataBytes = (file.size - Written.size) + dataLen + pad
  <1> DEFINE table == PaddedTable(TableEnd(Len(layout)))
             pad == AlignUp(cursor, ALIGN) - cursor
  <1>1. Usable = ALIGN
    BY WriterAssumption DEF Usable
  <1>2. doc.size = file.size /\ doc.dataStart = table /\ doc.alignment = ALIGN
    BY <1>1, ReadBack DEF PaddedTable
  <1>3. /\ table \in Nat /\ pad \in 0 .. ALIGN - 1 /\ Written.size = table + dataLen + pad
    BY WrittenSize
  <1>4. DataBytes = file.size - table
    BY <1>2 DEF DataBytes
  <1>5. file.size \in Nat /\ dataLen \in Nat /\ ALIGN \in Nat
    BY FieldsTyped, WriterAssumption DEF Shaped
  <1> HIDE DEF table, pad
  <1>6. DataBytes \in Int /\ DataBytes = (file.size - Written.size) + dataLen + pad
    <2> DEFINE size == file.size
    <2>1. size \in Nat /\ DataBytes = size - table
      BY <1>4, <1>5
    <2> HIDE DEF size
    <2>2. DataBytes \in Int /\ DataBytes = (size - (table + dataLen + pad)) + dataLen + pad
      BY <1>3, <1>5, <2>1
    <2> QED BY <1>3, <2>2 DEF size
  <1> QED BY <1>2, <1>3, <1>4, <1>6 DEF table, pad

\* No data reaches as far as what mutate writes.
LEMMA OutOfScale ==
    ASSUME Shaped, Listed, Placed, Complete, NEW n \in Nat,
           \A i \in DOMAIN layout : n >= Len(layout) * (PartBytes(layout[i]) + ALIGN)
    PROVE  cursor + ALIGN <= n
  <1>1. infos # <<>> /\ DOMAIN infos = DOMAIN layout /\ Len(infos) = Len(layout)
        /\ Len(layout) \in Nat
    BY CompleteShape
  <1>2. PICK m \in DOMAIN infos : cursor + ALIGN <= Len(infos) * (PartBytes(layout[m]) + ALIGN)
    BY <1>1 DEF Placed
  <1> DEFINE b == Len(layout) * (PartBytes(layout[m]) + ALIGN)
  <1>3. b \in Nat
    BY <1>1, RecordsOf, WriterAssumption
  <1>4. cursor + ALIGN <= b /\ n >= b
    BY <1>1, <1>2
  <1>5. cursor + ALIGN \in Nat
    BY WriterAssumption DEF Shaped
  <1> HIDE DEF b
  <1> QED BY <1>3, <1>4, <1>5

LEMMA BadTypeIsUnknown ==
    ASSUME Shaped, Listed, Placed, Complete, Fits(file, kind), Refusals = {}, doc = ParsedModel,
           kind = "tensor_type"
    PROVE  Unknown # {}
  <1>1. 1 \in Tensors /\ doc.tensors[1] = file.tensors[1]
    BY ReadBack, CompleteShape
  <1>2. PICK t \in BadTypes : file.tensors = [infos EXCEPT ![1].type = t]
    BY DEF Fits, Tables
  <1>3. infos[1] \in Tensor /\ 1 \in DOMAIN infos
    BY CompleteShape
  <1>4. doc.tensors[1].type = t
    BY <1>1, <1>2, <1>3 DEF Tensor
  <1>5. 1 \in Unknown
    BY <1>1, <1>4, MutationAssumption DEF Unknown, KnownType
  <1> QED BY <1>5

LEMMA DataIsShort ==
    ASSUME Shaped, Listed, Placed, Complete, Fits(file, kind), Refusals = {}, doc = ParsedModel,
           kind \in {"tensor_offset", "tensor_dim"}
    PROVE  DataBytes \in Int /\ DataBytes < cursor + ALIGN
  <1>1. file.nTensors = Len(layout) /\ file.alignment = ALIGN /\ file.size = Written.size
    BY DEF Fits, TensorCounts, Alignments, Sizes
  <1> DEFINE pad == AlignUp(cursor, ALIGN) - cursor
  <1>2. pad \in 0 .. ALIGN - 1 /\ DataBytes = (file.size - Written.size) + dataLen + pad
    BY <1>1, WholeData
  <1>3. Written.size \in Nat /\ dataLen \in Nat /\ cursor \in Nat /\ dataLen <= cursor
        /\ ALIGN \in Nat
    BY WrittenSize, WriterAssumption DEF Shaped, Placed
  <1> HIDE DEF pad
  <1> QED BY <1>1, <1>2, <1>3

LEMMA HugeOffsetIsPastEnd ==
    ASSUME Shaped, Listed, Placed, Complete, Fits(file, kind), Refusals = {}, doc = ParsedModel,
           kind = "tensor_offset"
    PROVE  PastData # {}
  <1>1. 1 \in Tensors /\ doc.tensors[1] = file.tensors[1]
    BY ReadBack, CompleteShape
  <1>2. PICK o \in HugeOffsets : file.tensors = [infos EXCEPT ![1].offset = o]
    BY DEF Fits, Tables
  <1>3. infos[1] \in Tensor /\ 1 \in DOMAIN infos /\ 1 \in 1..Len(infos)
    BY CompleteShape
  <1>4. /\ doc.tensors[1].offset = o /\ doc.tensors[1].nDims = infos[1].nDims
        /\ doc.tensors[1].dims = infos[1].dims /\ doc.tensors[1].type = infos[1].type
    BY <1>1, <1>2, <1>3 DEF Tensor
  <1>5. layout[1] \in Item /\ PartBytes(layout[1]) \in Nat \ {0}
    BY <1>3, RecordsOf
  <1>6. infos[1].nDims = NumDims /\ infos[1].dims = layout[1].dims /\ infos[1].type = layout[1].type
    BY <1>3 DEF Listed
  <1>7. doc.tensors[1] \in Tensor
    BY <1>1, ReadBack, TensorTyped
  <1>8. TensorBytes(doc.tensors[1]) = PartBytes(layout[1]) /\ 1 \in Sized
    BY <1>1, <1>4, <1>5, <1>6, <1>7, RecordedBytes DEF Unsized, Sized
  <1>9. End(1) = o + PartBytes(layout[1])
    BY <1>4, <1>8 DEF End, Offset
  <1>10. o \in Nat /\ cursor + ALIGN <= o
    <2>1. o \in Nat /\ \A i \in DOMAIN layout : o >= Len(layout) * (PartBytes(layout[i]) + ALIGN)
      BY MutationAssumption, ScaleAssumption DEF Complete
    <2> QED BY <2>1, OutOfScale
  <1>11. DataBytes \in Int /\ DataBytes < cursor + ALIGN
    BY DataIsShort
  <1>12. cursor \in Nat /\ ALIGN \in Nat
    BY WriterAssumption DEF Shaped
  <1>13. End(1) > DataBytes
    BY <1>5, <1>9, <1>10, <1>11, <1>12
  <1> QED BY <1>8, <1>13 DEF PastData

LEMMA HugeRowIsPastEnd ==
    ASSUME Shaped, Listed, Placed, Complete, Fits(file, kind), Refusals = {}, doc = ParsedModel,
           kind = "tensor_dim"
    PROVE  PastData # {}
  <1>1. 1 \in Tensors /\ doc.tensors[1] = file.tensors[1]
    BY ReadBack, CompleteShape
  <1>2. PICK n \in HugeDims : file.tensors = [infos EXCEPT ![1].dims[1] = n]
    BY DEF Fits, Tables
  <1>3. infos[1] \in Tensor /\ 1 \in DOMAIN infos /\ 1 \in 1..Len(infos)
    BY CompleteShape
  <1>4. layout[1] \in Item /\ PartBytes(layout[1]) \in Nat \ {0}
    BY <1>3, RecordsOf
  <1>5. infos[1].nDims = NumDims /\ infos[1].dims = layout[1].dims /\ infos[1].type = layout[1].type
    BY <1>3 DEF Listed
  <1> DEFINE t == doc.tensors[1]
             row == RowBytes(t.type, n)
  <1>6. t = [infos[1] EXCEPT !.dims = [infos[1].dims EXCEPT ![1] = n]]
    BY <1>1, <1>2, <1>3
  <1>7. t.type = infos[1].type /\ t.nDims = NumDims /\ t.dims = [infos[1].dims EXCEPT ![1] = n]
        /\ t.offset = infos[1].offset
    BY <1>3, <1>5, <1>6 DEF Tensor
  <1>8. infos[1].dims \in [1..4 -> Nat \ {0}]
    BY <1>4, <1>5, ItemTyped
  <1>9. t.dims[1] = n /\ t.dims[2] \in Nat \ {0} /\ t.dims[3] \in Nat \ {0} /\ t.dims[4] \in Nat \ {0}
        /\ t.dims[2] = infos[1].dims[2] /\ t.dims[3] = infos[1].dims[3] /\ t.dims[4] = infos[1].dims[4]
    BY <1>7, <1>8
  <1>10. KnownType(layout[1].type)
    BY <1>4, PartIsPositive DEF Unsized
  <1>11. n \in Nat /\ \A i \in DOMAIN layout : row >= Len(layout) * (PartBytes(layout[i]) + ALIGN)
    BY <1>5, <1>7, <1>10, MutationAssumption, ScaleAssumption DEF Complete
  <1>12. row \in Int /\ row > 0
    <2> DEFINE b == Len(layout) * (PartBytes(layout[1]) + ALIGN)
    <2>1. b \in Nat \ {0} /\ 1 \in DOMAIN layout
      <3>1. Len(layout) \in Nat \ {0} /\ PartBytes(layout[1]) + ALIGN \in Nat \ {0}
        BY <1>4, CompleteShape, WriterAssumption
      <3> QED BY <3>1, CompleteShape, PositiveProduct
    <2>2. row >= b
      BY <1>11, <2>1
    <2>3. row \in Int
      <3>1. CASE row = Unsized
        BY <3>1 DEF Unsized
      <3>2. CASE row # Unsized
        <4>1. KnownType(t.type) /\ row = (n \div TypeTable[t.type].blck) * TypeTable[t.type].size
          BY <3>2 DEF RowBytes
        <4>2. TypeTable[t.type].blck \in Nat \ {0} /\ TypeTable[t.type].size \in Nat
          BY <4>1, AuditAssumption DEF KnownType
        <4>3. n \div TypeTable[t.type].blck \in Nat
          BY <1>11, <4>2
        <4> QED BY <4>1, <4>2, <4>3, NatProduct
      <3> QED BY <3>1, <3>2
    <2> HIDE DEF row, b
    <2> QED BY <2>1, <2>2, <2>3
  <1> HIDE DEF row
  <1>13. ~Empty(t)
    <2>1. n # 0
      <3>1. ASSUME n = 0 PROVE FALSE
        <4>1. row = (0 \div TypeTable[t.type].blck) * TypeTable[t.type].size \/ row = Unsized
          BY <3>1 DEF row, RowBytes
        <4>2. row = (0 \div TypeTable[t.type].blck) * TypeTable[t.type].size
          BY <1>12, <4>1 DEF Unsized
        <4>3. TypeTable[t.type].blck \in Nat \ {0} /\ TypeTable[t.type].size \in Nat
          BY <1>5, <1>7, <1>10, AuditAssumption DEF KnownType
        <4>4. 0 \div TypeTable[t.type].blck = 0
          BY <4>3
        <4>5. row = 0
          BY <4>2, <4>3, <4>4
        <4> QED BY <1>12, <4>5
      <3> QED BY <3>1
    <2>2. \A k \in 1..NumDims : k = 1 \/ k = 2 \/ k = 3 \/ k = 4
      BY DEF NumDims
    <2> HIDE DEF t
    <2> QED BY <1>7, <1>9, <2>1, <2>2 DEF Empty
  <1>14. TensorBytes(t) = row * (t.dims[2] * t.dims[3] * t.dims[4]) /\ TensorBytes(t) >= row
         /\ TensorBytes(t) \in Nat \ {0}
    <2>1. row # Unsized
      BY <1>12 DEF Unsized
    <2>2. TensorBytes(t) = row * (t.dims[2] * t.dims[3] * t.dims[4])
      BY <1>9, <1>13, <2>1 DEF TensorBytes, row
    <2> DEFINE b == t.dims[2]
               c == t.dims[3]
               d == t.dims[4]
    <2>3. b \in Nat \ {0} /\ c \in Nat \ {0} /\ d \in Nat \ {0} /\ row \in Nat \ {0}
      BY <1>9, <1>12
    <2> HIDE DEF b, c, d
    <2>4. row * (b * c * d) >= row /\ row * (b * c * d) \in Nat \ {0}
      BY <2>3, RowTimesRows
    <2> QED BY <2>2, <2>4 DEF b, c, d
  <1>15. 1 \in Sized
    BY <1>1, <1>14 DEF Sized, Unsized
  <1>16. End(1) = infos[1].offset + TensorBytes(t) /\ infos[1].offset \in Nat
    BY <1>3, <1>7, RecordsOf DEF End, Offset
  <1>17. cursor + ALIGN <= row
    BY <1>11, <1>12, OutOfScale
  <1>18. DataBytes \in Int /\ DataBytes < cursor + ALIGN /\ cursor \in Nat /\ ALIGN \in Nat
    BY DataIsShort, WriterAssumption DEF Shaped
  <1> HIDE DEF t
  <1>19. End(1) > DataBytes
    BY <1>12, <1>14, <1>16, <1>17, <1>18
  <1> QED BY <1>15, <1>19 DEF PastData

LEMMA AppendedIsJunk ==
    ASSUME Shaped, Listed, Placed, Complete, Fits(file, kind), Refusals = {}, doc = ParsedModel,
           kind = "append"
    PROVE  HasJunk
  <1>1. file.nTensors = Len(layout) /\ file.alignment = ALIGN /\ file.tensors = infos
    BY DEF Fits, TensorCounts, Alignments, Tables
  <1>2. PICK n \in JunkSizes : file.size = Written.size + n
    BY DEF Fits, Sizes
  <1> DEFINE table == PaddedTable(TableEnd(Len(layout)))
             pad == AlignUp(cursor, ALIGN) - cursor
             gaps == Len(layout) * ALIGN
  <1>3. /\ doc.dataStart = table /\ doc.alignment = ALIGN /\ DataBytes = file.size - table
        /\ pad \in 0 .. ALIGN - 1 /\ DataBytes = (file.size - Written.size) + dataLen + pad
    BY <1>1, WholeData
  <1>4. Written.size \in Nat /\ dataLen \in Nat /\ cursor \in Nat /\ ALIGN \in Nat \ {0}
        /\ Len(layout) \in Nat /\ Len(infos) = Len(layout)
    BY WrittenSize, WriterAssumption, CompleteShape DEF Shaped
  <1>5. gaps \in Nat /\ cursor <= dataLen + gaps
    BY <1>4 DEF Placed
  <1>6. n \in Nat /\ n > JunkFloor + gaps /\ n > 4 * ALIGN + gaps
    <2>1. n > JunkFloor + Len(layout) * ALIGN /\ n > (4 + Len(layout)) * ALIGN
      BY CompleteShape, ScaleAssumption DEF Complete
    <2>2. (4 + Len(layout)) * ALIGN = 4 * ALIGN + gaps
      BY <1>4
    <2> QED BY <2>1, <2>2, MutationAssumption
  <1>7. DataBytes = n + dataLen + pad
    <2> DEFINE w == Written.size
    <2>1. w \in Nat /\ file.size = w + n
      BY <1>2, <1>4
    <2>2. (file.size - w) + dataLen + pad = n + dataLen + pad
      <3> HIDE DEF w, pad
      <3> QED BY <1>3, <1>4, <1>6, <2>1
    <2> QED BY <1>3, <2>2
  <1> HIDE DEF pad, gaps
  <1>8. JunkAllowance = JunkFloor \/ JunkAllowance = 4 * ALIGN
    BY <1>3 DEF JunkAllowance
  <1>9. JunkFloor \in Nat
    BY AuditAssumption
  <1>10. DataBytes - cursor > JunkAllowance
    <2> DEFINE allowed == JunkAllowance
               data == DataBytes
    <2>1. allowed \in Nat /\ n > allowed + gaps
      BY <1>4, <1>5, <1>6, <1>8, <1>9
    <2>2. pad \in Nat /\ data = n + dataLen + pad
      BY <1>3, <1>4, <1>7
    <2> HIDE DEF allowed, data
    <2>3. data - cursor > allowed
      BY <1>4, <1>5, <1>6, <2>1, <2>2
    <2> QED BY <2>3 DEF allowed, data
  <1>11. DataBytes \in Int /\ JunkAllowance \in Int
    <2>1. pad \in Nat
      BY <1>3, <1>4
    <2> QED BY <1>4, <1>6, <1>7, <1>8, <1>9, <2>1
  <1>12. ASSUME NEW i \in Tensors PROVE i \in Sized /\ DataBytes - End(i) > JunkAllowance
    <2>1. doc.tensors[i] = infos[i]
      BY <1>1, ReadBack
    <2>2. i \in Sized /\ End(i) \in Nat /\ End(i) <= cursor
      BY <2>1, UntouchedRecord
    <2> DEFINE allowed == JunkAllowance
               data == DataBytes
               e == End(i)
    <2>3. e \in Nat /\ e <= cursor /\ data \in Int /\ allowed \in Int /\ data - cursor > allowed
      BY <1>10, <1>11, <2>2
    <2> HIDE DEF allowed, data, e
    <2>4. data - e > allowed
      BY <1>4, <2>3
    <2> QED BY <2>2, <2>4 DEF allowed, data, e
  <1>13. Tensors # {} /\ Sized = Tensors
    BY <1>12, ReadBack, CompleteShape DEF Sized
  <1>14. doc.dataStart < doc.size
    <2>1. doc.size - doc.dataStart = n + dataLen + pad /\ doc.size \in Nat /\ doc.dataStart \in Nat
      BY <1>7, ReadBack DEF DataBytes, Document
    <2> HIDE DEF table
    <2> QED BY <1>3, <1>4, <1>6, <1>9, <1>5, <2>1
  <1> QED BY <1>12, <1>13, <1>14 DEF HasJunk

\* A cut into the data is past the end for the last tensor.
LEMMA CutDataIsPastEnd ==
    ASSUME Shaped, Listed, Placed, Complete, Fits(file, kind), Refusals = {}, doc = ParsedModel,
           kind = "truncate", file.size < PaddedTable(TableEnd(Len(layout))) + dataLen
    PROVE  PastData # {}
  <1> DEFINE n == Len(layout)
             table == PaddedTable(TableEnd(n))
  <1>1. file.nTensors = n /\ file.alignment = ALIGN /\ file.tensors = infos
    BY DEF Fits, TensorCounts, Alignments, Tables
  <1>2. table \in Nat /\ DataBytes = file.size - table
    BY <1>1, WholeData
  <1>3. n \in Tensors /\ doc.tensors[n] = infos[n]
    BY <1>1, ReadBack, CompleteShape
  <1>4. n \in Sized /\ End(n) = infos[n].offset + PartBytes(layout[n])
    BY <1>3, UntouchedRecord
  <1>5. infos # <<>> /\ Len(infos) = n
    BY CompleteShape
  <1>6. cursor = End(n)
    BY <1>4, <1>5 DEF Placed
  <1>7. dataLen <= cursor /\ dataLen \in Nat /\ cursor \in Nat /\ file.size \in Nat
    BY FieldsTyped DEF Placed, Shaped
  <1> HIDE DEF n, table
  <1>8. file.size < table + dataLen
    BY DEF n, table
  <1>9. End(n) > DataBytes
    BY <1>2, <1>6, <1>7, <1>8
  <1> QED BY <1>4, <1>9 DEF PastData

\* A count set too low leaves records where the padding should be.
LEMMA LowCountHidesRecords ==
    ASSUME Shaped, Listed, Placed, Complete, Fits(file, kind), Refusals = {}, doc = ParsedModel,
           kind = "count_tensors", file.nTensors < Len(layout), TableEnd(file.nTensors) % ALIGN # 0
    PROVE  HidesRecords
  <1> DEFINE e == TableEnd(file.nTensors)
             end == TableEnd(Len(layout))
             up == AlignUp(e, ALIGN)
  <1>1. file.alignment = ALIGN /\ file.size = Written.size /\ Written.size \in Nat
    BY WrittenSize DEF Fits, Alignments, Sizes
  <1>2. Usable = ALIGN
    BY <1>1, WriterAssumption DEF Usable
  <1>3. doc.metaEnd = e /\ doc.dataStart = up /\ doc.size = file.size
        /\ (doc.dirtyPadding <=> file.nTensors < Len(layout) /\ up # e)
    BY <1>2, ReadBack
  <1>4. e \in Nat /\ e <= end /\ end \in Nat
        /\ PaddedTable(end) + dataLen <= file.size
    <2>1. file.nTensors \in 1..Len(layout) /\ file \in File /\ file.size >= Written.size
      BY <1>1, AcceptedCounts, FieldsTyped
    <2> QED BY <2>1, Room
  <1>5. ALIGN \in Nat \ {0} /\ dataLen \in Nat /\ file.size \in Nat
    BY FieldsTyped, WriterAssumption DEF Shaped
  <1> HIDE DEF e, end
  <1>6. up \in Nat /\ up >= e /\ up % ALIGN = 0 /\ up <= AlignUp(end, ALIGN)
        /\ AlignUp(end, ALIGN) \in Nat
    BY <1>4, <1>5, RoundingBounds, RoundingAligns, RoundingIsMonotone
  <1>7. up # e
    BY <1>6 DEF e
  <1> HIDE DEF up
  <1>8. e < up /\ up <= file.size
    BY <1>4, <1>5, <1>6, <1>7 DEF PaddedTable
  <1> QED BY <1>3, <1>7, <1>8 DEF HidesRecords

\* An undamaged file of aligned parts is laid out as the format asks.
LEMMA AlignedFixtureIsPacked ==
    ASSUME Shaped, Listed, Placed, Complete, Fits(file, kind), Refusals = {}, doc = ParsedModel,
           kind = "none", AllAligned
    PROVE  Packed
  <1> DEFINE n == Len(layout)
             up == AlignUp(cursor, ALIGN)
  <1>1. file.nTensors = n /\ file.alignment = ALIGN /\ file.tensors = infos /\ file.size = Written.size
    BY DEF Fits, TensorCounts, Alignments, Tables, Sizes
  <1>2. /\ doc.alignment = ALIGN /\ up - cursor \in 0 .. ALIGN - 1
        /\ DataBytes = (file.size - Written.size) + dataLen + (up - cursor)
    BY <1>1, WholeData
  <1>3. /\ Tensors = 1..n /\ Len(doc.tensors) = n /\ n \in 1..n /\ n \in Nat
        /\ ~doc.dirtyPadding /\ doc.constantData = FALSE
        /\ \A i \in 1..n : doc.tensors[i] = infos[i]
    <2>1. n \in Nat \ {0}
      BY CompleteShape
    <2>2. /\ Tensors = 1..n /\ Len(doc.tensors) = n
          /\ doc.constantData = FALSE /\ \A i \in Tensors : doc.tensors[i] = infos[i]
      BY <1>1, ReadBack
    <2>3. ~doc.dirtyPadding
      <3>1. doc.dirtyPadding => n < n
        BY <1>1, ReadBack
      <3> HIDE DEF n
      <3> QED BY <2>1, <3>1
    <2> HIDE DEF n
    <2> QED BY <2>1, <2>2, <2>3
  <1>4. \A i \in 1..n : /\ i \in Sized /\ Offset(i) = infos[i].offset
                        /\ End(i) = infos[i].offset + PartBytes(layout[i])
    BY <1>3, UntouchedRecord
  <1>5. Sized = Tensors
    BY <1>3, <1>4 DEF Sized
  <1>6. ASSUME NEW i \in 1..n
        PROVE  Offset(i) = IF i = 1 THEN 0 ELSE AlignUp(End(i - 1), ALIGN)
    <2>1. infos[i].offset = IF i = 1 THEN 0
                            ELSE AlignUp(infos[i - 1].offset + PartBytes(layout[i - 1]), ALIGN)
      BY CompleteShape DEF Listed
    <2>2. i # 1 => i - 1 \in 1..n
      BY <1>3
    <2> HIDE DEF n
    <2> QED BY <1>4, <2>1, <2>2
  <1>7. cursor = End(n)
    <2>1. infos # <<>> /\ Len(infos) = n
      BY CompleteShape
    <2> QED BY <1>3, <1>4, <2>1 DEF Placed
  <1>8. DataBytes = up
    <2>1. dataLen = cursor /\ cursor \in Nat /\ ALIGN \in Nat \ {0} /\ Written.size \in Nat
      BY WrittenSize, WriterAssumption DEF Shaped, Placed
    <2>2. up \in Nat
      BY <2>1, RoundingBounds
    <2>3. file.size - Written.size = 0
      BY <1>1, <2>1
    <2> HIDE DEF up
    <2> QED BY <1>2, <2>1, <2>2, <2>3
  <1> QED BY <1>2, <1>3, <1>5, <1>6, <1>7, <1>8 DEF Packed

-----------------------------------------------------------------------------
(***************************************************************************)
(* The inductive invariant.                                                *)
(***************************************************************************)
Lived ==
    /\ stage # "audit" => doc = Nothing /\ rule = "unknown_types" /\ found = {} /\ layout # <<>>
    /\ stage \in {"write", "raised"} => kind = "none" /\ parsed = {}
    /\ stage = "written" => kind = "none"
    /\ stage \in {"written", "damaged"} => parsed = {}
    /\ stage \notin {"write", "raised"} /\ layout # <<>> => Complete /\ Fits(file, kind)
    /\ stage = "refused" => \E c \in Refusals : parsed = {c}
    /\ stage = "audit" /\ layout # <<>> => Refusals = {} /\ doc = ParsedModel /\ parsed = Recovered
    /\ layout = <<>> => stage = "audit" /\ kind = "none" /\ parsed = {}

Audited == IInv /\ Accused /\ PackedLayoutIsClean

WInv == Shaped /\ Listed /\ Placed /\ Lived /\ Audited

LEMMA NothingIsDocument == Nothing \in Document
  BY WriterAssumption DEF Nothing, Document

LEMMA FreshIsAudited == Fresh => Audited
  BY FreshSettles, FreshAccuses DEF Audited

LEMMA StepIsAudited == Audited /\ [Next]_vars => Audited'
  <1>1. IInv => TypeOK
    BY DEF IInv
  <1> QED BY <1>1, StepSettles, StepAccuses, PackedStaysClean DEF Audited

LEMMA WriterStarts == WriterInit => WInv
  <1> SUFFICES ASSUME WriterInit PROVE WInv
    OBVIOUS
  <1>1. /\ rule = "unknown_types" /\ found = {} /\ cursor = 0 /\ infos = <<>> /\ recordEnds = <<>>
        /\ dataLen = 0 /\ dataAt = <<>> /\ kind = "none" /\ parsed = {}
        /\ \/ stage = "audit" /\ doc \in Documents /\ layout = <<>>
           \/ stage = "write" /\ doc = Nothing /\ layout \in Layouts
    BY DEF WriterInit
  <1>2. layout \in Layouts => layout \in Seq(Item) /\ layout # <<>>
    BY WriterAssumption
  <1>3. Shaped
    <2>1. <<>> \in Seq(Tensor) /\ <<>> \in Seq(Nat) /\ Len(<<>>) = 0 /\ 0 \in Nat
      OBVIOUS
    <2>2. Len(layout) \in Nat
      BY <1>1, <1>2
    <2> QED BY <1>1, <2>1, <2>2 DEF Shaped, Stages
  <1>4. Listed
    BY <1>1 DEF Listed
  <1>5. Placed
    <2>1. ALIGN \in Nat \ {0} /\ 0 % ALIGN = 0 /\ Len(<<>>) = 0 /\ 0 * ALIGN = 0
      BY WriterAssumption
    <2> QED BY <1>1, <2>1 DEF Placed
  <1>6. Lived
    BY <1>1, <1>2 DEF Lived
  <1>7. Audited
    BY <1>1, NothingIsDocument, AuditAssumption, FreshIsAudited DEF Fresh
  <1> QED BY <1>3, <1>4, <1>5, <1>6, <1>7 DEF WInv

\* What was written stays as it was.
LEMMA WrittenPersists ==
    ASSUME UNCHANGED <<layout, cursor, infos, recordEnds, dataLen, dataAt>>
    PROVE  /\ Listed' <=> Listed
           /\ Placed' <=> Placed
           /\ Complete' <=> Complete
           /\ Written' = Written
           /\ (Shaped /\ stage' \in Stages) => Shaped'
  <1>1. AllAligned' <=> AllAligned
    BY DEF AllAligned
  <1>2. Listed' <=> Listed
    BY <1>1 DEF Listed
  <1>3. Placed' <=> Placed
    BY <1>1 DEF Placed
  <1>4. Written' = Written
    BY DEF Written, TableEnd
  <1> QED BY <1>2, <1>3, <1>4 DEF Complete, Shaped

LEMMA FitPersists ==
    ASSUME UNCHANGED <<layout, cursor, infos, recordEnds, dataLen, dataAt>>, Fits(file', kind')
    PROVE  Fits(file, kind)'
  <1>1. Written' = Written
    BY WrittenPersists
  <1> HIDE DEF Written
  <1> QED BY <1>1 DEF Fits, File, Kinds, Versions, Alignments, TensorCounts, KvCounts, Sizes, Tables

LEMMA JudgementPersists ==
    ASSUME UNCHANGED <<layout, recordEnds, file>>
    PROVE  Refusals' = Refusals /\ ParsedModel' = ParsedModel /\ Recovered' = Recovered
  <1>1. \A k : TableEnd(k)' = TableEnd(k)
    BY DEF TableEnd
  <1>2. Checks' = Checks
    BY <1>1 DEF Checks, MisreadTable
  <1>3. Refusals' = Refusals
    BY <1>2 DEF Refusals, FirstFailure
  <1> QED BY <1>1, <1>3 DEF ParsedModel, Usable, Recovered

LEMMA WriterStep == WInv /\ [WriterNext]_<<vars, writerVars>> => WInv'
  <1> SUFFICES ASSUME WInv, [WriterNext]_<<vars, writerVars>> PROVE WInv'
    OBVIOUS
  <1>0. Shaped /\ Listed /\ Placed /\ Lived /\ Audited
    BY DEF WInv
  <1>1. UNCHANGED vars => Audited'
    BY <1>0, StepIsAudited
  <1>2. layout # <<>> => layout \in Layouts
    BY <1>0 DEF Shaped
  <1> DEFINE plan == <<layout, cursor, infos, recordEnds, dataLen, dataAt>>
  <1>3. UNCHANGED plan /\ stage' \in Stages => Shaped' /\ Listed' /\ Placed'
    BY <1>0, WrittenPersists
  <1>4. CASE WriteTensor
    <2>1. stage = "write" /\ UNCHANGED <<vars, layout, file, kind, parsed>>
          /\ stage' \in {"write", "raised"}
      BY <1>4 DEF WriteTensor
    <2>2. Shaped' /\ Listed' /\ Placed'
      BY <1>0, <1>2, <1>4, <2>1, WritingKeepsPlace DEF Lived
    <2>3. Lived'
      BY <1>0, <2>1 DEF Lived, vars, Nothing
    <2> QED BY <1>1, <2>1, <2>2, <2>3 DEF WInv
  <1>5. CASE CloseFile
    <2>1. stage = "write" /\ stage' = "written" /\ file' = Written /\ Len(infos) = Len(layout)
          /\ UNCHANGED <<vars, plan, kind, parsed>>
      BY <1>5 DEF CloseFile
    <2>2. Shaped' /\ Listed' /\ Placed'
      BY <1>3, <2>1 DEF Stages
    <2>3. Complete /\ kind = "none" /\ parsed = {} /\ layout # <<>>
      BY <1>0, <1>2, <2>1 DEF Lived, Complete
    <2>4. Complete' /\ Fits(file, kind)'
      <3>1. Fits(file', kind')
        BY <1>0, <2>1, <2>3, WrittenFits
      <3> QED BY <2>1, <2>3, <3>1, FitPersists, WrittenPersists
    <2>5. Lived'
      BY <1>0, <2>1, <2>3, <2>4 DEF Lived, vars, Nothing
    <2> QED BY <1>1, <2>1, <2>2, <2>5 DEF WInv
  <1>6. CASE Damage
    <2>1. stage = "written" /\ stage' = "damaged" /\ UNCHANGED <<vars, plan, parsed>>
      BY <1>6 DEF Damage, Magic, Version, Alignment, KvType, CountTensors, CountKv, Truncate,
                  TruncatedHeader, AppendJunk, TensorType, TensorOffset, TensorDim, Zero, Mutate
    <2>2. Shaped' /\ Listed' /\ Placed'
      BY <1>3, <2>1 DEF Stages
    <2>3. Complete /\ kind = "none" /\ parsed = {} /\ layout # <<>> /\ Fits(file, kind)
      BY <1>0, <2>1 DEF Lived
    <2>4. Complete' /\ Fits(file, kind)'
      <3>1. Fits(file', kind')
        BY <1>0, <1>6, <2>3, MutationFits
      <3> QED BY <2>1, <2>3, <3>1, FitPersists, WrittenPersists
    <2>5. Lived'
      BY <1>0, <2>1, <2>3, <2>4 DEF Lived, vars, Nothing
    <2> QED BY <1>1, <2>1, <2>2, <2>5 DEF WInv
  <1>7. CASE Refuse
    <2>1. stage \in {"written", "damaged"} /\ stage' = "refused" /\ UNCHANGED <<vars, plan, file, kind>>
          /\ \E c \in Refusals : parsed' = {c}
      BY <1>7 DEF Refuse
    <2>2. Shaped' /\ Listed' /\ Placed'
      BY <1>3, <2>1 DEF Stages
    <2>3. Complete /\ layout # <<>> /\ Fits(file, kind)
      BY <1>0, <2>1 DEF Lived
    <2>4. Complete' /\ Fits(file, kind)'
      BY <2>1, <2>3, FitPersists, WrittenPersists
    <2>5. Refusals' = Refusals
      BY <2>1, JudgementPersists
    <2>6. Lived'
      BY <1>0, <2>1, <2>3, <2>4, <2>5 DEF Lived, vars, Nothing
    <2> QED BY <1>1, <2>1, <2>2, <2>6 DEF WInv
  <1>8. CASE Deliver
    <2>1. stage \in {"written", "damaged"} /\ stage' = "audit" /\ Refusals = {}
          /\ parsed' = Recovered /\ doc' = ParsedModel
          /\ UNCHANGED <<rule, found, plan, file, kind>>
      BY <1>8 DEF Deliver
    <2>2. Shaped' /\ Listed' /\ Placed'
      BY <1>3, <2>1 DEF Stages
    <2>3. Complete /\ layout # <<>> /\ Fits(file, kind) /\ rule = "unknown_types" /\ found = {}
      BY <1>0, <2>1 DEF Lived
    <2>4. Complete' /\ Fits(file, kind)'
      BY <2>1, <2>3, FitPersists, WrittenPersists
    <2>5. Refusals' = Refusals /\ ParsedModel' = ParsedModel /\ Recovered' = Recovered
      BY <2>1, JudgementPersists
    <2>6. Lived'
      BY <1>0, <2>1, <2>3, <2>4, <2>5 DEF Lived
    <2>7. Fresh'
      BY <1>0, <2>1, <2>3, ParsedShape DEF Fresh
    <2>8. Audited'
      BY <2>7, FreshIsAudited, PTL
    <2> QED BY <2>2, <2>6, <2>8 DEF WInv
  <1>9. CASE Audit
    <2>1. stage = "audit" /\ Next /\ UNCHANGED writerVars
      BY <1>9 DEF Audit
    <2>2. doc' = doc
      BY <2>1 DEF Next, vars, Done, UnknownTypes, OffsetsAndOverlaps, PastEof, PaddingZeroed,
             TrailingJunk, DegenerateData, Report
    <2>3. UNCHANGED <<plan, stage, file, kind, parsed>>
      BY <2>1 DEF writerVars
    <2>4. Shaped' /\ Listed' /\ Placed'
      BY <1>0, <1>3, <2>3 DEF Shaped
    <2>5. layout # <<>> => Complete' /\ Fits(file, kind)'
      BY <1>0, <2>1, <2>3, FitPersists, WrittenPersists DEF Lived
    <2>6. Refusals' = Refusals /\ ParsedModel' = ParsedModel /\ Recovered' = Recovered
      BY <2>3, JudgementPersists
    <2>7. Lived'
      BY <1>0, <2>1, <2>2, <2>3, <2>5, <2>6 DEF Lived
    <2>8. Audited'
      BY <1>0, <2>1, StepIsAudited
    <2> QED BY <2>4, <2>7, <2>8 DEF WInv
  <1>10. CASE UNCHANGED <<vars, writerVars>>
    <2>1. UNCHANGED <<plan, stage, file, kind, parsed>> /\ UNCHANGED vars
      BY <1>10 DEF writerVars
    <2>2. Shaped' /\ Listed' /\ Placed'
      BY <1>0, <1>3, <2>1 DEF Shaped
    <2>3. stage \notin {"write", "raised"} /\ layout # <<>> => Complete' /\ Fits(file, kind)'
      BY <1>0, <2>1, FitPersists, WrittenPersists DEF Lived
    <2>4. Refusals' = Refusals /\ ParsedModel' = ParsedModel /\ Recovered' = Recovered
      BY <2>1, JudgementPersists
    <2>5. Lived'
      BY <1>0, <2>1, <2>3, <2>4 DEF Lived, vars, Nothing
    <2> QED BY <1>1, <2>1, <2>2, <2>5 DEF WInv
  <1> QED BY <1>4, <1>5, <1>6, <1>7, <1>8, <1>9, <1>10 DEF WriterNext, Ended

LEMMA WriterLives == WriterSpec => []WInv
  BY WriterStarts, WriterStep, PTL DEF WriterSpec

-----------------------------------------------------------------------------
\* A file read to the end: accepted, audited, and every rule has had its say.
LEMMA AuditedToTheEnd ==
    ASSUME WInv, layout # <<>>, rule = "done"
    PROVE  /\ stage = "audit" /\ Complete /\ Fits(file, kind)
           /\ Refusals = {} /\ doc = ParsedModel /\ parsed = Recovered
           /\ Unknown # {} => Reported("E_BAD_TENSOR_TYPE")
           /\ HasJunk => Reported("W_TRAILING_JUNK")
           /\ PastData # {} => Reported("E_TENSOR_PAST_EOF")
           /\ HidesRecords => Reported("E_PADDING_NOT_ZERO")
  <1>1. stage = "audit"
    BY DEF WInv, Lived
  <1>2. Complete /\ Fits(file, kind) /\ Refusals = {} /\ doc = ParsedModel /\ parsed = Recovered
    BY <1>1 DEF WInv, Lived
  <1>3. Accused /\ EofSettled /\ PaddingSettled
    BY DEF WInv, Audited, IInv, Settled
  <1> QED BY <1>1, <1>2, <1>3 DEF Accused, EofSettled, PaddingSettled, AfterTypes, AfterOverlaps,
                                  AfterEof, AfterPadding, AfterJunk, Rules

\* A refused file.
LEMMA RefusedFile ==
    ASSUME WInv, stage = "refused"
    PROVE  /\ layout # <<>> /\ Complete /\ Fits(file, kind)
           /\ \E c \in Refusals : parsed = {c}
           /\ Refusals # {}
  BY DEF WInv, Lived

(***************************************************************************)
(* The writer's records and data keep their shape, and a refused file      *)
(* names one code, for all layouts and type tables.                        *)
(***************************************************************************)
THEOREM WriterTypeCorrect == WriterSpec => []WriterTypeOK
  <1>1. ASSUME WInv PROVE WriterTypeOK
    <2>1. Shaped /\ Listed /\ Placed
      BY <1>1 DEF WInv
    <2>2. stage \in Stages /\ layout \in Layouts \cup {<<>>} /\ Len(infos) = Len(dataAt)
          /\ Len(infos) <= Len(layout) /\ dataLen <= cursor
      BY <2>1 DEF Shaped, Placed
    <2>3. ASSUME NEW i \in DOMAIN infos
          PROVE  /\ infos[i] \in Tensor /\ dataAt[i] <= infos[i].offset
                 /\ i > 1 => infos[i].offset >= infos[i - 1].offset + PartBytes(infos[i - 1])
      <3>1. infos[i] \in Tensor /\ dataAt[i] <= infos[i].offset /\ i \in 1..Len(infos)
            /\ Len(infos) \in Nat
        BY <2>1, RecordsOf DEF Listed
      <3>2. ASSUME i > 1
            PROVE  infos[i].offset >= infos[i - 1].offset + PartBytes(infos[i - 1])
        <4>1. i - 1 \in 1..Len(infos) /\ i - 1 \in DOMAIN infos /\ i # 1
          BY <3>1, <3>2, RecordsOf, <2>1
        <4>2. infos[i].offset = AlignUp(infos[i - 1].offset + PartBytes(layout[i - 1]), ALIGN)
              /\ infos[i - 1].dims = layout[i - 1].dims /\ infos[i - 1].type = layout[i - 1].type
          BY <2>1, <4>1 DEF Listed
        <4>3. PartBytes(infos[i - 1]) = PartBytes(layout[i - 1])
          BY <4>2 DEF PartBytes
        <4>4. infos[i - 1].offset + PartBytes(layout[i - 1]) \in Nat
          <5>1. infos[i - 1].offset \in Nat /\ PartBytes(layout[i - 1]) \in Nat
            BY <2>1, <4>1, RecordsOf
          <5> QED BY <5>1
        <4>5. infos[i].offset >= infos[i - 1].offset + PartBytes(layout[i - 1])
          BY <4>2, <4>4, RoundingBounds, WriterAssumption
        <4> QED BY <4>3, <4>5
      <3> QED BY <3>1, <3>2
    <2>4. stage = "refused" => Cardinality(parsed) = 1
      <3>1. ASSUME stage = "refused" PROVE Cardinality(parsed) = 1
        <4>1. PICK c \in Refusals : parsed = {c}
          BY <1>1, <3>1, RefusedFile
        <4> QED BY <4>1, FS_Singleton
      <3> QED BY <3>1
    <2> QED BY <2>2, <2>3, <2>4 DEF WriterTypeOK, Stages
  <1> QED BY <1>1, WriterLives, PTL

(***************************************************************************)
(* Every corruption class with a detector in tests/_shared.py is detected, *)
(* in every model the writer can write and for every value mutate may      *)
(* draw: no earlier check of the parser answers with another code, and no  *)
(* rule abstains.                                                          *)
(***************************************************************************)
THEOREM StrongClassesCaught == WriterSpec => []StrongClassesAreCaught
  <1>1. ASSUME WInv, Scanned, kind \in DOMAIN Wanted PROVE Reports \cap Wanted[kind] # {}
    <2>1. Shaped /\ Listed /\ Placed /\ Lived
      BY <1>1 DEF WInv
    <2>2. layout # <<>>
      BY <1>1, <2>1 DEF Lived, Wanted
    <2>3. Complete /\ Fits(file, kind)
      BY <1>1, <2>2, AuditedToTheEnd, RefusedFile DEF Scanned
    <2>4. ASSUME NEW c, Refusals = {c} PROVE c \in Reports
      <3>1. stage = "refused"
        BY <1>1, <2>2, <2>4, AuditedToTheEnd DEF Scanned
      <3>2. parsed = {c}
        BY <1>1, <2>4, <3>1, RefusedFile
      <3> QED BY <3>2 DEF Reports
    <2>5. ASSUME Refusals = {}
          PROVE  /\ rule = "done" /\ doc = ParsedModel /\ parsed = Recovered
                 /\ Unknown # {} => Reported("E_BAD_TENSOR_TYPE")
                 /\ HasJunk => Reported("W_TRAILING_JUNK")
                 /\ PastData # {} => Reported("E_TENSOR_PAST_EOF")
      <3>1. rule = "done"
        BY <1>1, <2>5, RefusedFile DEF Scanned
      <3> QED BY <1>1, <2>2, <3>1, AuditedToTheEnd
    <2>6. \A c : Reported(c) => c \in Reports
      BY DEF Reports, Reported
    <2>7. CASE kind = "magic"
      <3>1. "E_MAGIC" \in Reports
        BY <2>1, <2>3, <2>4, <2>7, BadMagicIsRefused
      <3> QED BY <2>7, <3>1 DEF Wanted
    <2>8. CASE kind = "version"
      <3>1. "E_VERSION" \in Reports
        BY <2>1, <2>3, <2>4, <2>8, BadVersionIsRefused
      <3> QED BY <2>8, <3>1 DEF Wanted
    <2>9. CASE kind = "kv_type"
      <3>1. "E_BAD_KV_TYPE" \in Reports
        BY <2>1, <2>3, <2>4, <2>9, BadKvTypeIsRefused
      <3> QED BY <2>9, <3>1 DEF Wanted
    <2>10. CASE kind = "truncated_header"
      <3>1. "E_TRUNCATED_HEADER" \in Reports
        BY <2>3, <2>4, <2>10, CutHeaderIsRefused
      <3> QED BY <2>10, <3>1 DEF Wanted
    <2>11. CASE kind = "tensor_type"
      <3>1. Refusals = {}
        BY <2>1, <2>3, <2>11, LetThrough
      <3>2. Unknown # {}
        BY <2>1, <2>3, <2>5, <2>11, <3>1, BadTypeIsUnknown
      <3>3. "E_BAD_TENSOR_TYPE" \in Reports
        BY <2>5, <2>6, <3>1, <3>2
      <3> QED BY <2>11, <3>3 DEF Wanted
    <2>12. CASE kind = "tensor_offset"
      <3>1. Refusals = {}
        BY <2>1, <2>3, <2>12, LetThrough
      <3>2. PastData # {}
        BY <2>1, <2>3, <2>5, <2>12, <3>1, HugeOffsetIsPastEnd
      <3>3. "E_TENSOR_PAST_EOF" \in Reports
        BY <2>5, <2>6, <3>1, <3>2
      <3> QED BY <2>12, <3>3 DEF Wanted
    <2>13. CASE kind = "tensor_dim"
      <3>1. Refusals = {}
        BY <2>1, <2>3, <2>13, LetThrough
      <3>2. PastData # {}
        BY <2>1, <2>3, <2>5, <2>13, <3>1, HugeRowIsPastEnd
      <3>3. "E_TENSOR_PAST_EOF" \in Reports
        BY <2>5, <2>6, <3>1, <3>2
      <3> QED BY <2>13, <3>3 DEF Wanted
    <2>14. CASE kind = "append"
      <3>1. Refusals = {}
        BY <2>1, <2>3, <2>14, LetThrough
      <3>2. HasJunk
        BY <2>1, <2>3, <2>5, <2>14, <3>1, AppendedIsJunk
      <3>3. "W_TRAILING_JUNK" \in Reports
        BY <2>5, <2>6, <3>1, <3>2
      <3> QED BY <2>14, <3>3 DEF Wanted
    <2>15. ASSUME Refusals = {}, ~PowerOfTwo(file.alignment) PROVE "W_NO_ALIGNMENT" \in Reports
      BY <2>5, <2>15 DEF Recovered, Reports
    <2>16. CASE kind = "alignment"
      <3>1. Refusals = {}
        BY <2>1, <2>3, <2>16, LetThrough
      <3>2. ~PowerOfTwo(file.alignment)
        BY <2>3, <2>16, MutationAssumption DEF Fits, Alignments
      <3> QED BY <2>15, <2>16, <3>1, <3>2 DEF Wanted
    <2>17. CASE kind = "zero"
      <3>1. CASE file.version = 0
        <4>1. "E_VERSION" \in Reports
          BY <2>1, <2>3, <2>4, <2>17, <3>1, BadVersionIsRefused
        <4> QED BY <2>17, <4>1 DEF Wanted
      <3>2. CASE file.version # 0
        <4>1. Refusals = {}
          BY <2>1, <2>3, <2>17, <3>2, LetThrough
        <4>2. file.alignment = 0
          BY <2>3, <2>17, <3>2 DEF Fits
        <4>3. ~PowerOfTwo(file.alignment)
          BY <4>2 DEF PowerOfTwo
        <4> QED BY <2>15, <2>17, <4>1, <4>3 DEF Wanted
      <3> QED BY <3>1, <3>2
    <2> QED BY <1>1, <2>7, <2>8, <2>9, <2>10, <2>11, <2>12, <2>13, <2>14, <2>16, <2>17 DEF Wanted
  <1>2. WInv => StrongClassesAreCaught
    BY <1>1 DEF StrongClassesAreCaught
  <1> QED BY <1>2, WriterLives, PTL

(***************************************************************************)
(* A cut that takes a byte of a tensor is never overlooked, and neither is *)
(* a count of tensors set too low unless the shortened table happens to    *)
(* end on the alignment.                                                   *)
(***************************************************************************)
THEOREM LostTensorsReported == WriterSpec => []LostTensorsAreReported
  <1>1. ASSUME WInv, Scanned, kind = "truncate", stage # "refused",
               file.size < PaddedTable(TableEnd(Len(layout))) + dataLen
        PROVE  Reported("E_TENSOR_PAST_EOF")
    <2>1. Shaped /\ Listed /\ Placed /\ layout # <<>> /\ rule = "done"
      BY <1>1 DEF WInv, Lived, Scanned
    <2>2. Complete /\ Fits(file, kind) /\ Refusals = {} /\ doc = ParsedModel
      BY <1>1, <2>1, AuditedToTheEnd
    <2> QED BY <1>1, <2>1, <2>2, AuditedToTheEnd, CutDataIsPastEnd
  <1>2. ASSUME WInv, Scanned, kind = "count_tensors", file.nTensors < Len(layout),
               TableEnd(file.nTensors) % ALIGN # 0
        PROVE  Reported("E_PADDING_NOT_ZERO")
    <2>1. Shaped /\ Listed /\ Placed /\ layout # <<>>
      BY <1>2 DEF WInv, Lived
    <2>2. Complete /\ Fits(file, kind)
      BY <1>2, <2>1, AuditedToTheEnd, RefusedFile DEF Scanned
    <2>3. file.nTensors <= Len(layout)
      <3>1. file.nTensors \in Nat /\ Len(layout) \in Nat
        BY <2>1, <2>2, FieldsTyped, CompleteShape
      <3> QED BY <1>2, <3>1
    <2>4. Refusals = {}
      BY <1>2, <2>1, <2>2, <2>3, LetThrough
    <2>5. rule = "done"
      BY <1>2, <2>4, RefusedFile DEF Scanned
    <2>6. doc = ParsedModel
      BY <1>2, <2>1, <2>5, AuditedToTheEnd
    <2>7. HidesRecords
      BY <1>2, <2>1, <2>2, <2>4, <2>6, LowCountHidesRecords
    <2> QED BY <1>2, <2>1, <2>5, <2>7, AuditedToTheEnd
  <1>3. WInv => LostTensorsAreReported
    BY <1>1, <1>2 DEF LostTensorsAreReported
  <1> QED BY <1>3, WriterLives, PTL

(***************************************************************************)
(* Layouts of aligned parts are written soundly and scanned without a      *)
(* finding: the part of the promise of tests/test_roundtrip.py that holds, *)
(* for every such layout.                                                  *)
(***************************************************************************)
THEOREM AlignedFixturesSound == WriterSpec => []AlignedFixturesAreSound
  <1>1. ASSUME WInv, Scanned, kind = "none", layout # <<>>, AllAligned
        PROVE  Reports = {} /\ \A i \in DOMAIN infos : dataAt[i] = infos[i].offset
    <2>1. Shaped /\ Listed /\ Placed /\ PackedLayoutIsClean
      BY <1>1 DEF WInv, Audited
    <2>2. Complete /\ Fits(file, kind)
      BY <1>1, AuditedToTheEnd, RefusedFile DEF Scanned
    <2>3. Refusals = {}
      BY <1>1, <2>1, <2>2, LetThrough
    <2>4. rule = "done"
      BY <1>1, <2>3, RefusedFile DEF Scanned
    <2>5. doc = ParsedModel /\ parsed = Recovered
      BY <1>1, <2>4, AuditedToTheEnd
    <2>6. Packed
      BY <1>1, <2>1, <2>2, <2>3, <2>5, AlignedFixtureIsPacked
    <2>7. Codes = {}
      BY <2>1, <2>6 DEF PackedLayoutIsClean, Codes
    <2>8. parsed = {}
      <3>1. file.alignment = ALIGN
        BY <1>1, <2>2 DEF Fits, Alignments
      <3> QED BY <2>5, <3>1, WriterAssumption DEF Recovered
    <2>9. \A i \in DOMAIN infos : dataAt[i] = infos[i].offset
      BY <1>1, <2>1 DEF Listed
    <2> QED BY <2>7, <2>8, <2>9 DEF Reports
  <1>2. WInv => AlignedFixturesAreSound
    BY <1>1 DEF AlignedFixturesAreSound, AllAligned
  <1> QED BY <1>2, WriterLives, PTL

(***************************************************************************)
(* What TensorAudit promises of the rules holds of the documents the       *)
(* parser reads back from written and damaged files as well.               *)
(***************************************************************************)
THEOREM WrittenFilesAreAudited ==
    WriterSpec => [](/\ TypeOK /\ OverlapsReported
                     /\ CleanLayoutIsReadable /\ PackedLayoutIsClean)
  <1>1. WInv => /\ TypeOK /\ OverlapsReported
                /\ CleanLayoutIsReadable /\ PackedLayoutIsClean
    BY SettledOverlaps, SettledIsReadable DEF WInv, Audited, IInv
  <1> QED BY <1>1, WriterLives, PTL
=============================================================================
