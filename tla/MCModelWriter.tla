--------------------------- MODULE MCModelWriter ---------------------------
(***************************************************************************)
(* Documents for TLC: up to three tensors of every kind the rules tell     *)
(* apart, at offsets where they touch, overlap, contain one another, are   *)
(* unaligned or leave the file.  Widths and block sizes are real; the      *)
(* alignment and the two floors are scaled to the few bytes of the data.   *)
(* Written files have up to MCMaxItems tensors of 8, 4, 18 or no bytes,    *)
(* with names of two lengths, one of which ends a record on the alignment. *)
(***************************************************************************)
EXTENDS ModelWriter, TLC

CONSTANTS MCOffsets, MCDataBytes, MCMaxTensors, MCMaxItems

F32 == 0
Q4_0 == 2
MCTypeTable == (F32 :> [blck |-> 1, size |-> 4]) @@ (Q4_0 :> [blck |-> 32, size |-> 18])

\* 8, 16 and 18 bytes; a broken row; an empty tensor; an unknown type.
MCShapes ==
    {[type |-> F32, nDims |-> 1, dims |-> <<2, 1, 1, 1>>],
     [type |-> F32, nDims |-> 2, dims |-> <<2, 2, 1, 1>>],
     [type |-> Q4_0, nDims |-> 1, dims |-> <<32, 1, 1, 1>>],
     [type |-> Q4_0, nDims |-> 1, dims |-> <<8, 1, 1, 1>>],
     [type |-> F32, nDims |-> 2, dims |-> <<2, 0, 1, 1>>],
     [type |-> 99, nDims |-> 1, dims |-> <<2, 1, 1, 1>>]}

MCTensors ==
    {[type |-> s.type, nDims |-> s.nDims, dims |-> s.dims, offset |-> o] :
        s \in MCShapes, o \in MCOffsets}

MCTables(n) == UNION {[1..k -> MCTensors] : k \in 0..n}

MCDocument(tensors, dataBytes, dirty, constant) ==
    LET start == IF tensors = <<>> THEN 36 ELSE 40
    IN  [size |-> start + dataBytes, metaEnd |-> 36, dataStart |-> start, alignment |-> 8,
         tensors |-> tensors, dirtyPadding |-> dirty, constantData |-> constant]

\* Dirty padding and constant data matter beside at most one tensor; the last
\* set ends inside the padding.
MCDocuments ==
    {MCDocument(t, n, FALSE, FALSE) : t \in MCTables(MCMaxTensors), n \in MCDataBytes}
        \cup {MCDocument(t, n, d, c) :
                 t \in MCTables(1), n \in MCDataBytes, d \in BOOLEAN, c \in BOOLEAN}
        \cup {[MCDocument(t, 0, TRUE, FALSE) EXCEPT !.size = 38] : t \in MCTables(1) \ {<<>>}}

MCItems ==
    {[nameLen |-> n, dims |-> s.dims, type |-> s.type] :
        n \in {16, 17},
        s \in {[type |-> F32, dims |-> <<2, 1, 1, 1>>], [type |-> F32, dims |-> <<1, 1, 1, 1>>],
               [type |-> Q4_0, dims |-> <<32, 1, 2, 1>>], [type |-> Q4_0, dims |-> <<32, 2, 2, 1>>]}}

MCUnsizedItem == [nameLen |-> 16, dims |-> <<8, 1, 1, 1>>, type |-> Q4_0]

MCLayouts ==
    UNION {[1..k -> MCItems] : k \in 1..MCMaxItems}
        \cup {<<i, i, i>> : i \in MCItems} \cup {<<i, MCUnsizedItem>> : i \in MCItems}
=============================================================================
