---------------------------- MODULE RecordStream ----------------------------
(***************************************************************************)
(* What a GGUF parser promises of a file's tables, whatever its layout:    *)
(* the header announces how many key/value pairs and tensor infos follow,  *)
(* they are taken one at a time in file order, each costs at least the     *)
(* bytes of its smallest encoding, and the file is in the end delivered    *)
(* whole or refused, with nothing delivered.  A decision is final.         *)
(***************************************************************************)
EXTENDS Integers

VARIABLES
    size,           \* bytes of the file
    stage,          \* header, tables, whole or refused
    kvLeft,         \* key/value pairs announced and not yet taken
    tensorsLeft,    \* tensor infos announced and not yet taken
    spent           \* bytes of the header and of the records taken

vars == <<size, stage, kvLeft, tensorsLeft, spent>>

HeaderCost == 24
KvCost == 13        \* empty key, type tag, one-byte value
TensorCost == 32    \* empty name, one dimension

Init ==
    /\ size \in Nat
    /\ stage = "header"
    /\ kvLeft = 0 /\ tensorsLeft = 0 /\ spent = 0

Pay(cost) == spent' >= spent + cost /\ spent' <= size

Announce ==
    /\ stage = "header"
    /\ stage' = "tables"
    /\ kvLeft' \in Nat /\ tensorsLeft' \in Nat
    /\ spent' = HeaderCost /\ HeaderCost <= size
    /\ UNCHANGED size

TakeKv ==
    /\ stage = "tables"
    /\ kvLeft > 0
    /\ kvLeft' = kvLeft - 1
    /\ Pay(KvCost)
    /\ UNCHANGED <<size, stage, tensorsLeft>>

TakeTensor ==
    /\ stage = "tables"
    /\ kvLeft = 0
    /\ tensorsLeft > 0
    /\ tensorsLeft' = tensorsLeft - 1
    /\ Pay(TensorCost)
    /\ UNCHANGED <<size, stage, kvLeft>>

Deliver ==
    /\ stage = "tables"
    /\ kvLeft = 0 /\ tensorsLeft = 0
    /\ stage' = "whole"
    /\ UNCHANGED <<size, kvLeft, tensorsLeft, spent>>

Refuse ==
    /\ stage \in {"header", "tables"}
    /\ stage' = "refused"
    /\ kvLeft' = 0 /\ tensorsLeft' = 0 /\ spent' = 0
    /\ UNCHANGED size

Next == Announce \/ TakeKv \/ TakeTensor \/ Deliver \/ Refuse

Spec == Init /\ [][Next]_vars
=============================================================================
