------------------------------- MODULE MCFuzz -------------------------------
(***************************************************************************)
(* Payloads for TLC, with the real sizes: 116960 bytes is what build_model *)
(* writes for _default_spec, "append" adds at least 1200000 to it, and     *)
(* "truncate" leaves fewer.  Two payloads of one kind and seed differ in   *)
(* the flipped byte; the scanner may treat them differently.               *)
(***************************************************************************)
EXTENDS Fuzz

CONSTANT MCKinds

MCPayloads == [kind : MCKinds, seed : {7}, flipped : BOOLEAN]
MCSizes == [magic |-> 116960, truncate |-> 70000, truncated_header |-> 9, append |-> 116960 + 1200000]
MCSize == [p \in MCPayloads |-> MCSizes[p.kind]]
MCScans == {[p \in MCPayloads |-> IF p.flipped THEN f ELSE g] : f \in Outcomes, g \in Outcomes}
=============================================================================
