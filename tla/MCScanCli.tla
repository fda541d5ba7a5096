------------------------------ MODULE MCScanCli ------------------------------
(***************************************************************************)
(* Two files, every state of each, command lines of up to MCMaxPaths paths *)
(* that may name a file twice.                                             *)
(***************************************************************************)
EXTENDS ScanCli

CONSTANT MCMaxPaths

MCCommandLines == UNION {[1..n -> Names] : n \in 1..MCMaxPaths}
=============================================================================
