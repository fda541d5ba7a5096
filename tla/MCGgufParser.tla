---------------------------- MODULE MCGgufParser ----------------------------
(***************************************************************************)
(* Instances of GgufParser for TLC.  Widths are real; the sign bit, the    *)
(* sanity ceiling and the chunk limit are scaled so that a file of at most *)
(* a hundred bytes can meet each of them.                                  *)
(***************************************************************************)
EXTENDS GgufParser

LOCAL INSTANCE Bitwise

MCTextLen == [t \in Texts |-> IF t = AlignKey THEN 2 ELSE IF t = "a" THEN 1 ELSE 0]
MCInts == {-1, 3, 8}
MCEverySize == 0..72

\* PowerOfTwo is the bit trick of the code: declared & (declared - 1) == 0.
ASSUME PowerOfTwoIsBitTrick == \A n \in 1..130 : PowerOfTwo(n) <=> n & (n - 1) = 0

=============================================================================
