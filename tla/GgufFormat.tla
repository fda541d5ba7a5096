----------------------------- MODULE GgufFormat -----------------------------
(***************************************************************************)
(* What the modules share of the container format: the value types of      *)
(* key/value pairs with the width of their scalars, and the rounding of    *)
(* positions to the alignment.                                             *)
(***************************************************************************)
EXTENDS Integers

(* Value types: 0-6 and 10-12 are the numbers, 7 bool, 8 string, 9 array.   *)

Bool == 7
Str == 8
Array == 9
UnsignedTypes == {0, 2, 4, 10}
SignedTypes == {1, 3, 5, 11}
FloatTypes == {6, 12}
ScalarTypes == UnsignedTypes \cup SignedTypes \cup FloatTypes \cup {Bool}
ValueTypes == ScalarTypes \cup {Str, Array}

ScalarBytes(t) ==
    IF t \in {0, 1, Bool} THEN 1 ELSE IF t \in {2, 3} THEN 2
    ELSE IF t \in {4, 5, 6} THEN 4 ELSE 8

\* n & (n - 1) = 0: every divisor of n but 1 is even.
PowerOfTwo(n) == n > 0 /\ \A d \in 1..n : n % d = 0 => d = 1 \/ d % 2 = 0

\* 2^k.
TwoTo[k \in Nat] == IF k = 0 THEN 1 ELSE 2 * TwoTo[k - 1]

\* Mutation: an aligned position is padded by a whole block.
AlignUpAlways(p, a) == p + (a - (p % a))

AlignUp(p, a) ==
    IF a <= 0 \/ p % a = 0 THEN p ELSE p + (a - (p % a))
=============================================================================
