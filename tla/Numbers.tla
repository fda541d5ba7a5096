------------------------------ MODULE Numbers ------------------------------
(***************************************************************************)
(* Facts about natural numbers the proofs share.                           *)
(*                                                                         *)
(* Smallest and largest members follow from the order of the natural       *)
(* numbers being well-founded, and stand in for induction: a smallest      *)
(* counterexample is refuted by its predecessor.  Functions recursive on   *)
(* the natural numbers exist for the same reason.  Then what rounding up   *)
(* to an alignment does, and which numbers are powers of two.              *)
(***************************************************************************)
EXTENDS GgufFormat, TLAPS, WellFoundedInduction

Smaller == {pair \in Nat \X Nat : pair[1] < pair[2]}

LEMMA SmallestExists ==
    ASSUME NEW T \in SUBSET Nat, T # {}
    PROVE  \E x \in T : \A y \in T : x <= y
<1>1. IsWellFoundedOn(Smaller, Nat)
    BY NatLessThanWellFounded DEF OpToRel, Smaller
<1>2. PICK x \in T : \A y \in T : <<y, x>> \notin Smaller
    BY <1>1, WFMin
<1>3. ASSUME NEW y \in T
      PROVE  x <= y
  <2>1. <<y, x>> \notin Smaller
      BY <1>2
  <2> QED
      BY <2>1 DEF Smaller
<1> QED
    BY <1>3

LEMMA LargestExists ==
    ASSUME NEW n \in Nat \ {0}, NEW f \in [1..n -> Int]
    PROVE  \E k \in 1..n : \A j \in 1..n : f[j] <= f[k]
<1> DEFINE Good(m) == \E k \in 1..m : \A j \in 1..m : f[j] <= f[k]
           T == {m \in 1..n : ~Good(m)}
<1>1. SUFFICES ASSUME T # {} PROVE FALSE
  <2>1. n \in 1..n
      OBVIOUS
  <2>2. n \notin T
      BY <1>1
  <2> QED
      BY <2>1, <2>2
<1>2. PICK m \in T : \A y \in T : m <= y
  <2>1. T \in SUBSET Nat
      OBVIOUS
  <2> HIDE DEF T
  <2> QED
      BY <2>1, <1>1, SmallestExists
<1>3. m # 1
  <2>1. Good(1)
      OBVIOUS
  <2> QED
      BY <2>1
<1>4. m \in 2..n
    BY <1>3
<1>5. Good(m - 1)
  <2>1. m - 1 \notin T
    <3> HIDE DEF T
    <3> QED
        BY <1>2, <1>4
  <2>2. m - 1 \in 1..n
      BY <1>4
  <2> HIDE DEF Good
  <2> QED
      BY <2>1, <2>2
<1>6. PICK k \in 1 .. m - 1 : \A j \in 1 .. m - 1 : f[j] <= f[k]
    BY <1>5
<1>7. \A j \in 1..m : j \in 1 .. m - 1 \/ j = m
    BY <1>4
<1>8. Good(m)
  <2>1. CASE f[m] <= f[k]
    <3>1. k \in 1..m /\ \A j \in 1..m : f[j] <= f[k]
        BY <1>4, <1>6, <1>7, <2>1
    <3> QED
        BY <3>1
  <2>2. CASE ~(f[m] <= f[k])
    <3>1. m \in 1..m /\ \A j \in 1..m : f[j] <= f[m]
        BY <1>4, <1>6, <1>7, <2>2
    <3> QED
        BY <3>1
  <2> QED
      BY <2>1, <2>2
<1> QED
    BY <1>8

-----------------------------------------------------------------------------
(***************************************************************************)
(* A function is defined by what it is at 0 and how it goes on: unique     *)
(* beginnings of every length agree, and their last values make it up.     *)
(***************************************************************************)
Begins(S, base, step, n, g) ==
    /\ g \in [0..n -> S] /\ g[0] = base
    /\ \A k \in 0 .. n - 1 : g[k + 1] = step[<<k, g[k]>>]

Recursive(S, base, step, f) ==
    /\ f \in [Nat -> S] /\ f[0] = base
    /\ \A k \in Nat : f[k + 1] = step[<<k, f[k]>>]

LEMMA BeginningsExist ==
    ASSUME NEW S, NEW base \in S, NEW step \in [Nat \X S -> S], NEW n \in Nat
    PROVE  \E g : Begins(S, base, step, n, g)
<1> DEFINE Good(m) == \E g : Begins(S, base, step, m, g)
           T == {m \in Nat : ~Good(m)}
<1>1. SUFFICES ASSUME T # {} PROVE FALSE
    OBVIOUS
<1>2. PICK m \in T : \A y \in T : m <= y
  <2> HIDE DEF T
  <2>1. T \in SUBSET Nat
      BY DEF T
  <2> QED
      BY <1>1, <2>1, SmallestExists
<1>3. m \in Nat /\ ~Good(m)
    OBVIOUS
<1>4. m # 0
  <2> DEFINE g == [k \in 0..0 |-> base]
  <2>1. g \in [0..0 -> S] /\ g[0] = base /\ 0 .. 0 - 1 = {}
      OBVIOUS
  <2> HIDE DEF g
  <2>2. Begins(S, base, step, 0, g)
      BY <2>1 DEF Begins
  <2> QED
      BY <1>3, <2>2
<1>5. PICK h : Begins(S, base, step, m - 1, h)
  <2>1. m - 1 \in Nat /\ m - 1 < m
      BY <1>3, <1>4
  <2>2. m - 1 \notin T
    <3> HIDE DEF T
    <3> QED
        BY <1>2, <1>3, <2>1
  <2>3. Good(m - 1)
      BY <2>1, <2>2
  <2> QED
      BY <2>3
<1> DEFINE g == [k \in 0..m |-> IF k < m THEN h[k] ELSE step[<<m - 1, h[m - 1]>>]]
<1>6. /\ h \in [0 .. m - 1 -> S] /\ h[0] = base
      /\ \A k \in 0 .. m - 2 : h[k + 1] = step[<<k, h[k]>>]
  <2>1. (m - 1) - 1 = m - 2
      BY <1>3
  <2> QED
      BY <1>5, <2>1 DEF Begins
<1>7. h[m - 1] \in S /\ step[<<m - 1, h[m - 1]>>] \in S /\ m - 1 \in Nat
  <2>1. m - 1 \in 0 .. m - 1 /\ m - 1 \in Nat
      BY <1>3, <1>4
  <2>2. h[m - 1] \in S
      BY <1>6, <2>1
  <2>3. <<m - 1, h[m - 1]>> \in Nat \X S
      BY <2>1, <2>2
  <2> QED
      BY <2>1, <2>2, <2>3
<1>8. g \in [0..m -> S]
  <2>1. ASSUME NEW k \in 0..m, k < m PROVE h[k] \in S
    <3>1. k \in 0 .. m - 1
        BY <1>3, <2>1
    <3> QED
        BY <1>6, <3>1
  <2> QED
      BY <1>7, <2>1
<1>9. g[0] = base
    BY <1>3, <1>4, <1>6
<1>10. ASSUME NEW k \in 0 .. m - 1
       PROVE  g[k + 1] = step[<<k, g[k]>>]
  <2>1. k \in 0..m /\ k < m /\ k + 1 \in 0..m
      BY <1>3
  <2>2. g[k] = h[k]
      BY <2>1
  <2>3. CASE k + 1 < m
    <3>1. k \in 0 .. m - 2
        BY <1>3, <2>3
    <3>2. g[k + 1] = h[k + 1]
        BY <2>1, <2>3
    <3> HIDE DEF g
    <3> QED
        BY <1>6, <2>2, <3>1, <3>2
  <2>4. CASE ~(k + 1 < m)
    <3>1. k = m - 1
        BY <1>3, <2>4
    <3>2. g[k + 1] = step[<<m - 1, h[m - 1]>>]
        BY <2>1, <2>4
    <3> HIDE DEF g
    <3> QED
        BY <2>2, <3>1, <3>2
  <2> QED
      BY <2>3, <2>4
<1> HIDE DEF g
<1>11. Begins(S, base, step, m, g)
    BY <1>8, <1>9, <1>10 DEF Begins
<1> QED
    BY <1>3, <1>11

LEMMA BeginningsAgree ==
    ASSUME NEW S, NEW base, NEW step, NEW m \in Nat, NEW n \in Nat, m <= n, NEW g, NEW h,
           Begins(S, base, step, m, g), Begins(S, base, step, n, h)
    PROVE  g[m] = h[m]
<1> DEFINE T == {k \in 0..m : g[k] # h[k]}
<1>1. SUFFICES ASSUME T # {} PROVE FALSE
    OBVIOUS
<1>2. PICK k \in T : \A y \in T : k <= y
  <2>1. T \in SUBSET Nat
      OBVIOUS
  <2> HIDE DEF T
  <2> QED
      BY <1>1, <2>1, SmallestExists
<1>3. k \in 0..m /\ g[k] # h[k]
    OBVIOUS
<1>4. k # 0
    BY <1>3 DEF Begins
<1>5. k - 1 \in 0 .. m - 1 /\ k - 1 \in 0 .. n - 1 /\ (k - 1) + 1 = k /\ k - 1 \in 0..m /\ k - 1 < k
    BY <1>3, <1>4
<1>6. g[k - 1] = h[k - 1]
  <2>1. k - 1 \notin T
    <3> HIDE DEF T
    <3> QED
        BY <1>2, <1>3, <1>5
  <2> QED
      BY <1>5, <2>1
<1>7. g[k] = step[<<k - 1, g[k - 1]>>] /\ h[k] = step[<<k - 1, h[k - 1]>>]
  <2>1. /\ g[(k - 1) + 1] = step[<<k - 1, g[k - 1]>>]
        /\ h[(k - 1) + 1] = step[<<k - 1, h[k - 1]>>]
      BY <1>5 DEF Begins
  <2> QED
      BY <1>5, <2>1
<1> QED
    BY <1>3, <1>6, <1>7

LEMMA RecursionExists ==
    ASSUME NEW S, NEW base \in S, NEW step \in [Nat \X S -> S]
    PROVE  \E f : Recursive(S, base, step, f)
<1> DEFINE g(n) == CHOOSE h : Begins(S, base, step, n, h)
           f == [n \in Nat |-> g(n)[n]]
<1>1. ASSUME NEW n \in Nat
      PROVE  Begins(S, base, step, n, g(n))
    BY BeginningsExist
<1>2. ASSUME NEW n \in Nat
      PROVE  g(n)[n] \in S /\ g(n)[0] = base
  <2> HIDE DEF g
  <2> QED
      BY <1>1 DEF Begins
<1>3. ASSUME NEW k \in Nat
      PROVE  g(k + 1)[k + 1] = step[<<k, g(k)[k]>>]
  <2>1. k + 1 \in Nat /\ k <= k + 1 /\ k \in 0 .. (k + 1) - 1
      OBVIOUS
  <2>2. Begins(S, base, step, k, g(k)) /\ Begins(S, base, step, k + 1, g(k + 1))
      BY <1>1, <2>1
  <2> HIDE DEF g
  <2>3. g(k)[k] = g(k + 1)[k]
      BY <2>1, <2>2, BeginningsAgree
  <2>4. g(k + 1)[k + 1] = step[<<k, g(k + 1)[k]>>]
      BY <2>1, <2>2 DEF Begins
  <2> QED
      BY <2>3, <2>4
<1> HIDE DEF g
<1>4. f \in [Nat -> S]
    BY <1>2
<1>5. f[0] = base /\ \A k \in Nat : f[k + 1] = step[<<k, f[k]>>]
    BY <1>2, <1>3
<1> HIDE DEF f
<1> QED
    BY <1>4, <1>5 DEF Recursive

-----------------------------------------------------------------------------
\* Rounding up stays within one step of the alignment.
LEMMA RoundingBounds ==
    ASSUME NEW p \in Nat, NEW a \in Nat \ {0}
    PROVE  AlignUp(p, a) \in Nat /\ AlignUp(p, a) >= p /\ AlignUp(p, a) < p + a
  BY DEF AlignUp

\* Remainder and quotient are determined by what they add up to.
LEMMA DivisionIsUnique ==
    ASSUME NEW p \in Nat, NEW a \in Nat \ {0}, NEW q \in Nat, NEW r \in 0 .. a - 1,
           p = a * q + r
    PROVE  p % a = r /\ p \div a = q
  OBVIOUS

LEMMA Division ==
    ASSUME NEW p \in Nat, NEW a \in Nat \ {0}
    PROVE  p % a \in 0 .. a - 1 /\ p \div a \in Nat /\ p = (a * (p \div a)) + (p % a)
  OBVIOUS

LEMMA RoundingAligns ==
    ASSUME NEW p \in Nat, NEW a \in Nat \ {0}
    PROVE  AlignUp(p, a) % a = 0
  <1>1. CASE p % a = 0
    BY <1>1 DEF AlignUp
  <1>2. CASE p % a # 0
    <2>1. p % a \in 0 .. a - 1 /\ p \div a \in Nat /\ p = (a * (p \div a)) + (p % a)
      BY Division
    <2>2. AlignUp(p, a) = p + (a - (p % a))
      BY <1>2 DEF AlignUp
    <2> DEFINE q == p \div a
               r == p % a
    <2> HIDE DEF q, r
    <2>3. q \in Nat /\ r \in 0 .. a - 1 /\ p = (a * q) + r /\ AlignUp(p, a) = p + (a - r)
      BY <2>1, <2>2 DEF q, r
    <2>4. AlignUp(p, a) = a * (q + 1) + 0
      BY <2>3
    <2>5. AlignUp(p, a) \in Nat /\ q + 1 \in Nat /\ 0 \in 0 .. a - 1
      BY <2>3, RoundingBounds
    <2> QED BY <2>4, <2>5, DivisionIsUnique
  <1> QED BY <1>1, <1>2

LEMMA RoundingFixesMultiples ==
    ASSUME NEW p \in Nat, NEW a \in Nat \ {0}, p % a = 0
    PROVE  AlignUp(p, a) = p
  BY DEF AlignUp

\* No multiple lies between a position and its rounding.
LEMMA RoundingIsLeast ==
    ASSUME NEW p \in Nat, NEW a \in Nat \ {0}, NEW m \in Nat, m % a = 0, p <= m
    PROVE  AlignUp(p, a) <= m
  <1> DEFINE u == AlignUp(p, a)
             j == u \div a
             k == m \div a
  <1>1. u \in Nat /\ u < p + a /\ u % a = 0
    BY RoundingBounds, RoundingAligns
  <1>2. j \in Nat /\ u = a * j /\ k \in Nat /\ m = a * k
    <2> HIDE DEF u
    <2>1. j \in Nat /\ u = (a * j) + (u % a)
      BY <1>1, Division
    <2>2. k \in Nat /\ m = (a * k) + (m % a)
      BY Division
    <2> HIDE DEF j, k
    <2> QED BY <1>1, <2>1, <2>2
  <1> HIDE DEF j, k, u
  <1>3. SUFFICES ASSUME k < j PROVE FALSE
    <2>1. a * j <= a * k \/ k < j
      BY <1>2
    <2> QED BY <1>2, <1>3, <2>1 DEF u
  <1>4. a * (k + 1) <= a * j
    BY <1>2, <1>3
  <1> QED BY <1>1, <1>2, <1>4

LEMMA RoundingIsMonotone ==
    ASSUME NEW p \in Nat, NEW q \in Nat, NEW a \in Nat \ {0}, p <= q
    PROVE  AlignUp(p, a) <= AlignUp(q, a)
  BY RoundingBounds, RoundingAligns, RoundingIsLeast

-----------------------------------------------------------------------------
(***************************************************************************)
(* The bit trick of the parser, n & (n - 1) = 0, and the powers of two.    *)
(***************************************************************************)
LEMMA TwoToUnfolds ==
    /\ TwoTo \in [Nat -> Nat] /\ TwoTo[0] = 1
    /\ \A k \in Nat : TwoTo[k + 1] = 2 * TwoTo[k]
<1> DEFINE step == [p \in Nat \X Nat |-> 2 * p[2]]
<1>1. step \in [Nat \X Nat -> Nat] /\ 1 \in Nat
    OBVIOUS
<1>2. PICK f \in [Nat -> Nat] : f[0] = 1 /\ \A k \in Nat : f[k + 1] = step[<<k, f[k]>>]
  <2> HIDE DEF step
  <2>1. PICK f : Recursive(Nat, 1, step, f)
      BY <1>1, RecursionExists
  <2> QED
      BY <2>1 DEF Recursive
<1>3. \A k \in Nat : f[k + 1] = 2 * f[k]
  <2> SUFFICES ASSUME NEW k \in Nat PROVE f[k + 1] = 2 * f[k]
      OBVIOUS
  <2>1. <<k, f[k]>> \in Nat \X Nat
      BY <1>2
  <2>2. step[<<k, f[k]>>] = 2 * f[k]
      BY <2>1
  <2> HIDE DEF step
  <2> QED
      BY <1>2, <2>2
<1>4. f = [k \in Nat |-> IF k = 0 THEN 1 ELSE 2 * f[k - 1]]
  <2> SUFFICES ASSUME NEW k \in Nat, k # 0 PROVE f[k] = 2 * f[k - 1]
      BY <1>2
  <2>1. k - 1 \in Nat /\ (k - 1) + 1 = k
      OBVIOUS
  <2> QED
      BY <1>3, <2>1
<1>5. TwoTo = [k \in Nat |-> IF k = 0 THEN 1 ELSE 2 * TwoTo[k - 1]]
    BY <1>4 DEF TwoTo
<1>6. TwoTo[0] = 1 /\ \A k \in Nat : TwoTo[k + 1] = 2 * TwoTo[k]
  <2> HIDE DEF TwoTo
  <2>1. TwoTo[0] = 1
      BY <1>5
  <2>2. ASSUME NEW k \in Nat PROVE TwoTo[k + 1] = 2 * TwoTo[k]
    <3>1. k + 1 \in Nat /\ k + 1 # 0 /\ (k + 1) - 1 = k
        OBVIOUS
    <3>2. TwoTo[k + 1] = IF k + 1 = 0 THEN 1 ELSE 2 * TwoTo[(k + 1) - 1]
        BY <1>5, <3>1
    <3> QED
        BY <3>1, <3>2
  <2> QED
      BY <2>1, <2>2
<1>7. TwoTo \in [Nat -> Nat]
  <2> DEFINE T == {k \in Nat : TwoTo[k] \notin Nat}
  <2>1. SUFFICES ASSUME T # {} PROVE FALSE
    <3>1. \A k \in Nat : TwoTo[k] \in Nat
        BY <2>1
    <3>2. TwoTo = [k \in Nat |-> TwoTo[k]]
        BY <1>5
    <3> HIDE DEF TwoTo
    <3> QED
        BY <3>1, <3>2
  <2>2. PICK k \in T : \A y \in T : k <= y
    <3>1. T \in SUBSET Nat
        OBVIOUS
    <3> HIDE DEF T
    <3> QED
        BY <2>1, <3>1, SmallestExists
  <2> HIDE DEF TwoTo
  <2>3. k \in Nat /\ TwoTo[k] \notin Nat
      OBVIOUS
  <2>4. k # 0
      BY <1>6, <2>3
  <2>5. k - 1 \in Nat /\ (k - 1) + 1 = k /\ k - 1 < k
      BY <2>3, <2>4
  <2>6. TwoTo[k - 1] \in Nat
    <3>1. k - 1 \notin T
      <4> HIDE DEF T
      <4> QED
          BY <2>2, <2>3, <2>5
    <3> QED
        BY <2>5, <3>1
  <2>7. TwoTo[k] = 2 * TwoTo[k - 1]
      BY <1>6, <2>5
  <2> QED
      BY <2>3, <2>6, <2>7
<1> QED
    BY <1>6, <1>7

LEMMA TwoToGrows ==
    ASSUME NEW k \in Nat
    PROVE  TwoTo[k] \in Nat /\ TwoTo[k] > k
<1> DEFINE T == {j \in Nat : ~(TwoTo[j] > j)}
<1>1. SUFFICES ASSUME T # {} PROVE FALSE
    BY <1>1, TwoToUnfolds
<1>2. PICK j \in T : \A y \in T : j <= y
  <2>1. T \in SUBSET Nat
      OBVIOUS
  <2> HIDE DEF T
  <2> QED
      BY <1>1, <2>1, SmallestExists
<1>3. j \in Nat /\ ~(TwoTo[j] > j)
    OBVIOUS
<1>4. j # 0
    BY <1>3, TwoToUnfolds
<1>5. j - 1 \in Nat /\ (j - 1) + 1 = j /\ j - 1 < j
    BY <1>3, <1>4
<1>6. TwoTo[j - 1] > j - 1
  <2>1. j - 1 \notin T
    <3> HIDE DEF T
    <3> QED
        BY <1>2, <1>3, <1>5
  <2> QED
      BY <1>5, <2>1
<1>7. TwoTo[j] = 2 * TwoTo[j - 1] /\ TwoTo[j - 1] \in Nat
    BY <1>5, TwoToUnfolds
<1> QED
    BY <1>3, <1>5, <1>6, <1>7

\* An odd divisor of 2m divides m.
LEMMA OddDivisor ==
    ASSUME NEW m \in Nat, NEW d \in Nat \ {0}, (2 * m) % d = 0, d % 2 # 0
    PROVE  m % d = 0
<1> DEFINE q == (2 * m) \div d
           a == d \div 2
           b == q \div 2
           r == q % 2
<1>1. q \in Nat /\ 2 * m = (d * q) + ((2 * m) % d)
    BY Division
<1>2. a \in Nat /\ d = (2 * a) + 1
    OBVIOUS
<1> HIDE DEF a
<1>3. q \in Nat /\ 2 * m = d * q
    BY <1>1
<1> HIDE DEF q
<1>4. b \in Nat /\ r \in 0..1 /\ q = (2 * b) + r
    BY <1>3
<1> HIDE DEF b, r
<1>5. 2 * m = (2 * (a * q)) + q
    BY <1>2, <1>3
<1>6. r = 0
  <2>1. a * q \in Nat
      BY <1>2, <1>3
  <2> QED
      BY <1>4, <1>5, <2>1
<1>7. m = d * b + 0
  <2>1. d * q = 2 * (d * b)
      BY <1>4, <1>6
  <2>2. d * b \in Nat
      BY <1>4
  <2> QED
      BY <1>3, <2>1, <2>2
<1> QED
    BY <1>4, <1>7, DivisionIsUnique

LEMMA TwoToIsPowerOfTwo ==
    ASSUME NEW k \in Nat
    PROVE  PowerOfTwo(TwoTo[k])
<1> DEFINE T == {j \in Nat : ~PowerOfTwo(TwoTo[j])}
<1>1. SUFFICES ASSUME T # {} PROVE FALSE
    OBVIOUS
<1>2. PICK j \in T : \A y \in T : j <= y
  <2>1. T \in SUBSET Nat
      OBVIOUS
  <2> HIDE DEF T
  <2> QED
      BY <1>1, <2>1, SmallestExists
<1>3. j \in Nat /\ ~PowerOfTwo(TwoTo[j])
    OBVIOUS
<1>4. j # 0
    BY <1>3, TwoToUnfolds DEF PowerOfTwo
<1>5. j - 1 \in Nat /\ (j - 1) + 1 = j /\ j - 1 < j
    BY <1>3, <1>4
<1>6. PowerOfTwo(TwoTo[j - 1])
  <2>1. j - 1 \notin T
    <3> HIDE DEF T
    <3> QED
        BY <1>2, <1>3, <1>5
  <2> QED
      BY <1>5, <2>1
<1> DEFINE m == TwoTo[j - 1]
<1>7. TwoTo[j] = 2 * m /\ m \in Nat /\ m > 0
    BY <1>5, TwoToUnfolds, TwoToGrows
<1>8. \A d \in 1..m : m % d = 0 => d = 1 \/ d % 2 = 0
    BY <1>6 DEF PowerOfTwo
<1> HIDE DEF m
<1>9. ASSUME NEW d \in 1 .. 2 * m, (2 * m) % d = 0, d % 2 # 0
      PROVE  d = 1
  <2>1. d \in Nat \ {0}
      BY <1>7
  <2>2. m % d = 0
      BY <1>7, <1>9, <2>1, OddDivisor
  <2>3. d <= m
    <3>1. m % d = m \/ d <= m
        BY <1>7, <2>1
    <3> QED
        BY <1>7, <2>2, <3>1
  <2> QED
      BY <1>7, <1>8, <1>9, <2>1, <2>2, <2>3
<1> QED
    BY <1>3, <1>7, <1>9 DEF PowerOfTwo

LEMMA PowerOfTwoIsTwoTo ==
    ASSUME NEW n \in Nat, PowerOfTwo(n)
    PROVE  \E k \in Nat : n = TwoTo[k]
<1> DEFINE T == {j \in Nat : PowerOfTwo(j) /\ ~ \E k \in Nat : j = TwoTo[k]}
<1>1. SUFFICES ASSUME T # {} PROVE FALSE
    OBVIOUS
<1>2. PICK j \in T : \A y \in T : j <= y
  <2>1. T \in SUBSET Nat
      OBVIOUS
  <2> HIDE DEF T
  <2> QED
      BY <1>1, <2>1, SmallestExists
<1>3. j \in Nat /\ PowerOfTwo(j) /\ ~ \E k \in Nat : j = TwoTo[k]
    OBVIOUS
<1>4. j # 1 /\ j > 0
    BY <1>3, TwoToUnfolds DEF PowerOfTwo
<1>5. j % 2 = 0
  <2>1. j \in 1..j /\ j % j = 0
      BY <1>3, <1>4
  <2> QED
      BY <1>3, <1>4, <2>1 DEF PowerOfTwo
<1> DEFINE m == j \div 2
<1>6. m \in Nat /\ j = 2 * m
    BY <1>3, <1>5
<1> HIDE DEF m
<1>7. m > 0 /\ m < j
    BY <1>3, <1>4, <1>6
<1>8. ASSUME NEW d \in 1..m, m % d = 0, d # 1
      PROVE  d % 2 = 0
  <2>1. d \in Nat \ {0} /\ d \in 1..j
      BY <1>6, <1>7
  <2> DEFINE q == m \div d
  <2>2. q \in Nat /\ m = (d * q) + (m % d)
      BY <1>6, <2>1, Division
  <2> HIDE DEF q
  <2>3. j = d * (2 * q) + 0 /\ 2 * q \in Nat
      BY <1>6, <1>8, <2>1, <2>2
  <2>4. j % d = 0
      BY <1>3, <2>1, <2>3, DivisionIsUnique
  <2> QED
      BY <1>3, <1>8, <2>1, <2>4 DEF PowerOfTwo
<1>9. PowerOfTwo(m)
    BY <1>7, <1>8 DEF PowerOfTwo
<1>10. PICK k \in Nat : m = TwoTo[k]
  <2>1. m \notin T
    <3> HIDE DEF T
    <3> QED
        BY <1>2, <1>3, <1>6, <1>7
  <2> QED
      BY <1>6, <1>9, <2>1
<1>11. j = TwoTo[k + 1] /\ k + 1 \in Nat
    BY <1>6, <1>10, TwoToUnfolds
<1> QED
    BY <1>3, <1>11

(***************************************************************************)
(* PowerOfTwo accepts the powers of two and nothing else.                  *)
(***************************************************************************)
THEOREM PowersOfTwo ==
    ASSUME NEW n \in Int
    PROVE  PowerOfTwo(n) <=> \E k \in 0..n : n = TwoTo[k]
<1>1. ASSUME PowerOfTwo(n)
      PROVE  \E k \in 0..n : n = TwoTo[k]
  <2>1. n \in Nat
      BY <1>1 DEF PowerOfTwo
  <2>2. PICK k \in Nat : n = TwoTo[k]
      BY <1>1, <2>1, PowerOfTwoIsTwoTo
  <2>3. k \in 0..n
      BY <2>1, <2>2, TwoToGrows
  <2> QED
      BY <2>2, <2>3
<1>2. ASSUME NEW k \in 0..n, n = TwoTo[k]
      PROVE  PowerOfTwo(n)
    BY <1>2, TwoToIsPowerOfTwo
<1> QED
    BY <1>1, <1>2
============================================================================
