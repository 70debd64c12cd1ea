----------------------------- MODULE LoopProofs -----------------------------
(***************************************************************************)
(* Numbers, and loops over them, as the proofs of the modules need them:   *)
(* what a loop keeps and that its values exist.  The induction is over     *)
(* sets of numbers, from the order of finite sets being well-founded.      *)
(***************************************************************************)
EXTENDS Integers, FiniteSetsExt, FiniteSetTheorems, WellFoundedInduction, TLAPS

\* The maximum of two numbers is one of them, and no less than either.
LEMMA MaxOfTwo ==
  ASSUME NEW a \in Nat, NEW b \in Nat
  PROVE  Max({a, b}) \in {a, b} /\ Max({a, b}) >= a /\ Max({a, b}) >= b
<1>1. \E x \in {a, b} : \A y \in {a, b} : x >= y
  BY DEF Max
<1> QED BY <1>1 DEF Max

\* A set with 0 and the successor of each number it has has all numbers.
LEMMA NumbersByInduction ==
  ASSUME NEW S, 0 \in S, \A n \in Nat : n \in S => n + 1 \in S
  PROVE  Nat \subseteq S
<1>1. SUFFICES ASSUME NEW b \in Nat \ S
               PROVE  FALSE
  OBVIOUS
<1> DEFINE T == {1..n : n \in Nat \ S}
<1>2. T \subseteq FiniteSubsetsOf(Nat) /\ T # {}
  <2>1. ASSUME NEW n \in Nat
        PROVE  1..n \in FiniteSubsetsOf(Nat)
    BY FS_Interval DEF FiniteSubsetsOf
  <2> QED BY <1>1, <2>1
<1>3. PICK x \in T : \A y \in T : <<y, x>> \notin StrictSubsetOrdering(Nat)
  <2> HIDE DEF T
  <2> QED BY <1>2, FS_StrictSubsetOrderingWellFounded, WFMin
<1>4. PICK n \in Nat \ S : x = 1..n
  OBVIOUS
<1>5. n - 1 \in Nat \ S
  OBVIOUS
<1>6. 1..(n - 1) \in T
  BY <1>5
<1>7. <<1..(n - 1), 1..n>> \in StrictSubsetOrdering(Nat)
  <2>1. 1..(n-1) \subseteq 1..n /\ 1..(n-1) # 1..n
    BY <1>5
  <2> QED BY <2>1 DEF StrictSubsetOrdering
<1> QED BY <1>3, <1>4, <1>6, <1>7

\* A finite set of numbers has a greatest.
LEMMA MaxOfMany ==
  ASSUME NEW S \in SUBSET Nat, IsFiniteSet(S), S # {}
  PROVE  Max(S) \in S /\ \A x \in S : Max(S) >= x
<1> DEFINE Above(x) == {y \in S : y > x}
           T == {Above(x) : x \in S}
<1>1. T \subseteq FiniteSubsetsOf(Nat) /\ T # {}
  <2>1. ASSUME NEW x \in S
        PROVE  Above(x) \in FiniteSubsetsOf(Nat)
    <3>1. Above(x) \in SUBSET S
      OBVIOUS
    <3> HIDE DEF Above
    <3> QED BY <3>1, FS_Subset DEF FiniteSubsetsOf
  <2> QED BY <2>1
<1>2. PICK A \in T : \A B \in T : <<B, A>> \notin StrictSubsetOrdering(Nat)
  <2> HIDE DEF T
  <2> QED BY <1>1, FS_StrictSubsetOrderingWellFounded, WFMin
<1>3. PICK m \in S : A = Above(m)
  OBVIOUS
<1>4. ASSUME NEW y \in S, y > m
      PROVE  FALSE
  <2>1. /\ \A z \in S : z > y => z > m
        /\ y > m /\ ~(y > y)
    BY <1>4
  <2>2. Above(y) \subseteq Above(m) /\ Above(y) # Above(m)
    <3>1. y \in Above(m) /\ y \notin Above(y)
      BY <2>1
    <3>2. Above(y) \subseteq Above(m)
      BY <2>1
    <3> QED BY <3>1, <3>2
  <2>3. Above(y) \in SUBSET Nat /\ Above(m) \in SUBSET Nat /\ Above(y) \in T
    OBVIOUS
  <2>4. \A B, C \in SUBSET Nat : B \subseteq C /\ B # C => <<B, C>> \in StrictSubsetOrdering(Nat)
    BY DEF StrictSubsetOrdering
  <2> HIDE DEF Above, T
  <2>5. <<Above(y), Above(m)>> \in StrictSubsetOrdering(Nat)
    BY <2>2, <2>3, <2>4
  <2> QED BY <1>2, <1>3, <2>3, <2>5
<1>5. \E x \in S : \A y \in S : x >= y
  BY <1>4
<1> QED BY <1>5 DEF Max

\* What a deduction leaves.
LEMMA Deduction ==
  ASSUME NEW x \in Nat, NEW r \in Nat
  PROVE  Max({0, x - r}) = IF x > r THEN x - r ELSE 0
<1>1. PICK m \in {0, x - r} : \A y \in {0, x - r} : m >= y
  <2>1. CASE x > r
    BY <2>1
  <2>2. CASE ~(x > r)
    BY <2>2
  <2> QED BY <2>1, <2>2
<1>2. Max({0, x - r}) \in {0, x - r} /\ \A y \in {0, x - r} : Max({0, x - r}) >= y
  BY <1>1 DEF Max
<1> QED BY <1>2

\* What holds before a loop and is kept by each of its steps holds all along.
LEMMA LoopInvariant ==
  ASSUME NEW n \in Nat, NEW S, 0 \in S, \A i \in 1..n : i - 1 \in S => i \in S
  PROVE  0..n \subseteq S
<1> DEFINE T == {m \in Nat : m <= n => m \in S}
<1>1. 0 \in T
  OBVIOUS
<1>2. ASSUME NEW m \in Nat, m \in T
      PROVE  m + 1 \in T
  <2>1. ASSUME m + 1 <= n
        PROVE  m + 1 \in S
    <3>1. m \in S /\ m + 1 \in 1..n /\ (m + 1) - 1 = m
      BY <1>2, <2>1
    <3> QED BY <3>1
  <2> QED BY <2>1
<1> HIDE DEF T
<1>3. Nat \subseteq T
  BY <1>1, <1>2, NumbersByInduction
<1> QED BY <1>3 DEF T

\* A loop: the function of which the first value is given, and each of the next n by
\* a step from the one before.
IsLoop(f, n, first, step) ==
  f = [i \in 0..n |-> IF i = 0 THEN first ELSE step[<<i, f[i - 1]>>]]

LEMMA LoopExists ==
  ASSUME NEW n \in Nat, NEW V, NEW first \in V, NEW step \in [Nat \X V -> V]
  PROVE  \E f \in [0..n -> V] : IsLoop(f, n, first, step)
<1> DEFINE S == {m \in Nat : \E f \in [0..m -> V] : IsLoop(f, m, first, step)}
<1>1. 0 \in S
  <2>1. [i \in 0..0 |-> first] \in [0..0 -> V] /\ IsLoop([i \in 0..0 |-> first], 0, first, step)
    BY DEF IsLoop
  <2> QED BY <2>1
<1>2. ASSUME NEW m \in Nat, m \in S
      PROVE  m + 1 \in S
  <2>1. PICK f \in [0..m -> V] : IsLoop(f, m, first, step)
    BY <1>2
  <2>2. \A i \in 0..m : f[i] = IF i = 0 THEN first ELSE step[<<i, f[i - 1]>>]
    BY <2>1 DEF IsLoop
  <2> DEFINE h == [i \in 0..(m + 1) |-> IF i = m + 1 THEN step[<<i, f[m]>>] ELSE f[i]]
  <2>3. f[m] \in V /\ step[<<m + 1, f[m]>>] \in V
    OBVIOUS
  <2>4. h \in [0..(m + 1) -> V]
    BY <2>3
  <2>5. ASSUME NEW i \in 0..(m + 1)
        PROVE  h[i] = IF i = 0 THEN first ELSE step[<<i, h[i - 1]>>]
    <3>1. CASE i = m + 1
      <4>1. h[i] = step[<<i, f[m]>>] /\ i - 1 = m /\ h[m] = f[m]
        BY <3>1
      <4> QED BY <3>1, <4>1
    <3>2. CASE i \in 0..m
      <4>1. h[i] = f[i] /\ (i # 0 => h[i - 1] = f[i - 1])
        BY <3>2
      <4> QED BY <2>2, <3>2, <4>1
    <3> QED BY <3>1, <3>2
  <2> HIDE DEF h
  <2>6. IsLoop(h, m + 1, first, step)
    BY <2>4, <2>5 DEF IsLoop
  <2> QED BY <2>4, <2>6
<1> HIDE DEF S
<1>3. n \in S
  BY <1>1, <1>2, NumbersByInduction
<1> QED BY <1>3 DEF S
=============================================================================
