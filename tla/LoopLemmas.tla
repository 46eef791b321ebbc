----------------------------- MODULE LoopLemmas -----------------------------
(***************************************************************************)
(* What the proofs about loops share: least and greatest numbers, induction *)
(* over the rounds of a loop with the property given as a set, and the      *)
(* values that a loop written as a recursive function has after each of its *)
(* rounds.                                                                  *)
(***************************************************************************)
EXTENDS Integers, WellFoundedInduction, TLAPS

\* A set of naturals has a least element.
LEMMA LeastOf ==
    ASSUME NEW S \in SUBSET Nat, S # {}
    PROVE  \E x \in S : \A y \in S : x <= y
<1>1. PICK x \in S : \A y \in S : ~ (<<y, x>> \in OpToRel(<, Nat))
  BY NatLessThanWellFounded, WFMin
<1>2. \A y \in S : x \in Nat /\ y \in Nat /\ ~ (y < x)
  BY <1>1 DEF OpToRel
<1>3. \A y \in S : x <= y
  BY <1>2
<1> QED
  BY <1>3

\* A bounded one has a greatest.
LEMMA GreatestUpTo ==
    ASSUME NEW n \in Nat, NEW S \in SUBSET (0 .. n), S # {}
    PROVE  \E x \in S : \A y \in S : y <= x
<1> DEFINE T == {n - x : x \in S}
<1>1. T \subseteq Nat
  <2>1. \A x \in S : x \in 0 .. n /\ n - x \in Nat
    OBVIOUS
  <2> QED
    BY <2>1
<1>2. T # {} /\ \A x \in S : n - x \in T
  OBVIOUS
<1>3. \A z \in T : \E x \in S : z = n - x
  OBVIOUS
<1> HIDE DEF T
<1>4. PICK z \in T : \A y \in T : z <= y
  BY <1>1, <1>2, LeastOf
<1>5. PICK x \in S : z = n - x
  BY <1>3
<1>6. ASSUME NEW y \in S PROVE y <= x
  <2>1. n - x <= n - y
    BY <1>2, <1>4, <1>5
  <2> QED
    BY <2>1
<1> QED
  BY <1>6

\* What holds before a loop, and after a round when it held before that, holds after it.
LEMMA UpTo ==
    ASSUME NEW n \in Nat, NEW B, 0 \in B, \A i \in 1 .. n : i - 1 \in B => i \in B
    PROVE  \A i \in 0 .. n : i \in B
<1> DEFINE bad == (0 .. n) \ B
<1> SUFFICES ASSUME bad # {} PROVE FALSE
  OBVIOUS
<1>1. bad \in SUBSET Nat
  OBVIOUS
<1>2. PICK k \in bad : \A y \in bad : k <= y
  <2> HIDE DEF bad
  <2> QED
    BY <1>1, LeastOf
<1>3. k \in 0 .. n /\ k \notin B
  OBVIOUS
<1>4. k # 0
  BY <1>3
<1>5. k \in 1 .. n /\ k - 1 \in 0 .. n /\ ~ (k <= k - 1)
  BY <1>3, <1>4
<1>6. k - 1 \in B
  BY <1>2, <1>5
<1> QED
  BY <1>3, <1>5, <1>6

\* A loop whose rounds stay in a set has a value after each of its rounds.
Loops(f, n, S, w, step) ==
    f \in [0 .. n -> S] /\ f[0] = w /\ \A i \in 1 .. n : f[i] = step[i][f[i - 1]]

LEMMA LoopRuns ==
    ASSUME NEW n \in Nat, NEW S, NEW w \in S, NEW step \in [1 .. n -> [S -> S]]
    PROVE  \E f : Loops(f, n, S, w, step)
<1> DEFINE runs(k) == \E f \in [0 .. k -> S] : f[0] = w /\ \A i \in 1 .. k : f[i] = step[i][f[i - 1]]
           B       == {k \in 0 .. n : runs(k)}
<1>1. runs(0)
  <2> DEFINE f == [i \in 0 .. 0 |-> w]
  <2>1. f \in [0 .. 0 -> S] /\ f[0] = w /\ \A i \in 1 .. 0 : f[i] = step[i][f[i - 1]]
    OBVIOUS
  <2> QED
    BY <2>1
<1>2. ASSUME NEW k \in 1 .. n, runs(k - 1) PROVE runs(k)
  <2>1. PICK f \in [0 .. k - 1 -> S] :
              f[0] = w /\ \A i \in 1 .. k - 1 : f[i] = step[i][f[i - 1]]
    BY <1>2
  <2>2. k - 1 \in 0 .. k - 1 /\ 0 \in 0 .. k - 1 /\ k \notin 0 .. k - 1
    OBVIOUS
  <2>3. f[k - 1] \in S
    BY <2>2
  <2>4. step[k] \in [S -> S]
    OBVIOUS
  <2>5. step[k][f[k - 1]] \in S
    BY <2>3, <2>4
  <2> DEFINE g == [i \in 0 .. k |-> IF i \in 0 .. k - 1 THEN f[i] ELSE step[k][f[k - 1]]]
  <2>6. g \in [0 .. k -> S]
    BY <2>5
  <2>7. g[0] = w /\ g[k] = step[k][f[k - 1]] /\ \A i \in 0 .. k - 1 : g[i] = f[i]
    BY <2>1, <2>2
  <2> HIDE DEF g
  <2>8. ASSUME NEW i \in 1 .. k PROVE g[i] = step[i][g[i - 1]]
    <3>1. i - 1 \in 0 .. k - 1
      OBVIOUS
    <3>2. g[i - 1] = f[i - 1]
      BY <2>7, <3>1
    <3>3. CASE i = k
      BY <2>7, <3>2, <3>3
    <3>4. CASE i # k
      <4>1. i \in 1 .. k - 1 /\ i \in 0 .. k - 1
        BY <3>4
      <4>2. f[i] = step[i][f[i - 1]]
        BY <2>1, <4>1
      <4> QED
        BY <2>7, <3>2, <4>1, <4>2
    <3> QED
      BY <3>3, <3>4
  <2> QED
    BY <2>6, <2>7, <2>8
<1> HIDE DEF runs
<1>3. 0 \in B /\ \A i \in 1 .. n : i - 1 \in B => i \in B
  BY <1>1, <1>2
<1>4. n \in B
  <2>1. n \in 0 .. n
    OBVIOUS
  <2> HIDE DEF B
  <2> QED
    BY <1>3, <2>1, UpTo
<1> QED
  BY <1>4 DEF runs, Loops

=============================================================================
