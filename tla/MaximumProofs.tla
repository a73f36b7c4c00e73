--------------------------- MODULE MaximumProofs ----------------------------
(***************************************************************************)
(* Lemmas the other proofs share: a bounded set of numbers has a maximum;   *)
(* induction up to a number; and what follows from it for functions that    *)
(* are defined by their previous value, which sum or fold up a sequence.   *)
(***************************************************************************)
EXTENDS Naturals, FiniteSetTheorems, WellFoundedInduction, TLAPS

(* A bounded set of numbers that is not empty has a maximum. *)
LEMMA MaximumExists ==
  ASSUME NEW S \in SUBSET Nat, S # {}, NEW n \in Nat, \A s \in S : s <= n
  PROVE  \E m \in S : \A s \in S : s <= m
<1> DEFINE Above(m) == {s \in S : s > m}
           T        == {Above(m) : m \in S}
<1>1. IsFiniteSet(S)
  BY FS_BoundedSetOfNaturals
<1>2. IsWellFoundedOn(StrictSubsetOrdering(S), FiniteSubsetsOf(S))
  BY FS_StrictSubsetOrderingWellFounded
<1>3. T \subseteq FiniteSubsetsOf(S) /\ T # {}
  <2>1. FiniteSubsetsOf(S) = SUBSET S
    BY <1>1, FS_FiniteSubsetsOfFinite
  <2>2. T \subseteq SUBSET S
    OBVIOUS
  <2>3. PICK s \in S : TRUE
    OBVIOUS
  <2>4. Above(s) \in T
    OBVIOUS
  <2> QED  BY <2>1, <2>2, <2>4
<1>4. PICK x \in T : \A y \in T : <<y, x>> \notin StrictSubsetOrdering(S)
  BY <1>2, <1>3, WFMin
<1>5. PICK m \in S : x = Above(m)
  OBVIOUS
<1>6. ASSUME NEW s \in S, s > m
      PROVE  FALSE
  <2>1. \A t \in S : t \in Nat
    OBVIOUS
  <2>2. s \in Nat /\ m \in Nat
    BY <2>1
  <2>3. \A t \in S : t > s => t > m
    BY <1>6, <2>1, <2>2
  <2>4. ~(s > s)
    BY <2>2
  <2>5. Above(s) \subseteq Above(m)
    BY <2>3
  <2>6. s \in Above(m) /\ s \notin Above(s)
    BY <1>6, <2>4
  <2>7. Above(s) \in SUBSET S /\ Above(m) \in SUBSET S /\ Above(s) # Above(m)
    BY <2>6
  <2>8. <<Above(s), x>> \in StrictSubsetOrdering(S)
    <3> HIDE DEF Above
    <3> QED  BY <1>5, <2>5, <2>7 DEF StrictSubsetOrdering
  <2> QED  BY <2>8, <1>4
<1> QED  BY <1>6

-----------------------------------------------------------------------------
(* Induction up to a number, and sums.                                     *)

(* What holds of 0, and of k + 1 if it holds of k, holds up to n. *)
LEMMA UpTo ==
  ASSUME NEW n \in Nat, NEW S, 0 \in S, \A k \in 0..(n - 1) : k \in S => k + 1 \in S
  PROVE  \A k \in 0..n : k \in S
<1> DEFINE T == {k \in 0..n : \A j \in 0..k : j \in S}
<1>1. 0 \in T
  OBVIOUS
<1>2. T \in SUBSET Nat /\ T # {} /\ \A k \in T : k <= n
  BY <1>1
<1>3. PICK m \in T : \A k \in T : k <= m
  BY <1>2, MaximumExists
<1>4. m \in 0..n /\ \A j \in 0..m : j \in S
  OBVIOUS
<1>5. CASE m = n
  BY <1>4, <1>5
<1>6. CASE m # n
  <2>1. m \in 0..(n - 1) /\ m \in S
    BY <1>4, <1>6
  <2>2. m + 1 \in S /\ m + 1 \in 0..n
    BY <2>1
  <2>3. \A j \in 0..(m + 1) : j \in S
    BY <1>4, <2>1, <2>2
  <2>4. m + 1 \in T
    BY <2>2, <2>3
  <2>5. m + 1 <= m
    BY <1>3, <2>4
  <2> QED
    BY <1>4, <2>5
<1> QED
  BY <1>5, <1>6

(* The sums of the first members of w, from b on. *)
Sums(f, b, w, n) == f[0] = b /\ \A k \in 1..n : f[k] = f[k - 1] + w[k]

LEMMA SumsUnique ==
  ASSUME NEW n \in Nat, NEW f, NEW g, NEW b, NEW w, NEW v, Sums(f, b, w, n), Sums(g, b, v, n),
         \A k \in 1..n : w[k] = v[k]
  PROVE  \A k \in 0..n : f[k] = g[k]
<1> DEFINE S == {k \in 0..n : f[k] = g[k]}
<1>1. 0 \in S
  BY DEF Sums
<1>2. ASSUME NEW k \in 0..(n - 1), k \in S
      PROVE  k + 1 \in S
  <2>1. k + 1 \in 1..n /\ (k + 1) - 1 = k
    OBVIOUS
  <2>2. f[k + 1] = f[k] + w[k + 1] /\ g[k + 1] = g[k] + v[k + 1]
    BY <2>1 DEF Sums
  <2>3. f[k] = g[k] /\ w[k + 1] = v[k + 1]
    BY <1>2, <2>1
  <2> QED
    BY <2>1, <2>2, <2>3
<1>3. \A k \in 0..n : k \in S
  <2> HIDE DEF S
  <2> QED
    BY <1>1, <1>2, UpTo
<1> QED
  BY <1>3

LEMMA SumsExist ==
  ASSUME NEW n \in Nat, NEW b \in Nat, NEW w, \A k \in 1..n : w[k] \in Nat
  PROVE  \E f \in [0..n -> Nat] : Sums(f, b, w, n)
<1> DEFINE S == {m \in 0..n : \E f \in [0..m -> Nat] : Sums(f, b, w, m)}
<1>1. 0 \in S
  <2>1. [k \in 0..0 |-> b] \in [0..0 -> Nat] /\ Sums([k \in 0..0 |-> b], b, w, 0)
    BY DEF Sums
  <2> QED
    BY <2>1
<1>2. ASSUME NEW m \in 0..(n - 1), m \in S
      PROVE  m + 1 \in S
  <2>1. PICK f \in [0..m -> Nat] : Sums(f, b, w, m)
    BY <1>2
  <2> DEFINE g == [k \in 0..(m + 1) |-> IF k = m + 1 THEN f[m] + w[m + 1] ELSE f[k]]
  <2>2. m + 1 \in 1..n /\ m \in Nat /\ (m + 1) - 1 = m
    OBVIOUS
  <2>3. g[m + 1] = g[m] + w[m + 1] /\ \A k \in 0..m : g[k] = f[k]
    BY <2>2
  <2>4. g \in [0..(m + 1) -> Nat]
    BY <2>1, <2>2
  <2>5. \A k \in 1..(m + 1) : g[k] = g[k - 1] + w[k]
    <3> TAKE k \in 1..(m + 1)
    <3> HIDE DEF g
    <3>1. CASE k = m + 1
      BY <2>2, <2>3, <3>1
    <3>2. CASE k # m + 1
      <4>1. k \in 1..m /\ k \in 0..m /\ k - 1 \in 0..m
        BY <2>2, <3>2
      <4> QED
        BY <2>1, <2>3, <4>1 DEF Sums
    <3> QED
      BY <3>1, <3>2
  <2>6. g[0] = b
    <3> HIDE DEF g
    <3>1. 0 \in 0..m
      BY <2>2
    <3> QED
      BY <2>1, <2>3, <3>1 DEF Sums
  <2>7. Sums(g, b, w, m + 1)
    <3> HIDE DEF g
    <3> QED
      BY <2>5, <2>6 DEF Sums
  <2> HIDE DEF g
  <2> QED
    BY <2>2, <2>4, <2>7
<1>3. \A k \in 0..n : k \in S
  <2> HIDE DEF S
  <2> QED
    BY <1>1, <1>2, UpTo
<1>4. n \in S
  <2> HIDE DEF S
  <2> QED
    BY <1>3
<1> QED
  BY <1>4

(* What a function reaches that starts at b and goes on by d[1], d[2], ...  *)
Runs(f, b, d, n) == f[0] = b /\ \A k \in 1..n : f[k] = d[k][f[k - 1]]

LEMMA RunsUnique ==
  ASSUME NEW n \in Nat, NEW f, NEW g, NEW b, NEW d, Runs(f, b, d, n), Runs(g, b, d, n)
  PROVE  \A k \in 0..n : f[k] = g[k]
<1> DEFINE S == {k \in 0..n : f[k] = g[k]}
<1>1. 0 \in S
  BY DEF Runs
<1>2. ASSUME NEW k \in 0..(n - 1), k \in S
      PROVE  k + 1 \in S
  <2>1. k + 1 \in 1..n /\ (k + 1) - 1 = k
    OBVIOUS
  <2>2. f[k + 1] = d[k + 1][f[k]] /\ g[k + 1] = d[k + 1][g[k]]
    BY <2>1 DEF Runs
  <2>3. f[k] = g[k]
    BY <1>2
  <2> QED
    BY <2>1, <2>2, <2>3
<1>3. \A k \in 0..n : k \in S
  <2> HIDE DEF S
  <2> QED
    BY <1>1, <1>2, UpTo
<1> QED
  BY <1>3

LEMMA RunsExist ==
  ASSUME NEW n \in Nat, NEW T, NEW b \in T, NEW d, \A k \in 1..n : d[k] \in [T -> T]
  PROVE  \E f \in [0..n -> T] : Runs(f, b, d, n)
<1> DEFINE S == {m \in 0..n : \E f \in [0..m -> T] : Runs(f, b, d, m)}
<1>1. 0 \in S
  <2>1. [k \in 0..0 |-> b] \in [0..0 -> T] /\ Runs([k \in 0..0 |-> b], b, d, 0)
    BY DEF Runs
  <2> QED
    BY <2>1
<1>2. ASSUME NEW m \in 0..(n - 1), m \in S
      PROVE  m + 1 \in S
  <2>1. PICK f \in [0..m -> T] : Runs(f, b, d, m)
    BY <1>2
  <2> DEFINE g == [k \in 0..(m + 1) |-> IF k = m + 1 THEN d[m + 1][f[m]] ELSE f[k]]
  <2>2. m + 1 \in 1..n /\ m \in Nat /\ (m + 1) - 1 = m
    OBVIOUS
  <2>3. g[m + 1] = d[m + 1][g[m]] /\ \A k \in 0..m : g[k] = f[k]
    BY <2>2
  <2>4. g \in [0..(m + 1) -> T]
    <3>1. d[m + 1] \in [T -> T] /\ f[m] \in T
      BY <2>1, <2>2
    <3> QED
      BY <2>1, <2>2, <3>1
  <2>5. \A k \in 1..(m + 1) : g[k] = d[k][g[k - 1]]
    <3> TAKE k \in 1..(m + 1)
    <3> HIDE DEF g
    <3>1. CASE k = m + 1
      BY <2>2, <2>3, <3>1
    <3>2. CASE k # m + 1
      <4>1. k \in 1..m /\ k \in 0..m /\ k - 1 \in 0..m
        BY <2>2, <3>2
      <4> QED
        BY <2>1, <2>3, <4>1 DEF Runs
    <3> QED
      BY <3>1, <3>2
  <2>6. g[0] = b
    <3> HIDE DEF g
    <3>1. 0 \in 0..m
      BY <2>2
    <3> QED
      BY <2>1, <2>3, <3>1 DEF Runs
  <2>7. Runs(g, b, d, m + 1)
    <3> HIDE DEF g
    <3> QED
      BY <2>5, <2>6 DEF Runs
  <2> HIDE DEF g
  <2> QED
    BY <2>2, <2>4, <2>7
<1>3. \A k \in 0..n : k \in S
  <2> HIDE DEF S
  <2> QED
    BY <1>1, <1>2, UpTo
<1>4. n \in S
  <2> HIDE DEF S
  <2> QED
    BY <1>3
<1> QED
  BY <1>4
=============================================================================
