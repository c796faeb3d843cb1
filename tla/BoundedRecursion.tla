-------------------------- MODULE BoundedRecursion --------------------------
(***************************************************************************)
(* Facts about natural numbers that the proofs about the loops of parsers.py *)
(* and models.py rest on: least elements, induction up to a bound, and the    *)
(* existence of a function defined by recursion on how far a loop has come.   *)
(***************************************************************************)
EXTENDS Integers, FiniteSetsExt, TLAPS, WellFoundedInduction

\* A nonempty set of naturals has a least element: < is well-founded.
LEMMA LeastNatural ==
    ASSUME NEW S \in SUBSET Nat, S # {}
    PROVE  \E m \in S : \A n \in S : m <= n
<1> DEFINE Less == OpToRel(<, Nat)
<1>1. \A x, y \in Nat : x < y => <<x, y>> \in Less
  BY DEF OpToRel
<1>2. PICK m \in S : \A n \in S : <<n, m>> \notin Less
  <2>1. IsWellFoundedOn(Less, Nat)
    BY NatLessThanWellFounded
  <2> QED BY <2>1, WFMin
<1> HIDE DEF Less
<1>3. \A n \in S : ~(n < m)
  BY <1>1, <1>2
<1> QED BY <1>2, <1>3

LEMMA MinOfNaturals ==
    ASSUME NEW S \in SUBSET Nat, S # {}
    PROVE  Min(S) \in S /\ \A n \in S : Min(S) <= n
BY LeastNatural DEF Min

\* A nonempty set of naturals below a bound has a greatest element.
LEMMA GreatestNatural ==
    ASSUME NEW b \in Nat, NEW S \in SUBSET (0..b), S # {}
    PROVE  \E m \in S : \A n \in S : n <= m
<1> DEFINE Below == {b - n : n \in S}
<1>1. Below \in SUBSET Nat /\ Below # {}
  <2>1. \A n \in S : b - n \in Nat
    OBVIOUS
  <2> QED BY <2>1
<1>2. \A n \in S : b - n \in Below
  OBVIOUS
<1>3. PICK d \in Below : \A e \in Below : d <= e
  <2> HIDE DEF Below
  <2> QED BY <1>1, LeastNatural
<1>4. PICK m \in S : d = b - m
  BY <1>3
<1> HIDE DEF Below
<1>5. \A n \in S : n <= m
  BY <1>2, <1>3, <1>4
<1> QED BY <1>4, <1>5

\* What holds at 0 and is handed on by every step up to n holds up to n.
LEMMA InductionUpTo ==
    ASSUME NEW n \in Nat, NEW S, 0 \in S, \A k \in 1..n : k - 1 \in S => k \in S
    PROVE  \A k \in 0..n : k \in S
<1> DEFINE Out == {k \in 0..n : k \notin S}
<1>1. SUFFICES ASSUME Out # {} PROVE FALSE
  OBVIOUS
<1>2. Out \in SUBSET Nat /\ \A k \in 0..n : k \in Out <=> k \notin S
  OBVIOUS
<1>3. Out \subseteq 0..n
  OBVIOUS
<1> HIDE DEF Out
<1>4. PICK m \in Out : \A k \in Out : m <= k
  BY <1>1, <1>2, LeastNatural
<1>5. m \in 1..n /\ m - 1 \in 0..n /\ ~(m <= m - 1)
  BY <1>2, <1>3, <1>4
<1> QED BY <1>2, <1>4, <1>5

\* The states g of a loop over n items that begins with base, keeps its state in
\* V and goes on from the state s to Step[<<s, k>>] at item k.
Runs(g, n, V, base, Step) ==
    /\ g \in [0..n -> V]
    /\ g[0] = base /\ \A k \in 1..n : g[k] = Step[<<g[k - 1], k>>]

\* The states are a function of how many items have been read.
LEMMA RecursionExists ==
    ASSUME NEW n \in Nat, NEW V, NEW base \in V, NEW Step \in [V \X (1..n) -> V]
    PROVE  \E g : Runs(g, n, V, base, Step)
<1> DEFINE S == {m \in 0..n : \E g : Runs(g, m, V, base, Step)}
<1>1. Runs([k \in 0..0 |-> base], 0, V, base, Step)
  BY DEF Runs
<1>2. ASSUME NEW m \in 1..n, NEW g, Runs(g, m - 1, V, base, Step)
      PROVE  \E h : Runs(h, m, V, base, Step)
  <2> DEFINE h == [k \in 0..m |-> IF k = m THEN Step[<<g[m - 1], m>>] ELSE g[k]]
  <2>1. g[m - 1] \in V /\ Step[<<g[m - 1], m>>] \in V
    BY <1>2 DEF Runs
  <2>2. h \in [0..m -> V]
    BY <1>2, <2>1 DEF Runs
  <2>3. h[0] = base
    BY <1>2 DEF Runs
  <2>4. ASSUME NEW k \in 1..m PROVE h[k] = Step[<<h[k - 1], k>>]
    <3>1. h[k - 1] = g[k - 1]
      BY <1>2
    <3>2. k # m => k \in 1..(m - 1) /\ h[k] = g[k]
      BY <1>2
    <3>3. k = m => h[k] = Step[<<g[m - 1], m>>]
      OBVIOUS
    <3> QED BY <1>2, <3>1, <3>2, <3>3 DEF Runs
  <2> HIDE DEF h
  <2>5. Runs(h, m, V, base, Step)
    BY <2>2, <2>3, <2>4 DEF Runs
  <2> QED BY <2>5
<1>3. 0 \in S
  BY <1>1
<1>4. ASSUME NEW k \in 1..n, k - 1 \in S PROVE k \in S
  BY <1>2, <1>4
<1>5. \A k \in 0..n : k \in S
  <2> HIDE DEF S
  <2> QED BY <1>3, <1>4, InductionUpTo
<1> QED BY <1>5
=============================================================================
