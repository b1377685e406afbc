----------------------------- MODULE LoopProofs -----------------------------
(***************************************************************************)
(* Loops of a known number of rounds, written as recursive functions on    *)
(* 0..n: they have a value after every round, and what one round keeps     *)
(* holds after all of them.  What is kept is given as a set of rounds and  *)
(* a loop's body as a function, so that both can be instantiated.          *)
(***************************************************************************)
EXTENDS Naturals, WellFoundedInduction, TLAPS

(* Induction over the rounds of a loop, for a set of round numbers.          *)
LEMMA RoundInduction ==
    ASSUME NEW n \in Nat, NEW P, 0 \in P, \A i \in 1..n : i - 1 \in P => i \in P
    PROVE  0..n \subseteq P
<1> DEFINE B == 0..n \ P
<1> SUFFICES ASSUME B # {} PROVE FALSE
  OBVIOUS
<1>1. B \subseteq Nat
  OBVIOUS
<1>2. PICK j \in B : \A k \in B : <<k, j>> \notin OpToRel(<, Nat)
  BY <1>1, WFMin, NatLessThanWellFounded
<1>3. j \in 1..n /\ j - 1 \in 0..n /\ j - 1 < j /\ j - 1 \in Nat /\ j \in Nat
  OBVIOUS
<1>4. <<j - 1, j>> \in OpToRel(<, Nat)
  BY <1>3 DEF OpToRel
<1>5. j - 1 \in P
  BY <1>2, <1>3, <1>4
<1> QED
  BY <1>2, <1>3, <1>5

(* The values that a loop of n rounds has after each of them, from base on. *)
Runs(n, S, base, round) ==
    {g \in [0..n -> S] : g[0] = base /\ \A i \in 1..n : g[i] = round[<<g[i - 1], i>>]}

(* A loop whose rounds stay in S has a value after every round. *)
LEMMA LoopRuns ==
    ASSUME NEW n \in Nat, NEW S, NEW base \in S, NEW round \in [S \X (1..n) -> S]
    PROVE  Runs(n, S, base, round) # {}
<1> DEFINE R(k, g) == g[0] = base /\ \A i \in 1..k : g[i] = round[<<g[i - 1], i>>]
           P == {k \in 0..n : \E g \in [0..k -> S] : R(k, g)}
<1>1. 0 \in P
  <2> DEFINE g == [i \in 0..0 |-> base]
  <2>1. g \in [0..0 -> S] /\ R(0, g) /\ 0 \in 0..n
    OBVIOUS
  <2> HIDE DEF g, R
  <2> QED
    BY <2>1
<1>2. ASSUME NEW k \in 1..n, k - 1 \in P PROVE k \in P
  <2>1. PICK g \in [0..k - 1 -> S] : R(k - 1, g)
    BY <1>2
  <2> DEFINE h == [i \in 0..k |-> IF i = k THEN round[<<g[k - 1], k>>] ELSE g[i]]
  <2>2. g[k - 1] \in S /\ round[<<g[k - 1], k>>] \in S
    OBVIOUS
  <2>3. h \in [0..k -> S]
    BY <2>2
  <2>4. /\ h[k] = round[<<g[k - 1], k>>]
        /\ \A i \in 0..k - 1 : h[i] = g[i]
    OBVIOUS
  <2> HIDE DEF h
  <2>5. ASSUME NEW i \in 1..k PROVE h[i] = round[<<h[i - 1], i>>]
    <3>1. CASE i = k
      BY <2>4, <3>1
    <3>2. CASE i # k
      <4>1. i \in 1..k - 1 /\ i \in 0..k - 1 /\ i - 1 \in 0..k - 1
        BY <3>2
      <4> QED
        BY <2>1, <2>4, <4>1
    <3> QED
      BY <3>1, <3>2
  <2>6. h[0] = base
    BY <2>1, <2>4
  <2>7. R(k, h)
    BY <2>5, <2>6
  <2> QED
    BY <2>3, <2>7
<1>3. n \in P
  <2>1. 0..n \subseteq P
    <3> HIDE DEF P
    <3> QED
      BY <1>1, <1>2, RoundInduction
  <2> QED
    BY <2>1
<1>4. PICK g \in [0..n -> S] : R(n, g)
  BY <1>3
<1> QED
  BY <1>4 DEF Runs
=============================================================================
