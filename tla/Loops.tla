------------------------------- MODULE Loops --------------------------------
(***************************************************************************)
(* Induction and recursion up to a bound, for the loops that the modules   *)
(* write as recursive functions.                                           *)
(***************************************************************************)
EXTENDS Integers, Sequences, FiniteSets, FiniteSetTheorems, WellFoundedInduction, TLAPS

\* A set of numbers that is not empty has a least one.
LEMMA LeastNat ==
    ASSUME NEW S \in SUBSET Nat, S # {}
    PROVE  \E i \in S : \A k \in S : i <= k
<1>1. PICK i \in S : \A k \in S : ~ (<<k, i>> \in OpToRel(<, Nat))
  BY NatLessThanWellFounded, WFMin
<1>2. \A k \in S : ~ (k < i)
  BY <1>1 DEF OpToRel
<1> QED BY <1>2

\* Induction up to a bound.
LEMMA UpTo ==
    ASSUME NEW N \in Nat, NEW T \in SUBSET (0 .. N), 0 \in T,
           \A k \in 1 .. N : k - 1 \in T => k \in T
    PROVE  T = 0 .. N
<1> DEFINE Bad == (0 .. N) \ T
<1> SUFFICES ASSUME Bad # {} PROVE FALSE
  OBVIOUS
<1>1. Bad \in SUBSET Nat
  OBVIOUS
<1>2. PICK k \in Bad : \A j \in Bad : k <= j
  BY <1>1, LeastNat
<1>3. k \in 1 .. N /\ k - 1 \in 0 .. N
  BY <1>2
<1>4. ~ (k <= k - 1)
  BY <1>3
<1>5. k - 1 \in T
  BY <1>2, <1>3, <1>4
<1> QED BY <1>2, <1>3, <1>5

\* f holds the values of a loop that starts with a and takes N turns of G.
LoopOf(f, S, a, N, G) ==
    /\ f \in [0 .. N -> S]
    /\ f[0] = a
    /\ \A n \in 1 .. N : f[n] = G[<<f[n - 1], n>>]

\* A loop that computes each value from the one before it computes them all.
LEMMA LoopExists ==
    ASSUME NEW S, NEW a \in S, NEW N \in Nat, NEW G \in [S \X (1 .. N) -> S]
    PROVE  \E f : LoopOf(f, S, a, N, G)
<1> DEFINE Upto(k) == \E f \in [0 .. k -> S] :
             f[0] = a /\ \A n \in 1 .. k : f[n] = G[<<f[n - 1], n>>]
           T == {k \in 0 .. N : Upto(k)}
<1>1. 0 \in T
  <2>1. [n \in 0 .. 0 |-> a] \in [0 .. 0 -> S]
    OBVIOUS
  <2>2. Upto(0)
    <3> WITNESS [n \in 0 .. 0 |-> a] \in [0 .. 0 -> S]
    <3> QED OBVIOUS
  <2> QED BY <2>2
<1>2. ASSUME NEW k \in 1 .. N, k - 1 \in T PROVE k \in T
  <2>1. PICK f \in [0 .. k - 1 -> S] :
           f[0] = a /\ \A n \in 1 .. k - 1 : f[n] = G[<<f[n - 1], n>>]
    BY <1>2
  <2> DEFINE g == [n \in 0 .. k |-> IF n = k THEN G[<<f[k - 1], k>>] ELSE f[n]]
  <2>2. G[<<f[k - 1], k>>] \in S
    BY <2>1
  <2>3. g \in [0 .. k -> S]
    BY <2>1, <2>2
  <2>4. g[0] = a
    BY <2>1
  <2>5. ASSUME NEW n \in 1 .. k PROVE g[n] = G[<<g[n - 1], n>>]
    <3>1. CASE n = k
      <4>1. k \in 0 .. k /\ k - 1 \in 0 .. k /\ k - 1 # k
        OBVIOUS
      <4>2. g[k] = G[<<f[k - 1], k>>] /\ g[k - 1] = f[k - 1]
        BY <4>1
      <4> QED BY ONLY <3>1, <4>2
    <3>2. CASE n # k
      <4>1. n \in 1 .. k - 1 /\ n - 1 \in 0 .. k /\ n - 1 # k /\ n \in 0 .. k
        BY <3>2
      <4>2. f[n] = G[<<f[n - 1], n>>]
        BY <2>1, <4>1
      <4>3. g[n] = f[n] /\ g[n - 1] = f[n - 1]
        BY <3>2, <4>1
      <4> QED BY ONLY <4>2, <4>3
    <3> QED BY <3>1, <3>2
  <2>6. Upto(k)
    BY <2>3, <2>4, <2>5
  <2> QED BY <2>6
<1>3. T = 0 .. N
  <2> HIDE DEF T
  <2>1. T \in SUBSET (0 .. N)
    BY DEF T
  <2> QED BY <1>1, <1>2, <2>1, UpTo
<1>4. PICK f \in [0 .. N -> S] :
         f[0] = a /\ \A n \in 1 .. N : f[n] = G[<<f[n - 1], n>>]
  <2>1. N \in T
    <3> HIDE DEF T
    <3>1. N \in 0 .. N
      OBVIOUS
    <3> QED BY ONLY <1>3, <3>1
  <2> QED BY <2>1
<1> QED BY <1>4 DEF LoopOf

\* A function whose values stay in S from turn to turn.
LEMMA LoopTyped ==
    ASSUME NEW S, NEW a \in S, NEW N \in Nat, NEW f,
           f = [n \in 0 .. N |-> f[n]], f[0] = a,
           \A n \in 1 .. N : f[n - 1] \in S => f[n] \in S
    PROVE  f \in [0 .. N -> S]
<1> DEFINE T == {n \in 0 .. N : f[n] \in S}
<1>1. 0 \in T
  OBVIOUS
<1>2. \A n \in 1 .. N : n - 1 \in T => n \in T
  OBVIOUS
<1>3. T \in SUBSET (0 .. N)
  OBVIOUS
<1> HIDE DEF T
<1>4. T = 0 .. N
  BY ONLY <1>1, <1>2, <1>3, N \in Nat, UpTo
<1>5. \A n \in 0 .. N : f[n] \in S
  BY <1>4 DEF T
<1> QED BY ONLY <1>5, f = [n \in 0 .. N |-> f[n]]
=============================================================================
