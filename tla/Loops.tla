------------------------------------ MODULE Loops -----------------------------
(***************************************************************************)
(* Induction and recursion over the indices of a loop, stated with sets    *)
(* and functions: what the proofs about loops and recursive functions of   *)
(* the models rest on.                                                     *)
(***************************************************************************)
EXTENDS Integers, WellFoundedInduction, TLAPS

(* Every set of numbers that is not empty has a least one. *)
LEMMA LeastNat ==
    ASSUME NEW T, T \subseteq Nat, T # {}
    PROVE  \E m \in T : \A k \in T : m <= k
<1>1. PICK x \in T : \A y \in T : ~ (<<y, x>> \in OpToRel(<, Nat))
  BY NatLessThanWellFounded, WFMin
<1>2. \A y \in T : ~(y < x)
  BY <1>1 DEF OpToRel
<1> QED BY <1>2

(* What holds before the loop and is kept by each round holds throughout. *)
LEMMA LoopInduction ==
    ASSUME NEW k \in Nat, NEW T, 0 \in T, \A i \in 0 .. (k - 1) : i \in T => i + 1 \in T
    PROVE  0 .. k \subseteq T
<1> DEFINE U == (0 .. k) \ T
<1> SUFFICES ASSUME U # {} PROVE FALSE
  OBVIOUS
<1>0. U \subseteq Nat
  OBVIOUS
<1> HIDE DEF U
<1>1. PICK m \in U : \A i \in U : m <= i
  BY <1>0, LeastNat
<1> USE DEF U
<1>2. m # 0 /\ m - 1 \in 0 .. (k - 1)
  BY <1>1
<1>3. m - 1 \in T
  BY <1>1, <1>2
<1> QED BY <1>1, <1>2, <1>3

(* A loop of k rounds over states in V: G[i] is what round i does, f the    *)
(* states it goes through from v on.                                       *)
Rounds(k, V) == [1 .. k -> [V -> V]]
Runs(k, V, v, G, f) ==
    f \in [0 .. k -> V] /\ f[0] = v /\ \A i \in 1 .. k : f[i] = G[i][f[i - 1]]

LEMMA LoopStates ==
    ASSUME NEW k \in Nat, NEW V, NEW v \in V, NEW G \in Rounds(k, V)
    PROVE  \E f : Runs(k, V, v, G, f)
<1> USE DEF Rounds
<1> DEFINE Run(j, f) == f[0] = v /\ \A i \in 1 .. j : f[i] = G[i][f[i - 1]]
           T == {j \in 0 .. k : \E f \in [0 .. j -> V] : Run(j, f)}
<1>1. 0 \in T
  <2>1. PICK f \in [0 .. 0 -> V] : f = [i \in 0 .. 0 |-> v]
    OBVIOUS
  <2>2. Run(0, f)
    BY <2>1
  <2> HIDE DEF Run
  <2>3. 0 \in 0 .. k
    OBVIOUS
  <2> QED BY <2>2, <2>3
<1>2. ASSUME NEW j \in 0 .. (k - 1), j \in T PROVE j + 1 \in T
  <2>1. PICK f \in [0 .. j -> V] : Run(j, f)
    BY <1>2
  <2> DEFINE g == [i \in 0 .. (j + 1) |-> IF i = j + 1 THEN G[j + 1][f[j]] ELSE f[i]]
  <2>2. G[j + 1][f[j]] \in V
    <3>1. f[j] \in V /\ j + 1 \in 1 .. k
      OBVIOUS
    <3> QED BY <3>1
  <2>3. g \in [0 .. (j + 1) -> V]
    BY <2>2
  <2>4. \A i \in 0 .. j : g[i] = f[i]
    OBVIOUS
  <2>5. g[j + 1] = G[j + 1][f[j]]
    OBVIOUS
  <2>6. Run(j + 1, g)
    <3> HIDE DEF g
    <3>1. g[0] = v
      BY <2>1, <2>4
    <3>2. \A i \in 1 .. (j + 1) : g[i] = G[i][g[i - 1]]
      BY <2>1, <2>4, <2>5
    <3> QED BY <3>1, <3>2
  <2> HIDE DEF g, Run
  <2> QED BY <2>3, <2>6
<1>3. 0 .. k \subseteq T
  <2> HIDE DEF T
  <2> QED BY <1>1, <1>2, LoopInduction
<1>4. PICK f \in [0 .. k -> V] : Run(k, f)
  BY <1>3
<1>5. Runs(k, V, v, G, f)
  BY <1>4 DEF Runs
<1> QED BY <1>5
(* A sequence of states that follows the loop as long as it stays in V does *)
(* stay there.                                                             *)
LEMMA LoopEnds ==
    ASSUME NEW k \in Nat, NEW V, NEW r, r[0] \in V,
           \A i \in 1 .. k : r[i - 1] \in V => r[i] \in V
    PROVE  r[k] \in V
<1> DEFINE T == {i \in 0 .. k : r[i] \in V}
<1>1. 0 \in T
  OBVIOUS
<1>2. ASSUME NEW i \in 0 .. (k - 1), i \in T PROVE i + 1 \in T
  <2>1. i + 1 \in 1 .. k /\ (i + 1) - 1 = i
    OBVIOUS
  <2>2. r[i + 1] \in V
    BY <1>2, <2>1
  <2> QED BY <2>1, <2>2
<1> HIDE DEF T
<1>3. 0 .. k \subseteq T
  BY <1>1, <1>2, LoopInduction
<1> USE DEF T
<1>4. k \in 0 .. k
  OBVIOUS
<1> QED BY <1>3, <1>4
=============================================================================
