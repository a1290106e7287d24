-------------------------- MODULE RecursionLemmas --------------------------
(***************************************************************************)
(* Induction over numbers, and functions defined by recursion over them.   *)
(***************************************************************************)
EXTENDS Naturals, TLAPS, WellFoundedInduction

(* A set of numbers has a least one.                                       *)
LEMMA LeastNumber ==
    ASSUME NEW T \in SUBSET Nat, T # {}
    PROVE  \E m \in T : \A k \in T : m <= k
<1> DEFINE Less == {ss \in Nat \X Nat : ss[1] < ss[2]}
<1>1. IsWellFoundedOn(Less, Nat)
  BY NatLessThanWellFounded DEF OpToRel
<1> HIDE DEF Less
<1>2. \E m \in T : \A k \in T : ~ (<<k, m>> \in Less)
  BY <1>1, WFMin
<1>3. \A m, k \in T : <<k, m>> \notin Less => m <= k
  BY DEF Less
<1> QED
  BY <1>2, <1>3

(* What holds of 0 and goes from each number to the next holds up to n.    *)
LEMMA UpTo ==
    ASSUME NEW n \in Nat, NEW K, 0 \in K,
           \A i \in 1..n : i - 1 \in K => i \in K
    PROVE  0..n \subseteq K
<1> DEFINE T == (0..n) \ K
<1> SUFFICES ASSUME T # {} PROVE FALSE
  OBVIOUS
<1>1. PICK m \in T : \A k \in T : m <= k
  <2>1. T \in SUBSET Nat
    OBVIOUS
  <2> HIDE DEF T
  <2> QED
    BY <2>1, LeastNumber
<1>2. m \in 1..n
  BY <1>1
<1>3. m - 1 \in 0..n /\ m - 1 < m
  BY <1>2
<1> QED
  BY <1>1, <1>2, <1>3

(* What holds of n and goes from each number to the one before holds from  *)
(* 0 to n.                                                                 *)
LEMMA DownFrom ==
    ASSUME NEW n \in Nat, NEW K, n \in K,
           \A i \in 1..n : i \in K => i - 1 \in K
    PROVE  0..n \subseteq K
<1> DEFINE J == {j \in 0..n : n - j \in K}
<1>1. 0 \in J
  OBVIOUS
<1>2. ASSUME NEW j \in 1..n, j - 1 \in J PROVE j \in J
  <2>1. n - (j - 1) \in 1..n /\ (n - (j - 1)) - 1 = n - j /\ j \in 0..n
    OBVIOUS
  <2> QED
    BY <1>2, <2>1
<1> HIDE DEF J
<1>3. 0..n \subseteq J
  BY <1>1, <1>2, UpTo
<1>4. ASSUME NEW i \in 0..n PROVE i \in K
  <2>1. n - i \in 0..n /\ n - (n - i) = i
    OBVIOUS
  <2> QED
    BY <1>3, <2>1 DEF J
<1> QED
  BY <1>4

(* A function that starts at s0 and goes on by F.                          *)
Iterates(g, n, s0, F) ==
    /\ g[0] = s0
    /\ \A j \in 1..n : g[j] = F[<<j, g[j - 1]>>]

(* A function on 0..n may be defined by recursion.                         *)
LEMMA RecursionExists ==
    ASSUME NEW n \in Nat, NEW S, NEW s0 \in S, NEW F \in [(1..n) \X S -> S]
    PROVE  \E g \in [0..n -> S] : Iterates(g, n, s0, F)
<1> DEFINE K == {i \in 0..n : \E g \in [0..i -> S] : Iterates(g, i, s0, F)}
<1>1. 0 \in K
  <2> DEFINE g == [j \in 0..0 |-> s0]
  <2>1. g \in [0..0 -> S] /\ g[0] = s0 /\ 0 \in 0..n /\ 1..0 = {}
    OBVIOUS
  <2> HIDE DEF g
  <2> QED
    BY <2>1 DEF Iterates
<1>2. ASSUME NEW i \in 1..n, i - 1 \in K PROVE i \in K
  <2>1. PICK g \in [0..(i - 1) -> S] : Iterates(g, i - 1, s0, F)
    BY <1>2
  <2> DEFINE h == [j \in 0..i |-> IF j = i THEN F[<<i, g[i - 1]>>] ELSE g[j]]
  <2>2. i - 1 \in 0..(i - 1) /\ i \in Nat /\ i \in 0..n
    OBVIOUS
  <2>3. g[i - 1] \in S /\ F[<<i, g[i - 1]>>] \in S
    BY <2>2
  <2>4. h \in [0..i -> S]
    BY <2>2, <2>3
  <2>5. h[0] = s0
    BY <2>1, <2>2 DEF Iterates
  <2>6. ASSUME NEW j \in 1..i PROVE h[j] = F[<<j, h[j - 1]>>]
    <3>1. CASE j = i
      <4>1. h[i] = F[<<i, g[i - 1]>>] /\ i - 1 \in 0..i /\ i - 1 # i
        BY <2>2
      <4> QED
        BY <3>1, <4>1
    <3>2. CASE j # i
      <4>1. j \in 1..(i - 1) /\ j - 1 \in 0..i /\ j - 1 # i /\ j \in 0..i
        BY <2>2, <3>2
      <4> QED
        BY <2>1, <3>2, <4>1 DEF Iterates
    <3> QED
      BY <3>1, <3>2
  <2> QED
    BY <2>2, <2>4, <2>5, <2>6 DEF Iterates
<1> HIDE DEF K
<1>3. 0..n \subseteq K
  BY <1>1, <1>2, UpTo
<1>4. n \in K
  BY <1>3
<1> QED
  BY <1>4 DEF K
=============================================================================
