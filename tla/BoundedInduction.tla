--------------------------- MODULE BoundedInduction ----------------------------
(***************************************************************************)
(* Induction over the numbers up to a bound, as facts about sets: theorems *)
(* that take an operator as a parameter cannot be used.                    *)
(***************************************************************************)
EXTENDS Integers, FiniteSetTheorems, WellFoundedInduction, TLAPS

\* A set of naturals below a bound has a least element.
LEMMA LeastNat ==
  ASSUME NEW N \in Nat, NEW T \in SUBSET (0 .. N), T # {}
  PROVE  \E x \in T : \A y \in T : x =< y
<1> DEFINE S == 0 .. N
           Down(x) == {k \in T : k =< x}
           D == {Down(x) : x \in T}
<1>1. IsFiniteSet(S)
  BY FS_Interval
<1>2. IsWellFoundedOn(StrictSubsetOrdering(S), FiniteSubsetsOf(S))
  BY FS_StrictSubsetOrderingWellFounded
<1>3. D \subseteq FiniteSubsetsOf(S) /\ D # {}
  <2>1. D \subseteq SUBSET S /\ D # {}
    OBVIOUS
  <2>2. SUBSET S = FiniteSubsetsOf(S)
    BY <1>1, FS_FiniteSubsetsOfFinite
  <2> QED BY <2>1, <2>2
<1> HIDE DEF D
<1>4. PICK d \in D : \A e \in D : <<e, d>> \notin StrictSubsetOrdering(S)
  BY <1>2, <1>3, WFMin
<1>5. PICK x \in T : d = Down(x)
  BY DEF D
<1>6. ASSUME NEW y \in T, ~(x =< y) PROVE FALSE
  <2>1. Down(y) \in D
    BY DEF D
  <2>2. x \in Int /\ y \in Int /\ \A k \in T : k \in Int
    OBVIOUS
  <2>3. x \in Down(x) /\ x \notin Down(y)
    BY <1>6, <2>2
  <2>4. \A k \in T : k =< y => k =< x
    BY <1>6, <2>2
  <2>5. Down(y) \subseteq Down(x)
    BY <2>4
  <2>6. Down(x) \in SUBSET S /\ Down(y) \in SUBSET S
    OBVIOUS
  <2>7. <<Down(y), Down(x)>> \in StrictSubsetOrdering(S)
    <3> HIDE DEF Down, S
    <3> QED BY <2>3, <2>5, <2>6 DEF StrictSubsetOrdering
  <2> QED BY <1>4, <1>5, <2>1, <2>7
<1> QED BY <1>6

\* What holds of 0 and is handed on from each number to the next holds up to any bound:
\* the least number it did not hold of would have a predecessor.
LEMMA UpTo ==
  ASSUME NEW N \in Nat, NEW G, 0 \in G, \A j \in 1 .. N : j - 1 \in G => j \in G
  PROVE  0 .. N \subseteq G
<1> DEFINE Rest == (0 .. N) \ G
<1> SUFFICES ASSUME Rest # {} PROVE FALSE
  OBVIOUS
<1>1. PICK m \in Rest : \A j \in Rest : m =< j
  <2>1. Rest \in SUBSET (0 .. N)
    OBVIOUS
  <2> HIDE DEF Rest
  <2> QED BY <2>1, LeastNat
<1>2. m \in 1 .. N /\ m - 1 \in 0 .. N /\ m - 1 < m
  OBVIOUS
<1>3. m - 1 \in G
  BY <1>1, <1>2
<1> QED BY <1>2, <1>3

================================================================================
