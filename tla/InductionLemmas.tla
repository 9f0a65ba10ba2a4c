-------------------------- MODULE InductionLemmas ---------------------------
(***************************************************************************)
(* Induction over the natural numbers for the proofs of this project.  The *)
(* library states it for an operator; here it is stated for a set, from    *)
(* the well-foundedness of <, so that first-order provers can use it.  And *)
(* what the greatest number of a set is, and a list that grows.            *)
(***************************************************************************)
EXTENDS Integers, Sequences, WellFoundedInduction, TLAPS

\* Every non-empty set of natural numbers has a least element.
LEMMA LeastNat ==
  ASSUME NEW S \in SUBSET Nat, S # {}
  PROVE  \E n \in S : \A m \in S : n <= m
<1> DEFINE Less == {p \in Nat \X Nat : p[1] < p[2]}
<1>1. IsWellFoundedOn(Less, Nat)
  BY NatLessThanWellFounded, Zenon DEF OpToRel
<1>2. PICK n \in S : \A m \in S : <<m, n>> \notin Less
  <2> HIDE DEF Less
  <2> QED BY <1>1, WFMin
<1>3. \A m \in S : ~(m < n)
  BY <1>2
<1> QED BY <1>3

\* A set that contains 0, and with each number the next, is all of Nat.
LEMMA SetInduction ==
  ASSUME NEW S \in SUBSET Nat, 0 \in S, \A n \in S : n + 1 \in S
  PROVE  S = Nat
<1> SUFFICES ASSUME Nat \ S # {} PROVE FALSE
  OBVIOUS
<1>1. PICK n \in Nat \ S : \A m \in Nat \ S : n <= m
  BY LeastNat
<1>2. n - 1 \in S
  BY <1>1
<1> QED BY <1>1, <1>2

\* Induction up to a bound.
LEMMA BoundedInduction ==
  ASSUME NEW k \in Nat, NEW S, 0 \in S, \A n \in 0 .. k - 1 : n \in S => n + 1 \in S
  PROVE  \A n \in 0 .. k : n \in S
<1> DEFINE T == {n \in Nat : n <= k => n \in S}
<1>1. T \in SUBSET Nat /\ 0 \in T
  OBVIOUS
<1>2. \A n \in T : n + 1 \in T
  OBVIOUS
<1> HIDE DEF T
<1>3. T = Nat
  BY <1>1, <1>2, SetInduction
<1> QED BY <1>3 DEF T

\* A bounded set of numbers has a greatest one.
LEMMA GreatestNat ==
  ASSUME NEW n \in Nat, NEW S \in SUBSET (0 .. n), S # {}
  PROVE  \E w \in S : \A v \in S : w >= v
<1> DEFINE D == {k \in Nat : \E v \in S : k = n - v}
<1>1. D # {} /\ D \in SUBSET Nat
  <2>1. PICK v : v \in S
    OBVIOUS
  <2>2. n - v \in D
    BY <2>1
  <2> QED BY <2>2
<1>2. PICK k \in D : \A m \in D : k <= m
  <2> HIDE DEF D
  <2> QED BY <1>1, LeastNat
<1>3. PICK w \in S : k = n - w
  BY <1>2
<1>4. \A v \in S : w >= v
  <2> TAKE v \in S
  <2>1. n - v \in D
    OBVIOUS
  <2> QED BY <1>2, <1>3, <2>1
<1> QED BY <1>4

IsSeq(q) == Len(q) \in Nat /\ q = [i \in 1 .. Len(q) |-> q[i]]

\* A list that grows keeps its elements.
LEMMA AppendFacts ==
  ASSUME NEW q, IsSeq(q), NEW x
  PROVE  LET r == Append(q, x)
         IN /\ IsSeq(r) /\ Len(r) = Len(q) + 1 /\ r[Len(q) + 1] = x
            /\ DOMAIN r = 1 .. Len(q) + 1 /\ DOMAIN q = 1 .. Len(q)
            /\ \A i \in 1 .. Len(q) : r[i] = q[i]
<1> DEFINE r == Append(q, x)
<1>1. Len(q) \in Nat /\ q = [i \in 1 .. Len(q) |-> q[i]]
  BY DEF IsSeq
<1>2. Len(r) = Len(q) + 1 /\ r[Len(q) + 1] = x /\ \A i \in 1 .. Len(q) : r[i] = q[i]
  BY <1>1
<1>3. r = [i \in 1 .. Len(q) + 1 |-> r[i]]
  <2> DEFINE S == {q[i] : i \in 1 .. Len(q)} \cup {x}
  <2>1. q \in Seq(S) /\ x \in S
    BY <1>1
  <2> HIDE DEF S
  <2>2. r \in Seq(S)
    BY <2>1
  <2> HIDE DEF r
  <2> QED BY <1>2, <2>2
<1> HIDE DEF r
<1> QED BY <1>1, <1>2, <1>3 DEF IsSeq, r
=============================================================================
