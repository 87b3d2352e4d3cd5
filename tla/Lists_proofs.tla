----------------------------- MODULE Lists_proofs -----------------------------
(***************************************************************************)
(* Induction, for the proofs about what is worked through one entry after  *)
(* the other.                                                              *)
(***************************************************************************)
EXTENDS Naturals, WellFoundedInduction, TLAPS

-----------------------------------------------------------------------------
(* Numbers.                                                                *)

(* Number by number: what has no first exception has none.                 *)
LEMMA NatIsWellFounded == IsWellFoundedOn({s \in Nat \X Nat : s[1] < s[2]}, Nat)
BY NatLessThanWellFounded, Zenon DEF OpToRel

(* Induction, for what a set says of a number.                             *)
LEMMA Induction ==
  ASSUME NEW T, 0 \in T, \A n \in Nat : n \in T => n + 1 \in T
  PROVE  \A n \in Nat : n \in T
<1> DEFINE R == {s \in Nat \X Nat : s[1] < s[2]}
           M == Nat \ T
<1>1. SUFFICES ASSUME M # {} PROVE FALSE
  OBVIOUS
<1>2. IsWellFoundedOn(R, Nat) /\ M \subseteq Nat
  BY NatIsWellFounded
<1>3. PICK x \in M : \A y \in M : <<y, x>> \notin R
  <2> HIDE DEF M, R
  <2> QED
    BY <1>1, <1>2, WFMin
<1>4. x \in Nat \ {0}
  OBVIOUS
<1>5. x - 1 \in M
  BY <1>4
<1>6. <<x - 1, x>> \in R
  BY <1>4
<1> QED
  BY <1>3, <1>5, <1>6

(* A set of numbers has a least.                                           *)
LEMMA LeastOf ==
  ASSUME NEW T \in SUBSET Nat, T # {}
  PROVE  \E x \in T : \A y \in T : x <= y
<1> DEFINE R == {s \in Nat \X Nat : s[1] < s[2]}
<1>1. IsWellFoundedOn(R, Nat)
  BY NatIsWellFounded
<1>2. PICK x \in T : \A y \in T : <<y, x>> \notin R
  <2> HIDE DEF R
  <2> QED
    BY <1>1, WFMin
<1>3. ASSUME NEW y \in T PROVE x <= y
  <2>1. <<y, x>> \notin R /\ x \in Nat /\ y \in Nat
    BY <1>2
  <2> QED
    BY <2>1
<1> QED
  BY <1>3

(* A set of numbers with a bound has a greatest.                           *)
LEMMA GreatestOf ==
  ASSUME NEW n \in Nat, NEW T \in SUBSET (1 .. n), T # {}
  PROVE  \E x \in T : \A y \in T : y <= x
<1> DEFINE R == {s \in Nat \X Nat : s[1] < s[2]}
           M == {k \in Nat : n - k \in T}
<1>1. PICK t \in T : TRUE
  OBVIOUS
<1>2. n - t \in Nat /\ n - (n - t) = t
  OBVIOUS
<1>3. M # {}
  BY <1>2
<1>4. IsWellFoundedOn(R, Nat) /\ M \subseteq Nat
  BY NatIsWellFounded
<1>5. PICK x \in M : \A y \in M : <<y, x>> \notin R
  <2> HIDE DEF M, R
  <2> QED
    BY <1>3, <1>4, WFMin
<1>6. ASSUME NEW y \in T PROVE y <= n - x
  <2>1. n - y \in Nat /\ n - (n - y) = y
    OBVIOUS
  <2>2. n - y \in M
    BY <2>1
  <2>3. ~(n - y < x)
    BY <1>5, <2>1, <2>2
  <2> QED
    BY <2>1, <2>3
<1> QED
  BY <1>6

=============================================================================
