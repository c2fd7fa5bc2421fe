------------------------------ MODULE NatLemmas ------------------------------
(***************************************************************************)
(* What the proofs about loops and lists need of the natural numbers: a    *)
(* set of them has a least element, a bounded one a greatest, and one that *)
(* holds 0 and every successor up to n holds all of 0..n.  Induction is    *)
(* stated with a set in place of a predicate, and rests on the least       *)
(* element, so that the provers can use it.                                *)
(***************************************************************************)
EXTENDS Integers, WellFoundedInduction, TLAPS

\* Every set of numbers that is not empty has a least element: < on Nat is
\* well-founded.
LEMMA Least ==
    ASSUME NEW T, T \subseteq Nat, T # {}
    PROVE  \E x \in T : \A y \in T : x <= y
<1>. DEFINE R == {ss \in Nat \X Nat : ss[1] < ss[2]}
<1>1. IsWellFoundedOn(R, Nat)
  BY NatLessThanWellFounded, SMT DEF OpToRel
<1>. HIDE DEF R
<1>2. \E x \in T : \A y \in T : ~ (<<y, x>> \in R)
  BY <1>1, WFMin
<1>3. PICK x \in T : \A y \in T : ~ (<<y, x>> \in R)
  BY <1>2
<1>4. ASSUME NEW y \in T PROVE x <= y
  <2>1. x \in Nat /\ y \in Nat /\ ~(<<y, x>> \in R)
    BY <1>3
  <2>2. QED
    BY <2>1 DEF R
<1>5. QED
  BY <1>4

\* The least of its upper bounds is the greatest element of a bounded set.
LEMMA Greatest ==
    ASSUME NEW n \in Nat, NEW T, T \subseteq 1..n, T # {}
    PROVE  \E x \in T : \A y \in T : y <= x
<1>. DEFINE U == {m \in Nat : \A y \in T : y <= m}
<1>1. n \in U
  OBVIOUS
<1>2. PICK m \in U : \A u \in U : m <= u
  BY <1>1, Least
<1>3. m \in T
  <2>1. SUFFICES ASSUME m \notin T PROVE FALSE
    OBVIOUS
  <2>2. PICK t \in T : TRUE
    OBVIOUS
  <2>3. m \in Nat /\ \A y \in T : y <= m
    OBVIOUS
  <2>4. t <= m /\ t >= 1 /\ t \in Nat
    BY <2>3
  <2>5. m - 1 \in U
    BY <2>1, <2>3, <2>4
  <2>6. QED
    BY <1>2, <2>3, <2>5
<1>4. QED
  BY <1>3

\* Induction up to n: the least number that is not in P could be neither 0 nor
\* a successor.
LEMMA Induction ==
    ASSUME NEW n \in Nat, NEW P,
           0 \in P, \A i \in 1..n : i - 1 \in P => i \in P
    PROVE  \A i \in 0..n : i \in P
<1>. DEFINE T == {i \in 0..n : i \notin P}
<1>1. SUFFICES ASSUME T # {} PROVE FALSE
  OBVIOUS
<1>2. PICK x \in T : \A y \in T : x <= y
  <2>1. T \subseteq Nat
    OBVIOUS
  <2>2. QED
    BY <1>1, <2>1, Least
<1>3. x \in 1..n /\ x \notin P
  OBVIOUS
<1>4. x - 1 \in P
  BY <1>2, <1>3
<1>5. QED
  BY <1>3, <1>4
===============================================================================
