---------------------------- MODULE ProofLemmas ----------------------------
(***************************************************************************)
(* Facts about numbers, sequences and finite sets that more than one of    *)
(* the proof modules needs.                                                *)
(***************************************************************************)
EXTENDS Integers, Sequences, FiniteSetTheorems, FunctionTheorems, WellFoundedInduction, TLAPS

Less == {p \in Nat \X Nat : p[1] < p[2]}

\* A set of numbers that is not empty has a least element.
LEMMA LeastNat ==
    ASSUME NEW T, T \subseteq Nat, T # {}
    PROVE  \E k \in T : \A j \in T : k <= j
  <1>1. IsWellFoundedOn(Less, Nat)
    BY NatLessThanWellFounded DEF OpToRel, Less
  <1>2. PICK x \in T : \A y \in T : ~(<<y, x>> \in Less)
    BY <1>1, WFMin
  <1>3. \A y \in T : ~(y < x)
    <2> TAKE y \in T
    <2>1. x \in Nat /\ y \in Nat
      OBVIOUS
    <2>2. <<y, x>> \in Nat \X Nat /\ <<y, x>>[1] = y /\ <<y, x>>[2] = x
      BY <2>1
    <2> QED
      BY <1>2, <2>2 DEF Less
  <1> QED
    BY <1>3

\* What appending to a sequence leaves and adds.
LEMMA Appended ==
    ASSUME NEW S, NEW s \in Seq(S), NEW e \in S
    PROVE  /\ Len(Append(s, e)) = Len(s) + 1
           /\ DOMAIN Append(s, e) = DOMAIN s \cup {Len(s) + 1}
           /\ \A i \in DOMAIN s : i # Len(s) + 1 /\ Append(s, e)[i] = s[i]
           /\ Append(s, e)[Len(s) + 1] = e
    OBVIOUS

\* The places a finite sequence of records mentions are finitely many.
LEMMA LocatorsOfFinite ==
    ASSUME NEW S, NEW found \in Seq(S)
    PROVE  IsFiniteSet({found[i].locator : i \in DOMAIN found})
  <1> DEFINE T == {found[i].locator : i \in DOMAIN found}
             f == [i \in DOMAIN found |-> found[i].locator]
  <1>1. IsFiniteSet(DOMAIN found)
    <2>1. DOMAIN found = 1..Len(found) /\ Len(found) \in Nat
      OBVIOUS
    <2> QED
      BY <2>1, FS_Interval
  <1>2. f \in Surjection(DOMAIN found, T)
    BY DEF Surjection
  <1> QED
    BY <1>1, <1>2, FS_Surjection
=============================================================================
