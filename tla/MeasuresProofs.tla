--------------------------- MODULE MeasuresProofs ---------------------------
(***************************************************************************)
(* No measure goes down for ever: what each step of a run takes it below   *)
(* makes every run finite.                                                 *)
(***************************************************************************)
EXTENDS Measures, WellFoundedInduction, TLAPS

\* A sequence of measures of one length comes to one that the next is not below.
THEOREM NoEndlessDescent ==
  ASSUME NEW n \in Nat, NEW f \in [Nat -> [1..n -> Nat]]
  PROVE  \E k \in Nat : ~Below(f[k + 1], f[k])
<1> DEFINE R == OpToRel(<, Nat)
           L == LexProductOrdering(R, Nat, n)
<1>1. IsWellFoundedOn(L, [1..n -> Nat])
  <2>1. IsWellFoundedOn(R, Nat)
    BY NatLessThanWellFounded, Zenon
  <2> HIDE DEF R
  <2> QED
    BY <2>1, WFLexProductOrdering
<1>2. ASSUME NEW a \in [1..n -> Nat], NEW b \in [1..n -> Nat], Below(a, b)
      PROVE  <<a, b>> \in L
  <2>1. PICK i \in 1..n : a[i] < b[i] /\ \A j \in 1..(i - 1) : a[j] = b[j]
    BY <1>2 DEF Below
  <2>2. <<a[i], b[i]>> \in R
    <3>1. <<a[i], b[i]>> \in Nat \X Nat /\ <<a[i], b[i]>>[1] < <<a[i], b[i]>>[2]
      BY <2>1
    <3> QED
      BY <3>1, Zenon DEF OpToRel
  <2> HIDE DEF R
  <2> QED
    BY <2>1, <2>2 DEF LexProductOrdering
<1> HIDE DEF L
<1>3. PICK k \in Nat : <<f[k + 1], f[k]>> \notin L
  BY <1>1, Zenon DEF IsWellFoundedOn
<1>4. f[k] \in [1..n -> Nat] /\ f[k + 1] \in [1..n -> Nat]
  OBVIOUS
<1> QED
  BY <1>2, <1>3, <1>4
=============================================================================
