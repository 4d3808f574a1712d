------------------------------ MODULE Measures ------------------------------
(***************************************************************************)
(* Measures of what a run has left to do: sequences of numbers, of which   *)
(* the first that changes decides.                                         *)
(***************************************************************************)
EXTENDS Naturals

Below(a, b) == \E i \in DOMAIN b : /\ a[i] < b[i]
                                   /\ \A j \in 1..(i - 1) : a[j] = b[j]
=============================================================================
