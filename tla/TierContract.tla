---------------------------- MODULE TierContract ----------------------------
(***************************************************************************)
(* What an invocation takes a tier for (cli/scan.go runEngines; the steps  *)
(* ScanPattern and ScanGo of ScanLifecycle): it answers once, with exactly *)
(* the findings there are to be had, or with an error and no finding.      *)
(* Until then some of them may turn out to be beyond it, or its source may *)
(* break off: then it may answer with what came before, if that is         *)
(* something.                                                              *)
(***************************************************************************)

VARIABLES due,    \* the findings there are to be had
          broken, \* has their source broken off, or may it?
          answer, \* "none", "ok", "error"
          found   \* what it answered with

tvars == <<due, broken, answer, found>>

Init == answer = "none" /\ found = {}

Lose == /\ answer = "none"
        /\ due' \subseteq due
        /\ UNCHANGED <<broken, answer, found>>

Break == /\ answer = "none"
         /\ broken' = TRUE
         /\ UNCHANGED <<due, answer, found>>

Deliver == /\ answer = "none" /\ answer' = "ok"
           /\ \/ found' = due
              \/ broken /\ found' \subseteq due /\ found' # {}
           /\ UNCHANGED <<due, broken>>

Refuse == /\ answer = "none" /\ answer' = "error"
          /\ UNCHANGED <<due, broken, found>>

Next == Lose \/ Break \/ Deliver \/ Refuse

Spec == Init /\ [][Next]_tvars
=============================================================================
