---------------------------- MODULE ScanContract ----------------------------
(***************************************************************************)
(* What an invocation of tarsier promises to whoever reads its report and  *)
(* its exit status, with nothing of how it gets there.  It gathers         *)
(* evidence -- findings, suppression comments, known fingerprints -- and   *)
(* then answers once: a report that is exactly what the evidence calls for *)
(* and, after the report is out, a verdict that follows from the report.   *)
(* At any time it may refuse instead, having printed nothing or some of    *)
(* the report, or it may just stop.                                        *)
(***************************************************************************)
EXTENDS Gates

CONSTANT Runs

VARIABLES args,      \* the command line of each invocation
          evidence,  \* what it has gathered: [found, sup, known]
          printed,   \* its standard output
          verdict    \* its exit status, "none" while it has none

cvars == <<args, evidence, printed, verdict>>

Blank == [found |-> <<>>, sup |-> {}, known |-> {}]

Init == /\ evidence = [r \in Runs |-> Blank]
        /\ printed = [r \in Runs |-> [whole |-> FALSE, list |-> <<>>]]
        /\ verdict = [r \in Runs |-> "none"]

Open(r) == verdict[r] = "none"

Others(r, f, g) == \A q \in Runs \ {r} : g[q] = f[q]

\* The report that evidence e calls for.
Due(e) == ReportOf(e.found, e.sup, e.known)

\* List l answers for evidence e: exactly, if fingerprints tell its findings
\* apart, and otherwise with at least one finding for each that is due.
Answers(l, e) ==
  /\ \A i \in DOMAIN Due(e) : i \in DOMAIN l /\ Fp(l[i]) = Fp(e.found[i])
  /\ UniqueFps(e.found) => l = Due(e)

\* List l breaks off somewhere in the report that evidence e calls for.
BreaksOff(l, e) ==
  UniqueFps(e.found) =>
    /\ DOMAIN l \subseteq DOMAIN Due(e)
    /\ \A i \in DOMAIN l, j \in DOMAIN Due(e) : j < i => j \in DOMAIN l
    /\ l = Sub(Due(e), DOMAIN l)

Gather(r) == /\ Open(r)
             /\ ~printed[r].whole
             /\ Others(r, evidence, evidence')
             /\ UNCHANGED <<args, printed, verdict>>

Publish(r) == /\ Open(r)
              /\ ~printed[r].whole
              /\ printed'[r].whole
              /\ Answers(printed'[r].list, evidence[r])
              /\ Others(r, printed, printed')
              /\ UNCHANGED <<args, evidence, verdict>>

Conclude(r) == /\ Open(r)
               /\ printed[r].whole
               /\ verdict' = [verdict EXCEPT ![r] =
                    IF Gating(args[r], printed[r].list) = {} THEN "clean" ELSE "blocked"]
               /\ UNCHANGED <<args, evidence, printed>>

Refuse(r) == /\ Open(r)
             /\ verdict' = [verdict EXCEPT ![r] = "error"]
             /\ \/ UNCHANGED printed
                \/ /\ ~printed[r].whole
                   /\ ~printed'[r].whole
                   /\ BreaksOff(printed'[r].list, evidence[r])
                   /\ Others(r, printed, printed')
             /\ UNCHANGED <<args, evidence>>

Next == \E r \in Runs : Gather(r) \/ Publish(r) \/ Conclude(r) \/ Refuse(r)

Spec == Init /\ [][Next]_cvars
=============================================================================
