-------------------------------- MODULE Gates --------------------------------
(***************************************************************************)
(* What makes a command exit non-zero over the findings it printed: the    *)
(* --fail-on threshold (cli/failon.go), the opt-in policy (cli/policy.go)  *)
(* and the rule filter of check-cardinality (cli/check_cardinality.go).    *)
(***************************************************************************)
EXTENDS Findings

-----------------------------------------------------------------------------
\* failOnRank accepts these levels; any other string is an error, with rank 0.
FailOnLevels == {"", "none", "hint", "info", "warning", "error"}

FailOnRank(level) ==
  CASE level \in {"", "none"} -> 0
    [] level = "hint"         -> 1
    [] level = "info"         -> 2
    [] level = "warning"      -> 3
    [] level = "error"        -> 4
    [] OTHER                  -> 0

SeverityRank(sev) ==
  CASE sev = "hint"    -> 1
    [] sev = "info"    -> 2
    [] sev = "warning" -> 3
    [] sev = "error"   -> 4
    [] OTHER           -> 0

\* blockingCount counts these positions.  Neither a suppressed finding nor
\* one of medium confidence gates, and threshold 0 turns the gate off.
Blocking(l, threshold) ==
  {i \in DOMAIN l : /\ threshold > 0
                    /\ l[i].status # "suppressed"
                    /\ l[i].conf # "medium"
                    /\ SeverityRank(l[i].sev) >= threshold}

-----------------------------------------------------------------------------
\* The four opt-in classes and the rules each one blocks; the last slot is
\* reserved and blocks nothing.
BlockableClasses ==
  {"unbounded-metric-labels", "secrets-in-logs", "missing-propagation",
   "removed-required-events"}

RulesOfClass(c) ==
  CASE c = "unbounded-metric-labels" ->
         {"metrics/high-cardinality-label", "metrics/unbounded-label-value"}
    [] c = "secrets-in-logs"         -> {"logs/secrets-in-logs"}
    [] c = "missing-propagation"     ->
         {"msgtrace/kafka-produce-no-inject", "msgtrace/kafka-consume-no-extract"}
    [] OTHER                         -> {}

NonBlockableRules == {"logs/unstructured-logging"}

\* policy.block as it is written: entries that may be padded with blanks,
\* which validate trims before it looks at them and after which they are what
\* enforcement sees.
Trim(e) == e.name

ValidPolicy(p) ==
  /\ p.version = 1
  /\ Len(p.block) > 0
  /\ \A i \in 1..Len(p.block) :
       LET entry == Trim(p.block[i])
       IN  /\ entry # ""
           /\ \A j \in 1..(i - 1) : Trim(p.block[j]) # entry
           /\ entry \notin NonBlockableRules
           /\ entry \in BlockableClasses

\* Mutant: enforcement sees the entries as they were written.
BlockedRulesUntrimmed(p) ==
  UNION {RulesOfClass(p.block[i].name) : i \in {j \in 1..Len(p.block) : ~p.block[j].padded}}

\* blockedRules expands the classes a validated policy opted into.
BlockedRules(p) == UNION {RulesOfClass(Trim(p.block[i])) : i \in 1..Len(p.block)}

\* Mutant: findings of any confidence gate.
PolicyBlockingAll(l, blocked) ==
  {i \in DOMAIN l : l[i].status # "suppressed" /\ l[i].rule \in blocked}

\* policyBlockingCount counts these positions.
PolicyBlocking(l, blocked) ==
  {i \in DOMAIN l : /\ l[i].status # "suppressed"
                    /\ l[i].conf # "medium"
                    /\ l[i].rule \in blocked}

\* The findings of list l that make invocation a exit non-zero.
Gating(a, l) ==
  IF a.cmd = "check" THEN PolicyBlocking(l, BlockedRules(a.policy))
                     ELSE Blocking(l, FailOnRank(a.failOn))

-----------------------------------------------------------------------------
\* The rules whose findings check-cardinality keeps.
CardinalityRules ==
  {"metrics/high-cardinality-label", "metrics/unbounded-label-value"}

KeepCardinality(l) == Sub(l, {i \in DOMAIN l : l[i].rule \in CardinalityRules})
=============================================================================
