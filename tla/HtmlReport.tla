----------------------------- MODULE HtmlReport -----------------------------
(***************************************************************************)
(* The summary that --output html renders (report/report.go), seen next to *)
(* the verdict of the run that prints it: a reviewer of a failed build has *)
(* the HTML page, not the list the gate looked at.                         *)
(***************************************************************************)
EXTENDS ScanLifecycle

\* rowFrom
Row(f) == [file |-> f.file, line |-> f.line, severity |-> f.sev, confidence |-> f.conf,
           suppressed |-> f.status = "suppressed"]

\* Mutant: a rule's findings by the place they are at.
RuleGroupByPlace(l, rule) ==
  LET Of == {i \in DOMAIN l : /\ l[i].rule = rule
                              /\ \A j \in DOMAIN l : j < i => l[j].file # l[i].file}
  IN  [count |-> Cardinality(Of), findings |-> [i \in Of |-> Row(l[i])]]

\* The rows of a rule, each at the position of its finding.
RuleGroup(l, rule) == LET Of == {i \in DOMAIN l : l[i].rule = rule}
                      IN  [count |-> Cardinality(Of), findings |-> [i \in Of |-> Row(l[i])]]

OpenAt(l) == {i \in DOMAIN l : l[i].status # "suppressed"}

\* Build: groups, and counts of the open findings.
Build(l) ==
  LET Severities == {l[i].sev : i \in OpenAt(l)}
  IN  [open       |-> Cardinality(OpenAt(l)),
       suppressed |-> Cardinality(DOMAIN l \ OpenAt(l)),
       rules      |-> [rule \in {l[i].rule : i \in DOMAIN l} |-> RuleGroup(l, rule)],
       severities |-> [s \in Severities |-> Cardinality({i \in OpenAt(l) : l[i].sev = s})]]

-----------------------------------------------------------------------------
\* What the counts of the keys in S come to: as many elements for each of them.
Total(count, S) == Cardinality(UNION {{k} \X (1..count[k]) : k \in S})

\* A page explains the verdict of its run: each finding the run has to fail for
\* has an unmarked row under its rule, not of medium confidence; what a failed run
\* fails over is counted in the chips of the severities at its threshold, and
\* the rows add up to the two totals on top (report.go Build; cli/failon.go
\* blockingCount; a finding masked or dropped by the merge would be missing
\* here too).
PageShowsWhy ==
  \A r \in Runs : printed[r].whole =>
    LET page == Build(printed[r].list)
        Due  == {i \in DOMAIN Evidence(r) : Actionable(r, i)}
        Over == Gating(args[r], printed[r].list)
    IN  /\ UniqueFps(Evidence(r)) => \A i \in Due :
             LET group == page.rules[Evidence(r)[i].rule]
             IN  /\ i \in DOMAIN group.findings
                 /\ ~group.findings[i].suppressed
                 /\ group.findings[i].confidence # "medium"
        /\ verdict[r] = "blocked" =>
             /\ Over # {}
             /\ args[r].cmd # "check" =>
                  Cardinality(Over) <= Total(page.severities,
                                             Reaches(args[r].failOn) \cap DOMAIN page.severities)
        /\ page.open + page.suppressed =
             Total([rule \in DOMAIN page.rules |-> page.rules[rule].count], DOMAIN page.rules)
=============================================================================
