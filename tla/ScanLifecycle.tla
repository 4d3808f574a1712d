--------------------------- MODULE ScanLifecycle ---------------------------
(***************************************************************************)
(* Several invocations of tarsier -- scan, check, check-cardinality -- run *)
(* side by side over one source tree and one set of baseline files         *)
(* (cli/scan.go, cli/check.go, cli/check_cardinality.go,                   *)
(* finding/baseline.go).  An invocation has no locks: it looks at the tree *)
(* once per engine and once more for the suppression comments, reads its   *)
(* baseline and rewrites one in place, prints its report and only then     *)
(* decides its exit status.  It may be killed anywhere, and what it had    *)
(* already done to the disk stays.                                         *)
(*                                                                         *)
(* The engines are seen from outside: a scan of the tree either fails or   *)
(* yields the findings of the tree as it is at that moment.                *)
(***************************************************************************)
EXTENDS Gates, BaselineFile

CONSTANTS Runs,         \* the invocations
          Invocations,  \* the command lines they may be given
          Path,         \* baseline files
          NoPath,       \* an absent --baseline or --baseline-write
          Trees,        \* the states the source tree may be in
          Adopted,      \* the baseline files there may be to begin with
          MaxEdits      \* how often the tree changes (bounds the state space)

Commands == {"scan", "check", "check-cardinality"}

\* A policy file: its version and its block list.  Every file that cannot be
\* read or decoded is one with version 0.
Policy == [version : Nat, block : Seq([name : STRING, padded : BOOLEAN])]

\* A command line after flags, environment and config file are merged.
\* custom: --rules names an ast-grep project instead of the embedded pack.
Invocation == [cmd : Commands, engine : STRING, custom : BOOLEAN, failOn : STRING,
               policy : Policy, baseline : Path \cup {NoPath},
               baselineWrite : Path \cup {NoPath}]

\* The tree, as the tools see it: what each engine finds, the suppression
\* comments in it, and the files that cannot be read.
Tree == [pattern : Seq(Scanned), go : Seq(Scanned),
         sups : SUBSET Suppression, unreadable : SUBSET File]

ASSUME ConfigAssumption ==
  /\ NoPath \notin Path
  /\ Invocations \subseteq Invocation
  /\ Trees \subseteq Tree
  /\ Adopted \subseteq [Path -> Content]
  /\ MaxEdits \in Nat

VARIABLES pc,        \* where each invocation is
          args,      \* its command line
          temp,      \* does its directory of embedded rules exist?
          found,     \* the findings of its engines so far, in scan order
          sup,       \* the suppression comments it read
          known,     \* the baseline it loaded
          out,       \* the list it goes on to render
          printed,   \* its standard output
          verdict,   \* its exit status
          tree,      \* the source tree
          disk,      \* the baseline files
          edits,     \* changes made to the tree so far
          adopted,   \* history: the baseline files at the start
          wrote      \* history: how its rewriting of its baseline file went

vars == <<pc, args, temp, found, sup, known, out, printed, verdict,
          tree, disk, edits, adopted, wrote>>

local  == <<found, sup, known, out, printed>>
shared == <<tree, disk, edits, adopted>>

Stages == {"policy", "engine", "rules", "materialize", "failOn", "pattern", "go",
           "suppress", "load", "open", "write", "merge", "keep", "render", "gate",
           "done", "killed"}
Ended  == {"done", "killed"}

\* no: it has put nothing into its baseline file.  all: it wrote its record.
\* part: its write broke off.  over: and what it had written by then was laid
\* over something another invocation had put there since the truncation.
Writes == {"no", "all", "part", "over"}

\* Standard output before a report; a reader can tell a whole report (its
\* closing bracket, its count of findings) from one that broke off.
Nothing == [whole |-> FALSE, list |-> <<>>]

-----------------------------------------------------------------------------
At(r, s)   == pc[r] = s
GoTo(r, s) == pc' = [pc EXCEPT ![r] = s]

\* RunE returns: the deferred cleanup removes the directory of rules and main
\* turns the error, or its absence, into the exit status.
Return(r, v) == /\ GoTo(r, "done")
                /\ verdict' = [verdict EXCEPT ![r] = v]
                /\ temp' = [temp EXCEPT ![r] = FALSE]
                /\ UNCHANGED <<args, wrote, local, shared>>

Fail(r) == Return(r, "error")

FirstStage(a) == CASE a.cmd = "scan"              -> "engine"
                   [] a.cmd = "check"             -> "policy"
                   [] a.cmd = "check-cardinality" -> "rules"

\* scan looks at --fail-on before its engines run, check has none, and
\* check-cardinality looks at it after its report is out.
AfterRules(a)  == IF a.cmd = "scan" THEN "failOn" ELSE "pattern"
AfterFailOn(a) == IF a.cmd = "scan" THEN "pattern" ELSE "gate"
AfterRender(a) == IF a.cmd = "check-cardinality" THEN "failOn" ELSE "gate"

EngineOf(a) == IF a.cmd = "check-cardinality" \/ a.engine = "" THEN "pattern" ELSE a.engine

-----------------------------------------------------------------------------
Init == /\ args \in [Runs -> Invocations]
        /\ pc = [r \in Runs |-> FirstStage(args[r])]
        /\ temp = [r \in Runs |-> FALSE]
        /\ found = [r \in Runs |-> <<>>]
        /\ sup = [r \in Runs |-> {}]
        /\ known = [r \in Runs |-> {}]
        /\ out = [r \in Runs |-> <<>>]
        /\ printed = [r \in Runs |-> Nothing]
        /\ verdict = [r \in Runs |-> "none"]
        /\ tree \in Trees
        /\ disk \in Adopted
        /\ edits = 0
        /\ adopted = disk
        /\ wrote = [r \in Runs |-> "no"]

\* LoadPolicy: an invalid policy refuses the run before anything is scanned.
LoadPolicy(r) ==
  /\ At(r, "policy")
  /\ \/ /\ ValidPolicy(args[r].policy)
        /\ GoTo(r, "engine")
        /\ UNCHANGED <<args, temp, verdict, wrote, local, shared>>
     \/ ~ValidPolicy(args[r].policy) /\ Fail(r)

NormalizeEngine(r) ==
  /\ At(r, "engine")
  /\ \/ /\ args[r].engine \in {"", "pattern", "go", "all"}
        /\ GoTo(r, "rules")
        /\ UNCHANGED <<args, temp, verdict, wrote, local, shared>>
     \/ args[r].engine \notin {"", "pattern", "go", "all"} /\ Fail(r)

\* ensurePatternRules: only a pattern tier without --rules needs a directory.
NeedsRules(a) == a.cmd = "check-cardinality" \/ (~a.custom /\ a.engine # "go")

MakeTemp(r) ==
  /\ At(r, "rules")
  /\ \/ /\ ~NeedsRules(args[r])
        /\ GoTo(r, AfterRules(args[r]))
        /\ UNCHANGED <<args, temp, verdict, wrote, local, shared>>
     \/ /\ NeedsRules(args[r])
        /\ GoTo(r, "materialize")
        /\ temp' = [temp EXCEPT ![r] = TRUE]
        /\ UNCHANGED <<args, verdict, wrote, local, shared>>
     \/ NeedsRules(args[r]) /\ Fail(r)

\* Mutant: the cleanup runs when ensurePatternRules returns.
MaterializeCleansUp(r) ==
  /\ At(r, "materialize")
  /\ \/ /\ GoTo(r, AfterRules(args[r]))
        /\ temp' = [temp EXCEPT ![r] = FALSE]
        /\ UNCHANGED <<args, verdict, wrote, local, shared>>
     \/ Fail(r)

Materialize(r) ==
  /\ At(r, "materialize")
  /\ \/ /\ GoTo(r, AfterRules(args[r]))
        /\ UNCHANGED <<args, temp, verdict, wrote, local, shared>>
     \/ Fail(r)

CheckFailOn(r) ==
  /\ At(r, "failOn")
  /\ \/ /\ args[r].failOn \in FailOnLevels
        /\ GoTo(r, AfterFailOn(args[r]))
        /\ UNCHANGED <<args, temp, verdict, wrote, local, shared>>
     \/ args[r].failOn \notin FailOnLevels /\ Fail(r)

\* runEngines, first half.  check-cardinality goes on to filter the list.
ScanPattern(r) ==
  /\ At(r, "pattern")
  /\ \/ /\ GoTo(r, IF args[r].cmd = "check-cardinality" THEN "keep" ELSE "go")
        /\ found' = [found EXCEPT ![r] =
                       IF EngineOf(args[r]) = "go" THEN @ ELSE @ \o tree.pattern]
        /\ UNCHANGED <<args, temp, sup, known, out, printed, verdict, wrote, shared>>
     \/ EngineOf(args[r]) # "go" /\ Fail(r)

\* runEngines, second half: the go tier loads the tree anew.
ScanGo(r) ==
  /\ At(r, "go")
  /\ \/ /\ GoTo(r, "suppress")
        /\ found' = [found EXCEPT ![r] =
                       IF EngineOf(args[r]) = "pattern" THEN @ ELSE @ \o tree.go]
        /\ UNCHANGED <<args, temp, sup, known, out, printed, verdict, wrote, shared>>
     \/ EngineOf(args[r]) # "pattern" /\ Fail(r)

\* loadSuppressions reads the files that have findings; one that cannot be
\* read is skipped with a warning.
ReadSuppressions(fs, t) ==
  LET implicated == {fs[i].file : i \in DOMAIN fs}
  IN  {s \in t.sups : s.file \in implicated \ t.unreadable}

LoadSuppressions(r) ==
  /\ At(r, "suppress")
  /\ GoTo(r, "load")
  /\ sup' = [sup EXCEPT ![r] = ReadSuppressions(found[r], tree)]
  /\ UNCHANGED <<args, temp, found, known, out, printed, verdict, wrote, shared>>

\* Mutant: a baseline that does not decode is waited for.
LoadBaselineWaits(r) ==
  /\ At(r, "load")
  /\ LET p == args[r].baseline
     IN  /\ ~(p # NoPath /\ ~Decodes(disk[p]))
         /\ GoTo(r, "open")
         /\ known' = [known EXCEPT ![r] = IF p = NoPath THEN {} ELSE Fingerprints(disk[p])]
  /\ UNCHANGED <<args, temp, found, sup, out, printed, verdict, wrote, shared>>

\* LoadBaseline: what does not decode is an error, never an empty set.
LoadBaseline(r) ==
  /\ At(r, "load")
  /\ LET p == args[r].baseline
     IN  \/ /\ p = NoPath
            /\ GoTo(r, "open")
            /\ UNCHANGED <<args, temp, verdict, wrote, local, shared>>
         \/ /\ p # NoPath
            /\ Decodes(disk[p])
            /\ GoTo(r, "open")
            /\ known' = [known EXCEPT ![r] = Fingerprints(disk[p])]
            /\ UNCHANGED <<args, temp, found, sup, out, printed, verdict, wrote, shared>>
         \/ p # NoPath /\ ~Decodes(disk[p]) /\ Fail(r)

\* WriteBaseline, up to the open that truncates the file.
OpenBaseline(r) ==
  /\ At(r, "open")
  /\ LET p == args[r].baselineWrite
     IN  \/ /\ p = NoPath
            /\ GoTo(r, "merge")
            /\ UNCHANGED <<args, temp, verdict, wrote, local, shared>>
         \/ /\ p # NoPath
            /\ GoTo(r, "write")
            /\ disk' = [disk EXCEPT ![p] = Empty]
            /\ UNCHANGED <<args, temp, verdict, wrote, local, tree, edits, adopted>>
         \/ p # NoPath /\ Fail(r)

\* Mutant: what the baseline already knows is left out.
RecordedFresh(r) == Fps(Fresh(Kept(found[r], sup[r]), known[r]))

\* What WriteBaseline records: the fingerprints of the unsuppressed findings.
Recorded(r) == Fps(Kept(found[r], sup[r]))

\* The write breaks off: a prefix of the record is in the file, or nothing.
Scribble(r) ==
  LET p == args[r].baselineWrite
  IN  \E rec \in Records(Recorded(r)) : \E f \in Scribbled(disk[p], rec) :
        /\ disk' = [disk EXCEPT ![p] = f]
        /\ wrote' = [wrote EXCEPT ![r] = IF f = disk[p]         THEN "no"
                                         ELSE IF disk[p] = Empty THEN "part"
                                         ELSE "over"]

WriteBaseline(r) ==
  /\ At(r, "write")
  /\ \/ /\ GoTo(r, "merge")
        /\ LET p == args[r].baselineWrite
           IN  \E rec \in Records(Recorded(r)) : \E f \in Overwritten(disk[p], rec) :
                 disk' = [disk EXCEPT ![p] = f]
        /\ wrote' = [wrote EXCEPT ![r] = "all"]
        /\ UNCHANGED <<args, temp, verdict, local, tree, edits, adopted>>
     \/ /\ GoTo(r, "done")
        /\ verdict' = [verdict EXCEPT ![r] = "error"]
        /\ temp' = [temp EXCEPT ![r] = FALSE]
        /\ Scribble(r)
        /\ UNCHANGED <<args, local, tree, edits, adopted>>

\* Mutant: the baseline is loaded when it is needed, after a same-path write.
MergeLoadsLate(r) ==
  /\ At(r, "merge")
  /\ GoTo(r, "render")
  /\ known' = [known EXCEPT ![r] =
                 IF args[r].baseline = NoPath THEN {} ELSE Fingerprints(disk[args[r].baseline])]
  /\ out' = [out EXCEPT ![r] = Lifecycle(found[r], sup[r], known'[r])]
  /\ UNCHANGED <<args, temp, found, sup, printed, verdict, wrote, shared>>

\* PartitionNew and mergeLifecycle.
Merge(r) ==
  /\ At(r, "merge")
  /\ GoTo(r, "render")
  /\ out' = [out EXCEPT ![r] = Lifecycle(found[r], sup[r], known[r])]
  /\ UNCHANGED <<args, temp, found, sup, known, printed, verdict, wrote, shared>>

\* check-cardinality has no life cycle: it only filters by rule.
KeepFindings(r) ==
  /\ At(r, "keep")
  /\ GoTo(r, "render")
  /\ out' = [out EXCEPT ![r] = KeepCardinality(found[r])]
  /\ UNCHANGED <<args, temp, found, sup, known, printed, verdict, wrote, shared>>

\* The first findings of a list, up to and without position k.
Before(l, k) == Sub(l, {i \in DOMAIN l : i < k})

\* Mutant: an error of the writer is ignored.
RenderUnchecked(r) ==
  /\ At(r, "render")
  /\ GoTo(r, AfterRender(args[r]))
  /\ \E whole \in BOOLEAN, k \in 1..(Len(found[r]) + 1) :
       printed' = [printed EXCEPT ![r] =
         [whole |-> whole, list |-> IF whole THEN out[r] ELSE Before(out[r], k)]]
  /\ UNCHANGED <<args, temp, found, sup, known, out, verdict, wrote, shared>>

\* render: the writer may fail part of the way.
Render(r) ==
  /\ At(r, "render")
  /\ \/ /\ GoTo(r, AfterRender(args[r]))
        /\ printed' = [printed EXCEPT ![r] = [whole |-> TRUE, list |-> out[r]]]
        /\ UNCHANGED <<args, temp, found, sup, known, out, verdict, wrote, shared>>
     \/ /\ GoTo(r, "done")
        /\ verdict' = [verdict EXCEPT ![r] = "error"]
        /\ temp' = [temp EXCEPT ![r] = FALSE]
        /\ \E k \in 1..(Len(found[r]) + 1) :
             printed' = [printed EXCEPT ![r] =
                           [whole |-> FALSE, list |-> Before(out[r], k)]]
        /\ UNCHANGED <<args, found, sup, known, out, wrote, shared>>

\* Mutant: the gate looks at the scan, not at the merged list.
GateOnScan(r) ==
  /\ At(r, "gate")
  /\ Return(r, IF Gating(args[r], found[r]) = {} THEN "clean" ELSE "blocked")

\* The gate looks at the list that was rendered.
Gate(r) ==
  /\ At(r, "gate")
  /\ Return(r, IF Gating(args[r], out[r]) = {} THEN "clean" ELSE "blocked")

-----------------------------------------------------------------------------
\* A signal, a crash, a CI job that is cancelled: deferred calls do not run.
Kill(r) ==
  /\ pc[r] \notin Ended
  /\ GoTo(r, "killed")
  /\ IF pc[r] = "write" THEN Scribble(r) ELSE UNCHANGED <<disk, wrote>>
  /\ UNCHANGED <<args, temp, verdict, local, tree, edits, adopted>>

\* Somebody changes the source tree.
Edit ==
  /\ edits < MaxEdits
  /\ edits' = edits + 1
  /\ tree' \in Trees \ {tree}
  /\ UNCHANGED <<pc, args, temp, verdict, wrote, local, disk, adopted>>

Step(r) ==
  \/ LoadPolicy(r)   \/ NormalizeEngine(r)  \/ MakeTemp(r)     \/ Materialize(r)
  \/ CheckFailOn(r)  \/ ScanPattern(r)      \/ ScanGo(r)       \/ LoadSuppressions(r)
  \/ LoadBaseline(r) \/ OpenBaseline(r)     \/ WriteBaseline(r) \/ Merge(r)
  \/ KeepFindings(r) \/ Render(r)           \/ Gate(r)

\* Every invocation has ended; only here may the system stand still.
AllEnded == /\ \A r \in Runs : pc[r] \in Ended
            /\ UNCHANGED vars

Next == \/ \E r \in Runs : Step(r) \/ Kill(r)
        \/ Edit
        \/ AllEnded

Spec == Init /\ [][Next]_vars

\* An invocation is a process: the operating system lets it run.  Nobody has
\* to kill it and nobody has to edit the tree.
FairSpec == Spec /\ \A r \in Runs : WF_vars(Step(r))

-----------------------------------------------------------------------------
TypeOK ==
  /\ pc \in [Runs -> Stages]
  /\ args \in [Runs -> Invocations]
  /\ temp \in [Runs -> BOOLEAN]
  /\ found \in [Runs -> Seq(Scanned)]
  /\ sup \in [Runs -> SUBSET Suppression]
  /\ known \in [Runs -> SUBSET FpSet]
  /\ out = [r \in Runs |-> out[r]]
  /\ \A r \in Runs : IsList(out[r])
  /\ printed = [r \in Runs |-> [whole |-> printed[r].whole, list |-> printed[r].list]]
  /\ \A r \in Runs : printed[r].whole \in BOOLEAN /\ IsList(printed[r].list)
  /\ verdict \in [Runs -> {"none", "clean", "blocked", "error"}]
  /\ tree \in Trees
  /\ disk \in [Path -> Content]
  /\ edits \in 0..MaxEdits
  /\ adopted \in Adopted
  /\ wrote \in [Runs -> Writes]

\* The findings an invocation answers for.
Evidence(r) ==
  IF args[r].cmd = "check-cardinality" THEN KeepCardinality(found[r]) ELSE found[r]

\* A whole report shows, in scan order, each suppressed finding, marked, and
\* each open finding its baseline lacks, and nothing else -- provided no two
\* findings share a fingerprint, by which mergeLifecycle looks them up
\* (cli/scan.go mergeLifecycle; check-cardinality suppresses nothing).
ReportExact ==
  \A r \in Runs :
    printed[r].whole /\ UniqueFps(Evidence(r)) =>
      printed[r].list = ReportOf(Evidence(r), sup[r], known[r])

\* Even when findings share a fingerprint, no occurrence that is due in the
\* report is missing from it, and the finding in its place has its rule, its
\* file and its symbol (cli/scan.go mergeLifecycle).
NothingDropped ==
  \A r \in Runs : printed[r].whole =>
    \A i \in Reported(Evidence(r), sup[r], known[r]) :
      i \in DOMAIN printed[r].list /\ Fp(printed[r].list[i]) = Fp(Evidence(r)[i])

\* The severities that reach a --fail-on level.
Reaches(level) == CASE level = "hint"    -> Severity
                    [] level = "info"    -> {"info", "warning", "error"}
                    [] level = "warning" -> {"warning", "error"}
                    [] level = "error"   -> {"error"}
                    [] OTHER             -> {}

\* Rule rule belongs to a class the policy names, blanks around it or not.
OptedIn(p, rule) ==
  \E i \in DOMAIN p.block : rule \in RulesOfClass(p.block[i].name)

\* Finding i of an invocation is one it has to exit non-zero for: open, new,
\* not of medium confidence, and at the threshold or in a class that was opted into.
Actionable(r, i) ==
  LET f == Evidence(r)[i]
  IN  /\ ~SuppressedBy(f, sup[r])
      /\ Fp(f) \notin known[r]
      /\ f.conf # "medium"
      /\ IF args[r].cmd = "check" THEN OptedIn(args[r].policy, f.rule)
                                  ELSE f.sev \in Reaches(args[r].failOn)

\* A run that exits zero printed its whole report and found nothing it had to
\* fail for (cli/failon.go, cli/policy.go: the gate looks at the merged list,
\* so a finding lost or masked on the way there opens the gate).
GateSound ==
  \A r \in Runs : verdict[r] = "clean" =>
    /\ printed[r].whole
    /\ UniqueFps(Evidence(r)) => ~\E i \in DOMAIN Evidence(r) : Actionable(r, i)

\* A run that fails over its findings printed its whole report and has one to
\* show for it: medium confidence, a suppressed or a known finding, or a rule
\* nobody opted into never fails a build, shared fingerprints or not.
GateJustified ==
  \A r \in Runs : verdict[r] = "blocked" =>
    /\ printed[r].whole
    /\ \E i \in DOMAIN Evidence(r) : Actionable(r, i)

\* The invocations that have put something into the file at p, and whether
\* one of them broke off over what another had put there.
Writers(p) == {q \in Runs : args[q].baselineWrite = p /\ wrote[q] # "no"}
Spliced(p) == \E q \in Writers(p) : wrote[q] = "over"

\* The baseline that was adopted at p, if it decodes, and what the invocations
\* in S recorded.
Recordings(p, S) == (IF Decodes(adopted[p]) THEN {Fingerprints(adopted[p])} ELSE {})
                    \cup {Recorded(q) : q \in S}

\* A baseline file that decodes is as it was adopted or the complete record of
\* one invocation: of two writers at once, a crash between truncate and write,
\* a write that breaks off or a long record below a shorter one, only a write
\* that breaks off over another's record may leave a mixture that decodes
\* (finding/baseline.go WriteBaseline, LoadBaseline).
BaselineIsWhole ==
  \A p \in Path :
    Decodes(disk[p]) /\ ~Spliced(p) =>
      Fingerprints(disk[p]) \in Recordings(p, Writers(p))

\* What a run treats as known is the adopted baseline or the complete record
\* of another run or, once a write broke off over another's record, at least
\* nothing that none of them recorded: never its own record, even when it
\* rewrites the file it reads (cli/scan.go applyLifecycle: "The baseline is
\* loaded before a same-path write").
KnownWasRecorded ==
  \A r \in Runs : known[r] # {} =>
    LET p == args[r].baseline
        Others == Writers(p) \ {r}
    IN  /\ known[r] \subseteq Fingerprints(adopted[p]) \cup UNION {Recorded(q) : q \in Others}
        /\ ~Spliced(p) => known[r] \in Recordings(p, Others)

\* What one run recorded stays quiet in the next: a run that read the record of
\* another, and leaves nothing open that the other did not leave open too,
\* reports no open finding and blocks nobody, even when lines have moved in
\* between or the writer itself ran against an older baseline (cli/scan.go
\* applyLifecycle; finding/baseline.go WriteBaseline, PartitionNew).
Settled ==
  \A q, r \in Runs :
    /\ q # r /\ wrote[q] # "no" /\ printed[r].whole /\ known[r] = Recorded(q)
    /\ Fps(Kept(Evidence(r), sup[r])) \subseteq Fps(Kept(found[q], sup[q]))
    => /\ \A i \in DOMAIN printed[r].list : printed[r].list[i].status = "suppressed"
       /\ verdict[r] # "blocked"

\* The directory of embedded rules is there for as long as the pattern tier
\* runs on it, and an invocation that returns leaves none behind
\* (cli/scan.go ensurePatternRules and its deferred cleanup).
TempDirs ==
  \A r \in Runs :
    /\ pc[r] = "pattern" /\ NeedsRules(args[r]) => temp[r]
    /\ pc[r] = "done" => ~temp[r]

\* Every invocation ends, whatever state its baseline is in and whatever the
\* others do: none of them waits for another.
EveryRunEnds == <>(\A r \in Runs : pc[r] \in Ended)

\* An invocation keeps the promise of ScanContract: one answer, exact for the
\* evidence it had, the verdict last and drawn from the printed report.
Contract == INSTANCE ScanContract
              WITH evidence <- [r \in Runs |-> [found |-> Evidence(r), sup |-> sup[r],
                                                known |-> known[r]]]
KeepsContract == Contract!Spec

-----------------------------------------------------------------------------
(* What the repository says of the program and the program does not do.    *)

\* cli/scan.go:228 "mergeLifecycle emits fresh open findings and all
\* suppressed findings in the original scan order": an open finding the
\* baseline lacks is in the report, open, where the scan had it.
FreshOpenEmitted ==
  \A r \in Runs : printed[r].whole =>
    \A i \in DOMAIN Fresh(Kept(Evidence(r), sup[r]), known[r]) :
      i \in DOMAIN printed[r].list /\ printed[r].list[i] = Evidence(r)[i]

\* cli/scan.go:202 "--baseline X --baseline-write X reports new findings
\* against the previous set, then records the current one": of a run that
\* returned, everything it recorded it had reported or known before.
RecordedWasReported ==
  \A r \in Runs : pc[r] = "done" /\ wrote[r] = "all" =>
    Recorded(r) \subseteq known[r] \cup Fps(printed[r].list)

\* finding/baseline.go:44 "A missing or corrupt path is an error, never an empty
\* set": what a run takes for known after loading a baseline is a baseline, the
\* adopted one or one that some invocation recorded.
CorruptIsAnError ==
  \A r \in Runs : known[r] # {} =>
    LET p == args[r].baseline
    IN  known[r] \in Recordings(p, Writers(p))
=============================================================================
