------------------------------- MODULE GoTier -------------------------------
(***************************************************************************)
(* One scan of the Go tier (engine/golang/runner.go): load the packages,   *)
(* run the analyzers one after the other over those that type-check, turn  *)
(* diagnostics into findings, and keep the first of each fingerprint.  The *)
(* two analyzers of the repository are run step by step; the others are    *)
(* external and known by what they report of each package, and may fail on *)
(* one.  Any analyzer may panic.                                           *)
(***************************************************************************)
EXTENDS Gates, MsgTrace, OtelResource, Measures

CONSTANTS Programs,  \* what packages.Load may find: sequences of packages
          Analyzers  \* what may run on each of them: sequences of names

\* analyzerMeta
Meta(a) ==
  CASE a = "otelresource" -> [rule |-> "otel/sdk-missing-resource-attrs", conf |-> "high", sev |-> "warning"]
    [] a = "msgtrace"     -> [rule |-> "msgtrace/kafka-produce-no-inject", conf |-> "medium", sev |-> "warning"]
    [] a = "spancheck"    -> [rule |-> "traces/error-path-not-recorded-on-span", conf |-> "medium", sev |-> "warning"]
    [] a = "contextcheck" -> [rule |-> "httpctx/outbound-call-without-context", conf |-> "medium", sev |-> "warning"]
    [] a = "noctx"        -> [rule |-> "httpctx/outbound-call-without-context", conf |-> "high", sev |-> "warning"]
    [] a = "sloglint"     -> [rule |-> "logs/unstructured-logging", conf |-> "medium", sev |-> "info"]
    [] a = "errcheck"     -> [rule |-> "errors/swallowed-on-critical-path", conf |-> "medium", sev |-> "warning"]

Known == {"otelresource", "msgtrace", "spancheck", "contextcheck", "noctx", "sloglint", "errcheck"}
House == {"otelresource", "msgtrace"}

Diagnosed == [file : File, line : Nat, text : Symbol]

\* A package: whether it lies under the root, has Go files, has errors of its
\* own or of what it imports, its syntax, and what the other analyzers say.
\* In a file the calls are in source order.
IsPackage(p) ==
  /\ {p.under, p.golang, p.errors, p.illTyped} \subseteq BOOLEAN
  /\ DOMAIN p.calls = 1..Len(p.calls) /\ Len(p.calls) \in Nat
  /\ \A c \in DOMAIN p.calls :
       /\ p.calls[c].outer \in 0..(c - 1)
       /\ {p.calls[c].decl, p.calls[c].callee} \subseteq {0} \cup DOMAIN p.funcs
       /\ p.calls[c].args \in Seq(ArgForms)
       /\ p.calls[c].file \in File /\ p.calls[c].line \in Nat
       /\ \A d \in 1..c : p.calls[d].file = p.calls[c].file =>
                            p.calls[d].line <= p.calls[c].line
  /\ 0 \notin DOMAIN p.funcs
  /\ \A a \in DOMAIN p.lint : p.lint[a] \in Seq(Diagnosed)

\* The packages of a program share no file, as they are loaded without their
\* tests; Validate refuses an analyzer that is there twice.
ASSUME GoTierAssumption ==
  /\ {Direct, Via, Unnamed, UnnamedCall} \subseteq Symbol
  /\ \A a \in Known : Meta(a).rule \in Rule
  /\ \A s \in Programs :
       /\ DOMAIN s = 1..Len(s) /\ Len(s) \in Nat
       /\ \A i \in DOMAIN s : IsPackage(s[i])
       /\ \A i, j \in DOMAIN s : i # j =>
            \A c \in DOMAIN s[i].calls, d \in DOMAIN s[j].calls :
              s[i].calls[c].file # s[j].calls[d].file
       /\ \A t \in Analyzers[s] : /\ t \in Seq(STRING)
                                  /\ \A i, j \in DOMAIN t : t[i] = t[j] => i = j

VARIABLES program, \* what there is to load
          team,    \* Runner.Analyzers, or Defaults: the analyzers in order
          pc,      \* "load", "scan" between passes, "pass", "merge", "done"
          which,   \* the analyzer that is next
          nth,     \* the package it looks at next, then the diagnostic to merge next
          acts,    \* the diagnostics of its passes so far
          out,     \* the findings of the scan so far
          lost,    \* the analyzers that panicked or could not be run
          spoiled, \* the passes that failed: analyzer and package
          result   \* what Scan returned
tierVars == <<program, team, pc, which, nth, acts, out, lost, spoiled, result>>
vars == <<tierVars, passVars>>

\* A wrapper's call stays medium whatever its analyzer's default.
IsWrapperText(text) == text \in {Via, UnnamedCall}

\* Mutant: the analyzer's default decides.
DiagnosticFindingDefault(a, d) ==
  [rule |-> Meta(a).rule, file |-> d.file, line |-> d.line, symbol |-> d.text,
   sev |-> Meta(a).sev, conf |-> Meta(a).conf, status |-> "open"]

\* Mutant: nobody sets the status.
DiagnosticFindingUnmarked(a, d) ==
  [rule |-> Meta(a).rule, file |-> d.file, line |-> d.line, symbol |-> d.text,
   sev |-> Meta(a).sev, conf |-> IF IsWrapperText(d.text) THEN "medium" ELSE Meta(a).conf,
   status |-> ""]

\* diagnosticFinding: the text is the symbol; the line is not in the
\* fingerprint.
DiagnosticFinding(a, d) ==
  [rule |-> Meta(a).rule, file |-> d.file, line |-> d.line, symbol |-> d.text,
   sev |-> Meta(a).sev, conf |-> IF IsWrapperText(d.text) THEN "medium" ELSE Meta(a).conf,
   status |-> "open"]

\* The packages the analyzers see: under the root, without errors.  They keep
\* their positions.
Initial(s) == [i \in {j \in DOMAIN s : s[j].under /\ ~s[j].errors} |-> s[i]]

Analyzer == team[which]
Packages == Initial(program)

Init == /\ program \in Programs
        /\ team \in Analyzers[program]
        /\ pc = "load"
        /\ which = 1 /\ nth = 1
        /\ acts = <<>> /\ out = <<>>
        /\ lost = {} /\ spoiled = {}
        /\ result = "none"
        /\ pkg = [funcs |-> <<>>, calls |-> <<>>] /\ stage = "decls" /\ at = 1
        /\ wrappers = [f \in {} |-> 0] /\ diags = <<>>

Return(res) == pc' = "done" /\ result' = res

\* Validate and packages.Load: an error, nothing to look at, or packages.
Load == /\ pc = "load"
        /\ \/ Return("failed")
           \/ /\ (\A i \in DOMAIN program : ~program[i].golang) \/ DOMAIN Packages = {}
              /\ Return("ok")
           \/ /\ \E i \in DOMAIN program : program[i].golang
              /\ DOMAIN Packages # {}
              /\ pc' = "scan" /\ UNCHANGED result
        /\ UNCHANGED <<program, team, which, nth, acts, out, lost, spoiled, passVars>>

\* checker.Analyze begins with a package; one whose imports do not type-check
\* is passed over, with nothing said.
Open == /\ pc = "scan" /\ which \in DOMAIN team /\ nth \in DOMAIN program
        /\ IF nth \in DOMAIN Packages /\ ~program[nth].illTyped
           THEN Begin(program[nth]) /\ pc' = "pass" /\ UNCHANGED nth
           ELSE nth' = nth + 1 /\ UNCHANGED <<pc, passVars>>
        /\ UNCHANGED <<program, team, which, acts, out, lost, spoiled, result>>

\* An analyzer of another project: its diagnostics, all at once.
LintStep == /\ stage = "decls"
            /\ diags' = IF Analyzer \in DOMAIN pkg.lint THEN pkg.lint[Analyzer] ELSE <<>>
            /\ stage' = "calls"
            /\ at' = Len(pkg.calls) + 1
            /\ UNCHANGED <<pkg, wrappers>>

Pass == /\ pc = "pass"
        /\ CASE Analyzer = "msgtrace"     -> MsgTraceStep
             [] Analyzer = "otelresource" -> OtelResourceStep
             [] OTHER                     -> LintStep
        /\ UNCHANGED tierVars

Close == /\ pc = "pass" /\ PassEnded
         /\ acts' = acts \o diags
         /\ nth' = nth + 1
         /\ pc' = "scan"
         /\ UNCHANGED <<program, team, which, out, lost, spoiled, result, passVars>>

\* A pass returns an error, as those of the repository never do: what it
\* reported before is not looked at.
PassFails == /\ pc = "pass" /\ Analyzer \notin House
             /\ spoiled' = spoiled \cup {<<Analyzer, nth>>}
             /\ nth' = nth + 1
             /\ pc' = "scan"
             /\ UNCHANGED <<program, team, which, acts, out, lost, result, passVars>>

\* Mutant: the analyzer is tried again.
PanicRetries == /\ pc = "pass"
                /\ pc' = "scan"
                /\ acts' = <<>> /\ nth' = 1
                /\ UNCHANGED <<program, team, which, out, lost, spoiled, result, passVars>>

\* Mutant: what it reported of earlier packages is kept.
PanicKeeps == /\ pc = "pass"
              /\ lost' = lost \cup {Analyzer}
              /\ pc' = "scan"
              /\ nth' = Len(program) + 1
              /\ UNCHANGED <<program, team, which, acts, out, spoiled, result, passVars>>

\* A panic, or an analyzer that cannot be run, unwinds to runAnalyzer, which
\* has collected nothing yet.
Panic == /\ pc = "pass"
         /\ lost' = lost \cup {Analyzer}
         /\ which' = which + 1
         /\ nth' = 1 /\ acts' = <<>>
         /\ pc' = "scan"
         /\ UNCHANGED <<program, team, out, spoiled, result, passVars>>

\* runAnalyzer has come through: its diagnostics become findings, if it has a
\* rule.
Collect == /\ pc = "scan" /\ which \in DOMAIN team /\ nth \notin DOMAIN program
           /\ pc' = "merge" /\ nth' = 1
           /\ acts' = IF Analyzer \in Known THEN acts ELSE <<>>
           /\ UNCHANGED <<program, team, which, out, lost, spoiled, result, passVars>>

\* Mutant: the last of a fingerprint stands where the first did.
MergedLast(fs, f) ==
  IF Fp(f) \in Fps(fs) THEN [i \in DOMAIN fs |-> IF Fp(fs[i]) = Fp(f) THEN f ELSE fs[i]]
  ELSE Append(fs, f)

\* seen: the first of a fingerprint stands for all.
Merged(fs, f) == IF Fp(f) \in Fps(fs) THEN fs ELSE Append(fs, f)

\* One finding of runAnalyzer joins the rest.
Merge == /\ pc = "merge" /\ nth \in DOMAIN acts
         /\ out' = Merged(out, DiagnosticFinding(Analyzer, acts[nth]))
         /\ nth' = nth + 1
         /\ UNCHANGED <<program, team, pc, which, acts, lost, spoiled, result, passVars>>

\* On to the next analyzer.
Advance == /\ pc = "merge" /\ nth \notin DOMAIN acts
           /\ which' = which + 1
           /\ nth' = 1 /\ acts' = <<>>
           /\ pc' = "scan"
           /\ UNCHANGED <<program, team, out, lost, spoiled, result, passVars>>

Finish == /\ pc = "scan" /\ which \notin DOMAIN team
          /\ Return("ok")
          /\ UNCHANGED <<program, team, which, nth, acts, out, lost, spoiled, passVars>>

Returned == pc = "done" /\ UNCHANGED vars

Next == Load \/ Open \/ Pass \/ Close \/ PassFails \/ Panic \/ Collect \/ Merge \/ Advance
        \/ Finish \/ Returned

Spec == Init /\ [][Next]_vars

\* One goroutine, which the scheduler runs.
FairSpec == Spec /\ WF_vars(Next)

-----------------------------------------------------------------------------
TypeOK ==
  /\ team \in Seq(STRING)
  /\ pc \in {"load", "scan", "pass", "merge", "done"}
  /\ which \in 1..(Len(team) + 1)
  /\ nth \in 1..(IF pc = "merge" THEN Len(acts) + 1 ELSE Len(program) + 1)
  /\ acts \in Seq(Diagnosed) /\ diags \in Seq(Diagnosed)
  /\ out \in Seq(Scanned)
  /\ lost \subseteq {team[i] : i \in DOMAIN team}
  /\ spoiled \subseteq {team[i] : i \in DOMAIN team} \X DOMAIN Packages
  /\ result \in {"none", "ok", "failed"}
  /\ stage \in {"decls", "calls"}
  /\ at \in 1..(Len(pkg.calls) + 1)
  /\ DOMAIN wrappers \subseteq DOMAIN pkg.funcs

\* What analyzer a owes for package p.
Owed(a, p) ==
  CASE a = "msgtrace"     -> MsgTraceOwes(p)
    [] a = "otelresource" -> OtelResourceOwes(p)
    [] OTHER -> IF a \in DOMAIN p.lint THEN {p.lint[a][i] : i \in DOMAIN p.lint[a]} ELSE {}

\* Analyzer a came through, and so did its pass over the i-th package.
Heard(a, i) == /\ a \in Known \ lost
               /\ <<a, i>> \notin spoiled
               /\ ~Packages[i].illTyped

\* Whatever panics or fails, the scan returns what everybody else has found:
\* each finding owed by an analyzer that came through is there by its
\* fingerprint (runner.go Scan, runAnalyzer; msgtrace and otelresource run:
\* a wrapper may be declared after its callers).
Isolated ==
  result = "ok" /\ (\E i \in DOMAIN program : program[i].golang) =>
    \A a \in {team[j] : j \in DOMAIN team}, i \in DOMAIN Packages :
      Heard(a, i) => \A d \in Owed(a, Packages[i]) : Fp(DiagnosticFinding(a, d)) \in Fps(out)

\* A finding is one that an analyzer owes for a package it came through with:
\* nothing is left behind of a pass that failed or of an analyzer that
\* panicked half-way, and no call is reported that the analyzer's one hop
\* does not reach.
Justified ==
  \A k \in DOMAIN out :
    \E j \in DOMAIN team, i \in DOMAIN Packages :
      /\ j <= which /\ Heard(team[j], i)
      /\ \E d \in Owed(team[j], Packages[i]) : out[k] = DiagnosticFinding(team[j], d)

\* Of the places in a file that share a message, the first one is reported,
\* once, so that neither a baseline nor a comment depends on how many there
\* are below it.
FirstStands ==
  /\ UniqueFps(out)
  /\ \A k \in DOMAIN out, i \in DOMAIN Packages, a \in House :
       \A d \in Owed(a, Packages[i]) :
         Fp(out[k]) = Fp(DiagnosticFinding(a, d)) => out[k].line <= d.line

\* No call of a wrapper trips --fail-on, at any level (runner.go: "Wrapper
\* follow-ups from our analyzers stay medium and never raise").
WrappersNeverGate ==
  \A level \in FailOnLevels : \A k \in Blocking(out, FailOnRank(level)) :
    ~IsWrapperText(out[k].symbol)

\* The fingerprints the tier still has to answer for: those of each analyzer
\* that has not been lost, in the packages it was not spoiled for.
Answerable ==
  IF \A i \in DOMAIN program : ~program[i].golang THEN {}
  ELSE UNION {{Fp(DiagnosticFinding(x[1], d)) : d \in Owed(x[1], Packages[x[2]])} :
              x \in {y \in {team[j] : j \in DOMAIN team} \X DOMAIN Packages : Heard(y[1], y[2])}}

\* To whoever asked for it the scan is one step: it answers once, for exactly
\* what the analyzers that came through owe, or with an error and nothing.  A
\* panic or a failed pass takes from what there is to be had, and only while
\* the scan goes on.
Contract == INSTANCE TierContract WITH
  due    <- Answerable,
  broken <- FALSE,
  answer <- IF result = "failed" THEN "error" ELSE result,
  found  <- IF result = "ok" THEN Fps(out) ELSE {}

KeepsContract == Contract!Spec

\* What a scan has left to do: analyzers, then packages to scan or diagnostics
\* to merge, then the two walks of a pass.
Left == <<IF pc = "load" THEN 2 ELSE IF pc = "done" THEN 0 ELSE 1,
          Len(team) + 1 - which,
          IF pc = "merge" THEN 0 ELSE 1,
          Len(IF pc = "merge" THEN acts ELSE program) + 1 - nth,
          IF pc = "pass" THEN 0 ELSE 1,
          IF stage = "decls" THEN 1 ELSE 0,
          Len(pkg.calls) + 1 - at>>

\* Each step leaves less to do: an analyzer that panics or fails is not tried
\* again, no package is come back to, and a walk that stops early does not
\* start over.
StepsRunOut == [][Below(Left', Left)]_vars

\* Every scan returns, however many analyzers panic.
ScanReturns == <>(result # "none")
=============================================================================
