# Verification of tarsier

tarsier audits a source tree for observability gaps. One invocation is a short-lived
process: it runs an external pattern engine (ast-grep) and, if asked, a Go analysis tier
over the tree, applies inline suppressions and a baseline file, prints a report and turns
what is left into an exit status that gates a build. This directory holds TLA+ models of
the parts where that can go wrong, the TLC runs that check them and TLAPS proofs of the
properties that matter most.

Paths below are relative to the repository.

## 1. Inventory

| Component | Code | State it keeps | Operations |
|---|---|---|---|
| finding schema and life cycle | `finding/`, `cli/scan.go` applyLifecycle, mergeLifecycle | none between calls: slices, a set of fingerprints | Fingerprint, Fill, ParseSuppressions, ApplySuppressions, WriteBaseline, LoadBaseline, PartitionNew, mergeLifecycle |
| gates and policy | `cli/failon.go`, `cli/policy.go`, `cli/check_cardinality.go` | a validated policy | failOnRank, blockingCount, LoadPolicy, validate, blockedRules, policyBlockingCount, isCardinalityRule |
| invocation | `cli/scan.go`, `cli/check.go`, `cli/check_cardinality.go`, `cmd/tarsier/main.go` | temporary directory of rules, list of findings, report written so far, exit status | `scan`, `check`, `check-cardinality` |
| pattern tier | `engine/pattern/` | child process, pipe, occurrence counters, context with a deadline | resolveBin, checkVersion, executeScan, decode, waitErr, excluded, relPath |
| extra cardinality findings | `engine/resolve/extras.go` | position of a directory walk | CardinalityExtras, visitCardinalityPath, extrasForFile |
| thin resolvers | `engine/resolve/` (go, arrays, typescript, python, java) | one `File` of facts per call | Analyze and its language-specific passes |
| go tier runner | `engine/golang/` | fingerprints seen so far | Runner.Scan, runAnalyzer, diagnosticFinding |
| message propagation analyzer | `analyzers/msgtrace` | wrappers found by the first pass | run |
| OTel resource analyzer | `analyzers/otelresource` | wrappers found by the first pass | run |
| HTML report | `report/` | counters and groups | Build, WriteHTML |
| settings | `cli/root.go` | flags, environment, config file | loadConfig, applyConfig, setupLogger |
| embedded rule pack | `rules/pack.go`, `ruleutils/` | files in a temporary directory | Materialize |
| ast-grep rules | `rules/*/*.yml`, `ruleutils/*.yml` | data | none |
| version command, otel-checkup script | `cli/version.go`, `scripts/otel-checkup.sh` | none | none |

### How they interact

`scan` and `check` go through the same sequence: (policy,) engine name, directory of rules,
(threshold,) `runEngines`, `applyLifecycle`, `render`, gate. `check-cardinality` is a
shorter one with its own order: rules, pattern tier, filter by rule, `render`, threshold,
gate. The pattern tier starts ast-grep as a child process and reads a JSON stream from a
pipe while a goroutine of `os/exec` waits for the deadline; after the child has been waited
for, it walks the tree itself for the extra findings. Invocations share nothing in memory.
They share the source tree, which anybody may edit at any time, and the baseline files,
which `os.WriteFile` truncates and rewrites in place without a lock.

### What is hard

* **Several looks at one tree.** The pattern tier, the extra walk, the go tier and the
  reader of suppression comments each read the tree at a moment of their own.
* **A baseline without a lock.** Truncate and write are two steps. Another invocation may
  read, truncate or write in between, a crash may leave any prefix, and a prefix over the
  record of another may be a mixture that still decodes.
* **Identity by fingerprint.** Baseline, life cycle and merge identify a finding by its
  fingerprint, which leaves out the line. Some producers emit several findings with one.
* **Order of effects.** The baseline is loaded, rewritten, then the report is printed, then
  the exit status is decided. Each step may fail and leaves what was done before.
* **A child process behind a pipe.** Its output may be malformed, cut short by a kill, or
  longer than the pipe; its exit may race with the deadline; it may hang.
* **One file, several names.** Four readers of the tree spell a file from the root, from
  where ast-grep runs, from the loader's absolute name or by its base name; the reader of
  comments has to find the file again under each, and a fingerprint keeps what it was given.
* **Analyzers that break.** A linter of another project may panic on a partial dependency
  graph or fail on a package, half-way through what it has to say.
* **Three places for one setting.** Command line, environment and config file are applied
  to the flags one at a time, and any of them may be wrong.
* **Numbering a concurrent stream.** ast-grep interleaves files; occurrence numbers that
  end up in fingerprints must not depend on how.

### What makes each component correct

* life cycle: each finding is reported once, in its place, with the right status; nothing
  due is lost, even when fingerprints collide;
* gates: a build fails exactly over open, new findings that are not of medium confidence and
  are at the threshold or in a class that was opted into;
* baseline: a file that decodes is one complete record of one invocation, unless a write
  broke off over the record of another; nothing is in it that nobody recorded;
* invocation: it answers once, the exit status follows from the printed report, it ends
  whatever others do, and its temporary directory has the right life span;
* pattern tier: stable numbers, no partial result taken for a whole one but in the two cases
  in which the code lets it, no child left behind, an answer for every scan;
* extra findings: each Java and Python file within the walk's reach is read, and none beyond
  it; what is skipped, linked or gone costs only itself;
* spelling of paths: a finding goes by the path below the root, however the root is given,
  and a comment quiets the finding beside it whichever reader found it;
* go tier: one analyzer's panic or error does not lose what the others found and leaves
  nothing half-done behind; one place stands for each fingerprint;
* analyzers: the calls within one hop of a produce method or a resource, in whatever order
  the package declares them, and no others;
* HTML report: the page a reviewer opens explains the exit status of the run;
* settings: flag before environment before config file before default.

The hazards, line by line, with the properties that cover each one, are in `PROJECT.json`.

## 2. Modules

| Module | Models | EXTENDS |
|---|---|---|
| `Findings` | schema, fingerprints, suppression, partition, merge | Naturals, Sequences |
| `Gates` | `--fail-on`, policy, rule filter | Findings |
| `BaselineFile` | what is in a baseline file, and what reading and writing it make of that | Findings, FiniteSets |
| `ScanLifecycle` | the three commands, any number of invocations at once, tree and disk | Gates, BaselineFile |
| `ScanContract` | what an invocation promises, abstractly | Gates |
| `HtmlReport` | the summary behind `--output html`, next to the verdict | ScanLifecycle |
| `MCScanLifecycle` | TLC instances of `ScanLifecycle` | HtmlReport |
| `Settings`, `MCSettings` | how a command comes by its settings | Sequences |
| `TierContract` | what an invocation takes a tier for, abstractly | none |
| `Measures` | what a run has left to do, as sequences of numbers | Naturals |
| `AstGrepRun` | one scan of the pattern tier with its child process | Naturals, Sequences, FiniteSets, Measures |
| `MCAstGrepRun` | TLC instances of `AstGrepRun` | AstGrepRun |
| `Paths` | how each reader spells a file; the exclusions | Naturals, SequencesExt |
| `SourceScan`, `MCSourceScan` | the readers of the tree on one file system that shrinks | Findings, Paths, Measures |
| `AnalysisPass` | one pass of a go/analysis analyzer over one package | Naturals, Sequences |
| `MsgTrace`, `OtelResource` | the two analyzers of the repository | AnalysisPass |
| `GoTier`, `MCGoTier` | one scan of the Go tier with the analyzers it runs | Gates, MsgTrace, OtelResource, Measures |
| `ScanLifecycleProofs` | the merge; type correctness, the inductive invariant of the stages | ScanLifecycle, TLAPS |
| `ReportProofs` | the report, the gates and the page; what one run settles for the next; the refinement of `ScanContract` | ScanLifecycleProofs, HtmlReport |
| `DiskProofs` | the temporary directory and the baseline files | ScanLifecycleProofs |
| `AstGrepRunProofs` | the scan with its child process: progress, versions, stream, outcome; the refinement of `TierContract` | AstGrepRun, TLAPS |
| `SettingsProofs` | precedence and refusals | Settings, TLAPS |
| `SourceScanProofs` | paths, the walk for extras, the reading of comments | SourceScan, TLAPS |
| `GoTierProofs` | both analyzers, the isolation of each, what a scan keeps; the refinement of `TierContract` | GoTier, TLAPS |
| `MeasuresProofs` | no measure goes down for ever | Measures, TLAPS |

Definitions named as mutants in their comments are deliberately wrong variants of the
definition that follows them. TLC refutes each property with one of them in place of the
right definition, which shows that the property depends on the code.

### Findings and Gates

A Go slice of findings is a function from positions to findings. A scan is a sequence; what
`ApplySuppressions`, `PartitionNew` and the rule filter keep stays at the position it had,
so order is preserved by construction of the representation exactly where the code appends
in input order, and `mergeLifecycle`'s look-ups by fingerprint are the code's.
`Fp` is the triple (rule, file, symbol): the digest of length-prefixed fields is taken to
be injective, `Module` is always empty. Only the fields that the life cycle and the gates
look at are in a `Finding`. Its confidence is high, medium, or `""` for whatever else the
metadata of a rule says, or does not say, as the pattern tier passes it through
(`engine/pattern/runner.go:297`); the gates ask for medium only, in any letter case. A
suppression has a reason, a rule, a file and a line.
`mergeLifecycle` is `MergeLifecycle`: a map that is filled from the fresh findings in order
and then from the suppressed ones, the last write winning, read back in the order of the
scan. `isCardinalityRule` compares prefixes; the pack has no rule that extends one of the
two names, so the filter is membership.

### BaselineFile

A record is a constant header, one line of fixed width per fingerprint in the order of the
digests, and the closing brackets. `os.WriteFile` lays it from offset 0 over whatever the
file has by then. All records share the header and the offsets of their lines, so a file is
a sequence of cells: a line, the end, or something damaged. `Overwritten` is a whole record
over a file (a longer one keeps a tail, and then does not decode), `Scribbled` a prefix of
one, which may break off between two cells or within one. What is left after that may
decode: the first lines of one record and the rest of another, with one line whose digest is
spliced of both or not. `Decodes` is `json.Unmarshal`, which does not look at the order of the
fingerprints and does not care for a missing newline.

### ScanLifecycle

`pc[r]` is where invocation `r` is; each action is one operation of the code with all of its
error returns.

| Action | Code |
|---|---|
| `LoadPolicy` | `cli/policy.go` LoadPolicy, validate |
| `NormalizeEngine` | `cli/scan.go` normalizeEngine |
| `MakeTemp`, `Materialize` | ensurePatternRules, `rules/pack.go`; the head of check-cardinality |
| `CheckFailOn` | failOnRank: before the engines for scan, after the report for check-cardinality |
| `ScanPattern`, `ScanGo` | runEngines: all findings of the tree at that moment, or an error |
| `LoadSuppressions` | loadSuppressions: the comments of the files that have findings and can be read |
| `LoadBaseline` | LoadBaseline: what does not decode is an error |
| `OpenBaseline`, `WriteBaseline` | `os.WriteFile`: truncate, then write, each of which may fail |
| `Merge` | PartitionNew, mergeLifecycle |
| `KeepFindings` | the filter of check-cardinality |
| `Render` | render: the whole report or a part of it and an error |
| `Gate` | blockingCount, policyBlockingCount |
| `Return`, `Fail` | RunE returns: deferred cleanup, exit status |
| `Kill` | the process dies: no deferred call runs, a write in progress leaves a part |
| `Edit` | the tree changes |

Abstractions. The settings come as `Settings` leaves them. The output format is not told
apart: a reader can tell a whole report from one that broke off in all three. A policy file
that cannot be read or decoded is one with version 0. The comments are read in one step,
although the code reads file by file, and a baseline is read in one step. `adopted` and
`wrote` are history variables, used by properties only; `wrote` is no, all, part (the write
broke off) or over (it broke off over something another invocation had put there since the
truncation).

### ScanContract

The abstract specification an invocation implements: it gathers evidence, publishes one
report that answers for the evidence, concludes with the verdict that follows from the
printed report, or refuses at any time having printed nothing or a proper beginning. The
refinement mapping (`Contract` in `ScanLifecycle`) takes what an invocation found,
suppressed and knew for its evidence.

### TierContract

To `runEngines` a tier is one call: it answers once, with the findings there are to be had
or with an error and none. `ScanLifecycle` has it so, as the single steps `ScanPattern` and
`ScanGo`. `TierContract` states that (`Deliver`, `Refuse`), and two things a single call
hides: findings may be lost while the call goes on (`Lose`), and a tier whose source breaks
off (`Break`) may deliver what came before, if that is something. `AstGrepRun` and `GoTier`
implement it:

| | `AstGrepRun` | `GoTier` |
|---|---|---|
| `due` | the matches of the tree under their numbers (`Expected`) | what the analyzers that came through so far owe (`Answerable`) |
| `broken` | ast-grep's output does not decode to its end (`Malformed`), or ast-grep stopped early with exit code 1 | never |
| `answer` | `ok`, or an error for every other result | `ok`, or an error |
| `found` | the list returned | the fingerprints of the list returned |

### AstGrepRun

The goroutine that runs `Scan` (`Resolve` to `Extras`), ast-grep (`Emit`, `Exit`, `Crash`,
`Hang`), and the context with the goroutine that watches it (`Expire`, `Cancel`,
`KillChild`). ast-grep is external and modelled from how `runner.go` uses it: matches of one
file in order, files in any interleaving, blocking on a full pipe, exit code 1 if some match
has severity error. It may also stop early, with exit code 1 or with 2, which stands for
every other code and for a signal (`Crash`); `stopped` remembers that it did, for properties
only. waitErr cannot tell an early exit with code 1 from one over matches and lets it pass
once a finding was decoded (`engine/pattern/runner.go:430`). A kill or a crash may cut the
last item of the stream, which costs a warning. Once the child is dead its end of the pipe is
closed (`EndOfFile`): ast-grep is taken to start no process that would keep it open. `WaitErr`
is the order of checks in waitErr, including the case where the kill reaches a child that has
exited but has not been reaped, which makes `cmd.Wait` fail although the child succeeded.
The sort at the end is by contents, so the list is kept as a set. The command line never
cancels its context; a caller of `Runner.Scan` may, and `runner_test.go` does. A version is
a sequence of one to three parts, each a number with or without more behind it, or no
number; `LeadingInt` is what `strconv.Atoi` makes of the digits of one, the largest int on
overflow included, and `MaxInt` stands for that.

### SourceScan and Paths

A path is absolute or not, a number of leading `..`, and names; it is clean, as
`path/filepath` leaves it, and `Denoted` is what it names to a process in a directory.
`Join` is `filepath.Join`, the leading `..` of its second argument included, each of which
takes a name off the first or is kept.
`RelPath`, `GoSpelling` and `SourcePath` are the three functions of the code that spell or
resolve one, with the outcome of `filepath.Rel` when it fails. `Parts` has what a name
splits into at `-` and `_`, which is all that the residual filter looks at.

The file system is a function from absolute names to entries: file or directory, link,
readable, language, and the facts each reader would take from it (matches, labels,
constants, diagnostics, comments with or without a reason, the first oversized line).

| Action | Code |
|---|---|
| `Pattern` | resolveDirTarget; ast-grep's view of the tree; decode, relPath, excluded |
| `Extras` | CardinalityExtras: Stat, the single file, the start of the walk |
| `Walk` | one entry of WalkDir: visitCardinalityPath (`Pruned`, `PassedOver`, `Entered`, `Looked`) |
| `Go` | the go tier's findings and their spelling, or its error |
| `Suppress` | one finding of loadSuppressions: sourcePath, the file read once, ParseSuppressions |
| `Vanish` | a file or a directory with all below it is removed, the root included |

Abstractions. Each finding keeps the file it is about (`own`), which the properties compare
with the file its spelling leads to. WalkDir lists a directory when it enters it, so
`pending` holds entries that may be gone by their turn; the order of a listing is whichever
`CHOOSE` gives. loadSuppressions goes through the findings in any order, which covers the
sorted one. A root that is given by name may be a link, and is then not walked; `.` and `..`
are where they lead, whatever link led there (`Linked`). The regular expressions of the Java
and Python resolvers are facts of the file; that the last annotation of a parameter name
wins for the whole file (`Params`) is not.

### AnalysisPass, MsgTrace, OtelResource, GoTier

A package is its function declarations and its calls in source order; a call knows its
declaration and the nearest call around it. Both analyzers walk the calls in the bodies of
the declarations first (`VisitBody`) and learn which functions are wrappers, then all calls
(`VisitCall`), where the
inspector does not descend below a call it has looked at. What `types.Info` says (whether a
parameter is a message, whom a call calls) is a fact of the package. A diagnostic's line is
that of its call; in the code it may be that of a literal in the same call.

`GoTier` runs them as they are, step by step, between `Open` and `Close` of each pass, in
the order the runner is given; a linter of another project answers in one step. `Panic`
may come at any step of any pass and unwinds to runAnalyzer, which has collected nothing by
then; `PassFails` is a linter's error on a package, over which Collect skips what the pass
reported (the repository's own analyzers return none); a package that does not
type-check in its imports is passed over by the checker. `Collect` is the rest of
runAnalyzer, `Merge` one finding of the loop of Scan that keeps the first of each
fingerprint, `Advance` the next analyzer. `MsgTraceOwes` and `OtelResourceOwes` say what the two
analyzers owe without a walk: sets of diagnostics defined over the package.

### Settings and HtmlReport

`Settings` has one action per step of cobra's preliminaries: parse, loadConfig, applyConfig
one flag at a time in the order of VisitAll, setupLogger, the required flag. A value is a
text that does or does not parse; only durations can fail to. cobra, pflag and viper are
external and modelled by what `root.go` relies on: an empty environment variable is none,
the flag set of a command holds the root's flags, and the required flag is looked for after
the configuration has been applied.

`HtmlReport` builds the summary of what a run of `ScanLifecycle` printed and compares it
with that run's verdict.

## 3. Runs

| Run | Module | States | Shows |
|---|---|---|---|
| `gates` | MCScanLifecycle | 43,991 | one invocation, every command, gate, engine and policy |
| `baselines` | MCScanLifecycle | 278,449 | two invocations on one baseline file |
| `astgrep` | MCAstGrepRun | 22,940 | one scan of the pattern tier |
| `deep` | MCGoTier | 117,867 | one scan of the Go tier |
| `sources` | MCSourceScan | 47,930 | one tree under many roots, while it shrinks |
| `settings` | MCSettings | 15,095 | every command, settings from every place |
| `masked`, `unreported`, `torn` | MCScanLifecycle | stops at the violation | section 6 |
| `exit_one`, `partly` | MCAstGrepRun | stops at the violation | section 6 |
| `spelling` | MCSourceScan | stops at the violation | section 6 |

`gates` checks `TypeOK`, `ReportExact`, `NothingDropped`, `GateSound`, `GateJustified`,
`TempDirs`, `PageShowsWhy`, `EveryRunEnds` and that the specification implies
`KeepsContract`. `PageShowsWhy` sets the HTML page of a run beside its verdict: what the run
has to fail for has its row, what it fails over is counted in the chips, and the rows add
up. One invocation is enough for them: none of them relates two invocations, and what
another one does to the disk before or during the run is covered by the choice of adopted
baselines, of which one does not decode. The trees hold a finding suppressed from above, one
beside its comment, one in an unreadable file, two of equal fingerprint with one suppressed
(`Twins`), and confidence that is high, medium or not stated; one edit may move the run from
any tree to any other at any moment, so each pair of looks at the tree may disagree.

`baselines` has two invocations that read, write, do both or do neither, over a file that
is adopted or does not decode. What an invocation records depends on the tree it scanned and
on the tree it read the comments from, and the edit may come between the two: records of
one and of two findings occur, and the adopted one is broken or has two, so that a shorter
record may be laid over a longer one and the other way round, whole or a part of it. Two
writers and a reader that is one of them are the smallest case of a mixture; the theorems
`BaselinesAreWhole` and `KnownIsRecorded` cover any number. `BaselineIsWhole` says of a file
that decodes that it is one complete record, and names the one way out: a write that broke
off over the record of another (`Spliced`). `KnownWasRecorded` says of a run that loads a
baseline that it takes a complete record of others for known or, after such a write, at least
nothing that none of them recorded. The run `torn` shows the mixture. `Settled` follows a
finding over two runs: what a
run recorded stays quiet in the next one, and blocks nobody, even if lines have moved or the
writer itself had an older baseline: a run that reports only what is new must record what is
old as well.

`astgrep` checks `TypeOK`, `NoOrphan`, `VersionGate`, `StableFingerprints`,
`NoPartialSuccess`, `NoStandstill`, `StepsRunOut`, `Answered` and `KeepsContract`.
`NoPartialSuccess` names the two ways in which a scan may succeed with less than all:
malformed output, and an early exit with code 1 after a match. It has
three files (two that count, one that the residual filter drops), a text that
repeats within and across files, output that is malformed with more behind it than the pipe
holds, a tree with matches in dropped files alone, and one with none. The pipe holds two
items: what matters is that it is shorter than the malformed tail (three items). The
versions are the least that will do, some that are too old by one, or although a later part
is large, and some whose parts are missing, are no number or lie beyond `MaxInt`.
`VersionGate` says that ast-grep runs under none that is too old and is turned away under
no other. `NoStandstill` says that whoever waits (the decoder for a byte, ast-grep for room
in the pipe, `Wait` for the end of the child) waits for somebody who can go on; `StepsRunOut`
that every step takes the measure `Left` down: deadline, stage of `Scan`, kill, child, items
not written, items in the pipe, entries of the walk, the first that changes deciding. A
decoder that tried again after malformed output, or a child that was waited for before it was
drained, break one or the other.

`deep` checks `TypeOK`, `Isolated`, `Justified`, `FirstStands`, `WrappersNeverGate`,
`StepsRunOut`, `ScanReturns` and `KeepsContract`. It has every package of two functions (one
that takes a message after two other parameters, one that takes none) and two calls in every
shape, nested or not, inside or outside of a declaration: the smallest in which a wrapper
stands below its caller, a call hides in another's arguments, and a word of an inner call
counts for the outer one. Larger programs add a chain of two hops, messages repeated in one
file, two linters under one rule, an analyzer without a rule, and packages outside the root,
without Go files, with errors of their own and with imports that do not type-check.

`sources` scans one tree from itself, from above, from below (`..`), from a sibling
(`../app`), by its absolute name, with a root named vendor, a root or a directory that is a
link (by its name, and as `.` from within), an unreadable directory and files, no root,
single files in and below the working directory, a directory that contains its namesake, and
a root that begins with `..` and repeats names on its way, with a file named like itself
(`Repeated`: there a namesake may be taken for any file): nineteen scans. `ExtrasInScope`
says that the walk reads what is within its reach and not marked as vendored, generated or
test code, and nothing beyond its reach; what it finds in marked paths is held neither for
right nor for wrong (section 6). Up to two removals may fall between any two steps, enough
for a directory to vanish after it was listed and a file after a finding in it.
`StepsRunOut` there says that no entry is come to twice: its measure is the removals that
may come, the stage, the entries below what is pending, the pending entries and the findings
whose comments are to be read.

`settings` crosses two flags given well, wrongly, emptily or not at all in three places,
the name of the config file in two places with the file whole, missing or broken, the
required flag in each place, and a key of another command.

Bounds: `Runs`, `MaxEdits` (edits or removals), `Trees`, `Invocations`, `Adopted`,
`Scripts`, `Walked`, `Versions`, `MaxInt`, `PipeSize`, `Programs`, `Scans` and `Givens`. None
of them is in the code; `PipeSize` stands for the capacity of an operating system pipe.

### Fairness

`ScanLifecycle!FairSpec` has weak fairness of each invocation's `Step`: an invocation is a
process of its own, has no lock to wait for, and the operating system runs it. A `Kill` is a
choice and never required, and nobody has to edit the tree. `EveryRunEnds` then says that no
step of an invocation waits for another.

`AstGrepRun!FairSpec` has weak fairness of tarsier's goroutine, of ast-grep's writing and
exiting (until it hangs), and of the goroutine that kills the child. Nothing is assumed of
the clock: `Answered` allows a scan to go unanswered only as long as its child hangs and
the deadline has not come.

`GoTier!FairSpec` has weak fairness of the whole next-state relation: the tier is one
goroutine without a lock (the checker runs sequentially). Its steps include the panics, so
`ScanReturns` holds however many of them occur.

## 4. Proofs

All proofs hold for every value of the constants that the assumptions admit. There are six
assumptions, and TLC evaluates each of them in the runs of its module.

* `DigestAssumption` (`BaselineFile`): fingerprints have distinct digests, in some order.
* `ConfigAssumption` (`ScanLifecycle`): command lines, trees and baseline files are of their
  types, and the absent path is no path.
* `RunAssumption` (`AstGrepRun`): the items of a file's stream are about that file; a version
  has one to three parts, as `strings.SplitN` makes them; the largest int is larger than any
  part of the least version; the pipe holds something; there are finitely many files.
* `GivensAssumption` (`Settings`): the default config file and the one named on the command
  line have a state (whole, broken or missing), and the default of `--timeout` parses.
* `ScansAssumption` (`SourceScan`): the file system is a finite tree (a file has nothing
  below it, and what lies below the root has its directories), lines are numbers, an
  absolute root has no `..` left, and a root that is a file has a name. Links, unreadable
  entries, roots that are missing and any spelling of root and working directory are
  admitted. A file has finitely many lines, and matches or comments on them.
* `GoTierAssumption` (`GoTier`): a package is well formed (`IsPackage`: a call lies within
  earlier ones, and the calls of a file come in the order of its lines, as both inspectors
  walk it), no two packages of a program share a file, and no analyzer is there twice
  (`analysis.Validate` refuses that). Packages are loaded without their tests, so each file
  is compiled into one. Sources with `//line` directives, which give lines of other files
  in any order, are outside of it.

1. `ScanLifecycleProofs`, first part: the merge. `LastPosition` says that a non-empty set of
   positions of a list has a greatest one, so the map of `mergeLifecycle` has a well-defined
   last write. From it follow `LifecycleCovers` (nothing due is lost, whatever the
   fingerprints) and `LifecycleExact` (the merged list is the report due, when fingerprints
   are distinct).
2. `ScanLifecycleProofs`, second part. `TypeCorrect` is type correctness. Types alone do not
   carry any of the safety properties: what a run printed has to be traced to what it found,
   several steps earlier. `StageInv` does that. For each invocation it says, by the stage it
   has reached, which list `out` is (`DueList`), what was printed, which command and gate it
   belongs to and which verdict that allows. It is inductive together with `TypeOK`: another
   invocation's step, an edit and a kill leave an invocation's own part as it was
   (`OthersFrozen`, `EditFrozen`, `FrozenStage`) and its own step moves it to the next stage
   (`OwnStage`). `StagesCorrect` is `Spec => []StageInv`.
3. `ReportProofs`. `ReportIsExact`, `NothingIsDropped`, `GateIsJustified` and `GateIsSound`
   follow from `StageInv` with the lemmas of 1, state by state. `GateIsJustified` needs
   that a look-up by fingerprint returns a finding of the same rule, and that a list with a
   suppressed twin is only ever more suppressed than it should be.
4. `DiskProofs`. `TempDirsKept` rests on `TempInv`: from the creation of the directory on,
   every stage up to the pattern tier has it. The baseline needs `HistoryInv`, which says
   in which stages an invocation can have written its file; since `found` and `sup` do not
   change after that, what it recorded does not either (`RecordStays`). A step leaves a file
   alone, empties it, or lays a record or a part of one over it (`FileMoves`). What decodes
   after a whole write is the record just written (`WholeWrite`): a tail left behind would
   stand after the end. What decodes after a write that broke off in an empty file is that
   record as well (`WritePrefix`). The third case, over another's record, is what `Spliced`
   leaves out. Recordings only grow (`RecordingsGrow`), which gives `BaselinesAreWhole`.
   `FileInv` says what holds in every case, of every file, whether it decodes or not: each
   fingerprint in it was in the adopted file or in the record of one who has written, because
   a splice adds none (`NothingAdded`). `KnownIsRecorded` follows from both: the load of a run
   comes before its own write, so whatever it loaded was adopted or another's, and stays so
   (`SourcedStays`).
5. Also in `ReportProofs`, `RecordedIsSettled` is `Settled` from `StageInv`, state by state.
   `LifecycleKeepsContract` is the refinement. Under the mapping each step of an invocation
   gathers, publishes, concludes, refuses or is silent (`StepDoes`, one case per action);
   a publication answers for the evidence because the list printed is the `DueList` of the
   stage (`DueListAnswers`), and what breaks off is a beginning of it (`BeforeBreaksOff`).
   `DoesMaps` turns each of the five into a step of the contract or a stutter.
   `PageExplains` is `PageShowsWhy`. Rows and chips are counts by class, and what they come to
   is a sum over classes, which would need induction. It is stated without one: the sum is the
   size of a disjoint union (`Total`), each class is numbered by a bijection from `1..count`
   (`Numbered`), and the numberings together are one of the whole (`ClassesAddUp`). Hence the
   rows add up to the totals (`RowsAddUp`), and the chips at the threshold count at least what
   the run fails over (`ChipsAddUp`). That each finding to fail for has its row follows from
   `StageInv` and `LifecycleExact`.
6. `AstGrepRunProofs`. `NoneIsOrphaned` needs `ProcessInv`: where Scan is decides what may
   have become of the child, and who has been signalled. `NobodyStandsStill` follows from
   it: a child that lives has room in the pipe, or has written all, or has left something
   for the decoder to take; one that is dead has closed its end (`EndOfFile`).
   `EveryStepCounts` goes over the steps of all three processes with the measure `Left`; an
   item that ast-grep writes leaves `Unwritten`, before it lengthens the pipe.
   `VersionIsGated` needs that comparing parts of fewer or more numbers, none, or one that
   overflows decides what it should (`GateIsRecent`). For the numbers in fingerprints,
   counters and findings have to be related to the streams they come from while an arbitrary
   part of them is in the pipe. `Reading` does it: there are a count of items read of each
   file (`Counts`: the counters and the findings so far are the first of each file's) and an
   index for each item in the pipe (`Carries`: what is written and not read, in its file's
   order, before anything cut short). ast-grep writes at one end (`ReadingEmit`), may be
   killed or stop early (`ReadingCut`), and the decoder takes from the other
   (`ReadingMatch`, whichever files come in between). `FingerprintsAreStable` follows.
   `OutcomeInv` relates it to how the child ended and to whether it stopped early, along
   waitErr's checks, and gives `SuccessIsWhole` with its two exceptions. With these,
   `ScanKeepsContract` is the refinement of `TierContract`: the step that returns delivers
   or refuses, an early exit with code 1 is `Break`, no other one touches the answer
   (`AnswerStays`).
7. `SettingsProofs`. `StageInv`: in each stage of cobra's preliminaries, a flag that
   applyConfig has not come to is as the command line left it (`OnLine`) and one behind it
   is as all the places together have it (`Resolved`). The flags of a command are distinct,
   so none is applied twice. `PrecedenceHolds` is its last stage. `RefusalsAreJustified`
   goes over the actions that refuse.
8. `SourceScanProofs`. First what paths denote: `RelPathAnswers` says which of three
   answers `relPath` gives, `SpelledWell` which spelling each tier arrives at,
   `FindsAgain` that `sourcePath` leads each of them back to the finding's own file, and
   `OneSpelling` that two files never share one. Then the inductive invariant `SourcesInv`:
   `TreeInv` (the file system stays a tree while parts of it go), `FoundInv` (spellings),
   `Flow`, `PendingInv` (each pending entry of the walk is open to it, or gone), `OnlyDue`
   and `AllDue` (what the walk has to read is read, or at or below something pending),
   `SupsInv` and `ReadInv` (which comments have been read, under which name). From it
   follow `TypeCorrect`, `ExtrasAreInScope`, `FindingsAreSpelled`, `CommentsAreHeard` and
   `NoForeignCommentQuiets`. `EveryStepCounts` needs two invariants more: `FiniteInv`, and
   `ApartInv`, that no pending entry lies below another. A directory that the walk enters then
   leaves `Ahead`, and its children, each of which is listed once, were in it before
   (`EnteredShape`, `EnteredGoesOn`).
9. `GoTierProofs`. What a scan owes is defined over whole packages, what a pass does is one
   call at a time, so the invariant of a pass (`PassInv`) says that it has said, at each of
   its steps, what it owes for the calls behind it: `MsgTraceInv` that the first walk knows
   the functions whose produce call it has passed (`Learnt`) and the second has reported the
   direct and the forwarding calls before it, `OtelResourceInv` the like for resources,
   which the first walk reports. A call of a wrapper declared below it is decided with the
   map complete, and this is where the two walks matter. `MsgTraceKeeps` and
   `OtelResourceKeeps` go over the steps, `MsgTraceEnds` and `OtelResourceEnds` show that a
   pass that has ended has said what its analyzer owes, no more and no less. For the scan,
   `TurnInv` says whose fault a loss can be (an analyzer that is lost or a pass that is
   spoiled has had its turn), `ActsInv` that the diagnostics at hand are those owed for the
   packages so far, in the order of the source (`InOrder`), `SourceInv` where each finding
   comes from and `JoinedInv` that what has had its turn is there. A panic only ever takes
   away from an analyzer whose diagnostics are not merged yet, because no analyzer is there
   twice; hence `AnalyzersAreIsolated` and `FindingsAreJustified`. `FirstOneStands` needs
   that a fingerprint belongs to one analyzer of the repository and one package: its rule is
   nobody else's, its file is in no other package. So the first finding with it is the first
   of `acts` with it, whose line is least. `WrappersStayQuiet` follows from `SourceInv`,
   since what comes from a diagnostic has its text for a symbol. `EveryStepCounts` has a
   measure with a place for each loop, from the analyzers down to the calls of a walk, so a
   panic that leaves all the inner ones at once still goes down. For `ScanKeepsContract`, a
   panic or a failed pass only ever shrinks what there is to be had (`AnswerableShrinks`),
   and a scan that returns has exactly that (`CompleteInv`, from `SourceInv` and
   `JoinedInv`; without Go files nothing is run, `NoGoInv`).
10. `MeasuresProofs`. `NoEndlessDescent`: a sequence of measures of one length comes to one
   that the next is not below, because the lexicographic order on `[1..n -> Nat]` is
   well-founded. In each of the three models `Left` is such a measure (`LeftIsNatural`), so
   by `EveryStepCounts` a run takes finitely many steps that change anything. That is the
   part of `Answered` and `ScanReturns` which is about data; what is left of them is the
   fairness rule, that a step which somebody can take is taken. For `AstGrepRun`,
   `NobodyStandsStill` says that there is one.

Two proof attempts showed that the model or a property was wrong. `Join` took its second
argument for one without `..`; it now is `filepath.Join` for all paths. And `CommentsApply`
did not hold where the root begins with `..` and another finding's file is a homonym: the
homonym's spelling leads `sourcePath` to any file at all, which is then read under the wrong
name first. TLC finds it in the scan `Repeated`, and the property now names the exception.

Only model-checked, and why:

* liveness (`EveryRunEnds`, `Answered`, `ScanReturns`): fairness is out of the prover's reach,
  and what can be said without it is proved (10);
* what `MessageParamIndex` computes (a fold over the parameters of a function): the theorems
  about `GoTier` hold for whatever position it gives, and the run `deep` has it count.

## 5. Plan

The most important behaviour came first: what a user sees (report, exit status), then what
one invocation leaves to the next (baseline), then the process that produces the findings.
The readers of the tree, the Go tier with its analyzers, the settings and the HTML page
followed, and then what ties them together: both tiers keep one contract. What is left, in
this order:

1. `SourceScan` as an implementation of `TierContract`, whose `Lose` is there for a tree that
   shrinks. The steps `ScanPattern` and `ScanGo` of `ScanLifecycle` could then be replaced by
   instances of the contract, so that one theorem spans an invocation and its tiers.
2. `EveryRunEnds` with a measure over all invocations, like those of the tiers.

Modules of one kind share an MC module and a run, so that the runs stay few and each one
answers a question of its own.

## 6. Where code and documentation disagree

Each is a run that TLC ends with a counterexample.

* `masked`: `mergeLifecycle` stores copies by fingerprint, suppressed ones last. Of two
  findings with one fingerprint, a comment on either marks both as suppressed; the open one
  neither shows as open nor gates. `engine/resolve/extras.go` numbers no finding, so such
  pairs occur. (`cli/scan.go:228` promises all fresh open findings.)
* `unreported`: `applyLifecycle` rewrites the baseline before anything is printed. If
  printing fails, the findings are recorded and were never reported; a retry takes them for
  known. (`cli/scan.go:201-203` has the record after the report.)
* `torn`: `WriteBaseline` writes in place, and every record is the same header and sorted
  lines of one width. Two invocations truncate the file, one writes its record, the other dies
  after a line of its own over it: the first line of the one and the rest of the other decode,
  and `LoadBaseline` returns a set that nobody recorded. Findings that only one of the two
  knew are then known to everybody. (`finding/baseline.go:44`: a corrupt path is an error.)
* `exit_one`: waitErr is told whether a finding survived the residual path filter, not
  whether ast-grep had matches. A child that exits 1 over matches in dropped paths alone
  fails the scan. (`engine/pattern/runner_test.go:43`: exit 1 means matches were found.)
* `partly`: ast-grep skips a directory it cannot read and its findings count; the walk for
  extra findings returns an error for the same directory and the scan reports nothing.
  (`engine/pattern/runner_test.go:122`: a partially readable tree must still report.)
* `spelling`: a scan of one file. The pattern tier spells the file as it was given, the walk
  for extra findings by its base name; `loadSuppressions` reads the file once and labels
  its comments with the first of the two, so a commented finding with the other spelling
  stays open. (`cli/scan.go:35`: findings carrying a comment with a reason are suppressed.)

`FreshOpenEmitted` fails only for shared fingerprints, which is why `ReportExact` and the
open half of `GateSound` assume distinct ones, while `NothingDropped` and `GateJustified`
hold without that.

Further remarks, for which no run is kept:

* `CardinalityExtras` gets no context, so its walk goes on after the deadline;
  `cli/scan.go:101` calls the timeout a hard limit on the scan. `AstGrepRun` has the walk
  outside the deadline.
* check-cardinality reads no `tarsier:ignore` comment and fails over a finding that one
  suppresses; the text of its flag has it gate on non-suppressed findings
  (`cli/check_cardinality.go:75`). `ScanLifecycle` has it without a life cycle, as the code.
* check-cardinality looks at `--fail-on` after its report is out. A value that is none is an
  error then, and `KeepsContract` admits that as it would admit the other order.
* An ast-grep that fails early with exit code 1 after a match passes for one that found
  matches (`engine/pattern/runner.go:430`), although `runner_test.go:49-53` has exit 1 for an
  error too. Its partial list is reported with exit status 0 or over its own findings.
  `NoPartialSuccess` names this case.
* The walk for extra findings skips `vendor`, `node_modules` and `.git` only, so findings in
  test and generated directories come back that the pattern tier leaves out, although
  `cli/scan.go:34-37` has vendored, generated and test-marked paths excluded.
  `ExtrasInScope` neither asks for them nor forbids them.
* A file below the root that carries the root's name (`mysite/mysite` scanned as `mysite`)
  is spelled as the root, or as another file, and its comments are not found. The properties
  of `SourceScan` name these `Homonym` and leave them out.
* With a relative root the go tier's findings carry absolute paths, so its baselines do not
  move between checkouts. `SpelledFromRoot` states it.
* `TARSIER_CONFIG` is applied to `--config` after the config file was looked for, so it names
  no file. `Precedence` leaves that one flag out of "flag > env > config file > default"
  (`cli/root.go:27`).

## 7. Not modelled

* ast-grep rules: data that ast-grep interprets.
* ast-grep itself and the third-party analyzers: external; only their interface is seen.
* `version`, the otel-checkup script and the HTML template: no state, or layout only.
* Regular expressions of the thin resolvers and of ParseSuppressions: what they match is a
  fact of a file. The Go and TypeScript resolvers (`engine/resolve/go.go`,
  `typescript.go`) have no caller outside of tests, as `extrasForFile` reads Java and
  Python only; a model of them would say nothing about the program.
* What msgtrace does not look at is not there to be modelled: whether the parameter a
  wrapper publishes is the message it was handed, the address of a literal (`&Message{}`), and
  calls nested in calls. None of it is owed.
* Files that ast-grep leaves out of its own accord (hidden, ignored by git), and roots with a
  trailing slash.
* The page's counts by language and the truncation of displayed text: layout.
