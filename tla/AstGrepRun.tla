----------------------------- MODULE AstGrepRun -----------------------------
(***************************************************************************)
(* One scan of the pattern tier (engine/pattern/runner.go Scan and         *)
(* executeScan): tarsier starts ast-grep, decodes the JSON stream it       *)
(* writes to a pipe, drains what is left, waits for it to exit, and then   *)
(* walks the tree for the findings the thin resolvers add                  *)
(* (engine/resolve/extras.go CardinalityExtras).  Next to it run the child *)
(* process, the goroutine that kills the child when the context is done,   *)
(* the clock that ends the context, and a caller who may cancel it.        *)
(*                                                                         *)
(* ast-grep is outside the repository and is modelled from how runner.go   *)
(* uses it: it writes the matches of one file in their order, those of     *)
(* several files in any interleaving, blocks while the pipe is full, and   *)
(* exits 1 if some match has severity error.                               *)
(***************************************************************************)
EXTENDS Naturals, Sequences, FiniteSets, Measures

CONSTANTS File,      \* the files of the tree
          Text,      \* rule and text of a match, which the counters key on
          Scripts,   \* what ast-grep may have to say about each file
          Skipped,   \* files the residual path filter excludes
          Walked,    \* the files CardinalityExtras reads, in walk order
          Versions,  \* what ast-grep --version may say: the parts between dots
          MaxInt,    \* the largest int
          PipeSize,  \* stream items the pipe holds
          MayHang    \* may ast-grep hang?

\* One item of the stream: a match, or bytes that are no JSON object.
Item == [kind : {"match", "garbage"}, file : File, line : Nat, text : Text,
         error : BOOLEAN]

\* A part of a version: a number, with whatever follows it, or no number.
Part == [number : BOOLEAN, value : Nat]

\* There are names for files and texts, whether or not the tree has any.
ASSUME RunAssumption ==
  /\ File # {} /\ Text # {} /\ IsFiniteSet(File)
  /\ \A v \in Versions : v \in Seq(Part) /\ Len(v) \in 1..3
  /\ MaxInt \in Nat \ 0..45
  /\ Scripts \subseteq [File -> Seq(Item)]
  /\ \A s \in Scripts, f \in File : \A i \in DOMAIN s[f] : s[f][i].file = f
  /\ Skipped \subseteq File
  /\ Walked \in Seq(File)
  /\ PipeSize \in Nat \ {0}
  /\ MayHang \in BOOLEAN

VARIABLES script,    \* the stream ast-grep has to write
          pc,        \* the goroutine that runs Scan
          version,   \* what ast-grep said its version is
          ctx,       \* the context of the scan
          child,     \* the process ast-grep
          code,      \* its exit code
          stopped,   \* history: did it stop early, for a reason of its own?
          signalled, \* did the watcher's kill reach it?
          next,      \* per file, the item ast-grep writes next
          pipe,      \* its standard output
          seen,      \* decode's occurrence counters
          out,       \* the findings decoded so far
          broke,     \* decode ended on an error
          walked,    \* how far CardinalityExtras has come
          result     \* what Scan returned

vars == <<script, pc, version, ctx, child, code, stopped, signalled, next, pipe, seen, out,
          broke, walked, result>>

childVars  == <<child, code, stopped, signalled, next>>
decodeVars == <<seen, out, broke>>

\* A finding of the pattern tier: where it is, and the text and occurrence
\* number its fingerprint is made of.  The sort at the end of a scan orders
\* a list by its contents alone, so the list is kept as a set.
Found == [file : File, line : Nat, text : Text, n : Nat]

Garbage == [kind |-> "garbage", file |-> CHOOSE f \in File : TRUE, line |-> 0,
            text |-> CHOOSE t \in Text : TRUE, error |-> FALSE]

\* The stream p of a process that dies: its last item may be cut short.
CutShort(p) == {p} \cup IF Len(p) < PipeSize THEN {Append(p, Garbage)} ELSE {}

Init == /\ script \in Scripts
        /\ pc = "resolve"
        /\ version = <<>>
        /\ ctx = "live"
        /\ child = "unborn"
        /\ code = 0
        /\ stopped = FALSE
        /\ signalled = FALSE
        /\ next = [f \in File |-> 1]
        /\ pipe = <<>>
        /\ seen = [f \in File |-> [t \in Text |-> 0]]
        /\ out = {}
        /\ broke = FALSE
        /\ walked = 0
        /\ result = "none"

Return(res) == /\ pc' = "done"
               /\ result' = res

-----------------------------------------------------------------------------
(* The goroutine that runs Scan.                                           *)

\* resolveBin and resolveDirTarget: no binary on PATH, no such root.
Resolve == /\ pc = "resolve"
           /\ \/ pc' = "probe" /\ UNCHANGED result
              \/ Return("failed")
           /\ UNCHANGED <<script, version, ctx, childVars, pipe, decodeVars, walked>>

\* leadingInt: what is no number is 0, what overflows is the largest int.
LeadingInt(p) == IF ~p.number THEN 0 ELSE IF p.value > MaxInt THEN MaxInt ELSE p.value

\* parseVersion: missing parts are 0.
ParseVersion(v) == [i \in 1..3 |-> IF i \in DOMAIN v THEN LeadingInt(v[i]) ELSE 0]

MinVersion == <<0, 45, 0>>

\* Mutant: part by part.
VersionAtLeastEach(got, want) == \A i \in 1..3 : got[i] >= want[i]

\* versionAtLeast: the first part that differs decides.
VersionAtLeast(got, want) ==
  \A i \in 1..3 : got[i] < want[i] => \E j \in 1..(i - 1) : got[j] > want[j]

\* checkVersion, on a budget of its own: it may fail, time out, be cancelled,
\* hear no version or one that is too old.
Probe == /\ pc = "probe"
         /\ \/ Return("failed") /\ UNCHANGED version
            \/ /\ ctx = "live"
               /\ version' \in Versions
               /\ IF VersionAtLeast(ParseVersion(version'), MinVersion)
                  THEN pc' = "start" /\ UNCHANGED result
                  ELSE Return("tooOld")
         /\ UNCHANGED <<script, ctx, childVars, pipe, decodeVars, walked>>

\* cmd.Start refuses a context that is done.
Start == /\ pc = "start"
         /\ \/ /\ ctx = "live"
               /\ pc' = "decode"
               /\ child' = "running"
               /\ UNCHANGED <<result, code, stopped, signalled, next>>
            \/ Return("failed") /\ UNCHANGED childVars
         /\ UNCHANGED <<script, version, ctx, pipe, decodeVars, walked>>

\* The write end of the pipe is closed once the child is gone: ast-grep starts
\* no process of its own that would keep it open.
EndOfFile == pipe = <<>> /\ child \in {"exited", "killed"}

\* Mutant: counters that forget the file.
CountedByText(m) == [f \in File |-> [seen[f] EXCEPT ![m.text] = @ + 1]]

\* discriminator: the n-th match of a text in a file.
Counted(m) == [seen EXCEPT ![m.file][m.text] = @ + 1]

\* toFinding, then the path filter: a match in an excluded path has been
\* counted before it is dropped.
DecodeMatch ==
  /\ pipe # <<>> /\ Head(pipe).kind = "match"
  /\ LET m == Head(pipe)
     IN  /\ seen' = Counted(m)
         /\ out' = IF m.file \in Skipped THEN out
                   ELSE out \cup {[file |-> m.file, line |-> m.line, text |-> m.text,
                                   n |-> Counted(m)[m.file][m.text]]}
  /\ pipe' = Tail(pipe)
  /\ UNCHANGED <<pc, broke, result>>

\* Mutant: output that does not decode ends the scan on the spot.
DecodeGarbageReturns ==
  /\ pipe # <<>> /\ Head(pipe).kind = "garbage"
  /\ broke' = TRUE
  /\ pipe' = Tail(pipe)
  /\ Return("failed")
  /\ UNCHANGED <<seen, out>>

\* Mutant: the decoder is asked again, and says the same again.
DecodeGarbageRetries ==
  /\ pipe # <<>> /\ Head(pipe).kind = "garbage"
  /\ broke' = TRUE
  /\ UNCHANGED <<pc, pipe, seen, out, result>>

DecodeGarbage ==
  /\ pipe # <<>> /\ Head(pipe).kind = "garbage"
  /\ broke' = TRUE
  /\ pipe' = Tail(pipe)
  /\ pc' = "drain"
  /\ UNCHANGED <<seen, out, result>>

DecodeEnd ==
  /\ EndOfFile
  /\ pc' = "drain"
  /\ UNCHANGED <<pipe, decodeVars, result>>

Decode == /\ pc = "decode"
          /\ DecodeMatch \/ DecodeGarbage \/ DecodeEnd
          /\ UNCHANGED <<script, version, ctx, childVars, walked>>

\* Mutant: nobody reads what the decoder left.
NoDrain == /\ pc = "drain"
           /\ pc' = "wait"
           /\ UNCHANGED <<script, version, ctx, childVars, pipe, decodeVars, walked, result>>

\* io.Copy(io.Discard, stdout) reads on to the end of the stream.
Drain == /\ pc = "drain"
         /\ \/ /\ pipe # <<>>
               /\ pipe' = Tail(pipe)
               /\ UNCHANGED pc
            \/ EndOfFile /\ pc' = "wait" /\ UNCHANGED pipe
         /\ UNCHANGED <<script, version, ctx, childVars, decodeVars, walked, result>>

\* Mutant: whatever became of ast-grep, its matches count.
WaitErrAnyMatch(failed, matched) ==
  IF ~failed \/ matched THEN "ok" ELSE IF ctx = "live" THEN "failed" ELSE "timeout"

\* waitErr over what cmd.Wait returns: no error, or the first of deadline,
\* cancellation, an exit code that only reports matches, and failure.
WaitErr(failed, matched) ==
  IF ~failed                     THEN "ok"
  ELSE IF ctx = "expired"        THEN "timeout"
  ELSE IF ctx = "canceled"       THEN "canceled"
  ELSE IF child = "exited" /\ code = 1 /\ matched THEN "ok"
  ELSE "failed"

\* cmd.Wait and what executeScan makes of it.  A kill that reached a child
\* which had already exited well still fails the wait.
Wait ==
  /\ pc = "wait"
  /\ child \in {"exited", "killed"}
  /\ LET err == WaitErr(child = "killed" \/ code # 0 \/ signalled, out # {})
     IN  \/ err # "ok" /\ Return(err)
         \/ err = "ok" /\ broke /\ out = {} /\ Return("failed")
         \/ err = "ok" /\ ~(broke /\ out = {}) /\ pc' = "extras" /\ UNCHANGED result
  /\ UNCHANGED <<script, version, ctx, childVars, pipe, decodeVars, walked>>

\* Mutant: one file too many.
ExtrasOffByOne == /\ pc = "extras"
                  /\ \/ /\ walked <= Len(Walked)
                        /\ walked' = walked + 1
                        /\ UNCHANGED <<pc, result>>
                     \/ walked > Len(Walked) /\ Return("ok") /\ UNCHANGED walked
                  /\ UNCHANGED <<script, version, ctx, childVars, pipe, decodeVars>>

\* CardinalityExtras, one file at a time; a root that is gone or a directory
\* it cannot read fails the scan, at any time.  It is given no context.
Extras == /\ pc = "extras"
          /\ \/ /\ walked < Len(Walked)
                /\ walked' = walked + 1
                /\ UNCHANGED <<pc, result>>
             \/ Return("failed") /\ UNCHANGED walked
             \/ walked = Len(Walked) /\ Return("ok") /\ UNCHANGED walked
          /\ UNCHANGED <<script, version, ctx, childVars, pipe, decodeVars>>

Parent == Resolve \/ Probe \/ Start \/ Decode \/ Drain \/ Wait \/ Extras

-----------------------------------------------------------------------------
(* ast-grep.                                                               *)

Written(f) == {script[f][i] : i \in 1..(next[f] - 1)}
AllWritten == \A f \in File : next[f] > Len(script[f])

Emit == /\ child = "running"
        /\ Len(pipe) < PipeSize
        /\ \E f \in File : /\ next[f] <= Len(script[f])
                           /\ pipe' = Append(pipe, script[f][next[f]])
                           /\ next' = [next EXCEPT ![f] = @ + 1]
        /\ UNCHANGED <<script, version, pc, ctx, child, code, stopped, signalled, decodeVars,
                       walked, result>>

Exit == /\ child = "running"
        /\ AllWritten
        /\ child' = "exited"
        /\ code' = IF \E f \in File : \E m \in Written(f) : m.error THEN 1 ELSE 0
        /\ UNCHANGED <<script, version, pc, ctx, stopped, signalled, next, pipe, decodeVars,
                       walked, result>>

\* It stops early, for a reason of its own: with exit code 1, which is an error
\* exit as well (runner_test.go:49), or with 2, which stands for every other code
\* and for a signal.
Crash == /\ child = "running"
         /\ child' = "exited"
         /\ code' \in {1, 2}
         /\ stopped' = TRUE
         /\ pipe' \in CutShort(pipe)
         /\ UNCHANGED <<script, version, pc, ctx, signalled, next, decodeVars, walked, result>>

Hang == /\ MayHang
        /\ child = "running"
        /\ child' = "hung"
        /\ UNCHANGED <<script, version, pc, ctx, code, stopped, signalled, next, pipe, decodeVars,
                       walked, result>>

Child == Emit \/ Exit

-----------------------------------------------------------------------------
(* The context and the goroutine that watches it.                          *)

\* context.WithTimeout, set up before the child is started.
Expire == /\ ctx = "live"
          /\ pc \in {"start", "decode", "drain", "wait", "extras"}
          /\ ctx' = "expired"
          /\ UNCHANGED <<script, version, pc, childVars, pipe, decodeVars, walked, result>>

Cancel == /\ ctx = "live"
          /\ pc # "done"
          /\ ctx' = "canceled"
          /\ UNCHANGED <<script, version, pc, childVars, pipe, decodeVars, walked, result>>

\* Until Wait has reaped the child, a kill finds it, dead or alive.
KillChild == /\ ctx # "live"
             /\ pc \in {"decode", "drain", "wait"}
             /\ ~signalled
             /\ signalled' = TRUE
             /\ child' = IF child = "exited" THEN "exited" ELSE "killed"
             /\ IF child = "exited" THEN UNCHANGED pipe
                ELSE pipe' \in CutShort(pipe)
             /\ UNCHANGED <<script, version, pc, ctx, code, stopped, next, decodeVars, walked,
                            result>>

Returned == pc = "done" /\ UNCHANGED vars

Next == Parent \/ Child \/ Crash \/ Hang \/ Expire \/ Cancel \/ KillChild \/ Returned

Spec == Init /\ [][Next]_vars

\* The scheduler runs tarsier and its watcher, and ast-grep until it hangs;
\* nothing is said of the clock.
FairSpec == Spec /\ WF_vars(Parent) /\ WF_vars(Child) /\ WF_vars(KillChild)

-----------------------------------------------------------------------------
TypeOK ==
  /\ script \in Scripts
  /\ pc \in {"resolve", "probe", "start", "decode", "drain", "wait", "extras", "done"}
  /\ version \in Versions \cup {<<>>}
  /\ ctx \in {"live", "expired", "canceled"}
  /\ child \in {"unborn", "running", "hung", "exited", "killed"}
  /\ code \in 0..2
  /\ stopped \in BOOLEAN
  /\ signalled \in BOOLEAN
  /\ next \in [File -> Nat \ {0}]
  /\ pipe \in Seq(Item)
  /\ seen \in [File -> [Text -> Nat]]
  /\ out \subseteq Found
  /\ broke \in BOOLEAN
  /\ walked \in 0..Len(Walked)
  /\ result \in {"none", "ok", "timeout", "canceled", "failed", "tooOld"}

\* The findings that the matches of file f stand for, each numbered among
\* the matches of its text in its own file, whatever other files wrote.
Occurrence(f, i) ==
  Cardinality({j \in 1..i : /\ script[f][j].kind = "match"
                            /\ script[f][j].text = script[f][i].text})

Numbered(f) ==
  {[file |-> f, line |-> script[f][i].line, text |-> script[f][i].text,
    n |-> Occurrence(f, i)] :
      i \in {j \in DOMAIN script[f] : script[f][j].kind = "match"}}

Expected == UNION {Numbered(f) : f \in File \ Skipped}

\* ast-grep has bytes to write that are no match.
Malformed == \E f \in File : \E i \in DOMAIN script[f] : script[f][i].kind = "garbage"

\* A finding's number, and with it its fingerprint, depends on its own file
\* only: not on how ast-grep's workers interleave the files, on what is
\* dropped by the path filter or on where the stream breaks off.
StableFingerprints == out \subseteq Expected

\* A scan that succeeds has every match of the tree, but for two cases in which
\* it has what came before, and that is something: ast-grep's own output is
\* malformed, or ast-grep stopped early with exit code 1, which waitErr takes
\* for its report of matches once one was decoded (runner.go:430).  A child that
\* was killed, timed out or stopped early in any other way never passes for one
\* that had less to say (runner.go executeScan, waitErr).
NoPartialSuccess ==
  result = "ok" =>
    /\ child = "exited" /\ code # 2 /\ ~signalled
    /\ stopped => code = 1 /\ out # {}
    /\ ~stopped => /\ AllWritten
                   /\ IF broke THEN Malformed /\ out # {} ELSE out = Expected

\* Whatever Scan returns, no ast-grep of its is left running.
NoOrphan == result # "none" => child \notin {"running", "hung"}

\* A version of the first major release, or of minor release 45 or later.
Recent(v) == LET Says(i, n) == i \in DOMAIN v /\ v[i].number /\ v[i].value >= n
             IN  Says(1, 1) \/ Says(2, 45)

\* ast-grep runs on the tree only if its version is 0.45.0 or later, and it is
\* turned away as too old only if it is not, whatever parts are missing, are
\* no number or overflow (runner.go versionAtLeast, parseVersion, leadingInt).
VersionGate == /\ child # "unborn"  => Recent(version)
               /\ result = "tooOld" => ~Recent(version)

\* As long as the scan has no answer somebody can go on, without waiting for
\* a deadline or for luck, unless ast-grep hangs: the decoder and ast-grep
\* never wait for each other over a full or an empty pipe, nobody waits for a
\* process that has not been started, and a kill leaves nothing to wait for.
NoStandstill ==
  pc # "done" =>
    \/ pc \in {"resolve", "probe", "start", "extras"}
    \/ pc \in {"decode", "drain"} /\ (pipe # <<>> \/ EndOfFile)
    \/ pc = "wait" /\ child \in {"exited", "killed"}
    \/ child = "running" /\ (Len(pipe) < PipeSize \/ AllWritten)
    \/ pc \in {"decode", "drain", "wait"} /\ ctx # "live" /\ ~signalled
    \/ child = "hung" /\ ctx = "live"

\* What a scan has left to do, and what may still be done to it.
Unwritten == UNION {{f} \X (next[f]..Len(script[f])) : f \in File}

StepsLeft ==
  [resolve |-> 7, probe |-> 6, start |-> 5, decode |-> 4, drain |-> 3, wait |-> 2,
   extras |-> 1, done |-> 0]

LivesLeft == [unborn |-> 3, running |-> 2, hung |-> 1, exited |-> 0, killed |-> 0]

Left == <<IF ctx = "live" THEN 1 ELSE 0, StepsLeft[pc], IF signalled THEN 0 ELSE 1,
          LivesLeft[child], Cardinality(Unwritten), Len(pipe), Len(Walked) - walked>>

\* Each step leaves less to do, whoever takes it: neither the decoder nor the
\* drain goes round without taking something off the pipe, however much
\* ast-grep puts there, and no stage is come back to.  With NoStandstill, a
\* scan can only come to its answer.
StepsRunOut == [][Below(Left', Left)]_vars

\* Every scan is answered, or waits for an ast-grep that hangs until the
\* deadline: malformed output longer than the pipe blocks nobody (runner.go:145
\* "Drain anything left so the child never blocks writing to a full pipe"), and
\* once the context is done a hung child holds the scan up no longer.
Answered == <>(result # "none") \/ <>[](child = "hung" /\ ctx = "live")

\* To whoever asked for it the scan is one step: it answers once, with each
\* match of the tree under its number, or with an error and none; with less
\* only where ast-grep's own output is malformed or ast-grep stops early with
\* exit code 1.  Nothing that happens after the answer, to the child, the
\* context or the pipe, changes it.
Contract == INSTANCE TierContract WITH
  due    <- Expected,
  broken <- Malformed \/ (stopped /\ code = 1),
  answer <- IF result \in {"none", "ok"} THEN result ELSE "error",
  found  <- IF result = "ok" THEN out ELSE {}

KeepsContract == Contract!Spec

-----------------------------------------------------------------------------
(* What the repository says of the program and the program does not do.    *)

\* engine/pattern/runner_test.go:43 "exit 1 means matches were found": waiting
\* for a child that wrote its whole stream and exited 1 over its matches is not
\* the end of the scan.
ExitOneMeansMatches ==
  [][pc = "wait" /\ child = "exited" /\ code = 1 /\ ~stopped /\ ctx = "live" /\ ~broke =>
       pc' # "done"]_vars

\* engine/pattern/runner_test.go:122 "a partially readable tree must still
\* report what it found": once ast-grep has exited well, its findings are
\* reported.
PartlyReadableReports ==
  pc = "done" /\ child = "exited" /\ code = 0 /\ ctx = "live" /\ out # {} =>
    result = "ok"
=============================================================================
