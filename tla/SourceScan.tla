----------------------------- MODULE SourceScan -----------------------------
(***************************************************************************)
(* One scan and the source files it reads: the pattern tier, the walk for  *)
(* the findings the thin resolvers add (engine/resolve/extras.go), the go  *)
(* tier, and the second reading for the comments that suppress findings    *)
(* (cli/scan.go loadSuppressions, finding/suppress.go).  The tree may lose *)
(* a file or a directory at any moment.                                    *)
(*                                                                         *)
(* ast-grep and the go tier answer in one step here (AstGrepRun and GoTier *)
(* have theirs), as what they report of a file is part of the file.        *)
(***************************************************************************)
EXTENDS Findings, Paths, Measures

CONSTANTS Scans,    \* [root, cwd, engine, entries]: what may be scanned
          MaxEdits  \* how often the tree changes (bounds the state space)

\* What has a line in a file.
Lined(e) == e.comments \cup e.matches \cup e.lint \cup e.consts \cup e.labels

\* A tree of files and directories: a file has nothing below it, and what lies
\* below the root has its directories.  The root's names are those of a file
\* only if it has any.
ScanAssumed(s) ==
  LET t  == s.entries
      at == Denoted(s.cwd, s.root)
  IN  /\ s.root \in Path /\ (s.root.abs => s.root.ups = 0)
      /\ s.cwd \in Seq(Name)
      /\ IsFiniteSet(DOMAIN t) /\ DOMAIN t \subseteq Seq(Name)
      /\ \A p \in DOMAIN t :
           /\ t[p].kind \in {"file", "dir"}
           /\ IsFiniteSet(Lined(t[p])) /\ \A m \in Lined(t[p]) : m.line \in Nat
           /\ \A q \in DOMAIN t : Len(q) > Len(p) /\ IsPrefix(p, q) => t[p].kind = "dir"
           /\ IsPrefix(at, p) => \A n \in Len(at)..Len(p) : SubSeq(p, 1, n) \in DOMAIN t
      /\ at \in DOMAIN t /\ t[at].kind = "file" => s.root.names # <<>>

ASSUME ScansAssumption == MaxEdits \in Nat /\ \A s \in Scans : ScanAssumed(s)

VARIABLES scan,    \* root, working directory and engine
          single,  \* was the root a file when the scan began?
          entries, \* the file system: absolute names -> what is there
          edits,   \* changes made to it so far
          pc,      \* "pattern", "extras", "walk", "go", "suppress", "done", "failed"
          pending, \* WalkDir: the entries to visit, as their directories listed them
          found,   \* the findings, each with the file it is about
          todo,    \* loadSuppressions: the findings to come
          seen,    \* loadSuppressions: the paths read
          sups     \* loadSuppressions: the comments so far
vars == <<scan, single, entries, edits, pc, pending, found, todo, seen, sups>>

Root    == scan.root
RootAt  == Denoted(scan.cwd, Root)
IsFile(p)   == p \in DOMAIN entries /\ entries[p].kind = "file"
Readable(p) == IsFile(p) /\ entries[p].readable

\* Everything below p, and what a directory lists.
Under(p)    == {q \in DOMAIN entries : Len(q) > Len(p) /\ IsPrefix(p, q)}
Children(p) == {q \in Under(p) : Len(q) = Len(p) + 1}

\* A finding of a tier, about what file p shows at the mark m.
About(p, spelled, tier, m) ==
  [rule |-> m.rule, file |-> spelled, line |-> m.line, symbol |-> m.symbol,
   own |-> p, tier |-> tier]

Init == \E s \in Scans :
          /\ scan = [root |-> s.root, cwd |-> s.cwd, engine |-> s.engine]
          /\ entries = s.entries
          /\ single = IsFile(RootAt)
          /\ edits = 0
          /\ pc = "pattern"
          /\ pending = <<>>
          /\ found = {} /\ todo = {} /\ seen = {} /\ sups = {}

Fail == pc' = "failed" /\ UNCHANGED <<pending, found>>

-----------------------------------------------------------------------------
\* The directory ast-grep runs in, and a file's name there.
ScanDir      == IF single THEN Dir(Root) ELSE Root
FromThere(p) == Relative(SubSeq(p, Len(Denoted(scan.cwd, ScanDir)) + 1, Len(p)))

\* ast-grep follows no link below the root and passes over what it cannot read.
Reached(p) == /\ Readable(p) /\ ~(entries[p].link /\ p # RootAt)
              /\ \A q \in Under(RootAt) : IsPrefix(q, p) /\ q # p =>
                   entries[q].readable /\ ~entries[q].link
              /\ ~Globbed(FromThere(p))

\* decode and toFinding over what ast-grep says.
Pattern ==
  /\ pc = "pattern"
  /\ \/ /\ RootAt \in DOMAIN entries
        /\ pc' = "extras"
        /\ found' = UNION {
             {About(p, RelPath(Root, FromThere(p)), "pattern", m) : m \in entries[p].matches} :
             p \in {q \in Under(RootAt) \cup {RootAt} :
                      Reached(q) /\ ~Excluded(RelPath(ScanDir, FromThere(q)))}}
        /\ UNCHANGED pending
     \/ RootAt \notin DOMAIN entries /\ Fail
  /\ UNCHANGED <<scan, single, entries, edits, todo, seen, sups>>

-----------------------------------------------------------------------------
UnboundedLabels ==
  {"user_id", "userid", "email", "uuid", "request_id", "session_id", "trace_id",
   "span_id", "order_id", "ip", "ip_address", "url", "token"}

\* javaConstLabelFindings: the unbounded literals of the constants that some
\* call names as its labels.
JavaExtras(e) ==
  {[rule |-> "metrics/high-cardinality-label", line |-> c.line, symbol |-> c.value] :
     c \in {d \in e.consts : d.name \in e.used /\ d.value \in UnboundedLabels}}

\* File.Params: the annotation of a name, the last one in the file.
Annotated(e, name) == {i \in DOMAIN e.params : e.params[i].name = name}
Params(e, name) ==
  e.params[CHOOSE i \in Annotated(e, name) : \A j \in Annotated(e, name) : j <= i].type

\* pythonStrExcFindings
PythonExtras(e) ==
  {[rule |-> "metrics/unbounded-label-value", line |-> l.line, symbol |-> l.name] :
     l \in {k \in e.labels : /\ Annotated(e, k.name) # {}
                             /\ Params(e, k.name) \in {"Exception", "BaseException"}}}

ExtrasForFile(e) == CASE e.lang = "java"   -> JavaExtras(e)
                      [] e.lang = "python" -> PythonExtras(e)
                      [] OTHER             -> {}

\* Is p a link to who comes to it by name?  A root of no name, "." or "..", is
\* where it leads.
Linked(p) == entries[p].link /\ (p = RootAt => Root.names # <<>>)

\* What a directory, or Lstat of the root, says of an entry.
Listed(p, name) == [at |-> p, name |-> name, kind |-> entries[p].kind, link |-> Linked(p),
                    lang |-> entries[p].lang]

\* CardinalityExtras: os.Stat follows a link, WalkDir's Lstat does not.
Extras ==
  /\ pc = "extras"
  /\ \/ /\ Readable(RootAt)
        /\ pc' = "go"
        /\ found' = found \cup {About(RootAt, Relative(<<Base(Root)>>), "extras", m) :
                                  m \in ExtrasForFile(entries[RootAt])}
        /\ UNCHANGED pending
     \/ /\ RootAt \in DOMAIN entries /\ entries[RootAt].kind = "dir"
        /\ pc' = "walk"
        /\ pending' = <<Listed(RootAt, Base(Root))>>
        /\ UNCHANGED found
     \/ (RootAt \notin DOMAIN entries \/ (IsFile(RootAt) /\ ~Readable(RootAt))) /\ Fail
  /\ UNCHANGED <<scan, single, entries, edits, todo, seen, sups>>

\* The directories the walk does not enter.
PrunedNames == {"vendor", "node_modules", ".git"}

\* Mutant: fs.SkipAll for fs.SkipDir.
PrunedSkipsAll(e) == /\ ~e.link /\ e.kind = "dir" /\ e.name \in PrunedNames
                     /\ pending' = <<>>
                     /\ UNCHANGED <<pc, found>>

\* visitCardinalityPath: fs.SkipDir.
Pruned(e) == /\ ~e.link /\ e.kind = "dir" /\ e.name \in PrunedNames
             /\ pending' = Tail(pending)
             /\ UNCHANGED <<pc, found>>

PassedOver(e) == /\ e.link \/ (e.kind = "file" /\ e.lang \notin {"java", "python"})
                 /\ pending' = Tail(pending)
                 /\ UNCHANGED <<pc, found>>

\* Mutant: a directory comes again after its entries.
EnteredAgain(e) ==
  /\ ~e.link /\ e.kind = "dir" /\ e.name \notin PrunedNames
  /\ \/ /\ e.at \in DOMAIN entries /\ entries[e.at].readable
        /\ LET kids == SetToSeq(Children(e.at))
           IN  pending' = [i \in DOMAIN kids |-> Listed(kids[i], Last(kids[i]))] \o pending
        /\ UNCHANGED <<pc, found>>
     \/ ~(e.at \in DOMAIN entries /\ entries[e.at].readable) /\ Fail

\* ReadDir; a directory that is gone or cannot be read ends the walk.
Entered(e) ==
  /\ ~e.link /\ e.kind = "dir" /\ e.name \notin PrunedNames
  /\ \/ /\ e.at \in DOMAIN entries /\ entries[e.at].readable
        /\ LET kids == SetToSeq(Children(e.at))
           IN  pending' = [i \in DOMAIN kids |-> Listed(kids[i], Last(kids[i]))] \o Tail(pending)
        /\ UNCHANGED <<pc, found>>
     \/ ~(e.at \in DOMAIN entries /\ entries[e.at].readable) /\ Fail

\* A file that is gone or cannot be read is skipped.
Looked(e) ==
  /\ ~e.link /\ e.kind = "file" /\ e.lang \in {"java", "python"}
  /\ found' = IF ~Readable(e.at) THEN found
              ELSE found \cup {About(e.at, Rel(Absolute(RootAt), Absolute(e.at)), "extras", m) :
                                 m \in ExtrasForFile(entries[e.at])}
  /\ pending' = Tail(pending)
  /\ UNCHANGED pc

Walk ==
  /\ pc = "walk"
  /\ \/ /\ pending # <<>>
        /\ LET e == Head(pending) IN Pruned(e) \/ PassedOver(e) \/ Entered(e) \/ Looked(e)
     \/ pending = <<>> /\ pc' = "go" /\ UNCHANGED <<pending, found>>
  /\ UNCHANGED <<scan, single, entries, edits, todo, seen, sups>>

-----------------------------------------------------------------------------
\* The go tier runs in the root: a file is none it could run in.
Go ==
  /\ pc = "go"
  /\ \/ /\ scan.engine = "pattern"
        /\ pc' = "suppress" /\ todo' = found
        /\ UNCHANGED <<pending, found>>
     \/ /\ scan.engine = "all"
        /\ RootAt \in DOMAIN entries /\ entries[RootAt].kind = "dir"
        /\ pc' = "suppress"
        /\ found' = found \cup UNION {
             {About(p, GoSpelling(Root, Absolute(p)), "go", m) : m \in entries[p].lint} :
             p \in {q \in Under(RootAt) : Readable(q) /\ entries[q].lang = "go"}}
        /\ todo' = found'
        /\ UNCHANGED pending
     \/ scan.engine = "all" /\ Fail /\ UNCHANGED todo
  /\ UNCHANGED <<scan, single, entries, edits, seen, sups>>

\* Mutant: the reason is optional.
ParsedAnyway(e) == {c \in e.comments : e.cut = 0 \/ c.line < e.cut}

\* ParseSuppressions: comments with a reason, above the first line that is
\* longer than the scanner's buffer.
Parsed(e) == {c \in e.comments : c.reason /\ (e.cut = 0 \/ c.line < e.cut)}

\* loadSuppressions, the next finding: the list is sorted by spelling, and no
\* order of spellings is assumed here.
Suppress ==
  /\ pc = "suppress"
  /\ \/ /\ todo = {}
        /\ pc' = "done"
        /\ UNCHANGED <<todo, seen, sups>>
     \/ \E f \in todo :
          LET path == SourcePath(Root, IsFile(RootAt), f.file)
              at   == Denoted(scan.cwd, path)
          IN  /\ todo' = todo \ {f}
              /\ seen' = seen \cup {path}
              /\ sups' = IF path \in seen \/ ~Readable(at) THEN sups
                         ELSE sups \cup {[file |-> f.file, line |-> c.line, rule |-> c.rule] :
                                           c \in Parsed(entries[at])}
              /\ UNCHANGED pc
  /\ UNCHANGED <<scan, single, entries, edits, pending, found>>

\* Somebody removes a file, or a directory and all below it, the root at times.
Vanish == /\ edits < MaxEdits
          /\ edits' = edits + 1
          /\ \E p \in DOMAIN entries \cap (Under(RootAt) \cup {RootAt}) :
               entries' = [q \in DOMAIN entries \ (Under(p) \cup {p}) |-> entries[q]]
          /\ UNCHANGED <<scan, single, pc, pending, found, todo, seen, sups>>

Ended == pc \in {"done", "failed"} /\ UNCHANGED vars

Next == Pattern \/ Extras \/ Walk \/ Go \/ Suppress \/ Vanish \/ Ended

Spec == Init /\ [][Next]_vars

-----------------------------------------------------------------------------
Somewhere == UNION {DOMAIN s.entries : s \in Scans}

TypeOK ==
  /\ \E s \in Scans : scan.root = s.root /\ DOMAIN entries \subseteq DOMAIN s.entries
  /\ single \in BOOLEAN
  /\ edits \in 0..MaxEdits
  /\ pc \in {"pattern", "extras", "walk", "go", "suppress", "done", "failed"}
  /\ \A i \in DOMAIN pending : pending[i].at \in Somewhere
  /\ \A f \in found : /\ f.file \in Path /\ f.own \in Somewhere /\ f.line \in Nat
                      /\ f.tier \in {"pattern", "extras", "go"}
  /\ todo \subseteq found
  /\ seen \subseteq Path
  /\ \A s \in sups : s.file \in Path /\ s.line \in Nat

\* A file the pattern tier cannot spell: one below a relative root whose names
\* lead on below itself (mysite/mysite), or the root's namesake in it.
Homonym(p) ==
  LET there == FromThere(p).names
  IN  /\ ~single
      /\ \/ ~Root.abs /\ Root.ups = 0 /\ Root.names # <<>> /\ IsPrefix(Root.names, there)
         \/ there = <<Base(Root)>>

\* A file within the walk's reach: none of the directories down to it is a
\* link, or bears a pruned name; the root goes by the name it was given.
Due(p) ==
  /\ Readable(p) /\ ~Linked(p) /\ entries[p].lang \in {"java", "python"}
  /\ ~Linked(RootAt) /\ Base(Root) \notin PrunedNames
  /\ \A q \in Under(RootAt) : IsPrefix(q, p) /\ q # p =>
       ~Linked(q) /\ Last(q) \notin PrunedNames

\* A file whose path marks it as vendored, generated or test code: cli/scan.go:34
\* promises that a scan excludes it.  The walk prunes three directories only, and
\* what it reads of the others is held neither for right nor for wrong here.
Marked(p) == Globbed(FromThere(p)) \/ Excluded(FromThere(p))

\* A walk that comes through has read each java and python file within its
\* reach that is still there and is not marked, and read whole; it has read
\* none beyond its reach.  What is pruned or linked takes nothing along that
\* stands beside it, nothing is read through a link of the tree or in a pruned
\* directory, and a file that vanishes between the listing of its directory and
\* its turn costs only itself (extras.go CardinalityExtras,
\* visitCardinalityPath).
ExtrasInScope ==
  pc \in {"go", "suppress", "done"} /\ ~single =>
    \A p \in DOMAIN entries \ {RootAt} :
      LET read  == {[rule |-> f.rule, line |-> f.line, symbol |-> f.symbol] :
                      f \in {g \in found : g.tier = "extras" /\ g.own = p}}
          reach == p \in Under(RootAt) /\ Due(p)
      IN  /\ read # {}                => reach /\ read = ExtrasForFile(entries[p])
          /\ reach /\ ~Marked(p) => read = ExtrasForFile(entries[p])

\* However the root is spelled -- ".", a name, "../lib", absolute -- a finding
\* in a directory goes by the path below it, so that a baseline written from
\* one place holds in another; but the go tier's goes by its absolute path when
\* the root is relative, and a homonym by another file's name (runner.go
\* relPath, golang/runner.go diagnosticFinding, extras.go).
SpelledFromRoot ==
  \A f \in found : ~single /\ ~Homonym(f.own) =>
    f.file = IF f.tier = "go" /\ ~Root.abs THEN Absolute(f.own) ELSE FromThere(f.own)

\* Comment c is beside finding f, or above it, in the finding's own file.
Beside(c, f) == c.rule = f.rule /\ c.line \in {f.line, f.line - 1}

\* A comment with a reason quiets the finding beside it, whichever tier found
\* it and however the root is spelled: the reading finds the finding's own file
\* and labels what it reads with the finding's spelling.  Except below an
\* oversized line, for a homonym or, as the root's name may lead from the root
\* to any file when it begins with "..", next to one, and in a scan of a single
\* file that goes by two names (cli/scan.go sourcePath, loadSuppressions;
\* suppress.go).
CommentsApply ==
  pc = "done" =>
    \A f \in found :
      /\ ~Homonym(f.own) /\ Readable(f.own)
      /\ single => \A g \in found : g.file = f.file
      /\ Root.ups > 0 => \A g \in found : ~Homonym(g.own)
      /\ \E c \in entries[f.own].comments :
           Beside(c, f) /\ c.reason /\ (entries[f.own].cut = 0 \/ c.line < entries[f.own].cut)
      => SuppressedBy(f, sups)

\* No finding is quieted by a comment of another file, or one that gives no
\* reason: whatever a comment quiets, somebody has answered for beside it.
NoForeignComment ==
  \A f \in found :
    SuppressedBy(f, sups) /\ ~Homonym(f.own) /\ f.own \in DOMAIN entries =>
      \E c \in entries[f.own].comments : Beside(c, f) /\ c.reason

\* What the walk may still come to.
Ahead == {q \in DOMAIN entries : \E i \in DOMAIN pending : IsPrefix(pending[i].at, q)}

StepsLeft == [pattern |-> 5, extras |-> 4, walk |-> 3, go |-> 2, suppress |-> 1,
              done |-> 0, failed |-> 0]

\* What a scan has left to do, and what may still be done to its tree.
Left == <<MaxEdits - edits, StepsLeft[pc], Cardinality(Ahead), Len(pending), Cardinality(todo)>>

\* Each step leaves less to do: the walk lists a directory once and comes to no
\* entry a second time, however deep the tree and whatever is taken away under
\* it, and the reading of comments takes each finding once, be its file there
\* or not.
StepsRunOut == [][Below(Left', Left)]_vars

-----------------------------------------------------------------------------
(* What the repository says of the program and the program does not do.    *)

\* cli/scan.go:35 "Findings carrying a tarsier:ignore comment (with a reason)
\* are reported as suppressed": while nobody touches the tree, every finding
\* with such a comment beside it is.
CommentsQuiet ==
  pc = "done" /\ edits = 0 =>
    \A f \in found :
      (\E c \in entries[f.own].comments : Beside(c, f) /\ c.reason) => SuppressedBy(f, sups)
=============================================================================
