------------------------------- MODULE Paths -------------------------------
(***************************************************************************)
(* How the tiers spell the name of a file, and which names they look at:   *)
(* relPath and the exclusions of engine/pattern/runner.go, the spelling of *)
(* engine/golang/runner.go, and sourcePath of cli/scan.go, which has to    *)
(* find the file again.                                                    *)
(*                                                                         *)
(* A path is clean: absolute or not, some leading "..", then names.  "."   *)
(* has none of either.                                                     *)
(***************************************************************************)
EXTENDS Naturals, SequencesExt

CONSTANTS Name,      \* names of files and directories
          Parts,     \* Parts[n]: what "-" and "_" split n into; {} without them
          TestNamed  \* the names that end in an excluded suffix

Path == [abs : BOOLEAN, ups : Nat, names : Seq(Name)]

Relative(names) == [abs |-> FALSE, ups |-> 0, names |-> names]
Absolute(names) == [abs |-> TRUE, ups |-> 0, names |-> names]

\* What a path denotes to a process in directory cwd.
Denoted(cwd, p) == IF p.abs THEN p.names ELSE SubSeq(cwd, 1, Len(cwd) - p.ups) \o p.names

\* filepath.Join: every ".." of q takes a name off p, and of these an absolute
\* p has no more than its names.
Join(p, q) ==
  LET n == Len(p.names)
  IN  [abs   |-> p.abs,
       ups   |-> IF p.abs \/ q.ups <= n THEN p.ups ELSE p.ups + (q.ups - n),
       names |-> SubSeq(p.names, 1, n - q.ups) \o q.names]
Dir(p)     == [p EXCEPT !.names = Front(@)]
Base(p)    == IF p.names # <<>> THEN Last(p.names) ELSE IF p.ups > 0 THEN ".." ELSE "."

\* filepath.Rel finds target t at or below b.  Otherwise it fails, or its
\* answer begins with "..", and the callers do not tell these apart.
AtOrBelow(b, t) == b.abs = t.abs /\ b.ups = t.ups /\ IsPrefix(b.names, t.names)
Rel(b, t)       == Relative(SubSeq(t.names, Len(b.names) + 1, Len(t.names)))

\* Mutant: the name as ast-grep has it, joined to the root.
RelPathJoined(root, file) == Join(root, file)

\* relPath: a lone name that is the root's own stands for the root.
RelPath(root, file) ==
  IF ~file.abs /\ Len(file.names) = 1 /\ Base(file) = Base(root) THEN root
  ELSE IF file = root THEN root
  ELSE IF AtOrBelow(root, file) THEN Rel(root, file)
  ELSE file

\* Mutant: what Rel returns next to its error.
GoSpellingUnchecked(root, file) == IF AtOrBelow(root, file) THEN Rel(root, file) ELSE Relative(<<"">>)

\* diagnosticFinding: the loader's file names are absolute.
GoSpelling(root, file) == IF AtOrBelow(root, file) THEN Rel(root, file) ELSE file

\* Mutant: a single file is no special case.
SourcePathPlain(root, isFile, rel) == IF rel.abs THEN rel ELSE Join(root, rel)

\* sourcePath
SourcePath(root, isFile, rel) ==
  IF rel.abs THEN rel
  ELSE IF ~isFile THEN Join(root, rel)
  ELSE IF rel = root \/ Base(rel) = Base(root) THEN root
  ELSE Join(Dir(root), rel)

-----------------------------------------------------------------------------
ExcludedDirs ==
  {"vendor", "node_modules", "third_party", "vendored", "_vendor", "dist", "build",
   "target", "generated", "gen", "integration", "scripts", "tools", "buildtools",
   "hack", "__tests__", "__mocks__"}

MarkerTokens ==
  {"test", "tests", "testing", "testdata", "mock", "mocks", "fixture", "fixtures",
   "example", "examples", "demo", "sample", "samples", "e2e", "acceptance",
   "benchmark", "benchmarks", "testmocks", "testhelpers", "testutil", "testutils",
   "dbmock", "integrationtest"}

\* excludeGlobs: a directory of one of these names, or a file with a suffix.
Globbed(p) == \/ \E i \in 1..(Len(p.names) - 1) : p.names[i] \in ExcludedDirs \cup MarkerTokens
              \/ Base(p) \in TestNamed

\* excluded: a marker among the parts of any of the names.
Excluded(p) == \E i \in DOMAIN p.names : Parts[p.names[i]] \cap MarkerTokens # {}
=============================================================================
