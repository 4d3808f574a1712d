---------------------------- MODULE MCSourceScan ----------------------------
(***************************************************************************)
(* Instances of SourceScan for TLC: one project, scanned from everywhere   *)
(* and in part, and the trees that the tiers see differently.              *)
(***************************************************************************)
EXTENDS SourceScan, TLC

MCName == {"home", "proj", "app", "views.py", "Meters.java", "main.go", "vendor", "lib.py",
           "k8s-tests", "gen", "mysite", "settings.py", "out"}
MCParts == [n \in MCName |-> IF n = "k8s-tests" THEN {"k8s", "tests"} ELSE {}]
MCTestNamed == {}
Metrics == {"metrics/high-cardinality-label", "metrics/unbounded-label-value"}

Mark(rule, line, symbol) == [rule |-> rule, line |-> line, symbol |-> symbol]
Swallow == Mark("errors/swallowed-on-critical-path", 2, "except")
Comment(m, above, reason) ==
  [rule |-> m.rule, line |-> IF above THEN m.line - 1 ELSE m.line, reason |-> reason]

Entry(kind, lang) ==
  [kind |-> kind, link |-> FALSE, readable |-> TRUE, lang |-> lang, matches |-> {}, lint |-> {},
   used |-> {}, consts |-> {}, params |-> <<>>, labels |-> {}, comments |-> {}, cut |-> 0]
Folder == Entry("dir", "")

\* A match and a label that the resolver adds, each with its comment; a second
\* label below a line too long, a third with a comment that gives no reason,
\* and one whose name is an exception elsewhere in the file only.
Label(line, name) == [line |-> line, name |-> name]
Extra(line, name) == Mark("metrics/unbounded-label-value", line, name)
Views == [Entry("file", "python") EXCEPT
  !.matches = {Swallow},
  !.params  = <<[name |-> "exc", type |-> "str"], [name |-> "e", type |-> "Exception"],
                [name |-> "exc", type |-> "Exception"], [name |-> "e2", type |-> "int"]>>,
  !.labels  = {Label(5, "exc"), Label(7, "e"), Label(12, "exc"), Label(14, "e2")},
  !.comments = {Comment(Swallow, TRUE, TRUE), Comment(Extra(5, "exc"), FALSE, TRUE),
                Comment(Extra(7, "e"), FALSE, FALSE), Comment(Extra(12, "exc"), TRUE, TRUE)},
  !.cut = 9]

\* A constant that is no label, one that is, with a bounded value beside.
Meters == [Entry("file", "java") EXCEPT
  !.used   = {"LABELS"},
  !.consts = {[name |-> "LABELS", value |-> "user_id", line |-> 3],
              [name |-> "LABELS", value |-> "region", line |-> 3],
              [name |-> "COLUMNS", value |-> "email", line |-> 4]}]

\* The pattern tier and the go tier report the same line.
Main == [Entry("file", "go") EXCEPT !.matches = {Swallow}, !.lint = {Swallow},
                                    !.comments = {Comment(Swallow, FALSE, TRUE)}]
Short == [Views EXCEPT !.comments = {Comment(Swallow, TRUE, TRUE),
                                     Comment(Extra(5, "exc"), FALSE, TRUE)},
                       !.labels = {Label(5, "exc")}, !.cut = 0]

P == <<"home", "proj">>
Tree == (P :> Folder) @@ (P \o <<"main.go">> :> Main)
          @@ (P \o <<"app">> :> Folder) @@ (P \o <<"app", "views.py">> :> Views)
          @@ (P \o <<"app", "vendor">> :> Folder) @@ (P \o <<"app", "vendor", "lib.py">> :> Short)
          @@ (P \o <<"k8s-tests">> :> Folder) @@ (P \o <<"k8s-tests", "Meters.java">> :> Meters)
Django == (P :> Folder) @@ (P \o <<"mysite">> :> Folder)
            @@ (P \o <<"mysite", "settings.py">> :> [Short EXCEPT !.comments = {}])
            @@ (P \o <<"mysite", "mysite">> :> Folder)
            @@ (P \o <<"mysite", "mysite", "settings.py">> :> Short)

\* A file that bears the root's name, below a root whose names repeat.
A == P \o <<"app">>
Repeated == (A :> Folder) @@ (A \o <<"out">> :> Folder) @@ (A \o <<"out", "app">> :> Folder)
              @@ (A \o <<"out", "app", "app">> :> Short)
              @@ (A \o <<"out", "app", "out">> :> Folder)
              @@ (A \o <<"out", "app", "out", "app">> :> Short)

MakeScan(root, cwd, engine, tree) ==
  [root |-> root, cwd |-> cwd, engine |-> engine, entries |-> tree]
Up(n, names) == [abs |-> FALSE, ups |-> n, names |-> names]

SingleFile == MakeScan(Relative(<<"app", "views.py">>), P, "pattern", Tree)
Namesake   == MakeScan(Relative(<<"mysite">>), P, "pattern", Django)

MCScans ==
  {MakeScan(Relative(<<>>), P, "all", Tree),
   MakeScan(Absolute(P), <<"home">>, "all", Tree),
   MakeScan(Relative(<<"proj">>), <<"home">>, "pattern", Tree),
   MakeScan(Up(1, <<>>), P \o <<"app">>, "all", Tree),
   MakeScan(Up(1, <<"app">>), P \o <<"k8s-tests">>, "pattern", Tree),
   \* a root of a pruned name, by that name and from inside
   MakeScan(Relative(<<"vendor">>), P \o <<"app">>, "pattern", Tree),
   MakeScan(Relative(<<>>), P \o <<"app", "vendor">>, "pattern", Tree),
   \* a root that is a link, by its name and from inside
   MakeScan(Relative(<<"proj">>), <<"home">>, "pattern", [Tree EXCEPT ![P].link = TRUE]),
   MakeScan(Relative(<<>>), P, "pattern", [Tree EXCEPT ![P].link = TRUE]),
   \* a link beside the rest, a directory nobody may read, files nobody may read
   MakeScan(Relative(<<>>), P, "pattern", [Tree EXCEPT ![P \o <<"app">>].link = TRUE]),
   MakeScan(Relative(<<>>), P, "pattern", [Tree EXCEPT ![P \o <<"app">>].readable = FALSE]),
   MakeScan(Relative(<<>>), P, "pattern", [Tree EXCEPT ![P \o <<"main.go">>].readable = FALSE,
                                                       ![P \o <<"app", "views.py">>].readable = FALSE]),
   \* no root, a file for the go tier
   MakeScan(Relative(<<"out">>), P, "pattern", Tree),
   MakeScan(Relative(<<"main.go">>), P, "all", Tree),
   MakeScan(Relative(<<"main.go">>), P, "pattern", Tree),
   MakeScan(Relative(<<"views.py">>), P \o <<"app">>, "pattern", Tree),
   MakeScan(Up(1, <<"app", "out", "app">>), P \o <<"gen">>, "pattern", Repeated),
   SingleFile, Namesake}

\* One file, in which every line is of a length the reader takes.
SingleFileScans == {[SingleFile EXCEPT !.entries[P \o <<"app", "views.py">>].cut = 0]}
=============================================================================
