---------------------------- MODULE MCAstGrepRun ----------------------------
(***************************************************************************)
(* Instances of AstGrepRun for TLC.                                        *)
(***************************************************************************)
EXTENDS AstGrepRun

MCFile == {"a.go", "b.go", "go_example/c.go"}
MCText == {"user", "email"}

Match(f, line, text, error) ==
  [kind |-> "match", file |-> f, line |-> line, text |-> text, error |-> error]
Bytes(f) == [kind |-> "garbage", file |-> f, line |-> 0, text |-> "user", error |-> FALSE]

MakeScript(a, b, c) ==
  [f \in MCFile |-> CASE f = "a.go" -> a [] f = "b.go" -> b [] OTHER -> c]

\* A text twice in one file, again in another, and in a file that is skipped.
Repeats == MakeScript(<<Match("a.go", 1, "user", FALSE), Match("a.go", 5, "user", FALSE)>>,
                      <<Match("b.go", 2, "user", TRUE), Match("b.go", 3, "email", FALSE)>>,
                      <<Match("go_example/c.go", 4, "user", FALSE)>>)
\* Output that is malformed after one match, with more than a pipe behind it.
Mangled == MakeScript(<<Match("a.go", 1, "user", FALSE), Bytes("a.go"),
                        Match("a.go", 2, "user", FALSE), Match("a.go", 3, "user", FALSE),
                        Match("a.go", 4, "email", FALSE)>>,
                      <<>>, <<>>)
\* Matches in skipped files alone, and no matches at all.
OnlySkipped == MakeScript(<<>>, <<>>, <<Match("go_example/c.go", 4, "user", TRUE)>>)
Silent == MakeScript(<<>>, <<>>, <<>>)

Num(n) == [number |-> TRUE, value |-> n]
Word   == [number |-> FALSE, value |-> 0]
MCVersions ==
  {<<Num(0), Num(45), Num(0)>>, <<Num(1), Word>>, <<Num(0), Num(100)>>,
   <<Num(0), Num(44), Num(9)>>, <<Num(0), Num(9), Num(100)>>, <<Word, Num(45), Num(1)>>,
   <<Num(0)>>, <<Num(0), Num(44), Num(99)>>}

MCScripts == {Repeats, Mangled, OnlySkipped, Silent}
MCSkipped == {"go_example/c.go"}
MCWalked  == <<"a.go", "b.go">>
=============================================================================
