-------------------------- MODULE MCScanLifecycle --------------------------
(***************************************************************************)
(* Instances of ScanLifecycle for TLC: a handful of findings, trees and    *)
(* command lines, chosen so that every engine, gate, suppression and       *)
(* baseline case meets every other.                                        *)
(***************************************************************************)
EXTENDS HtmlReport

MCRule   == {"metrics/high-cardinality-label", "msgtrace/kafka-produce-no-inject",
             "errors/swallowed-on-critical-path"}
MCFile   == {"a.py", "b.go"}
MCSymbol == {"user", "user#2", "send"}

MakeFinding(rule, file, line, symbol, sev, conf) ==
  [rule |-> rule, file |-> file, line |-> line, symbol |-> symbol,
   sev |-> sev, conf |-> conf, status |-> "open"]

\* A label the pattern tier reports at two lines of a file.
Label  == MakeFinding("metrics/high-cardinality-label", "a.py", 2, "user", "warning", "high")
Label2 == MakeFinding("metrics/high-cardinality-label", "a.py", 4, "user#2", "warning", "high")
\* The same label, reported twice by a resolver that numbers nothing.
Twin   == [Label EXCEPT !.line = 4]
\* Its rule states no confidence.
Swallow == MakeFinding("errors/swallowed-on-critical-path", "b.go", 3, "send", "info", "")
Produce == MakeFinding("msgtrace/kafka-produce-no-inject", "b.go", 5, "send", "warning", "medium")

Ignore(f, above) == [file |-> f.file, rule |-> f.rule,
                     line |-> IF above THEN f.line - 1 ELSE f.line]

MakeTree(pattern, go, sups, unreadable) ==
  [pattern |-> pattern, go |-> go, sups |-> sups, unreadable |-> unreadable]

\* A comment above a finding and one beside it, one of them unreadable.
Quiet      == MakeTree(<<Label, Label2, Swallow>>, <<Produce>>,
                       {Ignore(Label, TRUE), Ignore(Swallow, FALSE)}, {})
Unreadable == [Quiet EXCEPT !.unreadable = {"b.go"}]
Loud       == [Quiet EXCEPT !.sups = {}]
\* Two findings open, and later one of them, further down.
Half       == [Quiet EXCEPT !.sups = {Ignore(Label, TRUE)}]
Fixed      == MakeTree(<<[Swallow EXCEPT !.line = 9]>>, <<>>, {}, {})
Twins      == MakeTree(<<Label, Twin>>, <<Produce>>, {Ignore(Twin, FALSE)}, {})

NoPolicy == [version |-> 0, block |-> <<>>]
Entry(name, padded) == [name |-> name, padded |-> padded]
Policies ==
  {[version |-> 1, block |-> <<Entry("unbounded-metric-labels", TRUE)>>],
   [version |-> 1, block |-> <<Entry("missing-propagation", FALSE),
                               Entry("removed-required-events", FALSE)>>],
   [version |-> 1, block |-> <<Entry("missing-propagation", FALSE),
                               Entry("missing-propagation", TRUE)>>],
   [version |-> 1, block |-> <<Entry("logs/unstructured-logging", FALSE)>>],
   NoPolicy}

Scan(engine, custom, failOn, baseline, baselineWrite) ==
  [cmd |-> "scan", engine |-> engine, custom |-> custom, failOn |-> failOn,
   policy |-> NoPolicy, baseline |-> baseline, baselineWrite |-> baselineWrite]
Check(engine, policy, baseline) ==
  [cmd |-> "check", engine |-> engine, custom |-> FALSE, failOn |-> "",
   policy |-> policy, baseline |-> baseline, baselineWrite |-> "none"]
CheckCardinality(failOn) ==
  [cmd |-> "check-cardinality", engine |-> "", custom |-> FALSE, failOn |-> failOn,
   policy |-> NoPolicy, baseline |-> "none", baselineWrite |-> "none"]

\* Every command alone, with every gate.
GateInvocations ==
       {Scan(e, c, l, b, "none") : e \in {"pattern", "all"}, c \in {TRUE},
                                   l \in FailOnLevels \cup {"fatal"}, b \in {"none", "base"}}
  \cup {Scan(e, FALSE, "warning", "none", "base") : e \in {"", "go", "all", "native"}}
  \cup {Check(e, p, b) : e \in {"all"}, p \in Policies, b \in {"none", "base"}}
  \cup {[Check("pattern", p, b) EXCEPT !.baselineWrite = "base"] :
           p \in {q \in Policies : ValidPolicy(q)}, b \in {"base"}}
  \cup {CheckCardinality(l) : l \in {"none", "warning", "error", "fatal"}}

\* Writers and readers of one baseline file.
BaselineInvocations ==
  {Scan("pattern", TRUE, "info", b, w) : b \in {"none", "base"}, w \in {"none", "base"}}

\* Two writers of one baseline file, whose records differ, and a reader.
TornInvocations == {Scan(e, TRUE, "info", "none", "base") : e \in {"pattern", "go"}}
                   \cup {Scan("pattern", TRUE, "info", "base", "none")}

MaskingInvocations == {Scan("pattern", TRUE, "warning", "none", "none")}

MCPath   == {"base"}
MCNoPath == "none"

\* The digests of any two findings differ, in an order that says nothing.
MCDigest ==
  LET Place(x, l) == CHOOSE i \in DOMAIN l : l[i] = x
  IN  [p \in FpSet |->
         9 * Place(p[3], <<"user#2", "send", "user">>) + 3 * Place(p[2], <<"b.go", "a.py">>)
           + Place(p[1], <<"msgtrace/kafka-produce-no-inject",
                           "errors/swallowed-on-critical-path",
                           "metrics/high-cardinality-label">>)]

\* A baseline of fingerprints s, and one whose writer stopped before it had
\* written anything.
Whole(s) == CHOOSE rec \in Records(s) : TRUE
Broken   == Empty
MCAdopted == {[p \in MCPath |-> Broken], [p \in MCPath |-> Whole({Fp(Label)})],
              [p \in MCPath |-> Whole({Fp(Label), Fp(Produce)})]}
TwoBaselines == {[p \in MCPath |-> Broken], [p \in MCPath |-> Whole({Fp(Label), Fp(Produce)})]}
AdoptedBaseline == {[p \in MCPath |-> Whole({Fp(Label)})]}

GateTrees     == {Quiet, Unreadable, Loud, Twins}
BaselineTrees == {Half, Fixed}
TwinTrees     == {Twins}
LoudTrees     == {Loud}
QuietTrees    == {Quiet}
=============================================================================
