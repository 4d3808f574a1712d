------------------------------ MODULE MCGoTier ------------------------------
(***************************************************************************)
(* An instance of GoTier for TLC: every package of two functions and two   *)
(* calls over a small syntax, and a few larger programs, among them one    *)
(* with packages that do not type-check.                                   *)
(***************************************************************************)
EXTENDS GoTier

MCFile == {"a.go", "b.go"}
MCRule == {Meta(a).rule : a \in Known}
MCSymbol == {Direct, Via, Unnamed, UnnamedCall, "new context", "no context"}

\* Publish(key, topic string, msg kafka.Message) and a function without a message.
Publish == [params |-> <<[names |-> 2, message |-> FALSE],
                          [names |-> 1, message |-> TRUE]>>]
Plain   == [params |-> <<>>]

MakeCall(decl, outer, kind, callee, args, mentions, file, line) ==
  [decl |-> decl, outer |-> outer, kind |-> kind, callee |-> callee, args |-> args,
   mentions |-> mentions, file |-> file, line |-> line]

MakePackage(funcs, calls, lint) ==
  [under |-> TRUE, golang |-> TRUE, errors |-> FALSE, illTyped |-> FALSE,
   funcs |-> funcs, calls |-> calls, lint |-> lint]

NoLint == [a \in {} |-> <<>>]
Lint(file, text) == <<[file |-> file, line |-> 7, text |-> text],
                      [file |-> file, line |-> 9, text |-> text]>>
Linted(file) == [a \in {"contextcheck", "noctx", "custom"} |->
                   Lint(file, IF a = "contextcheck" THEN "new context" ELSE "no context")]

\* One call in every shape: where it is, what it calls, what it is handed.
Shapes(file, line, outers) ==
       {MakeCall(d, o, "produce", 0, a, FALSE, file, line) : d \in 0..2, o \in outers,
          a \in {<<"other">>, <<"bare", "bare">>, <<"headers", "bare">>, <<"address">>}}
  \cup {MakeCall(d, o, "resource", 0, <<>>, m, file, line) : d \in 0..2, o \in outers, m \in BOOLEAN}
  \cup {MakeCall(d, o, "plain", f, a, m, file, line) : d \in 0..2, o \in outers, f \in 0..2,
          a \in {<<"other", "other", "bare">>, <<"bare">>}, m \in {TRUE}}

\* A call, and one after it that may be among its arguments.  Declarations
\* come in source order.
Pairs == {<<c, d>> : c \in Shapes("a.go", 1, {0}), d \in Shapes("a.go", 2, {0, 1})}
Ordered(s) == /\ s[2].outer = 1 => s[2].decl = s[1].decl
              /\ s[2].decl # 0 => s[1].decl <= s[2].decl

Small == {<<MakePackage(<<Publish, Plain>>, s, NoLint)>> : s \in {t \in Pairs : Ordered(t)}}

\* Callers above and below the wrappers they call, a chain of two hops, twice
\* the same message in one file, and linters that say theirs twice.
Chain == MakePackage(<<Plain, Publish, Plain>>,
  <<MakeCall(1, 0, "plain", 2, <<"other", "other", "bare">>, FALSE, "a.go", 1),
    MakeCall(1, 0, "plain", 3, <<>>, FALSE, "a.go", 2),
    MakeCall(2, 0, "produce", 0, <<"other">>, FALSE, "a.go", 3),
    MakeCall(2, 0, "produce", 0, <<"bare">>, FALSE, "a.go", 4),
    MakeCall(3, 0, "plain", 0, <<>>, FALSE, "a.go", 5),
    MakeCall(3, 5, "resource", 0, <<>>, FALSE, "a.go", 6),
    MakeCall(0, 0, "plain", 2, <<"other", "other", "bare">>, FALSE, "a.go", 7),
    MakeCall(0, 0, "plain", 1, <<>>, FALSE, "a.go", 8),
    MakeCall(0, 0, "produce", 0, <<"bare">>, FALSE, "a.go", 9)>>, Linted("a.go"))
Other == MakePackage(<<Plain>>, <<MakeCall(1, 0, "resource", 0, <<>>, FALSE, "b.go", 3)>>, Linted("b.go"))

MCPrograms ==
  Small \cup
  {<<>>, <<[Other EXCEPT !.golang = FALSE]>>, <<[Other EXCEPT !.under = FALSE]>>,
   <<[Other EXCEPT !.errors = TRUE], Chain>>, <<[Other EXCEPT !.illTyped = TRUE], Chain>>,
   <<Chain, Other>>, <<Other, Chain>>}

\* The repository's analyzers alone where no linter has a word to say; else two
\* linters of one rule too, and an analyzer that has no rule.
MCAnalyzers == [s \in MCPrograms |->
  IF \A i \in DOMAIN s : s[i].lint = NoLint THEN {<<"otelresource", "msgtrace">>}
  ELSE {<<"otelresource", "msgtrace", "contextcheck", "noctx", "custom">>}]
=============================================================================
