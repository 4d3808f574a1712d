---------------------------- MODULE GoTierProofs ----------------------------
(***************************************************************************)
(* The Go tier: what both analyzers of the repository say of a package,    *)
(* and what a scan makes of it, for any program, any team of analyzers,    *)
(* and any panics and failures.                                            *)
(***************************************************************************)
EXTENDS GoTier, MeasuresProofs, FiniteSetTheorems, TLAPS

-----------------------------------------------------------------------------
(* The inductive invariant: the pass.  What a pass has said is, at each of   *)
(* its steps, what it owes for the calls behind it.                          *)

\* The functions that msgtrace has learnt before call n.
Learnt(p, n) ==
  {f \in DOMAIN p.funcs :
     /\ MessageParamIndex(p.funcs[f]) # 0
     /\ \E c \in DOMAIN p.calls : c < n /\ p.calls[c].decl = f /\ IsProduce(p.calls[c])}

\* The calls it reports, and those otelresource reports in either walk.
DirectCalls(p) ==
  {c \in DOMAIN p.calls :
     /\ p.calls[c].outer = 0 /\ IsProduce(p.calls[c])
     /\ \E i \in DOMAIN p.calls[c].args : IsBare(p.calls[c].args[i])}

ViaCalls(p) ==
  {c \in DOMAIN p.calls :
     /\ p.calls[c].outer = 0 /\ ~IsProduce(p.calls[c])
     /\ \E f \in DOMAIN p.funcs, i \in DOMAIN p.calls[c].args :
          p.calls[c].callee = f /\ IsBare(p.calls[c].args[i]) /\ Forwards(p, f, i)}

NamelessCalls(p) == {c \in DOMAIN p.calls : p.calls[c].decl # 0 /\ Anonymous(p, c)}

HolderCalls(p) ==
  {c \in DOMAIN p.calls :
     /\ p.calls[c].outer = 0 /\ ~IsResourceNew(p.calls[c])
     /\ \E d \in NamelessCalls(p) : p.calls[d].decl = p.calls[c].callee}

\* The diagnostics of the calls in C before n.
Marked(p, C, text, n) == {Diagnostic(p, c, text) : c \in {d \in C : d < n}}

Said(s) == {s[x] : x \in DOMAIN s}

\* The places in a file that share a text, in source order.
InOrder(s) ==
  \A x, y \in DOMAIN s :
    x <= y /\ s[x].file = s[y].file /\ s[x].text = s[y].text => s[x].line <= s[y].line

MsgTraceInv ==
  LET end == Len(pkg.calls) + 1
  IN  /\ DOMAIN wrappers = Learnt(pkg, IF stage = "decls" THEN at ELSE end)
      /\ \A f \in DOMAIN wrappers : wrappers[f] = MessageParamIndex(pkg.funcs[f])
      /\ stage = "decls" => diags = <<>>
      /\ stage = "calls" => Said(diags) = Marked(pkg, DirectCalls(pkg), Direct, at)
                                            \cup Marked(pkg, ViaCalls(pkg), Via, at)

OtelResourceInv ==
  LET n == IF stage = "decls" THEN at ELSE Len(pkg.calls) + 1
  IN  /\ DOMAIN wrappers = {pkg.calls[c].decl : c \in {d \in NamelessCalls(pkg) : d < n}}
      /\ Said(diags) = Marked(pkg, NamelessCalls(pkg), Unnamed, n)
                         \cup (IF stage = "decls" THEN {}
                               ELSE Marked(pkg, HolderCalls(pkg), UnnamedCall, at))

LintInv == /\ stage = "decls" => diags = <<>>
           /\ stage = "calls" => Said(diags) = Owed(Analyzer, pkg)

PassInv ==
  pc = "pass" =>
    /\ which \in DOMAIN team /\ nth \in DOMAIN Packages
    /\ pkg = program[nth] /\ ~pkg.illTyped
    /\ Analyzer = "msgtrace" => MsgTraceInv
    /\ Analyzer = "otelresource" => OtelResourceInv
    /\ Analyzer \in House => InOrder(diags)
    /\ Analyzer \notin House => LintInv

-----------------------------------------------------------------------------
(* The inductive invariant: the scan.                                        *)

\* What analyzer a owes for the packages ps before the n-th, but for the spoiled.
Brought(ps, bad, a, n) ==
  UNION {Owed(a, ps[i]) :
           i \in {k \in DOMAIN ps : k < n /\ <<a, k>> \notin bad /\ ~ps[k].illTyped}}

\* What is lost or spoiled is of this analyzer or an earlier one.
TurnInv ==
  /\ program \in Programs /\ team \in Analyzers[program]
  /\ pc = "load" => which = 1 /\ nth = 1 /\ acts = <<>> /\ out = <<>> /\ spoiled = {}
  /\ pc = "merge" => which \in DOMAIN team
  /\ \A a \in lost : \E j \in DOMAIN team : j < which /\ a = team[j]
  /\ \A e \in spoiled : \E j \in DOMAIN team :
       /\ e[1] = team[j]
       /\ \/ j < which
          \/ j = which /\ pc \in {"scan", "pass"} /\ e[2] < nth
          \/ j = which /\ pc = "merge"

ActsInv ==
  /\ pc \in {"scan", "pass"} /\ which \in DOMAIN team =>
       Said(acts) = Brought(Packages, spoiled, Analyzer, nth)
  /\ pc = "merge" =>
       Said(acts) = IF Analyzer \in Known
                    THEN Brought(Packages, spoiled, Analyzer, Len(program) + 1) ELSE {}
  /\ pc \in {"scan", "pass", "merge"} /\ which \in DOMAIN team =>
       (Analyzer \in House => InOrder(acts))

\* Each finding comes from an analyzer that has had its turn, or is merging.
SourceInv ==
  \A k \in DOMAIN out :
    \E j \in DOMAIN team, i \in DOMAIN Packages :
      /\ j < which \/ (j = which /\ pc = "merge")
      /\ Heard(team[j], i)
      /\ \E d \in Owed(team[j], Packages[i]) : out[k] = DiagnosticFinding(team[j], d)

\* What has had its turn is there.
JoinedInv ==
  /\ \A j \in DOMAIN team, i \in DOMAIN Packages :
       j < which /\ Heard(team[j], i) =>
         \A d \in Owed(team[j], Packages[i]) : Fp(DiagnosticFinding(team[j], d)) \in Fps(out)
  /\ pc = "merge" => \A m \in DOMAIN acts :
       m < nth => Fp(DiagnosticFinding(Analyzer, acts[m])) \in Fps(out)
  /\ result = "none" \/ pc = "done"
  /\ result = "ok" => \/ \A i \in DOMAIN program : ~program[i].golang
                      \/ DOMAIN Packages = {}
                      \/ which = Len(team) + 1

-----------------------------------------------------------------------------
(* Packages, diagnostics and lists of them.                                  *)

LEMMA ProgramIs ==
  ASSUME TurnInv
  PROVE  /\ DOMAIN program = 1..Len(program) /\ Len(program) \in Nat
         /\ \A i \in DOMAIN program : IsPackage(program[i])
         /\ \A i, j \in DOMAIN program : i # j =>
              \A c \in DOMAIN program[i].calls, d \in DOMAIN program[j].calls :
                program[i].calls[c].file # program[j].calls[d].file
         /\ team \in Seq(STRING)
         /\ \A i, j \in DOMAIN team : team[i] = team[j] => i = j
         /\ DOMAIN Packages \subseteq DOMAIN program
         /\ \A i \in DOMAIN Packages : Packages[i] = program[i]
<1>1. program \in Programs /\ team \in Analyzers[program]
  BY DEF TurnInv
<1>2. DOMAIN Packages \subseteq DOMAIN program /\ \A i \in DOMAIN Packages : Packages[i] = program[i]
  BY DEF Packages, Initial
<1> QED
  BY <1>1, <1>2, GoTierAssumption

LEMMA TextsAre ==
  /\ Direct \in Symbol /\ Via \in Symbol /\ Unnamed \in Symbol /\ UnnamedCall \in Symbol
  /\ Direct # Via /\ Unnamed # UnnamedCall
<1>1. Direct # Via /\ Unnamed # UnnamedCall
  BY DEF Direct, Via, Unnamed, UnnamedCall
<1> QED
  BY <1>1, GoTierAssumption

LEMMA DiagnosticIs ==
  ASSUME NEW p, IsPackage(p), NEW c \in DOMAIN p.calls, NEW text \in Symbol
  PROVE  /\ Diagnostic(p, c, text) \in Diagnosed
         /\ Diagnostic(p, c, text).file = p.calls[c].file
         /\ Diagnostic(p, c, text).line = p.calls[c].line
         /\ Diagnostic(p, c, text).text = text
<1>1. p.calls[c].file \in File /\ p.calls[c].line \in Nat
  BY DEF IsPackage
<1> QED
  BY <1>1 DEF Diagnostic, Diagnosed

LEMMA MarkedNext ==
  ASSUME NEW p, NEW C \in SUBSET Nat, NEW text, NEW n \in Nat
  PROVE  Marked(p, C, text, n + 1) =
           Marked(p, C, text, n) \cup (IF n \in C THEN {Diagnostic(p, n, text)} ELSE {})
<1>1. {d \in C : d < n + 1} = {d \in C : d < n} \cup (IF n \in C THEN {n} ELSE {})
  <2>1. \A d \in C : d \in Nat /\ (d < n + 1 <=> d < n \/ d = n)
    OBVIOUS
  <2> QED
    BY <2>1
<1> DEFINE Behind == {d \in C : d < n}
           D(c) == Diagnostic(p, c, text)
<1>2. Marked(p, C, text, n + 1) = {D(c) : c \in Behind \cup (IF n \in C THEN {n} ELSE {})}
  BY <1>1 DEF Marked
<1>3. Marked(p, C, text, n) = {D(c) : c \in Behind}
  BY DEF Marked
<1> HIDE DEF Behind, D
<1>4. {D(c) : c \in Behind \cup (IF n \in C THEN {n} ELSE {})}
        = {D(c) : c \in Behind} \cup (IF n \in C THEN {D(n)} ELSE {})
  OBVIOUS
<1> QED
  BY <1>2, <1>3, <1>4 DEF D

LEMMA SaidBoth ==
  ASSUME NEW s \in Seq(Diagnosed), NEW t \in Seq(Diagnosed)
  PROVE  s \o t \in Seq(Diagnosed) /\ Said(s \o t) = Said(s) \cup Said(t)
<1>1. \A x \in 1..Len(t) : (s \o t)[Len(s) + x] = t[x] /\ Len(s) + x \in DOMAIN (s \o t)
  OBVIOUS
<1>2. \A x \in DOMAIN s : (s \o t)[x] = s[x] /\ x \in DOMAIN (s \o t)
  OBVIOUS
<1>3. \A x \in DOMAIN (s \o t) :
        \/ x \in DOMAIN s /\ (s \o t)[x] = s[x]
        \/ x - Len(s) \in DOMAIN t /\ (s \o t)[x] = t[x - Len(s)]
  OBVIOUS
<1>4. Said(s \o t) \subseteq Said(s) \cup Said(t)
  BY <1>3 DEF Said
<1>5. Said(s) \subseteq Said(s \o t)
  BY <1>2 DEF Said
<1>6. Said(t) \subseteq Said(s \o t)
  <2> SUFFICES ASSUME NEW x \in 1..Len(t)  PROVE t[x] \in Said(s \o t)
    BY DEF Said
  <2>1. Len(s) + x \in DOMAIN (s \o t) /\ t[x] = (s \o t)[Len(s) + x]
    BY <1>1
  <2> QED
    BY <2>1, Zenon DEF Said
<1> QED
  BY <1>4, <1>5, <1>6

\* What comes behind a list in order keeps it in order if each of the one and
\* each of the other are.
LEMMA InOrderBoth ==
  ASSUME NEW s \in Seq(Diagnosed), NEW t \in Seq(Diagnosed), InOrder(s), InOrder(t),
         \A x \in DOMAIN s, y \in DOMAIN t :
           s[x].file = t[y].file /\ s[x].text = t[y].text => s[x].line <= t[y].line
  PROVE  InOrder(s \o t)
<1> SUFFICES ASSUME NEW x \in DOMAIN (s \o t), NEW y \in DOMAIN (s \o t), x <= y,
                    (s \o t)[x].file = (s \o t)[y].file, (s \o t)[x].text = (s \o t)[y].text
             PROVE  (s \o t)[x].line <= (s \o t)[y].line
  BY DEF InOrder
<1>1. \A z \in DOMAIN (s \o t) :
        \/ z \in DOMAIN s /\ (s \o t)[z] = s[z]
        \/ z > Len(s) /\ z - Len(s) \in DOMAIN t /\ (s \o t)[z] = t[z - Len(s)]
  OBVIOUS
<1>2. x \in Nat /\ y \in Nat
  OBVIOUS
<1>3. CASE y \in DOMAIN s /\ (s \o t)[y] = s[y]
  <2>1. x \in DOMAIN s /\ (s \o t)[x] = s[x]
    BY <1>3
  <2> QED
    BY <1>3, <2>1 DEF InOrder
<1>4. CASE y > Len(s) /\ y - Len(s) \in DOMAIN t /\ (s \o t)[y] = t[y - Len(s)]
  <2>1. CASE x \in DOMAIN s /\ (s \o t)[x] = s[x]
    BY <1>4, <2>1
  <2>2. CASE x > Len(s) /\ x - Len(s) \in DOMAIN t /\ (s \o t)[x] = t[x - Len(s)]
    <3>1. x - Len(s) <= y - Len(s)
      BY <1>2
    <3> QED
      BY <1>4, <2>2, <3>1 DEF InOrder
  <2> QED
    BY <1>1, <2>1, <2>2
<1> QED
  BY <1>1, <1>3, <1>4

LEMMA AddsInOrder ==
  ASSUME NEW p, IsPackage(p), NEW c \in DOMAIN p.calls, NEW text \in Symbol,
         NEW s \in Seq(Diagnosed), InOrder(s),
         \A x \in DOMAIN s : s[x].text = text =>
           \E d \in DOMAIN p.calls : d <= c /\ s[x] = Diagnostic(p, d, text),
         NEW t \in Seq(Diagnosed), Said(t) \subseteq {Diagnostic(p, c, text)}
  PROVE  InOrder(s \o t)
<1>1. \A y \in DOMAIN t : t[y] = Diagnostic(p, c, text)
  BY DEF Said
<1>2. /\ Diagnostic(p, c, text).line \in Nat
      /\ Diagnostic(p, c, text).file = p.calls[c].file
      /\ Diagnostic(p, c, text).line = p.calls[c].line
      /\ Diagnostic(p, c, text).text = text
  BY DiagnosticIs DEF Diagnosed
<1>3. InOrder(t)
  BY <1>1, <1>2 DEF InOrder
<1>4. ASSUME NEW x \in DOMAIN s, NEW y \in DOMAIN t,
             s[x].file = t[y].file, s[x].text = t[y].text
      PROVE  s[x].line <= t[y].line
  <2>1. s[x].text = text /\ s[x].file = p.calls[c].file
    BY <1>1, <1>2, <1>4
  <2>2. PICK d \in DOMAIN p.calls : d <= c /\ s[x] = Diagnostic(p, d, text)
    BY <2>1
  <2>3. s[x].file = p.calls[d].file /\ s[x].line = p.calls[d].line
    BY <2>2, DiagnosticIs
  <2>4. d \in 1..c
    BY <2>2 DEF IsPackage
  <2>5. p.calls[d].line <= p.calls[c].line
    BY <2>1, <2>3, <2>4 DEF IsPackage
  <2> QED
    BY <1>1, <1>2, <2>3, <2>5
<1> QED
  BY <1>3, <1>4, InOrderBoth

LEMMA NothingSaid == Said(<<>>) = {} /\ InOrder(<<>>) /\ <<>> \in Seq(Diagnosed)
BY DEF Said, InOrder

LEMMA OneSaid ==
  ASSUME NEW d \in Diagnosed
  PROVE  <<d>> \in Seq(Diagnosed) /\ Said(<<d>>) = {d}
<1>1. DOMAIN <<d>> = {1} /\ <<d>>[1] = d
  OBVIOUS
<1> QED
  BY <1>1 DEF Said

LEMMA CallsAre ==
  ASSUME NEW p, IsPackage(p)
  PROVE  /\ DOMAIN p.calls = 1..Len(p.calls) /\ Len(p.calls) \in Nat
         /\ DirectCalls(p) \in SUBSET Nat /\ ViaCalls(p) \in SUBSET Nat
         /\ NamelessCalls(p) \in SUBSET Nat /\ HolderCalls(p) \in SUBSET Nat
         /\ \A c \in DOMAIN p.calls : c \in Nat \ {0}
BY DEF IsPackage, DirectCalls, ViaCalls, NamelessCalls, HolderCalls

\* Before the first call nothing is marked, and behind the last one all is.
LEMMA MarkedEnds ==
  ASSUME NEW p, IsPackage(p), NEW C, C \subseteq DOMAIN p.calls, NEW text
  PROVE  /\ Marked(p, C, text, 1) = {}
         /\ Marked(p, C, text, Len(p.calls) + 1) = {Diagnostic(p, c, text) : c \in C}
<1>1. \A c \in C : ~(c < 1) /\ c < Len(p.calls) + 1
  BY CallsAre
<1>2. {d \in C : d < 1} = {} /\ {d \in C : d < Len(p.calls) + 1} = C
  BY <1>1
<1> QED
  BY <1>2, Zenon DEF Marked

-----------------------------------------------------------------------------
(* The pass of msgtrace.                                                     *)

LEMMA LearntNext ==
  ASSUME NEW p, IsPackage(p), NEW n \in DOMAIN p.calls
  PROVE  Learnt(p, n + 1) = Learnt(p, n) \cup
           {f \in DOMAIN p.funcs : /\ p.calls[n].decl = f /\ IsProduce(p.calls[n])
                                   /\ MessageParamIndex(p.funcs[f]) # 0}
<1>1. \A c \in DOMAIN p.calls : c < n + 1 <=> c < n \/ c = n
  BY CallsAre
<1> QED
  BY <1>1 DEF Learnt

LEMMA LearnKeeps ==
  ASSUME IsPackage(pkg), NEW n \in DOMAIN pkg.calls, DOMAIN wrappers = Learnt(pkg, n),
         \A f \in DOMAIN wrappers : wrappers[f] = MessageParamIndex(pkg.funcs[f]),
         NEW w, w = IF pkg.calls[n].decl # 0 THEN Learn(pkg, wrappers, n) ELSE wrappers
  PROVE  /\ DOMAIN w = Learnt(pkg, n + 1)
         /\ \A f \in DOMAIN w : w[f] = MessageParamIndex(pkg.funcs[f])
<1> DEFINE f == pkg.calls[n].decl
           index == MessageParamIndex(pkg.funcs[f])
<1>1. f # 0 <=> f \in DOMAIN pkg.funcs
  BY DEF IsPackage
<1>2. CASE f # 0 /\ index # 0 /\ IsProduce(pkg.calls[n])
  <2>1. w = Entered(wrappers, f, index)
    BY <1>2, Zenon DEF Learn
  <2>2. DOMAIN w = DOMAIN wrappers \cup {f}
    BY <2>1 DEF Entered
  <2>3. \A g \in DOMAIN w : w[g] = IF g = f THEN index ELSE wrappers[g]
    BY <2>1 DEF Entered
  <2>4. Learnt(pkg, n + 1) = Learnt(pkg, n) \cup {f}
    BY <1>1, <1>2, LearntNext
  <2> QED
    BY <2>2, <2>3, <2>4
<1>3. CASE ~(f # 0 /\ index # 0 /\ IsProduce(pkg.calls[n]))
  <2>1. w = wrappers
    BY <1>3, Zenon DEF Learn
  <2>2. Learnt(pkg, n + 1) = Learnt(pkg, n)
    <3>1. {g \in DOMAIN pkg.funcs : /\ pkg.calls[n].decl = g /\ IsProduce(pkg.calls[n])
                                    /\ MessageParamIndex(pkg.funcs[g]) # 0} = {}
      BY <1>1, <1>3
    <3> QED
      BY <3>1, LearntNext
  <2> QED
    BY <2>1, <2>2
<1> QED
  BY <1>2, <1>3

\* What the second walk says of a call with no call around it.
LEMMA PublishedIs ==
  ASSUME IsPackage(pkg), NEW n \in DOMAIN pkg.calls, pkg.calls[n].outer = 0,
         DOMAIN wrappers = Learnt(pkg, Len(pkg.calls) + 1),
         \A f \in DOMAIN wrappers : wrappers[f] = MessageParamIndex(pkg.funcs[f])
  PROVE  /\ Published(pkg, wrappers, n) \in Seq(Diagnosed)
         /\ IF IsProduce(pkg.calls[n])
            THEN /\ n \notin ViaCalls(pkg)
                 /\ Said(Published(pkg, wrappers, n)) =
                      IF n \in DirectCalls(pkg) THEN {Diagnostic(pkg, n, Direct)} ELSE {}
            ELSE /\ n \notin DirectCalls(pkg)
                 /\ Said(Published(pkg, wrappers, n)) =
                      IF n \in ViaCalls(pkg) THEN {Diagnostic(pkg, n, Via)} ELSE {}
<1> DEFINE call == pkg.calls[n]
           t == Published(pkg, wrappers, n)
           Bare == {j \in DOMAIN call.args : IsBare(call.args[j])}
<1>1. call.args \in Seq(ArgForms)
  BY DEF IsPackage
<1>2. CASE IsProduce(call)
  <2>1. t = [i \in 1..Cardinality(Bare) |-> Diagnostic(pkg, n, Direct)]
    BY <1>2, Zenon DEF Published
  <2>2. IsFiniteSet(Bare) /\ Cardinality(Bare) \in Nat /\ (Cardinality(Bare) = 0 <=> Bare = {})
    <3>1. IsFiniteSet(1..Len(call.args)) /\ Bare \subseteq 1..Len(call.args)
      <4>1. Len(call.args) \in Nat /\ DOMAIN call.args = 1..Len(call.args)
        BY <1>1
      <4>2. IsFiniteSet(1..Len(call.args))
        BY <4>1, FS_Interval
      <4> QED
        BY <4>1, <4>2
    <3>2. IsFiniteSet(Bare)
      BY <3>1, FS_Subset
    <3> QED
      BY <3>2, FS_CardinalityType, FS_EmptySet
  <2>3. t \in Seq(Diagnosed)
    BY <2>1, <2>2, DiagnosticIs, TextsAre
  <2>4. DOMAIN t = 1..Cardinality(Bare) /\ \A i \in DOMAIN t : t[i] = Diagnostic(pkg, n, Direct)
    BY <2>1
  <2>5. DOMAIN t = {} <=> Bare = {}
    <3>1. Cardinality(Bare) = 0 <=> 1..Cardinality(Bare) = {}
      <4>1. \A m \in Nat : m = 0 <=> 1..m = {}
        <5>1. \A m \in Nat : m # 0 => 1 \in 1..m
          OBVIOUS
        <5>2. 1..0 = {}
          OBVIOUS
        <5> QED
          BY <5>1, <5>2
      <4> QED
        BY <2>2, <4>1, Zenon
    <3> QED
      BY <2>2, <2>4, <3>1, Zenon
  <2>6. n \in DirectCalls(pkg) <=> Bare # {}
    BY <1>2 DEF DirectCalls
  <2>7. n \notin ViaCalls(pkg)
    BY <1>2 DEF ViaCalls
  <2> HIDE DEF Bare, t
  <2>8. Said(t) = IF Bare # {} THEN {Diagnostic(pkg, n, Direct)} ELSE {}
    BY <2>4, <2>5 DEF Said
  <2> QED
    BY <1>2, <2>3, <2>6, <2>7, <2>8 DEF t
<1>3. CASE ~IsProduce(call)
  <2> DEFINE calls == /\ call.callee \in DOMAIN wrappers
                      /\ wrappers[call.callee] \in DOMAIN call.args
                      /\ IsBare(call.args[wrappers[call.callee]])
  <2>1. t = IF calls THEN <<Diagnostic(pkg, n, Via)>> ELSE <<>>
    BY <1>3, Zenon DEF Published
  <2>2. calls => n \in ViaCalls(pkg)
    <3> SUFFICES ASSUME calls  PROVE n \in ViaCalls(pkg)
      OBVIOUS
    <3>1. call.callee \in DOMAIN pkg.funcs /\ wrappers[call.callee] = MessageParamIndex(pkg.funcs[call.callee])
      BY DEF Learnt
    <3>2. \E c \in DOMAIN pkg.calls : pkg.calls[c].decl = call.callee /\ IsProduce(pkg.calls[c])
      BY DEF Learnt
    <3>3. Forwards(pkg, call.callee, wrappers[call.callee])
      BY <3>1, <3>2 DEF Forwards
    <3> QED
      BY <1>3, <3>1, <3>3 DEF ViaCalls
  <2>3. n \in ViaCalls(pkg) => calls
    <3> SUFFICES ASSUME n \in ViaCalls(pkg)  PROVE calls
      OBVIOUS
    <3>1. PICK f \in DOMAIN pkg.funcs, i \in DOMAIN call.args :
            call.callee = f /\ IsBare(call.args[i]) /\ Forwards(pkg, f, i)
      BY DEF ViaCalls
    <3>2. i # 0 /\ i = MessageParamIndex(pkg.funcs[f])
      BY <1>1, <3>1 DEF Forwards
    <3>3. f \in Learnt(pkg, Len(pkg.calls) + 1)
      <4>1. PICK c \in DOMAIN pkg.calls : pkg.calls[c].decl = f /\ IsProduce(pkg.calls[c])
        BY <3>1 DEF Forwards
      <4>2. c < Len(pkg.calls) + 1
        BY CallsAre
      <4> QED
        BY <3>2, <4>1, <4>2 DEF Learnt
    <3> QED
      BY <3>1, <3>2, <3>3
  <2>4. n \notin DirectCalls(pkg)
    BY <1>3 DEF DirectCalls
  <2>5. Diagnostic(pkg, n, Via) \in Diagnosed
    BY DiagnosticIs, TextsAre
  <2> HIDE DEF calls, t
  <2>6. t \in Seq(Diagnosed) /\ Said(t) = IF calls THEN {Diagnostic(pkg, n, Via)} ELSE {}
    BY <2>1, <2>5, NothingSaid, OneSaid
  <2> QED
    BY <1>3, <2>2, <2>3, <2>4, <2>6 DEF t
<1> QED
  BY <1>2, <1>3

LEMMA MarkedText ==
  ASSUME NEW p, IsPackage(p), NEW C, C \subseteq DOMAIN p.calls, NEW text \in Symbol, NEW n,
         NEW e \in Marked(p, C, text, n)
  PROVE  e.text = text /\ \E d \in C : d < n /\ e = Diagnostic(p, d, text)
<1>1. PICK d \in C : d < n /\ e = Diagnostic(p, d, text)
  BY DEF Marked
<1> QED
  BY <1>1, DiagnosticIs

LEMMA MsgTraceKeeps ==
  ASSUME IsPackage(pkg), stage \in {"decls", "calls"}, at \in 1..(Len(pkg.calls) + 1),
         diags \in Seq(Diagnosed), InOrder(diags), MsgTraceInv, MsgTraceStep
  PROVE  /\ MsgTraceInv' /\ InOrder(diags') /\ diags' \in Seq(Diagnosed)
         /\ pkg' = pkg /\ stage' \in {"decls", "calls"} /\ at' \in 1..(Len(pkg.calls) + 1)
<1> DEFINE end == Len(pkg.calls) + 1
<1>1. DOMAIN pkg.calls = 1..Len(pkg.calls) /\ Len(pkg.calls) \in Nat /\ at \in Nat
  BY CallsAre
<1>2. CASE VisitBody(Learn(pkg, wrappers, at), <<>>)
  <2>1. stage = "decls" /\ at \in DOMAIN pkg.calls /\ at' = at + 1 /\ pkg' = pkg /\ stage' = stage
    BY <1>2 DEF VisitBody
  <2>2. diags = <<>> /\ DOMAIN wrappers = Learnt(pkg, at)
    BY <2>1 DEF MsgTraceInv
  <2>3. diags' = <<>>
    BY <1>2, <2>2 DEF VisitBody
  <2>4. wrappers' = IF pkg.calls[at].decl # 0 THEN Learn(pkg, wrappers, at) ELSE wrappers
    BY <1>2, Zenon DEF VisitBody
  <2>5. \A f \in DOMAIN wrappers : wrappers[f] = MessageParamIndex(pkg.funcs[f])
    BY Zenon DEF MsgTraceInv
  <2>6. PICK w : w = wrappers'
    OBVIOUS
  <2>7. DOMAIN w = Learnt(pkg, at + 1) /\ \A f \in DOMAIN w : w[f] = MessageParamIndex(pkg.funcs[f])
    BY <2>1, <2>2, <2>4, <2>5, <2>6, LearnKeeps
  <2>8. MsgTraceInv'
    BY <2>1, <2>3, <2>6, <2>7 DEF MsgTraceInv
  <2> QED
    BY <1>1, <2>1, <2>3, <2>8, NothingSaid
<1>3. CASE TurnToCalls
  <2>1. /\ stage = "decls" /\ at = end /\ at' = 1 /\ stage' = "calls"
        /\ pkg' = pkg /\ wrappers' = wrappers /\ diags' = diags
    BY <1>1, <1>3 DEF TurnToCalls
  <2>2. diags = <<>>
    BY <2>1 DEF MsgTraceInv
  <2>3. Marked(pkg, DirectCalls(pkg), Direct, 1) = {} /\ Marked(pkg, ViaCalls(pkg), Via, 1) = {}
    BY MarkedEnds DEF DirectCalls, ViaCalls
  <2>4. MsgTraceInv'
    BY <2>1, <2>2, <2>3, NothingSaid DEF MsgTraceInv
  <2> QED
    BY <1>1, <2>1, <2>4
<1>4. CASE VisitCall(Published(pkg, wrappers, at))
  <2>1. /\ stage = "calls" /\ at \in DOMAIN pkg.calls /\ at' = at + 1
        /\ pkg' = pkg /\ stage' = stage /\ wrappers' = wrappers
    BY <1>4 DEF VisitCall
  <2>2. /\ DOMAIN wrappers = Learnt(pkg, end)
        /\ \A f \in DOMAIN wrappers : wrappers[f] = MessageParamIndex(pkg.funcs[f])
        /\ Said(diags) = Marked(pkg, DirectCalls(pkg), Direct, at)
                           \cup Marked(pkg, ViaCalls(pkg), Via, at)
    BY <2>1 DEF MsgTraceInv
  <2> DEFINE D == IF at \in DirectCalls(pkg) THEN {Diagnostic(pkg, at, Direct)} ELSE {}
             V == IF at \in ViaCalls(pkg) THEN {Diagnostic(pkg, at, Via)} ELSE {}
  <2>3. /\ Marked(pkg, DirectCalls(pkg), Direct, at + 1) = Marked(pkg, DirectCalls(pkg), Direct, at) \cup D
        /\ Marked(pkg, ViaCalls(pkg), Via, at + 1) = Marked(pkg, ViaCalls(pkg), Via, at) \cup V
    BY <1>1, MarkedNext, CallsAre
  <2>4. diags' \in Seq(Diagnosed) /\ InOrder(diags') /\ Said(diags') = Said(diags) \cup D \cup V
    <3>1. CASE pkg.calls[at].outer # 0
      <4>1. D = {} /\ V = {}
        BY <3>1 DEF DirectCalls, ViaCalls
      <4>2. diags' = diags
        BY <1>4, <3>1 DEF VisitCall
      <4> QED
        BY <4>1, <4>2
    <3>2. CASE pkg.calls[at].outer = 0
      <4>1. PICK t : t = Published(pkg, wrappers, at)
        OBVIOUS
      <4>2. diags' = diags \o t
        BY <1>4, <3>2, <4>1 DEF VisitCall
      <4>3. PICK text \in {Direct, Via} : t \in Seq(Diagnosed) /\ Said(t) = D \cup V
                                          /\ Said(t) \subseteq {Diagnostic(pkg, at, text)}
        BY <2>1, <2>2, <3>2, <4>1, PublishedIs
      <4>4. text \in Symbol
        BY TextsAre
      <4>5. ASSUME NEW x \in DOMAIN diags, diags[x].text = text
            PROVE  \E d \in DOMAIN pkg.calls : d <= at /\ diags[x] = Diagnostic(pkg, d, text)
        <5>1. diags[x] \in Said(diags)
          BY DEF Said
        <5>2. DirectCalls(pkg) \subseteq DOMAIN pkg.calls /\ ViaCalls(pkg) \subseteq DOMAIN pkg.calls
          BY DEF DirectCalls, ViaCalls
        <5>3. PICK u \in {Direct, Via}, d \in DOMAIN pkg.calls :
                diags[x].text = u /\ d < at /\ diags[x] = Diagnostic(pkg, d, u)
          BY <2>2, <5>1, <5>2, MarkedText, TextsAre
        <5> QED
          BY <1>1, <4>5, <5>3
      <4>6. InOrder(diags \o t)
        <5>1. \A x \in DOMAIN diags : diags[x].text = text =>
                \E d \in DOMAIN pkg.calls : d <= at /\ diags[x] = Diagnostic(pkg, d, text)
          BY <4>5
        <5> HIDE DEF D, V
        <5>2. t \in Seq(Diagnosed) /\ Said(t) \subseteq {Diagnostic(pkg, at, text)}
          BY <4>3
        <5> QED
          BY <2>1, <4>4, <5>1, <5>2, AddsInOrder
      <4> QED
        BY <4>2, <4>3, <4>6, SaidBoth
    <3> QED
      BY <3>1, <3>2
  <2> HIDE DEF D, V
  <2>5. MsgTraceInv'
    BY <2>1, <2>2, <2>3, <2>4 DEF MsgTraceInv
  <2> QED
    BY <1>1, <2>1, <2>4, <2>5
<1> QED
  BY <1>2, <1>3, <1>4 DEF MsgTraceStep

\* A pass that has ended has said what it owes.
LEMMA MsgTraceEnds ==
  ASSUME IsPackage(pkg), at \in 1..(Len(pkg.calls) + 1), MsgTraceInv, PassEnded
  PROVE  Said(diags) = MsgTraceOwes(pkg)
<1>1. stage = "calls" /\ at = Len(pkg.calls) + 1
  BY CallsAre DEF PassEnded
<1>2. Said(diags) = {Diagnostic(pkg, c, Direct) : c \in DirectCalls(pkg)}
                      \cup {Diagnostic(pkg, c, Via) : c \in ViaCalls(pkg)}
  BY <1>1, MarkedEnds DEF MsgTraceInv, DirectCalls, ViaCalls
<1> DEFINE Hands(c) == {i \in DOMAIN pkg.calls[c].args : IsBare(pkg.calls[c].args[i])}
           Top == {c \in DOMAIN pkg.calls : pkg.calls[c].outer = 0 /\ Hands(c) # {}}
<1>3. {d \in Top : IsProduce(pkg.calls[d])} = DirectCalls(pkg)
  BY DEF DirectCalls
<1>4. {d \in Top : /\ ~IsProduce(pkg.calls[d])
                   /\ \E f \in DOMAIN pkg.funcs, i \in Hands(d) :
                        pkg.calls[d].callee = f /\ Forwards(pkg, f, i)} = ViaCalls(pkg)
  BY DEF ViaCalls
<1> QED
  BY <1>2, <1>3, <1>4, Zenon DEF MsgTraceOwes

-----------------------------------------------------------------------------
(* The pass of otelresource.                                                 *)

LEMMA ConstructsKeeps ==
  ASSUME IsPackage(pkg), NEW n \in DOMAIN pkg.calls,
         DOMAIN wrappers = {pkg.calls[c].decl : c \in {d \in NamelessCalls(pkg) : d < n}},
         NEW w, w = IF pkg.calls[n].decl # 0 THEN Constructs(pkg, wrappers, n) ELSE wrappers
  PROVE  DOMAIN w = {pkg.calls[c].decl : c \in {d \in NamelessCalls(pkg) : d < n + 1}}
<1>1. \A d \in NamelessCalls(pkg) : d < n + 1 <=> d < n \/ d = n
  BY CallsAre
<1>2. CASE n \in NamelessCalls(pkg)
  <2>1. pkg.calls[n].decl # 0 /\ Anonymous(pkg, n)
    BY <1>2 DEF NamelessCalls
  <2>2. w = Entered(wrappers, pkg.calls[n].decl, 0)
    BY <2>1, Zenon DEF Constructs
  <2>3. DOMAIN w = DOMAIN wrappers \cup {pkg.calls[n].decl}
    BY <2>2 DEF Entered
  <2>4. {d \in NamelessCalls(pkg) : d < n + 1} = {d \in NamelessCalls(pkg) : d < n} \cup {n}
    BY <1>1, <1>2
  <2> QED
    BY <2>3, <2>4
<1>3. CASE n \notin NamelessCalls(pkg)
  <2>1. pkg.calls[n].decl # 0 => ~Anonymous(pkg, n)
    BY <1>3 DEF NamelessCalls
  <2>2. w = wrappers
    BY <2>1, Zenon DEF Constructs
  <2>3. {d \in NamelessCalls(pkg) : d < n + 1} = {d \in NamelessCalls(pkg) : d < n}
    BY <1>1, <1>3
  <2> QED
    BY <2>2, <2>3
<1> QED
  BY <1>2, <1>3

LEMMA OtelResourceKeeps ==
  ASSUME IsPackage(pkg), stage \in {"decls", "calls"}, at \in 1..(Len(pkg.calls) + 1),
         diags \in Seq(Diagnosed), InOrder(diags), OtelResourceInv, OtelResourceStep
  PROVE  /\ OtelResourceInv' /\ InOrder(diags') /\ diags' \in Seq(Diagnosed)
         /\ pkg' = pkg /\ stage' \in {"decls", "calls"} /\ at' \in 1..(Len(pkg.calls) + 1)
<1> DEFINE end == Len(pkg.calls) + 1
           N == NamelessCalls(pkg)
           H == HolderCalls(pkg)
           Decls(n) == {pkg.calls[c].decl : c \in {d \in N : d < n}}
<1>1. /\ DOMAIN pkg.calls = 1..Len(pkg.calls) /\ Len(pkg.calls) \in Nat /\ at \in Nat
      /\ N \subseteq DOMAIN pkg.calls /\ H \subseteq DOMAIN pkg.calls
  BY CallsAre DEF NamelessCalls, HolderCalls
<1>2. CASE VisitBody(Constructs(pkg, wrappers, at), InBody(pkg, at))
  <2>1. stage = "decls" /\ at \in DOMAIN pkg.calls /\ at' = at + 1 /\ pkg' = pkg /\ stage' = stage
    BY <1>2 DEF VisitBody
  <2>2. Said(diags) = Marked(pkg, N, Unnamed, at) /\ DOMAIN wrappers = Decls(at)
    BY <2>1 DEF OtelResourceInv
  <2>3. wrappers' = IF pkg.calls[at].decl # 0 THEN Constructs(pkg, wrappers, at) ELSE wrappers
    BY <1>2, Zenon DEF VisitBody
  <2>4. PICK t : t = IF at \in N THEN <<Diagnostic(pkg, at, Unnamed)>> ELSE <<>>
    OBVIOUS
  <2>5. diags' = diags \o t
    <3>1. CASE pkg.calls[at].decl # 0
      <4>1. diags' = diags \o InBody(pkg, at)
        BY <1>2, <3>1 DEF VisitBody
      <4>2. InBody(pkg, at) = t
        BY <2>1, <2>4, <3>1, Zenon DEF InBody, NamelessCalls
      <4> QED
        BY <4>1, <4>2
    <3>2. CASE pkg.calls[at].decl = 0
      <4>1. t = <<>>
        BY <2>4, <3>2 DEF NamelessCalls
      <4>2. diags' = diags
        BY <1>2, <3>2 DEF VisitBody
      <4> QED
        BY <4>1, <4>2
    <3> QED
      BY <3>1, <3>2
  <2>6. t \in Seq(Diagnosed) /\ Said(t) = IF at \in N THEN {Diagnostic(pkg, at, Unnamed)} ELSE {}
    <3>1. Diagnostic(pkg, at, Unnamed) \in Diagnosed
      BY <2>1, DiagnosticIs, TextsAre
    <3> QED
      BY <2>4, <3>1, NothingSaid, OneSaid
  <2>7. \A x \in DOMAIN diags : diags[x].text = Unnamed =>
          \E d \in DOMAIN pkg.calls : d <= at /\ diags[x] = Diagnostic(pkg, d, Unnamed)
    <3> SUFFICES ASSUME NEW x \in DOMAIN diags
                 PROVE  \E d \in DOMAIN pkg.calls : d <= at /\ diags[x] = Diagnostic(pkg, d, Unnamed)
      OBVIOUS
    <3>1. diags[x] \in Marked(pkg, N, Unnamed, at)
      BY <2>2 DEF Said
    <3>2. PICK d \in N : d < at /\ diags[x] = Diagnostic(pkg, d, Unnamed)
      BY <1>1, <3>1, MarkedText, TextsAre
    <3> QED
      BY <1>1, <3>2
  <2>8. InOrder(diags \o t)
    <3>1. Unnamed \in Symbol /\ Said(t) \subseteq {Diagnostic(pkg, at, Unnamed)}
      BY <2>6, TextsAre
    <3> QED
      BY <2>1, <2>6, <2>7, <3>1, AddsInOrder
  <2>9. Said(diags') = Marked(pkg, N, Unnamed, at + 1) /\ diags' \in Seq(Diagnosed)
    <3>1. Marked(pkg, N, Unnamed, at + 1) =
            Marked(pkg, N, Unnamed, at) \cup (IF at \in N THEN {Diagnostic(pkg, at, Unnamed)} ELSE {})
      BY <1>1, CallsAre, MarkedNext
    <3> QED
      BY <2>2, <2>5, <2>6, <3>1, SaidBoth
  <2>10. PICK w : w = wrappers'
    OBVIOUS
  <2>11. DOMAIN w = Decls(at + 1)
    BY <2>1, <2>2, <2>3, <2>10, ConstructsKeeps
  <2>12. OtelResourceInv'
    BY <2>1, <2>9, <2>10, <2>11 DEF OtelResourceInv
  <2> QED
    BY <1>1, <2>1, <2>5, <2>8, <2>9, <2>12
<1>3. CASE TurnToCalls
  <2>1. /\ stage = "decls" /\ at = end /\ at' = 1 /\ stage' = "calls"
        /\ pkg' = pkg /\ wrappers' = wrappers /\ diags' = diags
    BY <1>1, <1>3 DEF TurnToCalls
  <2>2. Marked(pkg, H, UnnamedCall, 1) = {}
    BY <1>1, MarkedEnds
  <2>3. OtelResourceInv'
    BY <2>1, <2>2 DEF OtelResourceInv
  <2> QED
    BY <1>1, <2>1, <2>3
<1>4. CASE VisitCall(AtCall(pkg, wrappers, at))
  <2>1. /\ stage = "calls" /\ at \in DOMAIN pkg.calls /\ at' = at + 1
        /\ pkg' = pkg /\ stage' = stage /\ wrappers' = wrappers
    BY <1>4 DEF VisitCall
  <2>2. /\ DOMAIN wrappers = Decls(end)
        /\ Said(diags) = Marked(pkg, N, Unnamed, end) \cup Marked(pkg, H, UnnamedCall, at)
    BY <2>1 DEF OtelResourceInv
  <2>3. PICK t : t = IF at \in H THEN <<Diagnostic(pkg, at, UnnamedCall)>> ELSE <<>>
    OBVIOUS
  <2>4. pkg.calls[at].callee \in DOMAIN wrappers
          <=> \E d \in N : pkg.calls[d].decl = pkg.calls[at].callee
    <3>1. \A d \in N : d < end
      BY <1>1
    <3> QED
      BY <2>2, <3>1
  <2>5. diags' = diags \o t
    <3>1. CASE pkg.calls[at].outer = 0
      <4>1. diags' = diags \o AtCall(pkg, wrappers, at)
        BY <1>4, <3>1 DEF VisitCall
      <4>2. AtCall(pkg, wrappers, at) = t
        BY <2>1, <2>3, <2>4, <3>1, Zenon DEF AtCall, HolderCalls
      <4> QED
        BY <4>1, <4>2
    <3>2. CASE pkg.calls[at].outer # 0
      <4>1. t = <<>>
        BY <2>3, <3>2 DEF HolderCalls
      <4>2. diags' = diags
        BY <1>4, <3>2 DEF VisitCall
      <4> QED
        BY <4>1, <4>2
    <3> QED
      BY <3>1, <3>2
  <2>6. t \in Seq(Diagnosed) /\ Said(t) = IF at \in H THEN {Diagnostic(pkg, at, UnnamedCall)} ELSE {}
    <3>1. Diagnostic(pkg, at, UnnamedCall) \in Diagnosed
      BY <2>1, DiagnosticIs, TextsAre
    <3> QED
      BY <2>3, <3>1, NothingSaid, OneSaid
  <2>7. \A x \in DOMAIN diags : diags[x].text = UnnamedCall =>
          \E d \in DOMAIN pkg.calls : d <= at /\ diags[x] = Diagnostic(pkg, d, UnnamedCall)
    <3> SUFFICES ASSUME NEW x \in DOMAIN diags, diags[x].text = UnnamedCall
                 PROVE  \E d \in DOMAIN pkg.calls : d <= at /\ diags[x] = Diagnostic(pkg, d, UnnamedCall)
      OBVIOUS
    <3>1. diags[x] \in Marked(pkg, N, Unnamed, end) \cup Marked(pkg, H, UnnamedCall, at)
      BY <2>2 DEF Said
    <3>2. diags[x] \notin Marked(pkg, N, Unnamed, end)
      BY <1>1, MarkedText, TextsAre
    <3>3. PICK d \in H : d < at /\ diags[x] = Diagnostic(pkg, d, UnnamedCall)
      BY <1>1, <3>1, <3>2, MarkedText, TextsAre
    <3> QED
      BY <1>1, <3>3
  <2>8. InOrder(diags \o t)
    <3>1. UnnamedCall \in Symbol /\ Said(t) \subseteq {Diagnostic(pkg, at, UnnamedCall)}
      BY <2>6, TextsAre
    <3> QED
      BY <2>1, <2>6, <2>7, <3>1, AddsInOrder
  <2>9. /\ Said(diags') = Marked(pkg, N, Unnamed, end) \cup Marked(pkg, H, UnnamedCall, at + 1)
        /\ diags' \in Seq(Diagnosed)
    <3>1. Marked(pkg, H, UnnamedCall, at + 1) = Marked(pkg, H, UnnamedCall, at)
            \cup (IF at \in H THEN {Diagnostic(pkg, at, UnnamedCall)} ELSE {})
      BY <1>1, CallsAre, MarkedNext
    <3> QED
      BY <2>2, <2>5, <2>6, <3>1, SaidBoth
  <2>10. OtelResourceInv'
    BY <2>1, <2>2, <2>9 DEF OtelResourceInv
  <2> QED
    BY <1>1, <2>1, <2>5, <2>8, <2>9, <2>10
<1> QED
  BY <1>2, <1>3, <1>4 DEF OtelResourceStep

LEMMA OtelResourceEnds ==
  ASSUME IsPackage(pkg), at \in 1..(Len(pkg.calls) + 1), OtelResourceInv, PassEnded
  PROVE  Said(diags) = OtelResourceOwes(pkg)
<1>1. stage = "calls" /\ at = Len(pkg.calls) + 1
  BY CallsAre DEF PassEnded
<1>2. Said(diags) = {Diagnostic(pkg, c, Unnamed) : c \in NamelessCalls(pkg)}
                      \cup {Diagnostic(pkg, c, UnnamedCall) : c \in HolderCalls(pkg)}
  BY <1>1, MarkedEnds DEF OtelResourceInv, NamelessCalls, HolderCalls
<1> DEFINE Nameless == {c \in DOMAIN pkg.calls :
                          /\ pkg.calls[c].decl # 0
                          /\ IsResourceNew(pkg.calls[c])
                          /\ \A d \in DOMAIN pkg.calls :
                               d = c \/ c \in Around(pkg)[d] => ~pkg.calls[d].mentions}
<1>3. Nameless = NamelessCalls(pkg)
  BY Zenon DEF NamelessCalls, Anonymous, HasServiceName
<1>4. {d \in DOMAIN pkg.calls :
         /\ pkg.calls[d].outer = 0
         /\ pkg.calls[d].kind # "resource"
         /\ pkg.calls[d].callee \in DOMAIN pkg.funcs
         /\ \E c \in Nameless : pkg.calls[c].decl = pkg.calls[d].callee} = HolderCalls(pkg)
  <2>1. \A c \in NamelessCalls(pkg) : pkg.calls[c].decl \in DOMAIN pkg.funcs
    BY DEF NamelessCalls, IsPackage
  <2> HIDE DEF Nameless
  <2> QED
    BY <1>3, <2>1 DEF HolderCalls, IsResourceNew
<1> QED
  BY <1>2, <1>3, <1>4, Zenon DEF OtelResourceOwes

-----------------------------------------------------------------------------
(* Analyzers and what they owe.                                              *)

LEMMA MetaIs ==
  /\ \A a \in Known : /\ Meta(a).rule \in Rule
                      /\ Meta(a).conf \in Confidence /\ Meta(a).sev \in Severity
  /\ \A a \in House, b \in Known : Meta(a).rule = Meta(b).rule => a = b
  /\ House \subseteq Known
<1>1. /\ Meta("otelresource") =
           [rule |-> "otel/sdk-missing-resource-attrs", conf |-> "high", sev |-> "warning"]
      /\ Meta("msgtrace") =
           [rule |-> "msgtrace/kafka-produce-no-inject", conf |-> "medium", sev |-> "warning"]
      /\ Meta("spancheck") =
           [rule |-> "traces/error-path-not-recorded-on-span", conf |-> "medium", sev |-> "warning"]
      /\ Meta("contextcheck") =
           [rule |-> "httpctx/outbound-call-without-context", conf |-> "medium", sev |-> "warning"]
      /\ Meta("noctx") =
           [rule |-> "httpctx/outbound-call-without-context", conf |-> "high", sev |-> "warning"]
      /\ Meta("sloglint") =
           [rule |-> "logs/unstructured-logging", conf |-> "medium", sev |-> "info"]
      /\ Meta("errcheck") =
           [rule |-> "errors/swallowed-on-critical-path", conf |-> "medium", sev |-> "warning"]
  BY Zenon DEF Meta
<1>2. \A a \in Known : Meta(a).conf \in {"high", "medium"} /\ Meta(a).sev \in {"warning", "info"}
  BY <1>1 DEF Known
<1>3. \A a \in House, b \in Known : Meta(a).rule = Meta(b).rule => a = b
  BY <1>1 DEF Known, House
<1> QED
  BY <1>2, <1>3, GoTierAssumption DEF Known, House, Confidence, Severity

LEMMA FindingIs ==
  ASSUME NEW a \in Known, NEW d \in Diagnosed
  PROVE  /\ DiagnosticFinding(a, d) \in Scanned
         /\ Fp(DiagnosticFinding(a, d)) = <<Meta(a).rule, d.file, d.text>>
         /\ DiagnosticFinding(a, d).line = d.line
         /\ IsWrapperText(DiagnosticFinding(a, d).symbol) => DiagnosticFinding(a, d).conf = "medium"
<1> DEFINE f == DiagnosticFinding(a, d)
<1>1. /\ f = [rule |-> Meta(a).rule, file |-> d.file, line |-> d.line, symbol |-> d.text,
              sev |-> Meta(a).sev, conf |-> f.conf, status |-> "open"]
      /\ f.conf = IF IsWrapperText(d.text) THEN "medium" ELSE Meta(a).conf
  BY DEF DiagnosticFinding
<1>2. f.conf \in Confidence
  BY <1>1, MetaIs DEF Confidence
<1>3. f \in Scanned
  BY <1>1, <1>2, MetaIs DEF Scanned, Finding, Diagnosed, Status
<1>4. /\ f.rule = Meta(a).rule /\ f.file = d.file /\ f.line = d.line /\ f.symbol = d.text
  BY <1>1
<1>5. IsWrapperText(f.symbol) => f.conf = "medium"
  BY <1>1, <1>4
<1> QED
  BY <1>3, <1>4, <1>5 DEF Fp, Fingerprint

LEMMA OwedIs ==
  ASSUME NEW p, IsPackage(p), NEW a
  PROVE  /\ Owed(a, p) \subseteq Diagnosed
         /\ a \in House => \A d \in Owed(a, p) : \E c \in DOMAIN p.calls : d.file = p.calls[c].file
<1>1. CASE a = "msgtrace"
  <2>1. Owed(a, p) = MsgTraceOwes(p)
    BY <1>1, Zenon DEF Owed
  <2>2. \A d \in MsgTraceOwes(p) : \E c \in DOMAIN p.calls, text \in Symbol : d = Diagnostic(p, c, text)
    BY TextsAre DEF MsgTraceOwes
  <2> QED
    BY <2>1, <2>2, DiagnosticIs
<1>2. CASE a = "otelresource"
  <2>1. Owed(a, p) = OtelResourceOwes(p)
    BY <1>2, Zenon DEF Owed
  <2>2. \A d \in OtelResourceOwes(p) : \E c \in DOMAIN p.calls, text \in Symbol : d = Diagnostic(p, c, text)
    BY TextsAre DEF OtelResourceOwes
  <2> QED
    BY <2>1, <2>2, DiagnosticIs
<1>3. CASE a \notin House
  <2>1. Owed(a, p) = IF a \in DOMAIN p.lint THEN {p.lint[a][i] : i \in DOMAIN p.lint[a]} ELSE {}
    BY <1>3, Zenon DEF Owed, House
  <2>2. a \in DOMAIN p.lint => p.lint[a] \in Seq(Diagnosed)
    BY DEF IsPackage
  <2> QED
    BY <1>3, <2>1, <2>2
<1> QED
  BY <1>1, <1>2, <1>3 DEF House

-----------------------------------------------------------------------------
(* The steps.                                                                *)

LEMMA PassIs ==
  ASSUME Pass
  PROVE  /\ pc = "pass" /\ UNCHANGED tierVars
         /\ \/ Analyzer = "msgtrace" /\ MsgTraceStep
            \/ Analyzer = "otelresource" /\ OtelResourceStep
            \/ Analyzer \notin House /\ LintStep
BY Zenon DEF Pass, House

LEMMA FixedStep ==
  ASSUME [Next]_vars
  PROVE  program' = program /\ team' = team /\ Packages' = Packages
<1>1. program' = program /\ team' = team
  <2>1. CASE Pass
    BY <2>1, PassIs DEF tierVars
  <2> QED
    BY <2>1 DEF Next, vars, tierVars, Load, Open, Close, PassFails, Panic, Collect, Merge, Advance,
               Finish, Returned
<1> QED
  BY <1>1 DEF Packages, Initial

LEMMA PassKeeps ==
  ASSUME TypeOK, TurnInv, PassInv, Pass
  PROVE  /\ PassInv'
         /\ diags' \in Seq(Diagnosed) /\ stage' \in {"decls", "calls"}
         /\ pkg' = pkg /\ at' \in 1..(Len(pkg.calls) + 1) /\ DOMAIN wrappers' \subseteq DOMAIN pkg.funcs
<1>1. pc = "pass" /\ UNCHANGED tierVars
  BY PassIs
<1>2. /\ which \in DOMAIN team /\ nth \in DOMAIN Packages /\ nth \in DOMAIN program
      /\ pkg = program[nth] /\ ~pkg.illTyped
      /\ Analyzer = "msgtrace" => MsgTraceInv
      /\ Analyzer = "otelresource" => OtelResourceInv
      /\ Analyzer \in House => InOrder(diags)
      /\ Analyzer \notin House => LintInv
  BY <1>1, ProgramIs, Zenon DEF PassInv
<1>3. IsPackage(pkg)
  BY <1>2, ProgramIs
<1>4. /\ diags \in Seq(Diagnosed) /\ stage \in {"decls", "calls"} /\ at \in 1..(Len(pkg.calls) + 1)
      /\ DOMAIN wrappers \subseteq DOMAIN pkg.funcs
  BY DEF TypeOK
<1>5. /\ which' = which /\ nth' = nth /\ program' = program /\ team' = team /\ pc' = pc
      /\ Analyzer' = Analyzer /\ Packages' = Packages
  BY <1>1 DEF tierVars, Analyzer, Packages, Initial
<1>6. CASE Analyzer = "msgtrace" /\ MsgTraceStep
  <2>1. /\ MsgTraceInv' /\ InOrder(diags') /\ diags' \in Seq(Diagnosed)
        /\ pkg' = pkg /\ stage' \in {"decls", "calls"} /\ at' \in 1..(Len(pkg.calls) + 1)
    <3>1. MsgTraceInv /\ InOrder(diags)
      BY <1>2, <1>6 DEF House
    <3> QED
      BY <1>3, <1>4, <1>6, <3>1, MsgTraceKeeps
  <2>2. DOMAIN wrappers' \subseteq DOMAIN pkg.funcs
    BY <2>1 DEF MsgTraceInv, Learnt
  <2>3. PassInv'
    BY <1>1, <1>2, <1>5, <1>6, <2>1, Zenon DEF PassInv, House
  <2> QED
    BY <2>1, <2>2, <2>3
<1>7. CASE Analyzer = "otelresource" /\ OtelResourceStep
  <2>1. /\ OtelResourceInv' /\ InOrder(diags') /\ diags' \in Seq(Diagnosed)
        /\ pkg' = pkg /\ stage' \in {"decls", "calls"} /\ at' \in 1..(Len(pkg.calls) + 1)
    <3>1. OtelResourceInv /\ InOrder(diags)
      BY <1>2, <1>7 DEF House
    <3> QED
      BY <1>3, <1>4, <1>7, <3>1, OtelResourceKeeps
  <2>2. DOMAIN wrappers' \subseteq DOMAIN pkg.funcs
    <3>1. \A c \in NamelessCalls(pkg) : pkg.calls[c].decl \in DOMAIN pkg.funcs
      BY <1>3 DEF NamelessCalls, IsPackage
    <3> QED
      BY <2>1, <3>1 DEF OtelResourceInv
  <2>3. PassInv'
    BY <1>1, <1>2, <1>5, <1>7, <2>1, Zenon DEF PassInv, House
  <2> QED
    BY <2>1, <2>2, <2>3
<1>8. CASE Analyzer \notin House /\ LintStep
  <2>1. /\ pkg' = pkg /\ wrappers' = wrappers /\ stage' = "calls" /\ at' = Len(pkg.calls) + 1
        /\ diags' = IF Analyzer \in DOMAIN pkg.lint THEN pkg.lint[Analyzer] ELSE <<>>
    BY <1>8 DEF LintStep
  <2>2. Analyzer \in DOMAIN pkg.lint => pkg.lint[Analyzer] \in Seq(Diagnosed)
    BY <1>3 DEF IsPackage
  <2>3. diags' \in Seq(Diagnosed)
    BY <2>1, <2>2
  <2>4. Said(diags') = Owed(Analyzer, pkg)
    <3>1. Owed(Analyzer, pkg) = IF Analyzer \in DOMAIN pkg.lint
                                THEN {pkg.lint[Analyzer][i] : i \in DOMAIN pkg.lint[Analyzer]} ELSE {}
      BY <1>8, Zenon DEF Owed, House
    <3> QED
      BY <2>1, <3>1, NothingSaid DEF Said
  <2>5. LintInv'
    BY <1>5, <2>1, <2>4 DEF LintInv
  <2>6. PassInv'
    BY <1>1, <1>2, <1>5, <1>8, <2>1, <2>5, Zenon DEF PassInv, House
  <2>7. at' \in 1..(Len(pkg.calls) + 1)
    BY <1>3, <2>1, CallsAre
  <2> QED
    BY <1>4, <2>1, <2>3, <2>6, <2>7
<1> QED
  BY <1>6, <1>7, <1>8, PassIs

\* What the steps outside of a pass leave alone.
LEMMA RestStays ==
  ASSUME TypeOK, TurnInv, PassInv, UNCHANGED <<program, team, passVars>>, pc' # "pass"
  PROVE  /\ PassInv' /\ diags' \in Seq(Diagnosed) /\ stage' \in {"decls", "calls"}
         /\ at' \in 1..(Len(pkg'.calls) + 1) /\ DOMAIN wrappers' \subseteq DOMAIN pkg'.funcs
<1>1. diags' = diags /\ stage' = stage /\ at' = at /\ pkg' = pkg /\ wrappers' = wrappers
  BY DEF passVars
<1> QED
  BY <1>1 DEF PassInv, TypeOK

\* An analyzer that merges has a rule.
LEMMA MergesKnown ==
  ASSUME ActsInv, pc = "merge", nth \in DOMAIN acts
  PROVE  Analyzer \in Known
<1>1. acts[nth] \in Said(acts)
  BY DEF Said
<1> QED
  BY <1>1 DEF ActsInv

LEMMA TypeStep ==
  ASSUME TypeOK, TurnInv, PassInv, ActsInv, [Next]_vars
  PROVE  TypeOK' /\ PassInv'
<1> DEFINE Others == {team[i] : i \in DOMAIN team}
<1>1. /\ team \in Seq(STRING) /\ which \in 1..(Len(team) + 1)
      /\ nth \in 1..(IF pc = "merge" THEN Len(acts) + 1 ELSE Len(program) + 1)
      /\ acts \in Seq(Diagnosed) /\ diags \in Seq(Diagnosed)
      /\ out \in Seq(Scanned)
      /\ lost \subseteq Others
      /\ spoiled \subseteq Others \X DOMAIN Packages
      /\ result \in {"none", "ok", "failed"}
      /\ pc \in {"load", "scan", "pass", "merge", "done"}
      /\ Len(team) \in Nat /\ Len(acts) \in Nat
  BY DEF TypeOK
<1>2. DOMAIN program = 1..Len(program) /\ Len(program) \in Nat
  BY ProgramIs
<1>3. program' = program /\ team' = team /\ Packages' = Packages
  BY FixedStep
<1>4. pc = "pass" => which \in DOMAIN team /\ nth \in DOMAIN program /\ nth \in DOMAIN Packages
                     /\ Analyzer \in Others
  BY ProgramIs DEF PassInv, Analyzer
<1>5. CASE Load
  <2>1. /\ UNCHANGED <<which, nth, acts, out, lost, spoiled, passVars>> /\ pc = "load"
        /\ pc' \in {"scan", "done"} /\ result' \in {"none", "ok", "failed"}
    BY <1>1, <1>5 DEF Load, Return
  <2>2. /\ PassInv' /\ diags' \in Seq(Diagnosed) /\ stage' \in {"decls", "calls"}
        /\ at' \in 1..(Len(pkg'.calls) + 1) /\ DOMAIN wrappers' \subseteq DOMAIN pkg'.funcs
    BY <1>3, <2>1, RestStays
  <2> QED
    BY <1>1, <1>2, <1>3, <2>1, <2>2 DEF TypeOK
<1>6. CASE Open
  <2>1. /\ UNCHANGED <<which, acts, out, lost, spoiled, result>> /\ pc = "scan"
        /\ nth \in DOMAIN program /\ which \in DOMAIN team
    BY <1>6 DEF Open
  <2>2. CASE nth \in DOMAIN Packages /\ ~program[nth].illTyped
    <3>1. Begin(program[nth]) /\ pc' = "pass" /\ nth' = nth
      BY <1>6, <2>2 DEF Open
    <3>2. /\ pkg' = program[nth] /\ stage' = "decls" /\ at' = 1
          /\ wrappers' = [f \in {} |-> 0] /\ diags' = <<>>
      BY <3>1 DEF Begin
    <3>3. PICK p : p = program[nth]
      OBVIOUS
    <3>4. IsPackage(p)
      BY <2>1, <3>3, ProgramIs
    <3>5. /\ diags' \in Seq(Diagnosed) /\ stage' \in {"decls", "calls"}
          /\ at' \in 1..(Len(pkg'.calls) + 1) /\ DOMAIN wrappers' = {}
      BY <3>2, <3>3, <3>4, CallsAre, NothingSaid
    <3>6. MsgTraceInv'
      <4>1. Learnt(p, 1) = {}
        BY <3>4, CallsAre DEF Learnt
      <4> QED
        BY <3>2, <3>3, <3>5, <4>1 DEF MsgTraceInv
    <3>7. OtelResourceInv'
      <4>1. {d \in NamelessCalls(p) : d < 1} = {}
        BY <3>4, CallsAre DEF NamelessCalls
      <4>2. Marked(p, NamelessCalls(p), Unnamed, 1) = {}
        BY <3>4, MarkedEnds DEF NamelessCalls
      <4> QED
        BY <3>2, <3>3, <3>5, <4>1, <4>2, NothingSaid DEF OtelResourceInv
    <3>8. LintInv' /\ InOrder(diags')
      BY <3>2, NothingSaid DEF LintInv
    <3>9. PassInv'
      BY <1>3, <2>1, <2>2, <3>1, <3>2, <3>6, <3>7, <3>8 DEF PassInv
    <3> QED
      BY <1>1, <1>2, <1>3, <2>1, <3>1, <3>5, <3>9 DEF TypeOK
  <2>3. CASE ~(nth \in DOMAIN Packages /\ ~program[nth].illTyped)
    <3>1. nth' = nth + 1 /\ pc' = pc /\ UNCHANGED passVars
      BY <1>6, <2>3 DEF Open
    <3>2. /\ PassInv' /\ diags' \in Seq(Diagnosed) /\ stage' \in {"decls", "calls"}
          /\ at' \in 1..(Len(pkg'.calls) + 1) /\ DOMAIN wrappers' \subseteq DOMAIN pkg'.funcs
      BY <1>3, <2>1, <3>1, RestStays
    <3> QED
      BY <1>1, <1>2, <1>3, <2>1, <3>1, <3>2 DEF TypeOK
  <2> QED
    BY <2>2, <2>3
<1>7. CASE Pass
  <2>1. UNCHANGED tierVars /\ pc = "pass"
    BY <1>7, PassIs
  <2>2. /\ PassInv'
        /\ diags' \in Seq(Diagnosed) /\ stage' \in {"decls", "calls"}
        /\ pkg' = pkg /\ at' \in 1..(Len(pkg.calls) + 1) /\ DOMAIN wrappers' \subseteq DOMAIN pkg.funcs
    BY <1>7, PassKeeps
  <2> QED
    BY <1>1, <1>2, <1>3, <2>1, <2>2 DEF TypeOK, tierVars
<1>8. CASE Close
  <2>1. /\ UNCHANGED <<which, out, lost, spoiled, result, passVars>> /\ pc = "pass"
        /\ acts' = acts \o diags /\ nth' = nth + 1 /\ pc' = "scan"
    BY <1>8 DEF Close
  <2>2. acts' \in Seq(Diagnosed)
    BY <1>1, <2>1, SaidBoth
  <2>3. /\ PassInv' /\ diags' \in Seq(Diagnosed) /\ stage' \in {"decls", "calls"}
        /\ at' \in 1..(Len(pkg'.calls) + 1) /\ DOMAIN wrappers' \subseteq DOMAIN pkg'.funcs
    BY <1>3, <2>1, RestStays
  <2> QED
    BY <1>1, <1>2, <1>3, <1>4, <2>1, <2>2, <2>3 DEF TypeOK
<1>9. CASE PassFails
  <2>1. /\ UNCHANGED <<which, acts, out, lost, result, passVars>> /\ pc = "pass"
        /\ spoiled' = spoiled \cup {<<Analyzer, nth>>} /\ nth' = nth + 1 /\ pc' = "scan"
    BY <1>9 DEF PassFails
  <2>2. /\ PassInv' /\ diags' \in Seq(Diagnosed) /\ stage' \in {"decls", "calls"}
        /\ at' \in 1..(Len(pkg'.calls) + 1) /\ DOMAIN wrappers' \subseteq DOMAIN pkg'.funcs
    BY <1>3, <2>1, RestStays
  <2>3. spoiled' \subseteq Others \X DOMAIN Packages
    BY <1>1, <1>4, <2>1
  <2> QED
    BY <1>1, <1>2, <1>3, <1>4, <2>1, <2>2, <2>3 DEF TypeOK
<1>10. CASE Panic
  <2>1. /\ UNCHANGED <<out, spoiled, result, passVars>> /\ pc = "pass"
        /\ lost' = lost \cup {Analyzer} /\ which' = which + 1
        /\ nth' = 1 /\ acts' = <<>> /\ pc' = "scan"
    BY <1>10 DEF Panic
  <2>2. /\ PassInv' /\ diags' \in Seq(Diagnosed) /\ stage' \in {"decls", "calls"}
        /\ at' \in 1..(Len(pkg'.calls) + 1) /\ DOMAIN wrappers' \subseteq DOMAIN pkg'.funcs
    BY <1>3, <2>1, RestStays
  <2> QED
    BY <1>1, <1>2, <1>3, <1>4, <2>1, <2>2, NothingSaid DEF TypeOK
<1>11. CASE Collect
  <2>1. /\ UNCHANGED <<which, out, lost, spoiled, result, passVars>>
        /\ pc' = "merge" /\ nth' = 1 /\ acts' \in {acts, <<>>}
    BY <1>11 DEF Collect
  <2>2. /\ PassInv' /\ diags' \in Seq(Diagnosed) /\ stage' \in {"decls", "calls"}
        /\ at' \in 1..(Len(pkg'.calls) + 1) /\ DOMAIN wrappers' \subseteq DOMAIN pkg'.funcs
    BY <1>3, <2>1, RestStays
  <2>3. acts' \in Seq(Diagnosed) /\ Len(acts') \in Nat
    BY <1>1, <2>1, NothingSaid
  <2> QED
    BY <1>1, <1>2, <1>3, <2>1, <2>2, <2>3 DEF TypeOK
<1>12. CASE Merge
  <2>1. /\ UNCHANGED <<pc, which, acts, lost, spoiled, result, passVars>>
        /\ pc = "merge" /\ nth \in DOMAIN acts /\ nth' = nth + 1
        /\ out' = Merged(out, DiagnosticFinding(Analyzer, acts[nth]))
    BY <1>12 DEF Merge
  <2>2. /\ PassInv' /\ diags' \in Seq(Diagnosed) /\ stage' \in {"decls", "calls"}
        /\ at' \in 1..(Len(pkg'.calls) + 1) /\ DOMAIN wrappers' \subseteq DOMAIN pkg'.funcs
    BY <1>3, <2>1, RestStays
  <2>3. DiagnosticFinding(Analyzer, acts[nth]) \in Scanned
    <3>1. Analyzer \in Known /\ acts[nth] \in Diagnosed
      BY <1>1, <2>1, MergesKnown
    <3> QED
      BY <3>1, FindingIs
  <2>4. out' \in Seq(Scanned)
    BY <1>1, <2>1, <2>3 DEF Merged
  <2> QED
    BY <1>1, <1>2, <1>3, <2>1, <2>2, <2>4 DEF TypeOK
<1>13. CASE Advance
  <2>1. /\ UNCHANGED <<out, lost, spoiled, result, passVars>>
        /\ pc = "merge" /\ which' = which + 1 /\ nth' = 1 /\ acts' = <<>> /\ pc' = "scan"
    BY <1>13 DEF Advance
  <2>2. /\ PassInv' /\ diags' \in Seq(Diagnosed) /\ stage' \in {"decls", "calls"}
        /\ at' \in 1..(Len(pkg'.calls) + 1) /\ DOMAIN wrappers' \subseteq DOMAIN pkg'.funcs
    BY <1>3, <2>1, RestStays
  <2>3. which \in DOMAIN team
    BY <2>1 DEF TurnInv
  <2> QED
    BY <1>1, <1>2, <1>3, <2>1, <2>2, <2>3, NothingSaid DEF TypeOK
<1>14. CASE Finish
  <2>1. /\ UNCHANGED <<which, nth, acts, out, lost, spoiled, passVars>> /\ pc = "scan"
        /\ pc' = "done" /\ result' = "ok"
    BY <1>14 DEF Finish, Return
  <2>2. /\ PassInv' /\ diags' \in Seq(Diagnosed) /\ stage' \in {"decls", "calls"}
        /\ at' \in 1..(Len(pkg'.calls) + 1) /\ DOMAIN wrappers' \subseteq DOMAIN pkg'.funcs
    BY <1>3, <2>1, RestStays
  <2> QED
    BY <1>1, <1>2, <1>3, <2>1, <2>2 DEF TypeOK
<1>15. CASE UNCHANGED vars
  BY <1>15 DEF vars, tierVars, passVars, TypeOK, PassInv, Packages, Initial, Analyzer,
             MsgTraceInv, OtelResourceInv, LintInv
<1> QED
  BY <1>5, <1>6, <1>7, <1>8, <1>9, <1>10, <1>11, <1>12, <1>13, <1>14, <1>15 DEF Next, Returned

LEMMA TurnStep ==
  ASSUME TypeOK, TurnInv, PassInv, [Next]_vars
  PROVE  TurnInv'
<1>1. /\ which \in Nat /\ nth \in Nat /\ DOMAIN program = 1..Len(program)
      /\ spoiled \subseteq {team[i] : i \in DOMAIN team} \X DOMAIN Packages
  BY ProgramIs DEF TypeOK
<1>2. program' = program /\ team' = team
  BY FixedStep
<1>3. /\ program \in Programs /\ team \in Analyzers[program]
      /\ pc = "load" => which = 1 /\ nth = 1 /\ acts = <<>> /\ out = <<>> /\ spoiled = {}
      /\ pc = "merge" => which \in DOMAIN team
      /\ \A a \in lost : \E j \in DOMAIN team : j < which /\ a = team[j]
      /\ \A e \in spoiled : \E j \in DOMAIN team :
           /\ e[1] = team[j]
           /\ \/ j < which
              \/ j = which /\ pc \in {"scan", "pass"} /\ e[2] < nth
              \/ j = which /\ pc = "merge"
  BY DEF TurnInv
<1>4. \A e \in spoiled : e[2] \in Nat
  BY <1>1, ProgramIs
<1>5. CASE Load
  BY <1>2, <1>3, <1>5 DEF TurnInv, Load, Return
<1>6. CASE Open
  <2>1. /\ UNCHANGED <<which, lost, spoiled>> /\ pc = "scan" /\ pc' \in {"scan", "pass"}
        /\ nth' \in {nth, nth + 1}
    BY <1>6 DEF Open
  <2>2. \A e \in spoiled : e[2] < nth => e[2] < nth'
    BY <1>1, <1>4, <2>1
  <2> QED
    BY <1>2, <1>3, <2>1, <2>2 DEF TurnInv
<1>7. CASE Pass
  <2>1. UNCHANGED tierVars
    BY <1>7, PassIs
  <2> QED
    BY <1>3, <2>1 DEF TurnInv, tierVars
<1>8. CASE Close
  <2>1. /\ UNCHANGED <<which, lost, spoiled>> /\ pc = "pass" /\ pc' = "scan" /\ nth' = nth + 1
    BY <1>8 DEF Close
  <2>2. \A e \in spoiled : e[2] < nth => e[2] < nth'
    BY <1>1, <1>4, <2>1
  <2> QED
    BY <1>2, <1>3, <2>1, <2>2 DEF TurnInv
<1>9. CASE PassFails
  <2>1. /\ UNCHANGED <<which, lost>> /\ pc = "pass" /\ pc' = "scan" /\ nth' = nth + 1
        /\ spoiled' = spoiled \cup {<<Analyzer, nth>>}
    BY <1>9 DEF PassFails
  <2>2. \A e \in spoiled : e[2] < nth => e[2] < nth'
    BY <1>1, <1>4, <2>1
  <2>3. which \in DOMAIN team /\ Analyzer = team[which] /\ nth < nth'
    BY <1>1, <2>1 DEF PassInv, Analyzer
  <2>4. <<Analyzer, nth>>[1] = Analyzer /\ <<Analyzer, nth>>[2] = nth
    OBVIOUS
  <2> QED
    BY <1>2, <1>3, <2>1, <2>2, <2>3, <2>4 DEF TurnInv
<1>10. CASE Panic
  <2>1. /\ UNCHANGED spoiled /\ pc = "pass" /\ pc' = "scan" /\ which' = which + 1
        /\ lost' = lost \cup {Analyzer}
    BY <1>10 DEF Panic
  <2>2. which \in DOMAIN team /\ Analyzer = team[which]
    BY <2>1 DEF PassInv, Analyzer
  <2>3. \A j \in DOMAIN team : j < which' <=> j < which \/ j = which
    BY <1>1, <2>1, ProgramIs
  <2> QED
    BY <1>2, <1>3, <2>1, <2>2, <2>3 DEF TurnInv
<1>11. CASE Collect
  BY <1>2, <1>3, <1>11 DEF TurnInv, Collect
<1>12. CASE Merge
  BY <1>2, <1>3, <1>12 DEF TurnInv, Merge
<1>13. CASE Advance
  <2>1. /\ UNCHANGED <<spoiled, lost>> /\ pc = "merge" /\ pc' = "scan" /\ which' = which + 1
    BY <1>13 DEF Advance
  <2>2. \A j \in DOMAIN team : j < which' <=> j < which \/ j = which
    BY <1>1, <2>1, ProgramIs
  <2> QED
    BY <1>2, <1>3, <2>1, <2>2 DEF TurnInv
<1>14. CASE Finish
  <2>1. /\ UNCHANGED <<spoiled, lost, which>> /\ pc = "scan" /\ pc' = "done" /\ which \notin DOMAIN team
    BY <1>14 DEF Finish, Return
  <2> QED
    BY <1>2, <1>3, <2>1 DEF TurnInv
<1>15. CASE UNCHANGED vars
  BY <1>3, <1>15 DEF TurnInv, vars, tierVars
<1> QED
  BY <1>5, <1>6, <1>7, <1>8, <1>9, <1>10, <1>11, <1>12, <1>13, <1>14, <1>15 DEF Next, Returned

LEMMA BroughtNone ==
  ASSUME NEW ps, DOMAIN ps \subseteq Nat \ {0}, NEW bad, NEW a
  PROVE  Brought(ps, bad, a, 1) = {}
<1>1. \A k \in DOMAIN ps : ~(k < 1)
  OBVIOUS
<1> QED
  BY <1>1 DEF Brought

LEMMA UnionAdds ==
  ASSUME NEW A, NEW x
  PROVE  UNION (A \cup {x}) = (UNION A) \cup x
OBVIOUS

LEMMA BroughtNext ==
  ASSUME NEW ps, DOMAIN ps \subseteq Nat, NEW bad, NEW a, NEW n \in Nat
  PROVE  Brought(ps, bad, a, n + 1) = Brought(ps, bad, a, n) \cup
           (IF n \in DOMAIN ps /\ <<a, n>> \notin bad /\ ~ps[n].illTyped THEN Owed(a, ps[n]) ELSE {})
<1>1. \A k \in DOMAIN ps : k < n + 1 <=> k < n \/ k = n
  OBVIOUS
<1> DEFINE K(m) == {k \in DOMAIN ps : k < m /\ <<a, k>> \notin bad /\ ~ps[k].illTyped}
           O(i) == Owed(a, ps[i])
           new == n \in DOMAIN ps /\ <<a, n>> \notin bad /\ ~ps[n].illTyped
<1>2. K(n + 1) = K(n) \cup (IF new THEN {n} ELSE {})
  BY <1>1
<1>3. Brought(ps, bad, a, n + 1) = UNION {O(i) : i \in K(n + 1)}
      /\ Brought(ps, bad, a, n) = UNION {O(i) : i \in K(n)}
  BY DEF Brought
<1> HIDE DEF K, O, new
<1>4. UNION {O(i) : i \in K(n) \cup (IF new THEN {n} ELSE {})}
        = (UNION {O(i) : i \in K(n)}) \cup (IF new THEN O(n) ELSE {})
  <2>1. CASE new
    <3>1. {O(i) : i \in K(n) \cup {n}} = {O(i) : i \in K(n)} \cup {O(n)}
      OBVIOUS
    <3>2. PICK A : A = {O(i) : i \in K(n)}
      OBVIOUS
    <3>3. PICK x : x = O(n)
      OBVIOUS
    <3>4. UNION (A \cup {x}) = (UNION A) \cup x
      BY UnionAdds
    <3> QED
      BY <2>1, <3>1, <3>2, <3>3, <3>4, Zenon
  <2>2. CASE ~new
    <3>1. K(n) \cup {} = K(n)
      OBVIOUS
    <3> QED
      BY <2>2, <3>1
  <2> QED
    BY <2>1, <2>2
<1> QED
  BY <1>2, <1>3, <1>4, Zenon DEF O, new

\* A pass that has ended has said what its analyzer owes.
LEMMA PassEnds ==
  ASSUME TypeOK, TurnInv, PassInv, pc = "pass", PassEnded
  PROVE  Said(diags) = Owed(Analyzer, Packages[nth])
<1>1. /\ nth \in DOMAIN Packages /\ pkg = Packages[nth] /\ IsPackage(pkg)
      /\ at \in 1..(Len(pkg.calls) + 1)
  BY ProgramIs DEF PassInv, TypeOK
<1>2. CASE Analyzer = "msgtrace"
  <2>1. MsgTraceInv
    BY <1>2 DEF PassInv
  <2>2. Owed(Analyzer, pkg) = MsgTraceOwes(pkg)
    BY <1>2, Zenon DEF Owed
  <2> QED
    BY <1>1, <2>1, <2>2, MsgTraceEnds
<1>3. CASE Analyzer = "otelresource"
  <2>1. OtelResourceInv
    BY <1>3 DEF PassInv
  <2>2. Owed(Analyzer, pkg) = OtelResourceOwes(pkg)
    BY <1>3, Zenon DEF Owed
  <2> QED
    BY <1>1, <2>1, <2>2, OtelResourceEnds
<1>4. CASE Analyzer \notin House
  <2>1. LintInv /\ stage = "calls"
    BY <1>4 DEF PassInv, PassEnded
  <2> QED
    BY <1>1, <2>1 DEF LintInv
<1> QED
  BY <1>2, <1>3, <1>4 DEF House

\* The pass of the moment has not failed before.
LEMMA Unspoiled ==
  ASSUME TypeOK, TurnInv, pc \in {"scan", "pass"}, which \in DOMAIN team, NEW k \in Nat, k >= nth
  PROVE  <<Analyzer, k>> \notin spoiled
<1> SUFFICES ASSUME <<Analyzer, k>> \in spoiled  PROVE FALSE
  OBVIOUS
<1>1. PICK j \in DOMAIN team :
        /\ <<Analyzer, k>>[1] = team[j]
        /\ \/ j < which
           \/ j = which /\ pc \in {"scan", "pass"} /\ <<Analyzer, k>>[2] < nth
           \/ j = which /\ pc = "merge"
  BY DEF TurnInv
<1>2. j = which
  BY <1>1, ProgramIs DEF Analyzer
<1> QED
  BY <1>1, <1>2 DEF TypeOK

LEMMA ActsStep ==
  ASSUME TypeOK, TurnInv, PassInv, ActsInv, [Next]_vars
  PROVE  ActsInv'
<1>1. /\ which \in Nat /\ nth \in Nat /\ acts \in Seq(Diagnosed) /\ diags \in Seq(Diagnosed)
      /\ DOMAIN program = 1..Len(program) /\ Len(program) \in Nat
      /\ DOMAIN Packages \subseteq Nat \ {0}
  BY ProgramIs DEF TypeOK
<1>2. program' = program /\ team' = team /\ Packages' = Packages
  BY FixedStep
<1>3. \A bad, a : Brought(Packages, bad, a, 1) = {}
  BY <1>1, BroughtNone
<1>4. ASSUME pc' = "scan", nth' = 1, acts' = <<>>
      PROVE  ActsInv'
  BY <1>2, <1>3, <1>4, NothingSaid DEF ActsInv
<1>5. CASE Load
  <2>1. pc' \in {"scan", "done"} /\ nth' = 1 /\ acts' = <<>>
    BY <1>5 DEF Load, Return, TurnInv
  <2>2. CASE pc' = "done"
    BY <2>2 DEF ActsInv
  <2> QED
    BY <1>4, <2>1, <2>2
<1>6. CASE Open
  <2>1. /\ UNCHANGED <<which, acts, spoiled>> /\ pc = "scan" /\ nth \in DOMAIN program
        /\ Analyzer' = Analyzer /\ which \in DOMAIN team
    BY <1>2, <1>6 DEF Open, Analyzer
  <2>2. CASE nth \in DOMAIN Packages /\ ~program[nth].illTyped
    <3>1. pc' = "pass" /\ nth' = nth
      BY <1>6, <2>2 DEF Open
    <3> QED
      BY <1>2, <2>1, <3>1 DEF ActsInv
  <2>3. CASE ~(nth \in DOMAIN Packages /\ ~program[nth].illTyped)
    <3>1. pc' = pc /\ nth' = nth + 1
      BY <1>6, <2>3 DEF Open
    <3>2. Brought(Packages, spoiled, Analyzer, nth + 1) = Brought(Packages, spoiled, Analyzer, nth)
      <4>1. ~(nth \in DOMAIN Packages /\ <<Analyzer, nth>> \notin spoiled /\ ~Packages[nth].illTyped)
        BY <2>3, ProgramIs
      <4>2. DOMAIN Packages \subseteq Nat
        BY <1>1
      <4> QED
        <5>1. Brought(Packages, spoiled, Analyzer, nth + 1) =
                Brought(Packages, spoiled, Analyzer, nth) \cup
                (IF nth \in DOMAIN Packages /\ <<Analyzer, nth>> \notin spoiled /\ ~Packages[nth].illTyped
                 THEN Owed(Analyzer, Packages[nth]) ELSE {})
          BY <1>1, <4>2, BroughtNext
        <5>2. (IF nth \in DOMAIN Packages /\ <<Analyzer, nth>> \notin spoiled /\ ~Packages[nth].illTyped
               THEN Owed(Analyzer, Packages[nth]) ELSE {}) = {}
          BY <4>1, Zenon
        <5> QED
          BY <5>1, <5>2, Zenon
    <3> QED
      BY <1>2, <2>1, <3>1, <3>2 DEF ActsInv
  <2> QED
    BY <2>2, <2>3
<1>7. CASE Pass
  <2>1. UNCHANGED tierVars
    BY <1>7, PassIs
  <2> QED
    BY <1>2, <2>1 DEF ActsInv, Analyzer, tierVars
<1>8. CASE Close
  <2>1. /\ UNCHANGED <<which, spoiled>> /\ pc = "pass" /\ pc' = "scan" /\ nth' = nth + 1
        /\ acts' = acts \o diags /\ Analyzer' = Analyzer /\ PassEnded
    BY <1>2, <1>8 DEF Close, Analyzer
  <2>2. /\ which \in DOMAIN team /\ nth \in DOMAIN Packages /\ ~Packages[nth].illTyped
        /\ Analyzer \in House => InOrder(diags)
    BY <2>1, ProgramIs DEF PassInv
  <2>3. Said(diags) = Owed(Analyzer, Packages[nth])
    BY <2>1, PassEnds
  <2>4. <<Analyzer, nth>> \notin spoiled
    BY <1>1, <2>1, <2>2, Unspoiled
  <2>5. Said(acts) = Brought(Packages, spoiled, Analyzer, nth)
    BY <2>1, <2>2 DEF ActsInv
  <2>6. Said(acts') = Brought(Packages, spoiled, Analyzer, nth + 1)
    <3>1. Brought(Packages, spoiled, Analyzer, nth + 1) =
            Brought(Packages, spoiled, Analyzer, nth) \cup Owed(Analyzer, Packages[nth])
      BY <1>1, <2>2, <2>4, BroughtNext
    <3> QED
      BY <1>1, <2>1, <2>3, <2>5, <3>1, SaidBoth
  <2>7. Analyzer \in House => InOrder(acts \o diags)
    <3> SUFFICES ASSUME Analyzer \in House  PROVE InOrder(acts \o diags)
      OBVIOUS
    <3>1. InOrder(acts)
      BY <2>1, <2>2 DEF ActsInv
    <3>2. \A x \in DOMAIN acts, y \in DOMAIN diags : acts[x].file # diags[y].file
      <4> SUFFICES ASSUME NEW x \in DOMAIN acts, NEW y \in DOMAIN diags
                   PROVE  acts[x].file # diags[y].file
        OBVIOUS
      <4>1. acts[x] \in Brought(Packages, spoiled, Analyzer, nth)
        BY <2>5 DEF Said
      <4>2. PICK i \in DOMAIN Packages : i < nth /\ acts[x] \in Owed(Analyzer, Packages[i])
        BY <4>1 DEF Brought
      <4>3. diags[y] \in Owed(Analyzer, Packages[nth])
        BY <2>3 DEF Said
      <4>4. /\ i \in DOMAIN program /\ nth \in DOMAIN program /\ i # nth
            /\ Packages[i] = program[i] /\ Packages[nth] = program[nth]
            /\ IsPackage(program[i]) /\ IsPackage(program[nth])
        BY <1>1, <2>2, <4>2, ProgramIs
      <4>5. \E c \in DOMAIN program[i].calls : acts[x].file = program[i].calls[c].file
        BY <4>2, <4>4, OwedIs
      <4>6. \E d \in DOMAIN program[nth].calls : diags[y].file = program[nth].calls[d].file
        BY <4>3, <4>4, OwedIs
      <4> QED
        BY <4>4, <4>5, <4>6, ProgramIs
    <3> QED
      BY <1>1, <2>2, <3>1, <3>2, InOrderBoth
  <2> QED
    BY <1>2, <2>1, <2>6, <2>7 DEF ActsInv
<1>9. CASE PassFails
  <2>1. /\ UNCHANGED <<which, acts>> /\ pc = "pass" /\ pc' = "scan" /\ nth' = nth + 1
        /\ spoiled' = spoiled \cup {<<Analyzer, nth>>} /\ Analyzer' = Analyzer
    BY <1>2, <1>9 DEF PassFails, Analyzer
  <2>2. which \in DOMAIN team
    BY <2>1 DEF PassInv
  <2>3. Brought(Packages, spoiled', Analyzer, nth + 1) = Brought(Packages, spoiled, Analyzer, nth)
    <3>1. \A k \in DOMAIN Packages : k < nth + 1 /\ <<Analyzer, k>> \notin spoiled'
                                       <=> k < nth /\ <<Analyzer, k>> \notin spoiled
      BY <1>1, <2>1
    <3>2. {k \in DOMAIN Packages : k < nth + 1 /\ <<Analyzer, k>> \notin spoiled' /\ ~Packages[k].illTyped}
            = {k \in DOMAIN Packages : k < nth /\ <<Analyzer, k>> \notin spoiled /\ ~Packages[k].illTyped}
      BY <3>1
    <3> QED
      BY <3>2, Zenon DEF Brought
  <2> QED
    BY <1>2, <2>1, <2>2, <2>3 DEF ActsInv
<1>10. CASE Panic
  BY <1>4, <1>10 DEF Panic
<1>11. CASE Collect
  <2>1. /\ UNCHANGED <<which, spoiled>> /\ pc = "scan" /\ pc' = "merge" /\ which \in DOMAIN team
        /\ nth \notin DOMAIN program /\ Analyzer' = Analyzer
        /\ acts' = IF Analyzer \in Known THEN acts ELSE <<>>
    BY <1>2, <1>11 DEF Collect, Analyzer
  <2>2. nth = Len(program) + 1
    BY <1>1, <2>1 DEF TypeOK
  <2> QED
    BY <1>2, <2>1, <2>2, NothingSaid DEF ActsInv
<1>12. CASE Merge
  <2>1. UNCHANGED <<which, spoiled, acts, pc>> /\ pc = "merge" /\ Analyzer' = Analyzer
    BY <1>2, <1>12 DEF Merge, Analyzer
  <2> QED
    BY <1>2, <2>1 DEF ActsInv
<1>13. CASE Advance
  BY <1>4, <1>13 DEF Advance
<1>14. CASE Finish
  BY <1>14 DEF Finish, Return, ActsInv
<1>15. CASE UNCHANGED vars
  BY <1>2, <1>15 DEF ActsInv, Analyzer, vars, tierVars
<1> QED
  BY <1>5, <1>6, <1>7, <1>8, <1>9, <1>10, <1>11, <1>12, <1>13, <1>14, <1>15 DEF Next, Returned

-----------------------------------------------------------------------------
(* What a scan makes of the diagnostics.                                     *)

\* Who is out of it only grows, and only by the analyzer whose pass it is.
LEMMA LostGrow ==
  ASSUME [Next]_vars
  PROVE  /\ lost \subseteq lost' /\ lost' \subseteq lost \cup {Analyzer}
         /\ spoiled \subseteq spoiled' /\ spoiled' \subseteq spoiled \cup {<<Analyzer, nth>>}
         /\ pc # "pass" => lost' = lost /\ spoiled' = spoiled
         /\ ~Merge => out' = out
<1>1. CASE Pass
  BY <1>1, PassIs DEF tierVars
<1>2. CASE PassFails
  BY <1>2 DEF PassFails
<1>3. CASE Panic
  BY <1>3 DEF Panic
<1> QED
  BY <1>1, <1>2, <1>3 DEF Next, vars, tierVars, Load, Open, Close, Collect, Merge, Advance,
                          Finish, Returned

\* The turns go on one by one.
LEMMA TurnsPass ==
  ASSUME [Next]_vars
  PROVE  /\ which' = which \/ (which' = which + 1 /\ (Panic \/ Advance))
         /\ pc = "merge" => (pc' = "merge" /\ which' = which) \/ Advance
<1>1. CASE Pass
  BY <1>1, PassIs DEF tierVars
<1> QED
  BY <1>1 DEF Next, vars, tierVars, Load, Open, Close, PassFails, Panic, Collect, Merge, Advance,
              Finish, Returned

\* An analyzer that has its turn is not lost.
LEMMA NotLost ==
  ASSUME TypeOK, TurnInv, which \in DOMAIN team
  PROVE  Analyzer \notin lost
<1> SUFFICES ASSUME Analyzer \in lost  PROVE FALSE
  OBVIOUS
<1>1. PICK j \in DOMAIN team : j < which /\ Analyzer = team[j]
  BY DEF TurnInv
<1>2. j = which
  BY <1>1, ProgramIs DEF Analyzer
<1> QED
  BY <1>1, <1>2 DEF TypeOK

\* What is merged is owed, and all that is owed is merged.
LEMMA ActsAreHeard ==
  ASSUME TypeOK, TurnInv, ActsInv, pc = "merge"
  PROVE  /\ \A m \in DOMAIN acts : \E i \in DOMAIN Packages :
              Heard(Analyzer, i) /\ acts[m] \in Owed(Analyzer, Packages[i])
         /\ \A i \in DOMAIN Packages : Heard(Analyzer, i) =>
              \A d \in Owed(Analyzer, Packages[i]) : \E m \in DOMAIN acts : acts[m] = d
<1>1. Analyzer \notin lost
  BY NotLost DEF TurnInv
<1>2. Analyzer \in Known => Said(acts) = Brought(Packages, spoiled, Analyzer, Len(program) + 1)
  BY DEF ActsInv
<1>3. \A i \in DOMAIN Packages : i < Len(program) + 1
  BY ProgramIs
<1>4. ASSUME NEW m \in DOMAIN acts
      PROVE  \E i \in DOMAIN Packages : Heard(Analyzer, i) /\ acts[m] \in Owed(Analyzer, Packages[i])
  <2>1. acts[m] \in Said(acts)
    BY DEF Said
  <2>2. Analyzer \in Known
    BY <2>1 DEF ActsInv
  <2>3. acts[m] \in Brought(Packages, spoiled, Analyzer, Len(program) + 1)
    BY <1>2, <2>1, <2>2
  <2>4. PICK i \in {k \in DOMAIN Packages : /\ k < Len(program) + 1
                                           /\ <<Analyzer, k>> \notin spoiled
                                           /\ ~Packages[k].illTyped} :
          acts[m] \in Owed(Analyzer, Packages[i])
    BY <2>3 DEF Brought
  <2> QED
    BY <1>1, <2>2, <2>4, Zenon DEF Heard
<1>5. ASSUME NEW i \in DOMAIN Packages, Heard(Analyzer, i), NEW d \in Owed(Analyzer, Packages[i])
      PROVE  \E m \in DOMAIN acts : acts[m] = d
  <2>1. /\ Analyzer \in Known
        /\ i \in {k \in DOMAIN Packages : /\ k < Len(program) + 1
                                         /\ <<Analyzer, k>> \notin spoiled
                                         /\ ~Packages[k].illTyped}
    BY <1>3, <1>5, Zenon DEF Heard
  <2>2. d \in Brought(Packages, spoiled, Analyzer, Len(program) + 1)
    BY <1>5, <2>1 DEF Brought
  <2>3. d \in Said(acts)
    BY <1>2, <2>1, <2>2
  <2> QED
    BY <2>3 DEF Said
<1> QED
  BY <1>4, <1>5

\* A finding joins the others once.
LEMMA MergedIs ==
  ASSUME NEW fs \in Seq(Scanned), NEW f \in Scanned
  PROVE  /\ Merged(fs, f) \in Seq(Scanned)
         /\ Fps(Merged(fs, f)) = Fps(fs) \cup {Fp(f)}
         /\ \A k \in DOMAIN Merged(fs, f) :
              \/ k \in DOMAIN fs /\ Merged(fs, f)[k] = fs[k]
              \/ k = Len(fs) + 1 /\ Merged(fs, f)[k] = f /\ Fp(f) \notin Fps(fs)
<1>1. CASE Fp(f) \in Fps(fs)
  BY <1>1 DEF Merged
<1>2. CASE Fp(f) \notin Fps(fs)
  <2>1. Merged(fs, f) = Append(fs, f)
    BY <1>2 DEF Merged
  <2>2. /\ Append(fs, f) \in Seq(Scanned) /\ DOMAIN Append(fs, f) = 1..(Len(fs) + 1)
        /\ Append(fs, f)[Len(fs) + 1] = f
        /\ DOMAIN fs = 1..Len(fs) /\ Len(fs) \in Nat
        /\ \A k \in DOMAIN fs : Append(fs, f)[k] = fs[k]
    OBVIOUS
  <2>3. \A k \in 1..(Len(fs) + 1) : k \in DOMAIN fs \/ k = Len(fs) + 1
    BY <2>2
  <2>4. DOMAIN fs \subseteq DOMAIN Append(fs, f) /\ Len(fs) + 1 \in DOMAIN Append(fs, f)
    BY <2>2
  <2>5. Fps(Append(fs, f)) = Fps(fs) \cup {Fp(f)}
    <3> DEFINE g == Append(fs, f)
    <3>1. \A k \in DOMAIN g : Fp(g[k]) \in Fps(fs) \cup {Fp(f)}
      BY <2>2, <2>3 DEF Fps
    <3>2. \A k \in DOMAIN fs : k \in DOMAIN g /\ g[k] = fs[k]
      BY <2>2, <2>4
    <3>3. Len(fs) + 1 \in DOMAIN g /\ g[Len(fs) + 1] = f
      BY <2>2, <2>4
    <3> HIDE DEF g
    <3>4. Fps(g) \subseteq Fps(fs) \cup {Fp(f)}
      BY <3>1 DEF Fps
    <3>5. Fps(fs) \subseteq Fps(g)
      BY <3>2 DEF Fps
    <3>6. Fp(f) \in Fps(g)
      BY <3>3 DEF Fps
    <3> QED
      BY <3>4, <3>5, <3>6 DEF g
  <2> QED
    BY <1>2, <2>1, <2>2, <2>3, <2>5
<1> QED
  BY <1>1, <1>2

LEMMA InitHolds ==
  ASSUME Init
  PROVE  TypeOK /\ PassInv /\ TurnInv /\ ActsInv /\ SourceInv /\ JoinedInv /\ FirstStands
<1>1. /\ program \in Programs /\ team \in Analyzers[program]
      /\ pc = "load" /\ which = 1 /\ nth = 1 /\ acts = <<>> /\ out = <<>>
      /\ lost = {} /\ spoiled = {} /\ result = "none"
      /\ pkg = [funcs |-> <<>>, calls |-> <<>>] /\ stage = "decls" /\ at = 1
      /\ wrappers = [f \in {} |-> 0] /\ diags = <<>>
  BY DEF Init
<1>2. TurnInv
  BY <1>1 DEF TurnInv
<1>3. TypeOK
  <2>1. pkg.calls = <<>> /\ pkg.funcs = <<>>
    BY <1>1
  <2>2. at \in 1..(Len(pkg.calls) + 1) /\ DOMAIN wrappers \subseteq DOMAIN pkg.funcs
    BY <1>1, <2>1
  <2>3. team \in Seq(STRING) /\ Len(program) \in Nat
    BY <1>2, ProgramIs
  <2> QED
    BY <1>1, <2>2, <2>3, NothingSaid DEF TypeOK
<1>4. DOMAIN out = {} /\ out \in Seq(Scanned)
  BY <1>1
<1> QED
  BY <1>1, <1>2, <1>3, <1>4
  DEF PassInv, ActsInv, SourceInv, JoinedInv, FirstStands, UniqueFps

LEMMA SourceStep ==
  ASSUME TypeOK, TurnInv, PassInv, ActsInv, SourceInv, [Next]_vars
  PROVE  SourceInv'
<1>1. program' = program /\ team' = team /\ Packages' = Packages
  BY FixedStep
<1>2. which \in Nat /\ out \in Seq(Scanned) /\ acts \in Seq(Diagnosed)
  BY DEF TypeOK
<1>3. ASSUME NEW j \in DOMAIN team, j < which \/ (j = which /\ pc = "merge")
      PROVE  /\ j < which' \/ (j = which' /\ pc' = "merge")
             /\ \A i \in DOMAIN Packages : Heard(team[j], i) => Heard(team[j], i)'
  <2>1. j < which' \/ (j = which' /\ pc' = "merge")
    <3>1. j \in Nat
      BY ProgramIs
    <3>2. Advance => which' = which + 1
      BY DEF Advance
    <3> QED
      BY <1>2, <1>3, <3>1, <3>2, TurnsPass
  <2>2. pc = "pass" => team[j] # Analyzer
    <3> SUFFICES ASSUME pc = "pass", team[j] = Analyzer  PROVE FALSE
      OBVIOUS
    <3>1. which \in DOMAIN team /\ j < which
      BY <1>3 DEF PassInv
    <3>2. j = which
      BY <3>1, ProgramIs DEF Analyzer
    <3> QED
      BY <1>2, <3>1, <3>2
  <2>3. ASSUME NEW i \in DOMAIN Packages, Heard(team[j], i)  PROVE Heard(team[j], i)'
    <3>1. team[j] \in Known /\ team[j] \notin lost /\ <<team[j], i>> \notin spoiled /\ ~Packages[i].illTyped
      BY <2>3, Zenon DEF Heard
    <3>2. team[j] \notin lost' /\ <<team[j], i>> \notin spoiled'
      BY <2>2, <3>1, LostGrow
    <3> QED
      BY <1>1, <3>1, <3>2, Zenon DEF Heard
  <2> QED
    BY <2>1, <2>3
<1>4. ASSUME NEW k \in DOMAIN out
      PROVE  \E j \in DOMAIN team, i \in DOMAIN Packages :
               /\ j < which' \/ (j = which' /\ pc' = "merge")
               /\ Heard(team[j], i)'
               /\ \E d \in Owed(team[j], Packages[i]) : out[k] = DiagnosticFinding(team[j], d)
  <2>1. PICK j \in DOMAIN team, i \in DOMAIN Packages :
          /\ j < which \/ (j = which /\ pc = "merge")
          /\ Heard(team[j], i)
          /\ \E d \in Owed(team[j], Packages[i]) : out[k] = DiagnosticFinding(team[j], d)
    BY DEF SourceInv
  <2> QED
    BY <1>3, <2>1
<1>5. CASE ~Merge
  BY <1>1, <1>4, <1>5, LostGrow DEF SourceInv
<1>6. CASE Merge
  <2> DEFINE f == DiagnosticFinding(Analyzer, acts[nth])
  <2>1. /\ pc = "merge" /\ pc' = pc /\ which' = which /\ nth \in DOMAIN acts /\ out' = Merged(out, f)
    BY <1>6 DEF Merge
  <2>2. which \in DOMAIN team
    BY <2>1 DEF TurnInv
  <2>3. f \in Scanned
    BY <1>2, <2>1, MergesKnown, FindingIs
  <2>4. PICK i \in DOMAIN Packages : Heard(Analyzer, i) /\ acts[nth] \in Owed(Analyzer, Packages[i])
    BY <2>1, ActsAreHeard
  <2>5. Heard(team[which], i)'
    <3>1. Heard(team[which], i)
      BY <2>4 DEF Analyzer
    <3> QED
      BY <1>3, <2>1, <2>2, <3>1
  <2>6. \E j \in DOMAIN team, m \in DOMAIN Packages :
          /\ j < which' \/ (j = which' /\ pc' = "merge")
          /\ Heard(team[j], m)'
          /\ \E d \in Owed(team[j], Packages[m]) : f = DiagnosticFinding(team[j], d)
    <3>1. which = which' /\ pc' = "merge"
      BY <2>1
    <3>2. acts[nth] \in Owed(team[which], Packages[i]) /\ f = DiagnosticFinding(team[which], acts[nth])
      BY <2>4 DEF Analyzer
    <3> HIDE DEF f
    <3> QED
      BY <2>2, <2>5, <3>1, <3>2, Zenon
  <2> HIDE DEF f
  <2>7. \A k \in DOMAIN out' : (k \in DOMAIN out /\ out'[k] = out[k]) \/ out'[k] = f
    BY <1>2, <2>1, <2>3, MergedIs
  <2>8. ASSUME NEW k \in DOMAIN out'
        PROVE  \E j \in DOMAIN team, m \in DOMAIN Packages :
                 /\ j < which' \/ (j = which' /\ pc' = "merge")
                 /\ Heard(team[j], m)'
                 /\ \E d \in Owed(team[j], Packages[m]) : out'[k] = DiagnosticFinding(team[j], d)
    <3>1. CASE k \in DOMAIN out /\ out'[k] = out[k]
      BY <1>4, <3>1
    <3>2. CASE out'[k] = f
      BY <2>6, <3>2
    <3> QED
      BY <2>7, <3>1, <3>2
  <2> QED
    BY <1>1, <2>8 DEF SourceInv
<1> QED
  BY <1>5, <1>6

LEMMA JoinedStep ==
  ASSUME TypeOK, TurnInv, PassInv, ActsInv, JoinedInv, [Next]_vars
  PROVE  JoinedInv'
<1>1. program' = program /\ team' = team /\ Packages' = Packages
  BY FixedStep
<1>2. which \in Nat /\ nth \in Nat /\ out \in Seq(Scanned) /\ acts \in Seq(Diagnosed)
      /\ team \in Seq(STRING) /\ which \in 1..(Len(team) + 1)
  BY DEF TypeOK
<1>3. Fps(out) \subseteq Fps(out')
  <2>1. CASE Merge
    <3>1. /\ pc = "merge" /\ nth \in DOMAIN acts
          /\ out' = Merged(out, DiagnosticFinding(Analyzer, acts[nth]))
      BY <2>1 DEF Merge
    <3>2. DiagnosticFinding(Analyzer, acts[nth]) \in Scanned
      BY <1>2, <3>1, MergesKnown, FindingIs
    <3> QED
      BY <1>2, <3>1, <3>2, MergedIs
  <2> QED
    BY <2>1, LostGrow
<1>4. ASSUME NEW j \in DOMAIN team, NEW i \in DOMAIN Packages, j < which', Heard(team[j], i)',
             NEW d \in Owed(team[j], Packages[i])
      PROVE  Fp(DiagnosticFinding(team[j], d)) \in Fps(out')
  <2>1. Heard(team[j], i)
    <3>1. /\ team[j] \in Known /\ team[j] \notin lost' /\ <<team[j], i>> \notin spoiled'
          /\ ~Packages[i].illTyped
      BY <1>1, <1>4, Zenon DEF Heard
    <3>2. team[j] \notin lost /\ <<team[j], i>> \notin spoiled
      BY <3>1, LostGrow
    <3> QED
      BY <3>1, <3>2, Zenon DEF Heard
  <2>2. CASE j < which
    <3>1. Fp(DiagnosticFinding(team[j], d)) \in Fps(out)
      BY <1>4, <2>1, <2>2 DEF JoinedInv
    <3> QED
      BY <1>3, <3>1
  <2>3. CASE ~(j < which)
    <3>1. j \in Nat /\ which' = which + 1 /\ j = which /\ (Panic \/ Advance)
      BY <1>2, <1>4, <2>3, TurnsPass
    <3>2. ~Panic
      <4>1. Panic => team[j] \in lost'
        BY <3>1 DEF Panic, Analyzer
      <4> QED
        BY <1>1, <1>4, <4>1, Zenon DEF Heard
    <3>3. pc = "merge" /\ nth \notin DOMAIN acts
      BY <3>1, <3>2 DEF Advance
    <3>4. Analyzer = team[j]
      BY <3>1 DEF Analyzer
    <3>5. PICK m \in DOMAIN acts : acts[m] = d
      BY <1>4, <2>1, <3>3, <3>4, ActsAreHeard
    <3>6. m < nth
      BY <1>2, <3>3 DEF TypeOK
    <3>7. Fp(DiagnosticFinding(team[j], d)) \in Fps(out)
      BY <3>3, <3>4, <3>5, <3>6 DEF JoinedInv
    <3> QED
      BY <1>3, <3>7
  <2> QED
    BY <2>2, <2>3
<1>5. ASSUME pc' = "merge", NEW m \in DOMAIN acts', m < nth'
      PROVE  Fp(DiagnosticFinding(Analyzer', acts'[m])) \in Fps(out')
  <2>1. CASE Merge
    <3> DEFINE f == DiagnosticFinding(Analyzer, acts[nth])
    <3>1. /\ pc = "merge" /\ which' = which /\ acts' = acts /\ nth \in DOMAIN acts /\ out' = Merged(out, f)
          /\ nth' = nth + 1 /\ Analyzer' = Analyzer
      BY <1>1, <2>1 DEF Merge, Analyzer
    <3>2. CASE m < nth
      BY <1>3, <1>5, <3>1, <3>2 DEF JoinedInv
    <3>3. CASE m = nth
      <4>1. f \in Scanned
        BY <1>2, <3>1, MergesKnown, FindingIs
      <4>2. Fp(f) \in Fps(out')
        BY <1>2, <3>1, <4>1, MergedIs
      <4> QED
        BY <3>1, <3>3, <4>2
    <3> QED
      BY <1>2, <1>5, <3>1, <3>2, <3>3
  <2>2. CASE Collect
    <3>1. nth' = 1 /\ (acts' = acts \/ acts' = <<>>)
      BY <2>2 DEF Collect
    <3> QED
      BY <1>2, <1>5, <3>1
  <2>3. CASE UNCHANGED vars
    <3>1. acts' = acts /\ nth' = nth /\ pc = "merge" /\ Analyzer' = Analyzer /\ out' = out
      BY <1>1, <1>5, <2>3 DEF vars, tierVars, Analyzer
    <3> QED
      BY <1>5, <3>1 DEF JoinedInv
  <2>4. CASE Pass
    BY <1>5, <2>4, PassIs DEF tierVars
  <2> QED
    BY <1>5, <2>1, <2>2, <2>3, <2>4 DEF Next, Load, Return, Open, Close, PassFails, Panic, Advance,
                                        Finish, Returned
<1>6. /\ result' = "none" \/ pc' = "done"
      /\ result' = "ok" => \/ \A i \in DOMAIN program' : ~program'[i].golang
                           \/ DOMAIN Packages' = {}
                           \/ which' = Len(team') + 1
  <2>1. /\ result = "none" \/ pc = "done"
        /\ result = "ok" => \/ \A i \in DOMAIN program : ~program[i].golang
                            \/ DOMAIN Packages = {}
                            \/ which = Len(team) + 1
    BY DEF JoinedInv
  <2>2. CASE Load
    BY <1>1, <2>1, <2>2 DEF Load, Return
  <2>3. CASE Finish
    <3>1. pc' = "done" /\ result' = "ok" /\ which' = which /\ which \notin DOMAIN team
      BY <2>3 DEF Finish, Return
    <3> QED
      BY <1>1, <1>2, <3>1
  <2>4. CASE Pass
    <3>1. pc = "pass" /\ result' = result /\ pc' = pc
      BY <2>4, PassIs DEF tierVars
    <3> QED
      BY <2>1, <3>1
  <2>5. CASE UNCHANGED vars
    <3>1. UNCHANGED <<pc, result, which>>
      BY <2>5 DEF vars, tierVars
    <3> QED
      BY <1>1, <2>1, <3>1
  <2>6. CASE Open \/ Close \/ PassFails \/ Panic \/ Collect \/ Merge \/ Advance
    <3>1. pc # "done" /\ result' = result
      BY <2>6 DEF Open, Close, PassFails, Panic, Collect, Merge, Advance
    <3> QED
      BY <2>1, <3>1
  <2> QED
    BY <2>2, <2>3, <2>4, <2>5, <2>6 DEF Next, Returned
<1>7. \A j \in DOMAIN team, i \in DOMAIN Packages :
        j < which' /\ Heard(team[j], i)' =>
          \A d \in Owed(team[j], Packages[i]) : Fp(DiagnosticFinding(team[j], d)) \in Fps(out')
  BY <1>4
<1> QED
  BY <1>1, <1>5, <1>6, <1>7 DEF JoinedInv

LEMMA FirstStep ==
  ASSUME TypeOK, TurnInv, PassInv, ActsInv, JoinedInv, FirstStands, [Next]_vars
  PROVE  FirstStands'
<1>1. program' = program /\ team' = team /\ Packages' = Packages
  BY FixedStep
<1>2. which \in Nat /\ nth \in Nat /\ out \in Seq(Scanned) /\ acts \in Seq(Diagnosed)
  BY DEF TypeOK
<1>3. CASE ~Merge
  BY <1>1, <1>3, LostGrow DEF FirstStands
<1>4. CASE Merge
  <2> DEFINE f == DiagnosticFinding(Analyzer, acts[nth])
  <2>1. pc = "merge" /\ nth \in DOMAIN acts /\ out' = Merged(out, f)
    BY <1>4 DEF Merge
  <2>2. /\ Analyzer \in Known /\ acts[nth] \in Diagnosed /\ f \in Scanned
        /\ Fp(f) = <<Meta(Analyzer).rule, acts[nth].file, acts[nth].text>>
        /\ f.line = acts[nth].line
    BY <1>2, <2>1, MergesKnown, FindingIs
  <2>3. PICK o \in DOMAIN Packages : Heard(Analyzer, o) /\ acts[nth] \in Owed(Analyzer, Packages[o])
    BY <2>1, ActsAreHeard
  <2>4. ASSUME Fp(f) \notin Fps(out), NEW i \in DOMAIN Packages, NEW a \in House,
               NEW d \in Owed(a, Packages[i]), Fp(f) = Fp(DiagnosticFinding(a, d))
        PROVE  f.line <= d.line
    <3>1. /\ i \in DOMAIN program /\ o \in DOMAIN program
          /\ Packages[i] = program[i] /\ Packages[o] = program[o]
          /\ IsPackage(program[i]) /\ IsPackage(program[o])
      BY ProgramIs
    <3>2. d \in Diagnosed
      BY <2>4, <3>1, OwedIs
    <3>3. Fp(DiagnosticFinding(a, d)) = <<Meta(a).rule, d.file, d.text>>
      BY <3>2, MetaIs, FindingIs
    <3>4. Meta(a).rule = Meta(Analyzer).rule /\ d.file = acts[nth].file /\ d.text = acts[nth].text
      BY <2>2, <2>4, <3>3
    <3>5. a = Analyzer
      BY <2>2, <3>4, MetaIs
    <3>6. i = o
      <4>1. \E c \in DOMAIN program[i].calls : d.file = program[i].calls[c].file
        BY <2>4, <3>1, OwedIs
      <4>2. \E c \in DOMAIN program[o].calls : acts[nth].file = program[o].calls[c].file
        BY <2>3, <3>1, <3>5, OwedIs
      <4> QED
        BY <3>1, <3>4, <4>1, <4>2, ProgramIs
    <3>7. PICK m \in DOMAIN acts : acts[m] = d
      BY <2>1, <2>3, <2>4, <3>5, <3>6, ActsAreHeard
    <3>8. ~(m < nth)
      <4> SUFFICES ASSUME m < nth  PROVE FALSE
        OBVIOUS
      <4>1. Fp(DiagnosticFinding(Analyzer, acts[m])) \in Fps(out)
        BY <2>1 DEF JoinedInv
      <4> QED
        BY <2>4, <3>5, <3>7, <4>1
    <3>9. InOrder(acts)
      <4>1. which \in DOMAIN team
        BY <2>1 DEF TurnInv
      <4> QED
        BY <2>1, <3>5, <4>1 DEF ActsInv
    <3>10. nth <= m
      BY <1>2, <3>8
    <3>11. acts[nth].line <= acts[m].line
      BY <2>1, <3>4, <3>7, <3>9, <3>10 DEF InOrder
    <3> QED
      BY <2>2, <3>7, <3>11
  <2> HIDE DEF f
  <2>5. \A k \in DOMAIN out' :
          \/ k \in DOMAIN out /\ out'[k] = out[k]
          \/ k = Len(out) + 1 /\ out'[k] = f /\ Fp(f) \notin Fps(out)
    <3>1. \A k \in DOMAIN Merged(out, f) :
            \/ k \in DOMAIN out /\ Merged(out, f)[k] = out[k]
            \/ k = Len(out) + 1 /\ Merged(out, f)[k] = f /\ Fp(f) \notin Fps(out)
      BY <1>2, <2>2, MergedIs
    <3> QED
      BY <2>1, <3>1
  <2>6. UniqueFps(out')
    <3> SUFFICES ASSUME NEW k \in DOMAIN out', NEW m \in DOMAIN out', Fp(out'[k]) = Fp(out'[m])
                 PROVE  k = m
      BY DEF UniqueFps
    <3>1. \A n \in DOMAIN out : Fp(out[n]) \in Fps(out)
      BY DEF Fps
    <3>2. UniqueFps(out)
      BY DEF FirstStands
    <3> QED
      BY <2>5, <3>1, <3>2 DEF UniqueFps
  <2>7. ASSUME NEW k \in DOMAIN out', NEW i \in DOMAIN Packages, NEW a \in House,
               NEW d \in Owed(a, Packages[i]), Fp(out'[k]) = Fp(DiagnosticFinding(a, d))
        PROVE  out'[k].line <= d.line
    <3>1. CASE k \in DOMAIN out /\ out'[k] = out[k]
      BY <2>7, <3>1 DEF FirstStands
    <3>2. CASE out'[k] = f /\ Fp(f) \notin Fps(out)
      BY <2>4, <2>7, <3>2
    <3> QED
      BY <2>5, <3>1, <3>2
  <2> QED
    BY <1>1, <2>6, <2>7 DEF FirstStands
<1> QED
  BY <1>3, <1>4

-----------------------------------------------------------------------------
(* The theorems.                                                             *)

LEMMA GoTierInvariant ==
  Spec => [](TypeOK /\ PassInv /\ TurnInv /\ ActsInv /\ SourceInv /\ JoinedInv /\ FirstStands)
<1> DEFINE Inv == TypeOK /\ PassInv /\ TurnInv /\ ActsInv /\ SourceInv /\ JoinedInv /\ FirstStands
<1>1. Init => Inv
  BY InitHolds
<1>2. Inv /\ [Next]_vars => Inv'
  BY TypeStep, TurnStep, ActsStep, SourceStep, JoinedStep, FirstStep
<1> QED
  BY <1>1, <1>2, PTL DEF Spec

\* The variables of a scan have their types: the diagnostics of a pass and the
\* findings of a scan are well formed at each step of any pass over any
\* package, and what was lost or spoiled was there to run (runner.go Scan,
\* msgtrace.go and otelresource.go run).
THEOREM TypeCorrect == Spec => []TypeOK
BY GoTierInvariant, PTL

LEMMA IsolatedState == TypeOK /\ TurnInv /\ JoinedInv => Isolated
<1> SUFFICES ASSUME TypeOK, TurnInv, JoinedInv, result = "ok",
                    \E i \in DOMAIN program : program[i].golang,
                    NEW a \in {team[j] : j \in DOMAIN team}, NEW i \in DOMAIN Packages,
                    Heard(a, i), NEW d \in Owed(a, Packages[i])
             PROVE  Fp(DiagnosticFinding(a, d)) \in Fps(out)
  BY DEF Isolated
<1>1. PICK j \in DOMAIN team : a = team[j]
  OBVIOUS
<1>2. which = Len(team) + 1
  BY DEF JoinedInv
<1>3. j < which
  BY <1>2, ProgramIs
<1> QED
  BY <1>1, <1>3 DEF JoinedInv

\* Whatever panics or fails, and in whatever order declarations and calls come,
\* each finding that an analyzer which came through owes for a package it came
\* through with is in what Scan returns, by its fingerprint (runner.go Scan and
\* runAnalyzer; the two walks of msgtrace and otelresource).
THEOREM AnalyzersAreIsolated == Spec => []Isolated
BY IsolatedState, GoTierInvariant, PTL

\* Each finding is one that an analyzer owes for a package it came through with:
\* what a panic or a failed pass had said before is in none of them, and no
\* call is reported that one hop does not reach (runner.go runAnalyzer).
THEOREM FindingsAreJustified == Spec => []Justified
<1>1. TypeOK /\ TurnInv /\ SourceInv => Justified
  <2> SUFFICES ASSUME TypeOK, TurnInv, SourceInv, NEW k \in DOMAIN out
               PROVE  \E j \in DOMAIN team, i \in DOMAIN Packages :
                        /\ j <= which /\ Heard(team[j], i)
                        /\ \E d \in Owed(team[j], Packages[i]) : out[k] = DiagnosticFinding(team[j], d)
    BY DEF Justified
  <2>1. PICK j \in DOMAIN team, i \in DOMAIN Packages :
          /\ j < which \/ (j = which /\ pc = "merge")
          /\ Heard(team[j], i)
          /\ \E d \in Owed(team[j], Packages[i]) : out[k] = DiagnosticFinding(team[j], d)
    BY DEF SourceInv
  <2>2. j <= which
    BY <2>1, ProgramIs DEF TypeOK
  <2> QED
    BY <2>1, <2>2
<1> QED
  BY <1>1, GoTierInvariant, PTL

\* Of the places in a file that share a message, Scan returns the first one,
\* and it once (runner.go seen; the analyzers come to the calls of a file in
\* the order of the source, wrappers included).
THEOREM FirstOneStands == Spec => []FirstStands
BY GoTierInvariant, PTL

\* No finding about the call of a wrapper trips --fail-on at any level, whoever
\* reports it and whatever its analyzer's default (runner.go diagnosticFinding).
THEOREM WrappersStayQuiet == Spec => []WrappersNeverGate
<1>1. TypeOK /\ TurnInv /\ SourceInv => WrappersNeverGate
  <2> SUFFICES ASSUME TypeOK, TurnInv, SourceInv, NEW level \in FailOnLevels,
                      NEW k \in Blocking(out, FailOnRank(level)), IsWrapperText(out[k].symbol)
               PROVE  FALSE
    BY DEF WrappersNeverGate
  <2>1. k \in DOMAIN out /\ out[k].conf # "medium"
    BY DEF Blocking
  <2>2. PICK j \in DOMAIN team, i \in DOMAIN Packages :
          /\ Heard(team[j], i)
          /\ \E d \in Owed(team[j], Packages[i]) : out[k] = DiagnosticFinding(team[j], d)
    BY <2>1 DEF SourceInv
  <2>3. PICK d \in Owed(team[j], Packages[i]) : out[k] = DiagnosticFinding(team[j], d)
    BY <2>2
  <2>4. team[j] \in Known
    BY <2>2, Zenon DEF Heard
  <2>5. d \in Diagnosed
    BY OwedIs, ProgramIs
  <2> QED
    BY <2>1, <2>3, <2>4, <2>5, FindingIs
<1> QED
  BY <1>1, GoTierInvariant, PTL

-----------------------------------------------------------------------------
(* A scan comes to its end.                                                  *)

\* Whatever package a pass is at, or was at, its calls can be counted.
CallsCounted == Len(pkg.calls) \in Nat

LEMMA CountStep ==
  ASSUME TurnInv, CallsCounted, [Next]_vars
  PROVE  CallsCounted'
<1>1. CASE Open
  <2>1. CASE pkg' = pkg
    BY <2>1 DEF CallsCounted
  <2>2. CASE pkg' # pkg
    <3>1. nth \in DOMAIN program /\ pkg' = program[nth]
      BY <1>1, <2>2 DEF Open, Begin, passVars
    <3>2. PICK p : p = program[nth]
      OBVIOUS
    <3>3. IsPackage(p)
      BY <3>1, <3>2, ProgramIs
    <3> QED
      BY <3>1, <3>2, <3>3, CallsAre DEF CallsCounted
  <2> QED
    BY <2>1, <2>2
<1>2. CASE Pass
  <2>1. pkg' = pkg
    BY <1>2, PassIs DEF MsgTraceStep, OtelResourceStep, LintStep, VisitBody, TurnToCalls, VisitCall
  <2> QED
    BY <2>1 DEF CallsCounted
<1>3. CASE ~Open /\ ~Pass
  <2>1. pkg' = pkg
    BY <1>3 DEF Next, Load, Close, PassFails, Panic, Collect, Merge, Advance, Finish, Returned, vars,
                passVars
  <2> QED
    BY <2>1 DEF CallsCounted
<1> QED
  BY <1>1, <1>2, <1>3

LEMMA LeftHas ==
  /\ DOMAIN Left = 1..7
  /\ Left[1] = IF pc = "load" THEN 2 ELSE IF pc = "done" THEN 0 ELSE 1
  /\ Left[2] = Len(team) + 1 - which
  /\ Left[3] = IF pc = "merge" THEN 0 ELSE 1
  /\ Left[4] = (IF pc = "merge" THEN Len(acts) ELSE Len(program)) + 1 - nth
  /\ Left[5] = IF pc = "pass" THEN 0 ELSE 1
  /\ Left[6] = IF stage = "decls" THEN 1 ELSE 0
  /\ Left[7] = Len(pkg.calls) + 1 - at
  /\ DOMAIN Left' = 1..7
  /\ Left'[1] = IF pc' = "load" THEN 2 ELSE IF pc' = "done" THEN 0 ELSE 1
  /\ Left'[2] = Len(team') + 1 - which'
  /\ Left'[3] = IF pc' = "merge" THEN 0 ELSE 1
  /\ Left'[4] = (IF pc' = "merge" THEN Len(acts') ELSE Len(program')) + 1 - nth'
  /\ Left'[5] = IF pc' = "pass" THEN 0 ELSE 1
  /\ Left'[6] = IF stage' = "decls" THEN 1 ELSE 0
  /\ Left'[7] = Len(pkg'.calls) + 1 - at'
BY DEF Left

\* What is left is counted in seven numbers.
LEMMA LeftIsNatural ==
  ASSUME TypeOK, TurnInv, CallsCounted
  PROVE  Left \in [1..7 -> Nat]
<1>1. Len(team) \in Nat /\ Len(acts) \in Nat /\ Len(program) \in Nat
  BY ProgramIs DEF TypeOK
<1>2. /\ which \in 1..(Len(team) + 1) /\ at \in 1..(Len(pkg.calls) + 1)
      /\ nth \in 1..(IF pc = "merge" THEN Len(acts) + 1 ELSE Len(program) + 1)
  BY DEF TypeOK
<1>3. Len(team) + 1 - which \in Nat
  BY <1>1, <1>2
<1>4. (IF pc = "merge" THEN Len(acts) ELSE Len(program)) + 1 - nth \in Nat
  BY <1>1, <1>2
<1>5. Len(pkg.calls) + 1 - at \in Nat
  BY <1>2 DEF CallsCounted
<1>6. Left = [i \in 1..7 |-> Left[i]]
  BY DEF Left
<1> QED
  BY <1>3, <1>4, <1>5, <1>6, LeftHas

\* Within a pass, the walks go on.
LEMMA PassGoesOn ==
  ASSUME TypeOK, CallsCounted, Pass
  PROVE  /\ pkg' = pkg
         /\ \/ stage = "decls" /\ stage' = "calls"
            \/ stage' = stage /\ Len(pkg.calls) + 1 - at' < Len(pkg.calls) + 1 - at
<1>1. at \in Nat /\ Len(pkg.calls) \in Nat
  BY DEF TypeOK, CallsCounted
<1>2. CASE MsgTraceStep \/ OtelResourceStep
  BY <1>1, <1>2 DEF MsgTraceStep, OtelResourceStep, VisitBody, TurnToCalls, VisitCall
<1>3. CASE LintStep
  BY <1>3 DEF LintStep
<1> QED
  BY <1>2, <1>3, PassIs

\* Every step leaves less to do.
THEOREM EveryStepCounts == Spec => StepsRunOut
<1> DEFINE Inv == TypeOK /\ PassInv /\ TurnInv /\ CallsCounted
<1>1. Inv /\ [Next]_vars => [Below(Left', Left)]_vars
  <2> SUFFICES ASSUME Inv, Next, vars' # vars
               PROVE  Below(Left', Left)
    OBVIOUS
  <2>1. /\ program' = program /\ team' = team
        /\ Len(team) \in Nat /\ Len(acts) \in Nat /\ Len(program) \in Nat
        /\ which \in Nat /\ nth \in Nat /\ at \in Nat
    BY FixedStep, ProgramIs DEF TypeOK
  <2>2. ASSUME NEW k \in 1..7, Left'[k] < Left[k], \A j \in 1..(k - 1) : Left'[j] = Left[j]
        PROVE  Below(Left', Left)
    BY <2>2, LeftHas DEF Below
  <2>3. CASE Load
    <3>1. Left'[1] < Left[1]
      BY <2>3, LeftHas DEF Load, Return
    <3> QED
      BY <2>2, <3>1
  <2>4. CASE Open
    <3>1. CASE pc' = "pass"
      <4>1. Left'[5] < Left[5] /\ \A j \in 1..4 : Left'[j] = Left[j]
        BY <2>1, <2>4, <3>1, LeftHas DEF Open
      <4> QED
        BY <2>2, <4>1
    <3>2. CASE pc' # "pass"
      <4>1. nth' = nth + 1 /\ UNCHANGED <<pc, which, acts>> /\ pc = "scan"
        BY <2>4, <3>2 DEF Open
      <4>2. Left'[4] < Left[4] /\ \A j \in 1..3 : Left'[j] = Left[j]
        BY <2>1, <4>1, LeftHas
      <4> QED
        BY <2>2, <4>2
    <3> QED
      BY <3>1, <3>2
  <2>5. CASE Pass
    <3>1. UNCHANGED tierVars
      BY <2>5, PassIs
    <3>2. \A j \in 1..5 : Left'[j] = Left[j]
      BY <3>1, LeftHas DEF tierVars
    <3>3. \/ Left'[6] < Left[6]
          \/ Left'[6] = Left[6] /\ Left'[7] < Left[7]
      BY <2>5, PassGoesOn, LeftHas
    <3> QED
      BY <2>2, <3>2, <3>3
  <2>6. CASE Close \/ PassFails
    <3>1. nth' = nth + 1 /\ which' = which /\ pc = "pass" /\ pc' = "scan"
      BY <2>6 DEF Close, PassFails
    <3>2. Left'[4] < Left[4] /\ \A j \in 1..3 : Left'[j] = Left[j]
      BY <2>1, <3>1, LeftHas
    <3> QED
      BY <2>2, <3>2
  <2>7. CASE Panic \/ Advance
    <3>1. which' = which + 1 /\ pc \in {"pass", "merge"} /\ pc' = "scan"
      BY <2>7 DEF Panic, Advance
    <3>2. Left'[2] < Left[2] /\ Left'[1] = Left[1]
      BY <2>1, <3>1, LeftHas
    <3> QED
      BY <2>2, <3>2
  <2>8. CASE Collect
    <3>1. which' = which /\ pc = "scan" /\ pc' = "merge"
      BY <2>8 DEF Collect
    <3>2. Left'[3] < Left[3] /\ \A j \in 1..2 : Left'[j] = Left[j]
      BY <2>1, <3>1, LeftHas
    <3> QED
      BY <2>2, <3>2
  <2>9. CASE Merge
    <3>1. nth' = nth + 1 /\ UNCHANGED <<pc, which, acts>> /\ pc = "merge"
      BY <2>9 DEF Merge
    <3>2. Left'[4] < Left[4] /\ \A j \in 1..3 : Left'[j] = Left[j]
      BY <2>1, <3>1, LeftHas
    <3> QED
      BY <2>2, <3>2
  <2>10. CASE Finish
    <3>1. Left'[1] < Left[1]
      BY <2>10, LeftHas DEF Finish, Return
    <3> QED
      BY <2>2, <3>1
  <2> QED
    BY <2>3, <2>4, <2>5, <2>6, <2>7, <2>8, <2>9, <2>10 DEF Next, Returned
<1>2. Init => CallsCounted
  BY DEF Init, CallsCounted
<1>3. TurnInv /\ CallsCounted /\ [Next]_vars => CallsCounted'
  BY CountStep
<1> QED
  BY <1>1, <1>2, <1>3, GoTierInvariant, PTL DEF Spec, StepsRunOut

-----------------------------------------------------------------------------
(* The scan seen from outside.                                               *)

\* Where there is no Go, nothing is run.
NoGoInv ==
  (\A i \in DOMAIN program : ~program[i].golang) => pc \in {"load", "done"} /\ out = <<>>

LEMMA NoGoStep == NoGoInv /\ [Next]_vars => NoGoInv'
<1> SUFFICES ASSUME NoGoInv, [Next]_vars, \A i \in DOMAIN program : ~program[i].golang
             PROVE  pc' \in {"load", "done"} /\ out' = <<>>
  BY FixedStep DEF NoGoInv
<1>1. pc \in {"load", "done"} /\ out = <<>>
  BY DEF NoGoInv
<1>2. CASE Load
  BY <1>1, <1>2 DEF Load, Return
<1>3. CASE Pass
  BY <1>1, <1>3, PassIs
<1> QED
  BY <1>1, <1>2, <1>3 DEF Next, vars, tierVars, Open, Close, PassFails, Panic, Collect, Merge, Advance,
                          Finish, Returned

\* What there is to be had only ever shrinks.
LEMMA AnswerableShrinks ==
  ASSUME [Next]_vars
  PROVE  /\ Answerable' \subseteq Answerable
         /\ UNCHANGED <<lost, spoiled>> => Answerable' = Answerable
<1>1. program' = program /\ team' = team /\ Packages' = Packages
  BY FixedStep
<1>2. lost \subseteq lost' /\ spoiled \subseteq spoiled'
  BY LostGrow
<1> DEFINE Team == {team[j] : j \in DOMAIN team}
           There(a, i) == {Fp(DiagnosticFinding(a, d)) : d \in Owed(a, Packages[i])}
           Pairs == {y \in Team \X DOMAIN Packages : Heard(y[1], y[2])}
           NoGo == \A i \in DOMAIN program : ~program[i].golang
<1>3. Answerable = IF NoGo THEN {} ELSE UNION {There(x[1], x[2]) : x \in Pairs}
  BY DEF Answerable
<1>4. Answerable' = IF NoGo' THEN {} ELSE UNION {There(x[1], x[2])' : x \in Pairs'}
  BY DEF Answerable
<1>5. (NoGo' <=> NoGo) /\ \A a, i : There(a, i)' = There(a, i)
  BY <1>1
<1>6. Pairs' \subseteq Pairs
  BY <1>1, <1>2 DEF Heard
<1>7. UNCHANGED <<lost, spoiled>> => Pairs' = Pairs
  BY <1>1 DEF Heard
<1> HIDE DEF There, Pairs, NoGo
<1> QED
  BY <1>3, <1>4, <1>5, <1>6, <1>7

\* A scan that comes through has exactly what is to be had.
CompleteInv == result = "ok" => Fps(out) = Answerable

LEMMA AnswersAll == TypeOK /\ TurnInv /\ SourceInv /\ JoinedInv /\ NoGoInv => CompleteInv
<1> SUFFICES ASSUME TypeOK, TurnInv, SourceInv, JoinedInv, NoGoInv, result = "ok"
             PROVE  Fps(out) = Answerable
  BY DEF CompleteInv
<1>1. CASE \A i \in DOMAIN program : ~program[i].golang
  BY <1>1 DEF NoGoInv, Answerable, Fps
<1>2. CASE \E i \in DOMAIN program : program[i].golang
  <2> DEFINE Team == {team[j] : j \in DOMAIN team}
             There(a, i) == {Fp(DiagnosticFinding(a, d)) : d \in Owed(a, Packages[i])}
             Pairs == {y \in Team \X DOMAIN Packages : Heard(y[1], y[2])}
  <2>1. Answerable = UNION {There(x[1], x[2]) : x \in Pairs}
    BY <1>2 DEF Answerable
  <2>2. ASSUME NEW k \in DOMAIN out
        PROVE  \E x \in Pairs : Fp(out[k]) \in There(x[1], x[2])
    <3>1. PICK j \in DOMAIN team, i \in DOMAIN Packages :
            /\ Heard(team[j], i)
            /\ \E d \in Owed(team[j], Packages[i]) : out[k] = DiagnosticFinding(team[j], d)
      BY DEF SourceInv
    <3>2. <<team[j], i>> \in Pairs
      BY <3>1
    <3>3. Fp(out[k]) \in There(team[j], i)
      BY <3>1
    <3> QED
      BY <3>2, <3>3
  <2>3. ASSUME NEW x \in Pairs
        PROVE  There(x[1], x[2]) \subseteq Fps(out)
    <3>1. x[1] \in Team /\ x[2] \in DOMAIN Packages /\ Heard(x[1], x[2])
      OBVIOUS
    <3>2. \A d \in Owed(x[1], Packages[x[2]]) : Fp(DiagnosticFinding(x[1], d)) \in Fps(out)
      BY <1>2, <3>1, IsolatedState DEF Isolated
    <3> QED
      BY <3>2
  <2> HIDE DEF There, Pairs
  <2> QED
    BY <2>1, <2>2, <2>3 DEF Fps
<1> QED
  BY <1>1, <1>2

\* Whoever asked for the scan may take it for one step, whatever panics or
\* fails: every step of it is a step of TierContract, or none that can be seen
\* (golang/runner.go Scan; cli/scan.go runEngines).
THEOREM ScanKeepsContract == Spec => KeepsContract
<1> DEFINE Inv == TypeOK /\ PassInv /\ TurnInv /\ ActsInv /\ SourceInv /\ JoinedInv /\ FirstStands
<1>1. Init => Contract!Init /\ NoGoInv
  BY DEF Init, Contract!Init, NoGoInv
<1>2. Inv /\ NoGoInv => CompleteInv
  BY AnswersAll
<1>3. Inv /\ CompleteInv' /\ [Next]_vars => [Contract!Next]_(Contract!tvars)
  <2> SUFFICES ASSUME Inv, CompleteInv', [Next]_vars
               PROVE  [Contract!Next]_(Contract!tvars)
    OBVIOUS
  <2>1. Answerable' \subseteq Answerable
    BY AnswerableShrinks
  <2>2. result # "none" => UNCHANGED vars
    BY DEF JoinedInv, Next, vars, tierVars, Load, Open, Pass, Close, PassFails, Panic, Collect, Merge,
           Advance, Finish, Returned
  <2>3. CASE result # "none"
    <3>1. Answerable' = Answerable /\ result' = result /\ out' = out
      BY <2>2, <2>3, AnswerableShrinks DEF vars, tierVars
    <3> QED
      BY <3>1 DEF Contract!tvars
  <2>4. CASE result = "none" /\ result' = "none"
    BY <2>1, <2>4 DEF Contract!Next, Contract!Lose
  <2>5. CASE result = "none" /\ result' # "none"
    <3>1. UNCHANGED <<lost, spoiled>> /\ result' \in {"ok", "failed"}
      <4>1. CASE Load \/ Finish
        BY <2>5, <4>1 DEF Load, Finish, Return
      <4>2. CASE Pass
        BY <2>5, <4>2, PassIs DEF tierVars
      <4> QED
        BY <2>5, <4>1, <4>2 DEF Next, vars, tierVars, Open, Close, PassFails, Panic, Collect, Merge,
                                Advance, Returned
    <3>2. Answerable' = Answerable
      BY <3>1, AnswerableShrinks
    <3>3. CASE result' = "ok"
      <4>1. Fps(out)' = Answerable'
        BY <3>3 DEF CompleteInv
      <4> QED
        BY <2>5, <3>2, <3>3, <4>1 DEF Contract!Next, Contract!Deliver
    <3>4. CASE result' = "failed"
      BY <2>5, <3>2, <3>4 DEF Contract!Next, Contract!Refuse
    <3> QED
      BY <3>1, <3>3, <3>4
  <2> QED
    BY <2>3, <2>4, <2>5
<1>4. NoGoInv /\ [Next]_vars => NoGoInv'
  BY NoGoStep
<1> QED
  BY <1>1, <1>2, <1>3, <1>4, GoTierInvariant, PTL DEF Spec, KeepsContract, Contract!Spec
=============================================================================
