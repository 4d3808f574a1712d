--------------------------- MODULE SettingsProofs ---------------------------
(***************************************************************************)
(* Theorems about Settings, for any command line, environment and config   *)
(* files, and any texts that parse as durations.                           *)
(***************************************************************************)
EXTENDS Settings, Naturals, TLAPS

FlagSet(cmd) == {FlagsOf(cmd)[i] : i \in DOMAIN FlagsOf(cmd)}

-----------------------------------------------------------------------------
(* The inductive invariant.  A flag is as the command line leaves it until    *)
(* applyConfig comes to it, and as all the places together say from then on. *)

Named(f) == f \in DOMAIN given.cli

LineOK == \A f \in DOMAIN given.cli : f \in Flags /\ Parses(f, given.cli[f])

OnLine(f) == /\ value[f] = IF Named(f) THEN given.cli[f] ELSE Default(f)
             /\ f \in changed <=> Named(f)

Resolved(f) == /\ value[f] = Effective(f)
               /\ Parses(f, value[f])
               /\ f \in changed <=> \E s \in {"cli", "env", "file"} : Has(f, s)

FileRead == config = IF CountsFile.state = "whole" THEN CountsFile.keys ELSE [f \in {} |-> ""]

Pending == {todo[i] : i \in DOMAIN todo}

LoggerOK == value["log-level"] \in LogLevels /\ value["output"] \in Outputs

BaseInv == /\ given \in Givens
           /\ pc \in {"parse", "load", "apply", "logger", "required", "run", "failed"}
           /\ value = [f \in Flags |-> value[f]]
           /\ changed \subseteq Flags
           /\ todo \in Seq(Flags)

StageInv ==
  /\ pc \in {"parse", "load"} => config = [f \in {} |-> ""]
  /\ pc = "parse" => changed = {} /\ \A f \in Flags : value[f] = Default(f)
  /\ pc = "load" => \A f \in Flags : OnLine(f)
  /\ pc \in {"load", "apply"} => LineOK
  /\ pc = "apply" => /\ FileRead
                     /\ \A i, j \in DOMAIN todo : todo[i] = todo[j] => i = j
                     /\ \A f \in Pending : OnLine(f)
                     /\ \A f \in Flags \ Pending : Resolved(f)
  /\ pc \in {"logger", "required", "run"} => \A f \in Flags : Resolved(f)
  /\ pc \in {"required", "run"} => LoggerOK

-----------------------------------------------------------------------------

\* VisitAll comes by each flag once; the flags that are read by name are every
\* command's, the policy is check's.
LEMMA FlagsAreDistinct ==
  ASSUME NEW cmd \in Commands
  PROVE  /\ FlagsOf(cmd) \in Seq(FlagSet(cmd))
         /\ \A i, j \in DOMAIN FlagsOf(cmd) : FlagsOf(cmd)[i] = FlagsOf(cmd)[j] => i = j
         /\ "log-level" \in FlagSet(cmd) /\ "output" \in FlagSet(cmd) /\ "config" \in FlagSet(cmd)
         /\ cmd = "check" => "policy" \in FlagSet(cmd)
<1>1. CASE cmd = "version"
  BY <1>1 DEF FlagsOf, FlagSet
<1>2. CASE cmd = "check-cardinality"
  BY <1>2 DEF FlagsOf, FlagSet
<1>3. CASE cmd = "scan"
  BY <1>3 DEF FlagsOf, FlagSet
<1>4. CASE cmd = "check"
  BY <1>4 DEF FlagsOf, FlagSet
<1> QED
  BY <1>1, <1>2, <1>3, <1>4 DEF Commands

LEMMA FlagsDistinct ==
  ASSUME given \in Givens
  PROVE  /\ FlagsOf(given.cmd) \in Seq(Flags)
         /\ Flags = {FlagsOf(given.cmd)[i] : i \in DOMAIN FlagsOf(given.cmd)}
         /\ \A i, j \in DOMAIN FlagsOf(given.cmd) :
               FlagsOf(given.cmd)[i] = FlagsOf(given.cmd)[j] => i = j
         /\ "log-level" \in Flags /\ "output" \in Flags /\ "config" \in Flags
         /\ given.cmd = "check" => "policy" \in Flags
<1>1. given.cmd \in Commands
  BY GivensAssumption
<1>2. Flags = FlagSet(given.cmd)
  BY Zenon DEF Flags, FlagSet
<1> QED
  BY ONLY <1>1, <1>2, FlagsAreDistinct DEF FlagSet

\* The next flag is taken off a list of flags that differ.
LEMMA TakeOff ==
  ASSUME NEW S, NEW s \in Seq(S), s # <<>>,
         \A i, j \in DOMAIN s : s[i] = s[j] => i = j
  PROVE  /\ Head(s) \in {s[i] : i \in DOMAIN s} /\ Head(s) \in S
         /\ Tail(s) \in Seq(S)
         /\ \A i, j \in DOMAIN Tail(s) : Tail(s)[i] = Tail(s)[j] => i = j
         /\ {Tail(s)[i] : i \in DOMAIN Tail(s)} = {s[i] : i \in DOMAIN s} \ {Head(s)}
<1>1. /\ DOMAIN s = 1..Len(s) /\ Len(s) \in Nat /\ Len(s) > 0
      /\ Head(s) = s[1] /\ 1 \in DOMAIN s /\ Tail(s) \in Seq(S)
      /\ Len(Tail(s)) = Len(s) - 1
      /\ DOMAIN Tail(s) = 1..(Len(s) - 1)
      /\ \A i \in DOMAIN Tail(s) : Tail(s)[i] = s[i + 1] /\ i + 1 \in DOMAIN s
  OBVIOUS
<1>2. \A i, j \in DOMAIN Tail(s) : Tail(s)[i] = Tail(s)[j] => i = j
  BY <1>1
<1>3. ASSUME NEW x \in {Tail(s)[i] : i \in DOMAIN Tail(s)}
      PROVE  x \in {s[i] : i \in DOMAIN s} /\ x # Head(s)
  <2>1. PICK i \in DOMAIN Tail(s) : x = Tail(s)[i]
    BY <1>3
  <2> QED
    BY <1>1, <2>1
<1>4. ASSUME NEW x \in {s[i] : i \in DOMAIN s}, x # Head(s)
      PROVE  x \in {Tail(s)[i] : i \in DOMAIN Tail(s)}
  <2>1. PICK i \in DOMAIN s : x = s[i]
    BY <1>4
  <2>2. i - 1 \in DOMAIN Tail(s) /\ Tail(s)[i - 1] = s[i]
    BY <1>1, <1>4, <2>1
  <2> QED
    BY <2>1, <2>2
<1> QED
  BY <1>1, <1>2, <1>3, <1>4

-----------------------------------------------------------------------------
LEMMA InitHolds == Init => BaseInv /\ StageInv
<1> SUFFICES ASSUME Init PROVE BaseInv /\ StageInv
  OBVIOUS
<1>1. BaseInv
  BY DEF Init, BaseInv
<1>2. StageInv
  BY DEF Init, StageInv
<1> QED
  BY <1>1, <1>2

LEMMA BaseStep == BaseInv /\ [Next]_vars => BaseInv'
<1> SUFFICES ASSUME BaseInv, [Next]_vars PROVE BaseInv'
  OBVIOUS
<1>1. given' = given /\ given \in Givens /\ Flags' = Flags
  BY DEF BaseInv, Next, vars, Parse, LoadConfig, ApplyConfig, SetupLogger, Required, Ended, Flags
<1>2. CASE UNCHANGED vars
  BY <1>1, <1>2 DEF BaseInv, vars
<1>3. CASE Parse
  <2>1. CASE Fail
    BY <1>1, <1>3, <2>1 DEF BaseInv, Fail
  <2>2. CASE ~Fail
    <3>1. /\ \A f \in DOMAIN given.cli : f \in Flags
          /\ pc' = "load"
          /\ value' = [f \in Flags |-> IF f \in DOMAIN given.cli THEN given.cli[f] ELSE value[f]]
          /\ changed' = DOMAIN given.cli
          /\ UNCHANGED <<config, todo>>
      BY <1>3, <2>2 DEF Parse
    <3> QED
      BY <1>1, <3>1 DEF BaseInv
  <2> QED
    BY <2>1, <2>2
<1>4. CASE LoadConfig
  <2>1. CASE Fail
    BY <1>1, <1>4, <2>1 DEF BaseInv, Fail
  <2>2. CASE ~Fail
    <3>1. /\ pc' = "apply" /\ UNCHANGED <<value, changed>>
          /\ todo' = FlagsOf(given.cmd)
      BY <1>4, <2>2 DEF LoadConfig
    <3> QED
      BY <1>1, <3>1, FlagsDistinct DEF BaseInv
  <2> QED
    BY <2>1, <2>2
<1>5. CASE ApplyConfig
  <2>1. CASE UNCHANGED <<value, changed, config, todo>> /\ pc' \in {"logger", "failed"}
    BY <1>1, <2>1 DEF BaseInv
  <2>2. CASE /\ todo # <<>> /\ todo' = Tail(todo) /\ pc' = pc /\ UNCHANGED <<value, changed>>
    BY <1>1, <2>2 DEF BaseInv
  <2>3. CASE /\ todo # <<>> /\ todo' = Tail(todo) /\ pc' = pc
             /\ value' = [value EXCEPT ![Head(todo)] = Get(Head(todo))]
             /\ changed' = changed \cup {Head(todo)}
    <3>1. Head(todo) \in Flags /\ Tail(todo) \in Seq(Flags)
      BY <2>3 DEF BaseInv
    <3>2. value' = [f \in Flags |-> IF f = Head(todo) THEN Get(Head(todo)) ELSE value[f]]
      BY <2>3, <3>1 DEF BaseInv
    <3> QED
      BY <1>1, <2>3, <3>1, <3>2 DEF BaseInv
  <2> QED
    BY <1>5, <2>1, <2>2, <2>3 DEF ApplyConfig, Fail
<1>6. CASE SetupLogger
  BY <1>1, <1>6 DEF BaseInv, SetupLogger, Fail
<1>7. CASE Required
  BY <1>1, <1>7 DEF BaseInv, Required, Fail
<1> QED
  BY <1>2, <1>3, <1>4, <1>5, <1>6, <1>7 DEF Next, Ended

-----------------------------------------------------------------------------
LEMMA Defaults == Default("config") = "" /\ Default("timeout") = "10m"
<1>1. Default("config") = ""
  BY DEF Default
<1>2. Default("timeout") = "10m"
  BY DEF Default
<1> QED
  BY <1>1, <1>2

LEMMA HasWhere ==
  ASSUME NEW f
  PROVE  /\ Has(f, "cli") <=> Named(f)
         /\ Has(f, "env") <=> InEnv(f)
         /\ Has(f, "file") <=> CountsFile.state = "whole" /\ f \in DOMAIN CountsFile.keys
<1>1. Has(f, "cli") <=> Named(f)
  BY DEF Has, Named
<1>2. Has(f, "env") <=> InEnv(f)
  BY DEF Has, InEnv
<1>3. Has(f, "file") <=> CountsFile.state = "whole" /\ f \in DOMAIN CountsFile.keys
  BY DEF Has
<1> QED
  BY <1>1, <1>2, <1>3

\* The file that loadConfig reads is the one that counts.
LEMMA ReadsWhatCounts ==
  ASSUME OnLine("config")
  PROVE  /\ given.files[IF value["config"] # "" THEN value["config"] ELSE ConfigName] = CountsFile
         /\ value["config"] # "" => Named("config")
  BY Defaults DEF OnLine, Named, CountsFile

\* What the file says is what applyConfig finds in it.
LEMMA FileHas ==
  ASSUME FileRead, NEW f
  PROVE  /\ Has(f, "file") <=> f \in DOMAIN config
         /\ f \in DOMAIN config => config[f] = CountsFile.keys[f]
<1>1. CASE CountsFile.state = "whole"
  BY <1>1, HasWhere DEF FileRead
<1>2. CASE CountsFile.state # "whole"
  BY <1>2, HasWhere DEF FileRead
<1> QED
  BY <1>1, <1>2

\* A flag that applyConfig passes over is as it should be: the command line
\* has it, or nobody has.
LEMMA PassedOver ==
  ASSUME LineOK, FileRead, NEW f \in Flags, OnLine(f), f \in changed \/ ~IsSet(f)
  PROVE  Resolved(f)
<1>1. CASE Named(f)
  BY <1>1, HasWhere DEF LineOK, OnLine, Named, Resolved, Effective
<1>2. CASE ~Named(f)
  <2>1. ~Has(f, "cli") /\ ~Has(f, "env") /\ ~Has(f, "file") /\ f \notin changed
    BY <1>2, HasWhere, FileHas DEF OnLine, IsSet
  <2>2. value[f] = Effective(f) /\ value[f] = Default(f)
    BY <1>2, <2>1 DEF OnLine, Effective
  <2>3. Parses(f, Default(f))
    BY Defaults, GivensAssumption DEF Parses
  <2> QED
    BY <2>1, <2>2, <2>3 DEF Resolved
<1> QED
  BY <1>1, <1>2

\* What it finds elsewhere is what counts.
LEMMA GetsEffective ==
  ASSUME FileRead, NEW f, ~Named(f), IsSet(f)
  PROVE  /\ Get(f) = Effective(f)
         /\ \E s \in {"cli", "env", "file"} : Has(f, s)
<1>1. CASE InEnv(f)
  BY <1>1, HasWhere DEF Get, Effective, InEnv
<1>2. CASE ~InEnv(f)
  BY <1>2, HasWhere, FileHas DEF Get, Effective, IsSet
<1> QED
  BY <1>1, <1>2

-----------------------------------------------------------------------------
\* Where a setting comes from is given from the start.
LEMMA SourcesStay ==
  ASSUME UNCHANGED given, NEW f
  PROVE  /\ CountsFile' = CountsFile
         /\ \A s \in {"cli", "env", "file"} : Has(f, s)' <=> Has(f, s)
         /\ Effective(f)' = Effective(f)
<1>1. CountsFile' = CountsFile
  BY DEF CountsFile
<1>2. Has(f, "cli")' <=> Has(f, "cli")
  BY DEF Has
<1>3. Has(f, "env")' <=> Has(f, "env")
  BY DEF Has
<1>4. Has(f, "file")' <=> Has(f, "file")
  BY <1>1 DEF Has
<1>5. Effective(f)' = Effective(f)
  BY <1>1, <1>2, <1>3, <1>4 DEF Effective
<1> QED
  BY <1>1, <1>2, <1>3, <1>4, <1>5

\* A flag does not change unless its value or the set of changed flags does.
LEMMA FlagStays ==
  ASSUME UNCHANGED given, NEW f, value'[f] = value[f], f \in changed' <=> f \in changed
  PROVE  (OnLine(f)' <=> OnLine(f)) /\ (Resolved(f)' <=> Resolved(f))
<1>1. OnLine(f)' <=> OnLine(f)
  BY DEF OnLine, Named
<1>2. Parses(f, value[f])' <=> Parses(f, value[f])
  BY DEF Parses
<1>3. (\E s \in {"cli", "env", "file"} : Has(f, s))' <=> \E s \in {"cli", "env", "file"} : Has(f, s)
  BY SourcesStay
<1>4. Resolved(f)' <=> Resolved(f)
  BY <1>2, <1>3, SourcesStay DEF Resolved
<1> QED
  BY <1>1, <1>4

LEMMA StageStep == BaseInv /\ BaseInv' /\ StageInv /\ [Next]_vars => StageInv'
<1> SUFFICES ASSUME BaseInv, BaseInv', StageInv, [Next]_vars PROVE StageInv'
  OBVIOUS
<1>1. given' = given /\ given \in Givens /\ Flags' = Flags
  BY DEF BaseInv, Next, vars, Parse, LoadConfig, ApplyConfig, SetupLogger, Required, Ended, Flags
<1>2. LineOK' <=> LineOK
  BY <1>1 DEF LineOK, Parses
<1>3. CASE pc' = "failed"
  BY <1>3 DEF StageInv
<1>4. CASE UNCHANGED vars
  <2>1. FileRead' <=> FileRead
    BY <1>4 DEF vars, FileRead, CountsFile
  <2>2. Pending' = Pending
    BY <1>4 DEF vars, Pending
  <2>3. LoggerOK' <=> LoggerOK
    BY <1>4 DEF vars, LoggerOK
  <2>4. \A f : (OnLine(f)' <=> OnLine(f)) /\ (Resolved(f)' <=> Resolved(f))
    BY <1>4, FlagStays DEF vars
  <2>5. UNCHANGED <<pc, config, changed, value, todo>>
    BY <1>4 DEF vars
  <2> QED
    BY <1>1, <1>2, <2>1, <2>2, <2>3, <2>4, <2>5 DEF StageInv
<1>5. CASE Parse /\ pc' # "failed"
  <2>1. /\ pc = "parse" /\ pc' = "load" /\ LineOK
        /\ value' = [f \in Flags |-> IF f \in DOMAIN given.cli THEN given.cli[f] ELSE value[f]]
        /\ changed' = DOMAIN given.cli
        /\ config' = config
    BY <1>5 DEF Parse, Fail, LineOK
  <2>2. \A f \in Flags : OnLine(f)'
    BY <1>1, <2>1 DEF StageInv, OnLine, Named
  <2> QED
    BY <1>1, <1>2, <2>1, <2>2 DEF StageInv
<1>6. CASE LoadConfig /\ pc' # "failed"
  <2>1. /\ pc = "load" /\ pc' = "apply" /\ LineOK
        /\ config = [f \in {} |-> ""]
        /\ \A f \in Flags : OnLine(f)
        /\ UNCHANGED <<value, changed>>
        /\ todo' = FlagsOf(given.cmd)
    BY <1>6 DEF LoadConfig, Fail, StageInv
  <2>2. OnLine("config")
    BY <1>1, <2>1, FlagsDistinct
  <2>3. config' = IF CountsFile.state = "whole" THEN CountsFile.keys ELSE config
    BY <1>6, <2>2, ReadsWhatCounts DEF LoadConfig, Fail
  <2>4. FileRead'
    BY <1>1, <2>1, <2>3 DEF FileRead, CountsFile
  <2>5. Pending' = Flags
    BY <1>1, <2>1, FlagsDistinct DEF Pending
  <2>6. \A i, j \in DOMAIN todo' : todo'[i] = todo'[j] => i = j
    BY <1>1, <2>1, FlagsDistinct
  <2>7. \A f \in Flags : OnLine(f)'
    BY <1>1, <2>1, FlagStays
  <2> QED
    BY <1>1, <1>2, <2>1, <2>4, <2>5, <2>6, <2>7 DEF StageInv
<1>7. CASE ApplyConfig /\ pc' # "failed"
  <2>1. /\ pc = "apply" /\ LineOK /\ FileRead
        /\ \A i, j \in DOMAIN todo : todo[i] = todo[j] => i = j
        /\ \A f \in Pending : OnLine(f)
        /\ \A f \in Flags \ Pending : Resolved(f)
        /\ UNCHANGED config
    BY <1>7 DEF ApplyConfig, Fail, StageInv
  <2>2. FileRead'
    BY <1>1, <2>1 DEF FileRead, CountsFile
  <2>3. CASE todo = <<>>
    <3>1. pc' = "logger" /\ UNCHANGED <<value, changed>> /\ Pending = {}
      BY <1>7, <2>3 DEF ApplyConfig, Fail, Pending
    <3>2. \A f \in Flags : Resolved(f)'
      BY <1>1, <2>1, <3>1, FlagStays
    <3> QED
      BY <1>1, <3>1, <3>2 DEF StageInv
  <2>4. CASE todo # <<>>
    <3>1. todo' = Tail(todo) /\ pc' = "apply"
      BY <1>7, <2>1, <2>4 DEF ApplyConfig, Fail
    <3>2. PICK g : g = Head(todo)
      OBVIOUS
    <3>3. /\ g \in Pending /\ g \in Flags
          /\ \A i, j \in DOMAIN todo' : todo'[i] = todo'[j] => i = j
          /\ Pending' = Pending \ {g}
      <4>1. todo \in Seq(Flags)
        BY DEF BaseInv
      <4>2. /\ Head(todo) \in Pending /\ Head(todo) \in Flags
            /\ \A i, j \in DOMAIN Tail(todo) : Tail(todo)[i] = Tail(todo)[j] => i = j
            /\ {Tail(todo)[i] : i \in DOMAIN Tail(todo)} = Pending \ {Head(todo)}
        BY ONLY <2>1, <2>4, <4>1, TakeOff, Zenon DEF Pending
      <4> QED
        BY <3>1, <3>2, <4>2 DEF Pending
    <3>4. OnLine(g)
      BY <2>1, <3>3
    <3>5. /\ \A f \in Flags \ {g} : value'[f] = value[f] /\ (f \in changed' <=> f \in changed)
          /\ Resolved(g)'
      <4>1. CASE g \in changed \/ ~IsSet(g)
        <5>1. UNCHANGED <<value, changed>>
          BY <1>7, <2>4, <3>2, <4>1 DEF ApplyConfig, Fail
        <5>2. Resolved(g)
          BY <2>1, <3>3, <3>4, <4>1, PassedOver
        <5> QED
          BY <1>1, <5>1, <5>2, FlagStays
      <4>2. CASE ~(g \in changed \/ ~IsSet(g))
        <5>1. /\ value' = [value EXCEPT ![g] = Get(g)]
              /\ changed' = changed \cup {g}
              /\ Parses(g, Get(g))
          BY <1>7, <2>4, <3>2, <4>2 DEF ApplyConfig, Fail
        <5>2. value'[g] = Get(g) /\ \A f \in Flags \ {g} : value'[f] = value[f]
          BY <3>3, <5>1 DEF BaseInv
        <5>3. ~Named(g)
          BY <3>4, <4>2 DEF OnLine
        <5>4. Get(g) = Effective(g) /\ \E s \in {"cli", "env", "file"} : Has(g, s)
          BY <2>1, <4>2, <5>3, GetsEffective
        <5>5. value'[g] = Effective(g)' /\ (\E s \in {"cli", "env", "file"} : Has(g, s))'
          BY <1>1, <5>2, <5>4, SourcesStay
        <5>6. Parses(g, value[g])'
          BY <5>1, <5>2 DEF Parses
        <5> QED
          BY <5>1, <5>2, <5>5, <5>6 DEF Resolved
      <4> QED
        BY <4>1, <4>2
    <3>6. \A f \in Pending' : OnLine(f)'
      <4> SUFFICES ASSUME NEW f \in Pending' PROVE OnLine(f)'
        OBVIOUS
      <4>1. f \in Pending /\ f # g
        BY <3>3
      <4>2. f \in Flags
        BY <4>1 DEF BaseInv, Pending
      <4> QED
        BY <1>1, <2>1, <3>5, <4>1, <4>2, FlagStays
    <3>7. \A f \in Flags \ Pending' : Resolved(f)'
      <4> SUFFICES ASSUME NEW f \in Flags, f \notin Pending' PROVE Resolved(f)'
        OBVIOUS
      <4>1. CASE f = g
        BY <3>5, <4>1
      <4>2. CASE f # g
        BY <1>1, <2>1, <3>3, <3>5, <4>2, FlagStays
      <4> QED
        BY <4>1, <4>2
    <3> QED
      BY <1>1, <1>2, <2>1, <2>2, <3>1, <3>3, <3>6, <3>7 DEF StageInv
  <2> QED
    BY <2>3, <2>4
<1>8. CASE SetupLogger /\ pc' # "failed"
  <2>1. /\ pc = "logger" /\ pc' = "required" /\ LoggerOK
        /\ UNCHANGED <<value, changed>>
        /\ \A f \in Flags : Resolved(f)
    BY <1>8 DEF SetupLogger, Fail, LoggerOK, StageInv
  <2>2. LoggerOK' /\ \A f \in Flags : Resolved(f)'
    BY <1>1, <2>1, FlagStays DEF LoggerOK
  <2> QED
    BY <1>1, <2>1, <2>2 DEF StageInv
<1>9. CASE Required /\ pc' # "failed"
  <2>1. /\ pc = "required" /\ pc' = "run" /\ LoggerOK
        /\ UNCHANGED <<value, changed>>
        /\ \A f \in Flags : Resolved(f)
    BY <1>9 DEF Required, Fail, StageInv
  <2>2. LoggerOK' /\ \A f \in Flags : Resolved(f)'
    BY <1>1, <2>1, FlagStays DEF LoggerOK
  <2> QED
    BY <1>1, <2>1, <2>2 DEF StageInv
<1> QED
  BY <1>3, <1>4, <1>5, <1>6, <1>7, <1>8, <1>9 DEF Next, Ended

LEMMA SettingsCorrect == Spec => [](BaseInv /\ StageInv)
  BY InitHolds, BaseStep, StageStep, PTL DEF Spec

\* The settings are well typed.
THEOREM TypeCorrect == Spec => []TypeOK
<1>1. BaseInv => TypeOK
  <2> SUFFICES ASSUME BaseInv PROVE TypeOK
    OBVIOUS
  <2>1. given.cmd \in Commands
    BY GivensAssumption DEF BaseInv
  <2>2. DOMAIN value = Flags
    BY DEF BaseInv
  <2> QED
    BY <2>1, <2>2 DEF BaseInv, TypeOK
<1> QED
  BY <1>1, SettingsCorrect, PTL

\* Whatever the four places say, a command runs on flag, environment, file and
\* default in that order, all of it (root.go:27, applyConfig).
THEOREM PrecedenceHolds == Spec => []Precedence
<1>1. StageInv => Precedence
  <2> SUFFICES ASSUME StageInv, pc = "run" PROVE Precedence
    BY DEF Precedence
  <2>1. LoggerOK /\ \A f \in Flags : Resolved(f)
    BY DEF StageInv
  <2> QED
    BY <2>1 DEF Precedence, LoggerOK, Resolved
<1> QED
  BY <1>1, SettingsCorrect, PTL

LEMMA RefusalStep ==
  BaseInv /\ StageInv /\ RefusedForCause /\ [Next]_vars => RefusedForCause'
<1> SUFFICES ASSUME BaseInv, StageInv, RefusedForCause, [Next]_vars, pc' = "failed"
             PROVE  RefusedForCause'
  BY DEF RefusedForCause
<1>1. given' = given /\ given \in Givens
  BY DEF BaseInv, Next, vars, Parse, LoadConfig, ApplyConfig, SetupLogger, Required, Ended
<1> DEFINE Cause ==
      \/ \E f \in DOMAIN given.cli : f \notin Flags \/ ~Parses(f, given.cli[f])
      \/ CountsFile.state = "broken"
      \/ CountsFile.state = "missing" /\ "config" \in DOMAIN given.cli
      \/ \E f \in Flags : ~Parses(f, Effective(f))
      \/ Effective("log-level") \notin LogLevels \/ Effective("output") \notin Outputs
      \/ given.cmd = "check" /\ \A s \in {"cli", "env", "file"} : ~Has("policy", s)
<1>2. Cause => RefusedForCause'
  <2>1. /\ CountsFile' = CountsFile /\ Flags' = Flags
        /\ \A f : Effective(f)' = Effective(f)
        /\ \A f : \A s \in {"cli", "env", "file"} : Has(f, s)' <=> Has(f, s)
    BY <1>1, SourcesStay DEF Flags
  <2>2. \A f, v : Parses(f, v)' <=> Parses(f, v)
    BY DEF Parses
  <2> QED
    BY <1>1, <2>1, <2>2 DEF RefusedForCause
<1>3. CASE UNCHANGED vars \/ Ended
  <2>1. pc = "failed"
    BY <1>3 DEF vars, Ended
  <2>2. Cause
    BY <2>1 DEF RefusedForCause
  <2> QED
    BY <1>2, <2>2
<1>4. CASE Parse
  BY <1>2, <1>4 DEF Parse
<1>5. CASE LoadConfig
  <2>1. pc = "load" /\ \A f \in Flags : OnLine(f)
    BY <1>5 DEF LoadConfig, StageInv
  <2>2. OnLine("config")
    BY <1>1, <2>1, FlagsDistinct
  <2>3. /\ CountsFile.state # "whole"
        /\ ~(CountsFile.state = "missing" /\ value["config"] = "")
    BY <1>5, <2>2, ReadsWhatCounts DEF LoadConfig, Fail
  <2>4. value["config"] # "" => "config" \in DOMAIN given.cli
    BY <2>2, ReadsWhatCounts DEF Named
  <2>5. CountsFile.state \in {"whole", "broken", "missing"}
    BY <1>1, GivensAssumption DEF CountsFile
  <2> QED
    BY <1>2, <2>3, <2>4, <2>5
<1>6. CASE ApplyConfig
  <2>1. /\ pc = "apply" /\ todo # <<>> /\ FileRead
        /\ \A f \in Pending : OnLine(f)
    BY <1>6 DEF ApplyConfig, Fail, StageInv
  <2>2. Head(todo) \in Flags /\ OnLine(Head(todo))
    BY <2>1 DEF BaseInv, Pending
  <2>3. Head(todo) \notin changed /\ IsSet(Head(todo)) /\ ~Parses(Head(todo), Get(Head(todo)))
    BY <1>6, <2>1 DEF ApplyConfig, Fail
  <2>4. Get(Head(todo)) = Effective(Head(todo))
    BY <2>1, <2>2, <2>3, GetsEffective DEF OnLine
  <2> QED
    BY <1>2, <2>2, <2>3, <2>4
<1>7. CASE SetupLogger
  <2>1. pc = "logger" /\ \A f \in Flags : Resolved(f)
    BY <1>7 DEF SetupLogger, StageInv
  <2>2. /\ value["log-level"] = Effective("log-level")
        /\ value["output"] = Effective("output")
    BY <1>1, <2>1, FlagsDistinct DEF Resolved
  <2> QED
    BY <1>2, <1>7, <2>2 DEF SetupLogger
<1>8. CASE Required
  <2>1. /\ pc = "required" /\ given.cmd = "check" /\ "policy" \notin changed
        /\ \A f \in Flags : Resolved(f)
    BY <1>8 DEF Required, StageInv
  <2>2. \A s \in {"cli", "env", "file"} : ~Has("policy", s)
    BY <1>1, <2>1, FlagsDistinct DEF Resolved
  <2> QED
    BY <1>2, <2>1, <2>2
<1> QED
  BY <1>3, <1>4, <1>5, <1>6, <1>7, <1>8 DEF Next

\* Whatever the four places say, nobody is refused but for something wrong in
\* a place that counts (root.go, loadConfig, applyConfig, setupLogger).
THEOREM RefusalsAreJustified == Spec => []RefusedForCause
<1>1. Init => RefusedForCause
  BY DEF Init, RefusedForCause
<1> QED
  BY <1>1, SettingsCorrect, RefusalStep, PTL DEF Spec
=============================================================================
