------------------------------ MODULE Settings ------------------------------
(***************************************************************************)
(* How a command comes by its settings (cli/root.go): the command line is  *)
(* parsed, a config file is read, what environment and file say is applied *)
(* to the flags one at a time, the logger is set up, and the required      *)
(* flags are looked for.  Only then does the command run, on settings of   *)
(* which ScanLifecycle's invocations are the interesting part.             *)
(***************************************************************************)
EXTENDS Sequences

CONSTANTS Givens,     \* what a command may be started with and find
          Durations,  \* the texts that parse as durations
          ConfigName  \* the config file that is looked for unless one is named

Commands == {"version", "check-cardinality", "scan", "check"}

\* Under every name that is looked for there is a whole config file, a broken
\* one or none; the default timeout is a duration.
ASSUME GivensAssumption ==
  /\ \A g \in Givens :
       /\ g.cmd \in Commands
       /\ \A n \in DOMAIN g.files : g.files[n].state \in {"whole", "broken", "missing"}
       /\ ConfigName \in DOMAIN g.files
       /\ "config" \in DOMAIN g.cli => g.cli["config"] \in {""} \cup DOMAIN g.files
  /\ "10m" \in Durations

\* The flags of each command and of the root, in the order VisitAll has.
FlagsOf(cmd) ==
  CASE cmd = "version" -> <<"config", "log-level", "output">>
    [] cmd = "check-cardinality" -> <<"config", "fail-on", "log-level", "output", "timeout">>
    [] cmd = "scan" -> <<"baseline", "baseline-write", "config", "engine", "fail-on",
                         "log-level", "output", "rules", "timeout">>
    [] cmd = "check" -> <<"baseline", "baseline-write", "config", "engine", "log-level",
                          "output", "policy", "rules", "timeout">>

Default(f) == CASE f = "log-level" -> "info"
                [] f = "output"    -> "text"
                [] f = "engine"    -> "pattern"
                [] f = "timeout"   -> "10m"
                [] f = "fail-on"   -> "none"
                [] OTHER           -> ""

VARIABLES given,   \* [cmd, cli, env, files]: command line, environment, config files
          pc,      \* "parse", "load", "apply", "logger", "required", "run", "failed"
          value,   \* the flags' values
          changed, \* the flags that have been set
          config,  \* the config file that was read
          todo     \* applyConfig: the flags to come
vars == <<given, pc, value, changed, config, todo>>

Flags == {FlagsOf(given.cmd)[i] : i \in DOMAIN FlagsOf(given.cmd)}

\* Flag.Value.Set: only a duration can be refused.
Parses(f, v) == f = "timeout" => v \in Durations

Init == /\ given \in Givens
        /\ pc = "parse"
        /\ value = [f \in Flags |-> Default(f)]
        /\ changed = {} /\ todo = <<>>
        /\ config = [f \in {} |-> ""]

Fail == pc' = "failed" /\ UNCHANGED <<value, changed, config, todo>>

\* A flag the command does not have, or a value that does not parse.
Parse ==
  /\ pc = "parse"
  /\ LET ok == \A f \in DOMAIN given.cli : f \in Flags /\ Parses(f, given.cli[f])
     IN  \/ /\ ok
            /\ pc' = "load"
            /\ value' = [f \in Flags |-> IF f \in DOMAIN given.cli THEN given.cli[f] ELSE value[f]]
            /\ changed' = DOMAIN given.cli
            /\ UNCHANGED <<config, todo>>
         \/ ~ok /\ Fail
  /\ UNCHANGED given

\* Mutant: every key of the file is a flag.
LoadConfigKeys ==
  /\ pc = "load"
  /\ pc' = "apply"
  /\ config' = given.files[ConfigName].keys
  /\ todo' = <<>>
  /\ changed' = changed \cup DOMAIN config'
  /\ UNCHANGED <<given, value>>

\* loadConfig: a file that is named has to be there.
LoadConfig ==
  /\ pc = "load"
  /\ LET named == value["config"] # ""
         file  == given.files[IF named THEN value["config"] ELSE ConfigName]
         read  == file.state = "whole" \/ (file.state = "missing" /\ ~named)
     IN  \/ /\ read
            /\ pc' = "apply"
            /\ config' = IF file.state = "whole" THEN file.keys ELSE config
            /\ todo' = FlagsOf(given.cmd)
            /\ UNCHANGED <<value, changed>>
         \/ ~read /\ Fail
  /\ UNCHANGED given

\* viper: an environment variable, unless it is empty, before the file.
InEnv(f) == f \in DOMAIN given.env /\ given.env[f] # ""
IsSet(f) == InEnv(f) \/ f \in DOMAIN config

\* Mutant: the file first.
GetFileFirst(f) == IF f \in DOMAIN config THEN config[f] ELSE given.env[f]

Get(f) == IF InEnv(f) THEN given.env[f] ELSE config[f]

\* applyConfig, the next flag: one that was given on the command line is left
\* alone, and so is its value elsewhere, parse or not.
ApplyConfig ==
  /\ pc = "apply"
  /\ \/ /\ todo = <<>>
        /\ pc' = "logger"
        /\ UNCHANGED <<value, changed, config, todo>>
     \/ /\ todo # <<>>
        /\ LET f == Head(todo)
           IN  \/ /\ f \in changed \/ ~IsSet(f)
                  /\ todo' = Tail(todo)
                  /\ UNCHANGED <<pc, value, changed, config>>
               \/ /\ f \notin changed /\ IsSet(f) /\ Parses(f, Get(f))
                  /\ value' = [value EXCEPT ![f] = Get(f)]
                  /\ changed' = changed \cup {f}
                  /\ todo' = Tail(todo)
                  /\ UNCHANGED <<pc, config>>
               \/ f \notin changed /\ IsSet(f) /\ ~Parses(f, Get(f)) /\ Fail
  /\ UNCHANGED given

LogLevels == {"debug", "info", "warn", "error"}
Outputs   == {"text", "json", "html", ""}

SetupLogger ==
  /\ pc = "logger"
  /\ LET ok == value["log-level"] \in LogLevels /\ value["output"] \in Outputs
     IN  \/ ok /\ pc' = "required" /\ UNCHANGED <<value, changed, config, todo>>
         \/ ~ok /\ Fail
  /\ UNCHANGED given

\* Mutant: only the command line counts.
RequiredOnCommandLine ==
  /\ pc = "required"
  /\ \/ /\ given.cmd = "check" => "policy" \in DOMAIN given.cli
        /\ pc' = "run"
        /\ UNCHANGED <<value, changed, config, todo>>
     \/ given.cmd = "check" /\ "policy" \notin DOMAIN given.cli /\ Fail
  /\ UNCHANGED given

\* cobra looks for check's policy last: applyConfig may have set it.
Required ==
  /\ pc = "required"
  /\ \/ /\ given.cmd = "check" => "policy" \in changed
        /\ pc' = "run"
        /\ UNCHANGED <<value, changed, config, todo>>
     \/ given.cmd = "check" /\ "policy" \notin changed /\ Fail
  /\ UNCHANGED given

Ended == pc \in {"run", "failed"} /\ UNCHANGED vars

Next == Parse \/ LoadConfig \/ ApplyConfig \/ SetupLogger \/ Required \/ Ended

Spec == Init /\ [][Next]_vars

-----------------------------------------------------------------------------
TypeOK ==
  /\ given.cmd \in Commands
  /\ pc \in {"parse", "load", "apply", "logger", "required", "run", "failed"}
  /\ DOMAIN value = Flags
  /\ changed \subseteq Flags
  /\ todo \in Seq(Flags)

\* The config file that counts: the command line alone names it, as the
\* environment's name for it and a file's own are read too late.
CountsFile == LET cli == given.cli
              IN  given.files[IF "config" \in DOMAIN cli /\ cli["config"] # ""
                              THEN cli["config"] ELSE ConfigName]

\* Where a setting comes from: the first of command line, environment and file
\* that has it, an empty environment variable being none.
Has(f, source) ==
  CASE source = "cli"  -> f \in DOMAIN given.cli
    [] source = "env"  -> f \in DOMAIN given.env /\ given.env[f] # ""
    [] source = "file" -> CountsFile.state = "whole" /\ f \in DOMAIN CountsFile.keys

Effective(f) == IF Has(f, "cli") THEN given.cli[f]
                ELSE IF Has(f, "env") THEN given.env[f]
                ELSE IF Has(f, "file") THEN CountsFile.keys[f]
                ELSE Default(f)

\* A command runs on the settings that root.go:27 promises -- "flag > env >
\* config file > default" -- each of them whole: no error half-way through
\* leaves it with some applied and some not (loadConfig, applyConfig).  The one exception is the name of
\* the config file, which only the command line gives.
Precedence ==
  pc = "run" =>
    /\ \A f \in Flags \ {"config"} : value[f] = Effective(f) /\ Parses(f, value[f])
    /\ value["log-level"] \in LogLevels /\ value["output"] \in Outputs

\* A command is refused for a cause: something wrong on the command line, a
\* config file that is broken or named and missing, a value wrong in the place
\* that counts, or a policy that nobody gives.  A wrong value in a place that
\* does not count, and a policy that only the file gives, refuse nobody.
RefusedForCause ==
  pc = "failed" =>
    \/ \E f \in DOMAIN given.cli : f \notin Flags \/ ~Parses(f, given.cli[f])
    \/ CountsFile.state = "broken"
    \/ CountsFile.state = "missing" /\ "config" \in DOMAIN given.cli
    \/ \E f \in Flags : ~Parses(f, Effective(f))
    \/ Effective("log-level") \notin LogLevels \/ Effective("output") \notin Outputs
    \/ given.cmd = "check" /\ \A s \in {"cli", "env", "file"} : ~Has("policy", s)
=============================================================================
