----------------------------- MODULE MCSettings -----------------------------
(***************************************************************************)
(* An instance of Settings for TLC: three flags, each given or not, well   *)
(* or not, in every place, and every state of the config files.            *)
(***************************************************************************)
EXTENDS Settings, TLC

MCDurations == {"10m", "1s", "2s", "3s"}

\* The ways to give flag f: a good value, at times an empty or a wrong one.
Ways(f, good, more) == {[g \in {} |-> ""]} \cup {f :> v : v \in {good} \cup more}
Both(a, b) == {x @@ y : x \in a, y \in b}

Files(state, keys) ==
  ("tarsier" :> [state |-> state, keys |-> keys])
    @@ ("other" :> [state |-> "whole", keys |-> "timeout" :> "1s"])
    @@ ("gone" :> [state |-> "missing", keys |-> [g \in {} |-> ""]])

Cli == Both(Ways("timeout", "1s", {"soon"}), Ways("log-level", "debug", {""}))
Env == Both(Ways("timeout", "2s", {"", "later"}), Ways("log-level", "warn", {"loud"}))
Cfg == Both(Ways("timeout", "3s", {"never"}), Ways("log-level", "error", {}))

MCGivens ==
       {[cmd |-> "scan", cli |-> c, env |-> e, files |-> Files(s, k)] :
          c \in Cli, e \in Env, s \in {"whole"}, k \in Cfg}
  \cup {[cmd |-> "check", cli |-> c, env |-> e, files |-> Files(s, k)] :
          c \in Both(Ways("policy", "p.yaml", {}), Ways("config", "other", {"", "gone"})),
          e \in Both(Ways("policy", "q.yaml", {""}), Ways("config", "gone", {})),
          s \in {"whole", "missing", "broken"},
          k \in Both(Ways("policy", "r.yaml", {}), Ways("output", "html", {"pdf"}))}
  \cup {[cmd |-> d, cli |-> "fail-on" :> "error", env |-> "fail-on" :> "info", files |-> Files("whole", k)] :
          d \in {"version", "check-cardinality"}, k \in {"policy" :> "r.yaml"}}
=============================================================================
