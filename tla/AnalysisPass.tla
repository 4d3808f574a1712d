---------------------------- MODULE AnalysisPass ----------------------------
(***************************************************************************)
(* One run of a go/analysis pass of the repository's own over one          *)
(* type-checked package, and the syntax it looks at.  analyzers/msgtrace   *)
(* and analyzers/otelresource have one shape: a first walk over the calls  *)
(* in the bodies of the function declarations that learns which of them    *)
(* are wrappers, then a walk over all calls that never descends below one  *)
(* it has looked at.                                                       *)
(*                                                                         *)
(* A package has its declarations and its calls in source order.  A call   *)
(* knows the declaration it is in (0: an initialiser outside of all) and   *)
(* the nearest call around it (0: none).  A call in a function literal is  *)
(* in the declaration that holds the literal, and inside the call whose    *)
(* argument or callee the literal is.                                      *)
(***************************************************************************)
EXTENDS Naturals, Sequences

\* The texts of the four diagnostics.
Direct == "Message published with no Headers"
Via    == "Message published via wrapper with no Headers"
Unnamed     == "OTel resource is created without service.name"
UnnamedCall == "wrapper constructs an OTel resource without service.name"

\* An argument: a composite literal of a message type, with or without a
\* Headers key; the address of one; or anything else.
ArgForms == {"headers", "bare", "address", "other"}

VARIABLES pkg,      \* the package
          stage,    \* "decls", then "calls"
          at,       \* the call that is next
          wrappers, \* the map wrappers: declaration -> position of the message
          diags     \* the diagnostics so far
passVars == <<pkg, stage, at, wrappers, diags>>

Begin(p) == /\ pkg' = p
            /\ stage' = "decls"
            /\ at' = 1
            /\ wrappers' = [f \in {} |-> 0]
            /\ diags' = <<>>

\* The calls around each call of package p.
Around(p) ==
  LET around[c \in DOMAIN p.calls] ==
        IF p.calls[c].outer = 0 THEN {} ELSE {p.calls[c].outer} \cup around[p.calls[c].outer]
  IN  around

Diagnostic(p, c, text) == [file |-> p.calls[c].file, line |-> p.calls[c].line, text |-> text]

\* The map w with an entry for declaration f.
Entered(w, f, position) == [g \in DOMAIN w \cup {f} |-> IF g = f THEN position ELSE w[g]]

\* insp.Nodes over the declarations, ast.Inspect of each body: a call in one
\* leaves the map at w.  Those outside of all are not come by.
VisitBody(w, found) ==
  /\ stage = "decls" /\ at \in DOMAIN pkg.calls
  /\ IF pkg.calls[at].decl # 0
     THEN wrappers' = w /\ diags' = diags \o found
     ELSE UNCHANGED <<wrappers, diags>>
  /\ at' = at + 1
  /\ UNCHANGED <<pkg, stage>>

TurnToCalls == /\ stage = "decls" /\ at \notin DOMAIN pkg.calls
               /\ stage' = "calls"
               /\ at' = 1
               /\ UNCHANGED <<pkg, wrappers, diags>>

\* insp.Nodes over the calls: what a call reports, if the walk gets to it.
VisitCall(found) ==
  /\ stage = "calls" /\ at \in DOMAIN pkg.calls
  /\ diags' = IF pkg.calls[at].outer = 0 THEN diags \o found ELSE diags
  /\ at' = at + 1
  /\ UNCHANGED <<pkg, stage, wrappers>>

PassEnded == stage = "calls" /\ at \notin DOMAIN pkg.calls
=============================================================================
