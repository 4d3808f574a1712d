---------------------------- MODULE OtelResource ----------------------------
(***************************************************************************)
(* analyzers/otelresource: resources that are built without service.name,  *)
(* and the calls of local functions that build one.                        *)
(***************************************************************************)
EXTENDS AnalysisPass

IsResourceNew(call) == call.kind = "resource"

\* hasServiceName reads the words of the whole call, those of the calls in
\* its arguments included.
HasServiceName(p, c) ==
  \E d \in DOMAIN p.calls : (d = c \/ c \in Around(p)[d]) /\ p.calls[d].mentions

Anonymous(p, c) == IsResourceNew(p.calls[c]) /\ ~HasServiceName(p, c)

\* The first walk reports each such call of a declaration, nested or not.
InBody(p, c) == IF Anonymous(p, c) THEN <<Diagnostic(p, c, Unnamed)>> ELSE <<>>

Constructs(p, w, c) == IF Anonymous(p, c) THEN Entered(w, p.calls[c].decl, 0) ELSE w

\* The second walk: a call of a wrapper.
AtCall(p, w, c) ==
  IF p.calls[c].callee \in DOMAIN w /\ ~IsResourceNew(p.calls[c])
  THEN <<Diagnostic(p, c, UnnamedCall)>> ELSE <<>>

OtelResourceStep == \/ VisitBody(Constructs(pkg, wrappers, at), InBody(pkg, at))
                    \/ TurnToCalls
                    \/ VisitCall(AtCall(pkg, wrappers, at))

-----------------------------------------------------------------------------
\* What the pass owes for package p: each anonymous resource inside of a
\* function, and each call, with no call around it, of a function that holds
\* one; nothing for the callers of those callers.
OtelResourceOwes(p) ==
  LET Nameless == {c \in DOMAIN p.calls :
                     /\ p.calls[c].decl # 0
                     /\ IsResourceNew(p.calls[c])
                     /\ \A d \in DOMAIN p.calls :
                          d = c \/ c \in Around(p)[d] => ~p.calls[d].mentions}
      Holds(f) == \E c \in Nameless : p.calls[c].decl = f
  IN       {Diagnostic(p, c, Unnamed) : c \in Nameless}
      \cup {Diagnostic(p, c, UnnamedCall) : c \in {d \in DOMAIN p.calls :
              /\ p.calls[d].outer = 0
              /\ p.calls[d].kind # "resource"
              /\ p.calls[d].callee \in DOMAIN p.funcs
              /\ Holds(p.calls[d].callee)}}
=============================================================================
