------------------------------ MODULE MsgTrace ------------------------------
(***************************************************************************)
(* analyzers/msgtrace: Kafka messages that are published without headers,  *)
(* directly or through a local function one hop away.                      *)
(***************************************************************************)
EXTENDS AnalysisPass, FiniteSets

LOCAL INSTANCE SequencesExt

\* isProduceCall: a method of one of five names, whatever it belongs to.
IsProduce(call) == call.kind = "produce"

\* messageParamIndex: parameters are counted by name, an unnamed one counts
\* as one.  Positions start at 1; 0 stands for none.
MessageParamIndex(fd) ==
  LET Messages == {i \in DOMAIN fd.params : fd.params[i].message}
      first    == CHOOSE i \in Messages : \A j \in Messages : i <= j
      Width(f) == IF f.names = 0 THEN 1 ELSE f.names
  IN  IF Messages = {} THEN 0
      ELSE FoldLeft(LAMBDA n, f : n + Width(f), 1, SubSeq(fd.params, 1, first - 1))

\* isMessageLit without hasHeaders: the address of a literal is no literal.
IsBare(arg) == arg = "bare"

\* Mutant: only the first parameter is looked at.
LearnFirstParam(p, w, c) ==
  LET f == p.calls[c].decl
  IN  IF MessageParamIndex(p.funcs[f]) = 1 /\ IsProduce(p.calls[c]) THEN Entered(w, f, 1) ELSE w

\* The first walk: a function with a message parameter whose body calls a
\* produce method is a wrapper.
Learn(p, w, c) ==
  LET f     == p.calls[c].decl
      index == MessageParamIndex(p.funcs[f])
  IN  IF index # 0 /\ IsProduce(p.calls[c]) THEN Entered(w, f, index) ELSE w

\* The second walk: every bare literal of a produce call, or the one in the
\* message's place of a call to a wrapper.
Published(p, w, c) ==
  LET call == p.calls[c]
  IN  IF IsProduce(call)
      THEN [i \in 1..Cardinality({j \in DOMAIN call.args : IsBare(call.args[j])}) |->
              Diagnostic(p, c, Direct)]
      ELSE IF /\ call.callee \in DOMAIN w
              /\ w[call.callee] \in DOMAIN call.args
              /\ IsBare(call.args[w[call.callee]])
           THEN <<Diagnostic(p, c, Via)>>
           ELSE <<>>

MsgTraceStep == \/ VisitBody(Learn(pkg, wrappers, at), <<>>)
                \/ TurnToCalls
                \/ VisitCall(Published(pkg, wrappers, at))

-----------------------------------------------------------------------------
\* What the pass owes for package p, whatever the order of its declarations:
\* the headerless literals that a call with no call around it hands to a
\* produce method, or to a function with a produce call of its own in the
\* place of that function's message.
Forwards(p, f, i) == /\ i = MessageParamIndex(p.funcs[f])
                     /\ \E c \in DOMAIN p.calls : p.calls[c].decl = f /\ IsProduce(p.calls[c])

MsgTraceOwes(p) ==
  LET Hands(c) == {i \in DOMAIN p.calls[c].args : IsBare(p.calls[c].args[i])}
      Top      == {c \in DOMAIN p.calls : p.calls[c].outer = 0 /\ Hands(c) # {}}
  IN       {Diagnostic(p, c, Direct) : c \in {d \in Top : IsProduce(p.calls[d])}}
      \cup {Diagnostic(p, c, Via) : c \in {d \in Top :
              /\ ~IsProduce(p.calls[d])
              /\ \E f \in DOMAIN p.funcs, i \in Hands(d) :
                   p.calls[d].callee = f /\ Forwards(p, f, i)}}
=============================================================================
