------------------------------ MODULE MCEngine ------------------------------
(***************************************************************************)
(* Instances of the modules around one agent's engine, checked side by     *)
(* side: `part` names the one whose steps a behaviour takes, the others    *)
(* rest in an initial state, so the state spaces add up.                   *)
(***************************************************************************)
EXTENDS EngineLoop, ResponseStream, AgentWait, Invocation, TLC

CONSTANTS o1, o2, m2, i1, i2
VARIABLE part

engineRunVars == <<part, engineVars, transportVars, waitVars, invocationVars>>

\* EngineLoop: pairs of the ways a tool is called that meet in the loop.
MCWays ==
  {(o1 :> p[1]) @@ (o2 :> p[2]) :
     p \in {<<"async", "sync">>, <<"async", "serial">>, <<"async", "yield">>,
            <<"serial", "serial">>, <<"serial", "yield">>, <<"yield", "yield">>}}

\* A second mail comes where both calls are yields, which wait for mail, and no
\* fault adds to it.
LoopNext ==
  EngineNext /\ (inbox'[m2] # "unsent" => faults' = 0 /\ \A o \in Ops : way[o] = "yield")

\* AgentWait: two jobs waited for twice, two and a job of another wait, and one
\* with such a job and a message.
Load(waited, others, messages, times) ==
  [waited |-> waited, others |-> others, posts |-> messages, waits |-> times]
MCWaitWorlds == {Load({"a", "b"}, {}, 0, 2), Load({"a", "b"}, {"x"}, 0, 1), Load({"a"}, {"x"}, 1, 2)}

\* Invocation: two invocations of one cell whose allowances meet the cell's; the
\* program closes or drops the second one at will.
Allowance(r, t, k) == [requests |-> r, tools |-> t, tokens |-> k]
MCLimits == (Cell :> Allowance(2, 1, 1)) @@ (i1 :> Allowance(1, 1, 1)) @@ (i2 :> Allowance(2, 1, 1))
InvocationsNext == InvocationNext /\ i1 \notin closed'

-----------------------------------------------------------------------------
\* ResponseStream: bodies of documents, with the three line ends a server may
\* use, data over several lines, lines that are too long or no UTF-8, and every
\* end of a response.
Created(id) == [type |-> "created", lines |-> 1, id |-> id]
ItemDone(n, index, item) == [type |-> "done", lines |-> n, index |-> index, item |-> item]
Completed(id, output) == [type |-> "completed", lines |-> 1, id |-> id, output |-> output]
Incomplete(id) == [type |-> "incomplete", lines |-> 1, id |-> id]
ProviderFails == [type |-> "failed", lines |-> 1]
MalformedDocument == [type |-> "malformed", lines |-> 1]
OtherDocument == [type |-> "other", lines |-> 1]
CRLF == <<CR, LF>>

RECURSIVE Encoded(_, _, _)
Encoded(docs, d, eol) ==
  IF d > Len(docs) THEN <<>>
  ELSE LET line[n \in 0..docs[d].lines] ==
             IF n = 0 THEN <<>> ELSE line[n - 1] \o <<DataField, Text(d, n)>> \o eol
       IN  line[docs[d].lines] \o eol \o Encoded(docs, d + 1, eol)
Body(docs, eol) == [docs |-> docs, bytes |-> Encoded(docs, 1, eol)]

MCBodies ==
  {[r |-> b] : b \in {
     Body(<<Created("i"), ItemDone(2, 0, "a"), ItemDone(1, 1, "b"), Completed("i", <<>>)>>, CRLF),
     Body(<<ItemDone(1, 1, "b"), Completed("i", <<"a", "b">>), ItemDone(1, 1, "c")>>, <<CR>>),
     Body(<<ItemDone(1, 0, "a"), Completed("i", <<"x">>)>>, <<LF>>),
     Body(<<Created("i"), ItemDone(1, 0, "a"), ItemDone(1, 0, "a"), ItemDone(1, 0, "b"),
            OtherDocument>>, <<LF>>),
     Body(<<ItemDone(1, 1, "b"), Completed("i", <<>>)>>, CRLF),
     [docs |-> <<ItemDone(1, 0, "a"), ItemDone(1, 1, "b")>>,
      bytes |-> <<DataField, Text(1, 1), LF, LF, OtherField, LF, DataField, NotUtf8, LF,
                  DataField, Text(2, 1), LF, LF>>],
     [docs |-> <<OtherDocument, ProviderFails>>,
      bytes |-> <<DataField, Text(1, 1), LF, LF, OtherField, Text(1, 1), Text(1, 1), Text(1, 1), LF,
                  DataField, Text(2, 1), LF, LF>>],
     Body(<<Created("i"), Incomplete("i")>>, <<LF>>),
     Body(<<Created("i"), Incomplete("j")>>, <<LF>>),
     Body(<<Created("i"), Completed("j", <<>>)>>, <<LF>>),
     Body(<<Created("i"), Created("j")>>, <<LF>>),
     Body(<<ItemDone(1, 0, "a"), ItemDone(1, 1, "b"), Completed("i", <<"a">>)>>, <<LF>>),
     Body(<<MalformedDocument>>, <<LF>>),
     [docs |-> <<ItemDone(1, 0, "a")>>, bytes |-> <<DataField, NotUtf8>> \o CRLF],
     Body(<<ProviderFails>>, <<LF>>),
     [docs |-> <<ItemDone(2, 0, "a")>>, bytes |-> <<DataField, Text(1, 1), LF, LF>>]}}
  \cup {[r |-> Body(<<ProviderFails>>, <<LF>>),
         s |-> Body(<<ItemDone(1, 0, "a"), Completed("j", <<"a">>)>>, <<LF>>)]}

-----------------------------------------------------------------------------
Init ==
  /\ part \in {"loop", "transport", "wait", "invocation"}
  /\ EngineInit /\ (part # "loop" => way = CHOOSE w \in Ways : TRUE)
  /\ TransportInit /\ (part # "transport" => body = CHOOSE b \in Bodies : TRUE)
  /\ WaitInit /\ (part # "wait" => load = (CHOOSE w \in WaitWorlds : TRUE) /\ bound = "none")
  /\ InvocationInit

Next ==
  /\ UNCHANGED part
  /\ \/ part = "loop" /\ LoopNext /\ UNCHANGED <<transportVars, waitVars, invocationVars>>
     \/ part = "transport" /\ TransportNext /\ UNCHANGED <<engineVars, waitVars, invocationVars>>
     \/ part = "wait" /\ WaitNext /\ UNCHANGED <<engineVars, transportVars, invocationVars>>
     \/ part = "invocation" /\ InvocationsNext /\ UNCHANGED <<engineVars, transportVars, waitVars>>

\* The fairness of each module, for the part that takes the steps.
Fairness ==
  /\ WF_engineVars(part = "loop" /\ EngineStep)
  /\ WF_engineVars(part = "loop" /\ \E isFinal \in BOOLEAN : Respond(isFinal))
  /\ \A o \in Ops : WF_engineVars(part = "loop" /\ JobDone(o))
  /\ WF_waitVars(part = "wait" /\ Waiting)
  /\ \A op \in {"a", "b", "x"} : WF_waitVars(part = "wait" /\ op \in Operations /\ Announce(op))
  /\ \A r \in {"r", "s"} :
       /\ WF_transportVars(part = "transport" /\ r \in HttpRequests /\ RequestStep(r))
       /\ WF_transportVars(part = "transport" /\ r \in HttpRequests /\ TakeItem(r))

Spec == Init /\ [][Next]_engineRunVars /\ Fairness
=============================================================================
