----------------------------- MODULE MCOperator -----------------------------
(***************************************************************************)
(* Instances of the modules between the operator's browser and the host,   *)
(* checked side by side: `part` names the one whose steps a behaviour      *)
(* takes and the others rest in an initial state, so the state spaces add  *)
(* up.                                                                     *)
(***************************************************************************)
EXTENDS CommandJournal, EventStream, ChatWindow, TLC

CONSTANTS o1, o2
VARIABLE part

operatorRunVars == <<part, commandVars, streamVars, windowVars>>

\* CommandJournal: each kind of command with a resend and a fault, an input
\* whose connection is also lost, and two commands whose evidence shares the
\* browser's storage.
CommandWorld(first, second, resends, failures, cuts) ==
  [kind |-> (o1 :> first) @@ (o2 :> second), sends |-> resends, faults |-> failures, drops |-> cuts]
MCWorlds == {CommandWorld(k, "unused", 1, 1, 0) : k \in Kinds}
            \cup {CommandWorld("input", "unused", 1, 1, 1), CommandWorld("select", "recover", 0, 0, 0)}

\* ChatWindow: entries of this lineage and of others, light and heavy in the
\* store, in the page and in the browser.
Entry(own, stored, sent, kept) == [ours |-> own, weight |-> <<stored, sent, kept>>]
Light == Entry(TRUE, 1, 1, 1)
Foreign == Entry(FALSE, 1, 1, 1)
HeavySent == Entry(TRUE, 1, 2, 2)
HeavyKept == Entry(TRUE, 1, 1, 2)
MCJournals == {<<Light, Foreign, Light, Light, Light, Light, Light>>,
               <<HeavySent, Light, HeavySent, Light, Light, HeavySent>>,
               <<HeavyKept, Light, Foreign, Light, HeavyKept, Light>>}

-----------------------------------------------------------------------------
Init ==
  /\ part \in {"commands", "stream", "window"}
  /\ CommandInit /\ (part # "commands" => kind = (CHOOSE w \in Worlds : w.sends = 0).kind)
  /\ StreamInit /\ (part # "stream" => topics = CHOOSE t \in Topics : TRUE)
  /\ WindowInit /\ (part # "window" => publications = CHOOSE j \in Journals : TRUE)

Next ==
  /\ UNCHANGED part
  /\ \/ part = "commands" /\ CommandNext /\ UNCHANGED <<streamVars, windowVars>>
     \/ part = "stream" /\ StreamNext /\ UNCHANGED <<commandVars, windowVars>>
     \/ part = "window" /\ WindowNext /\ UNCHANGED <<commandVars, streamVars>>

\* The fairness of each module, for the part that takes the steps.
Fairness ==
  /\ \A t \in Tasks : WF_commandVars(part = "commands" /\ HostStep(t))
  /\ \A o \in Ops : /\ WF_commandVars(part = "commands" /\ Receive(o))
                    /\ WF_commandVars(part = "commands" /\ Lookup(o))
                    /\ WF_commandVars(part = "commands" /\ applyCommandStatus(o))
  /\ WF_commandVars(part = "commands" /\ fenced /\ HostLost)
  /\ WF_commandVars(part = "commands" /\ recover_embedded_command_claims)
  /\ WF_commandVars(part = "commands" /\ Connect)
  /\ WF_streamVars(part = "stream" /\ ServerStep)
  /\ WF_streamVars(part = "stream" /\ ClientStep)
  /\ WF_streamVars(part = "stream" /\ Open)

Spec == Init /\ [][Next]_operatorRunVars /\ Fairness
=============================================================================
