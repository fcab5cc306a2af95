------------------------------ MODULE MCSafety ------------------------------
(***************************************************************************)
(* Instances of the modules that are checked for safety only, side by      *)
(* side: `part` names the one whose steps a behaviour takes and the others *)
(* rest in an initial state, so the state spaces add up.                   *)
(***************************************************************************)
EXTENDS JobScheduler, ContextEdits, Credentials, AgentVerbs, RequestQueue, HistoryPages

CONSTANTS d, s, c1, c2
VARIABLE part

\* JobScheduler: a domain job and the settlement job that may close their
\* activation.
MCRole == [op \in Ops |-> IF op = s THEN "settlement" ELSE "domain"]
MCActivation == [op \in Ops |-> "a"]

\* ContextEdits: editing calls with an asynchronous one in the same response, in
\* an earlier one, and with a compaction or a cancellation.
Script(responses, cancellations, compacts) ==
    [responses |-> responses, faults |-> cancellations, compactions |-> compacts]
MCScripts == {Script(<< <<"reasoning", "a", "e">>, <<"f">> >>, 0, 1),
              Script(<< <<"a", "e", "f">> >>, 1, 0),
              Script(<< <<"a">>, <<"e">>, <<"f">> >>, 0, 0)}

\* Credentials: users and logins of one registration, and a login of another.
MCFileOf == [u |-> "p", v |-> "p", l |-> "p", m |-> "p", n |-> "q"]

\* AgentVerbs: the tree's growth and its listing, mail to agents that come to be,
\* efforts around requests, and checkpoints.
RootPath == <<>>
ChildPath == <<"a">>
LeafPath == <<"a", "b">>
MCAgents == {RootPath, ChildPath, LeafPath}
Verb(op, agent, of, name, from) ==
    [op |-> op, agent |-> agent, of |-> of, name |-> name, from |-> from]
Spawns(agent, of, from) == Verb("spawn", agent, of, "n", from)
Checkpoints(name) == Verb("checkpoint", RootPath, RootPath, name, "")
Effort == Verb("effort", RootPath, RootPath, "", "")
VerbWorld(verbs, begins, losses) ==
    [calls |-> verbs, requests |-> [x \in Agents |-> IF x = RootPath THEN begins ELSE 0], losses |-> losses]
MCVerbWorlds ==
    {VerbWorld([s |-> Spawns(RootPath, ChildPath, "prompt"), t |-> Spawns(RootPath, ChildPath, "here"),
                u |-> Spawns(ChildPath, LeafPath, "prompt"), l |-> Verb("list", RootPath, RootPath, "", "")], 0, 0),
     VerbWorld([s |-> Spawns(RootPath, ChildPath, "prompt"), m |-> Verb("mail", RootPath, ChildPath, "", ""),
                n |-> Verb("mail", RootPath, LeafPath, "", "")], 0, 1),
     VerbWorld([s |-> Effort, t |-> Effort, u |-> Effort], 2, 1),
     VerbWorld([s |-> Checkpoints("n"), t |-> Checkpoints("m"),
                u |-> Spawns(RootPath, ChildPath, "checkpoint")], 1, 0)}

\* RequestQueue: three equal tickets, one the operator waits for, one with a warm
\* prefix, and the root's.
Ranked(level, waiting, warm) == [depth |-> level, operator_waiting |-> waiting, prefix_warm |-> warm]
MCPriority == [a |-> Ranked(1, FALSE, FALSE), b |-> Ranked(1, FALSE, FALSE), c |-> Ranked(1, FALSE, FALSE),
               o |-> Ranked(1, TRUE, FALSE), w |-> Ranked(1, FALSE, TRUE), r |-> Ranked(0, FALSE, FALSE)]

\* HistoryPages: items that fit a page, that need a notice, and that do not fit
\* even as one.
Weight(stored, model) == [bytes |-> stored, model |-> model]
Weights == {Weight(1, 0), Weight(2, 0), Weight(1, 2), Weight(3, 3), Weight(5, 0), Weight(5, 3), Weight(5, 5)}
MCHistories == [1..3 -> Weights]
    \cup {<<Weight(1, 0), Weight(1, 0), Weight(1, 2), Weight(5, 3), Weight(2, 0), Weight(1, 0)>>,
          <<Weight(1, 2), Weight(1, 0), Weight(5, 3), Weight(2, 0), Weight(1, 2)>>}

-----------------------------------------------------------------------------
MCInit ==
    /\ part \in {"cancellation", "fence", "context", "credentials", "verbs", "queue", "history"}
    /\ Init
    /\ ContextInit /\ (part # "context" => script = CHOOSE x \in Scripts : TRUE)
    /\ CredentialInit
    /\ VerbsInit /\ (part # "verbs" => verb = (CHOOSE w \in VerbWorlds : TRUE).calls)
    /\ QueueInit
    /\ HistoryInit /\ (part # "history" => items = (CHOOSE h \in Histories : TRUE) /\ retained = 0)

\* The jobs alone: two callers cancel one claimed job, or one caller meets the
\* job that closes the activation.
JobsNext ==
    /\ Next
    /\ part = "cancellation" => task'[s] = "none"
    /\ part = "fence" => /\ pc'[c2] = "idle"
                         /\ \A op \in Ops : /\ claimants'[op] = {} /\ ~published'[op]
                                           /\ result'[op] # "receipt"

MCNext ==
    /\ UNCHANGED part
    /\ \/ part \in {"cancellation", "fence"} /\ JobsNext
          /\ UNCHANGED <<contextVars, credentialVars, verbVars, queueVars, historyVars>>
       \/ part = "context" /\ ContextNext
          /\ UNCHANGED <<vars, credentialVars, verbVars, queueVars, historyVars>>
       \/ part = "credentials" /\ CredentialNext
          /\ UNCHANGED <<vars, contextVars, verbVars, queueVars, historyVars>>
       \/ part = "verbs" /\ VerbsNext
          /\ UNCHANGED <<vars, contextVars, credentialVars, queueVars, historyVars>>
       \/ part = "queue" /\ QueueNext
          /\ UNCHANGED <<vars, contextVars, credentialVars, verbVars, historyVars>>
       \/ part = "history" /\ HistoryNext
          /\ UNCHANGED <<vars, contextVars, credentialVars, verbVars, queueVars>>

MCSpec ==
    MCInit /\ [][MCNext]_<<part, vars, contextVars, credentialVars, verbVars, queueVars, historyVars>>
=============================================================================
