----------------------------- MODULE AgentVerbs -----------------------------
(***************************************************************************)
(* The agent verbs over the store: spawn_agent, send_message and           *)
(* followup_task, checkpoint, set_effort and list_agents                   *)
(* (crates/harness/src/agent_runtime.rs), called by provider jobs          *)
(* (crates/harness/src/agents.rs), beside the engine that begins requests  *)
(* and applies the effort it was asked for.                                *)
(*                                                                         *)
(* A verb is a future that awaits a closure on a blocking thread.  The     *)
(* closure takes the store's lock once per store call, so the closures of  *)
(* several verbs interleave between their store calls.  A job that is      *)
(* cancelled drops its future; the closure runs on.  A request is the      *)
(* number of its agent's requests; a checkpoint is the head it names.      *)
(***************************************************************************)
EXTENDS Naturals, Sequences

CONSTANTS Agents,        \* agent paths below the root, as sequences of task names
          VerbWorlds     \* what each of some jobs calls, with bounds on the requests
                         \* of each agent and on process losses

NoEffort == "absent"
Root == <<>>
Parent(a) == SubSeq(a, 1, Len(a) - 1)

\* The path of a spawned agent is its parent's with a task name.
ASSUME VerbsAssumption ==
    /\ Agents \subseteq Seq(STRING) /\ Root \in Agents
    /\ \A a \in Agents \ {Root} : Parent(a) \in Agents
    /\ \A w \in VerbWorlds :
          /\ \A c \in DOMAIN w.calls :
                /\ w.calls[c].agent \in Agents /\ w.calls[c].of \in Agents
                /\ w.calls[c].op = "spawn" =>
                     w.calls[c].of # Root /\ Parent(w.calls[c].of) = w.calls[c].agent
          /\ w.requests \in [Agents -> Nat] /\ w.losses \in Nat

VARIABLES
    verb,        \* what each job calls
    budget,      \* bounds: requests of each agent, process losses
    future,      \* each job's future: new, awaiting, dropped, ok or refused
    closure,     \* where its closure is: queued, looked, read, ok or refused
    entries,     \* the checkpoints its closure has read
    todo, listed, \* the agents its listing has to read, and has
    agents,      \* agents table: the head each admitted path begins from
    head,        \* head_request of each agent, 0 for none
    saved,       \* session_state: the checkpoints of each agent
    pendingEffort,     \* session_state: the effort each agent asked for
    applied,     \* the efforts written to each agent's requests
    unapplied,   \* agents whose engine wrote a request and has not applied an effort
    committed,   \* jobs whose verb is committed
    told,        \* jobs whose verb advanced the generations
    before       \* history: the agents admitted when a listing began

readVars == <<entries, todo, listed, before>>
rowVars == <<agents, head, saved, pendingEffort, applied, committed>>
verbVars == <<verb, budget, future, closure, readVars, rowVars, unapplied, told>>

Jobs == DOMAIN verb
Finished == {"ok", "refused"}
admitted == DOMAIN agents
NoEntries == [n \in {} |-> 0]

VerbsInit ==
    /\ \E w \in VerbWorlds : verb = w.calls /\ budget = [requests |-> w.requests, losses |-> w.losses]
    /\ future = [c \in Jobs |-> "new"]
    /\ closure = [c \in Jobs |-> "queued"]
    /\ entries = [c \in Jobs |-> NoEntries]
    /\ todo = [c \in Jobs |-> {}] /\ listed = [c \in Jobs |-> {}]
    /\ agents = [a \in {Root} |-> 0]
    /\ head = [a \in Agents |-> 0]
    /\ saved = [a \in Agents |-> NoEntries]
    /\ pendingEffort = [a \in Agents |-> NoEffort]
    /\ applied = [a \in Agents |-> <<>>]
    /\ unapplied = {}
    /\ committed = {}
    /\ told = {}
    /\ before = [c \in Jobs |-> {}]

-----------------------------------------------------------------------------
(* The closures *)

ClosureAt(c, place) == future[c] # "new" /\ closure[c] = place
Goes(c, place) == closure' = [closure EXCEPT ![c] = place]

\* stored: the agents the verb names are in the agents table.
Named(c) == {verb[c].agent} \cup (IF verb[c].op = "mail" THEN {verb[c].of} ELSE {})

\* direct_relation
Related(a, b) == \/ a # Root /\ Parent(a) = b
                 \/ b # Root /\ Parent(b) = a

\* The closure looks up the agents it names and refuses what is not there.
Look(c) ==
    /\ ClosureAt(c, "queued")
    /\ IF Named(c) \subseteq admitted /\ (verb[c].op = "mail" => Related(verb[c].agent, verb[c].of))
       THEN Goes(c, "looked") ELSE Goes(c, "refused")
    /\ entries' = [entries EXCEPT ![c] =
                      IF verb[c].op = "checkpoint"
                      THEN [n \in {verb[c].name} |-> head[verb[c].agent]] ELSE @]
    /\ todo' = [todo EXCEPT ![c] = IF verb[c].op = "list" THEN {Root} ELSE @]
    /\ before' = [before EXCEPT ![c] = admitted]
    /\ UNCHANGED <<verb, future, listed, rowVars, unapplied, told, budget>>

\* session_state under checkpoints_key: what the closure read stays with it.
\* A checkpoint adds its own entry; a spawn picks the one it names.
ReadSaved(c) ==
    /\ ClosureAt(c, "looked")
    /\ verb[c].op = "checkpoint" \/ (verb[c].op = "spawn" /\ verb[c].from = "checkpoint")
    /\ LET state == saved[verb[c].agent] IN
       IF verb[c].op = "spawn" /\ verb[c].name \notin DOMAIN state
       THEN Goes(c, "refused") /\ UNCHANGED entries
       ELSE /\ Goes(c, "read")
            /\ entries' = [entries EXCEPT ![c] =
                             [n \in DOMAIN @ \cup DOMAIN state |->
                                 IF n \in DOMAIN @ THEN @[n] ELSE state[n]]]
    /\ UNCHANGED <<verb, future, todo, listed, before, rowVars, unapplied, told, budget>>

\* save_session_state replaces the row.
SaveCheckpoint(c) ==
    /\ ClosureAt(c, "read") /\ verb[c].op = "checkpoint"
    /\ saved' = [saved EXCEPT ![verb[c].agent] = entries[c]]
    /\ committed' = committed \cup {c}
    /\ Goes(c, "ok")
    /\ UNCHANGED <<verb, future, readVars, agents, head, pendingEffort, applied, unapplied, told, budget>>

\* Where a child begins: nowhere, at its parent's head, at a checkpoint.
Source(c) == CASE verb[c].from = "prompt" -> 0
               [] verb[c].from = "here" -> head[verb[c].agent]
               [] verb[c].from = "checkpoint" -> entries[c][verb[c].name]

\* admit_agent_with_envelope, admit_here_agent_from_source: the row, whose path
\* is a key, and the task envelope in one transaction.
AdmitAgent(c) ==
    /\ verb[c].op = "spawn" /\ ClosureAt(c, IF verb[c].from = "checkpoint" THEN "read" ELSE "looked")
    /\ IF verb[c].of \in admitted
       THEN Goes(c, "refused") /\ UNCHANGED <<agents, committed>>
       ELSE /\ agents' = [a \in admitted \cup {verb[c].of} |-> IF a = verb[c].of THEN Source(c) ELSE agents[a]]
            /\ committed' = committed \cup {c}
            /\ Goes(c, "ok")
    /\ UNCHANGED <<verb, future, readVars, head, saved, pendingEffort, applied, unapplied, told, budget>>

\* persist_envelope
PersistEnvelope(c) ==
    /\ ClosureAt(c, "looked") /\ verb[c].op = "mail"
    /\ committed' = committed \cup {c}
    /\ Goes(c, "ok")
    /\ UNCHANGED <<verb, future, readVars, agents, head, saved, pendingEffort, applied, unapplied, told, budget>>

\* save_pending_effort replaces what was asked for before.
SaveEffort(c) ==
    /\ ClosureAt(c, "looked") /\ verb[c].op = "effort"
    /\ pendingEffort' = [pendingEffort EXCEPT ![verb[c].agent] = c]
    /\ committed' = committed \cup {c}
    /\ Goes(c, "ok")
    /\ UNCHANGED <<verb, future, readVars, agents, head, saved, applied, unapplied, told, budget>>

Children(a) == {b \in admitted \ {Root} : Parent(b) = a}

\* collect_tree: one read of the children of each agent on the list.
Collect(c) ==
    /\ ClosureAt(c, "looked") /\ verb[c].op = "list"
    /\ \E a \in todo[c] : /\ todo' = [todo EXCEPT ![c] = (@ \ {a}) \cup Children(a)]
                          /\ listed' = [listed EXCEPT ![c] = @ \cup {a}]
    /\ UNCHANGED <<verb, future, closure, entries, before, rowVars, unapplied, told, budget>>

Listed(c) ==
    /\ ClosureAt(c, "looked") /\ verb[c].op = "list" /\ todo[c] = {}
    /\ Goes(c, "ok")
    /\ UNCHANGED <<verb, future, readVars, rowVars, unapplied, told, budget>>

-----------------------------------------------------------------------------
(* The futures *)

\* ready, and spawn_blocking
Call(c) ==
    /\ future[c] = "new"
    /\ future' = [future EXCEPT ![c] = "awaiting"]
    /\ UNCHANGED <<verb, closure, readVars, rowVars, unapplied, told, budget>>

\* cancellable: the job's cancellation wins and the future is dropped; so it is
\* when the job is aborted.  A verb called after that is refused at once.
Cancelled(c) ==
    /\ future[c] \in {"new", "awaiting"}
    /\ future' = [future EXCEPT ![c] = "dropped"]
    /\ IF future[c] = "new" THEN Goes(c, "refused") ELSE UNCHANGED closure
    /\ UNCHANGED <<verb, readVars, rowVars, unapplied, told, budget>>

ReturnUntold(c) ==
    /\ future[c] = "awaiting" /\ closure[c] \in Finished
    /\ future' = [future EXCEPT ![c] = closure[c]]
    /\ told' = IF closure[c] = "ok" /\ verb[c].op = "mail" THEN told \cup {c} ELSE told
    /\ UNCHANGED <<verb, closure, readVars, rowVars, unapplied, budget>>

\* The future resumes: a verb that wrote an envelope advances the generations
\* before it answers.
ReturnAnswer(c) ==
    /\ future[c] = "awaiting" /\ closure[c] \in Finished
    /\ future' = [future EXCEPT ![c] = closure[c]]
    /\ told' = IF closure[c] = "ok" /\ verb[c].op \in {"spawn", "mail"} THEN told \cup {c} ELSE told
    /\ UNCHANGED <<verb, closure, readVars, rowVars, unapplied, budget>>

-----------------------------------------------------------------------------
(* The engine and the process *)

\* write_request: the agent's head is a new request.
BeginRequest(a) ==
    /\ a \in admitted /\ a \notin unapplied /\ budget.requests[a] > 0
    /\ budget' = [budget EXCEPT !.requests[a] = @ - 1]
    /\ head' = [head EXCEPT ![a] = @ + 1]
    /\ unapplied' = unapplied \cup {a}
    /\ UNCHANGED <<verb, future, closure, readVars, agents, saved, pendingEffort, applied, committed, told>>

\* apply_pending_effort: the setting item and the deletion in one transaction.
ApplyPendingEffort(a) ==
    /\ a \in unapplied
    /\ unapplied' = unapplied \ {a}
    /\ applied' = IF pendingEffort[a] = NoEffort THEN applied ELSE [applied EXCEPT ![a] = Append(@, pendingEffort[a])]
    /\ pendingEffort' = [pendingEffort EXCEPT ![a] = NoEffort]
    /\ UNCHANGED <<verb, future, closure, readVars, agents, head, saved, committed, told, budget>>

\* Futures and closures end with the process, rows stay.
VerbsLost ==
    /\ budget.losses > 0 /\ budget' = [budget EXCEPT !.losses = @ - 1]
    /\ future' = [c \in Jobs |-> IF future[c] = "awaiting" THEN "dropped" ELSE future[c]]
    /\ closure' = [c \in Jobs |-> IF future[c] = "new" \/ closure[c] \in Finished THEN closure[c]
                                  ELSE "refused"]
    /\ unapplied' = {}
    /\ UNCHANGED <<verb, readVars, rowVars, told>>

StepClosure(c) == Look(c) \/ ReadSaved(c) \/ SaveCheckpoint(c) \/ AdmitAgent(c) \/ PersistEnvelope(c)
               \/ SaveEffort(c) \/ Collect(c) \/ Listed(c)

VerbsNext == \/ \E c \in Jobs : StepClosure(c) \/ Call(c) \/ Cancelled(c) \/ ReturnAnswer(c)
             \/ \E a \in Agents : BeginRequest(a) \/ ApplyPendingEffort(a)
             \/ VerbsLost

VerbsSpec == VerbsInit /\ [][VerbsNext]_verbVars

-----------------------------------------------------------------------------

\* What a job was told is so: a refused verb has left nothing in the store; a
\* spawn or a message that was accepted is committed and the supervisor has been
\* hinted since (agent_runtime.rs:41 "successful admissions advance the
\* generation after the atomic Store transaction"); a listing, read one agent at a
\* time while others spawn, names every agent there was when it began and none
\* that is not there.
AnswersTrue ==
    \A c \in Jobs :
        /\ future[c] = "refused" => c \notin committed
        /\ future[c] = "ok" /\ verb[c].op \in {"spawn", "mail"} => c \in committed /\ c \in told
        /\ future[c] = "ok" /\ verb[c].op = "list" =>
              before[c] \subseteq listed[c] /\ listed[c] \subseteq admitted
=============================================================================
