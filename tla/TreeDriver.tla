----------------------------- MODULE TreeDriver -----------------------------
(***************************************************************************)
(* The agent tree: a supervisor that scans the store, starts one engine    *)
(* task per agent, reaps it and starts it again for new mail               *)
(* (tree_driver.rs), the verbs that spawn agents and send mail             *)
(* (agent_runtime.rs, agents.rs), and the store rows they share.           *)
(*                                                                         *)
(* An agent has several slots for tasks, so that nothing but the code's    *)
(* checks keeps it from running twice. Store calls are transactions. A     *)
(* watch receiver is a flag: an unseen version. Heads are only ever        *)
(* compared with the head a task started from: an agent has one or not,    *)
(* and a task is stale once it has another one. Of the inbox channel only  *)
(* matters whether a hint is in it, and of the ids a task has seen those   *)
(* that are still unread.                                                  *)
(***************************************************************************)
EXTENDS Naturals, FiniteSets

CONSTANTS
    Agents, Root,  \* agent paths, one of them /root
    Parent,        \* parent of each agent but Root
    Stored,        \* agents in the store when the driver starts
    MaxMail,       \* bound on envelopes
    MaxTask,       \* slots for tasks of one agent
    MayFail,       \* whether engine runs and factories may fail
    MayStop        \* whether shutdown may be called

ASSUME TreeAssumption ==
    /\ Root \in Agents /\ Parent \in [Agents \ {Root} -> Agents]
    /\ Root \in Stored /\ Stored \subseteq Agents /\ \A a \in Stored \ {Root} : Parent[a] \in Stored
    /\ MaxMail \in Nat /\ MaxTask \in Nat \ {0}
    /\ MayFail \in BOOLEAN /\ MayStop \in BOOLEAN

VARIABLES
    admitted, headed, \* agents table: paths, those with a head_request
    unread, sent,   \* envelopes table: undelivered ids by recipient, last id
    verbs,          \* verbs that have committed and have yet to notify
    sup,            \* supervisor: where it stands, tasks to join, agents listed
    news,           \* whether a watch of the supervisor has an unseen version
    running,        \* running: slot of the task of each agent, 0 if none
    completed,      \* completed
    task,           \* engine task, monitor and notifier in each slot
    closing, draining \* shutdown: how far it is, tasks it has yet to join

storeVars == <<admitted, headed, unread, sent>>
supVars == <<sup, running, completed>>
closeVars == <<closing, draining>>
vars == <<storeVars, verbs, supVars, news, task, closeVars>>

Mail == 1..MaxMail
Slots == 1..MaxTask
Tasks == Agents \X Slots
AgentOf(t) == t[1]
None == 0

\* Engine::run is before its first request, in one, or waits for jobs and mail.
Engaged == {"claiming", "thinking", "waiting"}
\* The run returned; the completion was committed; done_tx was sent and the
\* monitor stored the outcome; the monitor announced it and ended.
Leaving == {"returned", "committed", "settled", "announced"}

\* The notifier has ended, after publishing a failure or without.
Quiet == {"failed", "ended"}

\* Running, with the locals of its three futures
Task == [stale : BOOLEAN, stage : Engaged \cup Leaving \cup {"unused"},
         result : {"ok", "error", "cancelled"}, answer : Mail \cup {None},
         hint : BOOLEAN, seen : SUBSET Mail, cancel : BOOLEAN,
         notifier : {"scanning", "selecting", "failed", "ended"}]

Unused == [stale |-> FALSE, stage |-> "unused", result |-> "ok",
           answer |-> None, hint |-> FALSE, seen |-> {}, cancel |-> FALSE,
           notifier |-> "ended"]

\* start, on a new store or after a restart: /root is admitted, the watches are
\* subscribed, the first scan begins.
Init ==
    /\ admitted = Stored
    /\ headed \in SUBSET Stored
    /\ unread = [a \in Agents |-> {}]
    /\ sent = 0
    /\ verbs = {}
    /\ sup = [at |-> "reaping", up |-> FALSE, failed |-> FALSE, join |-> {}, list |-> {}]
    /\ news = FALSE
    /\ running = [a \in Agents |-> None]
    /\ completed = {}
    /\ task = [t \in Tasks |-> Unused]
    /\ closing = "no" /\ draining = {}

-----------------------------------------------------------------------------
(* Agent verbs: a transaction on a blocking thread, then the notifications *)

Post(a, kind) ==
    /\ sent < MaxMail
    /\ sent' = sent + 1
    /\ unread' = [unread EXCEPT ![a] = @ \cup {sent + 1}]
    /\ verbs' = verbs \cup {[mail |-> sent + 1, kind |-> kind, told |-> FALSE]}
    /\ UNCHANGED <<supVars, news, task, closeVars>>

\* spawn_agent: the child and its task envelope in one transaction; a child of a
\* checkpoint or of the present request begins with a head.
Spawn(a, forked) ==
    /\ a \notin admitted /\ Parent[a] \in admitted
    /\ admitted' = admitted \cup {a}
    /\ headed' = IF forked THEN headed \cup {a} ELSE headed
    /\ Post(a, "spawn")

\* direct_relation
Related(a, b) == (a # Root /\ Parent[a] = b) \/ (b # Root /\ Parent[b] = a)

\* send_message, followup_task
Send(a) ==
    /\ a \in admitted /\ \E b \in admitted : Related(a, b)
    /\ Post(a, "send")
    /\ UNCHANGED <<admitted, headed>>

\* child_generation of a spawn
TellChildren(v) ==
    /\ v.kind = "spawn" /\ ~v.told
    /\ verbs' = (verbs \ {v}) \cup {[v EXCEPT !.told = TRUE]}
    /\ news' = TRUE
    /\ UNCHANGED <<storeVars, supVars, task, closeVars>>

\* notify_mailbox_changed: the supervisor and every notifier have a receiver.
TellMailbox(v) ==
    /\ v.kind = "spawn" => v.told
    /\ verbs' = verbs \ {v}
    /\ news' = TRUE
    /\ task' = [t \in Tasks |-> IF task[t].notifier \in Quiet THEN task[t]
                               ELSE [task[t] EXCEPT !.notifier = "scanning"]]
    /\ UNCHANGED <<storeVars, supVars, closeVars>>

-----------------------------------------------------------------------------
(* The engine task and its monitor *)

Becomes(t, new) == task' = [task EXCEPT ![t] = new]

\* append_unread_envelopes: the task goes on with what its agent had not read.
Claimed(t, stage, hint) ==
    /\ unread' = [unread EXCEPT ![AgentOf(t)] = {}]
    /\ Becomes(t, [task[t] EXCEPT !.stage = stage, !.seen = {}, !.hint = hint])
    /\ UNCHANGED <<admitted, headed, sent, verbs, supVars, news, closeVars>>

\* Mutant: the engine does not look at its cancellation between two requests.
RequestAlways(t) ==
    /\ task[t].stage \in {"claiming", "thinking"}
    /\ Claimed(t, "thinking", task[t].hint)

\* The top of the request loop, at first or after a response: cancellation, then
\* the claim of the inbox, with which the next model request begins.
Request(t) ==
    /\ task[t].stage \in {"claiming", "thinking"} /\ ~task[t].cancel
    /\ Claimed(t, "thinking", task[t].hint)

\* A response asks for a wait, is final, or an error; so is a final answer that
\* published_final_answer cannot prepare.
Respond(t, stage, result) ==
    /\ task[t].stage = "thinking"
    /\ result = "error" => MayFail /\ stage = "returned"
    /\ Becomes(t, [task[t] EXCEPT !.stage = stage, !.result = result,
                                  !.hint = @ /\ stage # "returned"])
    /\ UNCHANGED <<storeVars, verbs, supVars, news, closeVars>>

\* wait_for_resume takes a hint from the channel, which may hold more of them,
\* and persist_wait_result claims the inbox; the next request follows. The
\* select prefers cancellation.
Resume(t) ==
    /\ task[t].stage = "waiting" /\ task[t].hint /\ ~task[t].cancel
    /\ \E more \in BOOLEAN : Claimed(t, "thinking", more)

\* A job or the timer ends the wait; cancellation is seen before the next request.
ResumeOtherwise(t) ==
    /\ task[t].stage = "waiting"
    /\ Claimed(t, IF task[t].cancel THEN "claiming" ELSE "thinking", task[t].hint)

\* The run sees its cancellation watch.
Cancelled(t) ==
    /\ task[t].stage \in Engaged /\ task[t].cancel
    /\ Becomes(t, [task[t] EXCEPT !.stage = "returned", !.result = "cancelled",
                                  !.hint = FALSE])
    /\ UNCHANGED <<storeVars, verbs, supVars, news, closeVars>>

Uncommitted(t) == task[t].stage \in Engaged \cup {"returned"}

\* complete_agent_with_publication: the head moves by compare-and-swap, together
\* with the answer to the parent, if there is one. A lost swap is an error.
Complete(t, answered) ==
    LET a == AgentOf(t)
        id == IF answered THEN sent + 1 ELSE None
    IN  /\ task[t].stage = "returned" /\ task[t].result = "ok"
        /\ answered => a # Root /\ id \in Mail
        /\ IF ~task[t].stale
           THEN /\ headed' = headed \cup {a}
                /\ task' = [u \in Tasks |->
                     IF u = t THEN [task[t] EXCEPT !.stage = "committed", !.answer = id]
                     ELSE [task[u] EXCEPT !.stale = @ \/ (AgentOf(u) = a /\ Uncommitted(u))]]
                /\ IF answered
                   THEN sent' = id /\ unread' = [unread EXCEPT ![Parent[a]] = @ \cup {id}]
                   ELSE UNCHANGED <<sent, unread>>
           ELSE /\ Becomes(t, [task[t] EXCEPT !.result = "error"])
                /\ UNCHANGED <<headed, sent, unread>>
        /\ UNCHANGED <<admitted, verbs, supVars, news, closeVars>>

\* the values of running
RunningTasks == {t \in Tasks : running[AgentOf(t)] = t[2]}

\* The parent's task has seen the answer and gets a hint, if it still listens.
Hint(p, id) == [task[p] EXCEPT !.seen = @ \cup ({id} \cap unread[AgentOf(p)]),
                               !.hint = @ \/ task[p].stage \in Engaged]

\* After the commit the parent is woken under the lock of running, if it is
\* there; then, as after an error, done_tx is sent and the monitor stores the
\* outcome.
Finish(t) ==
    LET a == AgentOf(t)
        woken == IF task[t].answer = None THEN {} ELSE RunningTasks \cap ({Parent[a]} \X Slots)
        done == [task[t] EXCEPT !.stage = "settled", !.answer = None]
    IN  /\ task[t].stage = "committed" \/ (task[t].stage = "returned" /\ task[t].result # "ok")
        /\ task' = [u \in Tasks |-> IF u = t THEN done
                                    ELSE IF u \in woken THEN Hint(u, task[t].answer)
                                    ELSE task[u]]
        /\ UNCHANGED <<storeVars, verbs, supVars, news, closeVars>>

\* Mutant: the monitor leaves task_generation alone.
AnnounceNothing(t) ==
    /\ task[t].stage = "settled"
    /\ Becomes(t, [task[t] EXCEPT !.stage = "announced"])
    /\ UNCHANGED <<storeVars, verbs, supVars, news, closeVars>>

\* The monitor moves task_generation and ends.
AnnounceEnd(t) ==
    /\ task[t].stage = "settled"
    /\ news' = TRUE
    /\ Becomes(t, [task[t] EXCEPT !.stage = "announced"])
    /\ UNCHANGED <<storeVars, verbs, supVars, closeVars>>

-----------------------------------------------------------------------------
(* The notifier of a task: scanning, too, when its select has a change to take *)

\* scan_inbox: one hint for each envelope not seen before.
NotifierScan(t) ==
    LET fresh == unread[AgentOf(t)] \ task[t].seen
        open == task[t].stage \in Engaged
    IN  /\ task[t].notifier = "scanning"
        /\ Becomes(t, [task[t] EXCEPT !.seen = @ \cup fresh, !.notifier = "selecting",
                         !.hint = @ \/ (open /\ fresh # {})])
        /\ UNCHANGED <<storeVars, verbs, supVars, news, closeVars>>

\* Once the run has returned, its receiver is dropped (with the forwarder, which
\* is aborted but not joined), and a hint cannot be sent.
NotifierFails(t) ==
    /\ task[t].notifier = "scanning" /\ task[t].stage \in Leaving
    /\ unread[AgentOf(t)] \ task[t].seen # {}
    /\ Becomes(t, [task[t] EXCEPT !.cancel = TRUE, !.notifier = "failed"])
    /\ UNCHANGED <<storeVars, verbs, supVars, news, closeVars>>

\* done_rx or the cancellation watch changed; the select may prefer it to a
\* change of the mailbox.
NotifierEnds(t) ==
    /\ task[t].notifier \notin Quiet
    /\ task[t].cancel \/ task[t].stage \in {"settled", "announced"}
    /\ Becomes(t, [task[t] EXCEPT !.notifier = "ended"])
    /\ UNCHANGED <<storeVars, verbs, supVars, news, closeVars>>

-----------------------------------------------------------------------------
(* The supervisor *)

\* One of the watches changed, others may have: scan again.
Wake ==
    /\ sup.at = "selecting" /\ news
    /\ news' \in BOOLEAN
    /\ sup' = [sup EXCEPT !.at = "reaping"]
    /\ UNCHANGED <<storeVars, verbs, running, completed, task, closeVars>>

Stop ==
    /\ sup.at = "selecting" /\ closing # "no"
    /\ sup' = [sup EXCEPT !.at = "ended"]
    /\ UNCHANGED <<storeVars, verbs, running, completed, news, task, closeVars>>

\* reap_finished: the tasks whose outcome is stored leave the table together.
Reap ==
    LET finished == {t \in RunningTasks : task[t].stage \in {"settled", "announced"}}
    IN  /\ sup.at = "reaping"
        /\ running' = [a \in Agents |-> IF <<a, running[a]>> \in finished THEN None ELSE running[a]]
        /\ sup' = [sup EXCEPT !.at = "joining", !.join = finished]
        /\ UNCHANGED <<storeVars, verbs, completed, news, task, closeVars>>

\* Monitor and notifier have ended.
Joinable(t) == task[t].stage = "announced" /\ task[t].notifier \in Quiet

\* A task is joined, and its outcome counted.
Join(t) ==
    LET bad == task[t].result = "error" IN
    /\ sup.at = "joining" /\ Joinable(t)
    /\ sup' = [sup EXCEPT !.join = @ \ {t}, !.failed = @ \/ bad]
    /\ completed' = IF task[t].result = "ok" THEN completed \cup {AgentOf(t)} ELSE completed
    /\ Becomes(t, Unused)
    /\ UNCHANGED <<storeVars, verbs, running, news, closeVars>>

\* Failures end the loop, otherwise list_agents.
List ==
    /\ sup.at = "joining" /\ sup.join = {}
    /\ sup' = IF sup.failed THEN [sup EXCEPT !.at = "ended"]
              ELSE [sup EXCEPT !.at = "starting",
                               !.list = {[agent |-> a, resumed |-> a \in headed] : a \in admitted}]
    /\ UNCHANGED <<storeVars, verbs, running, completed, news, task, closeVars>>

\* A listed agent that has a head, or completed under this driver, needs mail.
Wanted(e) == (e.resumed \/ e.agent \in completed) => unread[e.agent] # {}

\* Mutant: the table is not consulted.
MayStartTwice(a) == TRUE
\* running.contains_key
MayStart(a) == running[a] = None

\* start_agent: the record is read again, unread mail counts as seen (the first
\* request will claim it), and the three futures are spawned.
StartAgent(a) ==
    LET free == {n \in Slots : task[<<a, n>>].stage = "unused"}
        slot == CHOOSE n \in free : TRUE
    IN  /\ free # {}
        /\ running' = [running EXCEPT ![a] = slot]
        /\ Becomes(<<a, slot>>, [Unused EXCEPT !.stage = "claiming", !.seen = unread[a],
                                               !.notifier = "scanning"])

\* list_agents is ordered by path: an agent comes before its descendants.
First(e) == \A d \in sup.list : e.agent # Root => d.agent # Parent[e.agent]

\* One agent of the list; nobody else starts tasks or takes them from the table.
Consider(e) ==
    /\ sup.at = "starting" /\ First(e)
    /\ sup' = IF sup.list = {e} THEN [sup EXCEPT !.at = "selecting", !.list = {}, !.up = TRUE]
              ELSE [sup EXCEPT !.list = @ \ {e}]
    /\ completed' = IF Wanted(e) THEN completed \ {e.agent} ELSE completed
    /\ IF Wanted(e) /\ MayStart(e.agent) THEN StartAgent(e.agent)
       ELSE UNCHANGED <<running, task>>
    /\ UNCHANGED <<storeVars, verbs, news, closeVars>>

\* The factory creates no engine: the scan, and with it the loop, ends.
CreateFails(e) ==
    /\ MayFail
    /\ sup.at = "starting" /\ First(e) /\ Wanted(e) /\ MayStart(e.agent)
    /\ sup' = [sup EXCEPT !.at = "ended", !.failed = TRUE, !.list = {}]
    /\ completed' = completed \ {e.agent}
    /\ UNCHANGED <<storeVars, verbs, running, news, task, closeVars>>

-----------------------------------------------------------------------------
(* shutdown, after start has returned *)

Shutdown ==
    /\ MayStop /\ closing = "no" /\ (sup.up \/ sup.at = "ended")
    /\ closing' = "stopping"
    /\ UNCHANGED <<storeVars, verbs, supVars, news, task, draining>>

\* Mutant: the supervisor is not awaited.
DrainEarly ==
    /\ closing = "stopping"
    /\ closing' = "draining"
    /\ draining' = RunningTasks
    /\ running' = [a \in Agents |-> None]
    /\ task' = [t \in Tasks |-> [task[t] EXCEPT !.cancel = @ \/ t \in draining']]
    /\ UNCHANGED <<storeVars, verbs, sup, completed, news>>

\* The supervisor has ended: the tasks of the table are cancelled and taken.
Drain ==
    /\ closing = "stopping" /\ sup.at = "ended"
    /\ closing' = "draining"
    /\ draining' = RunningTasks
    /\ running' = [a \in Agents |-> None]
    /\ task' = [t \in Tasks |-> [task[t] EXCEPT !.cancel = @ \/ t \in draining']]
    /\ UNCHANGED <<storeVars, verbs, sup, completed, news>>

JoinDrained(t) ==
    /\ Joinable(t)
    /\ draining' = draining \ {t}
    /\ UNCHANGED <<storeVars, verbs, supVars, news, task, closing>>

-----------------------------------------------------------------------------
\* Steps an engine task and its monitor take by themselves; a job or timer that
\* ends a wait is not one of them.
EngineStep(t) ==
    \/ Request(t) \/ Resume(t) \/ Cancelled(t) \/ Finish(t) \/ AnnounceEnd(t)
    \/ \E stage \in {"waiting", "returned"}, result \in {"ok", "error"} :
         Respond(t, stage, result)
    \/ \E answered \in BOOLEAN : Complete(t, answered)

NotifierStep(t) == NotifierScan(t) \/ NotifierFails(t) \/ NotifierEnds(t)

SupervisorStep ==
    \/ Wake \/ Stop \/ Reap \/ List
    \/ \E t \in sup.join : Join(t)
    \/ \E e \in sup.list : Consider(e) \/ CreateFails(e)

ShutdownStep == Drain \/ \E t \in draining : JoinDrained(t)

VerbStep == \E v \in verbs : TellChildren(v) \/ TellMailbox(v)

Next ==
    \/ \E a \in Agents \ {Root}, forked \in BOOLEAN : Spawn(a, forked)
    \/ \E a \in Agents : Send(a)
    \/ VerbStep
    \/ \E t \in Tasks : EngineStep(t) \/ ResumeOtherwise(t) \/ NotifierStep(t)
    \/ SupervisorStep
    \/ Shutdown \/ ShutdownStep

Spec == Init /\ [][Next]_vars

\* The runtime polls every future that is ready, a model request ends, and the
\* supervisor's select is fair among its branches.
Fairness ==
    /\ WF_vars(VerbStep) /\ WF_vars(SupervisorStep) /\ SF_vars(Stop) /\ WF_vars(ShutdownStep)
    /\ \A t \in Tasks : WF_vars(EngineStep(t)) /\ WF_vars(NotifierStep(t))

FairSpec == Spec /\ Fairness

-----------------------------------------------------------------------------
(* Properties *)

TypeOK ==
    /\ admitted \subseteq Agents /\ headed \subseteq admitted
    /\ unread \in [Agents -> SUBSET Mail] /\ sent \in 0..MaxMail
    /\ verbs \subseteq [mail : Mail, kind : {"spawn", "send"}, told : BOOLEAN]
    /\ sup \in [at : {"reaping", "joining", "starting", "selecting", "ended"},
                up : BOOLEAN, failed : BOOLEAN, join : SUBSET Tasks,
                list : SUBSET [agent : Agents, resumed : BOOLEAN]]
    /\ news \in BOOLEAN
    /\ running \in [Agents -> Slots \cup {None}]
    /\ completed \subseteq Agents
    /\ task \in [Tasks -> Task]
    /\ closing \in {"no", "stopping", "draining"} /\ draining \subseteq Tasks

\* The head of an agent stays where its task found it until that task commits:
\* no completed run loses the compare-and-swap ("head CAS lost"), although the
\* supervisor decides on a list of agents that is out of date.
HeadOwned == \A t \in Tasks : Uncommitted(t) => ~task[t].stale

\* When shutdown returns, no engine task, monitor or notifier is left, and
\* nobody is about to start one ("cancel and join every admitted task").
ShutdownJoins ==
    closing = "draining" /\ draining = {} =>
        \A t \in Tasks : task[t].stage = "unused" \/ Joinable(t)

\* All mail (there are at most MaxMail envelopes) is delivered to requests of its
\* recipients, wherever it finds them: not started, in a request, waiting,
\* completing, completed or being reaped; unless the supervisor ended.
MailDelivered == []<>((\A a \in Agents : unread[a] = {}) \/ sup.at = "ended")

\* shutdown returns, whatever the tasks are doing.
ShutdownEnds == closing = "stopping" ~> closing = "draining" /\ draining = {}

\* A notifier publishes a failure for a run that failed at most. Mail that
\* arrives after a valid completion is none ("Later arrivals remain unread and
\* wake the next request; they do not invalidate an already valid completion").
LateMailHarmless ==
    \A t \in Tasks : task[t].notifier = "failed" => task[t].result = "error"
=============================================================================
