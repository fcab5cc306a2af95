----------------------------- MODULE HostProofs -----------------------------
(***************************************************************************)
(* The agent tree of a host process (TreeDriver), for any agents, slots and*)
(* envelopes, and the logins it stores (Credentials), for any accounts,    *)
(* processes and faults.                                                   *)
(*                                                                         *)
(* TreeDriver: no agent runs twice, so no completion loses the             *)
(* compare-and-swap of its head, and shutdown leaves no task behind.  The  *)
(* invariant follows every task from the start to the join: it is in the   *)
(* table, among those being joined, or among those being drained.  An agent*)
(* is started only when it is not in the table and nothing is being joined,*)
(* so it has no task at all then.                                          *)
(***************************************************************************)
EXTENDS TreeDriver, Credentials, TLAPS

\* Agents are listed, and have tasks, only once they are in the store.
ListedAdmitted ==
    /\ \A e \in sup.list : e.agent \in admitted
    /\ \A t \in Tasks : task[t].stage # "unused" => AgentOf(t) \in admitted

\* An agent has one task at most, wherever that is on its way to the join.
OneTask ==
    \A t, u \in Tasks :
        AgentOf(t) = AgentOf(u) /\ task[t].stage # "unused" /\ task[u].stage # "unused" => t = u

\* Tasks are joined in one part of the scan, and shutdown drains once the
\* supervisor has ended; it empties the table.
Phases ==
    /\ sup.at # "joining" => sup.join = {}
    /\ closing = "draining" => sup.at = "ended" /\ \A a \in Agents : running[a] = None

DrainLate == closing # "draining" => draining = {}

\* A task in use is in the table, to be joined, to be drained, or was drained.
Accounted ==
    \A t \in Tasks : task[t].stage # "unused" =>
        \/ t \in RunningTasks \cup sup.join \cup draining
        \/ closing = "draining" /\ Joinable(t)

TreeInv == TypeOK /\ ListedAdmitted /\ OneTask /\ Phases /\ DrainLate /\ Accounted /\ HeadOwned

-----------------------------------------------------------------------------
(* Tasks and types *)

\* A task is the pair of its agent and its slot.
LEMMA TaskPair ==
    ASSUME NEW t \in Tasks
    PROVE  AgentOf(t) \in Agents /\ t[2] \in Slots /\ t = <<AgentOf(t), t[2]>>
  BY DEF Tasks, AgentOf

\* What a step that gives one task new fields does to the table of tasks.
LEMMA BecomesTask ==
    ASSUME NEW t \in Tasks, NEW new, TypeOK, Becomes(t, new)
    PROVE  /\ task'[t] = new
           /\ \A u \in Tasks : u # t => task'[u] = task[u]
           /\ new \in Task => task' \in [Tasks -> Task]
  BY Zenon DEF TypeOK, Becomes

\* The type of the tasks, of the store, of the supervisor and of the rest
StoreTyped ==
    /\ admitted \subseteq Agents /\ headed \subseteq admitted
    /\ unread \in [Agents -> SUBSET Mail] /\ sent \in 0..MaxMail

SupTyped ==
    /\ sup \in [at : {"reaping", "joining", "starting", "selecting", "ended"},
                up : BOOLEAN, failed : BOOLEAN, join : SUBSET Tasks,
                list : SUBSET [agent : Agents, resumed : BOOLEAN]]
    /\ running \in [Agents -> Slots \cup {None}]
    /\ completed \subseteq Agents

VerbsTyped == verbs \subseteq [mail : Mail, kind : {"spawn", "send"}, told : BOOLEAN]
TaskTyped == task \in [Tasks -> Task]
NewsTyped == news \in BOOLEAN
CloseTyped == closing \in {"no", "stopping", "draining"} /\ draining \subseteq Tasks

\* The type invariant is the conjunction of its parts.
LEMMA TypeParts ==
    TypeOK <=> StoreTyped /\ SupTyped /\ VerbsTyped /\ TaskTyped /\ NewsTyped /\ CloseTyped
  BY Zenon DEF TypeOK, StoreTyped, SupTyped, VerbsTyped, TaskTyped, NewsTyped, CloseTyped

\* So it is after a step.
LEMMA TypePartsNext ==
    StoreTyped' /\ SupTyped' /\ VerbsTyped' /\ TaskTyped' /\ NewsTyped' /\ CloseTyped' => TypeOK'
  BY Zenon DEF TypeOK, StoreTyped, SupTyped, VerbsTyped, TaskTyped, NewsTyped, CloseTyped

\* A part of the state that a step leaves alone keeps its type.
LEMMA UnchangedTyped ==
    ASSUME TypeOK
    PROVE  /\ UNCHANGED storeVars => StoreTyped'
           /\ UNCHANGED supVars => SupTyped'
           /\ UNCHANGED verbs => VerbsTyped'
           /\ UNCHANGED task => TaskTyped'
           /\ UNCHANGED news => NewsTyped'
           /\ UNCHANGED closeVars => CloseTyped'
  BY Zenon, TypeParts
  DEF StoreTyped, SupTyped, VerbsTyped, TaskTyped, NewsTyped, CloseTyped, storeVars, supVars,
      closeVars

-----------------------------------------------------------------------------
(* The verbs *)

\* An envelope and the notification to come have their types.
LEMMA PostTyped ==
    ASSUME TypeOK, NEW a \in Agents, NEW kind \in {"spawn", "send"}, Post(a, kind)
    PROVE  /\ unread' \in [Agents -> SUBSET Mail] /\ sent' \in 0..MaxMail /\ VerbsTyped'
           /\ SupTyped' /\ TaskTyped' /\ NewsTyped' /\ CloseTyped'
  <1>1. sent + 1 \in Mail /\ sent' \in 0..MaxMail
    BY TreeAssumption DEF TypeOK, Post, Mail
  <1>2. unread' \in [Agents -> SUBSET Mail]
    BY Zenon, <1>1 DEF TypeOK, Post
  <1>3. VerbsTyped'
    <2>1. [mail |-> sent + 1, kind |-> kind, told |-> FALSE] \in
            [mail : Mail, kind : {"spawn", "send"}, told : BOOLEAN]
      BY <1>1, Zenon
    <2> QED
      BY <2>1, Zenon DEF TypeOK, Post, VerbsTyped
  <1>4. UNCHANGED supVars /\ UNCHANGED task /\ UNCHANGED news /\ UNCHANGED closeVars
    BY Zenon DEF Post
  <1> QED
    BY <1>1, <1>2, <1>3, <1>4, UnchangedTyped, Zenon

\* The notifications of a verb keep the types.
LEMMA VerbTyped ==
    ASSUME TypeOK, NEW v \in verbs, TellChildren(v) \/ TellMailbox(v)
    PROVE  TypeOK'
  <1>1. CASE TellChildren(v)
    <2> DEFINE Verb == [mail : Mail, kind : {"spawn", "send"}, told : BOOLEAN]
    <2>1. verbs \subseteq Verb /\ v \in Verb
      BY Zenon DEF TypeOK
    <2>2. [v EXCEPT !.told = TRUE] \in Verb
      BY <2>1, Zenon
    <2>3. verbs' = (verbs \ {v}) \cup {[v EXCEPT !.told = TRUE]} /\ news' = TRUE
      BY <1>1, Zenon DEF TellChildren
    <2>4. VerbsTyped' /\ NewsTyped'
      BY <2>1, <2>2, <2>3, Zenon DEF VerbsTyped, NewsTyped
    <2> QED
      BY <1>1, <2>4, UnchangedTyped, TypePartsNext, Zenon DEF TellChildren
  <1>2. CASE TellMailbox(v)
    <2>1. VerbsTyped' /\ NewsTyped'
      BY Zenon, <1>2 DEF TypeOK, TellMailbox, VerbsTyped, NewsTyped
    <2>2. ASSUME NEW t \in Tasks
          PROVE  task[t] \in Task /\ [task[t] EXCEPT !.notifier = "scanning"] \in Task
      BY DEF TypeOK, Task
    <2>3. TaskTyped'
      BY <1>2, <2>2, Zenon DEF TellMailbox, TaskTyped
    <2> QED
      BY <1>2, <2>1, <2>3, UnchangedTyped, TypePartsNext, Zenon DEF TellMailbox
  <1> QED
    BY Zenon, <1>1, <1>2

-----------------------------------------------------------------------------
(* The engine, its monitor and its notifier *)

\* A task whose stage, result, hint, seen, cancel or notifier changes
LEMMA TaskEdits ==
    ASSUME NEW r \in Task,
           NEW stage \in Engaged \cup Leaving \cup {"unused"},
           NEW result \in {"ok", "error", "cancelled"}, NEW hint \in BOOLEAN,
           NEW seen \in SUBSET Mail, NEW answer \in Mail \cup {None},
           NEW notifier \in {"scanning", "selecting", "failed", "ended"}
    PROVE  /\ [r EXCEPT !.stage = stage] \in Task
           /\ [r EXCEPT !.stage = stage, !.seen = seen, !.hint = hint] \in Task
           /\ [r EXCEPT !.stage = stage, !.result = result, !.hint = hint] \in Task
           /\ [r EXCEPT !.stage = stage, !.answer = answer] \in Task
           /\ [r EXCEPT !.seen = seen, !.notifier = notifier, !.hint = hint] \in Task
           /\ [r EXCEPT !.cancel = TRUE, !.notifier = notifier] \in Task
           /\ [r EXCEPT !.notifier = notifier] \in Task
           /\ [r EXCEPT !.result = result] \in Task
           /\ [r EXCEPT !.seen = seen, !.hint = hint] \in Task
  <1>1. [r EXCEPT !.stage = stage] \in Task
    BY Zenon DEF Task
  <1>2. [r EXCEPT !.stage = stage, !.seen = seen, !.hint = hint] \in Task
    BY Zenon DEF Task
  <1>3. [r EXCEPT !.stage = stage, !.result = result, !.hint = hint] \in Task
    BY Zenon DEF Task
  <1>4. [r EXCEPT !.stage = stage, !.answer = answer] \in Task
    BY Zenon DEF Task
  <1>5. [r EXCEPT !.seen = seen, !.notifier = notifier, !.hint = hint] \in Task
    BY Zenon DEF Task
  <1>6. [r EXCEPT !.cancel = TRUE, !.notifier = notifier] \in Task
    BY Zenon DEF Task
  <1>7. [r EXCEPT !.notifier = notifier] \in Task
    BY Zenon DEF Task
  <1>8. [r EXCEPT !.result = result] \in Task
    BY Zenon DEF Task
  <1>9. [r EXCEPT !.seen = seen, !.hint = hint] \in Task
    BY Zenon DEF Task
  <1> QED
    BY <1>1, <1>2, <1>3, <1>4, <1>5, <1>6, <1>7, <1>8, <1>9, Zenon

\* The steps of one task on itself and on what its agent has not read
TaskAlone(t) ==
    \/ Request(t) \/ Resume(t) \/ ResumeOtherwise(t) \/ Cancelled(t) \/ AnnounceEnd(t)
    \/ \E stage \in {"waiting", "returned"}, result \in {"ok", "error"} :
         Respond(t, stage, result)
    \/ NotifierStep(t)

\* What a step may make of a task r that it neither starts nor joins: it is in use
\* if it was, and if it could be joined, it still can. It is as stale as it was,
\* and a completion stays committed.
Moved(r, new) ==
    /\ new \in Task
    /\ r.stage = "unused" <=> new.stage = "unused"
    /\ r.stage = "announced" => new.stage = "announced"
    /\ r.notifier \in Quiet => new.notifier \in Quiet
    /\ new.stale = r.stale
    /\ new.stage \in Engaged \cup {"returned"} => r.stage \in Engaged \cup {"returned"}

\* A claim of the inbox moves its task.
LEMMA ClaimedMoves ==
    ASSUME TypeOK, NEW t \in Tasks, NEW stage \in {"claiming", "thinking"}, NEW hint \in BOOLEAN,
           task[t].stage \in Engaged, Claimed(t, stage, hint)
    PROVE  /\ \E new : Becomes(t, new) /\ Moved(task[t], new)
           /\ StoreTyped' /\ UNCHANGED <<admitted, verbs, supVars, closeVars>> /\ NewsTyped'
  <1> DEFINE new == [task[t] EXCEPT !.stage = stage, !.seen = {}, !.hint = hint]
  <1>1. task[t] \in Task /\ AgentOf(t) \in Agents
    BY TaskPair, Zenon DEF TypeOK
  <1>2. new \in Task
    BY <1>1, TaskEdits, Zenon DEF Engaged
  <1>3. /\ new.stage = stage /\ new.notifier = task[t].notifier /\ new.stale = task[t].stale
    BY <1>1, Zenon DEF Task
  <1>4. Moved(task[t], new)
    BY Zenon, <1>2, <1>3 DEF Moved, Engaged
  <1>5. Becomes(t, new)
    BY Zenon DEF Claimed
  <1>6. unread' \in [Agents -> SUBSET Mail]
    BY Zenon, <1>1 DEF Claimed, TypeOK
  <1>7. StoreTyped'
    BY <1>6, Zenon DEF Claimed, TypeOK, StoreTyped
  <1> QED
    BY <1>4, <1>5, <1>7, UnchangedTyped, Zenon DEF Claimed

\* Every step of a task on itself moves it, and keeps the tables.
LEMMA AloneMoves ==
    ASSUME TypeOK, NEW t \in Tasks, TaskAlone(t)
    PROVE  /\ \E new : Becomes(t, new) /\ Moved(task[t], new)
           /\ StoreTyped' /\ UNCHANGED <<admitted, verbs, supVars, closeVars>> /\ NewsTyped'
  <1> DEFINE r == task[t]
             Goal == /\ \E new : Becomes(t, new) /\ Moved(r, new)
                     /\ StoreTyped' /\ UNCHANGED <<admitted, verbs, supVars, closeVars>> /\ NewsTyped'
  <1>1. r \in Task /\ AgentOf(t) \in Agents
    BY TaskPair, Zenon DEF TypeOK
  <1>2. /\ r.hint \in BOOLEAN /\ r.seen \subseteq Mail /\ unread[AgentOf(t)] \subseteq Mail
        /\ r.stage \in Engaged \cup Leaving \cup {"unused"}
        /\ r.notifier \in {"scanning", "selecting", "failed", "ended"}
    BY Zenon, <1>1 DEF Task, TypeOK
  <1>3. CASE Request(t)
    <2>1. r.stage \in Engaged
      BY Zenon, <1>3 DEF Request, Engaged
    <2> QED
      BY <1>2, <1>3, <2>1, ClaimedMoves, Zenon DEF Request
  <1>4. CASE Resume(t)
    <2>1. r.stage \in Engaged
      BY Zenon, <1>4 DEF Resume, Engaged
    <2> QED
      BY <1>4, <2>1, ClaimedMoves, Zenon DEF Resume
  <1>5. CASE ResumeOtherwise(t)
    <2>1. r.stage \in Engaged
      BY Zenon, <1>5 DEF ResumeOtherwise, Engaged
    <2>2. (IF r.cancel THEN "claiming" ELSE "thinking") \in {"claiming", "thinking"}
      BY Zenon
    <2> QED
      BY <1>2, <1>5, <2>1, <2>2, ClaimedMoves, Zenon DEF ResumeOtherwise
  <1>6. CASE Cancelled(t)
    <2> DEFINE new == [r EXCEPT !.stage = "returned", !.result = "cancelled", !.hint = FALSE]
    <2>1. new \in Task
      BY <1>1, TaskEdits, Zenon DEF Leaving
    <2>2. new.stage = "returned" /\ new.notifier = r.notifier /\ new.stale = r.stale
      BY <1>1, Zenon DEF Task
    <2>3. Moved(r, new)
      BY Zenon, <1>6, <2>1, <2>2 DEF Cancelled, Moved, Engaged
    <2> QED
      BY <1>6, <2>3, UnchangedTyped, Zenon DEF Cancelled, storeVars
  <1>7. CASE AnnounceEnd(t)
    <2> DEFINE new == [r EXCEPT !.stage = "announced"]
    <2>1. new \in Task
      BY <1>1, TaskEdits, Zenon DEF Leaving
    <2>2. new.stage = "announced" /\ new.notifier = r.notifier /\ new.stale = r.stale
      BY <1>1, Zenon DEF Task
    <2>3. Moved(r, new)
      BY Zenon, <1>7, <2>1, <2>2 DEF AnnounceEnd, Moved, Engaged
    <2> QED
      BY <1>7, <2>3, UnchangedTyped, Zenon DEF AnnounceEnd, storeVars, NewsTyped
  <1>8. ASSUME NEW stage \in {"waiting", "returned"}, NEW result \in {"ok", "error"},
               Respond(t, stage, result)
        PROVE  Goal
    <2> DEFINE hint == r.hint /\ stage # "returned"
               new == [r EXCEPT !.stage = stage, !.result = result, !.hint = hint]
    <2>1. stage \in Engaged \cup Leaving \cup {"unused"} /\ hint \in BOOLEAN
          /\ result \in {"ok", "error", "cancelled"}
      BY Zenon, <1>2 DEF Leaving, Engaged
    <2> HIDE DEF hint
    <2>2. new \in Task
      BY <1>1, <2>1, TaskEdits, Zenon
    <2>3. new.stage = stage /\ new.notifier = r.notifier /\ new.stale = r.stale
      BY <1>1, Zenon DEF Task
    <2>4. Moved(r, new)
      BY Zenon, <1>8, <2>2, <2>3 DEF Respond, Moved, Engaged
    <2> QED
      BY <1>8, <2>4, UnchangedTyped, Zenon DEF Respond, storeVars, hint
  <1>9. CASE NotifierScan(t)
    <2> DEFINE fresh == unread[AgentOf(t)] \ r.seen
               new == [r EXCEPT !.seen = @ \cup fresh, !.notifier = "selecting",
                         !.hint = @ \/ (r.stage \in Engaged /\ fresh # {})]
    <2>1. r.seen \cup fresh \in SUBSET Mail
          /\ (r.hint \/ (r.stage \in Engaged /\ fresh # {})) \in BOOLEAN
      BY <1>2, Zenon
    <2>2. new \in Task
      BY <1>1, <2>1, TaskEdits, Zenon
    <2>3. new.stage = r.stage /\ new.notifier = "selecting" /\ new.stale = r.stale
      BY <1>1, Zenon DEF Task
    <2>4. Moved(r, new)
      BY Zenon, <1>9, <2>2, <2>3 DEF NotifierScan, Moved, Quiet
    <2> QED
      BY <1>9, <2>4, UnchangedTyped, Zenon DEF NotifierScan, storeVars
  <1>10. CASE NotifierFails(t)
    <2> DEFINE new == [r EXCEPT !.cancel = TRUE, !.notifier = "failed"]
    <2>1. new \in Task
      BY <1>1, TaskEdits, Zenon
    <2>2. new.stage = r.stage /\ new.notifier = "failed" /\ new.stale = r.stale
      BY <1>1, Zenon DEF Task
    <2>3. Moved(r, new)
      BY Zenon, <1>10, <2>1, <2>2 DEF NotifierFails, Moved, Quiet, Leaving
    <2> QED
      BY <1>10, <2>3, UnchangedTyped, Zenon DEF NotifierFails, storeVars
  <1>11. CASE NotifierEnds(t)
    <2> DEFINE new == [r EXCEPT !.notifier = "ended"]
    <2>1. new \in Task
      BY <1>1, TaskEdits, Zenon
    <2>2. new.stage = r.stage /\ new.notifier = "ended" /\ new.stale = r.stale
      BY <1>1, Zenon DEF Task
    <2>3. Moved(r, new)
      BY Zenon, <1>11, <2>1, <2>2 DEF NotifierEnds, Moved, Quiet
    <2> QED
      BY <1>11, <2>3, UnchangedTyped, Zenon DEF NotifierEnds, storeVars
  <1> QED
    BY <1>3, <1>4, <1>5, <1>6, <1>7, <1>8, <1>9, <1>10, <1>11, Zenon DEF TaskAlone, NotifierStep

-----------------------------------------------------------------------------
(* Steps that keep the tables of the supervisor *)

Rest == ListedAdmitted /\ OneTask /\ Phases /\ DrainLate /\ Accounted /\ HeadOwned

\* A step that only moves tasks, and may admit agents, keeps the invariant.
LEMMA TasksMove ==
    ASSUME TreeInv, admitted \subseteq admitted', UNCHANGED <<supVars, closeVars>>,
           \A u \in Tasks : Moved(task[u], task'[u])
    PROVE  Rest'
  <1>1. UNCHANGED <<sup, running, closing, draining>>
    BY Zenon DEF supVars, closeVars
  <1>2. \A u \in Tasks : /\ task'[u].stage # "unused" <=> task[u].stage # "unused"
                         /\ Joinable(u) => Joinable(u)'
                         /\ Uncommitted(u)' => Uncommitted(u)
                         /\ task'[u].stale = task[u].stale
    BY Zenon DEF Moved, Joinable, Uncommitted
  <1>3. ListedAdmitted'
    BY <1>1, <1>2, Zenon DEF TreeInv, ListedAdmitted
  <1>4. OneTask'
    BY <1>2, Zenon DEF TreeInv, OneTask
  <1>5. Phases' /\ DrainLate'
    BY <1>1, Zenon DEF TreeInv, Phases, DrainLate
  <1>6. RunningTasks' = RunningTasks
    BY <1>1, Zenon DEF RunningTasks
  <1>7. Accounted'
    BY <1>1, <1>2, <1>6, Zenon DEF TreeInv, Accounted
  <1>8. HeadOwned'
    BY <1>2, Zenon DEF TreeInv, HeadOwned
  <1> QED
    BY <1>3, <1>4, <1>5, <1>7, <1>8, Zenon DEF Rest

\* A task that is left alone has moved, too.
LEMMA MovedAlready ==
    ASSUME NEW r \in Task
    PROVE  Moved(r, r)
  BY Zenon DEF Moved

\* The notifications of a verb keep the invariant.
LEMMA VerbKeeps ==
    ASSUME TreeInv, NEW v \in verbs, TellChildren(v) \/ TellMailbox(v)
    PROVE  TreeInv'
  <1>1. TypeOK /\ \A u \in Tasks : task[u] \in Task
    BY Zenon DEF TreeInv, TypeOK
  <1>2. TypeOK'
    BY <1>1, VerbTyped, Zenon
  <1>3. UNCHANGED <<supVars, closeVars>> /\ admitted' = admitted
    BY Zenon DEF TellChildren, TellMailbox, storeVars
  <1>4. ASSUME NEW u \in Tasks
        PROVE  Moved(task[u], task'[u])
    <2> DEFINE new == [task[u] EXCEPT !.notifier = "scanning"]
    <2>1. CASE task'[u] = task[u]
      BY <1>1, <2>1, MovedAlready, Zenon
    <2>2. CASE task'[u] = new /\ task[u].notifier \notin Quiet
      <3>1. new \in Task /\ new.stage = task[u].stage /\ new.stale = task[u].stale
        BY <1>1, Zenon DEF Task
      <3> QED
        BY <2>2, <3>1, Zenon DEF Moved
    <2>3. task'[u] = task[u] \/ (task'[u] = new /\ task[u].notifier \notin Quiet)
      BY Zenon DEF TellChildren, TellMailbox
    <2> QED
      BY <2>1, <2>2, <2>3, Zenon
  <1> QED
    BY <1>2, <1>3, <1>4, TasksMove, Zenon DEF TreeInv, Rest

\* So does the transaction of a verb, which may admit an agent.
LEMMA PostKeeps ==
    ASSUME TreeInv, NEW a \in Agents, NEW kind \in {"spawn", "send"}, Post(a, kind),
           admitted \subseteq admitted', admitted' \subseteq Agents, headed' \subseteq admitted'
    PROVE  TreeInv'
  <1>1. TypeOK /\ \A u \in Tasks : Moved(task[u], task'[u])
    BY MovedAlready, Zenon DEF TreeInv, TypeOK, Post
  <1>2. TypeOK'
    BY <1>1, PostTyped, TypePartsNext, Zenon DEF StoreTyped
  <1>3. UNCHANGED <<supVars, closeVars>>
    BY Zenon DEF Post
  <1> QED
    BY <1>1, <1>2, <1>3, TasksMove, Zenon DEF TreeInv, Rest

\* So do the steps of a task on itself.
LEMMA AloneKeeps ==
    ASSUME TreeInv, NEW t \in Tasks, TaskAlone(t)
    PROVE  TreeInv'
  <1>1. TypeOK /\ \A u \in Tasks : task[u] \in Task
    BY Zenon DEF TreeInv, TypeOK
  <1>2. PICK new : Becomes(t, new) /\ Moved(task[t], new)
    BY <1>1, AloneMoves, Zenon
  <1>3. StoreTyped' /\ UNCHANGED <<admitted, verbs, supVars, closeVars>> /\ NewsTyped'
    BY <1>1, AloneMoves, Zenon
  <1>4. task'[t] = new /\ TaskTyped' /\ \A u \in Tasks : u # t => task'[u] = task[u]
    BY <1>1, <1>2, BecomesTask, Zenon DEF Moved, TaskTyped
  <1>5. \A u \in Tasks : Moved(task[u], task'[u])
    BY <1>1, <1>2, <1>4, MovedAlready, Zenon
  <1>6. TypeOK'
    BY <1>1, <1>3, <1>4, UnchangedTyped, TypePartsNext, Zenon
  <1> QED
    BY <1>3, <1>5, <1>6, TasksMove, Zenon DEF TreeInv, Rest

\* The commit finds no other task of its agent that could become stale.
LEMMA CompleteKeeps ==
    ASSUME TreeInv, NEW t \in Tasks, NEW answered \in BOOLEAN, Complete(t, answered)
    PROVE  TreeInv'
  <1> DEFINE a == AgentOf(t)
             id == IF answered THEN sent + 1 ELSE None
             r == task[t]
  <1>1. TypeOK /\ (\A u \in Tasks : task[u] \in Task) /\ a \in Agents
    BY TaskPair, Zenon DEF TreeInv, TypeOK
  <1>2. r.stage = "returned" /\ a \in admitted /\ UNCHANGED <<admitted, verbs, supVars, news, closeVars>>
    BY Zenon DEF Complete, TreeInv, ListedAdmitted
  <1>3. CASE ~r.stale
    <2> DEFINE new == [r EXCEPT !.stage = "committed", !.answer = id]
    <2>1. id \in Mail \cup {None}
      BY Zenon DEF Complete
    <2>2. new \in Task
      BY <1>1, <2>1, TaskEdits, Zenon DEF Leaving
    <2>3. new.stage = "committed" /\ new.notifier = r.notifier /\ new.stale = r.stale
      BY <1>1, Zenon DEF Task
    <2>4. Moved(r, new)
      BY Zenon, <1>2, <2>2, <2>3 DEF Moved, Engaged
    <2>5. task' = [u \in Tasks |->
                     IF u = t THEN new
                     ELSE [task[u] EXCEPT !.stale = @ \/ (AgentOf(u) = a /\ Uncommitted(u))]]
      BY <1>3, Zenon DEF Complete
    <2>6. ASSUME NEW u \in Tasks, u # t
          PROVE  task'[u] = task[u]
      <3>1. ~(AgentOf(u) = a /\ Uncommitted(u))
        BY Zenon, <1>2, <2>6 DEF TreeInv, OneTask, Uncommitted, Engaged
      <3>2. task[u].stale \in BOOLEAN
        BY <1>1, Zenon DEF Task
      <3>3. task'[u] = [task[u] EXCEPT !.stale = task[u].stale]
        BY <2>5, <2>6, <3>1, <3>2, Zenon
      <3> QED
        BY Zenon, <1>1, <3>3 DEF Task
    <2>7. \A u \in Tasks : Moved(task[u], task'[u])
      BY <1>1, <2>4, <2>5, <2>6, MovedAlready, Zenon
    <2>8. TaskTyped'
      BY <2>5, <2>7, Zenon DEF TaskTyped, Moved
    <2>9. headed' = headed \cup {a}
      BY <1>3, Zenon DEF Complete
    <2>10. unread' \in [Agents -> SUBSET Mail] /\ sent' \in 0..MaxMail
      <3>1. CASE answered
        <4>1. id \in Mail /\ sent' = id /\ a # Root /\ unread' = [unread EXCEPT ![Parent[a]] = @ \cup {id}]
          BY <1>3, <3>1, Zenon DEF Complete
        <4>2. Parent[a] \in Agents /\ unread[Parent[a]] \cup {id} \in SUBSET Mail
          BY <1>1, <4>1, TreeAssumption, Zenon DEF TypeOK
        <4> QED
          BY <1>1, <4>1, <4>2 DEF TypeOK, Mail
      <3>2. CASE ~answered
        BY <1>1, <1>3, <3>2, Zenon DEF Complete, TypeOK
      <3> QED
        BY <3>1, <3>2, Zenon
    <2>11. StoreTyped'
      BY <1>1, <1>2, <2>9, <2>10, Zenon DEF StoreTyped, TypeOK
    <2>12. TypeOK'
      BY <1>1, <1>2, <2>8, <2>11, UnchangedTyped, TypePartsNext, Zenon
    <2> QED
      BY <1>2, <2>7, <2>12, TasksMove, Zenon DEF TreeInv, Rest
  <1>4. CASE r.stale
    BY Zenon, <1>2, <1>4 DEF TreeInv, HeadOwned, Uncommitted
  <1> QED
    BY <1>3, <1>4, Zenon

\* The hint for the parent changes nothing the invariant speaks of.
LEMMA FinishKeeps ==
    ASSUME TreeInv, NEW t \in Tasks, Finish(t)
    PROVE  TreeInv'
  <1> DEFINE r == task[t]
             woken == IF r.answer = None THEN {}
                      ELSE RunningTasks \cap ({Parent[AgentOf(t)]} \X Slots)
             done == [r EXCEPT !.stage = "settled", !.answer = None]
  <1>1. TypeOK /\ \A u \in Tasks : task[u] \in Task
    BY Zenon DEF TreeInv, TypeOK
  <1>2. /\ r.stage \in {"committed", "returned"}
        /\ task' = [u \in Tasks |-> IF u = t THEN done
                                    ELSE IF u \in woken THEN Hint(u, r.answer) ELSE task[u]]
        /\ UNCHANGED <<storeVars, verbs, supVars, news, closeVars>>
    BY Zenon DEF Finish
  <1>3. done \in Task
    BY <1>1, TaskEdits, Zenon DEF Leaving
  <1>4. done.stage = "settled" /\ done.notifier = r.notifier /\ done.stale = r.stale
    BY <1>1, Zenon DEF Task
  <1>5. Moved(r, done)
    BY Zenon, <1>2, <1>3, <1>4 DEF Moved, Engaged
  <1>6. ASSUME NEW u \in Tasks
        PROVE  Moved(task[u], Hint(u, r.answer))
    <2> DEFINE seen == task[u].seen \cup ({r.answer} \cap unread[AgentOf(u)])
               hint == task[u].hint \/ task[u].stage \in Engaged
               new == [task[u] EXCEPT !.seen = seen, !.hint = hint]
    <2>1. seen \in SUBSET Mail /\ hint \in BOOLEAN
      <3>1. AgentOf(u) \in Agents /\ task[u] \in Task
        BY <1>1, TaskPair, Zenon
      <3>2. task[u].seen \in SUBSET Mail /\ unread[AgentOf(u)] \in SUBSET Mail /\ task[u].hint \in BOOLEAN
        BY <1>1, <3>1, Zenon DEF TypeOK, Task
      <3> QED
        BY <3>2, Zenon
    <2>2. new \in Task
      BY <1>1, <2>1, TaskEdits, Zenon
    <2>3. new.stage = task[u].stage /\ new.notifier = task[u].notifier /\ new.stale = task[u].stale
      BY <1>1, Zenon DEF Task
    <2>4. Moved(task[u], new)
      BY <2>2, <2>3, Zenon DEF Moved
    <2> QED
      BY <2>4, Zenon DEF Hint
  <1>7. \A u \in Tasks : Moved(task[u], task'[u])
    BY <1>1, <1>2, <1>5, <1>6, MovedAlready, Zenon
  <1>8. TaskTyped'
    BY <1>2, <1>7, Zenon DEF TaskTyped, Moved
  <1>9. TypeOK' /\ admitted' = admitted
    BY <1>1, <1>2, <1>8, UnchangedTyped, TypePartsNext, Zenon DEF storeVars
  <1> QED
    BY <1>2, <1>7, <1>9, TasksMove, Zenon DEF TreeInv, Rest

-----------------------------------------------------------------------------
(* The supervisor and shutdown *)

\* A step of the supervisor that leaves the tables and the tasks alone
LEMMA StandingKeeps ==
    ASSUME TreeInv, SupTyped', NewsTyped', CloseTyped',
           UNCHANGED <<storeVars, verbs, running, task, draining>>,
           sup'.join = sup.join,
           sup'.at # "joining" => sup.join = {},
           closing' = "draining" => closing = "draining" /\ sup'.at = "ended",
           closing = "draining" => closing' = "draining",
           \A e \in sup'.list : e.agent \in admitted
    PROVE  TreeInv'
  <1>1. TypeOK'
    BY UnchangedTyped, TypePartsNext, Zenon DEF TreeInv
  <1>2. ListedAdmitted' /\ OneTask' /\ HeadOwned' /\ DrainLate'
    BY Zenon DEF TreeInv, ListedAdmitted, OneTask, HeadOwned, DrainLate, Uncommitted, storeVars
  <1>3. Phases'
    BY Zenon DEF TreeInv, Phases
  <1>4. Accounted'
    BY Zenon DEF TreeInv, Accounted, RunningTasks, Joinable
  <1> QED
    BY <1>1, <1>2, <1>3, <1>4, Zenon DEF TreeInv

\* The select of the supervisor, and the call of shutdown
LEMMA SelectKeeps ==
    ASSUME TreeInv, Wake \/ Stop \/ Shutdown
    PROVE  TreeInv'
  <1>1. TypeOK /\ SupTyped /\ NewsTyped /\ CloseTyped
    BY TypeParts, Zenon DEF TreeInv
  <1>2. CASE Wake
    <2>1. SupTyped' /\ sup'.at = "reaping" /\ sup'.join = sup.join /\ sup'.list = sup.list
      BY <1>1, <1>2, Zenon DEF Wake, SupTyped
    <2>2. sup.at = "selecting" /\ sup.join = {} /\ closing # "draining"
      BY Zenon, <1>2 DEF Wake, TreeInv, Phases
    <2>3. NewsTyped' /\ CloseTyped' /\ UNCHANGED <<storeVars, verbs, running, task, closing, draining>>
      BY <1>1, <1>2, Zenon DEF Wake, NewsTyped, CloseTyped, closeVars
    <2> QED
      BY <2>1, <2>2, <2>3, StandingKeeps, Zenon DEF TreeInv, ListedAdmitted
  <1>3. CASE Stop
    <2>1. SupTyped' /\ sup'.at = "ended" /\ sup'.join = sup.join /\ sup'.list = sup.list
      BY <1>1, <1>3, Zenon DEF Stop, SupTyped
    <2>2. sup.at = "selecting" /\ sup.join = {} /\ closing # "draining"
      BY Zenon, <1>3 DEF Stop, TreeInv, Phases
    <2>3. NewsTyped' /\ CloseTyped' /\ UNCHANGED <<storeVars, verbs, running, task, closing, draining>>
      BY <1>1, <1>3, Zenon DEF Stop, NewsTyped, CloseTyped, closeVars
    <2> QED
      BY <2>1, <2>2, <2>3, StandingKeeps, Zenon DEF TreeInv, ListedAdmitted
  <1>4. CASE Shutdown
    <2>1. closing = "no" /\ closing' = "stopping" /\ UNCHANGED draining
      BY <1>4, Zenon DEF Shutdown
    <2>2. SupTyped' /\ NewsTyped' /\ UNCHANGED <<storeVars, verbs, sup, running, task, draining>>
      BY <1>1, <1>4, UnchangedTyped, Zenon DEF Shutdown, supVars
    <2>3. CloseTyped' /\ closing' # "draining" /\ closing # "draining"
      BY Zenon, <1>1, <2>1 DEF CloseTyped
    <2>4. sup'.at # "joining" => sup.join = {}
      BY <2>2, Zenon DEF TreeInv, Phases
    <2> QED
      BY <2>2, <2>3, <2>4, StandingKeeps, Zenon DEF TreeInv, ListedAdmitted
  <1> QED
    BY <1>2, <1>3, <1>4, Zenon

\* The finished tasks that leave the table are the ones to join.
LEMMA ReapKeeps ==
    ASSUME TreeInv, Reap
    PROVE  TreeInv'
  <1> DEFINE finished == {t \in RunningTasks : task[t].stage \in {"settled", "announced"}}
  <1>1. TypeOK /\ SupTyped
    BY TypeParts, Zenon DEF TreeInv
  <1>2. /\ sup.at = "reaping"
        /\ running' = [a \in Agents |-> IF <<a, running[a]>> \in finished THEN None ELSE running[a]]
        /\ sup' = [sup EXCEPT !.at = "joining", !.join = finished]
        /\ UNCHANGED <<storeVars, verbs, completed, news, task, closeVars>>
    BY Zenon DEF Reap
  <1>3. finished \in SUBSET Tasks /\ running' \in [Agents -> Slots \cup {None}]
    BY <1>1, <1>2, Zenon DEF RunningTasks, SupTyped
  <1>4. SupTyped' /\ sup'.at = "joining" /\ sup'.join = finished /\ sup'.list = sup.list
    BY <1>1, <1>2, <1>3, Zenon DEF SupTyped
  <1>5. TypeOK'
    BY <1>1, <1>2, <1>4, UnchangedTyped, TypePartsNext, Zenon
  <1>6. sup.join = {} /\ closing # "draining"
    BY Zenon, <1>2 DEF TreeInv, Phases
  <1>7. UNCHANGED <<admitted, task, closing, draining>>
    BY <1>2, Zenon DEF storeVars, closeVars
  <1>8. ListedAdmitted' /\ OneTask' /\ HeadOwned' /\ DrainLate'
    BY <1>4, <1>7, Zenon DEF TreeInv, ListedAdmitted, OneTask, HeadOwned, DrainLate, Uncommitted
  <1>9. Phases'
    BY <1>4, <1>6, <1>7, Zenon DEF Phases
  <1>10. ASSUME NEW t \in Tasks, t \in RunningTasks
         PROVE  t \in RunningTasks' \/ t \in finished
    <2>1. AgentOf(t) \in Agents /\ running[AgentOf(t)] = t[2] /\ t = <<AgentOf(t), t[2]>>
      BY <1>10, TaskPair, Zenon DEF RunningTasks
    <2>2. running'[AgentOf(t)] = IF t \in finished THEN None ELSE t[2]
      BY <1>2, <2>1, Zenon
    <2> QED
      BY <2>2, Zenon DEF RunningTasks
  <1>11. Accounted'
    BY <1>4, <1>6, <1>7, <1>10, Zenon DEF TreeInv, Accounted
  <1> QED
    BY <1>5, <1>8, <1>9, <1>11, Zenon DEF TreeInv

\* A task that is joined leaves its slot.
LEMMA JoinKeeps ==
    ASSUME TreeInv, NEW t \in sup.join, Join(t)
    PROVE  TreeInv'
  <1>1. TypeOK /\ SupTyped /\ t \in Tasks
    <2>1. TypeOK /\ SupTyped
      BY TypeParts, Zenon DEF TreeInv
    <2> QED
      BY <2>1, Zenon DEF SupTyped
  <1> DEFINE bad == task[t].result = "error"
             join == sup.join \ {t}
             failed == sup.failed \/ bad
  <1>2. /\ sup.at = "joining"
        /\ sup' = [sup EXCEPT !.join = join, !.failed = failed]
        /\ completed' = IF task[t].result = "ok" THEN completed \cup {AgentOf(t)} ELSE completed
        /\ Becomes(t, Unused)
        /\ UNCHANGED <<storeVars, verbs, running, news, closeVars>>
    BY Zenon DEF Join
  <1>3. AgentOf(t) \in Agents /\ completed' \subseteq Agents
    BY <1>1, <1>2, TaskPair, Zenon DEF SupTyped
  <1>4. SupTyped' /\ sup'.at = "joining" /\ sup'.join = join /\ sup'.list = sup.list
    BY <1>1, <1>2, <1>3, Zenon DEF SupTyped
  <1>5. Unused \in Task /\ Unused.stage = "unused"
    BY Zenon DEF Unused, Task, Engaged, Leaving, Mail
  <1>6. task'[t] = Unused /\ TaskTyped' /\ \A u \in Tasks : u # t => task'[u] = task[u]
    BY <1>1, <1>2, <1>5, BecomesTask, Zenon DEF TaskTyped
  <1>7. TypeOK'
    BY <1>1, <1>2, <1>4, <1>6, UnchangedTyped, TypePartsNext, Zenon
  <1>8. closing # "draining" /\ UNCHANGED <<admitted, running, closing, draining>>
    BY Zenon, <1>2 DEF TreeInv, Phases, storeVars, closeVars
  <1>9. \A u \in Tasks : task'[u].stage # "unused" => u # t /\ task'[u] = task[u]
    BY <1>5, <1>6, Zenon
  <1>10. ListedAdmitted' /\ OneTask' /\ DrainLate'
    BY <1>4, <1>8, <1>9, Zenon DEF TreeInv, ListedAdmitted, OneTask, DrainLate
  <1>11. \A u \in Tasks : Uncommitted(u)' => task'[u].stage # "unused"
    BY Zenon DEF Uncommitted, Engaged
  <1>12. HeadOwned'
    BY <1>9, <1>11, Zenon DEF TreeInv, HeadOwned, Uncommitted
  <1>13. Phases'
    BY <1>4, <1>8, Zenon DEF Phases
  <1>14. Accounted'
    BY <1>4, <1>8, <1>9, Zenon DEF TreeInv, Accounted, RunningTasks
  <1> QED
    BY <1>7, <1>10, <1>12, <1>13, <1>14, Zenon DEF TreeInv

\* The list holds admitted agents.
LEMMA ListKeeps ==
    ASSUME TreeInv, List
    PROVE  TreeInv'
  <1> DEFINE list == {[agent |-> a, resumed |-> a \in headed] : a \in admitted}
  <1>1. TypeOK /\ SupTyped /\ NewsTyped /\ CloseTyped /\ admitted \subseteq Agents
    BY TypeParts, Zenon DEF TreeInv, StoreTyped
  <1>2. /\ sup.join = {} /\ sup.at = "joining"
        /\ UNCHANGED <<storeVars, verbs, running, completed, news, task, closing, draining>>
    BY Zenon DEF List, closeVars
  <1>3. list \in SUBSET [agent : Agents, resumed : BOOLEAN] /\ \A e \in list : e.agent \in admitted
    <2>1. ASSUME NEW e \in list
          PROVE  e \in [agent : Agents, resumed : BOOLEAN] /\ e.agent \in admitted
      <3>1. PICK a \in admitted : e = [agent |-> a, resumed |-> a \in headed]
        BY Zenon
      <3>2. a \in Agents /\ (a \in headed) \in BOOLEAN
        BY <1>1
      <3> QED
        BY Zenon, <3>1, <3>2
    <2> QED
      BY <2>1, Zenon
  <1>4. closing # "draining"
    BY Zenon, <1>2 DEF TreeInv, Phases
  <1>5. NewsTyped' /\ CloseTyped'
    BY <1>1, <1>2, Zenon DEF NewsTyped, CloseTyped
  <1>6. CASE sup.failed
    <2>1. sup' = [sup EXCEPT !.at = "ended"]
      BY <1>6, Zenon DEF List
    <2>2. SupTyped' /\ sup'.join = sup.join /\ sup'.list = sup.list
      BY <1>1, <1>2, <2>1, Zenon DEF SupTyped
    <2> QED
      BY <1>2, <1>4, <1>5, <2>2, StandingKeeps, Zenon DEF TreeInv, ListedAdmitted
  <1>7. CASE ~sup.failed
    <2>1. sup' = [sup EXCEPT !.at = "starting", !.list = list]
      BY <1>7, Zenon DEF List
    <2>2. SupTyped' /\ sup'.join = sup.join /\ sup'.list = list
      BY <1>1, <1>2, <1>3, <2>1, Zenon DEF SupTyped
    <2> QED
      BY <1>2, <1>3, <1>4, <1>5, <2>2, StandingKeeps, Zenon
  <1> QED
    BY <1>6, <1>7, Zenon

\* A task is started only where the agent has none: it is not in the table, and
\* while agents are started nothing waits to be joined or drained.
LEMMA NoTaskYet ==
    ASSUME TreeInv, sup.at = "starting", NEW a \in Agents, MayStart(a), NEW t \in Tasks,
           AgentOf(t) = a
    PROVE  task[t].stage = "unused"
  <1>1. sup.join = {} /\ closing # "draining" /\ draining = {}
    BY Zenon DEF TreeInv, Phases, DrainLate
  <1>2. t[2] # None
    BY TaskPair, TreeAssumption DEF Slots, None
  <1>3. t \notin RunningTasks
    BY <1>2, Zenon DEF MayStart, RunningTasks
  <1> QED
    BY <1>1, <1>3, Zenon DEF TreeInv, Accounted

\* The table and the tasks after a start
LEMMA StartKeeps ==
    ASSUME TreeInv, sup.at = "starting", NEW a \in admitted, MayStart(a), StartAgent(a),
           UNCHANGED <<admitted, closeVars>>, sup'.join = sup.join,
           sup'.list \subseteq sup.list
    PROVE  Rest' /\ TaskTyped' /\ running' \in [Agents -> Slots \cup {None}]
  <1> DEFINE free == {n \in Slots : task[<<a, n>>].stage = "unused"}
             new == [Unused EXCEPT !.stage = "claiming", !.seen = unread[a],
                                   !.notifier = "scanning"]
  <1>1. TypeOK /\ a \in Agents
    BY Zenon DEF TreeInv, TypeOK
  <1>2. PICK n \in free : running' = [running EXCEPT ![a] = n] /\ Becomes(<<a, n>>, new)
    BY Zenon DEF StartAgent
  <1> DEFINE s == <<a, n>>
  <1>3. n \in Slots /\ s \in Tasks /\ AgentOf(s) = a /\ s[2] = n
    BY Zenon, <1>1, <1>2 DEF Tasks, AgentOf
  <1>4. new \in Task
    <2>1. unread[a] \in SUBSET Mail
      BY <1>1, Zenon DEF TypeOK
    <2> QED
      BY <2>1, Zenon DEF Unused, Task, Engaged, Leaving
  <1>5. new.stage = "claiming" /\ new.stale = FALSE
    BY Zenon DEF Unused
  <1>6. task'[s] = new /\ TaskTyped' /\ \A u \in Tasks : u # s => task'[u] = task[u]
    BY <1>1, <1>2, <1>3, <1>4, BecomesTask, Zenon DEF TaskTyped
  <1>7. running' \in [Agents -> Slots \cup {None}]
    BY <1>1, <1>2, <1>3, Zenon DEF TypeOK
  <1>8. \A u \in Tasks : AgentOf(u) = a => task[u].stage = "unused"
    BY <1>1, NoTaskYet, Zenon
  <1>9. ListedAdmitted'
    BY <1>3, <1>6, Zenon DEF TreeInv, ListedAdmitted
  <1>10. OneTask'
    <2>1. \A u \in Tasks : u # s /\ task'[u].stage # "unused" => AgentOf(u) # a
      BY <1>6, <1>8, Zenon
    <2> SUFFICES ASSUME NEW u \in Tasks, NEW w \in Tasks, AgentOf(u) = AgentOf(w),
                        task'[u].stage # "unused", task'[w].stage # "unused", u # w
                 PROVE  FALSE
      BY Zenon DEF OneTask
    <2>2. CASE u # s /\ w # s
      <3>1. task'[u] = task[u] /\ task'[w] = task[w]
        BY <1>6, <2>2, Zenon
      <3>2. OneTask
        BY Zenon DEF TreeInv
      <3> QED
        BY <3>1, <3>2, Zenon DEF OneTask
    <2> QED
      BY <1>3, <2>1, <2>2, Zenon
  <1>11. sup.join = {} /\ closing # "draining" /\ UNCHANGED <<closing, draining>>
    BY Zenon DEF TreeInv, Phases, closeVars
  <1>12. Phases' /\ DrainLate'
    BY <1>11, Zenon DEF TreeInv, Phases, DrainLate
  <1>13. HeadOwned'
    BY <1>5, <1>6, Zenon DEF TreeInv, HeadOwned, Uncommitted
  <1>14. ASSUME NEW u \in Tasks, task'[u].stage # "unused"
         PROVE  u \in RunningTasks'
    <2>1. CASE u = s
      BY <1>1, <1>2, <1>3, <2>1, Zenon DEF RunningTasks, TypeOK
    <2>2. CASE u # s
      <3>1. task[u].stage # "unused" /\ AgentOf(u) # a /\ AgentOf(u) \in Agents
        BY <1>6, <1>8, <1>14, <2>2, TaskPair, Zenon
      <3>2. u \in RunningTasks
        BY <1>11, <3>1, Zenon DEF TreeInv, Accounted, DrainLate
      <3> QED
        BY <1>1, <1>2, <3>1, <3>2, Zenon DEF RunningTasks, TypeOK
    <2> QED
      BY <2>1, <2>2, Zenon
  <1>15. Accounted'
    BY <1>14, Zenon DEF Accounted
  <1> QED
    BY <1>6, <1>7, <1>9, <1>10, <1>12, <1>13, <1>15, Zenon DEF Rest

\* One agent of the list is started, or not.
LEMMA ConsiderKeeps ==
    ASSUME TreeInv, NEW e \in sup.list, Consider(e)
    PROVE  TreeInv'
  <1>1. TypeOK /\ SupTyped
    BY TypeParts, Zenon DEF TreeInv
  <1>2. sup.list \subseteq [agent : Agents, resumed : BOOLEAN]
    BY <1>1, Zenon DEF SupTyped
  <1>3. e.agent \in admitted /\ e.agent \in Agents
    BY <1>2, Zenon DEF TreeInv, ListedAdmitted
  <1>4. /\ sup.at = "starting"
        /\ sup' = IF sup.list = {e} THEN [sup EXCEPT !.at = "selecting", !.list = {}, !.up = TRUE]
                  ELSE [sup EXCEPT !.list = @ \ {e}]
        /\ completed' = IF Wanted(e) THEN completed \ {e.agent} ELSE completed
        /\ UNCHANGED <<storeVars, verbs, news, closeVars>>
    BY Zenon DEF Consider
  <1>5. completed' \subseteq Agents
    BY <1>1, <1>4, Zenon DEF SupTyped
  <1>6. /\ sup'.at \in {"selecting", "starting"} /\ sup'.join = sup.join
        /\ sup'.list \subseteq sup.list
        /\ running' \in [Agents -> Slots \cup {None}] => SupTyped'
    <2>1. CASE sup.list = {e}
      <3>1. sup' = [sup EXCEPT !.at = "selecting", !.list = {}, !.up = TRUE]
        BY <1>4, <2>1, Zenon
      <3> QED
        BY <1>1, <1>5, <3>1, Zenon DEF SupTyped
    <2>2. CASE sup.list # {e}
      <3>1. sup' = [sup EXCEPT !.list = sup.list \ {e}]
        BY <1>4, <2>2, Zenon
      <3>2. sup.list \ {e} \in SUBSET [agent : Agents, resumed : BOOLEAN]
        BY <1>2, Zenon
      <3> QED
        BY <1>1, <1>4, <1>5, <3>1, <3>2, Zenon DEF SupTyped
    <2> QED
      BY <2>1, <2>2, Zenon
  <1>7. CASE Wanted(e) /\ MayStart(e.agent)
    <2>1. StartAgent(e.agent)
      BY <1>7, Zenon DEF Consider
    <2>2. Rest' /\ TaskTyped' /\ running' \in [Agents -> Slots \cup {None}]
      BY <1>3, <1>4, <1>6, <1>7, <2>1, StartKeeps, Zenon DEF storeVars
    <2>3. TypeOK'
      BY <1>1, <1>4, <1>6, <2>2, UnchangedTyped, TypePartsNext, Zenon
    <2> QED
      BY <2>2, <2>3, Zenon DEF TreeInv, Rest
  <1>8. CASE ~(Wanted(e) /\ MayStart(e.agent))
    <2>1. UNCHANGED <<running, task>>
      BY <1>8, Zenon DEF Consider
    <2>2. SupTyped' /\ NewsTyped' /\ CloseTyped'
      BY <1>1, <1>4, <1>6, <2>1, UnchangedTyped, Zenon DEF SupTyped
    <2>3. sup.join = {} /\ closing # "draining" /\ UNCHANGED <<closing, draining>>
      BY Zenon, <1>4 DEF TreeInv, Phases, closeVars
    <2> QED
      BY <1>4, <1>6, <2>1, <2>2, <2>3, StandingKeeps, Zenon DEF TreeInv, ListedAdmitted
  <1> QED
    BY <1>7, <1>8, Zenon

\* The scan ends with an error.
LEMMA CreateFailsKeeps ==
    ASSUME TreeInv, NEW e \in sup.list, CreateFails(e)
    PROVE  TreeInv'
  <1>1. TypeOK /\ SupTyped
    BY TypeParts, Zenon DEF TreeInv
  <1>2. /\ sup.at = "starting" /\ completed' = completed \ {e.agent}
        /\ sup' = [sup EXCEPT !.at = "ended", !.failed = TRUE, !.list = {}]
        /\ UNCHANGED <<storeVars, verbs, running, news, task, closeVars>>
    BY Zenon DEF CreateFails
  <1>3. SupTyped' /\ sup'.at = "ended" /\ sup'.join = sup.join /\ sup'.list = {}
    BY <1>1, <1>2, Zenon DEF SupTyped
  <1>4. NewsTyped' /\ CloseTyped'
    BY <1>1, <1>2, UnchangedTyped, Zenon
  <1>5. sup.join = {} /\ closing # "draining" /\ UNCHANGED <<closing, draining>>
    BY Zenon, <1>2 DEF TreeInv, Phases, closeVars
  <1> QED
    BY <1>2, <1>3, <1>4, <1>5, StandingKeeps, Zenon

\* Every task in use is in the table when shutdown takes it.
LEMMA DrainKeeps ==
    ASSUME TreeInv, Drain
    PROVE  TreeInv'
  <1>1. TypeOK /\ SupTyped /\ \A u \in Tasks : task[u] \in Task
    BY TypeParts, Zenon DEF TreeInv, TypeOK
  <1>2. /\ closing = "stopping" /\ sup.at = "ended" /\ closing' = "draining"
        /\ draining' = RunningTasks /\ running' = [a \in Agents |-> None]
        /\ UNCHANGED <<storeVars, verbs, sup, completed, news>>
    BY Zenon DEF Drain
  <1>3. ASSUME NEW u \in Tasks
        PROVE  Moved(task[u], task'[u])
    <2> DEFINE cancel == task[u].cancel \/ u \in RunningTasks
               new == [task[u] EXCEPT !.cancel = cancel]
    <2>1. task'[u] = new
      BY <1>2, Zenon DEF Drain
    <2>2. /\ new \in Task /\ new.stage = task[u].stage /\ new.notifier = task[u].notifier
          /\ new.stale = task[u].stale
      BY <1>1, Zenon DEF Task
    <2> QED
      BY <2>1, <2>2, Zenon DEF Moved
  <1>4. TaskTyped'
    BY <1>3, Zenon DEF Drain, TaskTyped, Moved
  <1>5. SupTyped' /\ CloseTyped'
    BY <1>1, <1>2, Zenon DEF SupTyped, CloseTyped, RunningTasks
  <1>6. TypeOK'
    BY <1>1, <1>2, <1>4, <1>5, UnchangedTyped, TypePartsNext, Zenon
  <1>7. \A u \in Tasks : /\ task'[u].stage # "unused" <=> task[u].stage # "unused"
                         /\ Uncommitted(u)' => Uncommitted(u)
                         /\ task'[u].stale = task[u].stale
    BY <1>3, Zenon DEF Moved, Uncommitted
  <1>8. ListedAdmitted' /\ OneTask' /\ HeadOwned'
    BY <1>2, <1>7, Zenon DEF TreeInv, ListedAdmitted, OneTask, HeadOwned, storeVars
  <1>9. Phases' /\ DrainLate' /\ sup.join = {} /\ draining = {}
    BY Zenon, <1>2 DEF TreeInv, Phases, DrainLate
  <1>10. closing # "draining"
    BY Zenon, <1>2
  <1>11. Accounted'
    BY <1>2, <1>7, <1>9, <1>10, Zenon DEF TreeInv, Accounted
  <1> QED
    BY <1>6, <1>8, <1>9, <1>11, Zenon DEF TreeInv

\* A task that is drained can be joined, and stays so.
LEMMA JoinDrainedKeeps ==
    ASSUME TreeInv, NEW t \in draining, JoinDrained(t)
    PROVE  TreeInv'
  <1>1. TypeOK /\ CloseTyped
    BY TypeParts, Zenon DEF TreeInv
  <1>2. /\ Joinable(t) /\ draining' = draining \ {t}
        /\ UNCHANGED <<storeVars, verbs, supVars, news, task, closing>>
    BY Zenon DEF JoinDrained
  <1>3. closing = "draining"
    BY Zenon DEF TreeInv, DrainLate
  <1>4. CloseTyped'
    BY <1>1, <1>2, Zenon DEF CloseTyped
  <1>5. TypeOK'
    BY <1>1, <1>2, <1>4, UnchangedTyped, TypePartsNext, Zenon
  <1>6. UNCHANGED <<admitted, sup, running, task, closing>>
    BY <1>2, Zenon DEF storeVars, supVars
  <1>7. ListedAdmitted' /\ OneTask' /\ HeadOwned' /\ Phases' /\ DrainLate'
    BY <1>3, <1>6, Zenon
    DEF TreeInv, ListedAdmitted, OneTask, HeadOwned, Phases, DrainLate, Uncommitted
  <1>8. RunningTasks' = RunningTasks /\ \A u \in Tasks : Joinable(u)' <=> Joinable(u)
    BY <1>6, Zenon DEF RunningTasks, Joinable
  <1>9. Accounted'
    BY <1>2, <1>3, <1>6, <1>8, Zenon DEF TreeInv, Accounted
  <1> QED
    BY <1>5, <1>7, <1>9, Zenon DEF TreeInv

-----------------------------------------------------------------------------
(* The invariant and the theorems *)

\* The invariant holds when the driver starts.
LEMMA TreeInit == Init => TreeInv
  <1> SUFFICES ASSUME Init PROVE TreeInv
    BY Zenon
  <1>1. Unused \in Task /\ Unused.stage = "unused"
    BY Zenon DEF Unused, Task, Engaged, Leaving, Mail
  <1>2. \A t \in Tasks : task[t] = Unused
    BY Zenon DEF Init
  <1>3. StoreTyped
    BY TreeAssumption DEF Init, StoreTyped
  <1>4. SupTyped /\ sup.join = {} /\ sup.list = {}
    BY Zenon DEF Init, SupTyped
  <1>5. VerbsTyped /\ NewsTyped /\ CloseTyped /\ closing # "draining"
    BY Zenon DEF Init, VerbsTyped, NewsTyped, CloseTyped
  <1>6. TaskTyped
    BY <1>1, Zenon DEF Init, TaskTyped
  <1>7. TypeOK
    BY <1>3, <1>4, <1>5, <1>6, TypeParts, Zenon
  <1>8. ListedAdmitted /\ OneTask /\ Accounted
    BY <1>1, <1>2, <1>4, Zenon DEF ListedAdmitted, OneTask, Accounted
  <1>9. Phases /\ DrainLate
    BY <1>4, <1>5, Zenon DEF Phases, DrainLate, Init
  <1>10. HeadOwned
    BY <1>2 DEF HeadOwned, Unused
  <1> QED
    BY <1>7, <1>8, <1>9, <1>10, Zenon DEF TreeInv

\* It holds while nothing happens.
LEMMA TreeStutters == TreeInv /\ UNCHANGED vars => TreeInv'
  <1> SUFFICES ASSUME TreeInv, UNCHANGED vars PROVE TreeInv'
    BY Zenon
  <1>1. /\ UNCHANGED <<storeVars, verbs, supVars, news, task, closeVars>>
        /\ admitted' = admitted
    BY Zenon DEF vars, storeVars
  <1>2. TypeOK /\ \A u \in Tasks : Moved(task[u], task'[u])
    BY <1>1, MovedAlready, Zenon DEF TreeInv, TypeOK
  <1>3. TypeOK'
    BY <1>1, <1>2, UnchangedTyped, TypePartsNext, Zenon
  <1> QED
    BY <1>1, <1>2, <1>3, TasksMove, Zenon DEF TreeInv, Rest

\* Every step keeps it.
LEMMA TreeInductive == TreeInv /\ [Next]_vars => TreeInv'
  <1> SUFFICES ASSUME TreeInv, [Next]_vars PROVE TreeInv'
    BY Zenon
  <1>1. admitted \subseteq Agents /\ headed \subseteq admitted
    BY Zenon DEF TreeInv, TypeOK
  <1>2. ASSUME NEW a \in Agents \ {Root}, NEW forked \in BOOLEAN, Spawn(a, forked)
        PROVE  TreeInv'
    <2>1. /\ admitted \subseteq admitted' /\ admitted' \subseteq Agents
          /\ headed' \subseteq admitted' /\ Post(a, "spawn")
      BY <1>1, <1>2, Zenon DEF Spawn
    <2> QED
      BY <2>1, PostKeeps, Zenon
  <1>3. ASSUME NEW a \in Agents, Send(a)
        PROVE  TreeInv'
    BY <1>1, <1>3, PostKeeps, Zenon DEF Send
  <1>4. CASE VerbStep
    BY <1>4, VerbKeeps, Zenon DEF VerbStep
  <1>5. ASSUME NEW t \in Tasks, EngineStep(t) \/ ResumeOtherwise(t) \/ NotifierStep(t)
        PROVE  TreeInv'
    <2>1. TaskAlone(t) \/ Finish(t) \/ \E answered \in BOOLEAN : Complete(t, answered)
      BY <1>5, Zenon DEF EngineStep, TaskAlone
    <2> QED
      BY <2>1, AloneKeeps, FinishKeeps, CompleteKeeps, Zenon
  <1>6. CASE SupervisorStep
    BY <1>6, SelectKeeps, ReapKeeps, ListKeeps, JoinKeeps, ConsiderKeeps, CreateFailsKeeps, Zenon
    DEF SupervisorStep
  <1>7. CASE Shutdown
    BY <1>7, SelectKeeps, Zenon
  <1>8. CASE ShutdownStep
    BY <1>8, DrainKeeps, JoinDrainedKeeps, Zenon DEF ShutdownStep
  <1>9. CASE UNCHANGED vars
    BY <1>9, TreeStutters, Zenon
  <1> QED
    BY <1>2, <1>3, <1>4, <1>5, <1>6, <1>7, <1>8, <1>9, Zenon DEF Next

\* Every reachable state satisfies the invariant: no agent ever has two tasks,
\* and every task in use is in the table, about to be joined, or being drained.
THEOREM TreeInvariant == Spec => []TreeInv
  BY TreeInit, TreeInductive, PTL DEF Spec

\* No completed run loses the compare-and-swap of complete_agent_with_publication,
\* however many agents, slots and envelopes there are.
THEOREM HeadsOwned == Spec => []HeadOwned
  <1>1. TreeInv => HeadOwned
    BY Zenon DEF TreeInv
  <1> QED
    BY <1>1, TreeInvariant, PTL

\* When nothing is left to drain, every task in use can be joined.
LEMMA InvShutdown == TreeInv => ShutdownJoins
  <1> SUFFICES ASSUME TreeInv, closing = "draining", draining = {}, NEW t \in Tasks,
                      task[t].stage # "unused"
               PROVE  Joinable(t)
    BY Zenon DEF ShutdownJoins
  <1>1. sup.join = {} /\ running[AgentOf(t)] = None
    BY Zenon, TaskPair DEF TreeInv, Phases
  <1>2. t[2] # None
    BY TaskPair, TreeAssumption DEF Slots, None
  <1> QED
    BY <1>1, <1>2, Zenon DEF TreeInv, Accounted, RunningTasks

\* When shutdown returns, every engine task, monitor and notifier has ended,
\* whenever it was called.
THEOREM ShutdownJoinsAll == Spec => []ShutdownJoins
  BY InvShutdown, TreeInvariant, PTL

\* An agent never runs twice: at no time do two slots hold tasks of one agent.
THEOREM AgentRunsOnce == Spec => []OneTask
  <1>1. TreeInv => OneTask
    BY Zenon DEF TreeInv
  <1> QED
    BY <1>1, TreeInvariant, PTL

-----------------------------------------------------------------------------
(* Credentials *)

Pending(t) == flow[t].pc \in {"apply", "save"}

\* A request holds the lock of its file from its lookup on, so the file stays the
\* one it looked up.
UserFact(u) ==
    /\ flow[u].pc \in {"idle", "refresh", "apply"}
    /\ flow[u].pc # "idle" => locks[FileOf[u]] = u /\ file[FileOf[u]].grant # 0
    /\ flow[u].pc = "refresh" => flow[u].record = file[FileOf[u]]
    /\ flow[u].pc = "apply" => /\ flow[u].record.subject = file[FileOf[u]].subject
                               /\ flow[u].record.client = file[FileOf[u]].client
                               /\ flow[u].record.host = file[FileOf[u]].host

\* A sign-in holds no lock while the browser is open: it knows the registration it
\* selected by the grant, which no later registration has.
LoginFact(l) ==
    /\ flow[l].pc \in {"idle", "host", "newhost", "browser", "save"}
    /\ flow[l].pc = "newhost" => locks[Host] = l /\ hostFile = 0
    /\ flow[l].pc \in {"browser", "save"} => flow[l].host = hostFile /\ hostFile # 0
    /\ flow[l].pc # "idle" =>
         /\ flow[l].selected.grant <= grants
         /\ flow[l].selected.grant = 0 => flow[l].selected = NoRecord
         /\ flow[l].selected.grant # 0 => flow[l].selected.host = hostFile /\ hostFile # 0
         /\ flow[l].selected.grant = file[FileOf[l]].grant => flow[l].selected = file[FileOf[l]]
    /\ flow[l].pc = "save" =>
         /\ flow[l].record.host = hostFile
         /\ flow[l].selected.grant # 0 => /\ flow[l].record.subject = flow[l].selected.subject
                                          /\ flow[l].record.client = flow[l].selected.client

\* A registration carries the host identity, and a grant no other file has; its
\* refresh token is live unless a refresh is about to replace it.
FileFact(p) ==
    /\ file[p].grant <= grants
    /\ file[p].grant = 0 => file[p] = NoRecord
    /\ file[p].grant # 0 => file[p].host = hostFile /\ hostFile # 0
    /\ \A q \in Paths \ {p} : file[p].grant # 0 => file[q].grant # file[p].grant
    /\ loginFaults = 0 /\ file[p].grant # 0 /\ file[p].grant \notin live =>
         \E u \in Users : flow[u].pc = "apply" /\ FileOf[u] = p

\* A grant on its way into a file is live and nowhere else.
PendingFact(t) ==
    Pending(t) =>
       LET g == flow[t].record.grant
       IN  /\ g \in live /\ g # 0 /\ g <= grants
           /\ \A p \in Paths : file[p].grant # g
           /\ \A l \in Logins : flow[l].pc # "idle" => flow[l].selected.grant # g
           /\ \A v \in Everyone \ {t} : Pending(v) => flow[v].record.grant # g

CredentialInv ==
    /\ CredentialTypeOK
    /\ \A u \in Users : UserFact(u)
    /\ \A l \in Logins : LoginFact(l)
    /\ \A p \in Paths : FileFact(p)
    /\ \A t \in Everyone : PendingFact(t)
    /\ ~reused

-----------------------------------------------------------------------------
\* What a step of one request or sign-in leaves to the others: it takes free locks
\* and releases its own, writes only what it brings to its own file, creates the
\* host identity once, and uses up only the refresh token it looked up.
StepOf(t) ==
    /\ \A v \in Everyone \ {t} : flow'[v] = flow[v]
    /\ \A p \in Paths \cup {Host} : locks[p] \in {t, Nobody} \/ locks'[p] = locks[p]
    /\ \A p \in Paths : \/ file'[p] = file[p]
                        \/ /\ p = FileOf[t] /\ Pending(t) /\ locks[p] \in {t, Nobody}
                           /\ file'[p] = flow[t].record
    /\ hostFile' = hostFile \/ (hostFile = 0 /\ locks[Host] = t)
    /\ hostFile # 0 => hostFile' = hostFile
    /\ grants' >= grants
    /\ \A g \in live : g \in live' \/ (flow[t].pc = "refresh" /\ g = flow[t].record.grant)
    /\ loginFaults' >= loginFaults

LEMMA Apart ==
    /\ FileOf \in [Everyone -> Paths] /\ Users \subseteq Everyone /\ Logins \subseteq Everyone
    /\ \A u \in Users, l \in Logins : u # l
    /\ \A t \in Everyone : t # Nobody
    /\ \A p \in Paths : p # Host
BY CredentialAssumption DEF Everyone

\* Returning releases the locks of the one who returns.
LEMMA Left ==
    ASSUME CredentialTypeOK, NEW t \in Everyone, Leave(t)
    PROVE  /\ flow' \in [Everyone -> [pc : Stations, record : CredentialRecords,
                                      selected : CredentialRecords, host : Nat]]
           /\ locks' \in [Paths \cup {Host} -> Everyone \cup {Nobody}]
           /\ flow'[t].pc = "idle"
           /\ \A v \in Everyone \ {t} : flow'[v] = flow[v]
           /\ \A p \in Paths \cup {Host} : locks[p] \in {t, Nobody} \/ locks'[p] = locks[p]
<1>1. NoRecord \in CredentialRecords
  BY DEF NoRecord, CredentialRecords
<1>2. Resting \in [pc : Stations, record : CredentialRecords, selected : CredentialRecords, host : Nat]
  BY <1>1 DEF Resting, Stations
<1>3. flow' = [flow EXCEPT ![t] = Resting] /\ locks' = Released(t)
  BY Zenon DEF Leave
<1>4. flow'[t] = Resting /\ \A v \in Everyone \ {t} : flow'[v] = flow[v]
  BY Zenon, <1>3 DEF CredentialTypeOK
<1>5. flow' \in [Everyone -> [pc : Stations, record : CredentialRecords,
                              selected : CredentialRecords, host : Nat]]
  BY Zenon, <1>2, <1>3 DEF CredentialTypeOK
<1>6. /\ locks' \in [Paths \cup {Host} -> Everyone \cup {Nobody}]
      /\ \A p \in Paths \cup {Host} : locks[p] \in {t, Nobody} \/ locks'[p] = locks[p]
  BY <1>3 DEF Released, CredentialTypeOK
<1>7. Resting.pc = "idle"
  BY DEF Resting
<1> QED BY Zenon, <1>4, <1>5, <1>6, <1>7

LEMMA Faulty ==
    ASSUME CredentialTypeOK, Fault
    PROVE  loginFaults' \in Nat /\ loginFaults' # 0 /\ loginFaults' >= loginFaults
BY DEF CredentialTypeOK, Fault

-----------------------------------------------------------------------------
(* Each step: its type, its frame, and what its own flow becomes *)

Progress == [pc : Stations, record : CredentialRecords, selected : CredentialRecords, host : Nat]

\* A step that moves one flow to a new place
LEMMA Advanced ==
    ASSUME CredentialTypeOK, NEW t \in Everyone, NEW new \in Progress,
           flow' = [flow EXCEPT ![t] = new]
    PROVE  /\ flow' \in [Everyone -> Progress]
           /\ flow'[t] = new
           /\ \A v \in Everyone \ {t} : flow'[v] = flow[v]
BY Zenon DEF CredentialTypeOK, Progress

LEMMA LookUpMoves ==
    ASSUME CredentialTypeOK, NEW u \in Users, LookUp(u)
    PROVE  /\ CredentialTypeOK' /\ StepOf(u)
           /\ flow[u].pc = "idle" /\ UNCHANGED <<file, hostFile, grants, live, reused, loginFaults>>
           /\ flow'[u].pc = "refresh" /\ flow'[u].record = file[FileOf[u]]
           /\ file[FileOf[u]] # NoRecord /\ locks[FileOf[u]] = Nobody
           /\ locks'[FileOf[u]] = u
<1> DEFINE new == [flow[u] EXCEPT !.pc = "refresh", !.record = file[FileOf[u]]]
<1>1. /\ flow[u].pc = "idle" /\ UNCHANGED <<file, hostFile, grants, live, reused, loginFaults>>
      /\ file[FileOf[u]] # NoRecord /\ locks[FileOf[u]] = Nobody
      /\ flow' = [flow EXCEPT ![u] = new] /\ locks' = [locks EXCEPT ![FileOf[u]] = u]
  BY Zenon DEF LookUp, service, Free
<1>2. u \in Everyone /\ FileOf[u] \in Paths
  BY Zenon, Apart
<1>3. flow[u] \in Progress /\ file[FileOf[u]] \in CredentialRecords
  BY Zenon, <1>2 DEF CredentialTypeOK, Progress
<1>4. new \in Progress /\ new.pc = "refresh" /\ new.record = file[FileOf[u]]
  BY Zenon, <1>3 DEF Progress, Stations
<1> HIDE DEF new
<1>5. flow' \in [Everyone -> Progress] /\ flow'[u] = new
      /\ \A v \in Everyone \ {u} : flow'[v] = flow[v]
  BY Zenon, <1>1, <1>2, <1>4, Advanced
<1>6. /\ locks' \in [Paths \cup {Host} -> Everyone \cup {Nobody}] /\ locks'[FileOf[u]] = u
      /\ \A p \in Paths \cup {Host} : locks[p] \in {u, Nobody} \/ locks'[p] = locks[p]
  BY Zenon, <1>1, <1>2 DEF CredentialTypeOK
<1>7. CredentialTypeOK'
  BY Zenon, <1>1, <1>5, <1>6 DEF CredentialTypeOK, Progress
<1>8. grants' >= grants /\ loginFaults' >= loginFaults
  BY <1>1 DEF CredentialTypeOK
<1>9. StepOf(u)
  BY Zenon, <1>1, <1>5, <1>6, <1>8 DEF StepOf
<1> QED BY Zenon, <1>1, <1>4, <1>5, <1>6, <1>7, <1>9

\* The service's answers to a refresh
RefreshGranted(u) ==
    /\ flow[u].record.grant \in live
    /\ grants' = grants + 1 /\ live' = (live \ {flow[u].record.grant}) \cup {grants + 1}
    /\ flow'[u].pc = "apply" /\ locks' = locks
    /\ flow'[u].record.grant = grants + 1
    /\ flow'[u].record.subject = flow[u].record.subject
    /\ flow'[u].record.client = flow[u].record.client
    /\ flow'[u].record.host = flow[u].record.host

RefreshLost(u) ==
    /\ flow[u].record.grant \in live
    /\ grants' = grants + 1 /\ live' = (live \ {flow[u].record.grant}) \cup {grants + 1}
    /\ flow'[u].pc = "idle" /\ loginFaults' # 0

LEMMA RefreshMoves ==
    ASSUME CredentialTypeOK, NEW u \in Users, RefreshToken(u)
    PROVE  /\ CredentialTypeOK' /\ StepOf(u)
           /\ flow[u].pc = "refresh" /\ UNCHANGED <<file, hostFile>>
           /\ \/ RefreshGranted(u) /\ UNCHANGED <<reused, loginFaults>>
              \/ RefreshLost(u) /\ UNCHANGED reused
              \/ /\ flow[u].record.grant \notin live /\ flow'[u].pc = "idle"
                 /\ reused' = (reused \/ loginFaults = 0)
                 /\ UNCHANGED <<grants, live, loginFaults>>
<1> DEFINE old == flow[u].record.grant
           new == [flow[u] EXCEPT !.pc = "apply", !.record.grant = grants + 1]
<1>0. u \in Everyone /\ flow[u] \in Progress
  BY Zenon, Apart DEF CredentialTypeOK, Progress
<1>1. flow[u].pc = "refresh" /\ UNCHANGED <<file, hostFile>>
  BY Zenon DEF RefreshToken
<1>2. CASE /\ old \in live /\ grants' = grants + 1 /\ live' = (live \ {old}) \cup {grants + 1}
           /\ flow' = [flow EXCEPT ![u] = new] /\ UNCHANGED <<locks, loginFaults, reused>>
  <2>1. grants + 1 \in Nat /\ flow[u].record \in CredentialRecords
    BY <1>0 DEF CredentialTypeOK, Progress
  <2>2. /\ new \in Progress /\ new.pc = "apply" /\ new.record.grant = grants + 1
        /\ new.record.subject = flow[u].record.subject /\ new.record.client = flow[u].record.client
        /\ new.record.host = flow[u].record.host
    BY Zenon, <1>0, <2>1 DEF Progress, Stations, CredentialRecords
  <2> HIDE DEF new
  <2>3. flow' \in [Everyone -> Progress] /\ flow'[u] = new
        /\ \A v \in Everyone \ {u} : flow'[v] = flow[v]
    BY Zenon, <1>0, <1>2, <2>2, Advanced
  <2>4. CredentialTypeOK'
    BY Zenon, <1>1, <1>2, <2>1, <2>3 DEF CredentialTypeOK, Progress
  <2>5. grants' >= grants /\ loginFaults' >= loginFaults
    BY <1>2 DEF CredentialTypeOK
  <2>6. \A g \in live : g \in live' \/ g = flow[u].record.grant
    BY Zenon, <1>2
  <2>7. StepOf(u)
    BY Zenon, <1>1, <1>2, <2>3, <2>5, <2>6 DEF StepOf
  <2> QED BY Zenon, <1>1, <1>2, <2>2, <2>3, <2>4, <2>7 DEF RefreshGranted
<1>3. CASE /\ old \in live /\ grants' = grants + 1 /\ live' = (live \ {old}) \cup {grants + 1}
           /\ Leave(u) /\ Fault /\ UNCHANGED reused
  <2>1. CredentialTypeOK'
    <3>1. grants' \in Nat
      BY <1>3 DEF CredentialTypeOK
    <3> QED BY Zenon, <1>0, <1>1, <1>3, <3>1, Left, Faulty DEF CredentialTypeOK
  <2>2. grants' >= grants
    BY <1>3 DEF CredentialTypeOK
  <2>3. \A g \in live : g \in live' \/ g = flow[u].record.grant
    BY Zenon, <1>3
  <2>4. StepOf(u)
    BY Zenon, <1>0, <1>1, <1>3, <2>2, <2>3, Left, Faulty DEF StepOf
  <2> QED BY Zenon, <1>0, <1>1, <1>3, <2>1, <2>4, Left, Faulty DEF RefreshLost
<1>4. CASE /\ old \notin live /\ reused' = (reused \/ loginFaults = 0) /\ Leave(u)
           /\ UNCHANGED <<grants, live, loginFaults>>
  <2>1. CredentialTypeOK'
    BY Zenon, <1>0, <1>1, <1>4, Left DEF CredentialTypeOK
  <2>2. grants' >= grants /\ loginFaults' >= loginFaults
    BY <1>4 DEF CredentialTypeOK
  <2>3. StepOf(u)
    BY Zenon, <1>0, <1>1, <1>4, <2>2, Left DEF StepOf
  <2> QED BY Zenon, <1>0, <1>1, <1>4, <2>1, <2>3, Left
<1> HIDE DEF old, new
<1> QED BY Zenon, <1>2, <1>3, <1>4 DEF RefreshToken, old, new

\* Apply and FinishLogin write what their flow brings, or fail.
Writes(t) ==
    /\ UNCHANGED <<hostFile, grants, live, reused>> /\ flow'[t].pc = "idle"
    /\ \/ file' = [file EXCEPT ![FileOf[t]] = flow[t].record]
       \/ file' = file
    /\ loginFaults' = loginFaults \/ loginFaults' # 0

LEMMA WriteMoves ==
    ASSUME CredentialTypeOK, NEW t \in Everyone, Pending(t), locks[FileOf[t]] \in {t, Nobody},
           Leave(t), UNCHANGED <<hostFile, service>>,
           file' = [file EXCEPT ![FileOf[t]] = flow[t].record] \/ file' = file,
           UNCHANGED loginFaults \/ Fault
    PROVE  CredentialTypeOK' /\ StepOf(t) /\ Writes(t)
<1>1. FileOf[t] \in Paths /\ flow[t].record \in CredentialRecords
  BY Apart DEF CredentialTypeOK
<1>2. /\ file' \in [Paths -> CredentialRecords]
      /\ \A p \in Paths : file'[p] = file[p] \/ (p = FileOf[t] /\ file'[p] = flow[t].record)
  BY Zenon, <1>1 DEF CredentialTypeOK
<1>3. UNCHANGED <<grants, live, reused>>
  BY Zenon DEF service
<1>4. loginFaults' \in Nat /\ loginFaults' >= loginFaults /\ (loginFaults' = loginFaults \/ loginFaults' # 0)
  BY Faulty DEF CredentialTypeOK
<1>5. CredentialTypeOK'
  BY Zenon, <1>2, <1>3, <1>4, Left DEF CredentialTypeOK
<1>6. grants' >= grants
  BY <1>3 DEF CredentialTypeOK
<1>7. StepOf(t)
  BY Zenon, <1>2, <1>3, <1>4, <1>6, Left DEF StepOf
<1> QED BY Zenon, <1>3, <1>4, <1>5, <1>7, Left DEF Writes

\* The other ways to return leave the file alone.
LEMMA LeaveMoves ==
    ASSUME CredentialTypeOK, NEW t \in Everyone, Leave(t),
           UNCHANGED <<file, hostFile, service>>, UNCHANGED loginFaults \/ Fault
    PROVE  CredentialTypeOK' /\ StepOf(t) /\ Writes(t)
<1>1. UNCHANGED <<grants, live, reused>>
  BY Zenon DEF service
<1>2. loginFaults' \in Nat /\ loginFaults' >= loginFaults /\ (loginFaults' = loginFaults \/ loginFaults' # 0)
  BY Faulty DEF CredentialTypeOK
<1>3. CredentialTypeOK'
  BY Zenon, <1>1, <1>2, Left DEF CredentialTypeOK
<1>4. grants' >= grants
  BY <1>1 DEF CredentialTypeOK
<1>5. StepOf(t)
  BY Zenon, <1>1, <1>2, <1>4, Left DEF StepOf
<1> QED BY Zenon, <1>1, <1>2, <1>3, <1>5, Left DEF Writes

LEMMA BeginMoves ==
    ASSUME CredentialTypeOK, NEW l \in Logins, BeginLogin(l)
    PROVE  /\ CredentialTypeOK' /\ StepOf(l)
           /\ flow[l].pc = "idle" /\ UNCHANGED <<file, hostFile, grants, live, reused, loginFaults>>
           /\ flow'[l].pc = "host" /\ flow'[l].selected = file[FileOf[l]]
<1> DEFINE new == [flow[l] EXCEPT !.pc = "host", !.selected = file[FileOf[l]]]
<1>1. /\ flow[l].pc = "idle" /\ UNCHANGED <<file, hostFile, grants, live, reused, loginFaults>>
      /\ flow' = [flow EXCEPT ![l] = new] /\ locks' = [locks EXCEPT ![FileOf[l]] = l]
      /\ locks[FileOf[l]] = Nobody
  BY Zenon DEF BeginLogin, service, Free
<1>2. l \in Everyone /\ FileOf[l] \in Paths
  BY Zenon, Apart
<1>3. flow[l] \in Progress /\ file[FileOf[l]] \in CredentialRecords
  BY Zenon, <1>2 DEF CredentialTypeOK, Progress
<1>4. new \in Progress /\ new.pc = "host" /\ new.selected = file[FileOf[l]]
  BY Zenon, <1>3 DEF Progress, Stations
<1> HIDE DEF new
<1>5. flow' \in [Everyone -> Progress] /\ flow'[l] = new
      /\ \A v \in Everyone \ {l} : flow'[v] = flow[v]
  BY Zenon, <1>1, <1>2, <1>4, Advanced
<1>6. /\ locks' \in [Paths \cup {Host} -> Everyone \cup {Nobody}]
      /\ \A p \in Paths \cup {Host} : locks[p] \in {l, Nobody} \/ locks'[p] = locks[p]
  BY Zenon, <1>1, <1>2 DEF CredentialTypeOK
<1>7. CredentialTypeOK'
  BY Zenon, <1>1, <1>5, <1>6 DEF CredentialTypeOK, Progress
<1>8. grants' >= grants /\ loginFaults' >= loginFaults
  BY <1>1 DEF CredentialTypeOK
<1>9. StepOf(l)
  BY Zenon, <1>1, <1>5, <1>6, <1>8 DEF StepOf
<1> QED BY Zenon, <1>1, <1>4, <1>5, <1>7, <1>9

\* The host identity: read, found missing, or created
HostFound(l) ==
    /\ flow[l].pc = "host" /\ hostFile # 0
    /\ flow'[l].pc = "browser" /\ flow'[l].host = hostFile /\ hostFile' = hostFile
HostMissing(l) ==
    /\ flow[l].pc = "host" /\ hostFile = 0 /\ hostFile' = hostFile
    /\ flow'[l].pc = "newhost" /\ locks'[Host] = l
HostCreated(l) ==
    /\ flow[l].pc = "newhost" /\ hostFile' # 0
    /\ flow'[l].pc = "browser" /\ flow'[l].host = hostFile'

\* A lock is released by its holder only.
LEMMA Releases ==
    ASSUME CredentialTypeOK, NEW t \in Everyone, locks' = Released(t)
    PROVE  /\ locks' \in [Paths \cup {Host} -> Everyone \cup {Nobody}]
           /\ \A p \in Paths \cup {Host} : locks[p] \in {t, Nobody} \/ locks'[p] = locks[p]
BY DEF Released, CredentialTypeOK

LEMMA ReadHostMoves ==
    ASSUME CredentialTypeOK, NEW l \in Logins, ReadHost(l)
    PROVE  /\ CredentialTypeOK' /\ StepOf(l)
           /\ UNCHANGED <<file, grants, live, reused, loginFaults>>
           /\ flow'[l].selected = flow[l].selected
           /\ HostFound(l) \/ HostMissing(l)
<1>1. /\ flow[l].pc = "host" /\ UNCHANGED <<file, hostFile, grants, live, reused, loginFaults>>
      /\ locks[Host] = Nobody
  BY Zenon DEF ReadHost, service, Free
<1>2. l \in Everyone /\ flow[l] \in Progress
  BY Zenon, Apart DEF CredentialTypeOK, Progress
<1>3. grants' >= grants /\ loginFaults' >= loginFaults
  BY <1>1 DEF CredentialTypeOK
<1>4. CASE hostFile = 0
  <2> DEFINE new == [flow[l] EXCEPT !.pc = "newhost"]
  <2>1. flow' = [flow EXCEPT ![l] = new] /\ locks' = [locks EXCEPT ![Host] = l]
    BY Zenon, <1>4 DEF ReadHost
  <2>2. new \in Progress /\ new.pc = "newhost" /\ new.selected = flow[l].selected
    BY Zenon, <1>2 DEF Progress, Stations
  <2> HIDE DEF new
  <2>3. flow' \in [Everyone -> Progress] /\ flow'[l] = new
        /\ \A v \in Everyone \ {l} : flow'[v] = flow[v]
    BY Zenon, <1>2, <2>1, <2>2, Advanced
  <2>4. /\ locks' \in [Paths \cup {Host} -> Everyone \cup {Nobody}] /\ locks'[Host] = l
        /\ \A p \in Paths \cup {Host} : locks[p] \in {l, Nobody} \/ locks'[p] = locks[p]
    BY Zenon, <1>1, <1>2, <2>1 DEF CredentialTypeOK
  <2>5. CredentialTypeOK'
    BY Zenon, <1>1, <2>3, <2>4 DEF CredentialTypeOK, Progress
  <2>6. StepOf(l)
    BY Zenon, <1>1, <1>3, <2>3, <2>4 DEF StepOf
  <2> QED BY Zenon, <1>1, <1>4, <2>2, <2>3, <2>4, <2>5, <2>6 DEF HostMissing
<1>5. CASE hostFile # 0
  <2> DEFINE new == [flow[l] EXCEPT !.pc = "browser", !.host = hostFile]
  <2>1. flow' = [flow EXCEPT ![l] = new] /\ locks' = Released(l)
    BY Zenon, <1>5 DEF ReadHost
  <2>2. hostFile \in Nat
    BY Zenon DEF CredentialTypeOK
  <2>3. new \in Progress /\ new.pc = "browser" /\ new.selected = flow[l].selected /\ new.host = hostFile
    BY Zenon, <1>2, <2>2 DEF Progress, Stations
  <2> HIDE DEF new
  <2>4. flow' \in [Everyone -> Progress] /\ flow'[l] = new
        /\ \A v \in Everyone \ {l} : flow'[v] = flow[v]
    BY Zenon, <1>2, <2>1, <2>3, Advanced
  <2>5. CredentialTypeOK'
    BY Zenon, <1>1, <1>2, <2>1, <2>4, Releases DEF CredentialTypeOK, Progress
  <2>6. StepOf(l)
    BY Zenon, <1>1, <1>2, <1>3, <2>1, <2>4, Releases DEF StepOf
  <2> QED BY Zenon, <1>1, <1>5, <2>3, <2>4, <2>5, <2>6 DEF HostFound
<1> QED BY Zenon, <1>4, <1>5

LEMMA WriteHostMoves ==
    ASSUME CredentialTypeOK, NEW l \in Logins, LoginFact(l), WriteHost(l)
    PROVE  /\ CredentialTypeOK' /\ StepOf(l)
           /\ UNCHANGED <<file, grants, live, reused>>
           /\ \/ HostCreated(l) /\ flow'[l].selected = flow[l].selected /\ UNCHANGED loginFaults
              \/ Writes(l)
<1>1. flow[l].pc = "newhost" /\ UNCHANGED <<file, grants, live, reused>> /\ UNCHANGED service
  BY Zenon DEF WriteHost, service
<1>2. l \in Everyone /\ flow[l] \in Progress
  BY Zenon, Apart DEF CredentialTypeOK, Progress
<1>3. locks[Host] = l /\ hostFile = 0
  BY Zenon, <1>1 DEF LoginFact
<1>4. CASE /\ hostFile' = hostFile + 1 /\ locks' = Released(l) /\ UNCHANGED loginFaults
           /\ flow' = [flow EXCEPT ![l] = [@ EXCEPT !.pc = "browser", !.host = hostFile + 1]]
  <2> DEFINE new == [flow[l] EXCEPT !.pc = "browser", !.host = hostFile + 1]
  <2>1. flow' = [flow EXCEPT ![l] = new]
    BY Zenon, <1>4
  <2>2. hostFile' \in Nat /\ hostFile' # 0 /\ hostFile + 1 = hostFile' /\ hostFile + 1 \in Nat
    BY <1>4 DEF CredentialTypeOK
  <2>3. new \in Progress /\ new.pc = "browser" /\ new.selected = flow[l].selected
        /\ new.host = hostFile + 1
    BY Zenon, <1>2, <2>2 DEF Progress, Stations
  <2> HIDE DEF new
  <2>4. flow' \in [Everyone -> Progress] /\ flow'[l] = new
        /\ \A v \in Everyone \ {l} : flow'[v] = flow[v]
    BY Zenon, <1>2, <2>1, <2>3, Advanced
  <2>5. CredentialTypeOK'
    BY Zenon, <1>1, <1>2, <1>4, <2>2, <2>4, Releases DEF CredentialTypeOK, Progress
  <2>6. grants' >= grants /\ loginFaults' >= loginFaults
    BY <1>1, <1>4 DEF CredentialTypeOK
  <2>7. StepOf(l)
    BY Zenon, <1>1, <1>2, <1>3, <1>4, <2>4, <2>6, Releases DEF StepOf
  <2> QED BY Zenon, <1>1, <1>4, <2>2, <2>3, <2>4, <2>5, <2>7 DEF HostCreated
<1>5. CASE Fault /\ Leave(l) /\ UNCHANGED hostFile
  BY Zenon, <1>1, <1>2, <1>5, LeaveMoves
<1> QED BY Zenon, <1>4, <1>5 DEF WriteHost

\* The service's answers to a code
CodeExchanged(l) ==
    /\ flow[l].pc = "browser" /\ flow'[l].pc = "save"
    /\ flow'[l].selected = flow[l].selected /\ flow'[l].host = flow[l].host
    /\ flow'[l].record.grant = grants + 1 /\ flow'[l].record.host = flow[l].host
    /\ flow[l].selected # NoRecord => /\ flow'[l].record.subject = flow[l].selected.subject
                                      /\ flow'[l].record.client = flow[l].selected.client

LEMMA ExchangeMoves ==
    ASSUME CredentialTypeOK, NEW l \in Logins, Exchange(l)
    PROVE  /\ CredentialTypeOK' /\ StepOf(l)
           /\ UNCHANGED <<file, hostFile, reused>>
           /\ \/ /\ grants' = grants + 1 /\ live' = live \cup {grants + 1} /\ UNCHANGED loginFaults
                 /\ CodeExchanged(l) \/ flow'[l].pc = "idle"
              \/ Writes(l)
<1>1. flow[l].pc = "browser" /\ UNCHANGED <<file, hostFile, reused, tokenExpired>>
  BY Zenon DEF Exchange
<1>2. l \in Everyone /\ flow[l] \in Progress
  BY Zenon, Apart DEF CredentialTypeOK, Progress
<1>3. CASE Fault /\ Leave(l) /\ UNCHANGED <<grants, live>>
  BY Zenon, <1>1, <1>2, <1>3, LeaveMoves DEF service
<1>4. CASE /\ grants' = grants + 1 /\ live' = live \cup {grants + 1} /\ UNCHANGED loginFaults
           /\ Leave(l)
  <2>1. grants' \in Nat /\ grants' >= grants /\ loginFaults' >= loginFaults
    BY <1>4 DEF CredentialTypeOK
  <2>2. \A g \in live : g \in live'
    BY Zenon, <1>4
  <2>3. CredentialTypeOK'
    BY Zenon, <1>1, <1>2, <1>4, <2>1, Left DEF CredentialTypeOK
  <2>4. StepOf(l)
    BY Zenon, <1>1, <1>2, <1>4, <2>1, <2>2, Left DEF StepOf
  <2> QED BY Zenon, <1>1, <1>2, <1>4, <2>3, <2>4, Left
<1>5. ASSUME NEW s \in Subjects, flow[l].selected # NoRecord => flow[l].selected.subject = s,
             NEW client \in Nat, flow[l].selected # NoRecord => client = flow[l].selected.client,
             grants' = grants + 1, live' = live \cup {grants + 1}, UNCHANGED <<loginFaults, locks>>,
             flow' = [flow EXCEPT ![l] = [@ EXCEPT !.pc = "save", !.record =
                        [grant |-> grants + 1, subject |-> s, host |-> flow[l].host, client |-> client]]]
      PROVE  CredentialTypeOK' /\ StepOf(l) /\ CodeExchanged(l)
  <2> DEFINE rec == [grant |-> grants + 1, subject |-> s, host |-> flow[l].host, client |-> client]
             new == [flow[l] EXCEPT !.pc = "save", !.record = rec]
  <2>1. flow' = [flow EXCEPT ![l] = new]
    BY Zenon, <1>5
  <2>2. grants' \in Nat /\ grants' >= grants /\ loginFaults' >= loginFaults /\ grants + 1 \in Nat
    BY <1>5 DEF CredentialTypeOK
  <2>3. flow[l].host \in Nat
    BY Zenon, <1>2 DEF Progress
  <2>4. rec \in CredentialRecords /\ rec.grant = grants + 1 /\ rec.subject = s
        /\ rec.host = flow[l].host /\ rec.client = client
    BY <1>5, <2>2, <2>3 DEF CredentialRecords
  <2> HIDE DEF rec
  <2>5. new \in Progress /\ new.pc = "save" /\ new.selected = flow[l].selected
        /\ new.record = rec /\ new.host = flow[l].host
    BY Zenon, <1>2, <2>4 DEF Progress, Stations
  <2> HIDE DEF new
  <2>6. flow' \in [Everyone -> Progress] /\ flow'[l] = new
        /\ \A v \in Everyone \ {l} : flow'[v] = flow[v]
    BY Zenon, <1>2, <2>1, <2>5, Advanced
  <2>7. CredentialTypeOK'
    BY Zenon, <1>1, <1>5, <2>2, <2>6 DEF CredentialTypeOK, Progress
  <2>8. \A g \in live : g \in live'
    BY Zenon, <1>5
  <2>9. StepOf(l)
    BY Zenon, <1>1, <1>5, <2>2, <2>6, <2>8 DEF StepOf
  <2> QED BY Zenon, <1>1, <1>5, <2>4, <2>5, <2>6, <2>7, <2>9 DEF CodeExchanged
<1>6. CASE /\ grants' = grants + 1 /\ live' = live \cup {grants + 1} /\ UNCHANGED loginFaults
           /\ ~ Leave(l)
  <2>1. PICK s \in Subjects :
          /\ ~ (flow[l].selected # NoRecord /\ flow[l].selected.subject # s)
          /\ flow' = [flow EXCEPT ![l] = [@ EXCEPT !.pc = "save", !.record =
                [grant |-> grants + 1, subject |-> s, host |-> flow[l].host,
                 client |-> IF flow[l].selected = NoRecord THEN grants + 1
                            ELSE flow[l].selected.client]]]
          /\ UNCHANGED locks
    BY Zenon, <1>6 DEF Exchange
  <2> DEFINE client == IF flow[l].selected = NoRecord THEN grants + 1 ELSE flow[l].selected.client
  <2>2. client \in Nat
    BY <1>2 DEF CredentialTypeOK, Progress, CredentialRecords
  <2>3. flow[l].selected # NoRecord => client = flow[l].selected.client
    BY Zenon
  <2>4. flow' = [flow EXCEPT ![l] = [@ EXCEPT !.pc = "save", !.record =
                [grant |-> grants + 1, subject |-> s, host |-> flow[l].host, client |-> client]]]
    BY Zenon, <2>1
  <2> HIDE DEF client
  <2> QED BY Zenon, <1>1, <1>5, <1>6, <2>1, <2>2, <2>3, <2>4
<1> QED BY Zenon, <1>3, <1>4, <1>6 DEF Exchange

-----------------------------------------------------------------------------
(* What a step does to the facts about the others *)

\* A new grant is on its way after the step that obtains it, a sign-in selects
\* what is in its file, and a request that uses up its refresh token brings the
\* next one to the file unless something fails.
OwnStep(t) ==
    /\ t \in Logins /\ flow'[t].pc # "idle" =>
         \/ flow'[t].selected = flow[t].selected /\ flow[t].pc # "idle"
         \/ flow'[t].selected = file[FileOf[t]]
    /\ flow'[t].pc \in {"apply", "save"} =>
         /\ flow'[t].record.grant = grants + 1 /\ grants' = grants + 1 /\ grants + 1 \in live'
         /\ file' = file
    /\ flow[t].pc = "apply" => loginFaults' # 0 \/ file'[FileOf[t]] = flow[t].record
    /\ flow[t].pc = "refresh" /\ flow[t].record.grant \in live =>
         flow'[t].pc = "apply" \/ loginFaults' # 0

LEMMA OtherUsers ==
    ASSUME NEW t \in Everyone, StepOf(t), NEW u \in Users \ {t}, UserFact(u)
    PROVE  UserFact(u)'
<1>1. u \in Everyone \ {t} /\ FileOf[u] \in Paths /\ u # Nobody
  BY Zenon, Apart
<1>2. flow'[u] = flow[u]
  BY Zenon, <1>1 DEF StepOf
<1>3. ASSUME flow[u].pc # "idle"
      PROVE  locks'[FileOf[u]] = locks[FileOf[u]] /\ file'[FileOf[u]] = file[FileOf[u]]
  <2>1. locks[FileOf[u]] \notin {t, Nobody}
    BY Zenon, <1>1, <1>3 DEF UserFact
  <2> QED BY Zenon, <1>1, <2>1 DEF StepOf
<1>4. CASE flow[u].pc = "idle"
  BY <1>2, <1>4 DEF UserFact
<1>5. CASE flow[u].pc # "idle"
  BY <1>2, <1>3, <1>5 DEF UserFact
<1> QED BY Zenon, <1>4, <1>5

LEMMA OtherLogins ==
    ASSUME CredentialTypeOK, CredentialTypeOK', NEW t \in Everyone, StepOf(t), PendingFact(t),
           NEW l \in Logins \ {t}, LoginFact(l)
    PROVE  LoginFact(l)'
<1>1. l \in Everyone \ {t} /\ FileOf[l] \in Paths /\ l # Nobody
  BY Zenon, Apart
<1>2. flow'[l] = flow[l]
  BY Zenon, <1>1 DEF StepOf
<1>3. hostFile # 0 => hostFile' = hostFile
  BY Zenon DEF StepOf
<1>4. flow[l].pc = "newhost" => locks'[Host] = l /\ hostFile' = 0
  BY Zenon, <1>1 DEF StepOf, LoginFact
<1>5. flow[l].pc # "idle" /\ flow[l].selected.grant = file'[FileOf[l]].grant
        => flow[l].selected = file'[FileOf[l]]
  <2>1. CASE file'[FileOf[l]] = file[FileOf[l]]
    BY Zenon, <2>1 DEF LoginFact
  <2>2. CASE Pending(t) /\ file'[FileOf[l]] = flow[t].record
    BY Zenon, <2>2 DEF PendingFact
  <2> QED BY Zenon, <1>1, <2>1, <2>2 DEF StepOf
<1>6. flow[l].pc # "idle" => flow[l].selected.grant <= grants'
  <2>1. flow[l].selected.grant \in Nat /\ grants \in Nat /\ grants' \in Nat /\ grants' >= grants
    BY <1>1 DEF CredentialTypeOK, CredentialRecords, StepOf
  <2> QED BY <2>1 DEF LoginFact
<1> QED BY Zenon, <1>2, <1>3, <1>4, <1>5, <1>6 DEF LoginFact

LEMMA FilesKept ==
    ASSUME CredentialInv, CredentialTypeOK', NEW t \in Everyone, StepOf(t), OwnStep(t),
           NEW p \in Paths
    PROVE  FileFact(p)'
<1>1. FileFact(p) /\ PendingFact(t)
  BY Zenon DEF CredentialInv
<1>2. \A q \in Paths : \/ file'[q] = file[q]
                       \/ q = FileOf[t] /\ Pending(t) /\ file'[q] = flow[t].record
  BY Zenon DEF StepOf
<1>3. grants \in Nat /\ grants' \in Nat /\ grants' >= grants /\ file[p].grant \in Nat
      /\ flow[t].record.grant \in Nat /\ loginFaults \in Nat /\ loginFaults' \in Nat
      /\ loginFaults' >= loginFaults
  BY DEF CredentialInv, CredentialTypeOK, CredentialRecords, StepOf
<1>4. hostFile # 0 => hostFile' = hostFile
  BY Zenon DEF StepOf
<1>5. Pending(t) => flow[t].record.host = hostFile /\ hostFile # 0
  <2>1. CASE t \in Users
    <3>1. UserFact(t) /\ FileFact(FileOf[t])
      BY Zenon, <2>1, Apart DEF CredentialInv
    <3> QED BY <3>1 DEF UserFact, FileFact, Pending
  <2>2. CASE t \in Logins
    <3>1. LoginFact(t)
      BY Zenon, <2>2 DEF CredentialInv
    <3> QED BY <3>1 DEF LoginFact, Pending
  <2> QED BY Zenon, <2>1, <2>2 DEF Everyone
<1>6. file'[p].grant <= grants'
  <2>1. CASE file'[p] = file[p]
    BY <1>1, <1>3, <2>1 DEF FileFact
  <2>2. CASE Pending(t) /\ file'[p] = flow[t].record
    BY <1>1, <1>3, <2>2 DEF PendingFact
  <2> QED BY Zenon, <1>2, <2>1, <2>2
<1>7. file'[p].grant = 0 => file'[p] = NoRecord
  BY Zenon, <1>1, <1>2 DEF FileFact, PendingFact
<1>8. file'[p].grant # 0 => file'[p].host = hostFile' /\ hostFile' # 0
  BY Zenon, <1>1, <1>2, <1>4, <1>5 DEF FileFact
<1>9. \A q \in Paths \ {p} : file'[p].grant # 0 => file'[q].grant # file'[p].grant
  BY Zenon, <1>1, <1>2 DEF FileFact, PendingFact
<1>10. ASSUME loginFaults' = 0, file'[p].grant # 0, file'[p].grant \notin live'
       PROVE  \E u \in Users : flow'[u].pc = "apply" /\ FileOf[u] = p
  <2>1. loginFaults = 0
    BY <1>3, <1>10
  <2>2. \A g \in live : g \in live' \/ (flow[t].pc = "refresh" /\ g = flow[t].record.grant)
    BY Zenon DEF StepOf
  <2>3. CASE file'[p] # file[p]
    <3>1. Pending(t) /\ file'[p] = flow[t].record
      BY Zenon, <1>2, <2>3
    <3>2. flow[t].record.grant \in live /\ flow[t].pc # "refresh"
      BY <1>1, <3>1 DEF PendingFact, Pending
    <3> QED BY Zenon, <1>10, <2>2, <3>1, <3>2
  <2>4. CASE file'[p] = file[p] /\ file[p].grant \notin live
    <3>1. PICK u \in Users : flow[u].pc = "apply" /\ FileOf[u] = p
      BY Zenon, <1>1, <1>10, <2>1, <2>4 DEF FileFact
    <3>2. CASE u # t
      BY Zenon, <3>1, <3>2, Apart DEF StepOf
    <3>3. CASE u = t
      <4>1. file'[p] = flow[t].record
        BY Zenon, <1>10, <3>1, <3>3 DEF OwnStep
      <4>2. file[p].grant # flow[t].record.grant
        BY Zenon, <1>1, <3>1, <3>3 DEF PendingFact, Pending
      <4> QED BY Zenon, <2>4, <4>1, <4>2
    <3> QED BY Zenon, <3>2, <3>3
  <2>5. CASE file'[p] = file[p] /\ file[p].grant \in live
    <3>1. flow[t].pc = "refresh" /\ file[p].grant = flow[t].record.grant
      BY Zenon, <1>10, <2>2, <2>5
    <3>2. t \in Users
      <4>1. t \in Logins => LoginFact(t)
        BY Zenon DEF CredentialInv
      <4> QED BY <3>1, <4>1 DEF LoginFact, Everyone
    <3>3. flow[t].record = file[FileOf[t]] /\ FileOf[t] \in Paths
      BY ZenonT(60), <3>1, <3>2, Apart DEF CredentialInv, UserFact
    <3>4. FileOf[t] = p
      BY Zenon, <1>1, <1>10, <2>5, <3>1, <3>3 DEF FileFact
    <3> QED BY Zenon, <1>10, <2>5, <3>1, <3>2, <3>4 DEF OwnStep
  <2> QED BY Zenon, <2>3, <2>4, <2>5
<1> QED BY Zenon, <1>6, <1>7, <1>8, <1>9, <1>10 DEF FileFact

LEMMA PendingKept ==
    ASSUME CredentialInv, CredentialTypeOK', NEW t \in Everyone, StepOf(t), OwnStep(t),
           NEW v \in Everyone
    PROVE  PendingFact(v)'
<1>1. \A w \in Everyone : PendingFact(w)
  BY Zenon DEF CredentialInv
<1>2. \A p \in Paths : \/ file'[p] = file[p]
                       \/ p = FileOf[t] /\ Pending(t) /\ file'[p] = flow[t].record
  BY Zenon DEF StepOf
<1>3. \A w \in Everyone \ {t} : flow'[w] = flow[w]
  BY Zenon DEF StepOf
<1>4. /\ grants \in Nat /\ grants' \in Nat /\ grants' >= grants
      /\ \A w \in Everyone : flow[w].record.grant \in Nat /\ flow[w].selected.grant \in Nat
      /\ \A p \in Paths : file[p].grant \in Nat
  BY DEF CredentialInv, CredentialTypeOK, CredentialRecords, StepOf
<1>5. \A p \in Paths : file[p].grant <= grants
  BY Zenon DEF CredentialInv, FileFact
<1>6. \A w \in Everyone \ {t} : Pending(w)' <=> Pending(w)
  BY Zenon, <1>3 DEF Pending
<1>7. CASE v = t
  <2> SUFFICES ASSUME Pending(t)' PROVE PendingFact(t)'
    BY Zenon, <1>7 DEF PendingFact
  <2> DEFINE g == grants + 1
  <2>1. flow'[t].record.grant = g /\ grants' = g /\ g \in live' /\ file' = file
    BY Zenon DEF OwnStep, Pending
  <2>2. g # 0 /\ g <= grants' /\ \A n \in Nat : n <= grants => n # g
    BY <1>4, <2>1
  <2> HIDE DEF g
  <2>3. \A p \in Paths : file'[p].grant # g
    BY Zenon, <1>4, <1>5, <2>1, <2>2
  <2>4. ASSUME NEW l \in Logins, flow'[l].pc # "idle" PROVE flow'[l].selected.grant # g
    <3>1. l \in Everyone /\ LoginFact(l) /\ FileOf[l] \in Paths
      BY Zenon, Apart DEF CredentialInv
    <3>2. CASE l # t
      <4>1. flow'[l] = flow[l]
        BY Zenon, <1>3, <3>1, <3>2
      <4>2. flow[l].pc # "idle"
        BY Zenon, <2>4, <4>1
      <4>3. flow[l].selected.grant <= grants
        BY Zenon, <3>1, <4>2 DEF LoginFact
      <4>4. flow[l].selected.grant \in Nat
        BY Zenon, <1>4, <3>1
      <4> QED BY Zenon, <2>2, <4>1, <4>3, <4>4
    <3>3. CASE l = t
      <4>1. \/ flow'[l].selected = flow[l].selected /\ flow[l].pc # "idle"
            \/ flow'[l].selected = file[FileOf[l]]
        BY Zenon, <2>4, <3>3 DEF OwnStep
      <4> QED BY Zenon, <1>4, <1>5, <2>2, <3>1, <4>1 DEF LoginFact
    <3> QED BY Zenon, <3>2, <3>3
  <2>5. ASSUME NEW w \in Everyone \ {t}, Pending(w)' PROVE flow'[w].record.grant # g
    BY Zenon, <1>1, <1>3, <1>4, <1>6, <2>2, <2>5 DEF PendingFact
  <2>6. \A w \in Everyone \ {t} : Pending(w)' => flow'[w].record.grant # g
    BY Zenon, <2>5
  <2> QED BY Zenon, <2>1, <2>2, <2>3, <2>4, <2>6 DEF PendingFact
<1>8. CASE v # t
  <2> SUFFICES ASSUME Pending(v) PROVE PendingFact(v)'
    BY Zenon, <1>6, <1>8 DEF PendingFact
  <2> DEFINE g == flow[v].record.grant
  <2>1. flow'[v] = flow[v] /\ PendingFact(v) /\ g \in Nat
    BY ZenonT(60), <1>1, <1>3, <1>4, <1>8
  <2>2. g <= grants' /\ g # 0
    BY <1>4, <2>1 DEF PendingFact
  <2>3. g \in live'
    <3>1. flow[t].pc = "refresh" => flow[t].record.grant # g
      <4>1. ASSUME flow[t].pc = "refresh" PROVE t \in Users
        <5>1. t \in Logins => LoginFact(t)
          BY Zenon DEF CredentialInv
        <5> QED BY <4>1, <5>1 DEF LoginFact, Everyone
      <4>2. flow[t].pc = "refresh" => flow[t].record = file[FileOf[t]] /\ FileOf[t] \in Paths
        BY Zenon, <4>1, Apart DEF CredentialInv, UserFact
      <4> QED BY Zenon, <2>1, <4>2 DEF PendingFact
    <3> QED BY Zenon, <2>1, <3>1 DEF PendingFact, StepOf
  <2>4. \A p \in Paths : file'[p].grant # g
    BY Zenon, <1>2, <1>8, <2>1 DEF PendingFact
  <2>5. ASSUME NEW l \in Logins, flow'[l].pc # "idle" PROVE flow'[l].selected.grant # g
    <3>1. l \in Everyone /\ FileOf[l] \in Paths
      BY Zenon, Apart
    <3>2. CASE l # t
      BY Zenon, <1>3, <2>1, <2>5, <3>1, <3>2 DEF PendingFact
    <3>3. CASE l = t
      BY Zenon, <2>1, <2>5, <3>1, <3>3 DEF OwnStep, PendingFact
    <3> QED BY Zenon, <3>2, <3>3
  <2>6. ASSUME NEW w \in Everyone \ {v}, Pending(w)' PROVE flow'[w].record.grant # g
    <3>1. CASE w # t
      BY Zenon, <1>3, <1>6, <2>1, <2>6, <3>1 DEF PendingFact
    <3>2. CASE w = t
      <4>1. flow'[w].record.grant = grants + 1
        BY Zenon, <2>6, <3>2 DEF OwnStep, Pending
      <4>2. g <= grants
        BY Zenon, <2>1 DEF PendingFact
      <4> QED BY <1>4, <2>1, <4>1, <4>2
    <3> QED BY Zenon, <3>1, <3>2
  <2> QED BY Zenon, <2>1, <2>2, <2>3, <2>4, <2>5, <2>6 DEF PendingFact
<1> QED BY Zenon, <1>7, <1>8

\* A step keeps the invariant when it keeps the facts about the one who takes it.
LEMMA StepKeeps ==
    ASSUME CredentialInv, CredentialTypeOK', NEW t \in Everyone, StepOf(t), OwnStep(t), ~reused',
           t \in Users => UserFact(t)', t \in Logins => LoginFact(t)'
    PROVE  CredentialInv'
<1>1. \A u \in Users : UserFact(u)'
  BY Zenon, OtherUsers DEF CredentialInv
<1>2. \A l \in Logins : LoginFact(l)'
  <2>1. PendingFact(t) /\ CredentialTypeOK
    BY Zenon DEF CredentialInv
  <2> QED BY Zenon, <2>1, OtherLogins DEF CredentialInv
<1>3. \A p \in Paths : FileFact(p)'
  BY Zenon, FilesKept
<1>4. \A v \in Everyone : PendingFact(v)'
  BY Zenon, PendingKept
<1> QED BY Zenon, <1>1, <1>2, <1>3, <1>4 DEF CredentialInv

-----------------------------------------------------------------------------
(* The steps *)

LEMMA IdleFact ==
    ASSUME NEW t \in Everyone, flow'[t].pc = "idle"
    PROVE  UserFact(t)' /\ LoginFact(t)'
BY DEF UserFact, LoginFact

\* A step that ends an operation without a new grant
LEMMA EndKeeps ==
    ASSUME CredentialInv, CredentialTypeOK', NEW t \in Everyone, StepOf(t), ~reused',
           flow'[t].pc = "idle",
           flow[t].pc = "apply" => loginFaults' # 0 \/ file'[FileOf[t]] = flow[t].record,
           flow[t].pc = "refresh" /\ flow[t].record.grant \in live => loginFaults' # 0
    PROVE  CredentialInv'
<1>1. OwnStep(t)
  BY DEF OwnStep
<1> QED BY Zenon, <1>1, IdleFact, StepKeeps

LEMMA LookUpKeeps ==
    ASSUME CredentialInv, NEW u \in Users, LookUp(u)
    PROVE  CredentialInv'
<1>1. CredentialTypeOK /\ u \in Everyone /\ u \notin Logins /\ FileOf[u] \in Paths
  BY Zenon, Apart DEF CredentialInv
<1>2. /\ CredentialTypeOK' /\ StepOf(u)
      /\ flow[u].pc = "idle" /\ UNCHANGED <<file, hostFile, grants, live, reused, loginFaults>>
      /\ flow'[u].pc = "refresh" /\ flow'[u].record = file[FileOf[u]]
      /\ file[FileOf[u]] # NoRecord /\ locks'[FileOf[u]] = u
  BY ZenonT(60), <1>1, LookUpMoves
<1>3. OwnStep(u)
  BY <1>1, <1>2 DEF OwnStep
<1>4. file[FileOf[u]].grant # 0
  BY Zenon, <1>1, <1>2 DEF CredentialInv, FileFact
<1>5. UserFact(u)'
  BY <1>2, <1>4 DEF UserFact
<1>6. ~reused'
  BY Zenon, <1>2 DEF CredentialInv
<1> QED BY Zenon, <1>1, <1>2, <1>3, <1>5, <1>6, StepKeeps

LEMMA RefreshKeeps ==
    ASSUME CredentialInv, NEW u \in Users, RefreshToken(u)
    PROVE  CredentialInv'
<1>1. CredentialTypeOK /\ u \in Everyone /\ u \notin Logins /\ FileOf[u] \in Paths
  BY Zenon, Apart DEF CredentialInv
<1>2. /\ CredentialTypeOK' /\ StepOf(u)
      /\ flow[u].pc = "refresh" /\ UNCHANGED <<file, hostFile>>
      /\ \/ RefreshGranted(u) /\ UNCHANGED <<reused, loginFaults>>
         \/ RefreshLost(u) /\ UNCHANGED reused
         \/ /\ flow[u].record.grant \notin live /\ flow'[u].pc = "idle"
            /\ reused' = (reused \/ loginFaults = 0)
            /\ UNCHANGED <<grants, live, loginFaults>>
  BY Zenon, <1>1, RefreshMoves
<1>3. UserFact(u) /\ FileFact(FileOf[u]) /\ ~reused
  BY Zenon, <1>1 DEF CredentialInv
<1>4. flow[u].record = file[FileOf[u]] /\ locks[FileOf[u]] = u /\ file[FileOf[u]].grant # 0
  BY <1>2, <1>3 DEF UserFact
<1>5. CASE RefreshGranted(u) /\ UNCHANGED <<reused, loginFaults>>
  <2>1. OwnStep(u)
    BY SMTT(60), <1>1, <1>2, <1>5 DEF OwnStep, RefreshGranted
  <2>2. UserFact(u)'
    BY ZenonT(60), <1>2, <1>4, <1>5 DEF UserFact, RefreshGranted
  <2> QED BY Zenon, <1>1, <1>2, <1>3, <1>5, <2>1, <2>2, StepKeeps
<1>6. CASE RefreshLost(u) /\ UNCHANGED reused
  <2>1. flow'[u].pc = "idle" /\ loginFaults' # 0 /\ ~reused'
    BY Zenon, <1>3, <1>6 DEF RefreshLost
  <2> QED BY Zenon, <1>1, <1>2, <2>1, EndKeeps
<1>7. CASE /\ flow[u].record.grant \notin live /\ flow'[u].pc = "idle"
           /\ reused' = (reused \/ loginFaults = 0)
           /\ UNCHANGED <<grants, live, loginFaults>>
  <2>1. loginFaults # 0
    <3>1. SUFFICES ASSUME loginFaults = 0 PROVE FALSE
      BY Zenon
    <3>2. PICK v \in Users : flow[v].pc = "apply" /\ FileOf[v] = FileOf[u]
      BY Zenon, <1>3, <1>4, <1>7, <3>1 DEF FileFact
    <3>3. locks[FileOf[v]] = v
      <4>1. UserFact(v)
        BY Zenon DEF CredentialInv
      <4> QED BY <3>2, <4>1 DEF UserFact
    <3>4. v = u
      BY Zenon, <1>4, <3>2, <3>3
    <3> QED BY <1>2, <3>2, <3>4
  <2>2. ~reused'
    BY Zenon, <1>3, <1>7, <2>1
  <2>3. flow[u].pc # "apply"
    BY <1>2
  <2> QED BY Zenon, <1>1, <1>2, <1>7, <2>2, <2>3, EndKeeps
<1> QED BY Zenon, <1>2, <1>5, <1>6, <1>7

\* Writes of a flow that brings a grant, or failures on the way
LEMMA WritesKeep ==
    ASSUME CredentialInv, CredentialTypeOK', NEW t \in Everyone, StepOf(t), Writes(t),
           flow[t].pc = "apply" => loginFaults' # 0 \/ file'[FileOf[t]] = flow[t].record,
           flow[t].pc = "refresh" => loginFaults' # 0
    PROVE  CredentialInv'
<1>1. ~reused' /\ flow'[t].pc = "idle"
  BY Zenon DEF CredentialInv, Writes
<1> QED BY Zenon, <1>1, EndKeeps

LEMMA ApplyKeeps ==
    ASSUME CredentialInv, NEW u \in Users, Apply(u)
    PROVE  CredentialInv'
<1>1. CredentialTypeOK /\ u \in Everyone /\ FileOf[u] \in Paths /\ UserFact(u)
  BY Zenon, Apart DEF CredentialInv
<1>2. flow[u].pc = "apply" /\ Leave(u) /\ UNCHANGED <<hostFile, service>>
      /\ \/ file' = [file EXCEPT ![FileOf[u]] = flow[u].record] /\ (UNCHANGED loginFaults \/ Fault)
         \/ Fault /\ file' = file
  BY Zenon DEF Apply
<1>3. Pending(u) /\ locks[FileOf[u]] = u
  BY <1>1, <1>2 DEF Pending, UserFact
<1>4. CredentialTypeOK' /\ StepOf(u) /\ Writes(u)
  BY Zenon, <1>1, <1>2, <1>3, WriteMoves
<1>5. loginFaults' # 0 \/ file'[FileOf[u]] = flow[u].record
  BY Zenon, <1>1, <1>2, Faulty DEF CredentialTypeOK
<1>6. flow[u].pc # "refresh"
  BY <1>2
<1> QED BY Zenon, <1>1, <1>4, <1>5, <1>6, WritesKeep

LEMMA LoginPlaces ==
    ASSUME CredentialInv, NEW l \in Logins
    PROVE  /\ CredentialTypeOK /\ l \in Everyone /\ l \notin Users /\ FileOf[l] \in Paths
           /\ LoginFact(l) /\ FileFact(FileOf[l]) /\ ~reused
           /\ flow[l].pc \notin {"refresh", "apply"}
<1>1. /\ CredentialTypeOK /\ l \in Everyone /\ l \notin Users /\ FileOf[l] \in Paths
      /\ LoginFact(l) /\ ~reused
  BY Zenon, Apart DEF CredentialInv
<1>2. flow[l].pc \notin {"refresh", "apply"}
  BY <1>1 DEF LoginFact
<1> QED BY Zenon, <1>1, <1>2 DEF CredentialInv

LEMMA BeginKeeps ==
    ASSUME CredentialInv, NEW l \in Logins, BeginLogin(l)
    PROVE  CredentialInv'
<1>1. /\ CredentialTypeOK /\ l \in Everyone /\ l \notin Users /\ LoginFact(l)
      /\ FileFact(FileOf[l]) /\ ~reused
  BY Zenon, LoginPlaces
<1>2. /\ CredentialTypeOK' /\ StepOf(l)
      /\ flow[l].pc = "idle" /\ UNCHANGED <<file, hostFile, grants, live, reused, loginFaults>>
      /\ flow'[l].pc = "host" /\ flow'[l].selected = file[FileOf[l]]
  BY Zenon, <1>1, BeginMoves
<1>3. OwnStep(l)
  BY SMTT(60), <1>2 DEF OwnStep
<1>4. LoginFact(l)'
  BY ZenonT(60), <1>1, <1>2 DEF LoginFact, FileFact
<1> QED BY Zenon, <1>1, <1>2, <1>3, <1>4, StepKeeps

LEMMA ReadHostKeeps ==
    ASSUME CredentialInv, NEW l \in Logins, ReadHost(l)
    PROVE  CredentialInv'
<1>1. CredentialTypeOK /\ l \in Everyone /\ l \notin Users /\ LoginFact(l) /\ ~reused
  BY Zenon, LoginPlaces
<1>2. /\ CredentialTypeOK' /\ StepOf(l)
      /\ UNCHANGED <<file, grants, live, reused, loginFaults>>
      /\ flow'[l].selected = flow[l].selected
      /\ HostFound(l) \/ HostMissing(l)
  BY Zenon, <1>1, ReadHostMoves
<1>3. flow[l].pc = "host" /\ flow'[l].pc \in {"browser", "newhost"} /\ hostFile' = hostFile
  BY ZenonT(40), <1>2 DEF HostFound, HostMissing
<1>4. OwnStep(l)
  BY SMTT(40), <1>2, <1>3 DEF OwnStep
<1>5. LoginFact(l)'
  BY Zenon, <1>1, <1>2, <1>3 DEF LoginFact, HostFound, HostMissing
<1> QED BY Zenon, <1>1, <1>2, <1>4, <1>5, StepKeeps

LEMMA WriteHostKeeps ==
    ASSUME CredentialInv, NEW l \in Logins, WriteHost(l)
    PROVE  CredentialInv'
<1>1. /\ CredentialTypeOK /\ l \in Everyone /\ l \notin Users /\ LoginFact(l) /\ ~reused
      /\ flow[l].pc \notin {"refresh", "apply"}
  BY Zenon, LoginPlaces
<1>2. /\ CredentialTypeOK' /\ StepOf(l)
      /\ UNCHANGED <<file, grants, live, reused>>
      /\ \/ HostCreated(l) /\ flow'[l].selected = flow[l].selected /\ UNCHANGED loginFaults
         \/ Writes(l)
  BY Zenon, <1>1, WriteHostMoves
<1>3. CASE HostCreated(l) /\ flow'[l].selected = flow[l].selected
  <2>1. flow[l].pc = "newhost" /\ flow'[l].pc = "browser"
    BY ZenonT(40), <1>3 DEF HostCreated
  <2>2. OwnStep(l)
    BY ZenonT(60), <1>2, <1>3, <2>1 DEF OwnStep
  <2>3. LoginFact(l)'
    BY <1>1, <1>2, <1>3, <2>1 DEF LoginFact, HostCreated
  <2> QED BY Zenon, <1>1, <1>2, <2>2, <2>3, StepKeeps
<1>4. CASE Writes(l)
  BY Zenon, <1>1, <1>2, <1>4, WritesKeep
<1> QED BY Zenon, <1>2, <1>3, <1>4

LEMMA ExchangeKeeps ==
    ASSUME CredentialInv, NEW l \in Logins, Exchange(l)
    PROVE  CredentialInv'
<1>1. /\ CredentialTypeOK /\ l \in Everyone /\ l \notin Users /\ LoginFact(l) /\ ~reused
      /\ flow[l].pc \notin {"refresh", "apply"} /\ grants \in Nat
  BY Zenon, LoginPlaces DEF CredentialTypeOK
<1>2. /\ CredentialTypeOK' /\ StepOf(l)
      /\ UNCHANGED <<file, hostFile, reused>>
      /\ \/ /\ grants' = grants + 1 /\ live' = live \cup {grants + 1} /\ UNCHANGED loginFaults
            /\ CodeExchanged(l) \/ flow'[l].pc = "idle"
         \/ Writes(l)
  BY Zenon, <1>1, ExchangeMoves
<1>3. CASE CodeExchanged(l) /\ grants' = grants + 1 /\ live' = live \cup {grants + 1}
  <2>1. flow[l].pc = "browser" /\ flow'[l].pc = "save" /\ flow'[l].selected = flow[l].selected
    BY ZenonT(40), <1>3 DEF CodeExchanged
  <2>2. OwnStep(l)
    BY ZenonT(60), <1>2, <1>3, <2>1 DEF OwnStep, CodeExchanged
  <2>3. flow[l].selected.grant # 0 => flow[l].selected # NoRecord
    BY DEF NoRecord
  <2>4. flow[l].selected.grant \in Nat
    BY <1>1 DEF CredentialTypeOK, CredentialRecords
  <2>5. LoginFact(l)'
    <3>1. /\ flow[l].host = hostFile /\ hostFile # 0 /\ flow[l].selected.grant <= grants
          /\ flow[l].selected.grant = 0 => flow[l].selected = NoRecord
          /\ flow[l].selected.grant # 0 => flow[l].selected.host = hostFile
          /\ flow[l].selected.grant = file[FileOf[l]].grant => flow[l].selected = file[FileOf[l]]
      BY Zenon, <1>1, <2>1 DEF LoginFact
    <3>2. /\ flow'[l].host = hostFile /\ flow'[l].record.host = hostFile
          /\ flow[l].selected # NoRecord =>
               /\ flow'[l].record.subject = flow[l].selected.subject
               /\ flow'[l].record.client = flow[l].selected.client
      BY Zenon, <1>3, <3>1 DEF CodeExchanged
    <3>3. flow[l].selected.grant <= grants'
      BY SMT, <1>1, <1>3, <2>4, <3>1
    <3>4. hostFile' = hostFile /\ file' = file
      BY Zenon, <1>2
    <3> QED BY ZenonT(40), <2>1, <2>3, <3>1, <3>2, <3>3, <3>4 DEF LoginFact
  <2> QED BY Zenon, <1>1, <1>2, <2>2, <2>5, StepKeeps
<1>4. CASE flow'[l].pc = "idle"
  BY Zenon, <1>1, <1>2, <1>4, EndKeeps
<1>5. CASE Writes(l)
  BY Zenon, <1>1, <1>2, <1>5, WritesKeep
<1> QED BY Zenon, <1>2, <1>3, <1>4, <1>5

LEMMA FinishLoginKeeps ==
    ASSUME CredentialInv, NEW l \in Logins, FinishLogin(l)
    PROVE  CredentialInv'
<1>1. /\ CredentialTypeOK /\ l \in Everyone /\ flow[l].pc \notin {"refresh", "apply"}
  BY Zenon, LoginPlaces
<1>2. /\ flow[l].pc = "save" /\ locks[FileOf[l]] = Nobody /\ Leave(l)
      /\ UNCHANGED <<hostFile, service>>
      /\ file' = [file EXCEPT ![FileOf[l]] = flow[l].record] \/ file' = file
      /\ UNCHANGED loginFaults \/ Fault
  BY Zenon DEF FinishLogin, Free
<1>3. Pending(l)
  BY <1>2 DEF Pending
<1>4. CredentialTypeOK' /\ StepOf(l) /\ Writes(l)
  BY Zenon, <1>1, <1>2, <1>3, WriteMoves
<1> QED BY Zenon, <1>1, <1>4, WritesKeep

LEMMA TimeoutKeeps ==
    ASSUME CredentialInv, NEW t \in Everyone, LockTimesOut(t)
    PROVE  CredentialInv'
<1>1. flow[t].pc \in {"host", "save"} /\ Leave(t) /\ UNCHANGED <<file, hostFile, service, loginFaults>>
  BY Zenon DEF LockTimesOut
<1>2. CredentialTypeOK' /\ StepOf(t) /\ Writes(t)
  BY Zenon, <1>1, LeaveMoves DEF CredentialInv
<1>3. flow[t].pc # "apply" /\ flow[t].pc # "refresh"
  BY <1>1
<1> QED BY Zenon, <1>2, <1>3, WritesKeep

LEMMA LossKeeps ==
    ASSUME CredentialInv, NEW t \in Everyone, ProcessLost(t)
    PROVE  CredentialInv'
<1>1. Fault /\ Leave(t) /\ UNCHANGED <<file, hostFile, service>>
  BY Zenon DEF ProcessLost
<1>2. CredentialTypeOK' /\ StepOf(t) /\ Writes(t)
  BY Zenon, <1>1, LeaveMoves DEF CredentialInv
<1>3. loginFaults' # 0
  BY Zenon, <1>1, Faulty DEF CredentialInv
<1> QED BY Zenon, <1>2, <1>3, WritesKeep

LEMMA CredentialStutter ==
    ASSUME CredentialInv, UNCHANGED <<file, hostFile, locks, flow, grants, live, reused, loginFaults>>
    PROVE  CredentialInv'
<1>1. CredentialTypeOK' /\ ~reused'
  BY Zenon DEF CredentialInv, CredentialTypeOK
<1>2. \A u \in Users : UserFact(u)'
  BY Zenon DEF CredentialInv, UserFact
<1>3. \A l \in Logins : LoginFact(l)'
  BY Zenon DEF CredentialInv, LoginFact
<1>4. \A p \in Paths : FileFact(p)'
  BY Zenon DEF CredentialInv, FileFact
<1>5. \A t \in Everyone : PendingFact(t)'
  BY Zenon DEF CredentialInv, PendingFact, Pending
<1> QED BY Zenon, <1>1, <1>2, <1>3, <1>4, <1>5 DEF CredentialInv

LEMMA CredentialStep == CredentialInv /\ [CredentialNext]_credentialVars => CredentialInv'
<1> SUFFICES ASSUME CredentialInv, [CredentialNext]_credentialVars PROVE CredentialInv'
  OBVIOUS
<1>1. CASE UNCHANGED credentialVars
  BY Zenon, <1>1, CredentialStutter DEF credentialVars
<1>2. CASE TokenExpires
  BY Zenon, <1>2, CredentialStutter DEF TokenExpires
<1> QED BY Zenon, <1>1, <1>2, LookUpKeeps, RefreshKeeps, ApplyKeeps, BeginKeeps, ReadHostKeeps,
           WriteHostKeeps, ExchangeKeeps, FinishLoginKeeps, TimeoutKeeps, LossKeeps DEF CredentialNext

LEMMA CredentialStart == CredentialInit => CredentialInv
<1> SUFFICES ASSUME CredentialInit PROVE CredentialInv
  OBVIOUS
<1>1. NoRecord \in CredentialRecords /\ NoRecord.grant = 0
  BY DEF NoRecord, CredentialRecords
<1>2. Resting \in Progress /\ Resting.pc = "idle"
  BY <1>1 DEF Resting, Stations, Progress
<1>3. CredentialTypeOK
  BY Zenon, <1>1, <1>2 DEF CredentialInit, CredentialTypeOK, Progress
<1>4. \A t \in Everyone : flow[t].pc = "idle"
  BY Zenon, <1>2 DEF CredentialInit
<1>5. \A p \in Paths : file[p] = NoRecord
  BY Zenon DEF CredentialInit
<1>6. \A u \in Users : UserFact(u)
  BY <1>4, Apart DEF UserFact
<1>7. \A l \in Logins : LoginFact(l)
  BY <1>4, Apart DEF LoginFact
<1>8. \A p \in Paths : FileFact(p)
  <2>1. grants = 0 /\ 0 <= 0
    BY DEF CredentialInit
  <2> QED BY Zenon, <1>1, <1>5, <2>1 DEF FileFact
<1>9. \A t \in Everyone : PendingFact(t)
  BY <1>4 DEF PendingFact, Pending
<1> QED BY Zenon, <1>3, <1>6, <1>7, <1>8, <1>9 DEF CredentialInv, CredentialInit

-----------------------------------------------------------------------------
(* Theorems *)

\* The locks, the grants and the host identity keep their facts in every
\* reachable state.
THEOREM CredentialInvariant == CredentialSpec => []CredentialInv
BY CredentialStart, CredentialStep, PTL DEF CredentialSpec

\* Without a failure no refresh token is presented twice, and a registration whose
\* token is used up is locked by the request that is about to replace it.
THEOREM TokensRefreshedOnce == CredentialSpec => []RefreshOnce
<1>1. ASSUME CredentialInv, NEW p \in Paths, file[p] # NoRecord, file[p].grant \notin live
      PROVE  loginFaults > 0 \/ ~Free(p)
  <2>1. CASE loginFaults = 0
    <3>1. PICK u \in Users : flow[u].pc = "apply" /\ FileOf[u] = p
      BY Zenon, <1>1, <2>1 DEF CredentialInv, FileFact
    <3>2. locks[p] = u
      <4>1. UserFact(u)
        BY Zenon, <1>1 DEF CredentialInv
      <4> QED BY <3>1, <4>1 DEF UserFact
    <3> QED BY Zenon, <3>2, Apart DEF Free
  <2>2. CASE loginFaults # 0
    BY <1>1, <2>2 DEF CredentialInv, CredentialTypeOK
  <2> QED BY Zenon, <2>1, <2>2
<1>2. CredentialInv => RefreshOnce
  BY Zenon, <1>1 DEF CredentialInv, RefreshOnce
<1> QED BY <1>2, CredentialInvariant, PTL

\* All registrations carry the one host identity, however many sign-ins found it
\* missing at the same time.
THEOREM HostIdShared == CredentialSpec => []OneHostId
<1>1. CredentialInv => OneHostId
  BY Zenon DEF CredentialInv, FileFact, OneHostId
<1> QED BY <1>1, CredentialInvariant, PTL

\* No refresh and no sign-in that was overtaken changes the account, the client or
\* the host of a registration.
THEOREM RegistrationsKept == CredentialSpec => RegistrationKept
<1>1. ASSUME CredentialInv, NEW t \in Everyone, StepOf(t), NEW p \in Paths, file[p] # NoRecord,
             Pending(t), p = FileOf[t], file'[p] = flow[t].record,
             t \in Logins => file[p].grant = flow[t].selected.grant
      PROVE  /\ file'[p].subject = file[p].subject /\ file'[p].client = file[p].client
             /\ file'[p].host = file[p].host
  <2>1. file[p].grant # 0 /\ file[p].host = hostFile
    BY Zenon, <1>1 DEF CredentialInv, FileFact
  <2>2. CASE t \in Users
    <3>1. UserFact(t)
      BY Zenon, <1>1, <2>2 DEF CredentialInv
    <3> QED BY <1>1, <3>1 DEF UserFact, Pending
  <2>3. CASE t \in Logins
    <3>1. LoginFact(t)
      BY Zenon, <1>1, <2>3 DEF CredentialInv
    <3>2. flow[t].pc = "save"
      BY <1>1, <3>1 DEF LoginFact, Pending
    <3>3. flow[t].selected = file[p] /\ flow[t].record.host = hostFile
      BY <1>1, <2>3, <3>1, <3>2 DEF LoginFact
    <3> QED BY <1>1, <2>1, <3>1, <3>2, <3>3 DEF LoginFact
  <2> QED BY Zenon, <1>1, <2>2, <2>3 DEF Everyone
<1> DEFINE Kept == \A p \in Paths : file[p] # NoRecord =>
                      /\ file'[p].subject = file[p].subject /\ file'[p].client = file[p].client
                      /\ file'[p].host = file[p].host
<1>2. ASSUME file' = file PROVE Kept
  BY Zenon, <1>2
<1>3. ASSUME CredentialInv, NEW t \in Everyone, StepOf(t),
             t \in Logins => file[FileOf[t]].grant = flow[t].selected.grant
      PROVE  Kept
  BY Zenon, <1>1, <1>3 DEF StepOf
<1> HIDE DEF Kept
<1>4. ASSUME CredentialInv, CredentialNext PROVE Kept
  <2>1. ASSUME NEW u \in Users, LookUp(u) \/ RefreshToken(u) \/ Apply(u) PROVE Kept
    <3>1. CASE LookUp(u) \/ RefreshToken(u)
      BY Zenon, <1>2, <3>1 DEF LookUp, RefreshToken
    <3>2. CASE Apply(u)
      <4>1. u \in Everyone /\ u \notin Logins /\ CredentialTypeOK /\ UserFact(u)
        BY Zenon, <1>4, Apart DEF CredentialInv
      <4>2. Pending(u) /\ locks[FileOf[u]] = u
        BY <3>2, <4>1 DEF Apply, UserFact, Pending
      <4>3. StepOf(u)
        BY Zenon, <3>2, <4>1, <4>2, WriteMoves DEF Apply
      <4> QED BY Zenon, <1>3, <1>4, <4>1, <4>3
    <3> QED BY Zenon, <2>1, <3>1, <3>2
  <2>2. ASSUME NEW l \in Logins, BeginLogin(l) \/ ReadHost(l) \/ WriteHost(l) \/ Exchange(l)
        PROVE  Kept
    BY Zenon, <1>2, <2>2 DEF BeginLogin, ReadHost, WriteHost, Exchange
  <2>3. ASSUME NEW l \in Logins, FinishLogin(l) PROVE Kept
    <3>1. CASE file[FileOf[l]].grant # flow[l].selected.grant
      BY Zenon, <1>2, <2>3, <3>1 DEF FinishLogin
    <3>2. CASE file[FileOf[l]].grant = flow[l].selected.grant
      <4>1. l \in Everyone /\ CredentialTypeOK
        BY Zenon, <1>4, Apart DEF CredentialInv
      <4>2. Pending(l) /\ locks[FileOf[l]] = Nobody
        BY <2>3 DEF FinishLogin, Pending, Free
      <4>3. StepOf(l)
        BY Zenon, <2>3, <3>2, <4>1, <4>2, WriteMoves DEF FinishLogin
      <4> QED BY Zenon, <1>3, <1>4, <3>2, <4>1, <4>3
    <3> QED BY Zenon, <3>1, <3>2
  <2>4. ASSUME NEW t \in Everyone, LockTimesOut(t) \/ ProcessLost(t) PROVE Kept
    BY Zenon, <1>2, <2>4 DEF LockTimesOut, ProcessLost
  <2>5. CASE TokenExpires
    BY Zenon, <1>2, <2>5 DEF TokenExpires
  <2> QED BY Zenon, <1>4, <2>1, <2>2, <2>3, <2>4, <2>5 DEF CredentialNext
<1>5. CredentialInv /\ [CredentialNext]_credentialVars =>
        [\A p \in Paths : file[p] # NoRecord =>
          /\ file'[p].subject = file[p].subject
          /\ file'[p].client = file[p].client
          /\ file'[p].host = file[p].host]_credentialVars
  BY Zenon, <1>4 DEF Kept
<1> QED BY <1>5, CredentialInvariant, PTL DEF CredentialSpec, RegistrationKept
=============================================================================
