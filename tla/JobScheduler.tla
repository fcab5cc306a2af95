--------------------------- MODULE JobScheduler ---------------------------
(***************************************************************************)
(* The in-process job registry of crates/harness/src/turn.rs.              *)
(*                                                                         *)
(* A job is one tool call.  Three kinds of actor touch its record:         *)
(*   - the spawned task that runs the provider (Task* actions),            *)
(*   - callers of cancel_with_cause and retry_cancellation (Cancel*,       *)
(*     Retry* actions), serialised per job by its cancellation gate,       *)
(*   - the engine and other conversations (Admit, Release, Claim, Commit). *)
(* Every critical section of the registry mutex is one action; an await    *)
(* outside the mutex separates two actions.                                *)
(***************************************************************************)
EXTENDS Naturals, FiniteSets

CONSTANTS
    Ops,          \* operation identities the engine may register
    Callers,      \* concurrent callers of cancel / retry; a caller's identity is its cause
    Claimants,    \* conversations that may claim a job
    Activations,  \* native request activations
    Capacity,     \* permits of the semaphore
    Owned,        \* jobs whose provider names a CancellationOwner
    Publishing,   \* jobs registered with requires_publication
    Unlimited,    \* jobs whose provider does not hold job capacity
    ActivationOf, \* activation of each job
    RoleOf,       \* invocation role of each job
    Returns,      \* outputs the provider future may return
    None          \* "no value"

Roles == {"domain", "observation", "settlement"}

\* Completed(Ok), Completed(Err), Cancelled, CancelledWithReceipt, Interrupted
\* and CancellationUnconfirmed
Outputs == {"ok", "err", "cancelled", "receipt", "interrupted", "unconfirmed"}

\* Stopped, StoppedWithReceipt, Completed(Ok), Completed(Err), Unconfirmed
Acks == {"stopped", "receipt", "ok", "err", "unconfirmed"}

ASSUME ConstantsAssumption ==
    /\ Capacity \in Nat \ {0}
    /\ Owned \subseteq Ops /\ Publishing \subseteq Ops /\ Unlimited \subseteq Ops
    /\ ActivationOf \in [Ops -> Activations]
    /\ RoleOf \in [Ops -> Roles]
    /\ Returns \subseteq Outputs
    /\ None \notin Ops \cup Callers \cup Outputs \cup Acks

VARIABLES
    started, output, token, intent, ack, claimants, settledClaimants,
    published, providerCompletion, launch, handle,
                    \* fields of Job, by operation
    terminal,       \* ActivationState.terminal, by activation
    permits,        \* jobs holding a permit of the semaphore
    task,           \* where each job's spawned task stands
    result,         \* the output a task carries to settle
    gate,           \* holder of each job's cancellation gate
    pc, target, answer, taken, \* where each caller stands, and its locals
    asked,          \* causes each job's owner was asked with
    signalled       \* jobs whose visible output was announced on the event channel

jobVars == <<started, output, token, intent, ack, claimants, settledClaimants,
             published, providerCompletion, launch, handle>>
taskVars == <<permits, task, result>>
callerVars == <<gate, pc, target, answer, taken, asked>>
vars == <<jobVars, terminal, taskVars, callerVars, signalled>>

TaskStates == {"none", "gate", "retained", "permit", "check", "running",
               "settling", "notifying", "done", "aborted"}
LiveTask == TaskStates \ {"none", "done", "aborted"}

CallerStates == {"idle", "cancel_gate", "intent", "recheck", "asking",
                 "record", "abort", "event", "settle", "grace",
                 "retry_gate", "retry_check", "retry_asking", "retry_record",
                 "retry_abort"}

Admitted == {op \in Ops : task[op] # "none"}

\* JobScheduler::output: what a conversation may see
Visible(op) == output[op] # None /\ (op \in Publishing => published[op])

Closed(a) == terminal[a] # None

\* The registry's records, the spawned tasks, and the callers of cancel and retry.
RecordsTyped ==
    /\ started \in [Ops -> BOOLEAN]
    /\ output \in [Ops -> Outputs \cup {None}]
    /\ token \in [Ops -> BOOLEAN]
    /\ intent \in [Ops -> Callers \cup {None}]
    /\ ack \in [Ops -> Acks \cup {None}]
    /\ claimants \in [Ops -> SUBSET Claimants]
    /\ settledClaimants \in [Ops -> SUBSET Claimants]
    /\ published \in [Ops -> BOOLEAN]
    /\ providerCompletion \in [Ops -> {"ok", "err", None}]
    /\ launch \in [Ops -> BOOLEAN]
    /\ handle \in [Ops -> BOOLEAN]
    /\ terminal \in [Activations -> Ops \cup {None}]

TasksTyped ==
    /\ permits \in SUBSET Ops
    /\ task \in [Ops -> TaskStates]
    /\ result \in [Ops -> Outputs \cup {None}]
    /\ signalled \in SUBSET Ops

CallersTyped ==
    /\ gate \in [Ops -> Callers \cup {None}]
    /\ pc \in [Callers -> CallerStates]
    /\ target \in [Callers -> Ops \cup {None}]
    /\ answer \in [Callers -> Acks \cup {None}]
    /\ taken \in [Callers -> BOOLEAN]
    /\ asked \in [Ops -> SUBSET Callers]

TypeOK == RecordsTyped /\ TasksTyped /\ CallersTyped

Init ==
    /\ started = [op \in Ops |-> FALSE]
    /\ output = [op \in Ops |-> None]
    /\ token = [op \in Ops |-> FALSE]
    /\ intent = [op \in Ops |-> None]
    /\ ack = [op \in Ops |-> None]
    /\ claimants = [op \in Ops |-> {}]
    /\ settledClaimants = [op \in Ops |-> {}]
    /\ published = [op \in Ops |-> FALSE]
    /\ providerCompletion = [op \in Ops |-> None]
    /\ launch = [op \in Ops |-> FALSE]
    /\ handle = [op \in Ops |-> FALSE]
    /\ terminal = [a \in Activations |-> None]
    /\ permits = {}
    /\ task = [op \in Ops |-> "none"]
    /\ result = [op \in Ops |-> None]
    /\ gate = [op \in Ops |-> None]
    /\ pc = [c \in Callers |-> "idle"]
    /\ target = [c \in Callers |-> None]
    /\ answer = [c \in Callers |-> None]
    /\ taken = [c \in Callers |-> FALSE]
    /\ asked = [op \in Ops |-> {}]
    /\ signalled = {}

-----------------------------------------------------------------------------
(* Registration, launch, claims and publication *)

\* The claimants waiting when a job settles become its settled claimants.
Drain(op) ==
    /\ settledClaimants' = [settledClaimants EXCEPT ![op] = claimants[op]]
    /\ claimants' = [claimants EXCEPT ![op] = {}]

\* admit_operation: a closed activation refuses domain work, a known identity
\* is a DuplicateCall; the task is spawned behind its launch gate.
Admit(op) ==
    /\ task[op] = "none"
    /\ ~(RoleOf[op] = "domain" /\ Closed(ActivationOf[op]))
    /\ task' = [task EXCEPT ![op] = "gate"]
    /\ handle' = [handle EXCEPT ![op] = TRUE]
    /\ launch' = [launch EXCEPT ![op] = TRUE]
    /\ UNCHANGED <<started, output, token, intent, ack, claimants,
                   settledClaimants, published, providerCompletion,
                   terminal, permits, result, callerVars, signalled>>

\* release_operation: opens the launch gate unless the job already settled.
Release(op) ==
    /\ op \in Admitted
    /\ output[op] = None
    /\ launch[op]
    /\ launch' = [launch EXCEPT ![op] = FALSE]
    /\ UNCHANGED <<started, output, token, intent, ack, claimants,
                   settledClaimants, published, providerCompletion,
                   handle, terminal, taskVars, callerVars, signalled>>

\* Mutant of Claim: a visible output is not looked for.
ClaimUnchecked(op, k) ==
    /\ op \in Admitted
    /\ claimants' = [claimants EXCEPT ![op] = @ \cup {k}]
    /\ UNCHANGED <<started, output, token, intent, ack, settledClaimants,
                   published, providerCompletion, launch, handle,
                   terminal, taskVars, callerVars, signalled>>

\* claim_exact and the attachment half of fork_owned_attachment: a visible
\* output is returned at once, otherwise the claimant is registered.
Claim(op, k) ==
    /\ op \in Admitted
    /\ ~Visible(op)
    /\ claimants' = [claimants EXCEPT ![op] = @ \cup {k}]
    /\ UNCHANGED <<started, output, token, intent, ack, settledClaimants,
                   published, providerCompletion, launch, handle,
                   terminal, taskVars, callerVars, signalled>>

\* mark_output_committed: the engine has retained the terminal in the store.
Commit(op) ==
    /\ output[op] # None
    /\ ~published[op]
    /\ settledClaimants' = [settledClaimants EXCEPT ![op] = @ \cup claimants[op]]
    /\ claimants' = [claimants EXCEPT ![op] = {}]
    /\ published' = [published EXCEPT ![op] = TRUE]
    /\ signalled' = IF op \in Publishing THEN signalled \cup {op} ELSE signalled
    /\ UNCHANGED <<started, output, token, intent, ack, providerCompletion,
                   launch, handle, terminal, taskVars, callerVars>>

\* Mutant of Pending: an unconfirmed cancellation counts as settled.
PendingUnsettled(a) ==
    {op \in Admitted :
        ActivationOf[op] = a /\ RoleOf[op] = "domain" /\ output[op] = None}

\* The inventory try_admit_terminal hands to the host: domain work of the
\* activation that has no terminal, or one that does not prove it stopped.
Pending(a) ==
    {op \in Admitted :
        /\ ActivationOf[op] = a
        /\ RoleOf[op] = "domain"
        /\ output[op] \in {None, "unconfirmed", "interrupted"}}

\* InvocationAdmission::try_admit_terminal, called by a running settlement
\* invocation; the host's claim accepts an empty inventory only.
TryAdmitTerminal(op) ==
    /\ task[op] = "running"
    /\ started[op] /\ output[op] = None
    /\ RoleOf[op] = "settlement"
    /\ ~Closed(ActivationOf[op])
    /\ Pending(ActivationOf[op]) = {}
    /\ terminal' = [terminal EXCEPT ![ActivationOf[op]] = op]
    /\ UNCHANGED <<jobVars, taskVars, callerVars, signalled>>

-----------------------------------------------------------------------------
(* The spawned task *)

TaskUnchanged == UNCHANGED <<terminal, callerVars>>

\* The oneshot launch gate resolves.
TaskLaunched(op) ==
    /\ task[op] = "gate" /\ ~launch[op]
    /\ task' = [task EXCEPT ![op] = "retained"]
    /\ UNCHANGED <<jobVars, permits, result, signalled>> /\ TaskUnchanged

\* Provider::retained_output: a replayed or failed lookup settles the job
\* without running the provider; an absent one continues.
TaskRetained(op) ==
    /\ task[op] = "retained"
    /\ \/ /\ task' = [task EXCEPT ![op] = "permit"]
          /\ UNCHANGED result
       \/ \E o \in Returns \cup {"err"} :
             /\ task' = [task EXCEPT ![op] = "settling"]
             /\ result' = [result EXCEPT ![op] = o]
    /\ UNCHANGED <<jobVars, permits, signalled>> /\ TaskUnchanged

\* Semaphore::acquire_owned, when the provider holds job capacity.
TaskAcquire(op) ==
    /\ task[op] = "permit"
    /\ task' = [task EXCEPT ![op] = "check"]
    /\ \/ op \in Unlimited /\ UNCHANGED permits
       \/ /\ op \notin Unlimited
          /\ Cardinality(permits) < Capacity
          /\ permits' = permits \cup {op}
    /\ UNCHANGED <<jobVars, result, signalled>> /\ TaskUnchanged

\* The conditions under which a task that has its permit is cancelled instead.
MayNotStart(op) ==
    \/ output[op] # None
    \/ token[op]
    \/ RoleOf[op] = "domain" /\ Closed(ActivationOf[op])

\* The physical start, decided in one critical section.
TaskStart(op) ==
    /\ task[op] = "check"
    /\ \/ /\ MayNotStart(op)
          /\ task' = [task EXCEPT ![op] = "settling"]
          /\ result' = [result EXCEPT ![op] = "cancelled"]
          /\ permits' = permits \ {op}
          /\ UNCHANGED started
       \/ /\ ~MayNotStart(op)
          /\ task' = [task EXCEPT ![op] = "running"]
          /\ started' = [started EXCEPT ![op] = TRUE]
          /\ UNCHANGED <<result, permits>>
    /\ UNCHANGED <<output, token, intent, ack, claimants, settledClaimants,
                   published, providerCompletion, launch, handle,
                   signalled>> /\ TaskUnchanged

\* complete_call returns o; the permit is dropped before the result is kept.
TaskReturn(op, o) ==
    /\ task[op] = "running"
    /\ task' = [task EXCEPT ![op] = "settling"]
    /\ result' = [result EXCEPT ![op] = o]
    /\ permits' = permits \ {op}
    /\ UNCHANGED <<jobVars, signalled>> /\ TaskUnchanged

\* First critical section of settle: the provider's own result is always kept,
\* the output only if there is none.
TaskSettle(op) ==
    LET o == result[op] IN
    /\ task[op] = "settling"
    /\ task' = [task EXCEPT ![op] = "notifying"]
    /\ providerCompletion' = [providerCompletion EXCEPT ![op] =
                                 IF o \in {"ok", "err"} THEN o ELSE @]
    /\ IF output[op] = None
       THEN /\ output' = [output EXCEPT ![op] = o]
            /\ Drain(op)
       ELSE UNCHANGED <<output, settledClaimants, claimants>>
    /\ UNCHANGED <<started, token, intent, ack, published, launch,
                   handle, permits, result, signalled>> /\ TaskUnchanged

\* An event is only useful to a waiter that can then see the output.
Announce(op) == signalled' = IF Visible(op) THEN signalled \cup {op} ELSE signalled

\* Second critical section of settle (the watch), then the two broadcasts.
TaskNotify(op) ==
    /\ task[op] = "notifying"
    /\ task' = [task EXCEPT ![op] = "done"]
    /\ Announce(op)
    /\ UNCHANGED <<jobVars, permits, result>> /\ TaskUnchanged

-----------------------------------------------------------------------------
(* cancel_with_cause *)

Goto(c, next) == pc' = [pc EXCEPT ![c] = next]

\* The caller returns: its gate is released.
Return(c) ==
    /\ pc' = [pc EXCEPT ![c] = "idle"]
    /\ target' = [target EXCEPT ![c] = None]
    /\ answer' = [answer EXCEPT ![c] = None]
    /\ taken' = [taken EXCEPT ![c] = FALSE]
    /\ gate' = [gate EXCEPT ![target[c]] = IF @ = c THEN None ELSE @]

CancelCall(c, op) ==
    /\ pc[c] = "idle"
    /\ op \in Admitted
    /\ Goto(c, "cancel_gate")
    /\ target' = [target EXCEPT ![c] = op]
    /\ UNCHANGED <<jobVars, terminal, taskVars, gate, answer, taken, asked, signalled>>

CancelGate(c) ==
    /\ pc[c] = "cancel_gate"
    /\ gate[target[c]] = None
    /\ gate' = [gate EXCEPT ![target[c]] = c]
    /\ Goto(c, "intent")
    /\ UNCHANGED <<jobVars, terminal, taskVars, target, answer, taken, asked, signalled>>

\* Mutant of OwnerNeeded: the owner is looked up for jobs not yet started.
OwnerOfUnstarted(op) == op \in Owned /\ ~started[op]

\* Only work that physically started is cancelled through its owner.
OwnerNeeded(op) == op \in Owned /\ started[op]

\* A settled job returns None.  Otherwise the first cause is admitted, the
\* token is cancelled and the owner is needed exactly when the job has started.
CancelIntent(c) ==
    LET op == target[c] IN
    /\ pc[c] = "intent"
    /\ \/ /\ output[op] # None
          /\ Return(c)
          /\ UNCHANGED <<intent, token>>
       \/ /\ output[op] = None
          /\ intent' = [intent EXCEPT ![op] = IF @ = None THEN c ELSE @]
          /\ token' = [token EXCEPT ![op] = TRUE]
          /\ Goto(c, IF OwnerNeeded(op) THEN "recheck" ELSE "settle")
          /\ UNCHANGED <<target, answer, taken, gate>>
    /\ UNCHANGED <<started, output, ack, claimants, settledClaimants, published,
                   providerCompletion, launch, handle, terminal,
                   taskVars, asked, signalled>>

\* CancellationIntent::admit: the cause every request to the owner carries.
AdmittedCause(c) == intent[target[c]]

CancelRecheck(c) ==
    LET op == target[c] IN
    /\ pc[c] = "recheck"
    /\ \/ /\ output[op] # None
          /\ Return(c)
          /\ UNCHANGED asked
       \/ /\ output[op] = None
          /\ asked' = [asked EXCEPT ![op] = @ \cup {AdmittedCause(c)}]
          /\ Goto(c, "asking")
          /\ UNCHANGED <<target, answer, taken, gate>>
    /\ UNCHANGED <<jobVars, terminal, taskVars, signalled>>

\* Mutant of OwnerAnswers: the answer waits for the provider's own return.
OwnerAnswersAfterTask(c) ==
    /\ pc[c] \in {"asking", "retry_asking"}
    /\ task[target[c]] \notin LiveTask
    /\ \E a \in Acks : answer' = [answer EXCEPT ![c] = a]
    /\ Goto(c, IF pc[c] = "asking" THEN "record" ELSE "retry_record")
    /\ UNCHANGED <<jobVars, terminal, taskVars, target, gate, taken, asked, signalled>>

\* await_owner_cancellation, outside the mutex: the owner answers, or the
\* provider grace expires and the answer is Unconfirmed.
OwnerAnswers(c) ==
    /\ pc[c] \in {"asking", "retry_asking"}
    /\ \E a \in Acks : answer' = [answer EXCEPT ![c] = a]
    /\ Goto(c, IF pc[c] = "asking" THEN "record" ELSE "retry_record")
    /\ UNCHANGED <<jobVars, terminal, taskVars, target, gate, taken, asked, signalled>>

\* The output an acknowledgement settles the job with.
AckOutput(a) == IF a = "stopped" THEN "cancelled" ELSE a

StoppedAck(a) == a \in {"stopped", "receipt"}

\* The acknowledgement is kept; a completion that arrived meanwhile wins.
CancelRecord(c) ==
    LET op == target[c]
        o  == AckOutput(answer[c]) IN
    /\ pc[c] = "record"
    /\ ack' = [ack EXCEPT ![op] = answer[c]]
    /\ \/ /\ output[op] # None
          /\ Return(c)
          /\ UNCHANGED <<output, claimants, settledClaimants, handle>>
       \/ /\ output[op] = None
          /\ output' = [output EXCEPT ![op] = o]
          /\ Drain(op)
          /\ IF StoppedAck(answer[c])
             THEN /\ taken' = [taken EXCEPT ![c] = handle[op]]
                  /\ handle' = [handle EXCEPT ![op] = FALSE]
                  /\ Goto(c, "abort")
             ELSE /\ Goto(c, "event")
                  /\ UNCHANGED <<taken, handle>>
          /\ UNCHANGED <<target, answer, gate>>
    /\ UNCHANGED <<started, token, intent, published, providerCompletion, launch,
                   terminal, taskVars, asked, signalled>>

\* Mutant of AbortTask: the permit outlives the aborted future.
AbortTaskHoldsPermit(op) ==
    /\ task' = [task EXCEPT ![op] = IF @ \in LiveTask THEN "aborted" ELSE @]
    /\ UNCHANGED <<permits, result>>

\* task.abort() takes effect at an await point and drops the permit with the
\* future; a finished task is unaffected.
AbortTask(op) ==
    /\ task' = [task EXCEPT ![op] = IF @ \in LiveTask THEN "aborted" ELSE @]
    /\ permits' = IF task[op] \in LiveTask THEN permits \ {op} ELSE permits
    /\ UNCHANGED result

CancelAbort(c) ==
    /\ pc[c] = "abort"
    /\ IF taken[c] THEN AbortTask(target[c]) ELSE UNCHANGED taskVars
    /\ Goto(c, "event")
    /\ UNCHANGED <<jobVars, terminal, target, answer, taken, gate, asked, signalled>>

CancelEvent(c) ==
    /\ pc[c] = "event"
    /\ Announce(target[c])
    /\ Return(c)
    /\ UNCHANGED <<jobVars, terminal, taskVars, asked>>

\* Without a started owner the scheduler itself settles the job as Cancelled.
CancelSettle(c) ==
    LET op == target[c] IN
    /\ pc[c] = "settle"
    /\ \/ /\ output[op] # None
          /\ Return(c)
          /\ UNCHANGED <<output, claimants, settledClaimants, handle>>
       \/ /\ output[op] = None
          /\ output' = [output EXCEPT ![op] = "cancelled"]
          /\ Drain(op)
          /\ taken' = [taken EXCEPT ![c] = handle[op]]
          /\ handle' = [handle EXCEPT ![op] = FALSE]
          /\ Goto(c, "grace")
          /\ UNCHANGED <<target, answer, gate>>
    /\ UNCHANGED <<started, token, intent, ack, published, providerCompletion,
                   launch, terminal, taskVars, asked, signalled>>

\* Mutant of CancelGrace: nobody announces a job that had to be aborted.
CancelGraceSilent(c) ==
    /\ pc[c] = "grace"
    /\ IF taken[c] /\ task[target[c]] # "done" THEN AbortTask(target[c])
                                              ELSE UNCHANGED taskVars
    /\ Return(c)
    /\ UNCHANGED <<jobVars, terminal, asked, signalled>>

\* The task either ends within JOB_CANCELLATION_GRACE, sending the events
\* itself, or is aborted and the caller sends them.
CancelGrace(c) ==
    LET op == target[c] IN
    /\ pc[c] = "grace"
    /\ \/ /\ taken[c] /\ task[op] = "done"
          /\ UNCHANGED <<taskVars, signalled>>
       \/ /\ taken[c] => task[op] # "done"
          /\ IF taken[c] THEN AbortTask(op) ELSE UNCHANGED taskVars
          /\ Announce(op)
    /\ Return(c)
    /\ UNCHANGED <<started, output, token, intent, ack, claimants,
                   settledClaimants, published, providerCompletion, launch,
                   handle, terminal, asked>>

-----------------------------------------------------------------------------
(* retry_cancellation *)

\* Reads the owner of a started job before it waits for the gate.
RetryCall(c, op) ==
    /\ pc[c] = "idle"
    /\ op \in Admitted /\ started[op] /\ op \in Owned
    /\ Goto(c, "retry_gate")
    /\ target' = [target EXCEPT ![c] = op]
    /\ UNCHANGED <<jobVars, terminal, taskVars, gate, answer, taken, asked, signalled>>

RetryGate(c) ==
    /\ pc[c] = "retry_gate"
    /\ gate[target[c]] = None
    /\ gate' = [gate EXCEPT ![target[c]] = c]
    /\ Goto(c, "retry_check")
    /\ UNCHANGED <<jobVars, terminal, taskVars, target, answer, taken, asked, signalled>>

\* Only an Unconfirmed acknowledgement is asked again, under the first intent.
RetryCheck(c) ==
    LET op == target[c] IN
    /\ pc[c] = "retry_check"
    /\ \/ /\ providerCompletion[op] = "ok" \/ ack[op] # "unconfirmed"
          /\ Return(c)
          /\ UNCHANGED asked
       \/ /\ providerCompletion[op] # "ok" /\ ack[op] = "unconfirmed"
          /\ asked' = [asked EXCEPT ![op] = @ \cup {AdmittedCause(c)}]
          /\ Goto(c, "retry_asking")
          /\ UNCHANGED <<target, answer, taken, gate>>
    /\ UNCHANGED <<jobVars, terminal, taskVars, signalled>>

RetryRecord(c) ==
    LET op == target[c] IN
    /\ pc[c] = "retry_record"
    /\ ack' = [ack EXCEPT ![op] = answer[c]]
    /\ IF StoppedAck(answer[c]) /\ providerCompletion[op] = None
       THEN /\ taken' = [taken EXCEPT ![c] = handle[op]]
            /\ handle' = [handle EXCEPT ![op] = FALSE]
       ELSE UNCHANGED <<taken, handle>>
    /\ Goto(c, "retry_abort")
    /\ UNCHANGED <<started, output, token, intent, claimants, settledClaimants,
                   published, providerCompletion, launch, terminal,
                   taskVars, target, answer, gate, asked, signalled>>

RetryAbort(c) ==
    /\ pc[c] = "retry_abort"
    /\ IF taken[c] THEN AbortTask(target[c]) ELSE UNCHANGED taskVars
    /\ Return(c)
    /\ UNCHANGED <<jobVars, terminal, asked, signalled>>

-----------------------------------------------------------------------------
TaskStep(op) ==
    \/ TaskLaunched(op) \/ TaskRetained(op) \/ TaskAcquire(op) \/ TaskStart(op)
    \/ TaskSettle(op) \/ TaskNotify(op)

CallerStep(c) ==
    \/ CancelGate(c) \/ CancelIntent(c) \/ CancelRecheck(c) \/ OwnerAnswers(c)
    \/ CancelRecord(c) \/ CancelAbort(c) \/ CancelEvent(c)
    \/ CancelSettle(c) \/ CancelGrace(c)
    \/ RetryGate(c) \/ RetryCheck(c) \/ RetryRecord(c) \/ RetryAbort(c)

Next ==
    \/ \E op \in Ops : \/ Admit(op) \/ Release(op) \/ Commit(op)
                       \/ TryAdmitTerminal(op) \/ TaskStep(op)
                       \/ \E k \in Claimants : Claim(op, k)
                       \/ \E o \in Returns : TaskReturn(op, o)
    \/ \E c \in Callers : \/ CallerStep(c)
                          \/ \E op \in Ops : CancelCall(c, op) \/ RetryCall(c, op)

Spec == Init /\ [][Next]_vars
-----------------------------------------------------------------------------
(* Safety *)

\* The terminal outputs that prove the work stopped or finished.
Proven == {"ok", "err", "cancelled", "receipt"}

\* A caller that will still broadcast the settlement of op.
WillSignal(c, op) == target[c] = op /\ pc[c] \in {"abort", "event", "grace"}

\* Work that can outlive its provider future is aborted only once its owner
\* has acknowledged that it stopped (turn.rs cancel_with_cause: an unstarted
\* job is settled without its owner, a started one never is).
OwnerNeverBypassed ==
    \A op \in Owned :
        task[op] = "aborted" /\ started[op] => ack[op] \in {"stopped", "receipt"}

\* Once a settlement invocation has closed an activation, no domain job of it
\* is left without a terminal that proves it stopped: none was admitted or
\* started behind the inventory that try_admit_terminal examined.
ClosedActivationSettled ==
    \A op \in Admitted :
        RoleOf[op] = "domain" /\ Closed(ActivationOf[op]) => output[op] \in Proven

\* No claim is left behind: once a job's output can be seen, every claim has
\* moved to the settled claimants (settle, cancel_with_cause, mark_output_committed).
NoStrandedClaim == \A op \in Ops : Visible(op) => claimants[op] = {}

\* A settled job whose output can be seen was announced, or an actor that will
\* announce it is still on its way (the task's sends after settle, the
\* caller's sends, mark_output_committed): no waiter sleeps through it.
SignalOwed ==
    \A op \in Ops :
        Visible(op) /\ op \notin signalled =>
            \/ task[op] = "notifying"
            \/ \E c \in Callers : WillSignal(c, op)

\* A permit is held only by a task that is about to run or running: abort,
\* return and cancellation before start all give it back.
PermitsHeldByLiveTasks ==
    /\ Cardinality(permits) <= Capacity
    /\ \A op \in permits : task[op] \in {"check", "running"}

\* Every request made to a cancellation owner, retries by other callers
\* included, carries the first admitted intent.
OneCauseAsked == \A op \in Ops : asked[op] \subseteq {intent[op]}

(* Action properties *)

\* The output delivered to claimants is immutable, whatever arrives later: a
\* provider result after a cancellation, or an acknowledgement after a result.
OutputWrittenOnce ==
    [][\A op \in Ops : output[op] # None => output'[op] = output[op]]_vars

\* A job cancelled before its physical start never enters provider code.
CancelledNeverStarts ==
    [][\A op \in Ops : token[op] /\ ~started[op] => ~started'[op]]_vars

\* A registered claimant stays recorded, as waiting or as settled.
ClaimsKept ==
    [][\A op \in Ops : claimants[op] \cup settledClaimants[op]
                         \subseteq claimants'[op] \cup settledClaimants'[op]]_vars

-----------------------------------------------------------------------------
(* Liveness *)

\* The runtime polls a ready task; the semaphore and the gate are FIFO; an
\* owner answers (ProviderGrace bounds it).  Nothing is assumed of providers,
\* of the engine or of new callers.
Fairness ==
    /\ \A op \in Ops : WF_vars(TaskStep(op)) /\ SF_vars(TaskAcquire(op))
    /\ \A c \in Callers :
          WF_vars(CallerStep(c)) /\ SF_vars(CancelGate(c)) /\ SF_vars(RetryGate(c))

FairSpec == Spec /\ Fairness

\* A cancellation always ends in a terminal output, even of a provider that
\* never returns.
CancellationSettles == \A op \in Ops : token[op] ~> output[op] # None

\* Without a cancellation owner, the permit of a cancelled job comes back even
\* when its provider ignores the token (the grace period, then abort).
CancelledPermitReturns ==
    \A op \in Ops \ Owned : output[op] = "cancelled" ~> op \notin permits
=============================================================================
