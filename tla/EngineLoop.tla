----------------------------- MODULE EngineLoop -----------------------------
(***************************************************************************)
(* The request loop of one conversation (engine.rs: run_loop_inner and the *)
(* helpers it calls) over the Store and the job scheduler: requests are    *)
(* written, issued and answered; the calls of an answer are claimed,       *)
(* dispatched and their outputs settled and published; a crash or a failed *)
(* round leaves what the Store holds, and the next round recovers from it. *)
(***************************************************************************)
EXTENDS Naturals, Sequences

CONSTANTS
    Ops,           \* the tool calls the provider may make
    Ways,          \* the kinds the calls may have, call by call
    Mails,         \* envelopes others send to this conversation
    MaxRequests,   \* bound on the requests of the conversation
    MaxFaults,     \* bound on crashes and failed rounds
    NoOp

(* How a call is scheduled: a background job; a job that the next request  *)
(* waits for (ToolExecution::Synchronous); a job run after the response,   *)
(* before the next inference (ToolScheduling::BeforeNextInference); the    *)
(* engine's own wait (yield).                                              *)
Kinds == {"async", "sync", "serial", "yield"}

ASSUME EngineAssumption ==
    /\ Ways \subseteq [Ops -> Kinds]
    /\ MaxRequests \in Nat /\ MaxFaults \in Nat
    /\ NoOp \notin Ops

Requests == 1..MaxRequests

VARIABLES
    way,         \* the kind of each call
    written,     \* requests written; the last one is the head
    settled,     \* the settled head of the frontier
    response,    \* provider response of each request
    final,       \* the requests whose recorded response is final
    shown,       \* outputs in the input each request was issued with
    issuedAt,    \* the request whose response holds the call, or 0
    claim,       \* durable claim of each call
    published,   \* the requests that hold the output of each call
    inbox,       \* each mail: "unsent", "unread", "attached" to the head, "delivered"
    job,         \* the scheduler's job of each call
    starts,      \* how often the work of each call was started
    pc,          \* where the engine is
    current,     \* the call being dispatched or run serially
    storing,     \* the call whose settled output is yet to be published
    pending,     \* calls the round owes an output for
    calls,       \* calls of this response, in its order
    waitCall,    \* the yield of this response
    observe,     \* settled_this_turn.requires_observation
    hadSync,     \* had_sync_calls
    deferred,    \* deferred_dispatch_error
    replaying,   \* calls whose outputs the first request replays
    wakes,       \* wakes in the round's mailbox channel
    faults

store == <<written, settled, response, final, shown, issuedAt, claim, published, inbox>>
jobs == <<job, starts>>
round == <<pc, current, storing, pending, calls, waitCall, observe, hadSync, deferred, replaying>>
engineVars == <<way, store, jobs, round, wakes, faults>>

EngineInit ==
    /\ way \in Ways
    /\ written = 0 /\ settled = 0
    /\ response = [r \in Requests |-> "none"]
    /\ final = {}
    /\ shown = [r \in Requests |-> {}]
    /\ issuedAt = [o \in Ops |-> 0]
    /\ claim = [o \in Ops |-> "none"]
    /\ published = [o \in Ops |-> {}]
    /\ inbox = [m \in Mails |-> "unsent"]
    /\ job = [o \in Ops |-> "none"]
    /\ starts = [o \in Ops |-> 0]
    /\ pc = "idle" /\ current = NoOp /\ storing = NoOp
    /\ pending = {} /\ calls = <<>> /\ waitCall = NoOp
    /\ observe = FALSE /\ hadSync = FALSE /\ deferred = FALSE
    /\ replaying = {} /\ wakes = {} /\ faults = 0

Unread == {m \in Mails : inbox[m] = "unread"}
Scheduled == {o \in Ops : way[o] \in {"async", "sync"}}   \* ToolScheduling::Async

Goto(next) ==
    /\ pc' = next
    /\ UNCHANGED <<current, storing, pending, calls, waitCall, observe, hadSync, deferred, replaying>>

\* A round's variables are locals of run_loop_inner.
Enter(next) ==
    /\ pc' = next
    /\ current' = NoOp /\ storing' = NoOp /\ pending' = {} /\ calls' = <<>> /\ waitCall' = NoOp
    /\ observe' = FALSE /\ hadSync' = FALSE /\ deferred' = FALSE /\ replaying' = {}

-----------------------------------------------------------------------------
(* Around the engine: mail, jobs, the end of a round *)

\* Mutant: the wake is left to the next round.
SendSilently(m) ==
    /\ inbox[m] = "unsent"
    /\ inbox' = [inbox EXCEPT ![m] = "unread"]
    /\ UNCHANGED <<way, written, settled, response, final, shown, issuedAt, claim, published, jobs,
                   round, wakes, faults>>

\* Another actor sends: the row is stored, and a running round gets a wake.
SendMail(m) ==
    /\ inbox[m] = "unsent"
    /\ inbox' = [inbox EXCEPT ![m] = "unread"]
    /\ wakes' = IF pc = "idle" THEN wakes ELSE wakes \cup {m}
    /\ UNCHANGED <<way, written, settled, response, final, shown, issuedAt, claim, published, jobs,
                   round, faults>>

\* The scheduler's job settles in its own time.
JobDone(o) ==
    /\ job[o] = "running"
    /\ job' = [job EXCEPT ![o] = "done"]
    /\ UNCHANGED <<way, store, starts, round, wakes, faults>>

\* run_with_selected_receipt: a round begins for a pending head or unread mail.
Begin ==
    /\ pc = "idle"
    /\ written > settled \/ Unread # {}
    /\ Enter("recover")
    /\ wakes' = IF Unread = {} THEN {} ELSE {CHOOSE m \in Unread : TRUE}
    /\ UNCHANGED <<way, store, jobs, faults>>

\* The completed round's head is settled in the frontier (embedded_round.rs).
SettleHead ==
    /\ pc = "done"
    /\ settled' = written
    /\ Enter("idle")
    /\ wakes' = {}
    /\ UNCHANGED <<way, written, response, final, shown, issuedAt, claim, published, inbox, jobs,
                   faults>>

\* The process is lost: the Store stays, jobs and the round go.
Crash ==
    /\ faults < MaxFaults /\ faults' = faults + 1
    /\ pc \notin {"idle", "refused"}
    /\ Enter("idle")
    /\ job' = [o \in Ops |-> "none"]
    /\ wakes' = {}
    /\ UNCHANGED <<way, store, starts>>

-----------------------------------------------------------------------------
(* Recovery *)

Resuming == written > settled

\* claims_on_branch_lineage; an ordinary continuation keeps the head's own.
Inherited == {o \in Ops : claim[o] # "none" /\ (Resuming \/ issuedAt[o] = written)}

\* A call without a claim, and a pending wait, cannot be recovered; nor can a
\* call with two outputs, or with an output and no terminal claim.
Unrecoverable ==
    \/ Resuming /\ \E o \in Ops : issuedAt[o] # 0 /\ claim[o] = "none"
    \/ \E o \in Inherited : \/ way[o] = "yield" /\ claim[o] = "pending"
                            \/ \E r, s \in published[o] : r # s
                            \/ published[o] # {} /\ claim[o] = "pending"

RecoveryRefused ==
    /\ pc = "recover" /\ Unrecoverable
    /\ Goto("refused")
    /\ UNCHANGED <<way, store, jobs, wakes, faults>>

Unpublished == {o \in Inherited : published[o] = {}}

\* Mutant: a pending claim without a job is dispatched again.
RecoverByRunning ==
    /\ pc = "recover" /\ ~Unrecoverable
    /\ LET missing == {o \in Unpublished : claim[o] = "pending"}
       IN  /\ job' = [o \in Ops |-> IF o \in missing THEN "running" ELSE job[o]]
           /\ starts' = [o \in Ops |-> IF o \in missing THEN starts[o] + 1 ELSE starts[o]]
           /\ pending' = missing
           /\ replaying' = Unpublished \ missing
    /\ pc' = "write"
    /\ UNCHANGED <<way, store, current, storing, calls, waitCall, observe, hadSync, deferred, wakes,
                   faults>>

\* The claims of the lineage. A settled or interrupted claim whose output no
\* request holds is replayed. A pending claim has no job here (the round that
\* left it cleaned up, or the process died): recover_missing_job interrupts it.
\* With nothing to replay, a recorded final response completes the round.
Recover ==
    /\ pc = "recover" /\ ~Unrecoverable
    /\ claim' = [o \in Ops |-> IF o \in Unpublished /\ claim[o] = "pending"
                               THEN "interrupted" ELSE claim[o]]
    /\ replaying' = Unpublished
    /\ pc' = IF Resuming /\ written \in final /\ Unpublished = {} THEN "done" ELSE "write"
    /\ UNCHANGED <<way, written, settled, response, final, shown, issuedAt, published, inbox, jobs,
                   current, storing, pending, calls, waitCall, observe, hadSync, deferred, wakes, faults>>

\* write_embedded_request, for the first request of a round and for the next one
WriteRequest ==
    /\ pc = "write" /\ written < MaxRequests
    /\ written' = written + 1
    /\ pc' = "replay"
    /\ calls' = <<>> /\ waitCall' = NoOp
    /\ observe' = FALSE /\ hadSync' = FALSE
    /\ UNCHANGED <<way, settled, response, final, shown, issuedAt, claim, published, inbox, jobs,
                   current, storing, pending, deferred, replaying, wakes, faults>>

\* publish_operation_output of what recovery found
Replay(o) ==
    /\ pc = "replay" /\ o \in replaying
    /\ replaying' = replaying \ {o}
    /\ published' = [published EXCEPT ![o] = @ \cup {written}]
    /\ UNCHANGED <<way, written, settled, response, final, shown, issuedAt, claim, inbox, jobs,
                   pc, current, storing, pending, calls, waitCall, observe, hadSync, deferred, wakes,
                   faults>>

\* append_unread_envelopes: every unread mail is attached to the head.
Attach == [m \in Mails |-> IF m \in Unread THEN "attached" ELSE inbox[m]]

Replayed ==
    /\ pc = "replay" /\ replaying = {}
    /\ inbox' = Attach
    /\ Goto("boundary")
    /\ UNCHANGED <<way, written, settled, response, final, shown, issuedAt, claim, published, jobs,
                   wakes, faults>>

-----------------------------------------------------------------------------
(* Settled outputs *)

\* The steps of the loop that persist settled jobs: before a request with
\* synchronous calls, beside a serial call, after the response, after a wait.
Persisting ==
    \/ pc \in {"serial", "drain", "resume"}
    \/ pc = "boundary" /\ \E o \in pending : way[o] = "sync"

\* persist_output, first half: the claim is settled with the job's output.
SettleClaim(o) ==
    /\ Persisting /\ storing = NoOp
    /\ o \in pending /\ job[o] = "done"
    /\ o \in Scheduled \/ (pc = "serial" /\ o = current)
    /\ claim' = [claim EXCEPT ![o] = IF @ = "pending" THEN "settled" ELSE @]
    /\ storing' = o
    /\ UNCHANGED <<way, written, settled, response, final, shown, issuedAt, published, inbox, jobs,
                   pc, current, pending, calls, waitCall, observe, hadSync, deferred, replaying, wakes,
                   faults>>

\* persist_output, second half: the output is appended to the head. After a
\* serial call the unread mail follows.
PublishOutput ==
    /\ storing # NoOp
    /\ published' = [published EXCEPT ![storing] = @ \cup {written}]
    /\ pending' = pending \ {storing}
    /\ storing' = NoOp
    /\ observe' = (observe \/ pc = "drain")
    /\ IF storing = current
       THEN pc' = "post" /\ current' = NoOp /\ inbox' = Attach
       ELSE UNCHANGED <<pc, current, inbox>>
    /\ UNCHANGED <<way, written, settled, response, final, shown, issuedAt, claim, jobs, calls, waitCall,
                   hadSync, deferred, replaying, wakes, faults>>

-----------------------------------------------------------------------------
(* A model request *)

\* Mutant: the next request does not wait for a synchronous call.
SyncIgnored == TRUE

\* settle_synchronous_calls has waited for every synchronous call.
SyncSettled == \A o \in pending : way[o] # "sync"

AdmitMail ==
    /\ pc = "boundary" /\ storing = NoOp
    /\ SyncSettled
    /\ inbox' = Attach
    /\ Goto("ready")
    /\ UNCHANGED <<way, written, settled, response, final, shown, issuedAt, claim, published, jobs,
                   wakes, faults>>

\* prepare_provider_request seals the input; create_streaming sends it.
Issue ==
    /\ pc = "ready"
    /\ response' = [response EXCEPT ![written] = "streaming"]
    /\ shown' = [shown EXCEPT ![written] = {o \in Ops : published[o] # {}}]
    /\ inbox' = [m \in Mails |-> IF inbox[m] = "attached" THEN "delivered" ELSE inbox[m]]
    /\ Goto("stream")
    /\ UNCHANGED <<way, written, settled, final, issuedAt, claim, published, jobs, wakes, faults>>

\* retain_pending_outputs while the response streams
RetainOutput(o) ==
    /\ pc = "stream" /\ o \in pending \cap Scheduled
    /\ job[o] = "done" /\ claim[o] = "pending"
    /\ claim' = [claim EXCEPT ![o] = "settled"]
    /\ UNCHANGED <<way, written, settled, response, final, shown, issuedAt, published, inbox, jobs,
                   round, wakes, faults>>

\* retain_provider_item: a completed call is an item of the response.
CallItem(o) ==
    /\ pc = "stream" /\ issuedAt[o] = 0
    /\ issuedAt' = [issuedAt EXCEPT ![o] = written]
    /\ IF deferred THEN UNCHANGED <<pc, current>> ELSE pc' = "claim" /\ current' = o
    /\ UNCHANGED <<way, written, settled, response, final, shown, claim, published, inbox, jobs, storing,
                   pending, calls, waitCall, observe, hadSync, deferred, replaying, wakes, faults>>

\* dispatch_with_provider: the call is refused before it is claimed
\* (validate_call, an unknown tool, malformed input).
DispatchRefused ==
    /\ pc = "claim"
    /\ faults < MaxFaults /\ faults' = faults + 1
    /\ deferred' = TRUE
    /\ pc' = "stream" /\ current' = NoOp
    /\ UNCHANGED <<way, store, jobs, storing, pending, calls, waitCall, observe, hadSync, replaying, wakes>>

\* dispatch_with_provider: the claim. A second wait in one response is an error
\* that is raised when the response ends.
ClaimCall ==
    /\ pc = "claim"
    /\ claim' = [claim EXCEPT ![current] = "pending"]
    /\ pending' = pending \cup {current}
    /\ calls' = Append(calls, current)
    /\ IF way[current] = "yield"
       THEN /\ pc' = "stream" /\ current' = NoOp
            /\ deferred' = (waitCall # NoOp)
            /\ waitCall' = IF waitCall = NoOp THEN current ELSE waitCall
       ELSE pc' = "register" /\ UNCHANGED <<current, deferred, waitCall>>
    /\ UNCHANGED <<way, written, settled, response, final, shown, issuedAt, published, inbox, jobs,
                   storing, observe, hadSync, replaying, wakes, faults>>

\* register_engine_operation, and release_operation unless the call is serial
Register ==
    /\ pc = "register"
    /\ job' = [job EXCEPT ![current] = IF way[current] = "serial" THEN "held" ELSE "running"]
    /\ starts' = [starts EXCEPT ![current] = IF way[current] = "serial" THEN @ ELSE @ + 1]
    /\ pc' = "stream" /\ current' = NoOp
    /\ UNCHANGED <<way, store, storing, pending, calls, waitCall, observe, hadSync, deferred, replaying,
                   wakes, faults>>

\* record_provider_turn: the response is complete, and all its items with it.
Respond(isFinal) ==
    /\ pc = "stream"
    /\ response' = [response EXCEPT ![written] = "completed"]
    /\ final' = IF isFinal THEN final \cup {written} ELSE final
    /\ hadSync' = \E o \in pending : job[o] = "held"
    /\ pc' = IF deferred THEN "cleanup" ELSE "post"
    /\ UNCHANGED <<way, written, settled, shown, issuedAt, claim, published, inbox, jobs, current,
                   storing, pending, calls, waitCall, observe, deferred, replaying, wakes, faults>>

-----------------------------------------------------------------------------
(* After the response *)

\* The places of the queued calls in the response
Queued == {i \in DOMAIN calls : job[calls[i]] = "held"}

\* execute_sync_calls: the first queued call of the response is released.
ReleaseSerial ==
    /\ pc = "post"
    /\ \E i \in Queued :
         /\ \A k \in Queued : i <= k
         /\ job' = [job EXCEPT ![calls[i]] = "running"]
         /\ starts' = [starts EXCEPT ![calls[i]] = @ + 1]
         /\ current' = calls[i]
    /\ pc' = "serial"
    /\ UNCHANGED <<way, store, storing, pending, calls, waitCall, observe, hadSync, deferred, replaying,
                   wakes, faults>>

\* persist_settled begins, then ends: what is ready has been published.
Drain ==
    /\ pc = "post" /\ Queued = {}
    /\ Goto("drain")
    /\ UNCHANGED <<way, store, jobs, wakes, faults>>

Drained ==
    /\ pc = "drain" /\ storing = NoOp
    /\ Goto("decide")
    /\ UNCHANGED <<way, store, jobs, wakes, faults>>

\* Wait for a result, complete the round, fail it (MissingFinal) or go on.
Decision ==
    IF waitCall # NoOp THEN IF observe THEN "resume" ELSE "wait"
    ELSE IF written \in final /\ pending # {} /\ ~observe THEN "wait"
    ELSE IF written \in final /\ ~observe /\ ~hadSync THEN "done"
    ELSE IF calls = <<>> /\ pending = {} /\ ~observe THEN "cleanup"
    ELSE "write"

Decide ==
    /\ pc = "decide"
    /\ Goto(Decision)
    /\ UNCHANGED <<way, store, jobs, wakes, faults>>

\* wait_for_resume: a job of the wait has settled, or a yield's deadline passes.
ResumeByJob ==
    /\ pc = "wait" /\ \E o \in pending \cap Scheduled : job[o] = "done"
    /\ Goto("resume")
    /\ UNCHANGED <<way, store, jobs, wakes, faults>>

ResumeByTimeout ==
    /\ pc = "wait" /\ waitCall # NoOp
    /\ Goto("resume")
    /\ UNCHANGED <<way, store, jobs, wakes, faults>>

\* wait_for_resume: a wake whose mail is attached already does not resume.
ResumeByWake(m) ==
    /\ pc = "wait" /\ m \in wakes
    /\ wakes' = wakes \ {m}
    /\ Goto(IF m \in Unread THEN "resume" ELSE "wait")
    /\ UNCHANGED <<way, store, jobs, faults>>

\* persist_wait_result: outputs first, then the wait's own output, then mail.
\* The wait's claim is settled and published like any other.
WaitSettled ==
    /\ pc = "resume" /\ storing = NoOp /\ waitCall \in pending
    /\ claim' = [claim EXCEPT ![waitCall] = "settled"]
    /\ storing' = waitCall
    /\ UNCHANGED <<way, written, settled, response, final, shown, issuedAt, published, inbox, jobs,
                   pc, current, pending, calls, waitCall, observe, hadSync, deferred, replaying, wakes,
                   faults>>

Resumed ==
    /\ pc = "resume" /\ storing = NoOp /\ waitCall \notin pending
    /\ inbox' = Attach
    /\ Goto("write")
    /\ UNCHANGED <<way, written, settled, response, final, shown, issuedAt, claim, published, jobs,
                   wakes, faults>>

-----------------------------------------------------------------------------
(* Failure *)

\* The round fails anywhere: a store error, a hook, cancellation; while the
\* response streams, a transport error as well, and the response is stopped.
Fail ==
    /\ pc \in {"write", "replay", "boundary", "ready", "stream", "claim", "register", "post", "serial",
               "drain", "decide", "wait", "resume"}
    /\ faults < MaxFaults /\ faults' = faults + 1
    /\ response' = IF pc = "stream" THEN [response EXCEPT ![written] = "stopped"] ELSE response
    /\ pc' = "cleanup" /\ storing' = NoOp
    /\ UNCHANGED <<way, written, settled, final, shown, issuedAt, claim, published, inbox, jobs, current,
                   pending, calls, waitCall, observe, hadSync, deferred, replaying, wakes>>

\* retain_provider_tail: a buffered call of a stopped response is retained,
\* claimed and settled as not started.
RetainTail(o) ==
    /\ pc = "cleanup" /\ written > 0
    /\ response[written] = "stopped" /\ pending # {} /\ issuedAt[o] = 0
    /\ issuedAt' = [issuedAt EXCEPT ![o] = written]
    /\ claim' = [claim EXCEPT ![o] = "interrupted"]
    /\ UNCHANGED <<way, written, settled, response, final, shown, published, inbox, jobs, round, wakes,
                   faults>>

\* cancel_pending: a job is cancelled, or its result won; either is retained
\* without publication. A call that never started is interrupted.
CleanCall(o) ==
    /\ pc = "cleanup" /\ o \in pending
    /\ pending' = pending \ {o}
    /\ claim' = [claim EXCEPT ![o] = CASE @ # "pending" -> @
                                       [] @ = "pending" /\ job[o] = "none" -> "interrupted"
                                       [] OTHER -> "settled"]
    /\ job' = [job EXCEPT ![o] = IF @ = "none" THEN @ ELSE "done"]
    /\ UNCHANGED <<way, written, settled, response, final, shown, issuedAt, published, inbox, starts, pc,
                   current, storing, calls, waitCall, observe, hadSync, deferred, replaying, wakes, faults>>

Cleaned ==
    /\ pc = "cleanup" /\ pending = {}
    /\ Enter("idle")
    /\ wakes' = {}
    /\ UNCHANGED <<way, store, jobs, faults>>

EngineStep ==
    \/ Begin \/ SettleHead \/ RecoveryRefused \/ Recover \/ WriteRequest \/ Replayed
    \/ \E o \in Ops : Replay(o) \/ SettleClaim(o) \/ CleanCall(o)
    \/ PublishOutput \/ AdmitMail \/ Issue \/ ClaimCall \/ Register
    \/ ReleaseSerial \/ Drain \/ Drained \/ Decide
    \/ ResumeByJob \/ WaitSettled \/ Resumed \/ Cleaned
    \/ \E m \in Mails : ResumeByWake(m)

EngineNext ==
    \/ EngineStep
    \/ \E m \in Mails : SendMail(m)
    \/ \E o \in Ops : JobDone(o) \/ RetainOutput(o) \/ CallItem(o) \/ RetainTail(o)
    \/ \E isFinal \in BOOLEAN : Respond(isFinal)
    \/ ResumeByTimeout \/ DispatchRefused \/ Fail \/ Crash

\* The engine is a task of the runtime, jobs settle (JobScheduler) and the
\* provider ends a response it streams. A yield may wait without a deadline.
EngineFairness ==
    /\ WF_engineVars(EngineStep)
    /\ WF_engineVars(\E isFinal \in BOOLEAN : Respond(isFinal))
    /\ \A o \in Ops : WF_engineVars(JobDone(o))

EngineSpec == EngineInit /\ [][EngineNext]_engineVars /\ EngineFairness
-----------------------------------------------------------------------------
(* Properties *)

EngineTypeOK ==
    /\ written \in 0..MaxRequests /\ settled \in 0..written
    /\ response \in [Requests -> {"none", "streaming", "completed", "stopped"}]
    /\ final \subseteq Requests
    /\ issuedAt \in [Ops -> 0..MaxRequests]
    /\ claim \in [Ops -> {"none", "pending", "settled", "interrupted"}]
    /\ published \in [Ops -> SUBSET Requests]
    /\ inbox \in [Mails -> {"unsent", "unread", "attached", "delivered"}]
    /\ job \in [Ops -> {"none", "held", "running", "done"}]
    /\ pending \subseteq Ops

\* "A synchronous fallback must finish before another model request": whatever
\* crashes and failures fell in between, no request is issued without the output
\* of every synchronous and serial call of the earlier responses.
SyncCallsShown ==
    \A r \in Requests : response[r] # "none" =>
        \A o \in Ops : way[o] \in {"sync", "serial"} /\ issuedAt[o] \in 1..(r - 1) => o \in shown[r]

\* The output of a call is in the history once, however often the conversation was
\* recovered, and only when its claim is terminal: recovery never meets the
\* conflicts it checks for (MismatchedToolOutput, ClaimRecoveryConflict).
OutputOnce ==
    \A o \in Ops : /\ \A r, s \in published[o] : r = s
                   /\ published[o] # {} => claim[o] \in {"settled", "interrupted"}

\* No call is run twice: a claim that a lost process left pending is interrupted,
\* its work is never started again.
EffectOnce == \A o \in Ops : starts[o] <= 1

\* No mail and no unsettled head is left behind: the engine comes to rest with both
\* dealt with, and a yield rests only while nothing it waits for has come, unless the
\* conversation cannot be recovered or has used the model's requests.
ConversationAdvances ==
    []<>(\/ pc = "idle" /\ Unread = {} /\ written = settled
         \/ pc = "wait" /\ waitCall # NoOp /\ Unread = {} /\ \A o \in pending : job[o] # "running"
         \/ pc = "refused"
         \/ written = MaxRequests)
=============================================================================
