--------------------------- MODULE InferenceGate ---------------------------
(***************************************************************************)
(* The durable inference gate of one embedded actor (store/inference.rs),  *)
(* the request frontier it guards (store/embedded_round.rs), and the       *)
(* actors that drive it: the serial round driver of each incarnation       *)
(* (engine.rs, engine/embedded_round.rs), input admission, journaled       *)
(* Recover commands, binding transfer and host restart.                    *)
(*                                                                         *)
(* Every store call is one SQLite write transaction and so one action.     *)
(* Requests of the actor form a chain, so a request is its position in it, *)
(* 0 standing for "none".                                                  *)
(***************************************************************************)
EXTENDS Naturals

CONSTANTS
    MaxInput,        \* bound on operator inputs, numbered in envelope order
    Recovers,        \* journaled Recover commands
    MaxIncarnation,  \* bound on binding transfers
    MaxRequest,      \* bound on the request chain
    MaxGeneration,   \* bound on block generations
    MaxAttempt       \* bound on issued inference attempts

ASSUME BoundsAssumption ==
    /\ MaxInput \in Nat
    /\ MaxIncarnation \in Nat \ {0}
    /\ MaxRequest \in Nat
    /\ MaxGeneration \in Nat
    /\ MaxAttempt \in Nat

Incarnations == 1..MaxIncarnation
Inputs == 1..MaxInput

\* StreamInterrupted; RequestRejected; HostInterrupted; and one name for the
\* reasons recorded through block_embedded_inference.
Reasons == {"stream", "rejected", "host", "failed"}
Refusals == {"none", "projection", "uncertain", "stale"}
Modes == {"exact", "visible"}

\* At most this many automatic retries between two completed attempts.
RetryLimit == 2

Block == [request : Nat, generation : Nat, reason : Reasons \cup {"none"}, refusal : Refusals]
NoBlock == [request |-> 0, generation |-> 0, reason |-> "none", refusal |-> "none"]

GateStates == {"idle", "auto_retry", "running", "blocked", "recovering"}
Gate == [state : GateStates, inc : Nat, attempt : Nat, block : Block, head : Nat]

Idle == [state |-> "idle", inc |-> 0, attempt |-> 0, block |-> NoBlock, head |-> 0]
Running(i, a) == [state |-> "running", inc |-> i, attempt |-> a, block |-> NoBlock, head |-> 0]
Blocked(b) == [state |-> "blocked", inc |-> 0, attempt |-> 0, block |-> b, head |-> 0]
AutoRetry(i, b, n) == [state |-> "auto_retry", inc |-> i, attempt |-> n, block |-> b, head |-> 0]
Recovering(i, b, h) == [state |-> "recovering", inc |-> i, attempt |-> 0, block |-> b, head |-> h]

VARIABLES
    binding,      \* incarnation the actor is bound to
    settled, tip, \* settled head, and pending head if any else settled head
    interrupted,  \* requests whose provider stream is recorded as interrupted
    escaped,      \* requests with a retained provider item or claim
    uncertain,    \* requests with a claim that has no affirmative cleanup evidence
    final,        \* requests with a recorded final response
    generation, gate, \* the embedded_inference row
    used,         \* embedded_retry_lineage.attempts
    input,        \* delivery state of each input
    bound,        \* attempt each input's continuation intent is bound to
    command, expects, target, \* each Recover: journal state, block, incarnation named
    at, attempt, mine, due, snap, \* each driver: where it stands, its attempt, the
                  \* block it met, the retry it reserved, the selection it runs
    attempts,     \* attempts issued so far
    granted,      \* history: generations a recovery was granted for
    retried       \* history: automatic retries since the last completed attempt

frontierVars == <<settled, tip, interrupted, escaped, uncertain, final>>
gateVars == <<generation, gate, used, granted, retried>>
inputVars == <<input, bound>>
commandVars == <<command, expects, target>>
driverVars == <<at, attempt, mine, due, snap, attempts>>
vars == <<binding, frontierVars, gateVars, inputVars, commandVars, driverVars>>

DriverStates == {"idle", "selected", "write", "inbox", "stream", "completed",
                 "cancelled", "head", "assess", "continue", "reserve",
                 "waiting", "rebegin"}

\* EmbeddedRoundSnapshot
Snapshot == [settled : Nat, tip : Nat, gate : Gate, generation : Nat, first : SUBSET Nat]
NoSnapshot == [settled |-> 0, tip |-> 0, gate |-> Idle, generation |-> 0, first |-> {}]

TypeOK ==
    /\ binding \in Incarnations
    /\ settled \in Nat /\ tip \in Nat
    /\ interrupted \subseteq Nat /\ escaped \subseteq Nat /\ uncertain \subseteq Nat
    /\ final \subseteq Nat
    /\ generation \in Nat /\ gate \in Gate
    /\ used \in Nat
    /\ input \in [Inputs -> {"new", "undelivered", "delivered"}]
    /\ bound \in [Inputs -> Nat]
    /\ command \in [Recovers -> {"none", "queued", "dispatching", "authorized",
                                 "refused", "unconfirmed"}]
    /\ expects \in [Recovers -> Block]
    /\ target \in [Recovers -> Nat]
    /\ at \in [Incarnations -> DriverStates]
    /\ attempt \in [Incarnations -> Nat]
    /\ mine \in [Incarnations -> Block]
    /\ due \in [Incarnations -> Nat]
    /\ snap \in [Incarnations -> Snapshot]
    /\ attempts \in Nat
    /\ granted \subseteq Nat
    /\ retried \in Nat

Init ==
    /\ binding = 1
    /\ settled = 0 /\ tip = 0
    /\ interrupted = {} /\ escaped = {} /\ uncertain = {} /\ final = {}
    /\ generation = 0 /\ gate = Idle
    /\ used = 0
    /\ input = [n \in Inputs |-> "new"]
    /\ bound = [n \in Inputs |-> 0]
    /\ command = [k \in Recovers |-> "none"]
    /\ expects = [k \in Recovers |-> NoBlock]
    /\ target = [k \in Recovers |-> 0]
    /\ at = [i \in Incarnations |-> "idle"]
    /\ attempt = [i \in Incarnations |-> 0]
    /\ mine = [i \in Incarnations |-> NoBlock]
    /\ due = [i \in Incarnations |-> 0]
    /\ snap = [i \in Incarnations |-> NoSnapshot]
    /\ attempts = 0
    /\ granted = {}
    /\ retried = 0

-----------------------------------------------------------------------------
(* Store transactions as functions of the gate row [generation, gate].     *)

Row(g, s) == [generation |-> g, gate |-> s]

HasPending == tip # settled
Unread == {n \in Inputs : input[n] = "undelivered"}

\* The first unread envelope, if there is one.
FirstUnread == {n \in Unread : \A m \in Unread : n <= m}

\* block_tx on a row that initialize has already fenced, for the frontier head
BlockRow(row, reason) ==
    IF /\ row.gate.state = "blocked"
       /\ row.gate.block.request = tip
       /\ row.gate.block.reason = reason
    THEN row
    ELSE Row(row.generation + 1,
             Blocked([request |-> tip, generation |-> row.generation + 1,
                      reason |-> reason, refusal |-> "none"]))

\* Mutant of Current: every live attempt is fenced, the incarnation's own too.
CurrentFencesAll ==
    IF gate.state \in {"running", "recovering", "auto_retry"} /\ tip # 0
    THEN BlockRow(Row(generation, gate), "host")
    ELSE Row(generation, gate)

\* initialize, for the bound incarnation: an attempt, grant or reservation of
\* a predecessor is fenced by a new block.
Current ==
    IF /\ gate.state \in {"running", "recovering", "auto_retry"}
       /\ gate.inc # binding
    THEN IF tip # 0 THEN BlockRow(Row(generation, gate), "host") ELSE Row(generation, Idle)
    ELSE Row(generation, gate)

\* Mutant of Clean: only the head itself is examined.
HeadClean == tip \notin uncertain

\* validate_cleanup: the lineage of the head has no uncertain operation.
Clean == uncertain \cap (1..tip) = {}

Grantable(row, expected) ==
    /\ row.gate.state \in {"blocked", "auto_retry"}
    /\ row.gate.block = expected
    /\ expected.request = tip

\* mark_continuation_refusal
RefuseRow(row, expected, why) ==
    IF /\ row.gate.state \in {"blocked", "auto_retry"}
       /\ row.gate.block = expected
       /\ expected.refusal # why
    THEN Row(row.generation + 1,
             Blocked([request |-> expected.request, generation |-> row.generation + 1,
                      reason |-> expected.reason, refusal |-> why]))
    ELSE row

\* Why grant_tx refuses; projects is what the projection preflight answers.
Refusal(row, expected, projects) ==
    IF ~Grantable(row, expected) THEN "stale"
    ELSE IF ~Clean THEN "uncertain"
    ELSE IF ~projects THEN "projection"
    ELSE "none"

Install(row) == generation' = row.generation /\ gate' = row.gate

InBounds(row) == row.generation <= MaxGeneration

\* Mutant of ExactGrant: the grant is handed out and the gate stays blocked.
ExactGrantUnrecorded(row, expected, projects) ==
    /\ Install(Row(row.generation, Blocked(expected)))
    /\ granted' = IF Refusal(row, expected, projects) = "none"
                  THEN granted \cup {expected.generation} ELSE granted

\* checked_exact_grant: a refusal is marked on the block it refuses.
ExactGrant(row, expected, projects) ==
    LET why == Refusal(row, expected, projects) IN
    IF why = "none"
    THEN /\ Install(Row(row.generation, Recovering(binding, expected, tip)))
         /\ granted' = granted \cup {expected.generation}
    ELSE /\ InBounds(RefuseRow(row, expected, why))
         /\ Install(RefuseRow(row, expected, why))
         /\ UNCHANGED granted

Goto(i, where) == at' = [at EXCEPT ![i] = where]

\* A run ends and its driver can select again.
EndRun(i) == Goto(i, "idle") /\ snap' = [snap EXCEPT ![i] = NoSnapshot]

-----------------------------------------------------------------------------
(* The round driver of incarnation i *)

\* What select_embedded_round reads
Selection(row) ==
    [settled |-> settled, tip |-> tip, gate |-> row.gate,
     generation |-> row.generation, first |-> FirstUnread]

\* EmbeddedRounds::next_round when a round is ready
Select(i) ==
    LET row == Current IN
    /\ at[i] = "idle" /\ i = binding
    /\ \/ row.gate.state = "recovering"
       \/ /\ row.gate.state = "idle"
          /\ Unread # {} \/ (HasPending /\ tip \notin interrupted)
    /\ Install(row)
    /\ snap' = [snap EXCEPT ![i] = Selection(row)]
    /\ Goto(i, "selected")
    /\ UNCHANGED <<binding, frontierVars, used, granted, retried, inputVars,
                   commandVars, attempt, mine, due, attempts>>

\* Reading the state (embedded_inference_state, or next_round when no round is
\* ready) is a write transaction too: it fences a predecessor's attempt.
Observe ==
    /\ InBounds(Current)
    /\ Install(Current)
    /\ UNCHANGED <<binding, frontierVars, used, granted, retried, inputVars,
                   commandVars, driverVars>>

\* Mutant of MayBegin: a grant must resume the settled head.
MayBeginSettled(row) ==
    \/ row.gate.state = "idle"
    \/ row.gate.state = "recovering" /\ row.gate.inc = binding /\ row.gate.head = settled

\* begin_inference: what may start
MayBegin(row) ==
    \/ row.gate.state = "idle"
    \/ /\ row.gate.state = "recovering" /\ row.gate.inc = binding
       /\ row.gate.head = tip /\ Clean

\* begin_inference: the attempt it issues
Begin(i, row) ==
    /\ attempts < MaxAttempt
    /\ attempts' = attempts + 1
    /\ attempt' = [attempt EXCEPT ![i] = attempts + 1]
    /\ Install(Row(row.generation, Running(i, attempts + 1)))
    /\ Goto(i, "write")

\* run_round on the selection: begin_selected_embedded_inference refuses a
\* selection that no longer describes the store.
BeginSelected(i) ==
    LET ready == Selection(Current) = snap[i] /\ MayBegin(Current) IN
    /\ at[i] = "selected" /\ i = binding
    /\ \/ ready /\ Begin(i, Current) /\ UNCHANGED snap
       \/ ~ready /\ EndRun(i) /\ UNCHANGED <<generation, gate, attempt, attempts>>
    /\ UNCHANGED <<binding, frontierVars, used, granted, retried, inputVars,
                   commandVars, mine, due>>

\* The next attempt of the same run, after a granted continuation or retry.
Rebegin(i) ==
    /\ at[i] = "rebegin" /\ i = binding
    /\ \/ MayBegin(Current) /\ Begin(i, Current) /\ UNCHANGED snap
       \/ ~MayBegin(Current) /\ EndRun(i) /\ UNCHANGED <<generation, gate, attempt, attempts>>
    /\ UNCHANGED <<binding, frontierVars, used, granted, retried, inputVars,
                   commandVars, mine, due>>

\* run_loop_inner finds the pending request already answered for good.
ResumeRecorded(i) ==
    /\ at[i] = "write" /\ i = binding
    /\ HasPending /\ tip \in final
    /\ Goto(i, "completed")
    /\ UNCHANGED <<binding, frontierVars, gateVars, inputVars, commandVars,
                   attempt, mine, due, snap, attempts>>

\* write_embedded_request, for the first request of an attempt or after a
\* response that needs another: a child of the pending head, else of the
\* settled one.
WriteRequest(i) ==
    /\ at[i] \in {"write", "stream"} /\ i = binding
    /\ tip < MaxRequest
    /\ tip' = tip + 1
    /\ Goto(i, "inbox")
    /\ UNCHANGED <<binding, settled, interrupted, escaped, uncertain, final,
                   gateVars, inputVars, commandVars, attempt, mine, due, snap, attempts>>

\* append_unread_envelopes, which does not look at the binding
AppendUnread(i) ==
    /\ at[i] = "inbox"
    /\ input' = [n \in Inputs |-> IF n \in Unread THEN "delivered" ELSE input[n]]
    /\ Goto(i, "stream")
    /\ UNCHANGED <<binding, frontierVars, gateVars, bound, commandVars, attempt,
                   mine, due, snap, attempts>>

\* A complete provider item is retained; a tool call also starts its operation.
RetainItem(i) ==
    /\ at[i] = "stream" /\ i = binding
    /\ escaped' = escaped \cup {tip}
    /\ uncertain' \in {uncertain, uncertain \cup {tip}}
    /\ UNCHANGED <<binding, settled, tip, interrupted, final, gateVars, inputVars,
                   commandVars, driverVars>>

\* An operation settles, or its cancellation is confirmed, whenever that is.
OperationTerminal(r) ==
    /\ r \in uncertain
    /\ uncertain' = uncertain \ {r}
    /\ UNCHANGED <<binding, settled, tip, interrupted, escaped, final, gateVars,
                   inputVars, commandVars, driverVars>>

\* The round ends with a final answer, or is cancelled (also before a request
\* is written), or fails without recording anything: the attempt then stays
\* unsettled until a successor host fences it.
EndRound(i) ==
    /\ at[i] \in {"write", "inbox", "stream"} /\ i = binding
    /\ \/ /\ at[i] = "stream"
          /\ Goto(i, "completed") /\ final' = final \cup {tip} /\ UNCHANGED snap
       \/ Goto(i, "cancelled") /\ UNCHANGED <<final, snap>>
       \/ EndRun(i) /\ UNCHANGED final
    /\ UNCHANGED <<binding, settled, tip, interrupted, escaped, uncertain,
                   gateVars, inputVars, commandVars, attempt, mine, due, attempts>>

\* A failure blocks the gate and the driver keeps the block it was given.
BlockRun(i, reason) ==
    LET row == BlockRow(Current, reason) IN
    /\ InBounds(row)
    /\ Install(row)
    /\ mine' = [mine EXCEPT ![i] = row.gate.block]
    /\ Goto(i, "assess")

\* record_interrupted_model_request
StreamInterrupted(i) ==
    /\ at[i] = "stream" /\ i = binding
    /\ interrupted' = interrupted \cup {tip}
    /\ BlockRun(i, "stream")
    /\ UNCHANGED <<binding, settled, tip, escaped, uncertain, final, used, granted,
                   retried, inputVars, commandVars, attempt, due, snap, attempts>>

\* record_failed_model_request: the request was refused before any item of a
\* response; the head settles and the gate blocks at once
RequestRejected(i) ==
    /\ at[i] = "stream" /\ i = binding /\ tip \notin escaped
    /\ settled' = tip
    /\ BlockRun(i, "rejected")
    /\ UNCHANGED <<binding, tip, interrupted, escaped, uncertain, final, used,
                   granted, retried, inputVars, commandVars, attempt, due, snap, attempts>>

\* block_embedded_inference validates cleanup first; when it refuses, the
\* attempt stays unsettled and the run ends.
StreamFailed(i) ==
    /\ at[i] \in {"write", "stream"} /\ i = binding /\ tip # 0
    /\ \/ Clean /\ BlockRun(i, "failed") /\ UNCHANGED snap
       \/ ~Clean /\ EndRun(i) /\ UNCHANGED <<generation, gate, mine>>
    /\ UNCHANGED <<binding, frontierVars, used, granted, retried, inputVars,
                   commandVars, attempt, due, attempts>>

\* expire_intents: intents bound to attempt a no longer grant anything
Expire(a) == bound' = [n \in Inputs |-> IF bound[n] = a THEN 0 ELSE bound[n]]

Owns(row, i) ==
    row.gate.state = "running" /\ row.gate.inc = i /\ row.gate.attempt = attempt[i]

\* settle_inference_attempt of a completed or cancelled round whose cleanup is
\* released: finish_embedded_inference.  With cleanup outstanding the attempt
\* stays unsettled.
FinishAttempt(i) ==
    /\ at[i] \in {"completed", "cancelled"} /\ i = binding
    /\ \/ /\ Owns(Current, i)
          /\ Install(Row(generation, Idle))
          /\ Expire(attempt[i])
          /\ IF at[i] = "completed" THEN used' = 0 /\ retried' = 0
                                    ELSE UNCHANGED <<used, retried>>
       \/ UNCHANGED <<generation, gate, bound, used, retried>>
    /\ Goto(i, "head")
    /\ UNCHANGED <<binding, frontierVars, granted, input, commandVars, attempt,
                   mine, due, snap, attempts>>

\* EmbeddedRounds::finish of a completed or cancelled round: settle_tx compares
\* the settled head with the one the round was selected on.
SettleHead(i) ==
    /\ at[i] = "head" /\ i = binding
    /\ settled' = IF settled = snap[i].settled THEN tip ELSE settled
    /\ EndRun(i)
    /\ UNCHANGED <<binding, tip, interrupted, escaped, uncertain, final, gateVars,
                   inputVars, commandVars, attempt, mine, due, attempts>>

\* After a recorded failure the run goes on when its cleanup and persistence
\* obligations are confirmed and no cancellation was requested.
AssessRound(i) ==
    /\ at[i] = "assess" /\ i = binding
    /\ \/ Goto(i, "continue") /\ UNCHANGED snap
       \/ EndRun(i)
    /\ UNCHANGED <<binding, frontierVars, gateVars, inputVars, commandVars,
                   attempt, mine, due, attempts>>

\* continue_queued_input: input admitted during this attempt and still unread
\* resumes the block; its intents expire either way.
ContinueQueuedInput(i) ==
    LET eligible == \E n \in Unread : bound[n] = attempt[i]
        resumes  == eligible /\ Current.gate.state = "blocked" IN
    /\ at[i] = "continue" /\ i = binding
    /\ Expire(attempt[i])
    /\ \/ /\ resumes
          /\ \E projects \in BOOLEAN :
                /\ ExactGrant(Current, Current.gate.block, projects)
                /\ Goto(i, IF Refusal(Current, Current.gate.block, projects) = "none"
                           THEN "rebegin" ELSE "reserve")
       \/ ~resumes /\ Goto(i, "reserve") /\ UNCHANGED <<generation, gate, granted>>
    /\ UNCHANGED <<binding, frontierVars, used, retried, input, commandVars,
                   attempt, mine, due, snap, attempts>>

\* Mutant of MayRetry: one retry too many.
MayRetryOnceMore(row, expected) ==
    /\ row.gate.state = "blocked" /\ row.gate.block = expected
    /\ expected.reason = "stream" /\ expected.refusal = "none"
    /\ expected.request \notin escaped /\ expected.request \in interrupted
    /\ Clean
    /\ used <= RetryLimit

\* What reserve_automatic_retry requires of the block the run met
MayRetry(row, expected) ==
    /\ row.gate.state = "blocked" /\ row.gate.block = expected
    /\ expected.reason = "stream" /\ expected.refusal = "none"
    /\ expected.request \notin escaped /\ expected.request \in interrupted
    /\ Clean
    /\ used < RetryLimit

\* reserve_automatic_retry: the reservation is durable before any wait
ReserveRetry(i) ==
    /\ at[i] = "reserve" /\ i = binding
    /\ \/ /\ MayRetry(Current, mine[i])
          /\ Install(Row(Current.generation, AutoRetry(i, mine[i], used + 1)))
          /\ used' = used + 1
          /\ retried' = retried + 1
          /\ due' = [due EXCEPT ![i] = used + 1]
          /\ Goto(i, "waiting")
          /\ UNCHANGED snap
       \/ /\ MayRetry(Current, mine[i])
          /\ InBounds(RefuseRow(Current, mine[i], "projection"))
          /\ Install(RefuseRow(Current, mine[i], "projection"))
          /\ EndRun(i)
          /\ UNCHANGED <<used, retried, due>>
       \/ /\ ~MayRetry(Current, mine[i])
          /\ EndRun(i)
          /\ UNCHANGED <<generation, gate, used, retried, due>>
    /\ UNCHANGED <<binding, frontierVars, granted, inputVars, commandVars,
                   attempt, mine, attempts>>

Reserved(row, i) ==
    /\ row.gate.state = "auto_retry"
    /\ row.gate.block = mine[i] /\ row.gate.attempt = due[i]
Resumed(row, i) ==
    row.gate.state = "recovering" /\ row.gate.inc = i /\ row.gate.block = mine[i]

\* The delay elapsed: activate_automatic_retry.  Input admitted meanwhile may
\* already have granted the same block.
ActivateRetry(i) ==
    /\ at[i] = "waiting" /\ i = binding
    /\ \/ /\ Reserved(Current, i)
          /\ \E projects \in BOOLEAN :
                /\ ExactGrant(Current, mine[i], projects)
                /\ IF Refusal(Current, mine[i], projects) = "none"
                   THEN Goto(i, "rebegin") /\ UNCHANGED snap
                   ELSE EndRun(i)
       \/ /\ Resumed(Current, i)
          /\ Goto(i, "rebegin")
          /\ UNCHANGED <<generation, gate, granted, snap>>
       \/ /\ ~Reserved(Current, i) /\ ~Resumed(Current, i)
          /\ EndRun(i)
          /\ UNCHANGED <<generation, gate, granted>>
    /\ UNCHANGED <<binding, frontierVars, used, retried, inputVars, commandVars,
                   attempt, mine, due, attempts>>

\* Stop during the delay: cancel_automatic_retry
CancelRetry(i) ==
    /\ at[i] = "waiting" /\ i = binding
    /\ IF (Reserved(Current, i) \/ Resumed(Current, i)) /\ mine[i].request = tip
       THEN InBounds(BlockRow(Current, "host")) /\ Install(BlockRow(Current, "host"))
       ELSE UNCHANGED <<generation, gate>>
    /\ EndRun(i)
    /\ UNCHANGED <<binding, frontierVars, used, granted, retried, inputVars,
                   commandVars, attempt, mine, due, attempts>>

\* A driver whose binding was transferred away: its next fenced store call
\* fails with InvalidEmbeddedBinding and the run ends.
Fenced(i) ==
    /\ at[i] # "idle" /\ i # binding
    /\ EndRun(i)
    /\ UNCHANGED <<binding, frontierVars, gateVars, inputVars, commandVars,
                   attempt, mine, due, attempts>>

-----------------------------------------------------------------------------
(* Inputs, commands, transfer and restart *)

\* admit_embedded_input_tx and admit_input_continuation_tx, one transaction:
\* input resumes a block, or is bound to the running attempt, or just queues.
AdmitInput(n) ==
    LET row == Current IN
    /\ input[n] = "new" /\ \A m \in 1..(n - 1) : input[m] # "new"
    /\ input' = [input EXCEPT ![n] = "undelivered"]
    /\ \/ /\ row.gate.state \in {"blocked", "auto_retry"}
          /\ \E projects \in BOOLEAN : ExactGrant(row, row.gate.block, projects)
          /\ UNCHANGED bound
       \/ /\ row.gate.state \notin {"blocked", "auto_retry"}
          /\ Install(row)
          /\ bound' = [bound EXCEPT ![n] =
                         IF row.gate.state = "running" THEN row.gate.attempt ELSE 0]
          /\ UNCHANGED granted
    /\ UNCHANGED <<binding, frontierVars, used, retried, commandVars, driverVars>>

\* enqueue_embedded_command: the operator answers a block it was shown
EnqueueRecover(k) ==
    /\ command[k] = "none"
    /\ gate.state \in {"blocked", "auto_retry"}
    /\ command' = [command EXCEPT ![k] = "queued"]
    /\ expects' = [expects EXCEPT ![k] = gate.block]
    /\ target' = [target EXCEPT ![k] = binding]
    /\ UNCHANGED <<binding, frontierVars, gateVars, inputVars, driverVars>>

\* claim_embedded_command
ClaimRecover(k) ==
    /\ command[k] = "queued"
    /\ command' = [command EXCEPT ![k] = "dispatching"]
    /\ UNCHANGED <<binding, frontierVars, gateVars, inputVars, expects, target,
                   driverVars>>

\* authorize_embedded_recovery: grant, projection and receipt commit together
AuthorizeRecover(k) ==
    LET row == Current
        b   == expects[k] IN
    /\ command[k] = "dispatching"
    /\ \E mode \in Modes, projects \in BOOLEAN :
          LET why == IF target[k] # binding \/ row.gate.state # "blocked" THEN "stale"
                     ELSE Refusal(row, b, projects) IN
          \/ /\ why = "none"
             /\ mode = "visible" => tip < MaxRequest
             /\ tip' = IF mode = "visible" THEN tip + 1 ELSE tip
             /\ Install(Row(row.generation, Recovering(binding, b, tip')))
             /\ granted' = granted \cup {b.generation}
             /\ command' = [command EXCEPT ![k] = "authorized"]
          \/ /\ why # "none"
             /\ LET refused == IF why = "stale" THEN Row(generation, gate)
                               ELSE RefuseRow(row, b, why) IN
                InBounds(refused) /\ Install(refused)
             /\ command' = [command EXCEPT ![k] = "refused"]
             /\ UNCHANGED <<tip, granted>>
    /\ UNCHANGED <<binding, settled, interrupted, escaped, uncertain, final, used,
                   retried, inputVars, expects, target, driverVars>>

\* transfer_embedded_binding: compare-and-swap to the successor incarnation;
\* the predecessor's driver may still be running.
Transfer ==
    /\ binding < MaxIncarnation
    /\ binding' = binding + 1
    /\ UNCHANGED <<frontierVars, gateVars, inputVars, commandVars, driverVars>>

\* The host process dies; its successor runs
\* recover_embedded_inference_after_host_loss and recover_embedded_command_claims.
HostRestart ==
    LET row == Current
        live == row.gate.state \in {"running", "recovering", "auto_retry"}
                \/ (row.gate.state = "idle" /\ HasPending)
        next == IF ~live THEN row
                ELSE IF tip # 0 THEN BlockRow(row, "host") ELSE Row(row.generation, Idle) IN
    /\ InBounds(next)
    /\ Install(next)
    /\ command' = [k \in Recovers |-> IF command[k] = "dispatching" THEN "unconfirmed"
                                      ELSE command[k]]
    /\ at' = [i \in Incarnations |-> "idle"]
    /\ snap' = [i \in Incarnations |-> NoSnapshot]
    /\ UNCHANGED <<binding, frontierVars, used, granted, retried, inputVars,
                   expects, target, attempt, mine, due, attempts>>

-----------------------------------------------------------------------------
Drive(i) ==
    \/ Select(i) \/ BeginSelected(i) \/ Rebegin(i) \/ ResumeRecorded(i)
    \/ WriteRequest(i) \/ AppendUnread(i) \/ RetainItem(i) \/ EndRound(i)
    \/ StreamInterrupted(i) \/ RequestRejected(i) \/ StreamFailed(i)
    \/ FinishAttempt(i) \/ SettleHead(i) \/ AssessRound(i)
    \/ ContinueQueuedInput(i) \/ ReserveRetry(i) \/ ActivateRetry(i)
    \/ CancelRetry(i) \/ Fenced(i)

Next ==
    \/ \E i \in Incarnations : Drive(i)
    \/ Observe
    \/ \E r \in 1..MaxRequest : OperationTerminal(r)
    \/ \E n \in Inputs : AdmitInput(n)
    \/ \E k \in Recovers : EnqueueRecover(k) \/ ClaimRecover(k) \/ AuthorizeRecover(k)
    \/ Transfer
    \/ HostRestart

Spec == Init /\ [][Next]_vars

-----------------------------------------------------------------------------
(* Safety *)

\* A block that can still be granted was never granted before, whichever of
\* input, automatic retry and Recover command came first and across restarts
\* and transfers: begin_inference runs at most once per block generation.
OpenBlockUngranted ==
    gate.state \in {"blocked", "auto_retry"} =>
        gate.block.generation = generation /\ generation \notin granted

\* A block, reservation or grant always speaks of the current frontier head, so
\* grant_tx and begin_inference never refuse it for its own staleness.
GateAtHead ==
    /\ gate.state \in {"blocked", "auto_retry"} => gate.block.request = tip
    /\ gate.state = "recovering" => gate.head = tip

\* The driver that is writing or streaming holds the gate with its own attempt:
\* no grant, restart or transfer lets a second attempt run beside it.
StreamingHoldsGate ==
    at[binding] \in {"write", "inbox", "stream"} =>
        gate = Running(binding, attempt[binding])

\* A grant outstanding is a grant over a lineage without uncertain effects:
\* nothing can start between validate_cleanup and begin_inference.
GrantedLineageClean ==
    gate.state = "recovering" => uncertain \cap (1..tip) = {}

\* The retry budget survives restarts, transfers, stops and manual continuation:
\* never more than two automatic retries between completed attempts.
RetryBudget == retried <= RetryLimit

\* A round that completed or was cancelled commits its head: when the driver
\* calls settle_tx, the settled head is still the one its round was selected on.
RoundCommitsHead ==
    at[binding] = "head" /\ HasPending => settled = snap[binding].settled

(* Action properties *)

\* Generations never go back, and no generation ever names two blocks: an
\* operator's expected_block identifies one block for ever.
BlockIdentity ==
    [][/\ generation' >= generation
       /\ (gate'.block # gate.block /\ gate'.block # NoBlock)
             => gate'.block.generation > generation]_vars

\* Input admission leaves a rejected request's block as it is.
RejectionKeptByInput ==
    [][(gate.state = "blocked" /\ gate.block.reason = "rejected"
          /\ input' # input /\ \E n \in Inputs : input[n] = "new" /\ input'[n] # "new")
       => gate' = gate]_vars

(* Liveness *)

\* The embedding's loop keeps calling next_round, and a run in progress goes on:
\* weak fairness of each driver and of the observation next_round begins with.
FairSpec == Spec /\ WF_vars(Observe) /\ \A i \in Incarnations : WF_vars(Drive(i))

\* The bounds on attempts and generations are the model's, not the code's.
AtBound == attempts = MaxAttempt \/ generation = MaxGeneration

\* The gate is not left waiting for a driver: a granted recovery is used or
\* fenced, and a scheduled retry is activated, cancelled or fenced, also when the
\* driver that scheduled it was transferred away or died.
WaitResolved == []<>(gate.state \notin {"recovering", "auto_retry"} \/ AtBound)
=============================================================================
