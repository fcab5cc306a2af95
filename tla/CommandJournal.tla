--------------------------- MODULE CommandJournal ---------------------------
(***************************************************************************)
(* An operator's command from the browser's ledger to its receipt.         *)
(*   - The browser retains the command under an operation id in session    *)
(*     storage, sends it, may send the same id again, and collects evidence *)
(*     about it from status reads and receipts that arrive in any order    *)
(*     (web/src/pending-commands.ts, command-lookups.ts, Operator.tsx).    *)
(*   - The server journals it before accepting it (server.rs).             *)
(*   - The host's command loop, which is outside the repository and may    *)
(*     run several tasks, lists queued rows, claims one, performs it and   *)
(*     settles it through the store (store/embedded_commands.rs,           *)
(*     account_selection.rs, embedded.rs, inference.rs; embedding.rs).     *)
(*   - A COMMIT whose outcome is unknown fences the store until it is      *)
(*     reopened, and the process may be lost at any step (store/mod.rs).   *)
(* Several host tasks, the network and the browser interleave freely.      *)
(***************************************************************************)
EXTENDS Integers, FiniteSets, Extremes

CONSTANTS Ops,          \* operation ids
          Worlds,       \* the kind of each command, and how many explicit retries (sends),
                        \* process losses and unknown COMMITs (faults), connection losses,
                        \* reloads and refused ledger writes (drops) may happen
          Tasks,        \* tasks of the host's command loop
          KeepSettled,  \* settled records the browser keeps (128 in the code)
          NoCommand     \* an idle task's operation

Kinds == {"input", "control", "recover", "select"}

ASSUME CommandAssumption ==
    /\ \A w \in Worlds : /\ w.kind \in [Ops -> Kinds \cup {"unused"}]
                         /\ {w.sends, w.faults, w.drops} \subseteq Nat
    /\ NoCommand \notin Ops
    /\ KeepSettled \in Nat

VARIABLES
    kind,       \* the command each operation id stands for
    row,        \* durable embedded_commands state of each operation, or "absent"
    wakeError,  \* operations whose durable receipt carries a wake error
    effect,     \* how often each command took effect
    seen,       \* the state the open connection shows, equal to row unless a COMMIT failed
    fenced,     \* recovery_required
    up,         \* the host process runs
    task,       \* what each host task is doing: [at, op, outcome]
    receipts,   \* receipts the running process has published: operation -> [state, wake]
    mem, disk,  \* the browser's ledger, a set of records: in memory and in session storage
    online,     \* the socket is open and a snapshot was received
    net,        \* submissions on their way to the server
    reads,      \* status answers on their way to the browser
    forced,     \* operations whose next status read is forced
    sends, faults, drops    \* how many of each are left

journal == <<row, wakeError, effect, seen, fenced>>
host == <<up, task, receipts>>
browser == <<mem, disk, online, net, reads, forced>>
counters == <<sends, faults, drops>>
commandVars == <<kind, journal, host, browser, counters>>

Settled == {"input_admitted", "control_requested", "recovery_authorized",
            "account_selected", "refused"}
Final == Settled \cup {"unconfirmed"}
States == {"absent", "queued", "dispatching"} \cup Final
Idle == [at |-> "idle", op |-> NoCommand, outcome |-> "none"]

-----------------------------------------------------------------------------
(* The browser's evidence.                                                 *)

Records == [op : Ops, authority : {"local", "status", "receipt"},
            state : States \ {"absent"}, wake : BOOLEAN, issue : BOOLEAN,
            age : Nat]  \* its place in the ledger's array

isSettledCommand(r) == r.authority \in {"status", "receipt"} /\ r.state \in Settled

needsCommandLookup(r) == \/ r.authority = "local"
                         \/ r.state \in {"queued", "dispatching", "input_admitted"}

\* The state that reports success for each kind of command.
Success(k) == CASE k = "input" -> "input_admitted"
                [] k = "control" -> "control_requested"
                [] k = "recover" -> "recovery_authorized"
                [] k = "select" -> "account_selected"

StaleTrusted(r, state) == FALSE

\* A later and weaker report than the one the record already holds.
Stale(r, state) == \/ /\ r.authority \in {"status", "receipt"}
                      /\ \/ r.state = "dispatching" /\ state = "queued"
                         \/ r.state = "unconfirmed" /\ state \in {"queued", "dispatching"}
                   \/ isSettledCommand(r) /\ state \notin Settled

mergeEvidence(r, state, authority, wake) ==
    IF state \in Settled \ {"refused", Success(kind[r.op])} THEN [r EXCEPT !.issue = TRUE]
    ELSE IF Stale(r, state) THEN r
    ELSE IF isSettledCommand(r) /\ r.state # state THEN [r EXCEPT !.issue = TRUE]
    ELSE [r EXCEPT !.state = state, !.authority = authority, !.wake = @ \/ wake]

Observe(records, o, state, authority, wake) ==
    {IF r.op = o THEN mergeEvidence(r, state, authority, wake) ELSE r : r \in records}

OpsOf(records) == {r.op : r \in records}

\* retainCommand: a new record is the last of the array.
retainCommand(records, o) ==
    records \cup {[op |-> o, authority |-> "local", state |-> "queued", wake |-> FALSE,
                   issue |-> FALSE, age |-> 1 + Highest({0} \cup {r.age : r \in records})]}

\* The oldest settled records beyond the limit are discarded.
compact(records) ==
    LET settled == {r \in records : isSettledCommand(r)}
    IN  {r \in records : r \in settled =>
                            Cardinality({s \in settled : s.age > r.age}) < KeepSettled}

writePendingCommands(records) ==
    compact({r \in disk : r.op \notin OpsOf(records)} \cup records)

\* A write of the ledger that session storage may refuse.
updatePending(records) ==
    \/ /\ disk' = writePendingCommands(records)
       /\ mem' = disk'
       /\ UNCHANGED drops
    \/ /\ drops > 0
       /\ drops' = drops - 1
       /\ mem' = records
       /\ UNCHANGED disk

-----------------------------------------------------------------------------
(* The store: a transaction, its COMMIT, and the fence.                    *)

Write(o, state, times, wake) ==
    /\ row' = [row EXCEPT ![o] = state]
    /\ effect' = [effect EXCEPT ![o] = @ + times]
    /\ wakeError' = IF wake THEN wakeError \cup {o} ELSE wakeError

\* COMMIT succeeded: the write is durable and visible.
Commit(o, state, times, wake) ==
    /\ ~fenced
    /\ Write(o, state, times, wake)
    /\ seen' = [seen EXCEPT ![o] = state]
    /\ UNCHANGED <<fenced, faults>>

\* COMMIT failed: the write may be durable or not, whatever the connection shows.
complete_transaction(o, state, times, wake) ==
    /\ ~fenced /\ faults > 0
    /\ Write(o, state, times, wake) \/ UNCHANGED <<row, effect, wakeError>>
    /\ seen' \in {seen, [seen EXCEPT ![o] = state]}
    /\ fenced' = TRUE
    /\ faults' = faults - 1

-----------------------------------------------------------------------------
(* The browser sends a command, again if the operator asks for it.         *)

\* The command is retained in session storage before it is put on the wire.
Submit(o) ==
    /\ online /\ kind[o] # "unused" /\ o \notin OpsOf(mem) /\ o \notin OpsOf(disk)
    /\ row[o] = "absent"            \* a fresh operation id
    /\ disk' = writePendingCommands(retainCommand(mem, o))
    /\ mem' = disk'
    /\ net' \in {net, net \cup {o}}
    /\ UNCHANGED <<kind, journal, host, online, reads, forced, counters>>

retryHostCommand(o) ==
    /\ online /\ o \in OpsOf(mem) /\ sends > 0
    /\ disk' = writePendingCommands(mem)
    /\ mem' = disk'
    /\ net' = net \cup {o}
    /\ forced' = forced \cup {o}
    /\ sends' = sends - 1
    /\ UNCHANGED <<kind, journal, host, online, reads, faults, drops>>

\* The server journals a submission; the same id again changes nothing.
Receive(o) ==
    /\ up /\ o \in net
    /\ net' = net \ {o}
    /\ \/ /\ seen[o] = "absent"
          /\ \/ Commit(o, "queued", 0, FALSE) /\ forced' = forced \cup {o}
             \/ complete_transaction(o, "queued", 0, FALSE) /\ UNCHANGED forced
       \/ /\ seen[o] # "absent" /\ ~fenced
          /\ forced' = forced \cup {o}
          /\ UNCHANGED <<journal, faults>>
       \/ /\ fenced
          /\ UNCHANGED <<journal, forced, faults>>
    /\ UNCHANGED <<kind, host, mem, disk, online, reads, sends, drops>>

-----------------------------------------------------------------------------
(* A task of the host's command loop.                                      *)

Goto(t, at, o, outcome) == task' = [task EXCEPT ![t] = [at |-> at, op |-> o, outcome |-> outcome]]

\* Queued rows are listed at startup, after a wake and periodically.
queued_embedded_commands(t, o) ==
    /\ up /\ ~fenced /\ task[t] = Idle /\ seen[o] = "queued"
    /\ Goto(t, "claim", o, "none")
    /\ UNCHANGED <<kind, journal, up, receipts, browser, counters>>

ClaimListed(t) ==
    LET o == task[t].op IN
    /\ task[t].at = "claim"
    /\ \/ Commit(o, "dispatching", 0, FALSE) /\ Goto(t, "run", o, "none")
       \/ fenced /\ Goto(t, "idle", NoCommand, "none") /\ UNCHANGED <<journal, faults>>
    /\ UNCHANGED <<kind, up, receipts, browser, sends, drops>>

claim_embedded_command(t) ==
    LET o == task[t].op IN
    /\ task[t].at = "claim"
    /\ \/ /\ seen[o] = "queued"
          /\ \/ Commit(o, "dispatching", 0, FALSE) /\ Goto(t, "run", o, "none")
             \/ complete_transaction(o, "dispatching", 0, FALSE) /\ Goto(t, "idle", NoCommand, "none")
       \/ /\ fenced \/ seen[o] # "queued"
          /\ Goto(t, "idle", NoCommand, "none")
          /\ UNCHANGED <<journal, faults>>
    /\ UNCHANGED <<kind, up, receipts, browser, sends, drops>>

\* Input, recovery and account selection: effect and receipt in one transaction.
Perform(t) ==
    LET o == task[t].op
        done == Success(kind[o]) IN
    /\ task[t].at = "run" /\ kind[o] \in {"input", "recover", "select"}
    /\ \/ /\ seen[o] = "dispatching"
          /\ \/ /\ Commit(o, done, 1, FALSE)
                /\ Goto(t, IF kind[o] = "input" THEN "wake" ELSE "publish", o, done)
             \/ /\ complete_transaction(o, done, 1, FALSE)
                /\ Goto(t, "settle", o, "refused")
             \/ /\ kind[o] # "input"
                /\ Commit(o, "refused", 0, FALSE)
                /\ Goto(t, "publish", o, "refused")
       \/ /\ Goto(t, "settle", o, "refused")       \* host.admit() or the store refuses
          /\ UNCHANGED <<journal, faults>>
    /\ UNCHANGED <<kind, up, receipts, browser, sends, drops>>

\* The wake after an admitted input is a hint; its failure is added to the receipt.
Wake(t) ==
    LET o == task[t].op IN
    /\ task[t].at = "wake"
    /\ \/ Goto(t, "publish", o, "input_admitted") /\ UNCHANGED <<journal, faults>>
       \/ Commit(o, "input_admitted", 0, TRUE) /\ Goto(t, "publish", o, "input_admitted")
       \/ complete_transaction(o, "input_admitted", 0, TRUE) /\ Goto(t, "idle", NoCommand, "none")
       \/ fenced /\ Goto(t, "idle", NoCommand, "none") /\ UNCHANGED <<journal, faults>>
    /\ UNCHANGED <<kind, up, receipts, browser, sends, drops>>

\* Interrupt and retire: the host acts, then the outcome is settled.
Control(t) ==
    LET o == task[t].op IN
    /\ task[t].at = "run" /\ kind[o] = "control"
    /\ \E outcome \in {"control_requested", "refused", "unconfirmed"}, times \in 0..1 :
          /\ outcome = "control_requested" => times = 1
          /\ outcome = "refused" => times = 0
          /\ effect' = [effect EXCEPT ![o] = @ + times]
          /\ Goto(t, "settle", o, outcome)
    /\ UNCHANGED <<kind, row, wakeError, seen, fenced, up, receipts, browser, counters>>

settle_embedded_command(t) ==
    LET o == task[t].op
        outcome == task[t].outcome IN
    /\ task[t].at = "settle"
    /\ \/ /\ seen[o] = "dispatching"
          /\ \/ Commit(o, outcome, 0, FALSE) /\ Goto(t, "publish", o, outcome)
             \/ complete_transaction(o, outcome, 0, FALSE) /\ Goto(t, "idle", NoCommand, "none")
       \/ /\ fenced \/ seen[o] # "dispatching"
          /\ Goto(t, "idle", NoCommand, "none")
          /\ UNCHANGED <<journal, faults>>
    /\ UNCHANGED <<kind, up, receipts, browser, sends, drops>>

SendReceipt(t) ==
    LET o == task[t].op IN
    /\ task[t].at = "publish"
    /\ receipts' = [receipts EXCEPT ![o] = [state |-> task[t].outcome, wake |-> o \in wakeError]]
    /\ Goto(t, "idle", NoCommand, "none")
    /\ UNCHANGED <<kind, journal, up, browser, counters>>

NoReceipt == [state |-> "absent", wake |-> FALSE]
NoRead == [state |-> "none", wake |-> FALSE]

\* The process ends: lost, or stopped because its store is fenced.
HostLost ==
    /\ up
    /\ IF fenced THEN UNCHANGED faults ELSE faults > 0 /\ faults' = faults - 1
    /\ up' = FALSE
    /\ task' = [t \in Tasks |-> Idle]
    /\ receipts' = [o \in Ops |-> NoReceipt]
    /\ online' = FALSE
    /\ net' = {}
    /\ reads' = [o \in Ops |-> NoRead]
    /\ UNCHANGED <<kind, journal, mem, disk, forced, sends, drops>>

ReopenOnly ==
    /\ ~up
    /\ seen' = row
    /\ fenced' = FALSE
    /\ up' = TRUE
    /\ UNCHANGED <<kind, row, wakeError, effect, task, receipts, browser, counters>>

\* The next owner reopens the store and reports claims nobody can answer for.
recover_embedded_command_claims ==
    /\ ~up
    /\ row' = [o \in Ops |-> IF row[o] = "dispatching" THEN "unconfirmed" ELSE row[o]]
    /\ seen' = row'
    /\ fenced' = FALSE
    /\ up' = TRUE
    /\ UNCHANGED <<kind, wakeError, effect, task, receipts, browser, counters>>

-----------------------------------------------------------------------------
(* The browser learns what became of a command.                            *)

\* A connection becomes ready; retained unconfirmed evidence is rechecked once.
Connect ==
    /\ up /\ ~online
    /\ online' = TRUE
    /\ forced' = OpsOf({r \in mem : r.state = "unconfirmed"})
    /\ UNCHANGED <<kind, journal, host, mem, disk, net, reads, counters>>

\* A status read is answered from the store; the answer is now on its way.
Lookup(o) ==
    /\ online /\ up /\ ~fenced
    /\ reads[o] = NoRead
    /\ \E r \in mem : r.op = o /\ (needsCommandLookup(r) \/ o \in forced)
    /\ reads' = [reads EXCEPT ![o] = [state |-> seen[o], wake |-> o \in wakeError]]
    /\ forced' = forced \ {o}
    /\ UNCHANGED <<kind, journal, host, mem, disk, online, net, counters>>

applyCommandStatus(o) ==
    /\ online /\ reads[o] # NoRead
    /\ reads' = [reads EXCEPT ![o] = NoRead]
    /\ IF reads[o].state = "absent"             \* HTTP 404
       THEN updatePending(mem)
       ELSE updatePending(Observe(mem, o, reads[o].state, "status", reads[o].wake))
    /\ UNCHANGED <<kind, journal, host, online, net, forced, sends, faults>>

applyCommandReceipt(o) ==
    /\ online /\ receipts[o] # NoReceipt
    /\ updatePending(Observe(mem, o, receipts[o].state, "receipt", receipts[o].wake))
    /\ UNCHANGED <<kind, journal, host, online, net, reads, forced, sends, faults>>

\* The connection is lost; reads of its generation are abandoned.
Offline ==
    /\ online /\ drops > 0
    /\ drops' = drops - 1
    /\ online' = FALSE
    /\ net' = {}
    /\ reads' = [o \in Ops |-> NoRead]
    /\ UNCHANGED <<kind, journal, host, mem, disk, forced, sends, faults>>

\* The page is reloaded: what session storage holds is all that is left.
Reload ==
    /\ drops > 0
    /\ drops' = drops - 1
    /\ mem' = disk
    /\ online' = FALSE
    /\ net' = {}
    /\ reads' = [o \in Ops |-> NoRead]
    /\ forced' = {}
    /\ UNCHANGED <<kind, journal, host, disk, sends, faults>>

-----------------------------------------------------------------------------
CommandInit ==
    /\ \E w \in Worlds : /\ kind = w.kind
                         /\ sends = w.sends /\ faults = w.faults /\ drops = w.drops
    /\ row = [o \in Ops |-> "absent"] /\ seen = row
    /\ effect = [o \in Ops |-> 0]
    /\ wakeError = {} /\ fenced = FALSE
    /\ up = TRUE /\ task = [t \in Tasks |-> Idle]
    /\ receipts = [o \in Ops |-> NoReceipt]
    /\ mem = {} /\ disk = {}
    /\ online = TRUE /\ net = {} /\ forced = {}
    /\ reads = [o \in Ops |-> NoRead]

HostStep(t) == \/ \E o \in Ops : queued_embedded_commands(t, o)
               \/ claim_embedded_command(t) \/ Perform(t) \/ Wake(t) \/ Control(t)
               \/ settle_embedded_command(t) \/ SendReceipt(t)

CommandNext ==
    \/ \E o \in Ops : \/ Submit(o) \/ retryHostCommand(o) \/ Receive(o)
                      \/ Lookup(o) \/ applyCommandStatus(o) \/ applyCommandReceipt(o)
    \/ \E t \in Tasks : HostStep(t)
    \/ HostLost \/ recover_embedded_command_claims
    \/ Connect \/ Offline \/ Reload

CommandFairness ==
    /\ \A t \in Tasks : WF_commandVars(HostStep(t))
    /\ \A o \in Ops : /\ WF_commandVars(Receive(o))
                      /\ WF_commandVars(Lookup(o))
                      /\ WF_commandVars(applyCommandStatus(o))
    /\ WF_commandVars(fenced /\ HostLost)
    /\ WF_commandVars(recover_embedded_command_claims)
    /\ WF_commandVars(Connect)

CommandSpec == CommandInit /\ [][CommandNext]_commandVars /\ CommandFairness

-----------------------------------------------------------------------------
(* Properties.                                                             *)

(***************************************************************************)
(* The journal implements CommandOnce: whatever the interleaving of host   *)
(* tasks, retried submissions, process losses and unknown COMMITs, a       *)
(* command takes effect at most once and its verdict, given once, tells    *)
(* the truth about the effect.                                             *)
(***************************************************************************)
Verdict(o) == CASE row[o] \notin Final -> "none"
                [] row[o] \in {"refused", "unconfirmed"} -> row[o]
                [] OTHER -> "done"

Once == INSTANCE CommandOnce WITH
            retained <- {o \in Ops : row[o] # "absent"},
            verdict <- [o \in Ops |-> Verdict(o)]

CommandsHappenOnce == Once!OnceSpec

(***************************************************************************)
(* What the browser holds as evidence is true of the journal: a final      *)
(* state is the journal's state, an earlier one was passed, a wake error   *)
(* was recorded, and honest reports in any order never look contradictory. *)
(* And it is there: a command the host may know of is in session storage,  *)
(* where a reload finds it, until it is settled.                           *)
(***************************************************************************)
EvidenceTrue ==
    /\ \A r \in mem \cup disk :
          /\ ~r.issue
          /\ r.wake => r.op \in wakeError
          /\ r.authority # "local" => /\ row[r.op] # "absent"
                                      /\ r.state = "dispatching" => row[r.op] # "queued"
                                      /\ r.state \in Final => row[r.op] = r.state
    /\ \A o \in Ops :
          (o \in net \/ row[o] # "absent") /\ o \notin OpsOf(disk) => row[o] \in Settled

(***************************************************************************)
(* Every journalled command comes to a final state, and the browser that   *)
(* still keeps it learns that state, although wakes and receipts may be    *)
(* lost, the host may be lost with a claim, and connections may break.     *)
(***************************************************************************)
CommandsResolve ==
    []<>(\A o \in Ops : row[o] # "absent" =>
            /\ row[o] \in Final
            /\ \A r \in mem : r.op = o => r.state = row[o])
=============================================================================
