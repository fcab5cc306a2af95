---------------------------- MODULE EngineProofs ----------------------------
(***************************************************************************)
(* The request loop (EngineLoop), for any calls, kinds of calls, mails,    *)
(* requests and faults, and the bounded turns of a client (Invocation), for*)
(* any invocations and limits.                                             *)
(*                                                                         *)
(* EngineLoop: no call is run twice, its output is published at most once, *)
(* and no request goes out without the outputs of the earlier synchronous  *)
(* and serial calls.  The invariant says where a call whose output no      *)
(* request holds is kept: with the jobs of the round, among the outputs to *)
(* replay, or as the call being dispatched; a round that ends in any other *)
(* way has left a claim in the Store, or is a round that recovery refuses. *)
(* Invocation: an invocation that was handed out keeps its reply, and the  *)
(* counts of a scope stay within its limits.                               *)
(***************************************************************************)
EXTENDS EngineLoop, Invocation, TLAPS

\* The claims that are settled for good
Terminal == {"settled", "interrupted"}

\* Where a round can be between its recovery and its end
Active == {"write", "replay", "boundary", "ready", "stream", "claim", "register", "post", "serial",
           "drain", "decide", "wait", "resume"}

\* The types of what EngineTypeOK leaves out
LocalsTyped ==
    /\ way \in [Ops -> Kinds]
    /\ shown \in [Requests -> SUBSET Ops] /\ starts \in [Ops -> Nat]
    /\ pc \in Active \cup {"idle", "recover", "refused", "done", "cleanup"}
    /\ current \in Ops \cup {NoOp} /\ storing \in Ops \cup {NoOp} /\ waitCall \in Ops \cup {NoOp}
    /\ calls \in Seq(Ops) /\ replaying \subseteq Ops

\* A call the provider has not made has left no trace.
Fresh(o) ==
    /\ claim[o] = "none" /\ published[o] = {} /\ starts[o] = 0 /\ job[o] # "held"
    /\ o \notin pending \cup replaying
Untouched == \A o \in Ops : issuedAt[o] = 0 => Fresh(o)

\* The request whose calls are dispatched is issued. The call being dispatched is
\* retained, and has neither run nor been answered.
Dispatching ==
    /\ pc \in {"stream", "claim", "register"} => response[written] # "none"
    /\ pc \in {"claim", "register"} =>
         /\ current \in Ops /\ issuedAt[current] # 0 /\ starts[current] = 0 /\ published[current] = {}
         /\ pc = "claim" => claim[current] = "none"
         /\ pc = "register" => current \in pending /\ \E i \in DOMAIN calls : calls[i] = current

\* A call the round owes an output for is claimed, and has none.
PendingClaimed == \A o \in pending : claim[o] # "none" /\ published[o] = {}

\* What is replayed is terminal, and is replayed before anything is dispatched.
ReplayTerminal ==
    /\ \A o \in replaying : claim[o] \in Terminal /\ published[o] = {}
    /\ replaying # {} => pending = {} /\ pc \in {"write", "replay", "cleanup"}

\* Between the halves of persist_output the claim is terminal.
StoringSettled ==
    storing # NoOp => /\ storing \in pending /\ claim[storing] \in Terminal
                      /\ pc \in {"serial", "drain", "resume", "boundary"}

\* A serial call that waits for its turn has not run.
HeldUnstarted == \A o \in Ops : job[o] = "held" => starts[o] = 0

\* A serial call the round owes is queued, registered or run, and none is left
\* when the response has been dealt with.
SerialQueued ==
    \A o \in pending : way[o] = "serial" =>
        \/ pc \in {"stream", "claim", "register", "post", "serial"} /\ \E i \in Queued : calls[i] = o
        \/ pc \in {"register", "serial"} /\ o = current
        \/ pc = "cleanup"

\* A call that was made, and whose output no request holds
Owed(o) == issuedAt[o] # 0 /\ published[o] = {}

\* A round knows every call that is owed; a settled head owes none.
OwedKnown ==
    /\ pc \in Active => \A o \in Ops : Owed(o) =>
         o \in pending \cup replaying \/ (pc = "claim" /\ o = current) \/ deferred
    /\ pc = "done" \/ written = settled => \A o \in Ops : ~Owed(o)

\* What the control state says of the other locals
Settling ==
    /\ written = settled => pending = {} /\ pc \in {"idle", "recover", "write", "cleanup", "refused"}
    /\ pc \in {"idle", "recover"} => pending = {}
    /\ deferred => pc \in {"stream", "cleanup"}
    /\ pc = "ready" => \A o \in pending : way[o] # "sync"

\* No request is issued before it is written.
IssuedWritten == \A r \in Requests : response[r] # "none" => r <= written

\* The inductive invariant
EngineInv ==
    /\ EngineTypeOK /\ LocalsTyped /\ Untouched /\ Dispatching /\ PendingClaimed /\ ReplayTerminal
    /\ StoringSettled /\ HeldUnstarted /\ SerialQueued /\ OwedKnown /\ Settling /\ IssuedWritten
    /\ OutputOnce /\ EffectOnce /\ SyncCallsShown

-----------------------------------------------------------------------------
(* Frames: what a step leaves alone *)

\* A step keeps the types if each variable it changes keeps its own.
LEMMA TypesKept ==
    ASSUME EngineInv, way' = way,
           UNCHANGED <<written, settled>> \/ (written' \in 0..MaxRequests /\ settled' \in 0..written'),
           UNCHANGED response
             \/ response' \in [Requests -> {"none", "streaming", "completed", "stopped"}],
           UNCHANGED final \/ final' \subseteq Requests,
           UNCHANGED shown \/ shown' \in [Requests -> SUBSET Ops],
           UNCHANGED issuedAt \/ issuedAt' \in [Ops -> 0..MaxRequests],
           UNCHANGED claim \/ claim' \in [Ops -> {"none", "pending", "settled", "interrupted"}],
           UNCHANGED published \/ published' \in [Ops -> SUBSET Requests],
           UNCHANGED inbox \/ inbox' \in [Mails -> {"unsent", "unread", "attached", "delivered"}],
           UNCHANGED job \/ job' \in [Ops -> {"none", "held", "running", "done"}],
           UNCHANGED starts \/ starts' \in [Ops -> Nat],
           UNCHANGED pc \/ pc' \in Active \cup {"idle", "recover", "refused", "done", "cleanup"},
           UNCHANGED current \/ current' \in Ops \cup {NoOp},
           UNCHANGED storing \/ storing' \in Ops \cup {NoOp},
           UNCHANGED waitCall \/ waitCall' \in Ops \cup {NoOp},
           UNCHANGED calls \/ calls' \in Seq(Ops),
           UNCHANGED pending \/ pending' \subseteq Ops,
           UNCHANGED replaying \/ replaying' \subseteq Ops
    PROVE  EngineTypeOK' /\ LocalsTyped'
  <1>1. EngineTypeOK /\ LocalsTyped
    BY Zenon DEF EngineInv
  <1>2. EngineTypeOK'
    BY <1>1 DEF EngineTypeOK
  <1>3. LocalsTyped'
    BY <1>1, Zenon DEF LocalsTyped
  <1> QED
    BY Zenon, <1>2, <1>3

\* A conjunct of the invariant holds after a step that changes none of its variables.
LEMMA Frames ==
    ASSUME EngineInv
    PROVE  /\ UNCHANGED <<issuedAt, claim, published, job, starts, pending, replaying>> => Untouched'
           /\ UNCHANGED <<pc, current, issuedAt, starts, published, claim, pending, calls, response,
                          written>> => Dispatching'
           /\ UNCHANGED <<claim, published, pending>> => PendingClaimed'
           /\ UNCHANGED <<replaying, claim, published, pending, pc>> => ReplayTerminal'
           /\ UNCHANGED <<storing, pending, claim, pc>> => StoringSettled'
           /\ UNCHANGED <<job, starts>> => HeldUnstarted'
           /\ UNCHANGED <<pending, way, pc, job, calls, current>> => SerialQueued'
           /\ UNCHANGED <<pc, issuedAt, published, pending, replaying, current, deferred, written,
                          settled>> => OwedKnown'
           /\ UNCHANGED <<written, settled, pending, pc, deferred, way>> => Settling'
           /\ UNCHANGED <<response, written>> => IssuedWritten'
           /\ UNCHANGED <<published, claim>> => OutputOnce'
           /\ UNCHANGED starts => EffectOnce'
           /\ UNCHANGED <<response, way, issuedAt, shown>> => SyncCallsShown'
  <1>1. UNCHANGED <<issuedAt, claim, published, job, starts, pending, replaying>> => Untouched'
    BY Zenon DEF EngineInv, Untouched, Fresh
  <1>2. UNCHANGED <<pc, current, issuedAt, starts, published, claim, pending, calls, response,
                          written>> => Dispatching'
    BY Zenon DEF EngineInv, Dispatching
  <1>3. UNCHANGED <<claim, published, pending>> => PendingClaimed'
    BY Zenon DEF EngineInv, PendingClaimed
  <1>4. UNCHANGED <<replaying, claim, published, pending, pc>> => ReplayTerminal'
    BY Zenon DEF EngineInv, ReplayTerminal
  <1>5. UNCHANGED <<storing, pending, claim, pc>> => StoringSettled'
    BY Zenon DEF EngineInv, StoringSettled
  <1>6. UNCHANGED <<job, starts>> => HeldUnstarted'
    BY Zenon DEF EngineInv, HeldUnstarted
  <1>7. UNCHANGED <<pending, way, pc, job, calls, current>> => SerialQueued'
    BY Zenon DEF EngineInv, SerialQueued, Queued
  <1>8. UNCHANGED <<pc, issuedAt, published, pending, replaying, current, deferred, written,
                    settled>> => OwedKnown'
    BY DEF EngineInv, OwedKnown, Owed
  <1>9. UNCHANGED <<written, settled, pending, pc, deferred, way>> => Settling'
    BY DEF EngineInv, Settling
  <1>10. UNCHANGED <<response, written>> => IssuedWritten'
    BY Zenon DEF EngineInv, IssuedWritten
  <1>11. UNCHANGED <<published, claim>> => OutputOnce'
    BY Zenon DEF EngineInv, OutputOnce
  <1>12. UNCHANGED starts => EffectOnce'
    BY Zenon DEF EngineInv, EffectOnce
  <1>13. UNCHANGED <<response, way, issuedAt, shown>> => SyncCallsShown'
    BY Zenon DEF EngineInv, SyncCallsShown
  <1> QED
    BY <1>1, <1>2, <1>3, <1>4, <1>5, <1>6, <1>7, <1>8, <1>9, <1>10, <1>11, <1>12, <1>13, Zenon

\* The invariant is the conjunction of its parts, after a step as well.
LEMMA InvParts ==
    ASSUME EngineTypeOK', LocalsTyped', Untouched', Dispatching', PendingClaimed', ReplayTerminal',
           StoringSettled', HeldUnstarted', SerialQueued', OwedKnown', Settling', IssuedWritten',
           OutputOnce', EffectOnce', SyncCallsShown'
    PROVE  EngineInv'
  BY Zenon DEF EngineInv

-----------------------------------------------------------------------------
(* Steps that only move the control state *)

\* Mail that is attached is mail.
LEMMA AttachTyped ==
    ASSUME EngineInv
    PROVE  Attach \in [Mails -> {"unsent", "unread", "attached", "delivered"}]
  <1>1. inbox \in [Mails -> {"unsent", "unread", "attached", "delivered"}]
    BY Zenon DEF EngineInv, EngineTypeOK
  <1> QED
    BY Zenon, <1>1 DEF Attach, Unread

\* Where a round may go when neither calls nor requests change
Walk ==
    /\ UNCHANGED <<way, written, settled, response, final, shown, issuedAt, claim, published, job,
                   starts, current, storing, pending, calls, waitCall, deferred, replaying>>
    /\ UNCHANGED inbox \/ inbox' = Attach
    /\ storing = NoOp /\ replaying = {} /\ ~deferred
    /\ pc # "claim"
    /\ \A o \in pending : way[o] # "serial"
    /\ pc' \in {"boundary", "ready", "drain", "decide", "wait", "resume", "write", "done"} =>
         pc \in Active /\ written # settled
    /\ pc' = "ready" => \A o \in pending : way[o] # "sync"
    /\ pc' = "done" => pending = {}
    /\ pc' \in {"boundary", "ready", "drain", "decide", "wait", "resume", "write", "done", "refused",
               "cleanup"}

\* A walk keeps the invariant: what the round owes moves with it.
LEMMA WalkKeeps ==
    ASSUME EngineInv, Walk
    PROVE  EngineInv'
  <1>1. /\ UNCHANGED <<way, written, settled, response, final, shown, issuedAt, claim, published,
                       job, starts, current, storing, pending, calls, waitCall, deferred, replaying>>
        /\ storing = NoOp /\ replaying = {} /\ ~deferred /\ pc # "claim"
        /\ \A o \in pending : way[o] # "serial"
    BY Zenon DEF Walk
  <1>2. inbox' = inbox \/ inbox' \in [Mails -> {"unsent", "unread", "attached", "delivered"}]
    BY AttachTyped, Zenon DEF Walk
  <1>3. pc' \in Active \cup {"idle", "recover", "refused", "done", "cleanup"}
    BY Zenon DEF Walk, Active
  <1>4. EngineTypeOK' /\ LocalsTyped'
    BY <1>1, <1>2, <1>3, TypesKept, Zenon
  <1>5. Untouched' /\ PendingClaimed' /\ HeldUnstarted' /\ IssuedWritten' /\ OutputOnce' /\ EffectOnce'
        /\ SyncCallsShown'
    BY <1>1, Frames, Zenon
  <1>6. Dispatching'
    BY Zenon DEF Walk, Dispatching
  <1>7. ReplayTerminal' /\ StoringSettled' /\ SerialQueued'
    BY <1>1, Zenon DEF ReplayTerminal, StoringSettled, SerialQueued
  <1>8. pc' \in Active \cup {"done"} => pc \in Active /\ written # settled
    BY Zenon DEF Walk, Active
  <1>9. pc' = "done" => pending = {}
    BY Zenon DEF Walk
  <1>10. OwedKnown'
    <2>1. "done" \notin Active
      BY Zenon DEF Active
    <2>2. \A o \in Ops : Owed(o)' <=> Owed(o)
      BY <1>1, Zenon DEF Owed
    <2>3. OwedKnown
      BY Zenon DEF EngineInv
    <2> QED
      BY <1>1, <1>8, <1>9, <2>2, <2>3, Zenon DEF OwedKnown
  <1>11. Settling'
    <2>1. Settling
      BY Zenon DEF EngineInv
    <2>2. written' = settled' => pending' = {} /\ pc' \in {"refused", "cleanup"}
      BY Zenon, <1>1, <2>1 DEF Walk, Settling
    <2> QED
      BY <1>1, <2>2 DEF Walk, Settling
  <1> QED
    BY <1>4, <1>5, <1>6, <1>7, <1>10, <1>11, InvParts, Zenon

\* The control states of a walk, after which nothing serial is left
LEMMA AfterSerial ==
    ASSUME EngineInv,
           pc \in {"recover", "write", "replay", "boundary", "ready", "drain", "decide", "wait",
                   "resume"}
    PROVE  (\A o \in pending : way[o] # "serial") /\ ~deferred
  BY Zenon DEF EngineInv, SerialQueued, Settling

\* The control states in which no output is being stored or replayed
LEMMA Quiescent ==
    ASSUME EngineInv
    PROVE  /\ pc \notin {"serial", "drain", "resume", "boundary"} => storing = NoOp
           /\ pc \notin {"write", "replay", "cleanup"} => replaying = {}
           /\ pc \notin {"idle", "recover", "write", "cleanup", "refused"} => written # settled
  BY Zenon DEF EngineInv, StoringSettled, ReplayTerminal, Settling

\* Every step of the loop that changes no more than where the round is, is a walk.
LEMMA WalksWalk ==
    ASSUME EngineInv,
           \/ RecoveryRefused \/ Replayed \/ AdmitMail \/ Drain \/ Drained \/ Decide
           \/ ResumeByJob \/ ResumeByTimeout \/ Resumed \/ \E m \in Mails : ResumeByWake(m)
    PROVE  Walk
  <1> DEFINE Same == UNCHANGED <<way, written, settled, response, final, shown, issuedAt, claim,
                       published, job, starts, current, storing, pending, calls, waitCall, deferred,
                       replaying>>
  <1>1. CASE RecoveryRefused
    <2>1. Same /\ inbox' = inbox /\ pc = "recover" /\ pc' = "refused"
      BY <1>1, Zenon DEF RecoveryRefused, Goto, store, jobs
    <2> QED
      BY Zenon, <2>1, AfterSerial, Quiescent DEF Walk, Active
  <1>2. CASE Replayed
    <2>1. Same /\ inbox' = Attach /\ pc = "replay" /\ pc' = "boundary" /\ replaying = {}
      BY <1>2, Zenon DEF Replayed, Goto, jobs
    <2> QED
      BY Zenon, <2>1, AfterSerial, Quiescent DEF Walk, Active
  <1>3. CASE AdmitMail
    <2>1. Same /\ inbox' = Attach /\ pc = "boundary" /\ pc' = "ready" /\ storing = NoOp /\ SyncSettled
      BY <1>3, Zenon DEF AdmitMail, Goto, jobs
    <2> QED
      BY Zenon, <2>1, AfterSerial, Quiescent DEF Walk, Active, SyncSettled
  <1>4. CASE Drain
    <2>1. Same /\ inbox' = inbox /\ pc = "post" /\ pc' = "drain" /\ Queued = {}
      BY <1>4, Zenon DEF Drain, Goto, store, jobs
    <2>2. (\A o \in pending : way[o] # "serial") /\ ~deferred
      BY Zenon, <2>1 DEF EngineInv, SerialQueued, Settling
    <2> QED
      BY Zenon, <2>1, <2>2, Quiescent DEF Walk, Active
  <1>5. CASE Drained
    <2>1. Same /\ inbox' = inbox /\ pc = "drain" /\ pc' = "decide" /\ storing = NoOp
      BY <1>5, Zenon DEF Drained, Goto, store, jobs
    <2> QED
      BY Zenon, <2>1, AfterSerial, Quiescent DEF Walk, Active
  <1>6. CASE Decide
    <2>1. Same /\ inbox' = inbox /\ pc = "decide" /\ pc' = Decision
      BY <1>6, Zenon DEF Decide, Goto, store, jobs
    <2>2. /\ Decision \in {"resume", "wait", "done", "cleanup", "write"}
          /\ Decision = "done" => pending = {}
      BY Zenon DEF Decision
    <2> QED
      BY Zenon, <2>1, <2>2, AfterSerial, Quiescent DEF Walk, Active
  <1>7. CASE ResumeByJob \/ ResumeByTimeout \/ \E m \in Mails : ResumeByWake(m)
    <2>1. Same /\ inbox' = inbox /\ pc = "wait" /\ pc' \in {"resume", "wait"}
      BY <1>7, Zenon DEF ResumeByJob, ResumeByTimeout, ResumeByWake, Goto, store, jobs
    <2> QED
      BY Zenon, <2>1, AfterSerial, Quiescent DEF Walk, Active
  <1>8. CASE Resumed
    <2>1. Same /\ inbox' = Attach /\ pc = "resume" /\ pc' = "write" /\ storing = NoOp
      BY <1>8, Zenon DEF Resumed, Goto, jobs
    <2> QED
      BY Zenon, <2>1, AfterSerial, Quiescent DEF Walk, Active
  <1> QED
    BY <1>1, <1>2, <1>3, <1>4, <1>5, <1>6, <1>7, <1>8, Zenon

-----------------------------------------------------------------------------
(* Steps that begin or end a round, and steps of others *)

\* The locals of a round are new at its beginning, and gone at its end.
LEMMA EnterKeeps ==
    ASSUME EngineInv, NEW next \in {"idle", "recover"}, Enter(next),
           UNCHANGED <<way, written, response, final, shown, issuedAt, claim, published, inbox, starts>>,
           job' = job \/ job' = [o \in Ops |-> "none"],
           settled' = settled \/ (settled' = written /\ pc = "done")
    PROVE  EngineInv'
  <1>1. /\ pc' = next /\ current' = NoOp /\ storing' = NoOp /\ pending' = {} /\ calls' = <<>>
        /\ waitCall' = NoOp /\ deferred' = FALSE /\ replaying' = {}
    BY Zenon DEF Enter
  <1>2. job' \in [Ops -> {"none", "held", "running", "done"}] /\ \A o \in Ops : job'[o] = "held" => job[o] = "held"
    BY Zenon DEF EngineInv, EngineTypeOK
  <1>3. written' \in 0..MaxRequests /\ settled' \in 0..written'
    BY EngineAssumption DEF EngineInv, EngineTypeOK
  <1>4. EngineTypeOK' /\ LocalsTyped'
    <2>1. next \in Active \cup {"idle", "recover", "refused", "done", "cleanup"} /\ <<>> \in Seq(Ops)
      OBVIOUS
    <2> QED
      BY <1>1, <1>2, <1>3, <2>1, TypesKept, Zenon
  <1>5. Untouched'
    BY <1>1, Zenon DEF EngineInv, Untouched, Fresh
  <1>6. Dispatching'
    BY Zenon, <1>1 DEF Dispatching
  <1>7. PendingClaimed' /\ ReplayTerminal' /\ StoringSettled' /\ SerialQueued'
    BY <1>1, Zenon DEF PendingClaimed, ReplayTerminal, StoringSettled, SerialQueued
  <1>8. HeldUnstarted'
    BY <1>2, Zenon DEF EngineInv, HeldUnstarted
  <1>9. OwedKnown'
    <2>1. next \notin Active \cup {"done"}
      BY Zenon DEF Active
    <2>2. \A o \in Ops : Owed(o)' <=> Owed(o)
      BY Zenon DEF Owed
    <2> QED
      BY <1>1, <2>1, <2>2, Zenon DEF EngineInv, OwedKnown
  <1>10. Settling'
    BY Zenon, <1>1 DEF Settling
  <1>11. IssuedWritten' /\ OutputOnce' /\ EffectOnce' /\ SyncCallsShown'
    BY Frames, Zenon
  <1> QED
    BY <1>4, <1>5, <1>6, <1>7, <1>8, <1>9, <1>10, <1>11, InvParts, Zenon

\* A round that begins, is settled, is lost or is cleaned up keeps the invariant.
LEMMA RoundsKeep ==
    ASSUME EngineInv, Begin \/ SettleHead \/ Crash \/ Cleaned
    PROVE  EngineInv'
  <1>1. CASE Begin
    BY <1>1, EnterKeeps, Zenon DEF Begin, store, jobs
  <1>2. CASE SettleHead
    BY <1>2, EnterKeeps, Zenon DEF SettleHead, jobs
  <1>3. CASE Crash
    BY <1>3, EnterKeeps, Zenon DEF Crash, store
  <1>4. CASE Cleaned
    BY <1>4, EnterKeeps, Zenon DEF Cleaned, store, jobs
  <1> QED
    BY <1>1, <1>2, <1>3, <1>4, Zenon

\* Mail touches nothing but the inbox.
LEMMA SendMailKeeps ==
    ASSUME EngineInv, NEW m \in Mails, SendMail(m)
    PROVE  EngineInv'
  <1>1. UNCHANGED <<way, written, settled, response, final, shown, issuedAt, claim, published, job,
                    starts, pc, current, storing, pending, calls, waitCall, deferred, replaying>>
    BY Zenon DEF SendMail, jobs, round
  <1>2. inbox' \in [Mails -> {"unsent", "unread", "attached", "delivered"}]
    BY Zenon DEF SendMail, EngineInv, EngineTypeOK
  <1>3. EngineTypeOK' /\ LocalsTyped'
    BY <1>1, <1>2, TypesKept, Zenon
  <1> QED
    BY <1>1, <1>3, Frames, InvParts, Zenon

\* A job that settles was running, so no queued call is affected.
LEMMA JobDoneKeeps ==
    ASSUME EngineInv, NEW o \in Ops, JobDone(o)
    PROVE  EngineInv'
  <1>1. /\ UNCHANGED <<way, written, settled, response, final, shown, issuedAt, claim, published,
                       inbox, starts, pc, current, storing, pending, calls, waitCall, deferred,
                       replaying>>
        /\ job[o] = "running" /\ job' = [job EXCEPT ![o] = "done"]
    BY Zenon DEF JobDone, store, round
  <1>2. /\ job' \in [Ops -> {"none", "held", "running", "done"}]
        /\ \A p \in Ops : job'[p] = "held" <=> job[p] = "held"
    BY Zenon, <1>1 DEF EngineInv, EngineTypeOK
  <1>3. EngineTypeOK' /\ LocalsTyped'
    BY <1>1, <1>2, TypesKept, Zenon
  <1>4. HeldUnstarted' /\ Untouched'
    BY <1>1, <1>2, Zenon DEF EngineInv, HeldUnstarted, Untouched, Fresh
  <1>5. SerialQueued'
    <2>1. \A i \in DOMAIN calls : calls[i] \in Ops
      BY DEF EngineInv, LocalsTyped
    <2>2. Queued' = Queued
      BY <1>1, <1>2, <2>1, Zenon DEF Queued
    <2> QED
      BY <1>1, <2>2, Zenon DEF EngineInv, SerialQueued
  <1> QED
    BY <1>1, <1>3, <1>4, <1>5, Frames, InvParts, Zenon

-----------------------------------------------------------------------------
(* Recovery and the first request *)

\* Recovery replays exactly the calls that are owed, with a terminal claim for each.
LEMMA RecoverKeeps ==
    ASSUME EngineInv, Recover
    PROVE  EngineInv'
  <1>1. /\ pc = "recover" /\ ~Unrecoverable /\ replaying' = Unpublished
        /\ claim' = [o \in Ops |-> IF o \in Unpublished /\ claim[o] = "pending"
                                   THEN "interrupted" ELSE claim[o]]
        /\ pc' = IF Resuming /\ written \in final /\ Unpublished = {} THEN "done" ELSE "write"
        /\ UNCHANGED <<way, written, settled, response, final, shown, issuedAt, published, inbox, job,
                       starts, current, storing, pending, calls, waitCall, deferred>>
    BY Zenon DEF Recover, jobs
  <1>2. Unpublished \subseteq Ops /\ \A o \in Unpublished : claim[o] # "none" /\ published[o] = {}
    BY Zenon DEF Unpublished, Inherited
  <1>3. claim \in [Ops -> {"none", "pending", "settled", "interrupted"}]
    BY Zenon DEF EngineInv, EngineTypeOK
  <1>4. /\ claim' \in [Ops -> {"none", "pending", "settled", "interrupted"}]
        /\ \A o \in Ops : /\ claim'[o] = "none" <=> claim[o] = "none"
                          /\ claim[o] \in Terminal => claim'[o] = claim[o]
        /\ \A o \in Unpublished : claim'[o] \in Terminal
    BY Zenon, <1>1, <1>2, <1>3 DEF Terminal
  <1>5. pc' \in {"done", "write"}
    BY <1>1, Zenon
  <1>6. EngineTypeOK' /\ LocalsTyped'
    <2>1. pc' \in Active \cup {"idle", "recover", "refused", "done", "cleanup"}
      BY Zenon, <1>5 DEF Active
    <2> QED
      BY <1>1, <1>2, <1>4, <2>1, TypesKept, Zenon
  <1>7. storing = NoOp /\ ~deferred /\ pending = {}
    BY Zenon, <1>1 DEF EngineInv, StoringSettled, Settling
  <1>8. \A o \in Ops : Owed(o) => o \in Unpublished
    <2> SUFFICES ASSUME NEW o \in Ops, Owed(o)
                 PROVE  o \in Unpublished
      BY Zenon
    <2>1. Resuming
      BY DEF Resuming, EngineInv, EngineTypeOK, OwedKnown
    <2> QED
      BY <1>1, <2>1, Zenon DEF Unrecoverable, Unpublished, Inherited, Owed
  <1>9. Untouched'
    BY <1>1, <1>2, <1>4, Zenon DEF EngineInv, Untouched, Fresh
  <1>10. Dispatching' /\ StoringSettled'
    BY Zenon, <1>1, <1>5, <1>7 DEF Dispatching, StoringSettled
  <1>11. Settling'
    <2>1. pc' = "done" => written # settled
      BY <1>1 DEF Resuming, EngineInv, EngineTypeOK
    <2> QED
      BY Zenon, <1>1, <1>5, <1>7, <2>1 DEF Settling
  <1>12. PendingClaimed' /\ SerialQueued'
    BY <1>1, <1>7, Zenon DEF PendingClaimed, SerialQueued
  <1>13. ReplayTerminal'
    BY Zenon, <1>1, <1>2, <1>4, <1>7 DEF ReplayTerminal
  <1>14. OwedKnown'
    <2>1. \A o \in Ops : Owed(o)' <=> Owed(o)
      BY <1>1, Zenon DEF Owed
    <2>2. pc' = "done" => Unpublished = {}
      BY Zenon, <1>1
    <2> QED
      BY <1>1, <1>8, <2>1, <2>2, Zenon DEF EngineInv, OwedKnown
  <1>15. OutputOnce'
    BY <1>1, <1>4, Zenon DEF EngineInv, OutputOnce, Terminal
  <1> QED
    BY <1>1, <1>6, <1>9, <1>10, <1>11, <1>12, <1>13, <1>14, <1>15, Frames, InvParts, Zenon

\* A new request carries over what the round owes.
LEMMA WriteRequestKeeps ==
    ASSUME EngineInv, WriteRequest
    PROVE  EngineInv'
  <1>1. /\ pc = "write" /\ written < MaxRequests /\ written' = written + 1 /\ pc' = "replay"
        /\ calls' = <<>> /\ waitCall' = NoOp
        /\ UNCHANGED <<way, settled, response, final, shown, issuedAt, claim, published, inbox, job,
                       starts, current, storing, pending, deferred, replaying>>
    BY Zenon DEF WriteRequest, jobs
  <1>2. written \in Nat /\ settled \in 0..written
    BY DEF EngineInv, EngineTypeOK
  <1>3. written' \in 0..MaxRequests /\ settled' \in 0..written' /\ written' # settled'
    BY <1>1, <1>2, EngineAssumption
  <1>4. EngineTypeOK' /\ LocalsTyped'
    <2>1. pc' \in Active \cup {"idle", "recover", "refused", "done", "cleanup"} /\ <<>> \in Seq(Ops)
      BY <1>1 DEF Active
    <2> QED
      BY <1>1, <1>3, <2>1, TypesKept, Zenon
  <1>5. (\A o \in pending : way[o] # "serial") /\ ~deferred /\ storing = NoOp
    BY Zenon, <1>1, AfterSerial, Quiescent
  <1>6. Dispatching' /\ Settling'
    BY Zenon, <1>1, <1>3, <1>5 DEF Dispatching, Settling
  <1>7. ReplayTerminal'
    BY Zenon, <1>1 DEF EngineInv, ReplayTerminal
  <1>8. StoringSettled' /\ SerialQueued'
    BY <1>1, <1>5, Zenon DEF StoringSettled, SerialQueued
  <1>9. OwedKnown'
    <2>1. \A o \in Ops : Owed(o)' <=> Owed(o)
      BY <1>1, Zenon DEF Owed
    <2>2. OwedKnown /\ pc \in Active /\ pc # "claim" /\ pc' # "done"
      BY Zenon, <1>1 DEF EngineInv, Active
    <2> QED
      BY <1>1, <1>3, <1>5, <2>1, <2>2, Zenon DEF OwedKnown
  <1>10. IssuedWritten'
    BY <1>1, <1>2 DEF EngineInv, IssuedWritten, Requests
  <1> QED
    BY <1>1, <1>4, <1>6, <1>7, <1>8, <1>9, <1>10, Frames, InvParts, Zenon

-----------------------------------------------------------------------------
(* Publication *)

\* An output that is published leaves the round's books, and is the call's first.
Publication(o) ==
    /\ o \in Ops /\ written # settled
    /\ issuedAt[o] # 0 /\ published[o] = {} /\ claim[o] \in Terminal
    /\ published' = [published EXCEPT ![o] = @ \cup {written}]
    /\ pending' = pending \ {o} /\ replaying' = replaying \ {o}
    /\ UNCHANGED <<way, written, settled, response, final, shown, issuedAt, claim, job, starts, calls,
                   waitCall, deferred>>
    /\ storing' = NoOp /\ (storing = NoOp \/ storing = o)
    /\ pc \in Active /\ pc \notin {"claim", "register"}
    /\ \/ UNCHANGED <<pc, current>>
       \/ /\ pc' = "post" /\ current' = NoOp /\ current = o /\ replaying = {}
          /\ pc \in {"serial", "drain", "resume", "boundary"}
    /\ UNCHANGED inbox \/ inbox' = Attach

\* A publication settles what is owed for one call, and keeps the invariant.
LEMMA PublicationKeeps ==
    ASSUME EngineInv, NEW o, Publication(o)
    PROVE  EngineInv'
  <1>1. /\ o \in Ops /\ issuedAt[o] # 0 /\ published[o] = {} /\ claim[o] \in Terminal
        /\ pending' = pending \ {o} /\ replaying' = replaying \ {o} /\ storing' = NoOp
        /\ UNCHANGED <<way, written, settled, response, final, shown, issuedAt, claim, job, starts, calls,
                       waitCall, deferred>>
        /\ pc \in Active /\ pc \notin {"claim", "register"}
        /\ \/ UNCHANGED <<pc, current>>
           \/ /\ pc' = "post" /\ current' = NoOp /\ current = o /\ replaying = {}
              /\ pc \in {"serial", "drain", "resume", "boundary"}
    BY Zenon DEF Publication
  <1>2. published \in [Ops -> SUBSET Requests] /\ written \in Requests
    BY DEF Publication, EngineInv, EngineTypeOK, Requests
  <1>3. /\ published' \in [Ops -> SUBSET Requests] /\ published'[o] = {written}
        /\ \A p \in Ops : p # o => published'[p] = published[p]
    BY Zenon, <1>1, <1>2 DEF Publication
  <1>4. EngineTypeOK' /\ LocalsTyped'
    <2>1. pc' = pc \/ pc' \in Active \cup {"idle", "recover", "refused", "done", "cleanup"}
      BY Zenon, <1>1 DEF Active
    <2>2. inbox' = inbox \/ inbox' \in [Mails -> {"unsent", "unread", "attached", "delivered"}]
      BY AttachTyped, Zenon DEF Publication
    <2>3. pending' \subseteq Ops /\ replaying' \subseteq Ops
      BY <1>1, Zenon DEF EngineInv, EngineTypeOK, LocalsTyped
    <2> QED
      BY <1>1, <1>3, <2>1, <2>2, <2>3, TypesKept, Zenon
  <1>5. Untouched'
    BY <1>1, <1>3, Zenon DEF EngineInv, Untouched, Fresh
  <1>6. Dispatching'
    BY Zenon, <1>1 DEF EngineInv, Dispatching
  <1>7. PendingClaimed'
    BY <1>1, <1>3, Zenon DEF EngineInv, PendingClaimed, EngineTypeOK
  <1>8. ReplayTerminal'
    <2>1. \A p \in replaying' : claim'[p] \in Terminal /\ published'[p] = {}
      BY <1>1, <1>3, Zenon DEF EngineInv, ReplayTerminal, LocalsTyped
    <2>2. replaying' # {} => pc' = pc /\ replaying # {}
      BY Zenon, <1>1 DEF EngineInv, ReplayTerminal
    <2> QED
      BY <1>1, <2>1, <2>2, Zenon DEF EngineInv, ReplayTerminal
  <1>9. StoringSettled'
    BY <1>1, Zenon DEF StoringSettled
  <1>10. SerialQueued'
    <2>1. Queued' = Queued
      BY <1>1, Zenon DEF Queued
    <2> SUFFICES ASSUME NEW p \in pending', way'[p] = "serial"
                 PROVE  \/ /\ pc' \in {"stream", "claim", "register", "post", "serial"}
                           /\ \E i \in Queued : calls[i] = p
                        \/ pc' \in {"register", "serial"} /\ p = current'
      BY <1>1, <2>1, Zenon DEF SerialQueued
    <2>2. p \in pending /\ p # o /\ way[p] = "serial" /\ pc # "cleanup"
      BY Zenon, <1>1 DEF Active
    <2>3. \/ /\ pc \in {"stream", "claim", "register", "post", "serial"}
             /\ \E i \in Queued : calls[i] = p
          \/ pc \in {"register", "serial"} /\ p = current
      BY <2>2, Zenon DEF EngineInv, SerialQueued
    <2> QED
      BY Zenon, <1>1, <2>2, <2>3
  <1>11. OwedKnown'
    <2>1. \A p \in Ops : Owed(p)' => Owed(p) /\ p # o
      BY <1>1, <1>3, Zenon DEF Owed
    <2>2. OwedKnown /\ pc # "claim" /\ (pc' = "done" => pc = "done")
      BY Zenon, <1>1 DEF EngineInv
    <2> QED
      BY <1>1, <2>1, <2>2, Zenon DEF OwedKnown
  <1>12. Settling'
    <2>1. written' # settled'
      BY <1>1, Zenon DEF Publication
    <2>2. Settling /\ pc \notin {"idle", "recover"}
      BY Zenon, <1>1 DEF EngineInv, Active
    <2> QED
      BY Zenon, <1>1, <2>1, <2>2 DEF Settling
  <1>13. OutputOnce'
    BY <1>1, <1>3 DEF EngineInv, OutputOnce, Terminal
  <1> QED
    BY <1>1, <1>4, <1>5, <1>6, <1>7, <1>8, <1>9, <1>10, <1>11, <1>12, <1>13, Frames, InvParts, Zenon

\* What recovery found is published once.
LEMMA ReplayKeeps ==
    ASSUME EngineInv, NEW o \in Ops, Replay(o)
    PROVE  EngineInv'
  <1>1. /\ pc = "replay" /\ o \in replaying /\ replaying' = replaying \ {o}
        /\ published' = [published EXCEPT ![o] = @ \cup {written}]
        /\ UNCHANGED <<way, written, settled, response, final, shown, issuedAt, claim, inbox, job,
                       starts, pc, current, storing, pending, calls, waitCall, deferred>>
    BY Zenon DEF Replay, jobs
  <1>2. claim[o] \in Terminal /\ published[o] = {} /\ pending = {} /\ issuedAt[o] # 0
    BY <1>1, Zenon DEF EngineInv, ReplayTerminal, Untouched, Fresh
  <1>3. storing = NoOp /\ written # settled
    BY Zenon, <1>1, Quiescent
  <1>4. pending' = pending \ {o} /\ pc \in Active /\ pc \notin {"claim", "register"}
    BY Zenon, <1>1, <1>2 DEF Active
  <1>5. Publication(o)
    BY <1>1, <1>2, <1>3, <1>4, Zenon DEF Publication
  <1> QED
    BY <1>5, PublicationKeeps, Zenon

\* What persist_output settled is published once.
LEMMA PublishOutputKeeps ==
    ASSUME EngineInv, PublishOutput
    PROVE  EngineInv'
  <1> DEFINE o == storing
  <1>1. /\ o # NoOp /\ published' = [published EXCEPT ![o] = @ \cup {written}]
        /\ pending' = pending \ {o} /\ storing' = NoOp
        /\ UNCHANGED <<way, written, settled, response, final, shown, issuedAt, claim, job, starts,
                       calls, waitCall, deferred, replaying>>
    BY Zenon DEF PublishOutput, jobs
  <1>2. o \in pending /\ claim[o] \in Terminal /\ pc \in {"serial", "drain", "resume", "boundary"}
    BY <1>1, Zenon DEF EngineInv, StoringSettled
  <1>3. o \in Ops /\ published[o] = {} /\ issuedAt[o] # 0
    BY <1>2, Zenon DEF EngineInv, EngineTypeOK, PendingClaimed, Untouched, Fresh
  <1>4. replaying' = replaying \ {o} /\ written # settled
    BY Zenon, <1>1, <1>2, Quiescent
  <1>5. /\ \/ UNCHANGED <<pc, current>>
           \/ /\ pc' = "post" /\ current' = NoOp /\ current = o /\ replaying = {}
              /\ pc \in {"serial", "drain", "resume", "boundary"}
        /\ UNCHANGED inbox \/ inbox' = Attach
    <2>1. replaying = {}
      BY Zenon, <1>2, Quiescent
    <2> QED
      BY <1>2, <2>1, Zenon DEF PublishOutput
  <1>6. pc \in Active /\ pc \notin {"claim", "register"}
    BY Zenon, <1>2 DEF Active
  <1>7. Publication(o)
    BY <1>1, <1>2, <1>3, <1>4, <1>5, <1>6, Zenon DEF Publication
  <1> QED
    BY <1>7, PublicationKeeps, Zenon

-----------------------------------------------------------------------------
(* Settlement *)

\* The claim of a call the round owes becomes terminal; its output may be on the
\* way to the head.
Retention(o) ==
    /\ o \in pending
    /\ claim' \in [Ops -> {"none", "pending", "settled", "interrupted"}] /\ claim'[o] \in Terminal
    /\ \A p \in Ops : p # o => claim'[p] = claim[p]
    /\ UNCHANGED <<way, written, settled, response, final, shown, issuedAt, published, inbox, job,
                   starts, pc, current, pending, calls, waitCall, deferred, replaying>>
    /\ pc \notin {"claim", "register"}
    /\ \/ storing' = storing
       \/ storing' = o /\ pc \in {"serial", "drain", "resume", "boundary"}

\* Retaining an output publishes nothing, and the call stays owed.
LEMMA RetentionKeeps ==
    ASSUME EngineInv, NEW o, Retention(o)
    PROVE  EngineInv'
  <1>1. /\ o \in pending /\ o \in Ops /\ issuedAt[o] # 0 /\ published[o] = {} /\ o \notin replaying
    BY Zenon DEF Retention, EngineInv, EngineTypeOK, PendingClaimed, Untouched, Fresh, ReplayTerminal
  <1>2. claim'[o] \in Terminal /\ claim'[o] # "none" /\ \A p \in Ops : p # o => claim'[p] = claim[p]
    BY Zenon DEF Retention, Terminal
  <1>3. UNCHANGED <<way, written, settled, response, final, shown, issuedAt, published, inbox, job,
                    starts, pc, current, pending, calls, waitCall, deferred, replaying>>
    BY Zenon DEF Retention
  <1>4. EngineTypeOK' /\ LocalsTyped'
    <2>1. claim' \in [Ops -> {"none", "pending", "settled", "interrupted"}]
          /\ (storing' = storing \/ storing' \in Ops \cup {NoOp})
      BY <1>1, Zenon DEF Retention
    <2> QED
      BY <1>3, <2>1, TypesKept, Zenon
  <1>5. Untouched'
    BY <1>1, <1>2, <1>3, Zenon DEF EngineInv, Untouched, Fresh
  <1>6. Dispatching'
    BY Zenon, <1>3 DEF Retention, EngineInv, Dispatching
  <1>7. PendingClaimed'
    BY <1>2, <1>3, Zenon DEF EngineInv, EngineTypeOK, PendingClaimed
  <1>8. ReplayTerminal'
    BY <1>1, <1>2, <1>3, Zenon DEF EngineInv, LocalsTyped, ReplayTerminal
  <1>9. StoringSettled'
    <2>1. CASE storing' = storing
      <3>1. storing # NoOp => /\ storing \in pending /\ storing \in Ops /\ claim[storing] \in Terminal
                              /\ pc \in {"serial", "drain", "resume", "boundary"}
        BY Zenon DEF EngineInv, StoringSettled, EngineTypeOK
      <3> QED
        BY <1>2, <1>3, <2>1, <3>1, Zenon DEF StoringSettled
    <2>2. CASE storing' = o /\ pc \in {"serial", "drain", "resume", "boundary"}
      BY <1>1, <1>2, <1>3, <2>2, Zenon DEF StoringSettled
    <2> QED
      BY <2>1, <2>2, Zenon DEF Retention
  <1>10. OutputOnce'
    BY <1>1, <1>2, <1>3, Zenon DEF EngineInv, OutputOnce, Terminal
  <1> QED
    BY <1>3, <1>4, <1>5, <1>6, <1>7, <1>8, <1>9, <1>10, Frames, InvParts, Zenon

\* Each step that settles a claim is a retention.
LEMMA SettlementsKeep ==
    ASSUME EngineInv, WaitSettled \/ \E o \in Ops : SettleClaim(o) \/ RetainOutput(o)
    PROVE  EngineInv'
  <1>1. claim \in [Ops -> {"none", "pending", "settled", "interrupted"}]
        /\ pending \subseteq Ops /\ \A o \in pending : claim[o] # "none"
    BY Zenon DEF EngineInv, EngineTypeOK, PendingClaimed
  <1>2. ASSUME NEW o \in Ops, SettleClaim(o)
        PROVE  Retention(o)
    <2>1. /\ o \in pending /\ storing' = o
          /\ claim' = [claim EXCEPT ![o] = IF @ = "pending" THEN "settled" ELSE @]
          /\ UNCHANGED <<way, written, settled, response, final, shown, issuedAt, published, inbox, job,
                         starts, pc, current, pending, calls, waitCall, deferred, replaying>>
      BY <1>2, Zenon DEF SettleClaim, jobs
    <2>2. pc \in {"serial", "drain", "resume", "boundary"}
      BY <1>2, Zenon DEF SettleClaim, Persisting
    <2>3. /\ claim' \in [Ops -> {"none", "pending", "settled", "interrupted"}]
          /\ claim'[o] \in Terminal /\ \A p \in Ops : p # o => claim'[p] = claim[p]
      BY Zenon, <1>1, <2>1 DEF Terminal
    <2>4. pc \notin {"claim", "register"}
      BY Zenon, <2>2
    <2> QED
      BY <2>1, <2>2, <2>3, <2>4, Zenon DEF Retention
  <1>3. ASSUME NEW o \in Ops, RetainOutput(o)
        PROVE  Retention(o)
    <2>1. /\ pc = "stream" /\ o \in pending /\ claim' = [claim EXCEPT ![o] = "settled"]
          /\ UNCHANGED <<way, written, settled, response, final, shown, issuedAt, published, inbox, job,
                         starts, pc, current, storing, pending, calls, waitCall, deferred, replaying>>
      BY <1>3, Zenon DEF RetainOutput, jobs, round
    <2>2. /\ claim' \in [Ops -> {"none", "pending", "settled", "interrupted"}]
          /\ claim'[o] \in Terminal /\ \A p \in Ops : p # o => claim'[p] = claim[p]
      BY Zenon, <1>1, <2>1 DEF Terminal
    <2>3. pc \notin {"claim", "register"}
      BY Zenon, <2>1
    <2> QED
      BY <2>1, <2>2, <2>3, Zenon DEF Retention
  <1>4. ASSUME WaitSettled
        PROVE  Retention(waitCall)
    <2>1. /\ pc = "resume" /\ waitCall \in pending /\ storing' = waitCall
          /\ claim' = [claim EXCEPT ![waitCall] = "settled"]
          /\ UNCHANGED <<way, written, settled, response, final, shown, issuedAt, published, inbox, job,
                         starts, pc, current, pending, calls, waitCall, deferred, replaying>>
      BY <1>4, Zenon DEF WaitSettled, jobs
    <2>2. /\ claim' \in [Ops -> {"none", "pending", "settled", "interrupted"}]
          /\ claim'[waitCall] \in Terminal /\ \A p \in Ops : p # waitCall => claim'[p] = claim[p]
      BY Zenon, <1>1, <2>1 DEF Terminal
    <2>3. pc \notin {"claim", "register"} /\ pc \in {"serial", "drain", "resume", "boundary"}
      BY Zenon, <2>1
    <2> QED
      BY <2>1, <2>2, <2>3, Zenon DEF Retention
  <1> QED
    BY <1>2, <1>3, <1>4, RetentionKeeps, Zenon

-----------------------------------------------------------------------------
(* A model request *)

\* Every synchronous and serial call of the earlier responses has its output in
\* the history when the next request is sealed.
LEMMA ReadyShown ==
    ASSUME EngineInv, pc = "ready", NEW o \in Ops, way[o] \in {"sync", "serial"}, issuedAt[o] # 0
    PROVE  published[o] # {}
  <1>1. o \notin pending
    BY Zenon, AfterSerial DEF EngineInv, Settling
  <1>2. o \notin replaying /\ ~deferred
    BY Zenon, AfterSerial, Quiescent
  <1>3. Owed(o) => o \in pending \cup replaying \/ deferred
    BY Zenon DEF EngineInv, OwedKnown, Active
  <1> QED
    BY <1>1, <1>2, <1>3, Zenon DEF Owed

\* A request is sealed with every output it must show.
LEMMA IssueKeeps ==
    ASSUME EngineInv, Issue
    PROVE  EngineInv'
  <1>1. /\ pc = "ready" /\ pc' = "stream"
        /\ response' = [response EXCEPT ![written] = "streaming"]
        /\ shown' = [shown EXCEPT ![written] = {o \in Ops : published[o] # {}}]
        /\ UNCHANGED <<way, written, settled, final, issuedAt, claim, published, job, starts, current,
                       storing, pending, calls, waitCall, deferred, replaying>>
    BY Zenon DEF Issue, Goto, jobs
  <1>2. written \in Requests
    BY <1>1, Quiescent DEF EngineInv, EngineTypeOK, Requests
  <1>3. /\ response \in [Requests -> {"none", "streaming", "completed", "stopped"}]
        /\ shown \in [Requests -> SUBSET Ops] /\ issuedAt \in [Ops -> 0..MaxRequests]
    BY Zenon DEF EngineInv, EngineTypeOK, LocalsTyped
  <1>4. /\ response' \in [Requests -> {"none", "streaming", "completed", "stopped"}]
        /\ shown' \in [Requests -> SUBSET Ops]
        /\ shown'[written] = {o \in Ops : published[o] # {}}
        /\ \A r \in Requests : r # written => response'[r] = response[r] /\ shown'[r] = shown[r]
    BY Zenon, <1>1, <1>2, <1>3
  <1>5. EngineTypeOK' /\ LocalsTyped'
    <2>1. inbox' \in [Mails -> {"unsent", "unread", "attached", "delivered"}]
      BY Zenon DEF Issue, EngineInv, EngineTypeOK
    <2>2. pc' \in Active \cup {"idle", "recover", "refused", "done", "cleanup"}
      BY Zenon, <1>1 DEF Active
    <2> QED
      BY <1>1, <1>4, <2>1, <2>2, TypesKept, Zenon
  <1>6. /\ (\A o \in pending : way[o] # "serial") /\ ~deferred /\ storing = NoOp
        /\ replaying = {} /\ written # settled
    BY Zenon, <1>1, AfterSerial, Quiescent
  <1>7. Dispatching' /\ Settling'
    <2>1. response'[written] # "none"
      BY Zenon, <1>1, <1>2, <1>3
    <2> QED
      BY Zenon, <1>1, <1>6, <2>1 DEF Dispatching, Settling
  <1>8. ReplayTerminal' /\ StoringSettled' /\ SerialQueued'
    BY <1>1, <1>6, Zenon DEF ReplayTerminal, StoringSettled, SerialQueued
  <1>9. OwedKnown'
    <2>1. \A o \in Ops : Owed(o)' <=> Owed(o)
      BY <1>1, Zenon DEF Owed
    <2>2. OwedKnown /\ pc \in Active /\ pc # "claim" /\ pc' # "done"
      BY Zenon, <1>1 DEF EngineInv, Active
    <2> QED
      BY <1>1, <1>6, <2>1, <2>2, Zenon DEF OwedKnown
  <1>10. IssuedWritten'
    <2>1. written <= written
      BY <1>2 DEF Requests
    <2> QED
      BY <1>1, <1>4, <2>1, Zenon DEF EngineInv, IssuedWritten
  <1>11. SyncCallsShown'
    <2> SUFFICES ASSUME NEW r \in Requests, response'[r] # "none", NEW o \in Ops,
                        way[o] \in {"sync", "serial"}, issuedAt[o] \in 1..(r - 1)
                 PROVE  o \in shown'[r]
      BY <1>1, Zenon DEF SyncCallsShown
    <2>1. CASE r # written
      BY <1>4, <2>1, Zenon DEF EngineInv, SyncCallsShown
    <2>2. CASE r = written
      <3>1. issuedAt[o] # 0
        BY <1>3
      <3>2. published[o] # {}
        BY <1>1, <3>1, ReadyShown, Zenon
      <3> QED
        BY <1>4, <2>2, <3>2, Zenon
    <2> QED
      BY <2>1, <2>2, Zenon
  <1> QED
    BY <1>1, <1>5, <1>7, <1>8, <1>9, <1>10, <1>11, Frames, InvParts, Zenon

\* A call that becomes an item of the response is dispatched next, unless the round
\* will fail when the response ends.
LEMMA CallItemKeeps ==
    ASSUME EngineInv, NEW o \in Ops, CallItem(o)
    PROVE  EngineInv'
  <1>1. /\ pc = "stream" /\ issuedAt[o] = 0 /\ issuedAt' = [issuedAt EXCEPT ![o] = written]
        /\ \/ deferred /\ UNCHANGED <<pc, current>>
           \/ ~deferred /\ pc' = "claim" /\ current' = o
        /\ UNCHANGED <<way, written, settled, response, final, shown, claim, published, inbox, job,
                       starts, storing, pending, calls, waitCall, deferred, replaying>>
    BY Zenon DEF CallItem, jobs
  <1>2. written \in Requests /\ written \in 0..MaxRequests /\ written # 0
    BY <1>1, Quiescent DEF EngineInv, EngineTypeOK, Requests
  <1>3. issuedAt \in [Ops -> 0..MaxRequests]
    BY Zenon DEF EngineInv, EngineTypeOK
  <1>4. /\ issuedAt' \in [Ops -> 0..MaxRequests] /\ issuedAt'[o] = written
        /\ \A p \in Ops : p # o => issuedAt'[p] = issuedAt[p]
    BY Zenon, <1>1, <1>2, <1>3
  <1>5. Fresh(o)
    BY <1>1, Zenon DEF EngineInv, Untouched
  <1>6. EngineTypeOK' /\ LocalsTyped'
    <2>1. pc' = pc \/ pc' \in Active \cup {"idle", "recover", "refused", "done", "cleanup"}
      BY Zenon, <1>1 DEF Active
    <2>2. current' = current \/ current' \in Ops \cup {NoOp}
      BY <1>1, Zenon
    <2> QED
      BY <1>1, <1>4, <2>1, <2>2, TypesKept, Zenon
  <1>7. storing = NoOp /\ replaying = {} /\ written # settled
    BY Zenon, <1>1, Quiescent
  <1>8. Untouched'
    BY <1>1, <1>2, <1>4, Zenon DEF EngineInv, Untouched, Fresh
  <1>9. Dispatching'
    <2>1. response[written] # "none"
      BY Zenon, <1>1 DEF EngineInv, Dispatching
    <2> QED
      BY Zenon, <1>1, <1>2, <1>4, <1>5, <2>1 DEF Dispatching, Fresh
  <1>10. ReplayTerminal' /\ StoringSettled'
    BY <1>1, <1>7, Zenon DEF ReplayTerminal, StoringSettled
  <1>11. SerialQueued'
    <2>1. \A p \in pending : way[p] = "serial" => \E i \in Queued : calls[i] = p
      BY Zenon, <1>1 DEF EngineInv, SerialQueued
    <2>2. Queued' = Queued /\ pc' \in {"stream", "claim", "register", "post", "serial"}
      BY Zenon, <1>1 DEF Queued
    <2> QED
      BY <1>1, <2>1, <2>2, Zenon DEF SerialQueued
  <1>12. OwedKnown'
    <2>1. \A p \in Ops : Owed(p)' => p = o \/ Owed(p)
      BY <1>1, <1>4, Zenon DEF Owed
    <2>2. OwedKnown /\ pc \in Active /\ pc # "claim" /\ pc' # "done"
      BY Zenon, <1>1 DEF EngineInv, Active
    <2> QED
      BY Zenon, <1>1, <1>7, <2>1, <2>2 DEF OwedKnown
  <1>13. Settling'
    BY Zenon, <1>1, <1>7 DEF EngineInv, Settling
  <1>14. SyncCallsShown'
    <2>1. \A r \in Requests : response[r] # "none" => written \notin 1..(r - 1)
      BY <1>2 DEF EngineInv, IssuedWritten, Requests
    <2> QED
      BY <1>1, <1>4, <2>1, Zenon DEF EngineInv, SyncCallsShown
  <1> QED
    BY <1>1, <1>6, <1>8, <1>9, <1>10, <1>11, <1>12, <1>13, <1>14, Frames, InvParts, Zenon

\* A refused call is owed by a round that is going to fail.
LEMMA DispatchRefusedKeeps ==
    ASSUME EngineInv, DispatchRefused
    PROVE  EngineInv'
  <1>1. /\ pc = "claim" /\ deferred' = TRUE /\ pc' = "stream" /\ current' = NoOp
        /\ UNCHANGED <<way, written, settled, response, final, shown, issuedAt, claim, published, inbox,
                       job, starts, storing, pending, calls, waitCall, replaying>>
    BY Zenon DEF DispatchRefused, store, jobs
  <1>2. storing = NoOp /\ replaying = {} /\ written # settled
    BY Zenon, <1>1, Quiescent
  <1>3. EngineTypeOK' /\ LocalsTyped'
    <2>1. pc' \in Active \cup {"idle", "recover", "refused", "done", "cleanup"}
      BY Zenon, <1>1 DEF Active
    <2> QED
      BY <1>1, <2>1, TypesKept, Zenon
  <1>4. Dispatching' /\ Settling'
    BY Zenon, <1>1, <1>2 DEF EngineInv, Dispatching, Settling
  <1>5. ReplayTerminal' /\ StoringSettled'
    BY <1>1, <1>2, Zenon DEF ReplayTerminal, StoringSettled
  <1>6. SerialQueued'
    <2>1. \A p \in pending : way[p] = "serial" => \E i \in Queued : calls[i] = p
      BY Zenon, <1>1 DEF EngineInv, SerialQueued
    <2>2. Queued' = Queued
      BY <1>1, Zenon DEF Queued
    <2> QED
      BY <1>1, <2>1, <2>2, Zenon DEF SerialQueued
  <1>7. OwedKnown'
    BY Zenon, <1>1, <1>2 DEF OwedKnown
  <1> QED
    BY <1>1, <1>3, <1>4, <1>5, <1>6, <1>7, Frames, InvParts, Zenon

\* A claimed call is owed by the round; it is registered next, unless it is a wait.
LEMMA ClaimCallKeeps ==
    ASSUME EngineInv, ClaimCall
    PROVE  EngineInv'
  <1>1. /\ pc = "claim" /\ claim' = [claim EXCEPT ![current] = "pending"]
        /\ pending' = pending \cup {current} /\ calls' = Append(calls, current)
        /\ \/ /\ way[current] = "yield" /\ pc' = "stream" /\ current' = NoOp
              /\ waitCall' = waitCall \/ waitCall' = current
           \/ pc' = "register" /\ UNCHANGED <<current, deferred, waitCall>>
        /\ UNCHANGED <<way, written, settled, response, final, shown, issuedAt, published, inbox, job,
                       starts, storing, replaying>>
    BY Zenon DEF ClaimCall, jobs
  <1>2. /\ current \in Ops /\ issuedAt[current] # 0 /\ starts[current] = 0 /\ published[current] = {}
        /\ claim[current] = "none" /\ response[written] # "none"
    BY Zenon, <1>1 DEF EngineInv, Dispatching
  <1>3. storing = NoOp /\ replaying = {} /\ written # settled
    BY Zenon, <1>1, Quiescent
  <1>4. /\ claim \in [Ops -> {"none", "pending", "settled", "interrupted"}]
        /\ calls \in Seq(Ops) /\ pending \subseteq Ops
    BY Zenon DEF EngineInv, EngineTypeOK, LocalsTyped
  <1>5. /\ claim' \in [Ops -> {"none", "pending", "settled", "interrupted"}]
        /\ claim'[current] = "pending" /\ \A p \in Ops : p # current => claim'[p] = claim[p]
    BY Zenon, <1>1, <1>2, <1>4
  <1>6. /\ calls' \in Seq(Ops) /\ Len(calls) + 1 \in DOMAIN calls' /\ calls'[Len(calls) + 1] = current
        /\ \A i \in DOMAIN calls : i \in DOMAIN calls' /\ calls'[i] = calls[i]
    BY <1>1, <1>2, <1>4
  <1>7. EngineTypeOK' /\ LocalsTyped'
    <2>1. pc' \in Active \cup {"idle", "recover", "refused", "done", "cleanup"}
      BY Zenon, <1>1 DEF Active
    <2>2. /\ current' = current \/ current' \in Ops \cup {NoOp}
          /\ waitCall' = waitCall \/ waitCall' \in Ops \cup {NoOp}
          /\ pending' \subseteq Ops
      BY <1>1, <1>2, <1>4, Zenon
    <2> QED
      BY <1>1, <1>5, <1>6, <2>1, <2>2, TypesKept, Zenon
  <1>8. Untouched'
    BY <1>1, <1>2, <1>5, Zenon DEF EngineInv, Untouched, Fresh
  <1>9. Dispatching'
    BY Zenon, <1>1, <1>2, <1>6 DEF Dispatching
  <1>10. PendingClaimed'
    <2>1. claim'[current] # "none"
      BY Zenon, <1>5
    <2> QED
      BY <1>1, <1>2, <1>4, <1>5, <2>1, Zenon DEF EngineInv, PendingClaimed
  <1>11. ReplayTerminal' /\ StoringSettled'
    BY <1>1, <1>3, Zenon DEF ReplayTerminal, StoringSettled
  <1>12. SerialQueued'
    <2>1. \A p \in pending : way[p] = "serial" => \E i \in Queued : calls[i] = p
      BY Zenon, <1>1 DEF EngineInv, SerialQueued
    <2>2. \A i \in Queued : i \in Queued' /\ calls'[i] = calls[i]
      BY <1>1, <1>6, Zenon DEF Queued
    <2>3. pc' \in {"stream", "claim", "register", "post", "serial"}
      BY Zenon, <1>1
    <2>4. way[current] = "serial" => pc' \in {"register", "serial"} /\ current' = current
      BY Zenon, <1>1
    <2>5. way' = way /\ pending' = pending \cup {current}
      BY <1>1, Zenon
    <2> QED
      BY <2>1, <2>2, <2>3, <2>4, <2>5, Zenon DEF SerialQueued
  <1>13. OwedKnown'
    <2>1. \A p \in Ops : Owed(p)' => Owed(p)
      BY <1>1, Zenon DEF Owed
    <2>2. OwedKnown /\ pc \in Active /\ pc' # "done" /\ ~deferred
      BY Zenon, <1>1 DEF EngineInv, Active, Settling
    <2> QED
      BY <1>1, <1>3, <2>1, <2>2, Zenon DEF OwedKnown
  <1>14. Settling'
    BY <1>1, <1>3 DEF EngineInv, Settling
  <1>15. OutputOnce'
    BY <1>1, <1>2, <1>5, Zenon DEF EngineInv, OutputOnce
  <1> QED
    BY <1>1, <1>7, <1>8, <1>9, <1>10, <1>11, <1>12, <1>13, <1>14, <1>15, Frames, InvParts, Zenon

\* A registered call starts, or is queued behind the response.
LEMMA RegisterKeeps ==
    ASSUME EngineInv, Register
    PROVE  EngineInv'
  <1>1. /\ pc = "register" /\ pc' = "stream" /\ current' = NoOp
        /\ job' = [job EXCEPT ![current] = IF way[current] = "serial" THEN "held" ELSE "running"]
        /\ starts' = [starts EXCEPT ![current] = IF way[current] = "serial" THEN @ ELSE @ + 1]
        /\ UNCHANGED <<way, written, settled, response, final, shown, issuedAt, claim, published, inbox,
                       storing, pending, calls, waitCall, deferred, replaying>>
    BY Zenon DEF Register, store
  <1>2. /\ current \in Ops /\ issuedAt[current] # 0 /\ starts[current] = 0
        /\ response[written] # "none" /\ \E i \in DOMAIN calls : calls[i] = current
    BY Zenon, <1>1 DEF EngineInv, Dispatching
  <1>3. storing = NoOp /\ replaying = {} /\ written # settled
    BY Zenon, <1>1, Quiescent
  <1>4. job \in [Ops -> {"none", "held", "running", "done"}] /\ starts \in [Ops -> Nat]
    BY Zenon DEF EngineInv, EngineTypeOK, LocalsTyped
  <1>5. /\ job' \in [Ops -> {"none", "held", "running", "done"}] /\ starts' \in [Ops -> Nat]
        /\ \A p \in Ops : p # current => job'[p] = job[p] /\ starts'[p] = starts[p]
        /\ starts'[current] <= 1 /\ (job'[current] = "held" => starts'[current] = 0)
        /\ way[current] = "serial" => job'[current] = "held"
    BY <1>1, <1>2, <1>4
  <1>6. EngineTypeOK' /\ LocalsTyped'
    <2>1. pc' \in Active \cup {"idle", "recover", "refused", "done", "cleanup"}
      BY Zenon, <1>1 DEF Active
    <2> QED
      BY <1>1, <1>5, <2>1, TypesKept, Zenon
  <1>7. Untouched'
    BY <1>1, <1>2, <1>5, Zenon DEF EngineInv, Untouched, Fresh
  <1>8. Dispatching' /\ Settling'
    BY Zenon, <1>1, <1>2, <1>3 DEF EngineInv, Dispatching, Settling
  <1>9. ReplayTerminal' /\ StoringSettled'
    BY <1>1, <1>3, Zenon DEF ReplayTerminal, StoringSettled
  <1>10. HeldUnstarted' /\ EffectOnce'
    BY <1>5, Zenon DEF EngineInv, HeldUnstarted, EffectOnce
  <1>11. SerialQueued'
    <2>1. \A p \in pending : way[p] = "serial" => p = current \/ \E i \in Queued : calls[i] = p
      BY Zenon, <1>1 DEF EngineInv, SerialQueued
    <2>2. pending \subseteq Ops
      BY Zenon DEF EngineInv, EngineTypeOK
    <2>3. \A i \in DOMAIN calls : job'[calls[i]] = "held" => i \in Queued'
      BY <1>1, Zenon DEF Queued
    <2>4. ASSUME NEW p \in pending, way[p] = "serial"
          PROVE  \E i \in Queued' : calls[i] = p
      <3>1. CASE p = current
        BY <1>2, <1>5, <2>3, <2>4, <3>1, Zenon
      <3>2. CASE p # current
        <4>1. PICK i \in DOMAIN calls : job[calls[i]] = "held" /\ calls[i] = p
          BY <2>1, <2>4, <3>2, Zenon DEF Queued
        <4> QED
          BY <1>5, <2>2, <2>3, <3>2, <4>1, Zenon
      <3> QED
        BY <3>1, <3>2, Zenon
    <2> QED
      BY <1>1, <2>4, Zenon DEF SerialQueued
  <1>12. OwedKnown'
    <2>1. \A p \in Ops : Owed(p)' <=> Owed(p)
      BY <1>1, Zenon DEF Owed
    <2>2. OwedKnown /\ pc \in Active /\ pc # "claim" /\ pc' # "done"
      BY Zenon, <1>1 DEF EngineInv, Active
    <2> QED
      BY Zenon, <1>1, <1>3, <2>1, <2>2 DEF OwedKnown
  <1> QED
    BY <1>1, <1>6, <1>7, <1>8, <1>9, <1>10, <1>11, <1>12, Frames, InvParts, Zenon

\* The response of an issued request changes no more than its outcome.
LEMMA OutcomeKeeps ==
    ASSUME EngineInv, pc = "stream", NEW how \in {"completed", "stopped"},
           response' = [response EXCEPT ![written] = how],
           UNCHANGED <<way, written, issuedAt, shown>>
    PROVE  /\ response' \in [Requests -> {"none", "streaming", "completed", "stopped"}]
           /\ IssuedWritten' /\ SyncCallsShown'
  <1>1. response[written] # "none" /\ written \in Requests
    BY Quiescent DEF EngineInv, Dispatching, EngineTypeOK, Requests
  <1>2. response \in [Requests -> {"none", "streaming", "completed", "stopped"}]
    BY Zenon DEF EngineInv, EngineTypeOK
  <1>3. /\ response' \in [Requests -> {"none", "streaming", "completed", "stopped"}]
        /\ \A r \in Requests : response'[r] # "none" => response[r] # "none"
    BY Zenon, <1>1, <1>2
  <1>4. IssuedWritten' /\ SyncCallsShown'
    BY <1>3, Zenon DEF EngineInv, IssuedWritten, SyncCallsShown
  <1> QED
    BY Zenon, <1>3, <1>4

\* The end of a response hands its calls on, or fails the round.
LEMMA RespondKeeps ==
    ASSUME EngineInv, NEW isFinal \in BOOLEAN, Respond(isFinal)
    PROVE  EngineInv'
  <1>1. /\ pc = "stream" /\ response' = [response EXCEPT ![written] = "completed"]
        /\ final' = final \/ final' = final \cup {written}
        /\ pc' = IF deferred THEN "cleanup" ELSE "post"
        /\ UNCHANGED <<way, written, settled, shown, issuedAt, claim, published, inbox, job, starts,
                       current, storing, pending, calls, waitCall, deferred, replaying>>
    BY Zenon DEF Respond, jobs
  <1>2. /\ response' \in [Requests -> {"none", "streaming", "completed", "stopped"}]
        /\ IssuedWritten' /\ SyncCallsShown'
    BY Zenon, <1>1, OutcomeKeeps
  <1>3. storing = NoOp /\ replaying = {} /\ written # settled
    BY Zenon, <1>1, Quiescent
  <1>4. EngineTypeOK' /\ LocalsTyped'
    <2>1. pc' \in Active \cup {"idle", "recover", "refused", "done", "cleanup"}
      BY Zenon, <1>1 DEF Active
    <2>2. final' = final \/ final' \subseteq Requests
      <3>1. written \in Requests
        BY <1>3 DEF EngineInv, EngineTypeOK, Requests
      <3>2. final \subseteq Requests
        BY Zenon DEF EngineInv, EngineTypeOK
      <3> QED
        BY <1>1, <3>1, <3>2, Zenon
    <2> QED
      BY <1>1, <1>2, <2>1, <2>2, TypesKept, Zenon
  <1>5. Dispatching' /\ Settling'
    BY Zenon, <1>1, <1>3 DEF Dispatching, Settling
  <1>6. ReplayTerminal' /\ StoringSettled'
    BY <1>1, <1>3, Zenon DEF ReplayTerminal, StoringSettled
  <1>7. SerialQueued'
    <2>1. \A p \in pending : way[p] = "serial" => \E i \in Queued : calls[i] = p
      BY Zenon, <1>1 DEF EngineInv, SerialQueued
    <2>2. Queued' = Queued
      BY <1>1, Zenon DEF Queued
    <2>3. pc' = "cleanup" \/ pc' \in {"stream", "claim", "register", "post", "serial"}
      BY Zenon, <1>1
    <2> QED
      BY <1>1, <2>1, <2>2, <2>3, Zenon DEF SerialQueued
  <1>8. OwedKnown'
    <2>1. \A p \in Ops : Owed(p)' <=> Owed(p)
      BY <1>1, Zenon DEF Owed
    <2>2. OwedKnown /\ pc \in Active /\ pc # "claim" /\ pc' # "done" /\ (pc' \in Active => ~deferred)
      BY Zenon, <1>1 DEF EngineInv, Active
    <2> QED
      BY Zenon, <1>1, <1>3, <2>1, <2>2 DEF OwedKnown
  <1> QED
    BY <1>1, <1>2, <1>4, <1>5, <1>6, <1>7, <1>8, Frames, InvParts, Zenon

-----------------------------------------------------------------------------
(* After the response *)

\* A queued call is released once: it has not run, and is queued no more.
LEMMA ReleaseSerialKeeps ==
    ASSUME EngineInv, ReleaseSerial
    PROVE  EngineInv'
  <1>1. PICK i \in Queued : /\ job' = [job EXCEPT ![calls[i]] = "running"]
                            /\ starts' = [starts EXCEPT ![calls[i]] = @ + 1]
                            /\ current' = calls[i]
    BY Zenon DEF ReleaseSerial
  <1> DEFINE o == calls[i]
  <1>2. /\ pc = "post" /\ pc' = "serial"
        /\ UNCHANGED <<way, written, settled, response, final, shown, issuedAt, claim, published, inbox,
                       storing, pending, calls, waitCall, deferred, replaying>>
    BY Zenon DEF ReleaseSerial, store
  <1>3. /\ job \in [Ops -> {"none", "held", "running", "done"}] /\ starts \in [Ops -> Nat]
        /\ calls \in Seq(Ops) /\ pending \subseteq Ops
    BY Zenon DEF EngineInv, EngineTypeOK, LocalsTyped
  <1>4. o \in Ops /\ job[o] = "held"
    BY <1>1, <1>3 DEF Queued
  <1>5. starts[o] = 0 /\ issuedAt[o] # 0
    BY <1>4, Zenon DEF EngineInv, HeldUnstarted, Untouched, Fresh
  <1> HIDE DEF o
  <1>6. /\ job' = [job EXCEPT ![o] = "running"] /\ starts' = [starts EXCEPT ![o] = @ + 1]
        /\ current' = o
    BY <1>1, Zenon DEF o
  <1>7. /\ job' \in [Ops -> {"none", "held", "running", "done"}] /\ starts' \in [Ops -> Nat]
        /\ \A p \in Ops : p # o => job'[p] = job[p] /\ starts'[p] = starts[p]
        /\ starts'[o] <= 1 /\ job'[o] # "held"
    BY <1>3, <1>4, <1>5, <1>6
  <1>8. replaying = {} /\ storing = NoOp /\ written # settled
    BY Zenon, <1>2, Quiescent
  <1>9. EngineTypeOK' /\ LocalsTyped'
    <2>1. pc' \in Active \cup {"idle", "recover", "refused", "done", "cleanup"}
          /\ current' \in Ops \cup {NoOp}
      BY Zenon, <1>2, <1>4, <1>6 DEF Active
    <2> QED
      BY <1>2, <1>7, <2>1, TypesKept, Zenon
  <1>10. Untouched'
    BY <1>2, <1>5, <1>7, Zenon DEF EngineInv, Untouched, Fresh
  <1>11. Dispatching' /\ Settling'
    BY Zenon, <1>2, <1>8 DEF EngineInv, Dispatching, Settling
  <1>12. ReplayTerminal' /\ StoringSettled'
    BY <1>2, <1>8, Zenon DEF ReplayTerminal, StoringSettled
  <1>13. HeldUnstarted' /\ EffectOnce'
    BY <1>7, Zenon DEF EngineInv, HeldUnstarted, EffectOnce
  <1>14. SerialQueued'
    <2>1. \A p \in pending : way[p] = "serial" => \E k \in Queued : calls[k] = p
      BY Zenon, <1>2 DEF EngineInv, SerialQueued
    <2>2. \A k \in DOMAIN calls : job'[calls[k]] = "held" => k \in Queued'
      BY <1>2, Zenon DEF Queued
    <2>3. ASSUME NEW p \in pending, way[p] = "serial", p # o
          PROVE  \E k \in Queued' : calls[k] = p
      <3>1. PICK k \in DOMAIN calls : job[calls[k]] = "held" /\ calls[k] = p
        BY <2>1, <2>3, Zenon DEF Queued
      <3> QED
        BY <1>3, <1>7, <2>2, <2>3, <3>1, Zenon
    <2> QED
      BY <1>2, <1>6, <2>3, Zenon DEF SerialQueued
  <1>15. OwedKnown'
    <2>1. \A p \in Ops : Owed(p)' <=> Owed(p)
      BY <1>2, Zenon DEF Owed
    <2>2. OwedKnown /\ pc \in Active /\ pc # "claim" /\ pc' # "done"
      BY Zenon, <1>2 DEF EngineInv, Active
    <2> QED
      BY Zenon, <1>2, <1>8, <2>1, <2>2 DEF OwedKnown
  <1> QED
    BY <1>2, <1>9, <1>10, <1>11, <1>12, <1>13, <1>14, <1>15, Frames, InvParts, Zenon

-----------------------------------------------------------------------------
(* Failure *)

\* A round that fails keeps its calls for the cleanup.
LEMMA FailKeeps ==
    ASSUME EngineInv, Fail
    PROVE  EngineInv'
  <1>1. /\ pc' = "cleanup" /\ storing' = NoOp
        /\ \/ response' = response
           \/ pc = "stream" /\ response' = [response EXCEPT ![written] = "stopped"]
        /\ UNCHANGED <<way, written, settled, final, shown, issuedAt, claim, published, inbox, job,
                       starts, current, pending, calls, waitCall, deferred, replaying>>
    BY Zenon DEF Fail, jobs
  <1>2. /\ response' = response
             \/ response' \in [Requests -> {"none", "streaming", "completed", "stopped"}]
        /\ IssuedWritten' /\ SyncCallsShown'
    <2>1. CASE response' = response
      BY <1>1, <2>1, Frames, Zenon
    <2>2. CASE pc = "stream" /\ response' = [response EXCEPT ![written] = "stopped"]
      BY Zenon, <1>1, <2>2, OutcomeKeeps
    <2> QED
      BY <1>1, <2>1, <2>2, Zenon
  <1>3. EngineTypeOK' /\ LocalsTyped'
    BY <1>1, <1>2, TypesKept, Zenon
  <1>4. Dispatching' /\ Settling'
    BY Zenon, <1>1 DEF EngineInv, Dispatching, Settling
  <1>5. ReplayTerminal' /\ StoringSettled' /\ SerialQueued'
    BY <1>1, Zenon DEF EngineInv, ReplayTerminal, StoringSettled, SerialQueued
  <1>6. OwedKnown'
    <2>1. \A p \in Ops : Owed(p)' <=> Owed(p)
      BY <1>1, Zenon DEF Owed
    <2>2. pc' \notin Active /\ pc' # "done"
      BY Zenon, <1>1 DEF Active
    <2> QED
      BY <1>1, <2>1, <2>2, Zenon DEF EngineInv, OwedKnown
  <1> QED
    BY <1>1, <1>2, <1>3, <1>4, <1>5, <1>6, Frames, InvParts, Zenon

\* A buffered call of a stopped response is an item of it, and is never run.
LEMMA RetainTailKeeps ==
    ASSUME EngineInv, NEW o \in Ops, RetainTail(o)
    PROVE  EngineInv'
  <1>1. /\ pc = "cleanup" /\ pending # {} /\ issuedAt[o] = 0 /\ written > 0
        /\ issuedAt' = [issuedAt EXCEPT ![o] = written] /\ claim' = [claim EXCEPT ![o] = "interrupted"]
        /\ UNCHANGED <<way, written, settled, response, final, shown, published, inbox, job, starts,
                       pc, current, storing, pending, calls, waitCall, deferred, replaying>>
    BY Zenon DEF RetainTail, jobs, round
  <1>2. Fresh(o)
    BY <1>1, Zenon DEF EngineInv, Untouched
  <1>3. written \in 0..MaxRequests /\ written \in Requests
    BY <1>1 DEF EngineInv, EngineTypeOK, Requests
  <1>4. /\ issuedAt \in [Ops -> 0..MaxRequests]
        /\ claim \in [Ops -> {"none", "pending", "settled", "interrupted"}]
    BY Zenon DEF EngineInv, EngineTypeOK
  <1>5. /\ issuedAt' \in [Ops -> 0..MaxRequests] /\ issuedAt'[o] = written /\ issuedAt'[o] # 0
        /\ claim' \in [Ops -> {"none", "pending", "settled", "interrupted"}]
        /\ \A p \in Ops : p # o => issuedAt'[p] = issuedAt[p] /\ claim'[p] = claim[p]
    BY <1>1, <1>3, <1>4
  <1>6. EngineTypeOK' /\ LocalsTyped'
    BY <1>1, <1>5, TypesKept, Zenon
  <1>7. o \notin pending /\ o \notin replaying /\ published[o] = {} /\ storing = NoOp
        /\ written # settled
    BY Zenon, <1>1, <1>2, Quiescent DEF Fresh, EngineInv, Settling
  <1>8. Untouched'
    BY <1>1, <1>5, Zenon DEF EngineInv, Untouched, Fresh
  <1>9. Dispatching'
    BY Zenon, <1>1 DEF Dispatching
  <1>10. PendingClaimed' /\ ReplayTerminal' /\ StoringSettled'
    <2>1. UNCHANGED <<pc, storing, pending, replaying, published>>
      BY <1>1, Zenon
    <2>2. PendingClaimed'
      BY <1>5, <1>7, <2>1, Zenon DEF EngineInv, EngineTypeOK, PendingClaimed
    <2>3. ReplayTerminal'
      BY <1>5, <1>7, <2>1, Zenon DEF EngineInv, LocalsTyped, ReplayTerminal
    <2>4. StoringSettled'
      BY <1>7, <2>1, Zenon DEF StoringSettled
    <2> QED
      BY <2>2, <2>3, <2>4, Zenon
  <1>11. OwedKnown'
    <2>1. pc' \notin Active /\ pc' # "done"
      BY Zenon, <1>1 DEF Active
    <2> QED
      BY <1>1, <1>7, <2>1, Zenon DEF OwedKnown
  <1>12. OutputOnce'
    <2>1. published' = published
      BY <1>1, Zenon
    <2> QED
      BY <1>5, <1>7, <2>1, Zenon DEF EngineInv, OutputOnce
  <1>13. SyncCallsShown'
    <2>1. \A r \in Requests : response[r] # "none" => written \notin 1..(r - 1)
      BY <1>3 DEF EngineInv, IssuedWritten, Requests
    <2> QED
      BY <1>1, <1>5, <2>1, Zenon DEF EngineInv, SyncCallsShown
  <1> QED
    BY <1>1, <1>6, <1>8, <1>9, <1>10, <1>11, <1>12, <1>13, Frames, InvParts, Zenon

\* The cleanup leaves every claim terminal, and publishes nothing.
LEMMA CleanCallKeeps ==
    ASSUME EngineInv, NEW o \in Ops, CleanCall(o)
    PROVE  EngineInv'
  <1>1. /\ pc = "cleanup" /\ o \in pending /\ pending' = pending \ {o}
        /\ claim' = [claim EXCEPT ![o] = CASE @ # "pending" -> @
                                           [] @ = "pending" /\ job[o] = "none" -> "interrupted"
                                           [] OTHER -> "settled"]
        /\ job' = [job EXCEPT ![o] = IF @ = "none" THEN @ ELSE "done"]
        /\ UNCHANGED <<way, written, settled, response, final, shown, issuedAt, published, inbox, starts,
                       pc, current, storing, calls, waitCall, deferred, replaying>>
    BY Zenon DEF CleanCall
  <1>2. /\ claim \in [Ops -> {"none", "pending", "settled", "interrupted"}]
        /\ job \in [Ops -> {"none", "held", "running", "done"}] /\ pending \subseteq Ops
    BY Zenon DEF EngineInv, EngineTypeOK
  <1>3. claim[o] # "none" /\ published[o] = {} /\ issuedAt[o] # 0
    BY <1>1, Zenon DEF EngineInv, PendingClaimed, Untouched, Fresh
  <1>4. /\ claim' \in [Ops -> {"none", "pending", "settled", "interrupted"}]
        /\ \A p \in Ops : p # o => claim'[p] = claim[p]
    BY Zenon, <1>1, <1>2
  <1>5. /\ job' \in [Ops -> {"none", "held", "running", "done"}]
        /\ \A p \in Ops : job'[p] = "held" => job[p] = "held"
    BY Zenon, <1>1, <1>2
  <1>6. EngineTypeOK' /\ LocalsTyped'
    <2>1. pending' \subseteq Ops
      BY <1>1, <1>2, Zenon
    <2> QED
      BY <1>1, <1>4, <1>5, <2>1, TypesKept, Zenon
  <1>7. storing = NoOp /\ replaying = {} /\ written # settled
    BY Zenon, <1>1, Quiescent DEF EngineInv, ReplayTerminal, Settling
  <1>8. Untouched'
    BY <1>1, <1>3, <1>4, <1>5, Zenon DEF EngineInv, Untouched, Fresh
  <1>9. Dispatching' /\ Settling'
    BY Zenon, <1>1, <1>7 DEF EngineInv, Dispatching, Settling
  <1>10. ReplayTerminal' /\ StoringSettled' /\ SerialQueued'
    BY <1>1, <1>7, Zenon DEF ReplayTerminal, StoringSettled, SerialQueued
  <1>11. PendingClaimed'
    BY <1>1, <1>2, <1>4, Zenon DEF EngineInv, PendingClaimed
  <1>12. HeldUnstarted'
    BY <1>1, <1>5, Zenon DEF EngineInv, HeldUnstarted
  <1>13. OwedKnown'
    <2>1. pc' \notin Active /\ pc' # "done"
      BY Zenon, <1>1 DEF Active
    <2> QED
      BY <1>1, <1>7, <2>1, Zenon DEF OwedKnown
  <1>14. OutputOnce'
    <2>1. published' = published
      BY <1>1, Zenon
    <2> QED
      BY <1>3, <1>4, <2>1, Zenon DEF EngineInv, OutputOnce
  <1> QED
    BY <1>1, <1>6, <1>8, <1>9, <1>10, <1>11, <1>12, <1>13, <1>14, Frames, InvParts, Zenon

-----------------------------------------------------------------------------
(* The theorems *)

\* A conversation without requests satisfies the invariant.
LEMMA EngineStarts == EngineInit => EngineInv
  <1> SUFFICES ASSUME EngineInit
               PROVE  EngineInv
    BY Zenon
  <1>1. EngineTypeOK
    BY EngineAssumption DEF EngineInit, EngineTypeOK
  <1>2. LocalsTyped
    BY EngineAssumption DEF EngineInit, LocalsTyped, Active
  <1>3. Untouched /\ PendingClaimed /\ ReplayTerminal /\ StoringSettled /\ HeldUnstarted /\ SerialQueued
    BY Zenon
    DEF EngineInit, Untouched, Fresh, PendingClaimed, ReplayTerminal, StoringSettled,
        HeldUnstarted, SerialQueued
  <1>4. Dispatching /\ Settling
    BY Zenon DEF EngineInit, Dispatching, Settling
  <1>5. OwedKnown
    BY Zenon DEF EngineInit, OwedKnown, Owed, Active
  <1>6. IssuedWritten /\ OutputOnce /\ EffectOnce /\ SyncCallsShown
    BY DEF EngineInit, IssuedWritten, OutputOnce, EffectOnce, SyncCallsShown
  <1> QED
    BY <1>1, <1>2, <1>3, <1>4, <1>5, <1>6, Zenon DEF EngineInv

\* Every step of the loop, of the provider, of the jobs and of the senders, and every
\* failure keeps the invariant.
LEMMA EngineInductive ==
    ASSUME EngineInv, [EngineNext]_engineVars
    PROVE  EngineInv'
  <1>1. CASE UNCHANGED engineVars
    <2>1. UNCHANGED <<way, written, settled, response, final, shown, issuedAt, claim, published, inbox,
                      job, starts, pc, current, storing, pending, calls, waitCall, deferred, replaying>>
      BY <1>1, Zenon DEF engineVars, store, jobs, round
    <2>2. EngineTypeOK' /\ LocalsTyped'
      BY <2>1, TypesKept, Zenon
    <2> QED
      BY <2>1, <2>2, Frames, InvParts, Zenon
  <1>2. CASE EngineStep
    <2>1. CASE Begin \/ SettleHead \/ Cleaned
      BY <2>1, RoundsKeep, Zenon
    <2>2. CASE \/ RecoveryRefused \/ Replayed \/ AdmitMail \/ Drain \/ Drained \/ Decide
               \/ ResumeByJob \/ Resumed \/ \E m \in Mails : ResumeByWake(m)
      BY <2>2, WalksWalk, WalkKeeps, Zenon
    <2>3. CASE Recover \/ WriteRequest
      BY <2>3, RecoverKeeps, WriteRequestKeeps, Zenon
    <2>4. CASE PublishOutput \/ WaitSettled \/ \E o \in Ops : Replay(o) \/ SettleClaim(o)
      BY <2>4, PublishOutputKeeps, SettlementsKeep, ReplayKeeps, Zenon
    <2>5. CASE Issue \/ ClaimCall \/ Register \/ ReleaseSerial \/ \E o \in Ops : CleanCall(o)
      BY <2>5, IssueKeeps, ClaimCallKeeps, RegisterKeeps, ReleaseSerialKeeps, CleanCallKeeps, Zenon
    <2> QED
      BY <1>2, <2>1, <2>2, <2>3, <2>4, <2>5, Zenon DEF EngineStep
  <1>3. CASE \E m \in Mails : SendMail(m)
    BY <1>3, SendMailKeeps, Zenon
  <1>4. CASE \E o \in Ops : JobDone(o) \/ RetainOutput(o) \/ CallItem(o) \/ RetainTail(o)
    BY <1>4, JobDoneKeeps, SettlementsKeep, CallItemKeeps, RetainTailKeeps, Zenon
  <1>5. CASE \E isFinal \in BOOLEAN : Respond(isFinal)
    BY <1>5, RespondKeeps, Zenon
  <1>6. CASE ResumeByTimeout \/ DispatchRefused \/ Fail \/ Crash
    BY <1>6, WalksWalk, WalkKeeps, DispatchRefusedKeeps, FailKeeps, RoundsKeep, Zenon
  <1> QED
    BY <1>1, <1>2, <1>3, <1>4, <1>5, <1>6, Zenon DEF EngineNext

\* The invariant holds in every state of the request loop.
THEOREM EngineInvariant == EngineSpec => []EngineInv
  BY EngineStarts, EngineInductive, PTL DEF EngineSpec

\* No call's work is started twice, whatever rounds fail and processes are lost
\* between its claim, its registration, its release and its settlement.
THEOREM CallsRunOnce == EngineSpec => []EffectOnce
  <1>1. EngineInv => EffectOnce
    BY Zenon DEF EngineInv
  <1> QED
    BY <1>1, EngineInvariant, PTL

\* No request is issued without the outputs of the synchronous and serial calls of
\* the earlier responses.
THEOREM SyncCallsWaitedFor == EngineSpec => []SyncCallsShown
  <1>1. EngineInv => SyncCallsShown
    BY Zenon DEF EngineInv
  <1> QED
    BY <1>1, EngineInvariant, PTL

\* An output is published once, and only under a terminal claim.
THEOREM OutputsPublishedOnce == EngineSpec => []OutputOnce
  <1>1. EngineInv => OutputOnce
    BY Zenon DEF EngineInv
  <1> QED
    BY <1>1, EngineInvariant, PTL

-----------------------------------------------------------------------------
(* Bounded turns *)

Stages == {"off", "request", "inflight", "dispatch", "call", "send", "wait", "answered", "failed",
           "ended"}

BridgeTyped ==
    /\ worker \in [Invocations -> Stages]
    /\ event \in [Invocations -> Nat]
    /\ admission \in [Invocations -> {"queued", "admitted", "refused"}]
    /\ reply \in [Invocations -> {"none", "value", "dropped"}]
    /\ taken \in [Invocations -> Nat] /\ held \in [Invocations -> Nat]
    /\ DOMAIN eventQueue = Invocations

\* An event is in the channel, with next(), or with the program, and only the
\* latest one can be admitted; while it is queued its worker waits for it.
BridgeFact(i) ==
    /\ eventQueue[i] = <<>> \/ (eventQueue[i] = <<event[i]>> /\ event[i] > 0 /\ taken[i] < event[i])
    /\ taken[i] <= event[i]
    /\ (eventQueue[i] # <<>> \/ (taken[i] # 0 /\ taken[i] = event[i])) /\ admission[i] = "queued"
          => worker[i] = "wait" /\ reply[i] = "none"
    /\ held[i] # 0 => /\ worker[i] = "wait" /\ event[i] = held[i] /\ reply[i] = "none"
                      /\ admission[i] = "admitted" /\ taken[i] = 0 /\ eventQueue[i] = <<>>

BridgeFacts == \A i \in Invocations : BridgeFact(i)

CountsTyped == counts \in [Scopes -> ScopeLimits]

InvocationInv == BridgeTyped /\ BridgeFacts /\ CountsTyped /\ BudgetRespected

-----------------------------------------------------------------------------
(* The bridge *)

\* A step that leaves the channel alone and no worker out of its wait keeps the
\* facts about events.
LEMMA QuietBridge ==
    ASSUME BridgeTyped, BridgeFacts, UNCHANGED <<event, bridgeVars>>,
           worker' \in [Invocations -> Stages],
           \A i \in Invocations : worker[i] = "wait" => worker'[i] = "wait"
    PROVE  BridgeTyped' /\ BridgeFacts'
<1>1. BridgeTyped'
  BY Zenon DEF BridgeTyped, bridgeVars
<1>2. ASSUME NEW i \in Invocations PROVE BridgeFact(i)'
  <2>1. BridgeFact(i) /\ UNCHANGED <<event, admission, reply, eventQueue, taken, held>>
    BY Zenon DEF BridgeFacts, bridgeVars
  <2> QED BY <2>1 DEF BridgeFact
<1> QED BY Zenon, <1>1, <1>2 DEF BridgeFacts

\* A step of one invocation changes the facts of that one only.
LEMMA OneBridge ==
    ASSUME BridgeTyped, BridgeFacts, BridgeTyped', NEW i \in Invocations, BridgeFact(i)',
           \A j \in Invocations \ {i} :
              /\ worker'[j] = worker[j] /\ event'[j] = event[j] /\ admission'[j] = admission[j]
              /\ reply'[j] = reply[j] /\ eventQueue'[j] = eventQueue[j]
              /\ taken'[j] = taken[j] /\ held'[j] = held[j]
    PROVE  BridgeFacts'
<1>1. ASSUME NEW j \in Invocations \ {i} PROVE BridgeFact(j)'
  <2>1. BridgeFact(j)
    BY Zenon DEF BridgeFacts
  <2> QED BY <2>1 DEF BridgeFact
<1> QED BY Zenon, <1>1 DEF BridgeFacts

\* Where the worker goes once the wait for an event is over
LEMMA ResumeWorker ==
    ASSUME BridgeTyped, NEW i \in Invocations, NEW answered, Resume(i, answered)
    PROVE  /\ event' = event
           /\ worker' \in [Invocations -> Stages]
           /\ \A j \in Invocations \ {i} : worker'[j] = worker[j]
BY Zenon DEF Resume, Committed, BridgeTyped, Stages

LEMMA SendBridge ==
    ASSUME BridgeTyped, BridgeFacts, NEW i \in Invocations, Send(i)
    PROVE  BridgeTyped' /\ BridgeFacts'
<1>1. BridgeFact(i)
  BY Zenon DEF BridgeFacts
<1>2. BridgeTyped'
  BY DEF BridgeTyped, Send, Stages
<1>3. BridgeFact(i)'
  BY <1>1 DEF BridgeFact, BridgeTyped, Send
<1> QED BY <1>2, <1>3, OneBridge DEF Send, BridgeTyped

LEMMA ReceivedBridge ==
    ASSUME BridgeTyped, BridgeFacts, NEW i \in Invocations, Received(i)
    PROVE  BridgeTyped' /\ BridgeFacts'
<1>1. BridgeFact(i)
  BY Zenon DEF BridgeFacts
<1>2. /\ event' = event /\ worker' \in [Invocations -> Stages]
      /\ \A j \in Invocations \ {i} : worker'[j] = worker[j]
  BY Zenon, ResumeWorker DEF Received
<1>3. UNCHANGED <<admission, reply, eventQueue, taken, held>> /\ reply[i] # "none"
  BY Zenon DEF Received, bridgeVars
<1>4. BridgeTyped'
  BY Zenon, <1>2, <1>3 DEF BridgeTyped
<1>5. BridgeFact(i)'
  BY <1>1, <1>2, <1>3 DEF BridgeFact
<1> QED BY <1>2, <1>3, <1>4, <1>5, OneBridge

LEMMA RefuseBridge ==
    ASSUME BridgeTyped, BridgeFacts, NEW i \in Invocations, Refuse(i)
    PROVE  BridgeTyped' /\ BridgeFacts'
<1>1. BridgeFact(i)
  BY Zenon DEF BridgeFacts
<1>2. CASE admission[i] = "queued"
  <2>1. /\ event' = event /\ worker' \in [Invocations -> Stages]
        /\ \A j \in Invocations \ {i} : worker'[j] = worker[j]
    BY Zenon, <1>2, ResumeWorker DEF Refuse
  <2>2. /\ UNCHANGED <<reply, eventQueue, taken, held>>
        /\ admission' = [admission EXCEPT ![i] = "refused"]
    BY Zenon, <1>2 DEF Refuse
  <2>3. BridgeTyped'
    BY Zenon, <2>1, <2>2 DEF BridgeTyped
  <2>4. BridgeFact(i)'
    BY <1>1, <1>2, <2>1, <2>2 DEF BridgeFact, BridgeTyped
  <2>5. \A j \in Invocations \ {i} : admission'[j] = admission[j]
    BY <2>2 DEF BridgeTyped
  <2> QED BY Zenon, <2>1, <2>2, <2>3, <2>4, <2>5, OneBridge
<1>3. CASE admission[i] # "queued"
  BY Zenon, <1>3, QuietBridge DEF Refuse, workerVars, bridgeVars, BridgeTyped
<1> QED BY Zenon, <1>2, <1>3

\* The oneshot of the latest event, when some event's sender is dropped
LEMMA DroppedReply ==
    ASSUME BridgeTyped, NEW i \in Invocations, NEW e
    PROVE  /\ Dropped(i, e) \in [Invocations -> {"none", "value", "dropped"}]
           /\ \A j \in Invocations \ {i} : Dropped(i, e)[j] = reply[j]
           /\ e # event[i] => Dropped(i, e)[i] = reply[i]
BY DEF Dropped, BridgeTyped

LEMMA NextEventBridge ==
    ASSUME BridgeTyped, BridgeFacts, NEW i \in Invocations, NextEvent(i)
    PROVE  BridgeTyped' /\ BridgeFacts'
<1>1. BridgeFact(i)
  BY Zenon DEF BridgeFacts
<1>2. /\ UNCHANGED <<worker, event, admission, held>>
      /\ eventQueue' = [eventQueue EXCEPT ![i] = <<>>]
      /\ taken[i] = 0 /\ eventQueue[i] # <<>>
  BY Zenon DEF NextEvent, workerVars
<1>3. eventQueue[i][1] = event[i] /\ event[i] > 0
  BY <1>1, <1>2 DEF BridgeFact
<1>4. \/ reply' = Dropped(i, event[i]) /\ taken' = taken
      \/ taken' = [taken EXCEPT ![i] = event[i]] /\ reply' = reply
  BY Zenon, <1>3 DEF NextEvent
<1>5. BridgeTyped'
  BY <1>2, <1>4, DroppedReply DEF BridgeTyped
<1>6. BridgeFact(i)'
  <2>1. eventQueue'[i] = <<>> /\ worker'[i] = worker[i] /\ event'[i] = event[i]
    BY <1>2 DEF BridgeTyped
  <2>2. held[i] = 0 /\ held'[i] = 0 /\ admission'[i] = admission[i]
    BY <1>1, <1>2 DEF BridgeFact
  <2>3. \/ taken'[i] = 0
        \/ taken'[i] = event[i] /\ reply'[i] = reply[i]
    BY <1>2, <1>4 DEF BridgeTyped
  <2> QED BY <1>1, <1>2, <1>3, <2>1, <2>2, <2>3 DEF BridgeFact, BridgeTyped
<1>7. \A j \in Invocations \ {i} : reply'[j] = reply[j] /\ taken'[j] = taken[j]
  BY <1>4, DroppedReply DEF BridgeTyped
<1>8. \A j \in Invocations \ {i} : eventQueue'[j] = eventQueue[j]
  BY <1>2 DEF BridgeTyped
<1> QED BY Zenon, <1>2, <1>5, <1>6, <1>7, <1>8, OneBridge

LEMMA HandOutBridge ==
    ASSUME BridgeTyped, BridgeFacts, NEW i \in Invocations, HandOut(i)
    PROVE  BridgeTyped' /\ BridgeFacts'
<1>1. BridgeFact(i)
  BY Zenon DEF BridgeFacts
<1>2. UNCHANGED <<worker, event, eventQueue>> /\ taken' = [taken EXCEPT ![i] = 0] /\ taken[i] # 0
  BY Zenon DEF HandOut, workerVars
<1>3. CASE taken[i] = event[i] /\ admission[i] = "queued"
  <2>1. /\ held' = [held EXCEPT ![i] = taken[i]] /\ reply' = reply
        /\ admission' = [admission EXCEPT ![i] = "admitted"]
    BY Zenon, <1>3 DEF HandOut
  <2>2. BridgeTyped'
    BY <1>2, <2>1 DEF BridgeTyped
  <2>3. BridgeFact(i)'
    BY <1>1, <1>2, <1>3, <2>1 DEF BridgeFact, BridgeTyped
  <2> QED BY <1>2, <2>1, <2>2, <2>3, OneBridge DEF BridgeTyped
<1>4. CASE ~(taken[i] = event[i] /\ admission[i] = "queued")
  <2>1. reply' = Dropped(i, taken[i]) /\ UNCHANGED <<held, admission>>
    BY Zenon, <1>4 DEF HandOut
  <2>2. BridgeTyped'
    BY <1>2, <2>1, DroppedReply DEF BridgeTyped
  <2>3. held[i] = 0 /\ taken'[i] = 0
    BY <1>1, <1>2 DEF BridgeFact, BridgeTyped
  <2>4. eventQueue[i] # <<>> => reply'[i] = reply[i]
    BY <1>1, <2>1, DroppedReply DEF BridgeFact, BridgeTyped
  <2>5. BridgeFact(i)'
    BY <1>1, <1>2, <2>1, <2>3, <2>4 DEF BridgeFact, BridgeTyped
  <2> QED BY <1>2, <2>1, <2>2, <2>5, OneBridge, DroppedReply DEF BridgeTyped
<1> QED BY Zenon, <1>3, <1>4

LEMMA CompleteBridge ==
    ASSUME BridgeTyped, BridgeFacts, NEW i \in Invocations, NEW how \in {"value", "dropped"},
           Complete(i, how)
    PROVE  BridgeTyped' /\ BridgeFacts'
<1>1. BridgeFact(i)
  BY Zenon DEF BridgeFacts
<1>2. /\ UNCHANGED <<worker, event, admission, eventQueue, taken>>
      /\ held[i] # 0 /\ held' = [held EXCEPT ![i] = 0]
      /\ reply' = [reply EXCEPT ![i] = IF held[i] = event[i] THEN how ELSE @]
  BY Zenon DEF Complete, workerVars
<1>3. BridgeTyped'
  BY <1>2 DEF BridgeTyped
<1>4. BridgeFact(i)'
  BY <1>1, <1>2 DEF BridgeFact, BridgeTyped
<1> QED BY <1>2, <1>3, <1>4, OneBridge DEF BridgeTyped

LEMMA DropBridge ==
    ASSUME BridgeTyped, BridgeFacts, NEW i \in Invocations, Drop(i)
    PROVE  BridgeTyped' /\ BridgeFacts'
<1>1. BridgeFact(i)
  BY Zenon DEF BridgeFacts
<1>2. /\ UNCHANGED <<worker, event, admission, taken, held>> /\ taken[i] = 0
      /\ eventQueue' = [eventQueue EXCEPT ![i] = <<>>]
      /\ reply' = IF eventQueue[i] = <<>> THEN reply ELSE Dropped(i, eventQueue[i][1])
  BY Zenon DEF Drop, workerVars
<1>3. BridgeTyped'
  BY <1>2, DroppedReply DEF BridgeTyped
<1>4. held[i] # 0 => reply'[i] = reply[i]
  BY <1>1, <1>2 DEF BridgeFact
<1>5. eventQueue'[i] = <<>> /\ taken'[i] = 0
  BY <1>2 DEF BridgeTyped
<1>6. BridgeFact(i)'
  BY <1>1, <1>2, <1>4, <1>5 DEF BridgeFact, BridgeTyped
<1>7. \A j \in Invocations \ {i} : reply'[j] = reply[j] /\ eventQueue'[j] = eventQueue[j]
  BY <1>2, DroppedReply DEF BridgeTyped
<1> QED BY Zenon, <1>2, <1>3, <1>6, <1>7, OneBridge

\* Every step is one of those above, or leaves the channel alone.
LEMMA BridgeKept ==
    ASSUME BridgeTyped, BridgeFacts, InvocationNext
    PROVE  BridgeTyped' /\ BridgeFacts'
<1>1. ASSUME UNCHANGED <<workerVars, bridgeVars>> PROVE BridgeTyped' /\ BridgeFacts'
  BY Zenon, <1>1, QuietBridge DEF workerVars, BridgeTyped
<1>2. ASSUME NEW i \in Invocations, UNCHANGED <<event, bridgeVars>>, worker[i] # "wait",
             NEW to \in Stages, worker' = [worker EXCEPT ![i] = to]
      PROVE  BridgeTyped' /\ BridgeFacts'
  <2>1. worker' \in [Invocations -> Stages]
    BY <1>2 DEF BridgeTyped
  <2>2. \A j \in Invocations : worker[j] = "wait" => worker'[j] = "wait"
    BY <1>2 DEF BridgeTyped
  <2> QED BY Zenon, <1>2, <2>1, <2>2, QuietBridge
<1>3. {"request", "inflight", "dispatch", "call", "send", "answered", "failed", "ended"} \subseteq Stages
  BY DEF Stages
<1>4. CASE \E s \in Scopes : Expire(s)
  BY Zenon, <1>1, <1>4 DEF Expire
<1>5. ASSUME NEW i \in Invocations, StartInvocation(i) \/ NextRound(i) \/ Request(i)
      PROVE  BridgeTyped' /\ BridgeFacts'
  <2>1. UNCHANGED <<event, bridgeVars>> /\ worker[i] # "wait"
    BY <1>5 DEF StartInvocation, NextRound, Request
  <2>2. \E to \in {"request", "inflight", "failed"} : worker' = [worker EXCEPT ![i] = to]
    BY Zenon, <1>5 DEF StartInvocation, NextRound, Request
  <2> QED BY Zenon, <1>2, <1>3, <2>1, <2>2
<1>6. ASSUME NEW i \in Invocations, NEW declared \in BOOLEAN, ValidateCall(i, declared)
      PROVE  BridgeTyped' /\ BridgeFacts'
  <2>1. UNCHANGED <<event, bridgeVars>> /\ worker[i] # "wait"
    BY <1>6 DEF ValidateCall
  <2>2. \E to \in {"call", "failed"} : worker' = [worker EXCEPT ![i] = to]
    BY Zenon, <1>6 DEF ValidateCall
  <2> QED BY Zenon, <1>2, <1>3, <2>1, <2>2
<1>7. ASSUME NEW i \in Invocations, NEW valid \in BOOLEAN, CallWithContext(i, valid)
      PROVE  BridgeTyped' /\ BridgeFacts'
  <2>1. UNCHANGED <<event, bridgeVars>> /\ worker[i] # "wait"
    BY <1>7 DEF CallWithContext
  <2>2. \E to \in {"send", "dispatch"} : worker' = [worker EXCEPT ![i] = to]
    BY Zenon, <1>7 DEF CallWithContext, Committed
  <2> QED BY Zenon, <1>2, <1>3, <2>1, <2>2
<1>8. ASSUME NEW i \in Invocations, SendFails(i) PROVE BridgeTyped' /\ BridgeFacts'
  <2>1. UNCHANGED <<event, bridgeVars>> /\ worker[i] # "wait"
    BY <1>8 DEF SendFails, Resume
  <2>2. \E to \in {"send", "dispatch", "failed"} : worker' = [worker EXCEPT ![i] = to]
    BY Zenon, <1>8 DEF SendFails, Resume, Committed
  <2> QED BY Zenon, <1>2, <1>3, <2>1, <2>2
<1>9. ASSUME NEW i \in Invocations, Finish(i) PROVE BridgeTyped' /\ BridgeFacts'
  <2>1. UNCHANGED <<event, bridgeVars>> /\ worker[i] # "wait"
    BY <1>9 DEF Finish
  <2>2. worker' = [worker EXCEPT ![i] = "ended"]
    BY Zenon, <1>9 DEF Finish
  <2> QED BY Zenon, <1>2, <1>3, <2>1, <2>2
<1>10. ASSUME NEW i \in Invocations, NEW tokens, NEW n, ModelResponds(i, tokens, n)
       PROVE  BridgeTyped' /\ BridgeFacts'
  <2>1. UNCHANGED <<event, bridgeVars>> /\ worker[i] # "wait"
    BY <1>10 DEF ModelResponds
  <2>2. \E to \in {"answered", "dispatch"} : worker' = [worker EXCEPT ![i] = to]
    BY Zenon, <1>10 DEF ModelResponds
  <2> QED BY Zenon, <1>2, <1>3, <2>1, <2>2
<1>11. ASSUME NEW i \in Invocations, RequestFails(i) PROVE BridgeTyped' /\ BridgeFacts'
  <2>1. UNCHANGED <<event, bridgeVars>> /\ worker[i] # "wait"
    BY <1>11 DEF RequestFails
  <2>2. worker' = [worker EXCEPT ![i] = "failed"]
    BY Zenon, <1>11 DEF RequestFails
  <2> QED BY Zenon, <1>2, <1>3, <2>1, <2>2
<1>12. ASSUME NEW i \in Invocations, CloseHandle(i) \/ Close(i) PROVE BridgeTyped' /\ BridgeFacts'
  BY Zenon, <1>1, <1>12 DEF CloseHandle, Close
<1>13. ASSUME NEW i \in Invocations, WorkerStep(i) PROVE BridgeTyped' /\ BridgeFacts'
  BY Zenon, <1>5, <1>6, <1>7, <1>8, <1>9, <1>13, SendBridge, ReceivedBridge DEF WorkerStep
<1>14. ASSUME NEW i \in Invocations, ProgramStep(i) PROVE BridgeTyped' /\ BridgeFacts'
  BY Zenon, <1>14, NextEventBridge, HandOutBridge, CompleteBridge DEF ProgramStep
<1> QED BY Zenon, <1>4, <1>5, <1>10, <1>11, <1>12, <1>13, <1>14, RefuseBridge, DropBridge
        DEF InvocationNext

-----------------------------------------------------------------------------
(* The budget *)

LEMMA LimitsTyped ==
    /\ \A i \in Invocations : ScopesOf(i) \subseteq Scopes /\ i # Cell
    /\ \A s \in Scopes, f \in Fields : Limits[s][f] \in Nat
BY LimitsAssumption DEF ScopesOf, Scopes, ScopeLimits

\* What is counted when nothing refuses has room in both scopes.
LEMMA AdmitRoom ==
    ASSUME NEW i \in Invocations, NEW field \in {"requests", "tools"}, Refusal(i, field) = Unset
    PROVE  \A s \in ScopesOf(i) : ~(counts[s][field] >= Limits[s][field])
<1>1. field # Unset
  BY LimitsAssumption DEF Fields
<1>2. Full(Cell, field) = Unset /\ Full(i, field) = Unset
  BY Zenon DEF Refusal, Earliest
<1> QED BY Zenon, <1>1, <1>2 DEF Full, ScopesOf

\* What admit and usage add to the scopes of an invocation
Raised(i, field, n) ==
    [s \in Scopes |-> IF s \in ScopesOf(i) THEN [counts[s] EXCEPT ![field] = @ + n] ELSE counts[s]]

\* Counting changes one field of the scopes of the invocation.
LEMMA Counted ==
    ASSUME CountsTyped, NEW i \in Invocations, NEW field \in Fields, NEW n \in Nat,
           counts' = Raised(i, field, n)
    PROVE  /\ CountsTyped'
           /\ \A s \in Scopes, f \in Fields :
                counts'[s][f] = IF s \in ScopesOf(i) /\ f = field THEN counts[s][f] + n ELSE counts[s][f]
<1>1. \A s \in Scopes : counts[s] \in [Fields -> Nat]
  BY DEF CountsTyped, ScopeLimits
<1>2. \A s \in Scopes : counts'[s] = IF s \in ScopesOf(i) THEN [counts[s] EXCEPT ![field] = @ + n]
                                     ELSE counts[s]
  BY DEF Raised
<1>3. ASSUME NEW s \in Scopes PROVE Raised(i, field, n)[s] \in [Fields -> Nat]
  <2>1. counts[s] \in [Fields -> Nat]
    BY Zenon, <1>1
  <2>2. [counts[s] EXCEPT ![field] = @ + n] \in [Fields -> Nat]
    BY <2>1
  <2>3. Raised(i, field, n)[s] \in {counts[s], [counts[s] EXCEPT ![field] = @ + n]}
    BY Zenon DEF Raised
  <2> QED BY Zenon, <2>1, <2>2, <2>3
<1>4. CountsTyped'
  BY Zenon, <1>3 DEF CountsTyped, ScopeLimits, Raised
<1>5. \A s \in Scopes, f \in Fields :
        counts'[s][f] = IF s \in ScopesOf(i) /\ f = field THEN counts[s][f] + n ELSE counts[s][f]
  <2> TAKE s \in Scopes, f \in Fields
  <2>1. counts[s] \in [Fields -> Nat]
    BY Zenon, <1>1
  <2>2. CASE s \in ScopesOf(i)
    <3>1. counts'[s] = [counts[s] EXCEPT ![field] = @ + n]
      BY Zenon, <1>2, <2>2
    <3> QED BY <2>1, <2>2, <3>1
  <2>3. CASE s \notin ScopesOf(i)
    <3>1. counts'[s] = counts[s]
      BY Zenon, <1>2, <2>3
    <3> QED BY SMT, <2>3, <3>1
  <2> QED BY Zenon, <2>2, <2>3
<1> QED BY Zenon, <1>4, <1>5

LEMMA AdmitBudget ==
    ASSUME CountsTyped, BudgetRespected, NEW i \in Invocations, NEW field \in {"requests", "tools"},
           Admit(i, field)
    PROVE  CountsTyped' /\ BudgetRespected'
<1>1. field \in Fields
  BY DEF Fields
<1>2. CASE Refusal(i, field) # Unset
  <2>1. counts' = counts
    BY Zenon, <1>2 DEF Admit
  <2> QED BY Zenon, <2>1 DEF CountsTyped, BudgetRespected
<1>3. CASE Refusal(i, field) = Unset
  <2>1. counts' = Raised(i, field, 1)
    BY Zenon, <1>3 DEF Admit, Count, Raised
  <2>2. /\ CountsTyped'
        /\ \A s \in Scopes, f \in Fields :
             counts'[s][f] = IF s \in ScopesOf(i) /\ f = field THEN counts[s][f] + 1 ELSE counts[s][f]
    BY <1>1, <2>1, Counted
  <2>3. \A s \in ScopesOf(i) : ~(counts[s][field] >= Limits[s][field])
    BY Zenon, <1>3, AdmitRoom
  <2>4. ASSUME NEW s \in Scopes, NEW f \in {"requests", "tools"} PROVE counts'[s][f] <= Limits[s][f]
    <3>1. f \in Fields /\ counts[s][f] \in Nat /\ Limits[s][f] \in Nat
      BY LimitsTyped DEF Fields, CountsTyped, ScopeLimits
    <3>2. counts[s][f] <= Limits[s][f]
      BY Zenon DEF BudgetRespected
    <3> QED BY <2>2, <2>3, <3>1, <3>2
  <2> QED BY Zenon, <2>2, <2>4 DEF BudgetRespected
<1> QED BY Zenon, <1>2, <1>3

LEMMA UsageBudget ==
    ASSUME CountsTyped, BudgetRespected, NEW i \in Invocations, NEW tokens \in Nat, Usage(i, tokens)
    PROVE  CountsTyped' /\ BudgetRespected'
<1>1. /\ CountsTyped'
      /\ \A s \in Scopes, f \in Fields :
           counts'[s][f] = IF s \in ScopesOf(i) /\ f = "tokens" THEN counts[s][f] + tokens ELSE counts[s][f]
  BY Zenon, Counted DEF Usage, Fields, Raised
<1>2. \A s \in Scopes, f \in {"requests", "tools"} : counts'[s][f] = counts[s][f]
  BY <1>1 DEF Fields
<1> QED BY Zenon, <1>1, <1>2 DEF BudgetRespected

\* Every step counts nothing, admits one request or tool call, or reports tokens.
LEMMA BudgetSteps ==
    ASSUME InvocationNext
    PROVE  \/ UNCHANGED <<reason, counts>>
           \/ counts' = counts /\ \E i \in Invocations : reason' = Exhausted(i)
           \/ \E i \in Invocations : Admit(i, "requests") \/ Admit(i, "tools")
           \/ \E i \in Invocations, tokens \in Nat : Usage(i, tokens)
<1>1. CASE \E s \in Scopes : Expire(s)
  BY Zenon, <1>1 DEF Expire
<1>2. ASSUME NEW i \in Invocations, StartInvocation(i) \/ NextRound(i) \/ Request(i)
      PROVE  UNCHANGED <<reason, counts>> \/ Admit(i, "requests")
  BY Zenon, <1>2 DEF StartInvocation, NextRound, Request, budgetVars
<1>3. ASSUME NEW i \in Invocations, NEW declared \in BOOLEAN, ValidateCall(i, declared)
      PROVE  UNCHANGED <<reason, counts>> \/ Admit(i, "tools")
  BY Zenon, <1>3 DEF ValidateCall, budgetVars
<1>4. ASSUME NEW i \in Invocations, NEW valid \in BOOLEAN, CallWithContext(i, valid)
      PROVE  UNCHANGED <<reason, counts>>
  BY Zenon, <1>4 DEF CallWithContext, budgetVars
<1>5. ASSUME NEW i \in Invocations, Send(i) \/ SendFails(i) \/ Received(i) PROVE UNCHANGED <<reason, counts>>
  BY Zenon, <1>5 DEF Send, SendFails, Received, budgetVars
<1>6. ASSUME NEW i \in Invocations, Finish(i) \/ Refuse(i) \/ NextEvent(i)
      PROVE  counts' = counts /\ (reason' = reason \/ reason' = Exhausted(i))
  BY Zenon, <1>6 DEF Finish, Refuse, NextEvent
<1>7. ASSUME NEW i \in Invocations, NEW tokens \in 0..1, NEW n \in 0..MaxCalls,
             ModelResponds(i, tokens, n)
      PROVE  tokens \in Nat /\ Usage(i, tokens)
  BY <1>7 DEF ModelResponds
<1>8. ASSUME NEW i \in Invocations, RequestFails(i) PROVE 0 \in Nat /\ Usage(i, 0)
  BY <1>8 DEF RequestFails
<1>9. ASSUME NEW i \in Invocations, HandOut(i) \/ (\E how \in {"value", "dropped"} : Complete(i, how))
      PROVE  UNCHANGED <<reason, counts>>
  BY Zenon, <1>9 DEF HandOut, Complete, budgetVars
<1>10. ASSUME NEW i \in Invocations, CloseHandle(i) \/ Close(i) \/ Drop(i)
       PROVE  UNCHANGED <<reason, counts>>
  BY Zenon, <1>10 DEF CloseHandle, Close, Drop, budgetVars
<1> QED BY Zenon, <1>1, <1>2, <1>3, <1>4, <1>5, <1>6, <1>7, <1>8, <1>9, <1>10
        DEF InvocationNext, WorkerStep, ProgramStep

LEMMA BudgetKept ==
    ASSUME CountsTyped, BudgetRespected, InvocationNext
    PROVE  CountsTyped' /\ BudgetRespected'
<1>1. ASSUME counts' = counts PROVE CountsTyped' /\ BudgetRespected'
  BY Zenon, <1>1 DEF CountsTyped, BudgetRespected
<1> QED BY Zenon, <1>1, BudgetSteps, AdmitBudget, UsageBudget

\* Once a reason is latched it is what every check answers.
LEMMA Latched ==
    ASSUME reason # Unset, NEW i \in Invocations
    PROVE  /\ \A c : ExhaustedBy(i, c) = reason
           /\ \A f : Refusal(i, f) = reason
<1>1. \A c : ExhaustedBy(i, c) = reason
  BY Zenon DEF ExhaustedBy
<1> QED BY Zenon, <1>1 DEF Refusal, Exhausted

LEMMA LatchStep ==
    ASSUME CountsTyped, InvocationNext, reason # Unset
    PROVE  /\ reason' = reason
           /\ \A s \in Scopes : /\ counts'[s]["requests"] = counts[s]["requests"]
                                /\ counts'[s]["tools"] = counts[s]["tools"]
<1>1. CASE UNCHANGED <<reason, counts>>
  BY Zenon, <1>1
<1>2. ASSUME NEW i \in Invocations, counts' = counts, reason' = Exhausted(i)
      PROVE  reason' = reason /\ counts' = counts
  BY Zenon, <1>2, Latched DEF Exhausted
<1>3. ASSUME NEW i \in Invocations, NEW f \in {"requests", "tools"}, Admit(i, f)
      PROVE  reason' = reason /\ counts' = counts
  BY Zenon, <1>3, Latched DEF Admit
<1>4. ASSUME NEW i \in Invocations, NEW tokens \in Nat, Usage(i, tokens)
      PROVE  /\ reason' = reason
             /\ \A s \in Scopes, f \in {"requests", "tools"} : counts'[s][f] = counts[s][f]
  <2>1. reason' = reason
    BY Zenon, <1>4, Latched DEF Usage
  <2>2. \A s \in Scopes, f \in Fields :
          counts'[s][f] = IF s \in ScopesOf(i) /\ f = "tokens" THEN counts[s][f] + tokens ELSE counts[s][f]
    BY Zenon, <1>4, Counted DEF Usage, Fields, Raised
  <2> QED BY <2>1, <2>2 DEF Fields
<1> QED BY Zenon, <1>1, <1>2, <1>3, <1>4, BudgetSteps

-----------------------------------------------------------------------------
(* Theorems *)

LEMMA InvocationStart == InvocationInit => InvocationInv
<1> SUFFICES ASSUME InvocationInit PROVE InvocationInv
  OBVIOUS
<1>1. BridgeTyped
  BY DEF InvocationInit, BridgeTyped, Stages
<1>2. ASSUME NEW i \in Invocations PROVE BridgeFact(i)
  <2>1. eventQueue[i] = <<>> /\ taken[i] = 0 /\ event[i] = 0 /\ held[i] = 0
    BY DEF InvocationInit
  <2> QED BY <2>1 DEF BridgeFact
<1>3. CountsTyped
  BY DEF InvocationInit, CountsTyped, ScopeLimits
<1>4. BudgetRespected
  BY LimitsTyped DEF InvocationInit, BudgetRespected, Fields
<1> QED BY Zenon, <1>1, <1>2, <1>3, <1>4 DEF InvocationInv, BridgeFacts

LEMMA InvocationStep == InvocationInv /\ [InvocationNext]_invocationVars => InvocationInv'
<1> SUFFICES ASSUME InvocationInv, [InvocationNext]_invocationVars PROVE InvocationInv'
  OBVIOUS
<1>1. CASE InvocationNext
  BY Zenon, <1>1, BridgeKept, BudgetKept DEF InvocationInv
<1>2. CASE UNCHANGED invocationVars
  <2>1. UNCHANGED <<counts, worker, event, admission, reply, eventQueue, taken, held>>
    BY Zenon, <1>2 DEF invocationVars, budgetVars, workerVars, bridgeVars
  <2> QED BY Zenon, <2>1 DEF InvocationInv, BridgeTyped, BridgeFacts, BridgeFact, CountsTyped,
                             BudgetRespected
<1> QED BY Zenon, <1>1, <1>2

\* The bridge and the budget keep their facts in every reachable state.
THEOREM InvocationInvariant == InvocationSpec => []InvocationInv
BY InvocationStart, InvocationStep, PTL DEF InvocationSpec

\* A continuation the program holds is never revoked: its worker waits for that
\* reply and no other, through any deadline, close, drop or exhaustion
\* (continuation and Invocation::next race on one compare-and-exchange).
THEOREM HandedOutNeverRevoked == InvocationSpec => []HandedOutHeard
<1>1. InvocationInv => HandedOutHeard
  BY Zenon DEF InvocationInv, BridgeFacts, BridgeFact, HandedOutHeard
<1> QED BY <1>1, InvocationInvariant, PTL

\* CellBudget::admit never counts a request or a tool call past the limit of the
\* cell or of the invocation, for any number of concurrent invocations.
THEOREM BudgetsHold == InvocationSpec => []BudgetRespected
<1>1. InvocationInv => BudgetRespected
  BY Zenon DEF InvocationInv
<1> QED BY <1>1, InvocationInvariant, PTL

\* The first reason for exhaustion is final, and closes the budget of the whole
\* cell: nothing more is admitted in any scope.
THEOREM ExhaustionIsFinal == InvocationSpec => ExhaustionLatches
<1>1. InvocationInv /\ [InvocationNext]_invocationVars =>
        [reason # Unset =>
          /\ reason' = reason
          /\ \A s \in Scopes : /\ counts'[s]["requests"] = counts[s]["requests"]
                               /\ counts'[s]["tools"] = counts[s]["tools"]]_invocationVars
  BY Zenon, LatchStep DEF InvocationInv
<1> QED BY <1>1, InvocationInvariant, PTL DEF InvocationSpec, ExhaustionLatches
=============================================================================
