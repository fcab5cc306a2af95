------------------------- MODULE JobSchedulerProofs -------------------------
(***************************************************************************)
(* What the steps of the job registry keep.  Inv is its inductive          *)
(* invariant; the lemmas say why each kind of step keeps the types, what   *)
(* it leaves alone (OthersFrame, CallersFrame), and why it keeps each      *)
(* conjunct of Inv but the bound on permits.  The argument: whoever is     *)
(* past the cancellation gate of a job holds it alone (GateHeld), so what  *)
(* a caller found in the job's record under the gate (CallerFacts) is      *)
(* changed by the job's task only, which never undoes an output, a start   *)
(* or a token (JobFacts).                                                  *)
(***************************************************************************)
EXTENDS JobScheduler, FiniteSetTheorems, TLAPS

\* Where a caller has passed the cancellation gate.
Holding == {"intent", "recheck", "asking", "record", "abort", "event", "settle", "grace",
            "retry_check", "retry_asking", "retry_record", "retry_abort"}

\* A caller past the gate of a job holds it, so no other caller is.
GateHeld ==
    \A c \in Callers :
        /\ pc[c] # "idle" => target[c] \in Ops
        /\ pc[c] \in Holding => gate[target[c]] = c

\* What a job's record says at any time.
JobFacts ==
    \A op \in Ops :
        /\ ack[op] # None => output[op] # None /\ intent[op] # None /\ started[op]
        /\ task[op] \in {"aborted", "notifying", "done"} => output[op] # None
        /\ task[op] = "settling" => result[op] # None
        /\ output[op] = None => settledClaimants[op] = {}

\* What a caller knows of the job whose gate it holds.
CallerFacts ==
    \A c \in Callers :
        /\ pc[c] \in {"record", "retry_record"} => answer[c] # None
        /\ taken[c] => pc[c] \in {"abort", "event", "grace", "retry_abort"}
        /\ pc[c] \in {"recheck", "asking", "record"} =>
              intent[target[c]] # None /\ started[target[c]] /\ task[target[c]] # "aborted"
        /\ pc[c] \in {"settle", "grace"} => token[target[c]] /\ ~OwnerNeeded(target[c])
        /\ pc[c] \in {"abort", "event", "grace"} => output[target[c]] # None
        /\ pc[c] = "abort" => StoppedAck(ack[target[c]])
        /\ pc[c] \in {"retry_asking", "retry_record"} => ack[target[c]] = "unconfirmed"
        /\ pc[c] = "retry_abort" /\ taken[c] => StoppedAck(ack[target[c]])

\* The semaphore's permits are finitely many.
PermitsFinite == IsFiniteSet(permits) /\ PermitsHeldByLiveTasks

\* The inductive invariant.
Inv ==
    /\ TypeOK
    /\ GateHeld
    /\ JobFacts
    /\ CallerFacts
    /\ PermitsFinite
    /\ OneCauseAsked
    /\ OwnerNeverBypassed
    /\ ClosedActivationSettled
    /\ NoStrandedClaim

\* Where the task of a job that has not started stands.
BeforeStart == {"none", "gate", "retained", "permit", "check"}


-----------------------------------------------------------------------------
(* Types *)

\* Every kind of step that is not a caller's leaves the callers, the tokens, the
\* intents and the acknowledgements alone.
OthersStep ==
    \E op \in Ops : \/ Admit(op) \/ Release(op) \/ Commit(op)
                    \/ TryAdmitTerminal(op) \/ TaskStep(op)
                    \/ \E k \in Claimants : Claim(op, k)
                    \/ \E o \in Returns : TaskReturn(op, o)

CallersStep(c) == CallerStep(c) \/ \E op \in Ops : CancelCall(c, op) \/ RetryCall(c, op)

LEMMA Steps ==
    [Next]_vars => OthersStep \/ (\E c \in Callers : CallersStep(c)) \/ UNCHANGED vars
BY Zenon DEF Next, OthersStep, CallersStep

\* A caller returns with its locals cleared.
LEMMA ReturnTyped ==
    ASSUME CallersTyped, NEW c \in Callers, Return(c), UNCHANGED asked
    PROVE  CallersTyped'
BY Zenon DEF CallersTyped, Return, CallerStates

\* A caller moves on, with the task's handle or without.
LEMMA GotoTyped ==
    ASSUME CallersTyped, NEW c \in Callers, NEW next \in CallerStates, Goto(c, next),
           UNCHANGED <<gate, target, answer, asked>>
    PROVE  /\ taken' \in [Callers -> BOOLEAN] => CallersTyped'
           /\ UNCHANGED taken => CallersTyped'
BY Zenon DEF CallersTyped, Goto

\* A task is aborted.
LEMMA AbortTyped ==
    ASSUME TasksTyped, NEW op \in Ops, AbortTask(op), signalled' \in SUBSET Ops
    PROVE  TasksTyped'
BY Zenon DEF TasksTyped, AbortTask, TaskStates

\* A job's claimants become its settled claimants.
LEMMA DrainTyped ==
    ASSUME RecordsTyped, NEW op \in Ops, Drain(op)
    PROVE  /\ claimants' \in [Ops -> SUBSET Claimants]
           /\ settledClaimants' \in [Ops -> SUBSET Claimants]
BY Zenon DEF RecordsTyped, Drain

\* The steps of the engine and of the tasks keep the types.
LEMMA OthersTyped ==
    ASSUME TypeOK, OthersStep
    PROVE  TypeOK'
<1> USE DEF TypeOK, RecordsTyped, TasksTyped, CallersTyped, jobVars, taskVars, callerVars, TaskUnchanged,
            TaskStates
<1>1. ASSUME NEW op \in Ops, Admit(op) PROVE TypeOK'
    BY Zenon, <1>1 DEF Admit
<1>2. ASSUME NEW op \in Ops, Release(op) PROVE TypeOK'
    BY Zenon, <1>2 DEF Release
<1>3. ASSUME NEW op \in Ops, Commit(op) PROVE TypeOK'
    BY Zenon, <1>3 DEF Commit
<1>4. ASSUME NEW op \in Ops, TryAdmitTerminal(op) PROVE TypeOK'
    BY <1>4, Zenon DEF TryAdmitTerminal
<1>5. ASSUME NEW op \in Ops, TaskLaunched(op) PROVE TypeOK'
    BY Zenon, <1>5 DEF TaskLaunched
<1>6. ASSUME NEW op \in Ops, TaskRetained(op) PROVE TypeOK'
  <2>1. Returns \cup {"err"} \subseteq Outputs
    BY Zenon, ConstantsAssumption DEF ConstantsAssumption, Outputs
  <2>2. RecordsTyped' /\ CallersTyped'
    BY Zenon, <1>6 DEF TaskRetained
  <2>3. TasksTyped'
    BY <1>6, <2>1 DEF TaskRetained
  <2> QED BY Zenon, <2>2, <2>3
<1>7. ASSUME NEW op \in Ops, TaskAcquire(op) PROVE TypeOK'
    BY Zenon, <1>7 DEF TaskAcquire
<1>8. ASSUME NEW op \in Ops, TaskStart(op) PROVE TypeOK'
    BY <1>8, Zenon DEF TaskStart, Outputs
<1>9. ASSUME NEW op \in Ops, TaskSettle(op) PROVE TypeOK'
  <2>1. TasksTyped' /\ CallersTyped'
    BY Zenon, <1>9 DEF TaskSettle
  <2>2. providerCompletion' \in [Ops -> {"ok", "err", None}]
    BY Zenon, <1>9 DEF TaskSettle
  <2>3. /\ output' \in [Ops -> Outputs \cup {None}]
        /\ claimants' \in [Ops -> SUBSET Claimants]
        /\ settledClaimants' \in [Ops -> SUBSET Claimants]
    <3>1. CASE output[op] = None
      BY Zenon, <1>9, <3>1, DrainTyped DEF TaskSettle
    <3>2. CASE output[op] # None
      BY Zenon, <1>9, <3>2 DEF TaskSettle
    <3> QED BY Zenon, <3>1, <3>2
  <2> QED BY Zenon, <1>9, <2>1, <2>2, <2>3 DEF TaskSettle
<1>10. ASSUME NEW op \in Ops, TaskNotify(op) PROVE TypeOK'
    BY Zenon, <1>10 DEF TaskNotify, Announce
<1>11. ASSUME NEW op \in Ops, NEW k \in Claimants, Claim(op, k) PROVE TypeOK'
    BY Zenon, <1>11 DEF Claim
<1>12. ASSUME NEW op \in Ops, NEW o \in Returns, TaskReturn(op, o) PROVE TypeOK'
    BY Zenon, <1>12, ConstantsAssumption DEF TaskReturn, ConstantsAssumption
<1> HIDE DEF TypeOK, TaskStates
<1> QED
    BY Zenon, <1>1, <1>2, <1>3, <1>4, <1>5, <1>6, <1>7, <1>8, <1>9, <1>10, <1>11, <1>12
    DEF OthersStep, TaskStep

\* The steps of a caller keep the types: a caller past the gate has a target, and
\* what it asks an owner with is a caller's cause.
LEMMA CallersStepTyped ==
    ASSUME TypeOK, GateHeld, JobFacts, CallerFacts, NEW c \in Callers, CallersStep(c)
    PROVE  TypeOK'
<1> USE DEF TypeOK, jobVars, taskVars, callerVars
<1>1. CASE CancelGate(c) \/ RetryGate(c)
    BY <1>1 DEF CancelGate, RetryGate, Goto, RecordsTyped, TasksTyped, CallersTyped, CallerStates
<1>2. CASE CancelIntent(c)
  <2>1. TasksTyped'
    BY Zenon, <1>2 DEF CancelIntent, TasksTyped
  <2>2. CASE output[target[c]] # None
    BY Zenon, <1>2, <2>1, <2>2, ReturnTyped DEF CancelIntent, RecordsTyped
  <2>3. CASE output[target[c]] = None
    <3>1. /\ intent' = [intent EXCEPT ![target[c]] = IF @ = None THEN c ELSE @]
          /\ token' = [token EXCEPT ![target[c]] = TRUE]
      BY Zenon, <1>2, <2>3 DEF CancelIntent
    <3>2. intent' \in [Ops -> Callers \cup {None}] /\ token' \in [Ops -> BOOLEAN]
      BY <3>1, Zenon DEF RecordsTyped
    <3>3. RecordsTyped'
      BY Zenon, <1>2, <3>2 DEF CancelIntent, RecordsTyped
    <3> QED BY Zenon, <1>2, <2>1, <2>3, <3>3, GotoTyped DEF CancelIntent, CallerStates
  <2> QED BY Zenon, <2>2, <2>3
<1>3. CASE CancelRecheck(c)
  <2>1. target[c] \in Ops /\ intent[target[c]] \in Callers
    BY <1>3 DEF CancelRecheck, GateHeld, CallerFacts, RecordsTyped
  <2>2. TasksTyped' /\ RecordsTyped'
    BY Zenon, <1>3 DEF CancelRecheck, TasksTyped, RecordsTyped
  <2>3. CASE output[target[c]] # None
    BY Zenon, <1>3, <2>2, <2>3, ReturnTyped DEF CancelRecheck
  <2>4. CASE output[target[c]] = None
    BY <1>3, <2>1, <2>2, <2>4 DEF CancelRecheck, Goto, CallersTyped, CallerStates, AdmittedCause
  <2> QED BY Zenon, <2>3, <2>4
<1>4. CASE OwnerAnswers(c)
    BY <1>4 DEF OwnerAnswers, Goto, RecordsTyped, TasksTyped, CallersTyped, CallerStates
<1>5. CASE CancelRecord(c)
  <2>1. target[c] \in Ops /\ answer[c] \in Acks
    BY Zenon, <1>5 DEF CancelRecord, GateHeld, CallerFacts, CallersTyped
  <2>2. AckOutput(answer[c]) \in Outputs
    BY Zenon, <2>1 DEF AckOutput, Acks, Outputs
  <2>3. TasksTyped'
    BY Zenon, <1>5 DEF CancelRecord, TasksTyped
  <2>4. RecordsTyped'
    <3>1. CASE output[target[c]] # None
      BY Zenon, <1>5, <2>1, <3>1 DEF CancelRecord, RecordsTyped
    <3>2. CASE output[target[c]] = None
      <4>1. Drain(target[c]) /\ handle' \in [Ops -> BOOLEAN]
        BY <1>5, <3>2, Zenon DEF CancelRecord, RecordsTyped
      <4>2. output' \in [Ops -> Outputs \cup {None}] /\ ack' \in [Ops -> Acks \cup {None}]
        BY <1>5, <2>1, <2>2, <3>2 DEF CancelRecord, RecordsTyped
      <4>3. claimants' \in [Ops -> SUBSET Claimants] /\ settledClaimants' \in [Ops -> SUBSET Claimants]
        BY Zenon, <2>1, <4>1, DrainTyped
      <4> QED BY Zenon, <1>5, <4>1, <4>2, <4>3 DEF CancelRecord, RecordsTyped
    <3> QED BY Zenon, <3>1, <3>2
  <2>5. CallersTyped'
    <3>1. CASE output[target[c]] # None
      BY Zenon, <1>5, <3>1, ReturnTyped DEF CancelRecord
    <3>2. CASE output[target[c]] = None
      <4>1. taken' \in [Callers -> BOOLEAN]
        BY <1>5, <2>1, <3>2 DEF CancelRecord, CallersTyped, RecordsTyped
      <4>2. PICK next \in {"abort", "event"} : Goto(c, next)
        BY Zenon, <1>5, <3>2 DEF CancelRecord
      <4>3. UNCHANGED <<gate, target, answer, asked>>
        BY Zenon, <1>5, <3>2 DEF CancelRecord
      <4> QED BY Zenon, <4>1, <4>2, <4>3, GotoTyped DEF CallerStates
    <3> QED BY Zenon, <3>1, <3>2
  <2> QED BY Zenon, <2>3, <2>4, <2>5
<1>6. CASE CancelAbort(c)
  <2>1. target[c] \in Ops
    BY Zenon, <1>6 DEF CancelAbort, GateHeld
  <2>2. RecordsTyped' /\ CallersTyped'
    BY Zenon, <1>6, GotoTyped DEF CancelAbort, RecordsTyped, CallerStates
  <2>3. TasksTyped'
    BY Zenon, <1>6, <2>1, AbortTyped DEF CancelAbort, TasksTyped
  <2> QED BY Zenon, <2>2, <2>3
<1>7. CASE CancelEvent(c)
  <2>1. RecordsTyped' /\ TasksTyped'
    BY <1>7 DEF CancelEvent, Announce, RecordsTyped, TasksTyped, GateHeld
  <2> QED BY Zenon, <1>7, <2>1, ReturnTyped DEF CancelEvent
<1>8. CASE CancelSettle(c)
  <2>1. target[c] \in Ops
    BY Zenon, <1>8 DEF CancelSettle, GateHeld
  <2>2. TasksTyped'
    BY Zenon, <1>8 DEF CancelSettle, TasksTyped
  <2>3. RecordsTyped'
    BY <1>8, <2>1, Zenon DEF CancelSettle, RecordsTyped, Drain, Outputs
  <2>4. CallersTyped'
    <3>1. CASE output[target[c]] # None
      BY Zenon, <1>8, <3>1, ReturnTyped DEF CancelSettle
    <3>2. CASE output[target[c]] = None
      <4>1. taken' \in [Callers -> BOOLEAN]
        BY Zenon, <1>8, <2>1, <3>2 DEF CancelSettle, CallersTyped, RecordsTyped
      <4>2. Goto(c, "grace") /\ UNCHANGED <<gate, target, answer, asked>>
        BY Zenon, <1>8, <3>2 DEF CancelSettle
      <4> QED BY Zenon, <4>1, <4>2, GotoTyped DEF CallerStates
    <3> QED BY Zenon, <3>1, <3>2
  <2> QED BY Zenon, <2>2, <2>3, <2>4
<1>9. CASE CancelGrace(c)
  <2>1. target[c] \in Ops
    BY Zenon, <1>9 DEF CancelGrace, GateHeld
  <2>2. RecordsTyped' /\ CallersTyped'
    BY Zenon, <1>9, ReturnTyped DEF CancelGrace, RecordsTyped
  <2>3. signalled' \in SUBSET Ops
    BY Zenon, <1>9, <2>1 DEF CancelGrace, Announce, TasksTyped
  <2>4. TasksTyped'
    BY Zenon, <1>9, <2>1, <2>3, AbortTyped DEF CancelGrace, TasksTyped
  <2> QED BY Zenon, <2>2, <2>4
<1>10. CASE RetryCheck(c)
  <2>1. target[c] \in Ops
    BY Zenon, <1>10 DEF RetryCheck, GateHeld
  <2>2. TasksTyped' /\ RecordsTyped'
    BY Zenon, <1>10 DEF RetryCheck, TasksTyped, RecordsTyped
  <2>3. CASE Return(c) /\ UNCHANGED asked
    BY Zenon, <2>2, <2>3, ReturnTyped
  <2>4. CASE ~(Return(c) /\ UNCHANGED asked)
    <3>1. intent[target[c]] \in Callers
      BY <1>10, <2>1, <2>4, ConstantsAssumption
      DEF RetryCheck, JobFacts, RecordsTyped, ConstantsAssumption, Acks
    <3> QED BY <1>10, <2>1, <2>2, <2>4, <3>1
            DEF RetryCheck, Goto, CallersTyped, CallerStates, AdmittedCause
  <2> QED BY Zenon, <2>3, <2>4
<1>11. CASE RetryRecord(c)
  <2>1. target[c] \in Ops /\ answer[c] \in Acks
    BY <1>11 DEF RetryRecord, GateHeld, CallerFacts, CallersTyped
  <2>2. TasksTyped'
    BY Zenon, <1>11 DEF RetryRecord, TasksTyped
  <2>3. RecordsTyped'
    BY <1>11, <2>1, Zenon DEF RetryRecord, RecordsTyped
  <2>4. CallersTyped'
    BY <1>11, <2>1 DEF RetryRecord, Goto, RecordsTyped, CallersTyped, CallerStates
  <2> QED BY Zenon, <2>2, <2>3, <2>4
<1>12. CASE RetryAbort(c)
  <2>1. target[c] \in Ops
    BY Zenon, <1>12 DEF RetryAbort, GateHeld
  <2>2. RecordsTyped' /\ CallersTyped'
    BY Zenon, <1>12, ReturnTyped DEF RetryAbort, RecordsTyped
  <2>3. TasksTyped'
    BY Zenon, <1>12, <2>1, AbortTyped DEF RetryAbort, TasksTyped
  <2> QED BY Zenon, <2>2, <2>3
<1>13. ASSUME NEW op \in Ops, CancelCall(c, op) \/ RetryCall(c, op) PROVE TypeOK'
    BY <1>13 DEF CancelCall, RetryCall, Goto, RecordsTyped, TasksTyped, CallersTyped, CallerStates
<1> HIDE DEF TypeOK
<1> QED
    BY Zenon, <1>1, <1>2, <1>3, <1>4, <1>5, <1>6, <1>7, <1>8, <1>9, <1>10, <1>11, <1>12, <1>13
    DEF CallersStep, CallerStep

-----------------------------------------------------------------------------
(* Frames: what a step leaves alone *)

\* A step of the engine or of a task takes nothing from a job's record, and starts
\* nothing that was cancelled.
OthersFrame ==
    /\ UNCHANGED <<callerVars, token, intent, ack>>
    /\ signalled \subseteq signalled'
    /\ \A op \in Ops :
          /\ started[op] => started'[op]
          /\ started'[op] /\ ~started[op] => ~token[op] /\ task[op] = "check"
          /\ task'[op] = "aborted" => task[op] = "aborted"
          /\ task[op] # "none" => task'[op] # "none"
          /\ output[op] # None => output'[op] = output[op]

LEMMA OthersFramed ==
    ASSUME TypeOK, OthersStep
    PROVE  OthersFrame
<1> USE DEF TypeOK, RecordsTyped, TasksTyped, jobVars, taskVars, callerVars, TaskUnchanged, OthersFrame
<1>1. ASSUME NEW op \in Ops, Admit(op) \/ Release(op) \/ Commit(op) PROVE OthersFrame
    BY <1>1 DEF Admit, Release, Commit
<1>2. ASSUME NEW op \in Ops, TryAdmitTerminal(op) \/ TaskLaunched(op) \/ TaskRetained(op) \/ TaskAcquire(op)
      PROVE OthersFrame
    BY <1>2 DEF TryAdmitTerminal, TaskLaunched, TaskRetained, TaskAcquire
<1>3. ASSUME NEW op \in Ops, TaskStart(op) PROVE OthersFrame
    BY Zenon, <1>3 DEF TaskStart, MayNotStart
<1>4. ASSUME NEW op \in Ops, TaskSettle(op) PROVE OthersFrame
    BY Zenon, <1>4 DEF TaskSettle
<1>5. ASSUME NEW op \in Ops, TaskNotify(op) PROVE OthersFrame
    BY Zenon, <1>5 DEF TaskNotify, Announce
<1>6. ASSUME NEW op \in Ops, NEW k \in Claimants, Claim(op, k) PROVE OthersFrame
    BY Zenon, <1>6 DEF Claim
<1>7. ASSUME NEW op \in Ops, NEW o \in Returns, TaskReturn(op, o) PROVE OthersFrame
    BY Zenon, <1>7 DEF TaskReturn
<1> HIDE DEF TypeOK, OthersFrame
<1> QED BY Zenon, <1>1, <1>2, <1>3, <1>4, <1>5, <1>6, <1>7 DEF OthersStep, TaskStep

\* A caller's step leaves the other callers where they are, their gates with them,
\* and every job alone but the one whose gate it holds.
CallersFrame(c) ==
    /\ UNCHANGED <<started, published, providerCompletion, launch, terminal, result>>
    /\ signalled \subseteq signalled'
    /\ \A d \in Callers \ {c} :
          pc'[d] = pc[d] /\ target'[d] = target[d] /\ answer'[d] = answer[d] /\ taken'[d] = taken[d]
    /\ \A op \in Ops : gate[op] \notin {c, None} => gate'[op] = gate[op]
    /\ pc[c] \notin Holding => UNCHANGED <<jobVars, taskVars, asked, signalled>>
    /\ \A op \in Ops \ {target[c]} :
          /\ output'[op] = output[op] /\ token'[op] = token[op] /\ intent'[op] = intent[op]
          /\ ack'[op] = ack[op] /\ task'[op] = task[op] /\ asked'[op] = asked[op]
          /\ claimants'[op] = claimants[op] /\ settledClaimants'[op] = settledClaimants[op]
          /\ op \in signalled' <=> op \in signalled
    /\ \A op \in Ops : output[op] # None => output'[op] = output[op]
    /\ \A op \in Ops : task'[op] = task[op] \/ (task[op] \in LiveTask /\ task'[op] = "aborted")

LEMMA CallersFramed ==
    ASSUME TypeOK, GateHeld, NEW c \in Callers, CallersStep(c)
    PROVE  CallersFrame(c)
<1> USE DEF TypeOK, RecordsTyped, TasksTyped, CallersTyped, jobVars, taskVars, callerVars, CallersFrame,
            GateHeld, Holding
<1>1. CASE CancelGate(c) \/ RetryGate(c)
    BY <1>1 DEF CancelGate, RetryGate, Goto
<1>2. CASE CancelIntent(c)
    BY <1>2 DEF CancelIntent, Return, Goto
<1>3. CASE CancelRecheck(c)
    BY <1>3 DEF CancelRecheck, Return, Goto
<1>4. CASE OwnerAnswers(c)
    BY Zenon, <1>4 DEF OwnerAnswers, Goto
<1>5. CASE CancelRecord(c)
    BY <1>5 DEF CancelRecord, Return, Goto, Drain
<1>6. CASE CancelAbort(c)
    BY <1>6 DEF CancelAbort, AbortTask, Goto
<1>7. CASE CancelEvent(c)
    BY Zenon, <1>7 DEF CancelEvent, Return, Announce
<1>8. CASE CancelSettle(c)
    BY <1>8 DEF CancelSettle, Return, Goto, Drain
<1>9. CASE CancelGrace(c)
    BY <1>9 DEF CancelGrace, Return, AbortTask, Announce
<1>10. CASE RetryCheck(c)
    BY <1>10 DEF RetryCheck, Return, Goto
<1>11. CASE RetryRecord(c)
    BY <1>11 DEF RetryRecord, Goto
<1>12. CASE RetryAbort(c)
    BY <1>12 DEF RetryAbort, Return, AbortTask
<1>13. ASSUME NEW op \in Ops, CancelCall(c, op) \/ RetryCall(c, op) PROVE CallersFrame(c)
    BY <1>13 DEF CancelCall, RetryCall, Goto
<1> HIDE DEF TypeOK, CallersFrame, GateHeld
<1> QED
    BY Zenon, <1>1, <1>2, <1>3, <1>4, <1>5, <1>6, <1>7, <1>8, <1>9, <1>10, <1>11, <1>12, <1>13
    DEF CallersStep, CallerStep

-----------------------------------------------------------------------------
(* The conjuncts of the inductive invariant *)

\* A caller past the gate holds it: it takes a free gate and returns its own.
LEMMA GateStep ==
    ASSUME TypeOK, GateHeld, [Next]_vars
    PROVE  GateHeld'
<1>1. CASE OthersStep
    BY Zenon, <1>1, OthersFramed DEF OthersFrame, callerVars, GateHeld
<1>2. ASSUME NEW c \in Callers, CallersStep(c) PROVE GateHeld'
  <2>1. CallersFrame(c)
    BY Zenon, <1>2, CallersFramed
  <2>2. ASSUME NEW d \in Callers \ {c}
        PROVE  /\ pc'[d] # "idle" => target'[d] \in Ops
               /\ pc'[d] \in Holding => gate'[target'[d]] = d
    <3>1. pc'[d] = pc[d] /\ target'[d] = target[d]
      BY Zenon, <2>1 DEF CallersFrame
    <3>2. /\ pc[d] # "idle" => target[d] \in Ops
          /\ pc[d] \in Holding => gate[target[d]] = d
      BY Zenon DEF GateHeld
    <3>3. ASSUME pc[d] \in Holding PROVE gate'[target[d]] = d
      <4>1. target[d] \in Ops /\ gate[target[d]] = d
        BY Zenon, <3>2, <3>3 DEF Holding
      <4>2. d \notin {c, None}
        BY Zenon, ConstantsAssumption DEF ConstantsAssumption
      <4> QED BY Zenon, <2>1, <4>1, <4>2 DEF CallersFrame
    <3> QED BY Zenon, <3>1, <3>2, <3>3
  <2>3. /\ pc'[c] # "idle" => target'[c] \in Ops
        /\ pc'[c] \in Holding => gate'[target'[c]] = c
    <3>1. /\ pc \in [Callers -> CallerStates]
          /\ target \in [Callers -> Ops \cup {None}]
          /\ gate \in [Ops -> Callers \cup {None}]
      BY Zenon DEF TypeOK, CallersTyped
    <3> USE <3>1 DEF GateHeld, Holding
    <3>2. CASE CancelGate(c) \/ RetryGate(c)
      BY Zenon, <3>2 DEF CancelGate, RetryGate, Goto
    <3>3. CASE CancelIntent(c)
      BY Zenon, <3>3 DEF CancelIntent, Return, Goto
    <3>4. CASE CancelRecheck(c)
      BY Zenon, <3>4 DEF CancelRecheck, Return, Goto
    <3>5. CASE OwnerAnswers(c)
      BY Zenon, <3>5 DEF OwnerAnswers, Goto
    <3>6. CASE CancelRecord(c)
      BY Zenon, <3>6 DEF CancelRecord, Return, Goto
    <3>7. CASE CancelAbort(c)
      BY Zenon, <3>7 DEF CancelAbort, Goto
    <3>8. CASE CancelSettle(c)
      BY Zenon, <3>8 DEF CancelSettle, Return, Goto
    <3>9. CASE CancelEvent(c) \/ CancelGrace(c) \/ RetryAbort(c)
      BY Zenon, <3>9 DEF CancelEvent, CancelGrace, RetryAbort, Return
    <3>10. CASE RetryCheck(c)
      BY Zenon, <3>10 DEF RetryCheck, Return, Goto
    <3>11. CASE RetryRecord(c)
      BY Zenon, <3>11 DEF RetryRecord, Goto
    <3>12. ASSUME NEW op \in Ops, CancelCall(c, op) \/ RetryCall(c, op)
           PROVE  target'[c] \in Ops /\ pc'[c] \notin Holding
      BY Zenon, <3>12 DEF CancelCall, RetryCall, Goto
    <3> HIDE DEF GateHeld, Holding
    <3> QED BY Zenon, <1>2, <3>2, <3>3, <3>4, <3>5, <3>6, <3>7, <3>8, <3>9, <3>10, <3>11, <3>12
            DEF CallersStep, CallerStep
  <2> QED BY Zenon, <2>2, <2>3 DEF GateHeld
<1>3. CASE UNCHANGED vars
    BY Zenon, <1>3 DEF vars, callerVars, GateHeld
<1> QED BY Zenon, <1>1, <1>2, <1>3, Steps

\* Two callers past a gate are past the gates of two jobs.
LEMMA Alone ==
    ASSUME GateHeld, NEW c \in Callers, NEW d \in Callers \ {c}, pc[c] \in Holding, pc[d] \in Holding
    PROVE  target[d] # target[c]
BY Zenon DEF GateHeld

\* The facts about a job's record.
LEMMA JobStep ==
    ASSUME TypeOK, GateHeld, JobFacts, CallerFacts, [Next]_vars
    PROVE  JobFacts'
<1>1. CASE OthersStep
  <2> USE DEF TypeOK, RecordsTyped, TasksTyped, jobVars, taskVars, callerVars, TaskUnchanged, JobFacts
  <2>1. ASSUME NEW op \in Ops, Admit(op) \/ Release(op) \/ Commit(op) PROVE JobFacts'
    BY <2>1 DEF Admit, Release, Commit
  <2>2. ASSUME NEW op \in Ops, TryAdmitTerminal(op) \/ TaskLaunched(op) \/ TaskAcquire(op) PROVE JobFacts'
    BY <2>2 DEF TryAdmitTerminal, TaskLaunched, TaskAcquire
  <2>3. ASSUME NEW op \in Ops, TaskRetained(op) PROVE JobFacts'
    BY <2>3, ConstantsAssumption DEF TaskRetained, ConstantsAssumption, Outputs
  <2>4. ASSUME NEW op \in Ops, TaskStart(op) PROVE JobFacts'
    BY <2>4, ConstantsAssumption DEF TaskStart, ConstantsAssumption, Outputs
  <2>5. ASSUME NEW op \in Ops, TaskSettle(op) PROVE JobFacts'
    BY <2>5 DEF TaskSettle, Drain
  <2>6. ASSUME NEW op \in Ops, TaskNotify(op) PROVE JobFacts'
    BY Zenon, <2>6 DEF TaskNotify
  <2>7. ASSUME NEW op \in Ops, NEW k \in Claimants, Claim(op, k) PROVE JobFacts'
    BY Zenon, <2>7 DEF Claim
  <2>8. ASSUME NEW op \in Ops, NEW o \in Returns, TaskReturn(op, o) PROVE JobFacts'
    BY <2>8, ConstantsAssumption DEF TaskReturn, ConstantsAssumption
  <2> HIDE DEF TypeOK, JobFacts
  <2> QED BY Zenon, <1>1, <2>1, <2>2, <2>3, <2>4, <2>5, <2>6, <2>7, <2>8 DEF OthersStep, TaskStep
<1>2. ASSUME NEW c \in Callers, CallersStep(c) PROVE JobFacts'
  <2>1. CallersFrame(c)
    BY Zenon, <1>2, CallersFramed
  <2>2. CASE pc[c] \notin Holding
    <3>1. UNCHANGED <<jobVars, taskVars>>
      BY Zenon, <2>1, <2>2 DEF CallersFrame
    <3> QED BY Zenon, <3>1 DEF JobFacts, jobVars, taskVars
  <2>3. CASE pc[c] \in Holding
    <3> DEFINE op == target[c]
    <3>1. op \in Ops
      BY Zenon, <2>3 DEF GateHeld, Holding
    <3> HIDE DEF op
    <3>2. /\ output \in [Ops -> Outputs \cup {None}]
           /\ intent \in [Ops -> Callers \cup {None}]
           /\ ack \in [Ops -> Acks \cup {None}]
           /\ settledClaimants \in [Ops -> SUBSET Claimants]
           /\ task \in [Ops -> TaskStates]
           /\ answer \in [Callers -> Acks \cup {None}]
      BY Zenon DEF TypeOK, RecordsTyped, TasksTyped, CallersTyped
    <3> USE <3>1, <3>2
    <3>3. CASE CancelIntent(c)
      BY Zenon, <3>3 DEF CancelIntent, op, JobFacts, jobVars, taskVars
    <3>4. CASE CancelRecheck(c) \/ OwnerAnswers(c) \/ CancelEvent(c) \/ RetryCheck(c)
      <4>1. UNCHANGED <<jobVars, taskVars>>
        BY Zenon, <3>4 DEF CancelRecheck, OwnerAnswers, CancelEvent, RetryCheck
      <4> QED BY Zenon, <4>1 DEF JobFacts, jobVars, taskVars
    <3>5. CASE CancelRecord(c)
      <4>1. answer[c] \in Acks /\ intent[op] # None /\ started[op]
        BY Zenon, <3>5 DEF CancelRecord, CallerFacts, op
      <4>2. AckOutput(answer[c]) # None
        BY Zenon, <4>1, ConstantsAssumption DEF ConstantsAssumption, AckOutput, Acks, Outputs
      <4>3. CASE output[op] # None
        BY Zenon, <3>5, <4>1, <4>3 DEF CancelRecord, op, JobFacts, taskVars
      <4>4. CASE output[op] = None
        BY <3>5, <4>1, <4>2, <4>4 DEF CancelRecord, Drain, op, JobFacts, taskVars
      <4> QED BY Zenon, <4>3, <4>4
    <3>6. CASE CancelAbort(c)
      <4>1. output[op] # None
        BY Zenon, <3>6 DEF CancelAbort, CallerFacts, op
      <4> QED BY Zenon, <3>6, <4>1 DEF CancelAbort, AbortTask, op, JobFacts, jobVars, taskVars
    <3>7. CASE CancelSettle(c)
      BY <3>7, ConstantsAssumption
      DEF CancelSettle, Drain, op, ConstantsAssumption, Outputs, JobFacts, taskVars
    <3>8. CASE CancelGrace(c)
      <4>1. output[op] # None
        BY Zenon, <3>8 DEF CancelGrace, CallerFacts, op
      <4> QED BY Zenon, <3>8, <4>1 DEF CancelGrace, AbortTask, op, JobFacts, jobVars, taskVars
    <3>9. CASE RetryRecord(c)
      <4>1. ack[op] # None
        BY Zenon, <3>9, ConstantsAssumption
        DEF RetryRecord, CallerFacts, op, ConstantsAssumption, Acks
      <4> QED BY Zenon, <3>9, <4>1 DEF RetryRecord, op, JobFacts, taskVars
    <3>10. CASE RetryAbort(c)
      <4>1. taken[c] => output[op] # None
        BY <3>10, ConstantsAssumption
        DEF RetryAbort, CallerFacts, JobFacts, StoppedAck, op, ConstantsAssumption, Acks
      <4> QED BY Zenon, <3>10, <4>1 DEF RetryAbort, AbortTask, op, JobFacts, jobVars, taskVars
    <3> QED
      BY Zenon, <1>2, <2>3, <3>3, <3>4, <3>5, <3>6, <3>7, <3>8, <3>9, <3>10
      DEF CallersStep, CallerStep, CancelGate, RetryGate, CancelCall, RetryCall, Holding
  <2> QED BY Zenon, <2>2, <2>3
<1>3. CASE UNCHANGED vars
    BY Zenon, <1>3 DEF vars, jobVars, taskVars, JobFacts
<1> QED BY Zenon, <1>1, <1>2, <1>3, Steps

\* The facts a caller relies on: the job's task and the engine keep them, and the other
\* callers are at other jobs.
LEMMA CallerFactsStep ==
    ASSUME TypeOK, GateHeld, JobFacts, CallerFacts, [Next]_vars
    PROVE  CallerFacts'
<1>1. CASE OthersStep
  <2>1. OthersFrame
    BY Zenon, <1>1, OthersFramed
  <2> QED
    BY <2>1 DEF OthersFrame, callerVars, CallerFacts, GateHeld, OwnerNeeded
<1>2. ASSUME NEW c \in Callers, CallersStep(c) PROVE CallerFacts'
  <2> DEFINE Known(d) ==
        /\ pc[d] \in {"record", "retry_record"} => answer[d] # None
        /\ taken[d] => pc[d] \in {"abort", "event", "grace", "retry_abort"}
        /\ pc[d] \in {"recheck", "asking", "record"} =>
              intent[target[d]] # None /\ started[target[d]] /\ task[target[d]] # "aborted"
        /\ pc[d] \in {"settle", "grace"} => token[target[d]] /\ ~OwnerNeeded(target[d])
        /\ pc[d] \in {"abort", "event", "grace"} => output[target[d]] # None
        /\ pc[d] = "abort" => StoppedAck(ack[target[d]])
        /\ pc[d] \in {"retry_asking", "retry_record"} => ack[target[d]] = "unconfirmed"
        /\ pc[d] = "retry_abort" /\ taken[d] => StoppedAck(ack[target[d]])
  <2>1. CallersFrame(c)
    BY Zenon, <1>2, CallersFramed
  <2>2. ASSUME NEW d \in Callers \ {c} PROVE Known(d)'
    <3>1. Known(d)
      BY Zenon DEF CallerFacts
    <3>2. /\ pc'[d] = pc[d] /\ target'[d] = target[d] /\ answer'[d] = answer[d] /\ taken'[d] = taken[d]
          /\ UNCHANGED started
      BY Zenon, <2>1 DEF CallersFrame
    <3>3. CASE pc[d] \in Holding
      <4>1. target[d] \in Ops
        BY Zenon, <3>3 DEF GateHeld, Holding
      <4>2. CASE pc[c] \in Holding
        <5>1. target[d] # target[c]
          BY Zenon, <3>3, <4>2, Alone
        <5> QED BY <2>1, <3>1, <3>2, <4>1, <5>1 DEF CallersFrame, OwnerNeeded, StoppedAck
      <4>3. CASE pc[c] \notin Holding
        <5>1. UNCHANGED <<jobVars, taskVars>>
          BY Zenon, <2>1, <4>3 DEF CallersFrame
        <5> QED BY Zenon, <3>1, <3>2, <5>1 DEF jobVars, taskVars, OwnerNeeded, StoppedAck
      <4> QED BY Zenon, <4>2, <4>3
    <3>4. CASE pc[d] \notin Holding
      BY Zenon, <3>1, <3>2, <3>4 DEF Holding
    <3> QED BY Zenon, <3>3, <3>4
  <2>3. Known(c)'
    <3>1. Known(c)
      BY Zenon DEF CallerFacts
    <3> USE DEF TypeOK, RecordsTyped, TasksTyped, CallersTyped, jobVars, taskVars, GateHeld, Holding
    <3>2. CASE CancelGate(c) \/ RetryGate(c)
      BY <3>1, <3>2 DEF CancelGate, RetryGate, Goto
    <3>3. CASE CancelIntent(c)
      <4>1. CASE output[target[c]] # None
        BY <3>1, <3>3, <4>1 DEF CancelIntent, Return
      <4>2. CASE output[target[c]] = None
        <5>1. /\ target[c] \in Ops
              /\ target'[c] = target[c] /\ pc'[c] \in {"recheck", "settle"} /\ taken'[c] = taken[c]
              /\ pc'[c] = "recheck" <=> OwnerNeeded(target[c])
              /\ token'[target[c]] = TRUE /\ intent'[target[c]] # None
              /\ UNCHANGED <<started, task, output>>
          BY <3>3, <4>2, ConstantsAssumption DEF CancelIntent, Goto, ConstantsAssumption
        <5>2. task[target[c]] # "aborted" /\ ~taken[c]
          BY Zenon, <3>1, <3>3, <4>2, <5>1 DEF CancelIntent, JobFacts
        <5> QED BY Zenon, <5>1, <5>2 DEF OwnerNeeded
      <4> QED BY Zenon, <4>1, <4>2
    <3>4. CASE CancelRecheck(c)
      BY <3>1, <3>4 DEF CancelRecheck, Return, Goto
    <3>5. CASE OwnerAnswers(c)
      BY <3>1, <3>5, ConstantsAssumption DEF OwnerAnswers, Goto, ConstantsAssumption
    <3>6. CASE CancelRecord(c)
      <4>1. CASE output[target[c]] # None
        BY <3>1, <3>6, <4>1 DEF CancelRecord, Return
      <4>2. CASE output[target[c]] = None
        <5>1. /\ target[c] \in Ops /\ answer[c] \in Acks /\ ~taken[c]
              /\ target'[c] = target[c] /\ pc'[c] \in {"abort", "event"}
              /\ pc'[c] = "abort" => StoppedAck(answer[c])
              /\ ack'[target[c]] = answer[c]
              /\ output'[target[c]] = AckOutput(answer[c])
          BY <3>1, <3>6, <4>2, ConstantsAssumption DEF CancelRecord, Goto, ConstantsAssumption
        <5>2. output'[target[c]] # None
          BY Zenon, <5>1, ConstantsAssumption DEF ConstantsAssumption, AckOutput, Acks, Outputs
        <5> QED BY Zenon, <5>1, <5>2
      <4> QED BY Zenon, <4>1, <4>2
    <3>7. CASE CancelAbort(c)
      BY Zenon, <3>1, <3>7 DEF CancelAbort, Goto
    <3>8. CASE CancelSettle(c)
      <4>1. CASE output[target[c]] # None
        BY <3>1, <3>8, <4>1 DEF CancelSettle, Return
      <4>2. CASE output[target[c]] = None
        <5>1. /\ target[c] \in Ops
              /\ target'[c] = target[c] /\ pc'[c] = "grace"
              /\ output'[target[c]] = "cancelled"
              /\ UNCHANGED <<token, started>>
          BY SMTT(40), <3>8, <4>2 DEF CancelSettle, Goto
        <5> QED BY Zenon, <3>1, <3>8, <5>1, ConstantsAssumption
                DEF CancelSettle, ConstantsAssumption, Outputs, OwnerNeeded
      <4> QED BY Zenon, <4>1, <4>2
    <3>9. CASE CancelEvent(c) \/ CancelGrace(c) \/ RetryAbort(c)
      BY <3>1, <3>9 DEF CancelEvent, CancelGrace, RetryAbort, Return
    <3>10. CASE RetryCheck(c)
      BY <3>1, <3>10 DEF RetryCheck, Return, Goto
    <3>11. CASE RetryRecord(c)
      <4>1. /\ target[c] \in Ops /\ ~taken[c]
            /\ target'[c] = target[c] /\ pc'[c] = "retry_abort"
            /\ taken'[c] => StoppedAck(answer[c])
            /\ ack'[target[c]] = answer[c]
        BY Zenon, <3>1, <3>11 DEF RetryRecord, Goto
      <4> QED BY Zenon, <4>1
    <3>12. ASSUME NEW op \in Ops, CancelCall(c, op) \/ RetryCall(c, op) PROVE Known(c)'
      BY <3>1, <3>12 DEF CancelCall, RetryCall, Goto
    <3> QED BY Zenon, <1>2, <3>2, <3>3, <3>4, <3>5, <3>6, <3>7, <3>8, <3>9, <3>10, <3>11, <3>12
            DEF CallersStep, CallerStep
  <2> QED BY Zenon, <2>2, <2>3 DEF CallerFacts
<1>3. CASE UNCHANGED vars
    BY Zenon, <1>3 DEF vars, jobVars, taskVars, callerVars, CallerFacts, OwnerNeeded
<1> QED BY Zenon, <1>1, <1>2, <1>3, Steps


\* An owner is asked with the admitted intent, which is set once.
LEMMA CauseStep ==
    ASSUME TypeOK, GateHeld, OneCauseAsked, [Next]_vars
    PROVE  OneCauseAsked'
<1>1. CASE OthersStep
    BY Zenon, <1>1, OthersFramed DEF OthersFrame, callerVars, OneCauseAsked
<1>2. ASSUME NEW c \in Callers, CallersStep(c) PROVE OneCauseAsked'
  <2>1. CallersFrame(c)
    BY Zenon, <1>2, CallersFramed
  <2>2. CASE pc[c] \notin Holding
    <3>1. UNCHANGED <<jobVars, asked>>
      BY Zenon, <2>1, <2>2 DEF CallersFrame
    <3> QED BY Zenon, <3>1 DEF OneCauseAsked, jobVars
  <2>3. CASE pc[c] \in Holding
    <3>1. target[c] \in Ops
      BY Zenon, <2>3 DEF GateHeld, Holding
    <3> USE DEF TypeOK, RecordsTyped, CallersTyped, jobVars, OneCauseAsked
    <3>2. CASE CancelIntent(c)
      <4>1. intent[target[c]] = None => asked[target[c]] = {}
        BY <3>1, ConstantsAssumption DEF ConstantsAssumption
      <4> QED BY <3>1, <3>2, <4>1 DEF CancelIntent
    <3>3. CASE CancelRecheck(c)
      BY <3>1, <3>3 DEF CancelRecheck, AdmittedCause
    <3>4. CASE RetryCheck(c)
      BY <3>1, <3>4 DEF RetryCheck, AdmittedCause
    <3>5. CASE UNCHANGED <<intent, asked>>
      BY Zenon, <3>5
    <3> QED BY Zenon, <1>2, <2>3, <3>2, <3>3, <3>4, <3>5
            DEF CallersStep, CallerStep, CancelGate, RetryGate, CancelCall, RetryCall, Holding,
                OwnerAnswers, CancelRecord, CancelAbort, CancelEvent, CancelSettle, CancelGrace,
                RetryRecord, RetryAbort
  <2> QED BY Zenon, <2>2, <2>3
<1>3. CASE UNCHANGED vars
    BY Zenon, <1>3 DEF vars, jobVars, callerVars, OneCauseAsked
<1> QED BY Zenon, <1>1, <1>2, <1>3, Steps

\* A started job with an owner is aborted after the acknowledgement only.
LEMMA OwnerStep ==
    ASSUME TypeOK, GateHeld, JobFacts, CallerFacts, OwnerNeverBypassed, [Next]_vars
    PROVE  OwnerNeverBypassed'
<1>1. Owned \subseteq Ops
    BY Zenon, ConstantsAssumption DEF ConstantsAssumption
<1>2. CASE OthersStep
    BY Zenon, <1>1, <1>2, OthersFramed DEF OthersFrame, OwnerNeverBypassed
<1>3. ASSUME NEW c \in Callers, CallersStep(c) PROVE OwnerNeverBypassed'
  <2>1. CallersFrame(c)
    BY Zenon, <1>3, CallersFramed
  <2>2. CASE pc[c] \notin Holding
    <3>1. UNCHANGED <<jobVars, taskVars>>
      BY Zenon, <2>1, <2>2 DEF CallersFrame
    <3> QED BY Zenon, <3>1 DEF OwnerNeverBypassed, jobVars, taskVars
  <2>3. CASE pc[c] \in Holding
    <3>1. target[c] \in Ops
      BY Zenon, <2>3 DEF GateHeld, Holding
    <3> USE DEF TypeOK, RecordsTyped, TasksTyped, jobVars, taskVars, OwnerNeverBypassed, CallerFacts
    <3>2. CASE CancelRecord(c)
      BY <3>1, <3>2, <1>1 DEF CancelRecord
    <3>3. CASE CancelAbort(c)
      BY <3>1, <3>3, <1>1 DEF CancelAbort, AbortTask, StoppedAck
    <3>4. CASE CancelGrace(c)
      BY <3>1, <3>4, <1>1 DEF CancelGrace, AbortTask, OwnerNeeded
    <3>5. CASE RetryRecord(c)
      BY <3>1, <3>5, <1>1 DEF RetryRecord
    <3>6. CASE RetryAbort(c)
      BY Zenon, <3>1, <3>6, <1>1 DEF RetryAbort, AbortTask, StoppedAck
    <3>7. CASE UNCHANGED <<task, started, ack>>
      BY Zenon, <3>7
    <3> QED BY Zenon, <1>3, <2>3, <3>2, <3>3, <3>4, <3>5, <3>6, <3>7
            DEF CallersStep, CallerStep, CancelGate, RetryGate, CancelCall, RetryCall, Holding,
                OwnerAnswers, CancelIntent, CancelRecheck, CancelEvent, CancelSettle, RetryCheck
  <2> QED BY Zenon, <2>2, <2>3
<1>4. CASE UNCHANGED vars
    BY Zenon, <1>4 DEF vars, jobVars, taskVars, OwnerNeverBypassed
<1> QED BY Zenon, <1>2, <1>3, <1>4, Steps

\* A closed activation admits no domain work, and was closed when all of it had stopped.
LEMMA ClosedStep ==
    ASSUME TypeOK, GateHeld, ClosedActivationSettled, [Next]_vars
    PROVE  ClosedActivationSettled'
<1> USE ConstantsAssumption
<1>1. None \notin Proven /\ Proven = (Outputs \cup {None}) \ {None, "unconfirmed", "interrupted"}
    BY Zenon DEF ConstantsAssumption, Proven, Outputs
<1>2. CASE OthersStep
  <2>1. OthersFrame
    BY Zenon, <1>2, OthersFramed
  <2>2. ASSUME NEW op \in Ops, Admit(op) PROVE ClosedActivationSettled'
    BY Zenon, <2>2 DEF Admit, ClosedActivationSettled, Admitted, Closed, TypeOK, TasksTyped
  <2>3. ASSUME NEW op \in Ops, TryAdmitTerminal(op) PROVE ClosedActivationSettled'
    <3>1. \A q \in Ops : output[q] \in Outputs \cup {None}
      BY Zenon DEF TypeOK, RecordsTyped
    <3>2. /\ Pending(ActivationOf[op]) = {}
          /\ terminal' = [terminal EXCEPT ![ActivationOf[op]] = op]
          /\ UNCHANGED <<output, task>>
      BY Zenon, <2>3 DEF TryAdmitTerminal, jobVars, taskVars
    <3>3. \A q \in Admitted : ActivationOf[q] = ActivationOf[op] /\ RoleOf[q] = "domain" => output[q] \in Proven
      BY Zenon, <1>1, <3>1, <3>2 DEF Pending, Admitted
    <3>4. \A q \in Ops : ActivationOf[q] # ActivationOf[op] => terminal'[ActivationOf[q]] = terminal[ActivationOf[q]]
      BY Zenon, <3>2 DEF ConstantsAssumption, TypeOK, RecordsTyped
    <3> QED BY Zenon, <3>2, <3>3, <3>4 DEF ClosedActivationSettled, Admitted, Closed
  <2>4. CASE UNCHANGED terminal /\ \A op \in Ops : task[op] = "none" => task'[op] = "none"
    BY Zenon, <1>1, <2>1, <2>4 DEF OthersFrame, ClosedActivationSettled, Admitted, Closed
  <2>5. ASSUME NEW op \in Ops,
               \/ Release(op) \/ Commit(op) \/ TaskStep(op)
               \/ (\E k \in Claimants : Claim(op, k)) \/ (\E o \in Returns : TaskReturn(op, o))
        PROVE  UNCHANGED terminal /\ \A q \in Ops : task[q] = "none" => task'[q] = "none"
    <3> USE DEF TypeOK, TasksTyped, TaskUnchanged, taskVars
    <3>1. CASE Release(op) \/ Commit(op)
      BY Zenon, <3>1 DEF Release, Commit
    <3>2. CASE TaskLaunched(op) \/ TaskRetained(op) \/ TaskAcquire(op)
      BY Zenon, <3>2 DEF TaskLaunched, TaskRetained, TaskAcquire
    <3>3. CASE TaskStart(op)
      BY Zenon, <3>3 DEF TaskStart
    <3>4. CASE TaskSettle(op) \/ TaskNotify(op)
      BY Zenon, <3>4 DEF TaskSettle, TaskNotify
    <3>5. ASSUME NEW k \in Claimants, Claim(op, k)
          PROVE  UNCHANGED terminal /\ \A q \in Ops : task[q] = "none" => task'[q] = "none"
      BY Zenon, <3>5 DEF Claim
    <3>6. ASSUME NEW o \in Returns, TaskReturn(op, o)
          PROVE  UNCHANGED terminal /\ \A q \in Ops : task[q] = "none" => task'[q] = "none"
      BY Zenon, <3>6 DEF TaskReturn
    <3> QED BY Zenon, <2>5, <3>1, <3>2, <3>3, <3>4, <3>5, <3>6 DEF TaskStep
  <2> QED BY Zenon, <1>2, <2>2, <2>3, <2>4, <2>5 DEF OthersStep
<1>3. ASSUME NEW c \in Callers, CallersStep(c) PROVE ClosedActivationSettled'
  <2>1. CallersFrame(c)
    BY Zenon, <1>3, CallersFramed
  <2>2. /\ UNCHANGED terminal
        /\ \A op \in Ops : output[op] # None => output'[op] = output[op]
        /\ \A op \in Ops : task[op] = "none" => task'[op] = "none"
    BY Zenon, <2>1 DEF CallersFrame, LiveTask, TaskStates
  <2> QED BY Zenon, <1>1, <2>2 DEF ClosedActivationSettled, Admitted, Closed
<1>4. CASE UNCHANGED vars
    BY Zenon, <1>4 DEF vars, jobVars, taskVars, ClosedActivationSettled, Admitted, Closed
<1> QED BY Zenon, <1>2, <1>3, <1>4, Steps

\* An output becomes visible with its claims moved.
LEMMA ClaimStep ==
    ASSUME TypeOK, GateHeld, NoStrandedClaim, [Next]_vars
    PROVE  NoStrandedClaim'
<1>1. CASE OthersStep
  <2> USE DEF TypeOK, RecordsTyped, TasksTyped, jobVars, taskVars, TaskUnchanged, NoStrandedClaim, Visible
  <2>1. ASSUME NEW op \in Ops, Commit(op) PROVE NoStrandedClaim'
    BY Zenon, <2>1 DEF Commit
  <2>2. ASSUME NEW op \in Ops, TaskSettle(op) PROVE NoStrandedClaim'
    BY <2>2 DEF TaskSettle, Drain
  <2>3. ASSUME NEW op \in Ops, NEW k \in Claimants, Claim(op, k) PROVE NoStrandedClaim'
    BY Zenon, <2>3 DEF Claim
  <2>4. CASE UNCHANGED <<output, published, claimants>>
    BY Zenon, <2>4
  <2> QED BY Zenon, <1>1, <2>1, <2>2, <2>3, <2>4
          DEF OthersStep, TaskStep, Admit, Release, TryAdmitTerminal, TaskLaunched, TaskRetained,
              TaskAcquire, TaskStart, TaskNotify, TaskReturn
<1>2. ASSUME NEW c \in Callers, CallersStep(c) PROVE NoStrandedClaim'
  <2>1. CallersFrame(c)
    BY Zenon, <1>2, CallersFramed
  <2>2. CASE pc[c] \notin Holding
    <3>1. UNCHANGED jobVars
      BY Zenon, <2>1, <2>2 DEF CallersFrame
    <3> QED BY Zenon, <3>1 DEF jobVars, NoStrandedClaim, Visible
  <2>3. CASE pc[c] \in Holding
    <3>1. target[c] \in Ops
      BY Zenon, <2>3 DEF GateHeld, Holding
    <3> USE DEF TypeOK, RecordsTyped, jobVars, NoStrandedClaim, Visible
    <3>2. CASE CancelRecord(c)
      BY Zenon, <3>1, <3>2 DEF CancelRecord, Drain
    <3>3. CASE CancelSettle(c)
      BY Zenon, <3>1, <3>3 DEF CancelSettle, Drain
    <3>4. CASE UNCHANGED <<output, published, claimants>>
      BY Zenon, <3>4
    <3> QED BY Zenon, <1>2, <2>3, <3>2, <3>3, <3>4
            DEF CallersStep, CallerStep, CancelGate, RetryGate, CancelCall, RetryCall, Holding,
                OwnerAnswers, CancelIntent, CancelRecheck, CancelAbort, CancelEvent, CancelGrace,
                RetryCheck, RetryRecord, RetryAbort
  <2> QED BY Zenon, <2>2, <2>3
<1>3. CASE UNCHANGED vars
    BY Zenon, <1>3 DEF vars, jobVars, NoStrandedClaim, Visible
<1> QED BY Zenon, <1>1, <1>2, <1>3, Steps

-----------------------------------------------------------------------------
(* Announcements: what the tasks and the callers have announced, or will *)

\* What SignalFacts says of the tasks, and of the callers.
TasksAnnounce ==
    \A op \in Ops :
        /\ task[op] \in BeforeStart => ~started[op]
        /\ task[op] \in {"settling", "notifying"} => result[op] \in {"ok", "err"} \/ ~started[op]
        /\ task[op] = "notifying" /\ started[op] => providerCompletion[op] # None
        /\ task[op] = "done" /\ Visible(op) => op \in signalled

RetriesSilent ==
    \A c \in Callers :
        pc[c] = "retry_abort" /\ taken[c] /\ Visible(target[c]) => target[c] \in signalled

\* The steps of the tasks keep what is known of them.
LEMMA TasksStep ==
    ASSUME Returns \subseteq {"ok", "err"}, TypeOK, JobFacts, TasksAnnounce, OthersStep
    PROVE  TasksAnnounce'
<1> USE DEF TypeOK, RecordsTyped, TasksTyped, jobVars, taskVars, TaskUnchanged, TasksAnnounce, BeforeStart
<1>1. ASSUME NEW op \in Ops, Admit(op) PROVE TasksAnnounce'
    BY Zenon, <1>1 DEF Admit, Visible
<1>2. ASSUME NEW op \in Ops, Commit(op) PROVE TasksAnnounce'
    BY Zenon, <1>2 DEF Commit, Visible
<1>3. ASSUME NEW op \in Ops, TaskLaunched(op) \/ TaskAcquire(op) PROVE TasksAnnounce'
    BY <1>3 DEF TaskLaunched, TaskAcquire, Visible
<1>4. ASSUME NEW op \in Ops, TaskRetained(op) PROVE TasksAnnounce'
    BY <1>4 DEF TaskRetained, Visible
<1>5. ASSUME NEW op \in Ops, TaskStart(op) PROVE TasksAnnounce'
    BY <1>5 DEF TaskStart, Visible
<1>6. ASSUME NEW op \in Ops, NEW o \in Returns, TaskReturn(op, o) PROVE TasksAnnounce'
    BY Zenon, <1>6 DEF TaskReturn, Visible
<1>7. ASSUME NEW op \in Ops, TaskSettle(op) PROVE TasksAnnounce'
  <2>1. None \notin {"ok", "err"}
    BY Zenon, ConstantsAssumption DEF ConstantsAssumption, Outputs
  <2> QED BY Zenon, <1>7, <2>1 DEF TaskSettle, Visible
<1>8. ASSUME NEW op \in Ops, TaskNotify(op) PROVE TasksAnnounce'
    BY Zenon, <1>8 DEF TaskNotify, Announce, Visible
<1>9. CASE UNCHANGED <<task, started, result, providerCompletion, output, published, signalled>>
    BY Zenon, <1>9 DEF Visible
<1> QED BY Zenon, <1>1, <1>2, <1>3, <1>4, <1>5, <1>6, <1>7, <1>8, <1>9
        DEF OthersStep, TaskStep, Release, Claim, TryAdmitTerminal

\* An output becomes visible by mark_output_committed, which announces it, or by the
\* task that is about to; and a task that was about to announce one does.
LEMMA OthersAnnounce ==
    ASSUME TypeOK, OthersStep, NEW op \in Ops
    PROVE  /\ Visible(op)' /\ ~Visible(op) =>
                 op \in signalled' \/ (output[op] = None /\ task'[op] = "notifying")
           /\ task[op] = "notifying" => task'[op] = "notifying" \/ (Visible(op)' => op \in signalled')
<1> USE DEF TypeOK, RecordsTyped, TasksTyped, jobVars, taskVars, TaskUnchanged, Visible
<1>1. ASSUME NEW q \in Ops, Admit(q) \/ Commit(q) PROVE
           /\ Visible(op)' /\ ~Visible(op) => op \in signalled'
           /\ task[op] = "notifying" => task'[op] = "notifying"
    BY <1>1 DEF Admit, Commit
<1>2. ASSUME NEW q \in Ops, TaskSettle(q) PROVE
           /\ Visible(op)' /\ ~Visible(op) => output[op] = None /\ task'[op] = "notifying"
           /\ task[op] = "notifying" => task'[op] = "notifying"
    BY Zenon, <1>2 DEF TaskSettle
<1>3. ASSUME NEW q \in Ops, TaskNotify(q) PROVE
           /\ Visible(op)' => Visible(op)
           /\ task[op] = "notifying" => task'[op] = "notifying" \/ (Visible(op)' => op \in signalled')
    BY Zenon, <1>3 DEF TaskNotify, Announce
<1>4. ASSUME NEW q \in Ops,
             \/ TaskLaunched(q) \/ TaskRetained(q) \/ TaskAcquire(q) \/ TaskStart(q)
             \/ \E o \in Returns : TaskReturn(q, o)
      PROVE  /\ Visible(op)' => Visible(op)
             /\ task[op] = "notifying" => task'[op] = "notifying"
    BY Zenon, <1>4 DEF TaskLaunched, TaskRetained, TaskAcquire, TaskStart, TaskReturn
<1>5. CASE UNCHANGED <<task, output, published>>
    BY Zenon, <1>5
<1> QED BY Zenon, <1>1, <1>2, <1>3, <1>4, <1>5
        DEF OthersStep, TaskStep, Release, Claim, TryAdmitTerminal

\* A caller at the gate of a job leaves it announced, or is still to announce it.
LEMMA CallersAnnounce ==
    ASSUME Inv, TasksAnnounce, RetriesSilent, SignalOwed, NEW c \in Callers, CallersStep(c)
    PROVE  SignalOwed'
<1>1. TypeOK /\ GateHeld /\ JobFacts /\ CallerFacts
    BY Zenon DEF Inv
<1>2. CallersFrame(c)
    BY Zenon, <1>1, CallersFramed
<1> SUFFICES ASSUME NEW op \in Ops, Visible(op)', op \notin signalled'
             PROVE  task'[op] = "notifying" \/ \E d \in Callers : WillSignal(d, op)'
    BY Zenon DEF SignalOwed
<1>3. op \notin signalled
    BY Zenon, <1>2 DEF CallersFrame
<1>4. CASE Visible(op) /\ task'[op] = task[op] /\ ~WillSignal(c, op)
  <2>1. task[op] = "notifying" \/ \E d \in Callers : WillSignal(d, op)
    BY Zenon, <1>3, <1>4 DEF SignalOwed
  <2>2. \A d \in Callers : WillSignal(d, op) => WillSignal(d, op)'
    BY Zenon, <1>2, <1>4 DEF CallersFrame, WillSignal
  <2> QED BY Zenon, <1>4, <2>1, <2>2
<1>5. CASE pc[c] \notin Holding
  <2>1. UNCHANGED <<jobVars, taskVars>>
    BY Zenon, <1>2, <1>5 DEF CallersFrame
  <2> QED BY Zenon, <1>4, <1>5, <2>1 DEF jobVars, taskVars, Visible, WillSignal, Holding
<1>6. CASE op # target[c]
    BY Zenon, <1>2, <1>4, <1>6 DEF CallersFrame, Visible, WillSignal
<1>7. CASE pc[c] \in Holding /\ op = target[c]
  <2> USE <1>7 DEF Holding
  <2>1. CASE WillSignal(c, op)'
    BY Zenon, <2>1
  <2>2. CASE CancelIntent(c) \/ CancelRecheck(c) \/ OwnerAnswers(c) \/ RetryCheck(c) \/ RetryRecord(c)
    BY Zenon, <1>4, <2>2
    DEF CancelIntent, CancelRecheck, OwnerAnswers, RetryCheck, RetryRecord, jobVars, taskVars,
        Visible, WillSignal
  <2>3. CASE CancelRecord(c)
    BY Zenon, <1>1, <1>4, <2>1, <2>3
    DEF CancelRecord, Goto, TypeOK, CallersTyped, taskVars, Visible, WillSignal
  <2>4. CASE CancelSettle(c)
    BY Zenon, <1>1, <1>4, <2>1, <2>4
    DEF CancelSettle, Goto, TypeOK, CallersTyped, taskVars, Visible, WillSignal
  <2>5. CASE CancelAbort(c)
    BY Zenon, <1>1, <2>1, <2>5 DEF CancelAbort, Goto, TypeOK, CallersTyped, WillSignal
  <2>6. CASE CancelEvent(c)
    BY Zenon, <2>6 DEF CancelEvent, Announce, jobVars, Visible
  <2>7. CASE CancelGrace(c)
    BY Zenon, <1>3, <2>7 DEF CancelGrace, Announce, Visible, TasksAnnounce
  <2>8. CASE RetryAbort(c)
    BY Zenon, <1>3, <1>4, <2>8 DEF RetryAbort, jobVars, taskVars, Visible, WillSignal, RetriesSilent
  <2> QED BY Zenon, <2>2, <2>3, <2>4, <2>5, <2>6, <2>7, <2>8
          DEF CallersStep, CallerStep, CancelGate, RetryGate, CancelCall, RetryCall
<1> QED BY Zenon, <1>5, <1>6, <1>7

\* A retry that takes the handle of a job's task finds nothing left to announce: the
\* task has kept no completion, so it is not about to announce one.
LEMMA RetriesStep ==
    ASSUME Inv, TasksAnnounce, RetriesSilent, SignalOwed, [Next]_vars
    PROVE  RetriesSilent'
<1>1. TypeOK /\ GateHeld /\ JobFacts /\ CallerFacts
    BY Zenon DEF Inv
<1>2. ASSUME NEW c \in Callers, pc[c] = "retry_abort", taken[c]
      PROVE  target[c] \in Ops /\ output[target[c]] # None
  <2>1. target[c] \in Ops /\ StoppedAck(ack[target[c]])
    BY Zenon, <1>1, <1>2 DEF GateHeld, CallerFacts
  <2>2. ack[target[c]] # None
    BY Zenon, <2>1, ConstantsAssumption DEF StoppedAck, ConstantsAssumption, Acks
  <2> QED BY Zenon, <1>1, <2>1, <2>2 DEF JobFacts
<1>3. CASE OthersStep
  <2>1. OthersFrame
    BY Zenon, <1>1, <1>3, OthersFramed
  <2>2. ASSUME NEW c \in Callers, pc'[c] = "retry_abort", taken'[c], Visible(target[c])'
        PROVE  target'[c] \in signalled'
    <3>1. pc[c] = "retry_abort" /\ taken[c] /\ target'[c] = target[c] /\ signalled \subseteq signalled'
      BY Zenon, <2>1, <2>2 DEF OthersFrame, callerVars
    <3> QED BY Zenon, <1>1, <1>2, <1>3, <2>2, <3>1, OthersAnnounce DEF RetriesSilent
  <2> QED BY Zenon, <2>2 DEF RetriesSilent
<1>4. ASSUME NEW c \in Callers, CallersStep(c) PROVE RetriesSilent'
  <2>1. CallersFrame(c)
    BY Zenon, <1>1, <1>4, CallersFramed
  <2>2. ASSUME NEW d \in Callers \ {c}, pc'[d] = "retry_abort", taken'[d], Visible(target[d])'
        PROVE  target'[d] \in signalled'
    <3>1. /\ pc[d] = "retry_abort" /\ taken[d] /\ target'[d] = target[d]
          /\ published' = published /\ signalled \subseteq signalled'
      BY Zenon, <2>1, <2>2 DEF CallersFrame
    <3>2. target[d] \in Ops /\ output[target[d]] # None
      BY Zenon, <1>2, <3>1
    <3>3. output'[target[d]] = output[target[d]]
      BY Zenon, <2>1, <3>2 DEF CallersFrame
    <3>4. Visible(target[d])
      BY Zenon, <2>2, <3>1, <3>3 DEF Visible
    <3> QED BY Zenon, <3>1, <3>4 DEF RetriesSilent
  <2>3. ASSUME pc'[c] = "retry_abort", taken'[c], Visible(target[c])'
        PROVE  target'[c] \in signalled'
    <3>1. RetryRecord(c)
      BY Zenon, <1>1, <1>4, <2>3
      DEF CallersStep, CallerStep, TypeOK, CallersTyped, Return, Goto, CancelGate, RetryGate,
          CancelCall, RetryCall, OwnerAnswers, CancelIntent, CancelRecheck, CancelRecord,
          CancelAbort, CancelEvent, CancelSettle, CancelGrace, RetryCheck, RetryAbort
    <3>2. /\ target[c] \in Ops /\ target'[c] = target[c] /\ signalled' = signalled
          /\ ack[target[c]] = "unconfirmed" /\ ~taken[c] /\ pc[c] = "retry_record"
          /\ Visible(target[c])
      BY Zenon, <1>1, <2>3, <3>1 DEF RetryRecord, GateHeld, CallerFacts, Visible
    <3>3. providerCompletion[target[c]] = None
      BY Zenon, <2>3, <3>1, <3>2 DEF RetryRecord
    <3>4. started[target[c]]
      BY Zenon, <1>1, <3>2, ConstantsAssumption DEF JobFacts, ConstantsAssumption, Acks
    <3>5. ASSUME NEW d \in Callers PROVE ~WillSignal(d, target[c])
      BY Zenon, <1>1, <3>2, Alone DEF WillSignal, Holding
    <3> QED BY Zenon, <3>2, <3>3, <3>4, <3>5 DEF SignalOwed, TasksAnnounce
  <2> QED BY Zenon, <2>2, <2>3 DEF RetriesSilent
<1>5. CASE UNCHANGED vars
    BY Zenon, <1>5 DEF vars, jobVars, taskVars, callerVars, RetriesSilent, Visible
<1> QED BY Zenon, <1>3, <1>4, <1>5, Steps

-----------------------------------------------------------------------------

\* Permits are taken below the capacity and dropped with the task.
LEMMA PermitStep ==
    ASSUME TypeOK, GateHeld, PermitsFinite, [Next]_vars
    PROVE  PermitsFinite'
<1> USE ConstantsAssumption DEF ConstantsAssumption
<1>1. ASSUME permits' \subseteq permits, \A op \in permits' : task'[op] \in {"check", "running"}
      PROVE  PermitsFinite'
  <2>1. IsFiniteSet(permits') /\ Cardinality(permits') <= Cardinality(permits)
    BY Zenon, <1>1, FS_Subset DEF PermitsFinite
  <2>2. Cardinality(permits') \in Nat /\ Cardinality(permits) \in Nat
    BY Zenon, <2>1, FS_CardinalityType DEF PermitsFinite
  <2> QED BY <1>1, <2>1, <2>2 DEF PermitsFinite, PermitsHeldByLiveTasks
<1>2. CASE OthersStep
  <2> USE DEF TypeOK, TasksTyped, taskVars, TaskUnchanged, PermitsFinite, PermitsHeldByLiveTasks
  <2>1. ASSUME NEW op \in Ops, TaskAcquire(op) PROVE PermitsFinite'
    <3>1. op \notin permits
      BY Zenon, <2>1 DEF TaskAcquire
    <3>2. CASE permits' = permits
      BY Zenon, <2>1, <3>1, <3>2 DEF TaskAcquire
    <3>3. CASE permits' = permits \cup {op} /\ Cardinality(permits) < Capacity
      <4>1. IsFiniteSet(permits') /\ Cardinality(permits') = Cardinality(permits) + 1
        BY Zenon, <3>1, <3>3, FS_AddElement
      <4>2. Cardinality(permits) \in Nat
        BY Zenon, FS_CardinalityType
      <4>3. \A q \in permits' : task'[q] \in {"check", "running"}
        BY <2>1, <3>3 DEF TaskAcquire
      <4> QED BY <3>3, <4>1, <4>2, <4>3
    <3> QED BY Zenon, <2>1, <3>2, <3>3 DEF TaskAcquire
  <2>2. ASSUME NEW op \in Ops, Admit(op) PROVE PermitsFinite'
    BY Zenon, <1>1, <2>2 DEF Admit
  <2>3. ASSUME NEW op \in Ops, TaskLaunched(op) \/ TaskRetained(op) PROVE PermitsFinite'
    BY Zenon, <1>1, <2>3 DEF TaskLaunched, TaskRetained
  <2>4. ASSUME NEW op \in Ops, TaskStart(op) PROVE PermitsFinite'
    BY Zenon, <1>1, <2>4 DEF TaskStart
  <2>5. ASSUME NEW op \in Ops, TaskSettle(op) \/ TaskNotify(op) PROVE PermitsFinite'
    BY Zenon, <1>1, <2>5 DEF TaskSettle, TaskNotify
  <2>6. ASSUME NEW op \in Ops, NEW o \in Returns, TaskReturn(op, o) PROVE PermitsFinite'
    BY Zenon, <1>1, <2>6 DEF TaskReturn
  <2>7. CASE UNCHANGED <<permits, task>>
    BY Zenon, <2>7
  <2> QED BY Zenon, <1>2, <2>1, <2>2, <2>3, <2>4, <2>5, <2>6, <2>7
          DEF OthersStep, TaskStep, Release, Commit, Claim, TryAdmitTerminal
<1>3. ASSUME NEW c \in Callers, CallersStep(c) PROVE PermitsFinite'
  <2> USE DEF TypeOK, TasksTyped, taskVars
  <2>1. ASSUME NEW op \in Ops, AbortTask(op) PROVE PermitsFinite'
    BY Zenon, <1>1, <2>1 DEF AbortTask, PermitsFinite, PermitsHeldByLiveTasks, LiveTask, TaskStates
  <2>2. CASE UNCHANGED taskVars
    BY Zenon, <2>2 DEF PermitsFinite, PermitsHeldByLiveTasks
  <2>3. CASE CancelAbort(c) \/ CancelGrace(c) \/ RetryAbort(c)
    BY Zenon, <2>1, <2>2, <2>3 DEF CancelAbort, CancelGrace, RetryAbort, GateHeld
  <2> QED BY Zenon, <1>3, <2>2, <2>3
          DEF CallersStep, CallerStep, CancelGate, RetryGate, CancelCall, RetryCall, OwnerAnswers,
              CancelIntent, CancelRecheck, CancelRecord, CancelEvent, CancelSettle, RetryCheck,
              RetryRecord
<1>4. CASE UNCHANGED vars
    BY Zenon, <1>4 DEF vars, taskVars, PermitsFinite, PermitsHeldByLiveTasks
<1> QED BY Zenon, <1>2, <1>3, <1>4, Steps


-----------------------------------------------------------------------------
(* What the registry promises *)

\* The invariant is inductive.
LEMMA InvInductive ==
    /\ Init => Inv
    /\ Inv /\ [Next]_vars => Inv'
<1>1. Init => Inv
  <2> SUFFICES ASSUME Init PROVE Inv
    BY Zenon
  <2> USE ConstantsAssumption DEF ConstantsAssumption, Init
  <2>1. TypeOK
    BY Zenon DEF TypeOK, RecordsTyped, TasksTyped, CallersTyped, TaskStates, CallerStates
  <2>2. GateHeld /\ JobFacts /\ CallerFacts
    BY Zenon DEF GateHeld, JobFacts, CallerFacts, Holding
  <2>3. PermitsFinite
    BY FS_EmptySet DEF PermitsFinite, PermitsHeldByLiveTasks
  <2>4. OneCauseAsked /\ OwnerNeverBypassed /\ ClosedActivationSettled /\ NoStrandedClaim
    BY Zenon DEF OneCauseAsked, OwnerNeverBypassed, ClosedActivationSettled, Admitted, NoStrandedClaim
  <2> QED BY Zenon, <2>1, <2>2, <2>3, <2>4 DEF Inv
<1>2. ASSUME Inv, [Next]_vars PROVE Inv'
  <2> USE DEF Inv
  <2>1. TypeOK'
    <3>1. CASE OthersStep
      BY Zenon, <1>2, <3>1, OthersTyped
    <3>2. ASSUME NEW c \in Callers, CallersStep(c) PROVE TypeOK'
      BY Zenon, <1>2, <3>2, CallersStepTyped
    <3>3. CASE UNCHANGED vars
      BY Zenon, <1>2, <3>3
      DEF vars, jobVars, taskVars, callerVars, TypeOK, RecordsTyped, TasksTyped, CallersTyped
    <3> QED BY Zenon, <1>2, <3>1, <3>2, <3>3, Steps
  <2> QED
    BY Zenon, <1>2, <2>1, GateStep, JobStep, CallerFactsStep, CauseStep, OwnerStep, ClosedStep,
       ClaimStep, PermitStep
<1> QED BY Zenon, <1>1, <1>2

\* The inductive invariant holds in every reachable state of the job registry.
THEOREM RegistryInvariant == Spec => []Inv
BY InvInductive, PTL DEF Spec

\* Every field of a job's record, of its task and of a caller keeps its type.
THEOREM RegistryTyped == Spec => []TypeOK
<1>1. Inv => TypeOK
    BY Zenon DEF Inv
<1> QED BY <1>1, RegistryInvariant, PTL

\* A cancellation owner only ever hears the first admitted intent, however many callers
\* cancel and retry (cancel_with_cause, retry_cancellation).
THEOREM CausesOnce == Spec => []OneCauseAsked
<1>1. Inv => OneCauseAsked
    BY Zenon DEF Inv
<1> QED BY <1>1, RegistryInvariant, PTL

\* A started job with a cancellation owner is aborted only once the owner has
\* acknowledged that it stopped (cancel_with_cause, retry_cancellation).
THEOREM OwnersRespected == Spec => []OwnerNeverBypassed
<1>1. Inv => OwnerNeverBypassed
    BY Zenon DEF Inv
<1> QED BY <1>1, RegistryInvariant, PTL

\* A closed activation has no domain job that is unsettled, whatever is admitted,
\* started or cancelled around try_admit_terminal.
THEOREM ActivationsSettled == Spec => []ClosedActivationSettled
<1>1. Inv => ClosedActivationSettled
    BY Zenon DEF Inv
<1> QED BY <1>1, RegistryInvariant, PTL

\* No claim stays behind on a job whose output can be seen (settle,
\* cancel_with_cause, mark_output_committed).
THEOREM ClaimsMoved == Spec => []NoStrandedClaim
<1>1. Inv => NoStrandedClaim
    BY Zenon DEF Inv
<1> QED BY <1>1, RegistryInvariant, PTL

\* The semaphore's permits are within its capacity and belong to tasks that run or are
\* about to.
THEOREM PermitsBounded == Spec => []PermitsHeldByLiveTasks
<1>1. Inv => PermitsHeldByLiveTasks
    BY Zenon DEF Inv, PermitsFinite
<1> QED BY <1>1, RegistryInvariant, PTL

\* The output of a job is written once (settle, cancel_with_cause).
THEOREM OutputsFinal == Spec => OutputWrittenOnce
<1> DEFINE Keeps == \A op \in Ops : output[op] # None => output'[op] = output[op]
<1>1. ASSUME Inv, [Next]_vars PROVE [Keeps]_vars
  <2> SUFFICES Keeps \/ UNCHANGED vars
    BY Zenon
  <2>1. CASE OthersStep
    BY Zenon, <1>1, <2>1, OthersFramed DEF Inv, OthersFrame
  <2>2. ASSUME NEW c \in Callers, CallersStep(c) PROVE Keeps
    BY Zenon, <1>1, <2>2, CallersFramed DEF Inv, CallersFrame
  <2> QED BY Zenon, <1>1, <2>1, <2>2, Steps
<1> QED BY <1>1, RegistryInvariant, PTL DEF Spec, OutputWrittenOnce

\* A job that is cancelled before its physical start never starts.
THEOREM CancelledStays == Spec => CancelledNeverStarts
<1> DEFINE Keeps == \A op \in Ops : token[op] /\ ~started[op] => ~started'[op]
<1>1. ASSUME Inv, [Next]_vars PROVE [Keeps]_vars
  <2> SUFFICES Keeps \/ UNCHANGED vars
    BY Zenon
  <2>1. CASE OthersStep
    BY Zenon, <1>1, <2>1, OthersFramed DEF Inv, OthersFrame
  <2>2. ASSUME NEW c \in Callers, CallersStep(c) PROVE Keeps
    BY Zenon, <1>1, <2>2, CallersFramed DEF Inv, CallersFrame
  <2> QED BY Zenon, <1>1, <2>1, <2>2, Steps
<1> QED BY <1>1, RegistryInvariant, PTL DEF Spec, CancelledNeverStarts

\* A claimant stays recorded: settle replaces the settled claimants, which is safe only
\* because a job without an output has none.
THEOREM ClaimantsKept == Spec => ClaimsKept
<1> DEFINE Keeps == \A op \in Ops : claimants[op] \cup settledClaimants[op]
                                       \subseteq claimants'[op] \cup settledClaimants'[op]
<1>1. ASSUME Inv, [Next]_vars PROVE [Keeps]_vars
  <2> SUFFICES Keeps \/ UNCHANGED vars
    BY Zenon
  <2> USE <1>1 DEF Inv, TypeOK, RecordsTyped, jobVars
  <2>1. ASSUME NEW op \in Ops, output[op] = None, Drain(op) PROVE Keeps
    BY Zenon, <2>1 DEF Drain, JobFacts
  <2>2. CASE UNCHANGED <<claimants, settledClaimants>>
    BY Zenon, <2>2
  <2>3. CASE OthersStep
    <3>1. ASSUME NEW op \in Ops, Commit(op) PROVE Keeps
      BY Zenon, <3>1 DEF Commit
    <3>2. ASSUME NEW op \in Ops, TaskSettle(op) PROVE Keeps
      BY Zenon, <2>1, <2>2, <3>2 DEF TaskSettle
    <3>3. ASSUME NEW op \in Ops, NEW k \in Claimants, Claim(op, k) PROVE Keeps
      BY Zenon, <3>3 DEF Claim
    <3> QED BY Zenon, <2>2, <2>3, <3>1, <3>2, <3>3
            DEF OthersStep, TaskStep, Admit, Release, TryAdmitTerminal, TaskLaunched,
                TaskRetained, TaskAcquire, TaskStart, TaskNotify, TaskReturn
  <2>4. ASSUME NEW c \in Callers, CallersStep(c) PROVE Keeps
    <3>1. CASE CancelRecord(c)
      BY Zenon, <2>1, <2>2, <3>1 DEF CancelRecord, GateHeld
    <3>2. CASE CancelSettle(c)
      BY Zenon, <2>1, <2>2, <3>2 DEF CancelSettle, GateHeld
    <3> QED BY Zenon, <2>2, <2>4, <3>1, <3>2
            DEF CallersStep, CallerStep, CancelGate, RetryGate, CancelCall, RetryCall,
                OwnerAnswers, CancelIntent, CancelRecheck, CancelAbort, CancelEvent, CancelGrace,
                RetryCheck, RetryRecord, RetryAbort
  <2> QED BY Zenon, <2>3, <2>4, Steps
<1> QED BY <1>1, RegistryInvariant, PTL DEF Spec, ClaimsKept

\* No waiter sleeps through a settlement: when provider futures return completions, a
\* visible output was announced or an actor that announces it is on its way (settle,
\* cancel_with_cause, retry_cancellation, mark_output_committed).
THEOREM SettlementsAnnounced ==
    ASSUME Returns \subseteq {"ok", "err"}
    PROVE  Spec => []SignalOwed
<1> DEFINE Facts == Inv /\ TasksAnnounce /\ RetriesSilent /\ SignalOwed
<1>1. Init => Facts
  <2> SUFFICES ASSUME Init PROVE Facts
    BY Zenon
  <2>1. TasksAnnounce /\ RetriesSilent /\ SignalOwed
    BY Zenon DEF Init, TasksAnnounce, BeforeStart, RetriesSilent, SignalOwed, Visible
  <2> QED BY Zenon, <2>1, InvInductive
<1>2. ASSUME Facts, [Next]_vars PROVE Facts'
  <2>1. Inv' /\ RetriesSilent'
    BY Zenon, <1>2, InvInductive, RetriesStep
  <2>2. CASE OthersStep
    <3>1. OthersFrame
      BY Zenon, <1>2, <2>2, OthersFramed DEF Inv
    <3>2. TasksAnnounce'
      BY Zenon, <1>2, <2>2, TasksStep DEF Inv
    <3>3. SignalOwed'
      BY Zenon, <1>2, <2>2, <3>1, OthersAnnounce
      DEF Inv, OthersFrame, callerVars, SignalOwed, WillSignal
    <3> QED BY Zenon, <2>1, <3>2, <3>3
  <2>3. ASSUME NEW c \in Callers, CallersStep(c) PROVE Facts'
    <3>1. CallersFrame(c)
      BY Zenon, <1>2, <2>3, CallersFramed DEF Inv
    <3>2. TasksAnnounce'
      BY <1>2, <3>1 DEF Inv, CallersFrame, TasksAnnounce, JobFacts, Visible, BeforeStart
    <3>3. SignalOwed'
      BY Zenon, <1>2, <2>3, CallersAnnounce
    <3> QED BY Zenon, <2>1, <3>2, <3>3
  <2>4. CASE UNCHANGED vars
    BY Zenon, <1>2, <2>1, <2>4
    DEF vars, jobVars, taskVars, callerVars, TasksAnnounce, SignalOwed, WillSignal, Visible
  <2> QED BY Zenon, <1>2, <2>2, <2>3, <2>4, Steps
<1>3. Facts => SignalOwed
    BY Zenon
<1> HIDE DEF Facts
<1> QED BY <1>1, <1>2, <1>3, PTL DEF Spec
=============================================================================
