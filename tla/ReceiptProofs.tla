--------------------------- MODULE ReceiptProofs ----------------------------
(***************************************************************************)
(* Operations whose outcome is told by a receipt: host commands, with the  *)
(* proof that their journal implements CommandOnce, for any number of      *)
(* commands, host tasks, resends and faults (CommandJournal), and edits of *)
(* the context, for any responses, calls and faults (ContextEdits).        *)
(*                                                                         *)
(* CommandJournal: a row is claimed by one task (Apart), which finds it    *)
(* dispatching and without effect until it performs it (TaskFacts); a      *)
(* COMMIT whose outcome is unknown fences the store, so that what its task *)
(* does next changes nothing; and a row's final state says whether the     *)
(* effect happened (EffectsMatch).  ContextEdits: the invariant follows an *)
(* edit from its issue over its draft, its job and its round to the receipt*)
(* its owner is told.                                                      *)
(***************************************************************************)
EXTENDS CommandJournal, ContextEdits, TLAPS

-----------------------------------------------------------------------------
(* Context edits                                                           *)

EditStates == {"none", "queued", "running", "done"}

ContextTyped ==
    /\ script \in Scripts /\ answered \in 0..Len(script.responses)
    /\ DOMAIN outcomeOf = ContextCalls /\ DOMAIN receipt = ContextCalls
    /\ required \in [ContextCalls -> [owed : BOOLEAN, retained : BOOLEAN]]
    /\ DOMAIN acked = ContextCalls /\ editJob \in [ContextCalls -> EditStates]
    /\ DOMAIN jobResult = ContextCalls
    /\ \A c \in ContextCalls : jobResult[c].edit \in {"unedited", "patch", "unavailable"}
    /\ drafted \subseteq Editors /\ pendingCalls \subseteq ContextCalls
    /\ engine = [mode |-> engine.mode, pc |-> engine.pc, call |-> engine.call,
                 saving |-> engine.saving, snapshot |-> engine.snapshot]

\* An asynchronous call never owes a commit.
Unowed(a) ==
    /\ ~required[a].owed /\ "aborted" \notin acked[a]
    /\ jobResult[a].edit = "unedited" /\ editJob[a] # "queued"

\* What was told is what would be told now, after a completed output only.
ToldNow(c) ==
    /\ acked[c] # {} => outcomeOf[c] \in {"ok", "err"}
    /\ acked[c] \subseteq {Acknowledged(c)}

\* An edit that has a terminal owes a commit.
DraftOwed(c) == c \in drafted /\ outcomeOf[c] # "none" => required[c].owed

\* A job that has not ended has no terminal and no edit, and an edit without a
\* terminal is still in the job's result.
JobFact(c) ==
    /\ editJob[c] \in {"queued", "running"} => outcomeOf[c] = "none" /\ c \notin drafted
    /\ editJob[c] = "queued" => c \in pendingCalls
    /\ c \in pendingCalls => editJob[c] # "none"
    /\ c \in drafted /\ c \in pendingCalls /\ outcomeOf[c] = "none" =>
          jobResult[c].edit # "unedited"

\* A call no response has issued yet is untouched.
Unissued(c) ==
    (\A i \in 1..answered : c \notin Issues(script, i)) =>
        outcomeOf[c] = "none" /\ editJob[c] = "none" /\ c \notin drafted

EditorFact(c) == ToldNow(c) /\ DraftOwed(c) /\ JobFact(c) /\ Unissued(c)

\* The call the engine is at has no terminal that completes it, and before one
\* is written its edit is recorded as owed.
RoundFact ==
    /\ engine.saving \in Asyncs \cup {"none"}
    /\ engine.saving # "none" => engine.pc \in {"wait", "boundary"}
    /\ engine.pc \in {"wait", "settle"} =>
          /\ engine.mode = "run" /\ engine.call \in Editors
          /\ engine.call \in pendingCalls /\ outcomeOf[engine.call] = "none"
    /\ engine.pc \in {"require", "retain"} =>
          /\ engine.mode = "stop" /\ engine.call \in pendingCalls
          /\ outcomeOf[engine.call] \notin {"ok", "err", "cancelled"}
    /\ engine.pc \in {"settle", "require", "retain", "ack"} =>
          engine.call \in ContextCalls /\ editJob[engine.call] = "done"
    /\ engine.pc \in {"settle", "retain"} /\ engine.call \in drafted => required[engine.call].owed

ContextInv ==
    /\ ContextTyped
    /\ \A a \in Asyncs : Unowed(a)
    /\ \A c \in Editors : EditorFact(c)
    /\ RoundFact

LEMMA ContextStart == ContextInit => ContextInv
<1> SUFFICES ASSUME ContextInit PROVE ContextInv
  BY Zenon
<1>1. script.responses \in Seq(Seq(ContextCalls \cup {"reasoning"}))
  BY Zenon, ContextAssumption DEF ContextInit
<1>2. ContextTyped
  <2>1. answered \in 0..Len(script.responses)
    BY <1>1 DEF ContextInit
  <2>2. \A c \in ContextCalls : jobResult[c] = NoResult
    BY Zenon DEF ContextInit
  <2>3. NoResult.edit = "unedited"
    BY Zenon DEF NoResult
  <2>4. required \in [ContextCalls -> [owed : BOOLEAN, retained : BOOLEAN]]
    BY Zenon DEF ContextInit, NotRequired
  <2>5. engine = [mode |-> engine.mode, pc |-> engine.pc, call |-> engine.call,
                  saving |-> engine.saving, snapshot |-> engine.snapshot]
    BY Zenon DEF ContextInit
  <2>6. editJob \in [ContextCalls -> EditStates]
    BY Zenon DEF ContextInit, EditStates
  <2> QED BY Zenon, <2>1, <2>2, <2>3, <2>4, <2>5, <2>6 DEF ContextInit, ContextTyped
<1>3. \A c \in ContextCalls : /\ outcomeOf[c] = "none" /\ acked[c] = {} /\ editJob[c] = "none"
                              /\ ~required[c].owed /\ c \notin drafted /\ c \notin pendingCalls
                              /\ jobResult[c].edit = "unedited"
  BY Zenon DEF ContextInit, NotRequired, NoResult
<1>4. \A a \in Asyncs : Unowed(a)
  BY Zenon, <1>3 DEF Unowed, ContextCalls
<1>5. \A c \in Editors : EditorFact(c)
  BY Zenon, <1>3 DEF EditorFact, ToldNow, DraftOwed, JobFact, Unissued, ContextCalls
<1>6. RoundFact
  BY Zenon DEF ContextInit, RoundFact
<1> QED BY Zenon, <1>2, <1>4, <1>5, <1>6 DEF ContextInv

\* What a call's facts read of the state.
CallSame(c) ==
    /\ outcomeOf'[c] = outcomeOf[c] /\ required'[c] = required[c] /\ receipt'[c] = receipt[c]
    /\ acked'[c] = acked[c] /\ editJob'[c] = editJob[c] /\ jobResult'[c] = jobResult[c]
    /\ (c \in drafted' <=> c \in drafted) /\ (c \in pendingCalls' <=> c \in pendingCalls)
    /\ script' = script /\ answered' = answered

LEMMA SameFacts ==
  ASSUME NEW c, CallSame(c)
  PROVE  /\ EditorFact(c) => EditorFact(c)'
         /\ Unowed(c) => Unowed(c)'
BY Zenon DEF CallSame, EditorFact, ToldNow, DraftOwed, JobFact, Unissued, Unowed, Acknowledged

\* Steps of the scheduler and the engine that leave the durable state alone.
LEMMA AnswerKeeps == ContextInv /\ Answer => ContextInv'
<1> SUFFICES ASSUME ContextInv, Answer PROVE ContextInv'
  BY Zenon
<1> DEFINE issued == Issues(script, answered + 1)
<1>1. /\ answered < Len(script.responses) /\ answered' = answered + 1
      /\ pendingCalls' = pendingCalls \cup issued
      /\ editJob' = [c \in ContextCalls |-> IF c \in issued
                       THEN IF c \in Asyncs THEN "running" ELSE "queued" ELSE editJob[c]]
      /\ engine' = [engine EXCEPT !.pc = "sync"]
      /\ engine.saving = "none"
      /\ UNCHANGED <<script, outcomeOf, required, receipt, acked, jobResult, drafted>>
  BY Zenon DEF Answer, At
<1>2. ContextTyped
  BY Zenon DEF ContextInv
<1>3. script.responses \in Seq(Seq(ContextCalls \cup {"reasoning"}))
  BY Zenon, <1>2, ContextAssumption DEF ContextTyped
<1>4. answered + 1 \in DOMAIN script.responses /\ answered \in Nat
      /\ answered' \in 0..Len(script.responses) /\ 1..answered \subseteq DOMAIN script.responses
  BY <1>1, <1>2, <1>3 DEF ContextTyped
<1>5. issued \subseteq ContextCalls
  BY <1>3, <1>4 DEF Issues
<1>6. \A c \in issued : \A i \in 1..answered : c \notin Issues(script, i)
  <2> SUFFICES ASSUME NEW c \in issued, NEW i \in 1..answered, c \in Issues(script, i) PROVE FALSE
    BY Zenon
  <2>1. i \in DOMAIN script.responses /\ i # answered + 1
    BY <1>4
  <2>2. Issues(script, i) \cap Issues(script, answered + 1) # {}
    BY Zenon
  <2> QED BY Zenon, <2>1, <2>2, <1>4, <1>2, ContextAssumption DEF ContextTyped
<1>7. /\ engine'.pc = "sync" /\ engine'.saving = "none"
      /\ engine' = [mode |-> engine'.mode, pc |-> engine'.pc, call |-> engine'.call,
                    saving |-> engine'.saving, snapshot |-> engine'.snapshot]
  BY Zenon, <1>1, <1>2 DEF ContextTyped
<1>8. ContextTyped'
  <2>1. editJob' \in [ContextCalls -> EditStates] /\ pendingCalls' \subseteq ContextCalls
    BY Zenon, <1>1, <1>2, <1>5 DEF ContextTyped, EditStates
  <2> QED BY Zenon, <2>1, <1>1, <1>2, <1>4, <1>7 DEF ContextTyped
<1>9. ASSUME NEW a \in Asyncs PROVE Unowed(a)'
  <2>1. Unowed(a) /\ a \in ContextCalls
    BY Zenon DEF ContextInv, ContextCalls
  <2>2. editJob'[a] # "queued"
    BY Zenon, <2>1, <1>1 DEF Unowed
  <2> QED BY Zenon, <2>1, <2>2, <1>1 DEF Unowed
<1>10. ASSUME NEW c \in Editors PROVE EditorFact(c)'
  <2>1. EditorFact(c) /\ c \in ContextCalls /\ c \notin Asyncs
    BY Zenon, ContextAssumption DEF ContextInv, ContextCalls
  <2>2. editJob'[c] = IF c \in issued THEN "queued" ELSE editJob[c]
    BY Zenon, <2>1, <1>1
  <2>3. c \in issued => outcomeOf[c] = "none" /\ c \notin drafted
    BY Zenon, <2>1, <1>6 DEF EditorFact, Unissued
  <2>4. ToldNow(c)' /\ DraftOwed(c)'
    BY Zenon, <2>1, <1>1 DEF EditorFact, ToldNow, DraftOwed, Acknowledged
  <2>5. JobFact(c)'
    BY Zenon, <2>1, <2>2, <2>3, <1>1 DEF EditorFact, JobFact
  <2>6. Unissued(c)'
    <3> SUFFICES ASSUME (\A i \in 1..answered : c \notin Issues(script, i))'
                 PROVE  (outcomeOf[c] = "none" /\ editJob[c] = "none" /\ c \notin drafted)'
      BY Zenon DEF Unissued
    <3>1. \A i \in 1..(answered + 1) : c \notin Issues(script, i)
      BY Zenon, <1>1
    <3>2. c \notin issued /\ \A i \in 1..answered : c \notin Issues(script, i)
      BY <3>1, <1>4
    <3>3. outcomeOf[c] = "none" /\ editJob[c] = "none" /\ c \notin drafted
      BY Zenon, <3>2, <2>1 DEF EditorFact, Unissued
    <3> QED BY Zenon, <3>2, <3>3, <2>2, <1>1
  <2> QED BY Zenon, <2>4, <2>5, <2>6 DEF EditorFact
<1>11. RoundFact'
  BY Zenon, <1>7 DEF RoundFact
<1> QED BY Zenon, <1>8, <1>9, <1>10, <1>11 DEF ContextInv

Shaped(e) == e = [mode |-> e.mode, pc |-> e.pc, call |-> e.call, saving |-> e.saving,
                  snapshot |-> e.snapshot]

\* A step that changes neither what the calls' facts read nor the type.
LEMMA CallsUnread ==
  ASSUME ContextInv, Shaped(engine'), RoundFact',
         UNCHANGED <<script, answered, outcomeOf, required, receipt, acked, editJob, jobResult,
                     drafted, pendingCalls>>
  PROVE  ContextInv'
<1>1. ContextTyped'
  BY Zenon DEF ContextInv, ContextTyped, Shaped
<1>2. \A c : CallSame(c)
  BY Zenon DEF CallSame
<1>3. \A a \in Asyncs : Unowed(a)'
  BY Zenon, <1>2, SameFacts DEF ContextInv
<1>4. \A c \in Editors : EditorFact(c)'
  BY Zenon, <1>2, SameFacts DEF ContextInv
<1> QED BY Zenon, <1>1, <1>3, <1>4 DEF ContextInv

\* A step about one call.
LEMMA OneCall ==
  ASSUME ContextInv, NEW c, \A d \in ContextCalls : d # c => CallSame(d),
         ContextTyped', RoundFact', c \in Asyncs => Unowed(c)', c \in Editors => EditorFact(c)'
  PROVE  ContextInv'
<1>1. \A a \in Asyncs : Unowed(a)'
  BY Zenon, SameFacts DEF ContextInv, ContextCalls
<1>2. \A d \in Editors : EditorFact(d)'
  BY Zenon, SameFacts DEF ContextInv, ContextCalls
<1> QED BY Zenon, <1>1, <1>2 DEF ContextInv

\* Ends of a round, and compaction.
LEMMA QuietKeeps ==
  ContextInv /\ (SyncDone \/ Cancel \/ ObserveCancel \/ Stopped \/ Compact) => ContextInv'
<1> SUFFICES ASSUME ContextInv, SyncDone \/ Cancel \/ ObserveCancel \/ Stopped \/ Compact
             PROVE  ContextInv'
  BY Zenon
<1>1. UNCHANGED <<script, answered, outcomeOf, required, receipt, acked, editJob, jobResult,
                  drafted, pendingCalls>>
  BY Zenon DEF SyncDone, Cancel, ObserveCancel, Stopped, Compact, contextDurable, contextEngine
<1>2. \/ engine' = engine
      \/ /\ engine.saving = "none"
         /\ \/ engine' = [engine EXCEPT !.pc = "boundary", !.snapshot = NoSnapshot]
            \/ engine' = [engine EXCEPT !.mode = "stop", !.pc = "clean", !.call = "none",
                                         !.snapshot = NoSnapshot]
            \/ engine' = [engine EXCEPT !.pc = "down"]
  BY Zenon DEF SyncDone, Cancel, ObserveCancel, Stopped, Compact, contextEngine, Stop, At
<1>3. Shaped(engine) /\ RoundFact
  BY Zenon DEF ContextInv, ContextTyped, Shaped
<1>4. Shaped(engine') /\ RoundFact'
  <2>1. CASE engine' = engine
    BY Zenon, <2>1, <1>1, <1>3 DEF RoundFact
  <2>2. CASE engine' # engine
    <3>1. /\ Shaped(engine') /\ engine'.saving = "none"
          /\ engine'.pc \in {"boundary", "clean", "down"}
      BY Zenon, <2>2, <1>2, <1>3 DEF Shaped
    <3> QED BY Zenon, <3>1 DEF RoundFact
  <2> QED BY Zenon, <2>1, <2>2
<1> QED BY Zenon, <1>1, <1>4, CallsUnread

LEMMA BeginKeeps ==
  ASSUME ContextInv, NEW c \in ContextCalls, BeginEdit(c)
  PROVE  ContextInv'
<1>1. /\ editJob[c] = "queued" /\ editJob' = [editJob EXCEPT ![c] = "running"]
      /\ engine.saving = "none" /\ engine.mode = "run"
      /\ UNCHANGED <<script, answered, outcomeOf, required, receipt, acked, jobResult, drafted,
                     pendingCalls>>
  BY Zenon DEF BeginEdit, NextQueued, At, contextDurable
<1>2. engine' = [engine EXCEPT !.pc = "wait", !.call = c,
                               !.snapshot = begin_context(c, HeadRequest)]
  BY Zenon DEF BeginEdit
<1>3. ContextTyped /\ \A a \in Asyncs : Unowed(a)
  BY Zenon DEF ContextInv
<1>4. c \in Editors
  BY Zenon, <1>1, <1>3 DEF Unowed, ContextCalls
<1>5. EditorFact(c)
  BY Zenon, <1>4 DEF ContextInv
<1>6. c \in pendingCalls /\ outcomeOf[c] = "none" /\ c \notin drafted
  BY Zenon, <1>5, <1>1 DEF EditorFact, JobFact
<1>7. editJob'[c] = "running" /\ editJob' \in [ContextCalls -> EditStates]
      /\ \A d \in ContextCalls : d # c => editJob'[d] = editJob[d]
  BY Zenon, <1>1, <1>3 DEF ContextTyped, EditStates
<1>8. Shaped(engine') /\ engine'.pc = "wait" /\ engine'.call = c /\ engine'.mode = "run"
      /\ engine'.saving = "none"
  BY Zenon, <1>1, <1>2, <1>3 DEF Shaped, ContextTyped
<1>9. ContextTyped'
  BY Zenon, <1>1, <1>3, <1>7, <1>8 DEF ContextTyped, Shaped
<1>10. \A d \in ContextCalls : d # c => CallSame(d)
  BY Zenon, <1>1, <1>7 DEF CallSame
<1>11. c \notin Asyncs
  BY Zenon, <1>4, ContextAssumption
<1>12. EditorFact(c)'
  <2>1. editJob[c] # "none"
    BY Zenon, <1>1
  <2>2. ~ \A i \in 1..answered : c \notin Issues(script, i)
    BY Zenon, <2>1, <1>5 DEF EditorFact, Unissued
  <2>3. Unissued(c)'
    BY Zenon, <2>2, <1>1 DEF Unissued
  <2>4. JobFact(c)'
    BY Zenon, <1>1, <1>6, <1>7 DEF JobFact
  <2> QED BY Zenon, <2>3, <2>4, <1>1, <1>5 DEF EditorFact, ToldNow, DraftOwed, Acknowledged
<1>13. RoundFact'
  BY Zenon, <1>1, <1>4, <1>6, <1>8 DEF RoundFact
<1> QED BY Zenon, <1>9, <1>10, <1>11, <1>12, <1>13, OneCall

LEMMA JobEndsKeeps ==
  ASSUME ContextInv, NEW c \in ContextCalls, JobEnds(c)
  PROVE  ContextInv'
<1>1. /\ editJob[c] = "running" /\ editJob' = [editJob EXCEPT ![c] = "done"]
      /\ UNCHANGED <<script, answered, outcomeOf, required, receipt, acked, pendingCalls, engine>>
  BY Zenon DEF JobEnds, contextDurable, contextEngine
<1>2. PICK edit \in IF c \in Asyncs THEN {"unedited"} ELSE {"unedited", "patch", "unavailable"} :
         /\ \E outcome, patch :
               jobResult' = [jobResult EXCEPT ![c] = [outcome |-> outcome, edit |-> edit, patch |-> patch]]
         /\ drafted' = IF edit = "unedited" THEN drafted ELSE drafted \cup {c}
  BY Zenon DEF JobEnds
<1>3. ContextTyped /\ RoundFact /\ \A a \in Asyncs : Unowed(a)
  BY Zenon DEF ContextInv
<1>4. /\ editJob'[c] = "done" /\ editJob' \in [ContextCalls -> EditStates]
      /\ \A d \in ContextCalls : d # c => editJob'[d] = editJob[d]
  BY Zenon, <1>1, <1>3 DEF ContextTyped, EditStates
<1>5. /\ jobResult'[c].edit = edit /\ DOMAIN jobResult' = ContextCalls
      /\ \A d \in ContextCalls : d # c => jobResult'[d] = jobResult[d]
  BY <1>2, <1>3 DEF ContextTyped
<1>6. c \notin Asyncs => c \in Editors
  BY Zenon DEF ContextCalls
<1>7. /\ edit \in {"unedited", "patch", "unavailable"}
      /\ c \in Asyncs => edit = "unedited"
      /\ edit # "unedited" => c \in Editors
  BY Zenon, <1>2, <1>6
<1>8. /\ \A d : d # c => (d \in drafted' <=> d \in drafted)
      /\ c \in drafted' => c \in drafted \/ edit # "unedited"
      /\ drafted' \subseteq Editors
  BY Zenon, <1>2, <1>3, <1>7 DEF ContextTyped
<1>9. ContextTyped'
  <2>1. \A d \in ContextCalls : jobResult'[d].edit \in {"unedited", "patch", "unavailable"}
    BY Zenon, <1>3, <1>5, <1>7 DEF ContextTyped
  <2> QED BY Zenon, <2>1, <1>1, <1>3, <1>4, <1>5, <1>8 DEF ContextTyped
<1>10. \A d \in ContextCalls : d # c => CallSame(d)
  BY Zenon, <1>1, <1>4, <1>5, <1>8 DEF CallSame
<1>11. ASSUME c \in Asyncs PROVE Unowed(c)'
  <2>1. jobResult'[c].edit = "unedited" /\ editJob'[c] # "queued"
    BY Zenon, <1>11, <1>5, <1>7, <1>4
  <2> QED BY Zenon, <2>1, <1>11, <1>1, <1>3 DEF Unowed
<1>12. ASSUME c \in Editors PROVE EditorFact(c)'
  <2>1. EditorFact(c)
    BY Zenon, <1>12 DEF ContextInv
  <2>2. outcomeOf[c] = "none" /\ c \notin drafted /\ editJob[c] # "none"
    BY Zenon, <2>1, <1>1 DEF EditorFact, JobFact
  <2>3. ~ \A i \in 1..answered : c \notin Issues(script, i)
    BY Zenon, <2>1, <2>2 DEF EditorFact, Unissued
  <2>4. Unissued(c)'
    BY Zenon, <2>3, <1>1 DEF Unissued
  <2>5. JobFact(c)'
    BY Zenon, <2>2, <1>1, <1>4, <1>5, <1>8 DEF JobFact
  <2>6. DraftOwed(c)'
    BY Zenon, <2>2, <1>1 DEF DraftOwed
  <2> QED BY Zenon, <2>1, <2>4, <2>5, <2>6, <1>1 DEF EditorFact, ToldNow, Acknowledged
<1>13. RoundFact'
  <2>1. engine.pc \in {"settle", "require", "retain", "ack"} =>
           engine.call \in ContextCalls /\ engine.call # c /\ editJob'[engine.call] = "done"
    BY Zenon, <1>1, <1>3, <1>4 DEF RoundFact
  <2>2. engine.pc \in {"settle", "retain"} =>
           (engine.call \in drafted' => required[engine.call].owed)
    BY Zenon, <2>1, <1>3, <1>8 DEF RoundFact
  <2> QED BY Zenon, <2>1, <2>2, <1>1, <1>3 DEF RoundFact
<1> QED BY Zenon, <1>9, <1>10, <1>11, <1>12, <1>13, OneCall

\* retain_context_requirement: before a terminal, an edit is recorded as owed.
LEMMA RequireKeeps == ContextInv /\ Require => ContextInv'
<1> SUFFICES ASSUME ContextInv, Require PROVE ContextInv'
  BY Zenon
<1>1. PICK c : c = engine.call
  BY Zenon
<1>2. PICK abort \in BOOLEAN : required' = [required EXCEPT ![c] = Requirement(c, abort)]
                              /\ (abort => c \in Editors)
  <2> DEFINE abort == /\ engine.mode = "stop" /\ c \in Editors
                      /\ jobResult[c].outcome \in {"ok", "err"} /\ ~has_completed_output(c)
  <2>1. required' = [required EXCEPT ![c] = Requirement(c, abort)]
    BY Zenon, <1>1 DEF Require
  <2>2. abort \in BOOLEAN /\ (abort => c \in Editors)
    BY Zenon
  <2> QED BY Zenon, <2>1, <2>2
<1>3. /\ UNCHANGED <<script, answered, outcomeOf, receipt, acked, editJob, jobResult, drafted,
                     pendingCalls>>
      /\ \/ engine.pc = "wait" /\ engine.mode = "run" /\ editJob[c] = "done"
         \/ engine.pc = "require" /\ engine.mode = "stop"
      /\ engine.saving = "none"
      /\ engine' = [engine EXCEPT !.pc = IF engine.mode = "run" THEN "settle" ELSE "retain"]
  BY Zenon, <1>1 DEF Require, At
<1>4. ContextTyped /\ RoundFact
  BY Zenon DEF ContextInv
<1>5. /\ c \in ContextCalls /\ c \in pendingCalls /\ editJob[c] = "done"
      /\ outcomeOf[c] \notin {"ok", "err", "cancelled"}
      /\ engine.pc = "wait" => c \in Editors /\ outcomeOf[c] = "none"
  BY Zenon, <1>1, <1>3, <1>4 DEF RoundFact, ContextCalls
<1>6. Shaped(engine')
      /\ engine'.call = c /\ engine'.saving = "none" /\ engine'.mode = engine.mode
      /\ engine'.pc = IF engine.pc = "wait" THEN "settle" ELSE "retain"
  BY Zenon, <1>1, <1>3, <1>4 DEF Shaped, ContextTyped
<1>7. /\ Requirement(c, abort) \in [owed : BOOLEAN, retained : BOOLEAN]
      /\ required[c].owed => Requirement(c, abort).owed
      /\ jobResult[c].edit # "unedited" => Requirement(c, abort).owed
      /\ jobResult[c].edit = "unedited" /\ ~abort => Requirement(c, abort).owed = required[c].owed
  BY Zenon, <1>4, <1>5 DEF Requirement, ContextTyped
<1>8. /\ required'[c] = Requirement(c, abort)
      /\ required' \in [ContextCalls -> [owed : BOOLEAN, retained : BOOLEAN]]
      /\ \A d \in ContextCalls : d # c => required'[d] = required[d]
  BY Zenon, <1>2, <1>4, <1>5, <1>7 DEF ContextTyped
<1>9. ContextTyped'
  BY Zenon, <1>3, <1>4, <1>6, <1>8 DEF ContextTyped, Shaped
<1>10. \A d \in ContextCalls : d # c => CallSame(d)
  BY Zenon, <1>3, <1>8 DEF CallSame
<1>11. ASSUME c \in Asyncs PROVE Unowed(c)'
  <2>1. Unowed(c) /\ ~abort
    BY Zenon, <1>2, <1>11, ContextAssumption DEF ContextInv
  <2>2. ~required'[c].owed
    BY Zenon, <2>1, <1>7, <1>8 DEF Unowed
  <2> QED BY Zenon, <2>1, <2>2, <1>3 DEF Unowed
<1>12. c \in drafted => required'[c].owed
  <2> SUFFICES ASSUME c \in drafted PROVE required'[c].owed
    BY Zenon
  <2>1. EditorFact(c)
    BY Zenon, <1>4 DEF ContextInv, ContextTyped
  <2>2. CASE outcomeOf[c] = "none"
    BY Zenon, <2>1, <2>2, <1>5, <1>7, <1>8 DEF EditorFact, JobFact
  <2>3. CASE outcomeOf[c] # "none"
    BY Zenon, <2>1, <2>3, <1>7, <1>8 DEF EditorFact, DraftOwed
  <2> QED BY Zenon, <2>2, <2>3
<1>13. ASSUME c \in Editors PROVE EditorFact(c)'
  <2>1. EditorFact(c)
    BY Zenon, <1>13 DEF ContextInv
  <2>2. acked[c] = {}
    BY Zenon, <2>1, <1>5 DEF EditorFact, ToldNow
  <2>3. ToldNow(c)'
    BY Zenon, <2>2, <1>3 DEF ToldNow
  <2>4. DraftOwed(c)'
    BY Zenon, <1>12, <1>3 DEF DraftOwed
  <2> QED BY Zenon, <2>1, <2>3, <2>4, <1>3 DEF EditorFact, JobFact, Unissued
<1>14. RoundFact'
  BY <1>3, <1>5, <1>6, <1>12 DEF RoundFact
<1> QED BY Zenon, <1>9, <1>10, <1>11, <1>13, <1>14, OneCall

\* What every way to write a terminal has in common.
TerminalAt(c) ==
    /\ DOMAIN outcomeOf' = ContextCalls /\ DOMAIN receipt' = ContextCalls
    /\ \A d \in ContextCalls : d # c => outcomeOf'[d] = outcomeOf[d] /\ receipt'[d] = receipt[d]

LEMMA OutputWrites ==
  ASSUME ContextTyped, NEW c, NEW outcome, NEW publish, WriteOutput(c, outcome, publish)
  PROVE  TerminalAt(c)
<1>1. outcomeOf' = [outcomeOf EXCEPT ![c] = outcome] /\ receipt' = receipt
  BY Zenon DEF WriteOutput
<1> QED BY Zenon, <1>1 DEF TerminalAt, ContextTyped

LEMMA RefusalWrites ==
  ASSUME ContextTyped, NEW c, NEW outcome, NEW status, NEW publish,
         record_unapplied(c, outcome, status, publish)
  PROVE  TerminalAt(c)
<1>1. outcomeOf' = [outcomeOf EXCEPT ![c] = outcome] /\ receipt' = [receipt EXCEPT ![c] = status]
  BY Zenon DEF record_unapplied
<1> QED BY Zenon, <1>1 DEF TerminalAt, ContextTyped

LEMMA CommitWrites ==
  ASSUME ContextTyped, NEW c, NEW patch, commit_context_tx(c, patch)
  PROVE  TerminalAt(c)
<1>1. outcomeOf' = [outcomeOf EXCEPT ![c] = "ok"] /\ receipt' = [receipt EXCEPT ![c] = "committed"]
  BY Zenon DEF commit_context_tx
<1> QED BY Zenon, <1>1 DEF TerminalAt, ContextTyped

LEMMA TransactionWrites ==
  ASSUME ContextTyped, NEW c, NEW outcome, NEW patch, NEW discarded,
         settle_context_transaction(c, outcome, patch, discarded)
  PROVE  TerminalAt(c)
<1>1. \/ record_unapplied(c, outcome, "cancelled", TRUE)
      \/ record_unapplied(c, outcome, "rejected", TRUE)
      \/ commit_context_tx(c, patch)
  BY Zenon DEF settle_context_transaction
<1> QED BY Zenon, <1>1, RefusalWrites, CommitWrites

LEMMA CleanupWrites ==
  ASSUME ContextTyped, NEW c, NEW outcome, retain_context_transaction_output(c, outcome)
  PROVE  TerminalAt(c)
<1>1. \/ WriteOutput(c, outcome, FALSE)
      \/ record_unapplied(c, outcome, "cancelled", FALSE)
      \/ record_unapplied(c, outcome, "rejected", FALSE)
  BY Zenon DEF retain_context_transaction_output
<1> QED BY Zenon, <1>1, RefusalWrites, OutputWrites

LEMMA UnchangedWrites ==
  ASSUME ContextTyped, NEW c, UNCHANGED <<outcomeOf, receipt>>
  PROVE  TerminalAt(c)
BY Zenon DEF TerminalAt, ContextTyped

\* The first terminal of a call whose edit is recorded as owed.
LEMMA TerminalKeeps ==
  ASSUME ContextInv, NEW c \in ContextCalls, TerminalAt(c), Shaped(engine'), RoundFact',
         c \in Editors => /\ outcomeOf[c] = "none" /\ editJob[c] = "done"
                          /\ c \in drafted => required[c].owed,
         UNCHANGED <<script, answered, required, acked, editJob, jobResult, drafted, pendingCalls>>
  PROVE  ContextInv'
<1>1. ContextTyped /\ ContextTyped'
  BY Zenon DEF ContextInv, ContextTyped, Shaped, TerminalAt
<1>2. \A d \in ContextCalls : d # c => CallSame(d)
  BY Zenon DEF CallSame, TerminalAt
<1>3. c \in Asyncs => Unowed(c)'
  BY Zenon DEF ContextInv, Unowed
<1>4. ASSUME c \in Editors PROVE EditorFact(c)'
  <2>1. EditorFact(c)
    BY Zenon, <1>4 DEF ContextInv
  <2>2. acked[c] = {} /\ editJob[c] = "done" /\ (c \in drafted => required[c].owed)
    BY Zenon, <2>1, <1>4 DEF EditorFact, ToldNow
  <2>3. ToldNow(c)' /\ DraftOwed(c)'
    BY Zenon, <2>2 DEF ToldNow, DraftOwed
  <2>4. JobFact(c)'
    BY Zenon, <2>1, <2>2, <1>4 DEF EditorFact, JobFact
  <2>5. ~ \A i \in 1..answered : c \notin Issues(script, i)
    BY Zenon, <2>1, <2>2 DEF EditorFact, Unissued
  <2>6. Unissued(c)'
    BY Zenon, <2>5 DEF Unissued
  <2> QED BY Zenon, <2>3, <2>4, <2>6 DEF EditorFact
<1> QED BY Zenon, <1>1, <1>2, <1>3, <1>4, OneCall

LEMMA SettleKeeps == ContextInv /\ Settle => ContextInv'
<1> SUFFICES ASSUME ContextInv, Settle PROVE ContextInv'
  BY Zenon
<1>1. PICK c : c = engine.call
  BY Zenon
<1>2. ContextTyped /\ RoundFact
  BY Zenon DEF ContextInv
<1>3. /\ engine.pc = "settle" /\ engine.saving = "none"
      /\ \/ engine' = [engine EXCEPT !.pc = "ack"]
         \/ engine' = [engine EXCEPT !.mode = "stop", !.pc = "clean", !.call = "none",
                                      !.snapshot = NoSnapshot]
      /\ UNCHANGED <<script, answered, required, acked, editJob, jobResult, drafted, pendingCalls>>
  BY Zenon DEF Settle, At, Stop
<1>4. \/ retain_context_transaction_output(c, jobResult[c].outcome)
      \/ settle_context_transaction(c, jobResult[c].outcome, jobResult[c].patch,
                                    jobResult[c].outcome # "ok")
      \/ WriteOutput(c, jobResult[c].outcome, TRUE)
      \/ UNCHANGED <<outcomeOf, receipt>>
  BY Zenon, <1>1 DEF Settle
<1>5. TerminalAt(c)
  BY Zenon, <1>2, <1>4, CleanupWrites, TransactionWrites, OutputWrites, UnchangedWrites
<1>6. /\ c \in ContextCalls /\ outcomeOf[c] = "none" /\ editJob[c] = "done"
      /\ c \in drafted => required[c].owed
  BY Zenon, <1>1, <1>2, <1>3 DEF RoundFact
<1>7. /\ Shaped(engine') /\ engine'.saving = "none"
      /\ \/ engine'.pc = "ack" /\ engine'.call = c
         \/ engine'.pc = "clean"
  BY Zenon, <1>1, <1>2, <1>3 DEF Shaped, ContextTyped
<1>8. RoundFact'
  BY Zenon, <1>3, <1>6, <1>7 DEF RoundFact
<1> QED BY Zenon, <1>3, <1>5, <1>6, <1>7, <1>8, TerminalKeeps

LEMMA RetainKeeps == ContextInv /\ Retain => ContextInv'
<1> SUFFICES ASSUME ContextInv, Retain PROVE ContextInv'
  BY Zenon
<1>1. PICK c : c = engine.call
  BY Zenon
<1>2. ContextTyped /\ RoundFact
  BY Zenon DEF ContextInv
<1>3. /\ engine.pc = "retain" /\ engine.saving = "none"
      /\ engine' = [engine EXCEPT !.pc = "ack"]
      /\ UNCHANGED <<script, answered, required, acked, editJob, jobResult, drafted, pendingCalls>>
  BY Zenon DEF Retain, At
<1>4. \/ outcomeOf[c] = "none" /\ retain_context_transaction_output(c, jobResult[c].outcome)
      \/ UNCHANGED <<outcomeOf, receipt>>
  BY Zenon, <1>1 DEF Retain
<1>5. /\ c \in ContextCalls /\ editJob[c] = "done"
      /\ c \in drafted => required[c].owed
  BY Zenon, <1>1, <1>2, <1>3 DEF RoundFact
<1>6. Shaped(engine') /\ engine'.saving = "none" /\ engine'.pc = "ack" /\ engine'.call = c
  BY Zenon, <1>1, <1>2, <1>3 DEF Shaped, ContextTyped
<1>7. RoundFact'
  BY Zenon, <1>3, <1>5, <1>6 DEF RoundFact
<1>8. CASE outcomeOf[c] = "none" /\ retain_context_transaction_output(c, jobResult[c].outcome)
  <2>1. TerminalAt(c)
    BY Zenon, <1>2, <1>8, CleanupWrites
  <2> QED BY Zenon, <2>1, <1>3, <1>5, <1>6, <1>7, <1>8, TerminalKeeps
<1>9. CASE UNCHANGED <<outcomeOf, receipt>>
  BY Zenon, <1>3, <1>6, <1>7, <1>9, CallsUnread
<1> QED BY Zenon, <1>4, <1>8, <1>9

LEMMA PersistKeeps ==
  ASSUME ContextInv, NEW a \in ContextCalls, PersistSettled(a)
  PROVE  ContextInv'
<1>1. ContextTyped /\ RoundFact
  BY Zenon DEF ContextInv
<1>2. /\ a \in Asyncs /\ engine.pc \in {"wait", "boundary"}
      /\ engine' = [engine EXCEPT !.saving = a]
      /\ WriteOutput(a, jobResult[a].outcome, FALSE)
      /\ UNCHANGED <<script, answered, required, acked, editJob, jobResult, drafted, pendingCalls>>
  BY Zenon DEF PersistSettled, At
<1>3. TerminalAt(a) /\ a \notin Editors
  BY Zenon, <1>1, <1>2, OutputWrites, ContextAssumption
<1>4. /\ Shaped(engine') /\ engine'.saving = a /\ engine'.pc = engine.pc
      /\ engine'.call = engine.call /\ engine'.mode = engine.mode
  BY Zenon, <1>1, <1>2 DEF Shaped, ContextTyped
<1>5. engine.pc = "wait" => /\ engine.mode = "run" /\ engine.call \in Editors
                            /\ engine.call \in pendingCalls /\ outcomeOf'[engine.call] = "none"
  <2> SUFFICES ASSUME engine.pc = "wait"
               PROVE  /\ engine.mode = "run" /\ engine.call \in Editors
                      /\ engine.call \in pendingCalls /\ outcomeOf'[engine.call] = "none"
    BY Zenon
  <2>1. /\ engine.mode = "run" /\ engine.call \in Editors
        /\ engine.call \in pendingCalls /\ outcomeOf[engine.call] = "none"
    BY Zenon, <1>1 DEF RoundFact
  <2> QED BY Zenon, <2>1, <1>3 DEF TerminalAt, ContextCalls
<1>6. RoundFact'
  BY <1>2, <1>4, <1>5 DEF RoundFact
<1> QED BY Zenon, <1>2, <1>3, <1>4, <1>6, TerminalKeeps

\* acknowledge_output
LEMMA AcknowledgeKeeps == ContextInv /\ Acknowledge => ContextInv'
<1> SUFFICES ASSUME ContextInv, Acknowledge PROVE ContextInv'
  BY Zenon
<1>1. PICK c : c = engine.call
  BY Zenon
<1>2. ContextTyped /\ RoundFact
  BY Zenon DEF ContextInv
<1>3. /\ engine.pc = "ack" /\ engine.saving = "none"
      /\ acked' = [acked EXCEPT ![c] = IF has_completed_output(c) THEN @ \cup {Acknowledged(c)} ELSE @]
      /\ pendingCalls' = pendingCalls \ {c}
      /\ jobResult' = [jobResult EXCEPT ![c] = NoResult]
      /\ engine' = [engine EXCEPT !.pc = IF engine.mode = "run" THEN "sync" ELSE "clean",
                                  !.call = "none", !.snapshot = NoSnapshot]
      /\ UNCHANGED <<script, answered, outcomeOf, required, receipt, editJob, drafted>>
  BY Zenon, <1>1 DEF Acknowledge, contextDurable
<1>4. c \in ContextCalls /\ editJob[c] = "done"
  BY Zenon, <1>1, <1>2, <1>3 DEF RoundFact
<1>5. /\ Shaped(engine') /\ engine'.saving = "none" /\ engine'.pc \in {"sync", "clean"}
  BY Zenon, <1>2, <1>3 DEF Shaped, ContextTyped
<1>6. RoundFact'
  BY Zenon, <1>5 DEF RoundFact
<1>7. /\ DOMAIN acked' = ContextCalls /\ DOMAIN jobResult' = ContextCalls
      /\ acked'[c] = IF has_completed_output(c) THEN acked[c] \cup {Acknowledged(c)} ELSE acked[c]
      /\ jobResult'[c] = NoResult /\ c \notin pendingCalls' /\ pendingCalls' \subseteq ContextCalls
      /\ \A d \in ContextCalls : d # c => /\ acked'[d] = acked[d] /\ jobResult'[d] = jobResult[d]
                                          /\ (d \in pendingCalls' <=> d \in pendingCalls)
  <2> HIDE DEF has_completed_output, Acknowledged, NoResult
  <2> QED BY Zenon, <1>2, <1>3, <1>4 DEF ContextTyped
<1>8. NoResult.edit = "unedited"
  BY Zenon DEF NoResult
<1>9. ContextTyped'
  <2>1. \A d \in ContextCalls : jobResult'[d].edit \in {"unedited", "patch", "unavailable"}
    BY Zenon, <1>2, <1>7, <1>8 DEF ContextTyped
  <2> QED BY Zenon, <2>1, <1>2, <1>3, <1>5, <1>7 DEF ContextTyped, Shaped
<1>10. \A d \in ContextCalls : d # c => CallSame(d)
  BY Zenon, <1>3, <1>7 DEF CallSame
<1>11. has_completed_output(c) => outcomeOf[c] \in {"ok", "err"}
  BY Zenon DEF has_completed_output
<1>12. ASSUME c \in Asyncs PROVE Unowed(c)'
  <2>1. Unowed(c)
    BY Zenon, <1>12 DEF ContextInv
  <2>2. Acknowledged(c) = "committed"
    BY Zenon, <2>1 DEF Unowed, Acknowledged
  <2>3. "aborted" \notin acked'[c]
    BY <2>1, <2>2, <1>7 DEF Unowed
  <2> QED BY Zenon, <2>1, <2>3, <1>3, <1>7, <1>8 DEF Unowed
<1>13. ASSUME c \in Editors PROVE EditorFact(c)'
  <2>1. EditorFact(c)
    BY Zenon, <1>13 DEF ContextInv
  <2>2. acked'[c] # {} => outcomeOf[c] \in {"ok", "err"}
    BY Zenon, <2>1, <1>7, <1>11 DEF EditorFact, ToldNow
  <2>3. acked'[c] \subseteq {Acknowledged(c)}
    BY Zenon, <2>1, <1>7 DEF EditorFact, ToldNow
  <2>4. ToldNow(c)'
    BY Zenon, <2>2, <2>3, <1>3 DEF ToldNow, Acknowledged
  <2>5. JobFact(c)'
    BY Zenon, <1>3, <1>4, <1>7 DEF JobFact
  <2> QED BY Zenon, <2>1, <2>4, <2>5, <1>3 DEF EditorFact, DraftOwed, Unissued
<1> QED BY Zenon, <1>6, <1>9, <1>10, <1>12, <1>13, OneCall

LEMMA PublishKeeps == ContextInv /\ PublishSettled => ContextInv'
<1> SUFFICES ASSUME ContextInv, PublishSettled PROVE ContextInv'
  BY Zenon
<1>1. PICK a : a = engine.saving
  BY Zenon
<1>2. ContextTyped /\ RoundFact
  BY Zenon DEF ContextInv
<1>3. /\ a # "none"
      /\ acked' = [acked EXCEPT ![a] = @ \cup {Acknowledged(a)}]
      /\ pendingCalls' = pendingCalls \ {a}
      /\ jobResult' = [jobResult EXCEPT ![a] = NoResult]
      /\ engine' = [engine EXCEPT !.saving = "none"]
      /\ UNCHANGED <<script, answered, outcomeOf, required, receipt, editJob, drafted>>
  BY Zenon, <1>1 DEF PublishSettled
<1>4. a \in Asyncs /\ a \in ContextCalls /\ a \notin Editors
      /\ engine.pc \in {"wait", "boundary"}
  BY Zenon, <1>1, <1>2, <1>3, ContextAssumption DEF RoundFact, ContextCalls
<1>5. /\ Shaped(engine') /\ engine'.saving = "none" /\ engine'.pc = engine.pc
      /\ engine'.call = engine.call /\ engine'.mode = engine.mode
  BY Zenon, <1>2, <1>3 DEF Shaped, ContextTyped
<1>6. RoundFact'
  <2>1. engine.pc = "wait" => /\ engine.mode = "run" /\ engine.call \in Editors
                              /\ engine.call \in pendingCalls' /\ outcomeOf[engine.call] = "none"
    BY Zenon, <1>2, <1>3, <1>4 DEF RoundFact
  <2> QED BY Zenon, <2>1, <1>3, <1>4, <1>5 DEF RoundFact
<1>7. /\ DOMAIN acked' = ContextCalls /\ DOMAIN jobResult' = ContextCalls
      /\ acked'[a] = acked[a] \cup {Acknowledged(a)}
      /\ jobResult'[a] = NoResult /\ pendingCalls' \subseteq ContextCalls
      /\ \A d \in ContextCalls : d # a => /\ acked'[d] = acked[d] /\ jobResult'[d] = jobResult[d]
                                          /\ (d \in pendingCalls' <=> d \in pendingCalls)
  <2> HIDE DEF Acknowledged, NoResult
  <2> QED BY Zenon, <1>2, <1>3, <1>4 DEF ContextTyped
<1>8. NoResult.edit = "unedited"
  BY Zenon DEF NoResult
<1>9. ContextTyped'
  <2>1. \A d \in ContextCalls : jobResult'[d].edit \in {"unedited", "patch", "unavailable"}
    BY Zenon, <1>2, <1>7, <1>8 DEF ContextTyped
  <2> QED BY Zenon, <2>1, <1>2, <1>3, <1>5, <1>7 DEF ContextTyped, Shaped
<1>10. \A d \in ContextCalls : d # a => CallSame(d)
  BY Zenon, <1>3, <1>7 DEF CallSame
<1>11. Unowed(a)'
  <2>1. Unowed(a)
    BY Zenon, <1>4 DEF ContextInv
  <2>2. Acknowledged(a) = "committed"
    BY Zenon, <2>1 DEF Unowed, Acknowledged
  <2>3. "aborted" \notin acked'[a]
    BY Zenon, <2>1, <2>2, <1>7 DEF Unowed
  <2> QED BY Zenon, <2>1, <2>3, <1>3, <1>7, <1>8 DEF Unowed
<1> QED BY Zenon, <1>4, <1>6, <1>9, <1>10, <1>11, OneCall

LEMMA CleanKeeps ==
  ASSUME ContextInv, NEW c \in ContextCalls, Clean(c)
  PROVE  ContextInv'
<1>1. ContextTyped /\ RoundFact
  BY Zenon DEF ContextInv
<1>2. /\ engine.mode = "stop" /\ engine.pc = "clean" /\ engine.saving = "none" /\ c \in pendingCalls
      /\ UNCHANGED <<script, answered, outcomeOf, required, receipt, acked, drafted>>
  BY Zenon DEF Clean, At, contextDurable
<1>3. CASE outcomeOf[c] \in {"ok", "err", "cancelled"}
  <2>1. pendingCalls' = pendingCalls \ {c} /\ UNCHANGED <<engine, editJob, jobResult>>
    BY Zenon, <1>3 DEF Clean
  <2>2. /\ c \notin pendingCalls' /\ pendingCalls' \subseteq ContextCalls
        /\ \A d : d # c => (d \in pendingCalls' <=> d \in pendingCalls)
    BY Zenon, <2>1, <1>1 DEF ContextTyped
  <2>3. ContextTyped'
    BY Zenon, <2>1, <2>2, <1>1, <1>2 DEF ContextTyped
  <2>4. \A d \in ContextCalls : d # c => CallSame(d)
    BY Zenon, <2>1, <2>2, <1>2 DEF CallSame
  <2>5. c \in Asyncs => Unowed(c)'
    BY Zenon, <2>1, <1>2 DEF ContextInv, Unowed
  <2>6. ASSUME c \in Editors PROVE EditorFact(c)'
    <3>1. EditorFact(c)
      BY Zenon, <2>6 DEF ContextInv
    <3>2. editJob[c] \notin {"queued", "running"}
      BY Zenon, <3>1, <1>3 DEF EditorFact, JobFact
    <3>3. JobFact(c)'
      BY Zenon, <3>2, <2>1, <2>2, <1>2 DEF JobFact
    <3> QED BY Zenon, <3>1, <3>3, <2>1, <1>2 DEF EditorFact, ToldNow, DraftOwed, Unissued, Acknowledged
  <2>7. RoundFact'
    BY Zenon, <2>1, <1>2 DEF RoundFact
  <2> QED BY Zenon, <2>3, <2>4, <2>5, <2>6, <2>7, OneCall
<1>4. CASE outcomeOf[c] \notin {"ok", "err", "cancelled"}
  <2>1. /\ engine' = [engine EXCEPT !.pc = "require", !.call = c]
        /\ editJob' = [editJob EXCEPT ![c] = "done"]
        /\ pendingCalls' = pendingCalls
    BY Zenon, <1>4 DEF Clean
  <2>2. \/ editJob[c] = "done" /\ jobResult' = jobResult
        \/ /\ editJob[c] # "done"
           /\ \E outcome : jobResult' = [jobResult EXCEPT ![c] = [NoResult EXCEPT !.outcome = outcome]]
    BY Zenon, <1>4 DEF Clean
  <2>3. /\ Shaped(engine') /\ engine'.saving = "none" /\ engine'.pc = "require"
        /\ engine'.call = c /\ engine'.mode = "stop"
    BY Zenon, <2>1, <1>1, <1>2 DEF Shaped, ContextTyped
  <2>4. /\ editJob'[c] = "done" /\ editJob' \in [ContextCalls -> EditStates]
        /\ \A d \in ContextCalls : d # c => editJob'[d] = editJob[d]
    BY Zenon, <2>1, <1>1 DEF ContextTyped, EditStates
  <2>5. /\ DOMAIN jobResult' = ContextCalls
        /\ \A d \in ContextCalls : d # c => jobResult'[d] = jobResult[d]
        /\ \/ editJob[c] = "done" /\ jobResult'[c] = jobResult[c]
           \/ editJob[c] # "done" /\ jobResult'[c].edit = "unedited"
    BY Zenon, <2>2, <1>1 DEF ContextTyped, NoResult
  <2>6. ContextTyped'
    <3>1. \A d \in ContextCalls : jobResult'[d].edit \in {"unedited", "patch", "unavailable"}
      BY Zenon, <2>5, <1>1 DEF ContextTyped
    <3> QED BY Zenon, <3>1, <2>1, <2>3, <2>4, <2>5, <1>1, <1>2 DEF ContextTyped, Shaped
  <2>7. \A d \in ContextCalls : d # c => CallSame(d)
    BY Zenon, <2>1, <2>4, <2>5, <1>2 DEF CallSame
  <2>8. ASSUME c \in Asyncs PROVE Unowed(c)'
    <3>1. Unowed(c)
      BY Zenon, <2>8 DEF ContextInv
    <3>2. jobResult'[c].edit = "unedited" /\ editJob'[c] # "queued"
      BY Zenon, <3>1, <2>4, <2>5 DEF Unowed
    <3> QED BY Zenon, <3>1, <3>2, <1>2 DEF Unowed
  <2>9. ASSUME c \in Editors PROVE EditorFact(c)'
    <3>1. EditorFact(c)
      BY Zenon, <2>9 DEF ContextInv
    <3>2. editJob[c] # "none" /\ editJob'[c] # "none"
      BY Zenon, <3>1, <2>4, <1>2 DEF EditorFact, JobFact
    <3>3. c \in drafted /\ outcomeOf[c] = "none" /\ editJob[c] = "done" =>
             jobResult[c].edit # "unedited"
      BY Zenon, <3>1, <1>2 DEF EditorFact, JobFact
    <3>4. editJob[c] \in {"queued", "running"} => c \notin drafted
      BY Zenon, <3>1 DEF EditorFact, JobFact
    <3>5. editJob[c] \in {"queued", "running", "done"}
      BY Zenon, <3>2, <1>1 DEF ContextTyped, EditStates
    <3>6. JobFact(c)'
      BY Zenon, <3>2, <3>3, <3>4, <3>5, <2>1, <2>4, <2>5, <1>2 DEF JobFact
    <3>7. ~ \A i \in 1..answered : c \notin Issues(script, i)
      BY Zenon, <3>1, <3>2 DEF EditorFact, Unissued
    <3>8. Unissued(c)'
      BY Zenon, <3>7, <1>2 DEF Unissued
    <3> QED BY Zenon, <3>1, <3>6, <3>8, <1>2 DEF EditorFact, ToldNow, DraftOwed, Acknowledged
  <2>10. RoundFact'
    BY <2>1, <2>3, <2>4, <1>2, <1>4 DEF RoundFact
  <2> QED BY Zenon, <2>6, <2>7, <2>8, <2>9, <2>10, OneCall
<1> QED BY Zenon, <1>3, <1>4

\* The loss of the process and the recovery after it.
LEMMA CrashKeeps == ContextInv /\ ContextCrash => ContextInv'
<1> SUFFICES ASSUME ContextInv, ContextCrash PROVE ContextInv'
  BY Zenon
<1>1. /\ engine' = [mode |-> "stop", pc |-> "down", call |-> "none", saving |-> "none",
                    snapshot |-> NoSnapshot]
      /\ pendingCalls' = {}
      /\ editJob' = [c \in ContextCalls |-> "none"]
      /\ jobResult' = [c \in ContextCalls |-> NoResult]
      /\ UNCHANGED <<script, answered, outcomeOf, required, receipt, acked, drafted>>
  BY Zenon DEF ContextCrash, contextDurable
<1>2. ContextTyped
  BY Zenon DEF ContextInv
<1>3. /\ Shaped(engine') /\ engine'.pc = "down" /\ engine'.saving = "none"
      /\ \A c \in ContextCalls : editJob'[c] = "none" /\ jobResult'[c].edit = "unedited"
      /\ editJob' \in [ContextCalls -> EditStates] /\ DOMAIN jobResult' = ContextCalls
  BY Zenon, <1>1 DEF Shaped, NoResult, EditStates
<1>4. ContextTyped'
  BY Zenon, <1>1, <1>2, <1>3 DEF ContextTyped, Shaped
<1>5. ASSUME NEW a \in Asyncs PROVE Unowed(a)'
  <2>1. Unowed(a) /\ a \in ContextCalls
    BY Zenon DEF ContextInv, ContextCalls
  <2>2. editJob'[a] # "queued"
    BY Zenon, <2>1, <1>3
  <2> QED BY Zenon, <2>1, <2>2, <1>1, <1>3 DEF Unowed
<1>6. ASSUME NEW c \in Editors PROVE EditorFact(c)'
  <2>1. EditorFact(c) /\ c \in ContextCalls
    BY Zenon DEF ContextInv, ContextCalls
  <2>2. JobFact(c)'
    BY Zenon, <2>1, <1>1, <1>3 DEF JobFact
  <2> QED BY Zenon, <2>1, <2>2, <1>1, <1>3 DEF EditorFact, ToldNow, DraftOwed, Unissued, Acknowledged
<1>7. RoundFact'
  BY Zenon, <1>3 DEF RoundFact
<1> QED BY Zenon, <1>4, <1>5, <1>6, <1>7 DEF ContextInv

LEMMA RecoverKeeps == ContextInv /\ ContextRecover => ContextInv'
<1> SUFFICES ASSUME ContextInv, ContextRecover PROVE ContextInv'
  BY Zenon
<1>1. PICK told \in SUBSET ContextCalls :
         /\ acked' = [c \in ContextCalls |-> IF c \in told THEN acked[c] \cup {Acknowledged(c)} ELSE acked[c]]
         /\ \A c \in told : has_completed_output(c)
  <2> DEFINE told == {c \in ContextCalls : /\ NearestClaim(c, HeadRequest) # 0
                                           /\ claims[c][NearestClaim(c, HeadRequest)] = "settled"
                                           /\ has_completed_output(c)}
  <2>1. acked' = [c \in ContextCalls |-> IF c \in told THEN acked[c] \cup {Acknowledged(c)} ELSE acked[c]]
    <3> HIDE DEF has_completed_output, NearestClaim, HeadRequest, Acknowledged
    <3> QED BY Zenon DEF ContextRecover
  <2>2. told \in SUBSET ContextCalls /\ \A c \in told : has_completed_output(c)
    BY Zenon
  <2> QED BY Zenon, <2>1, <2>2
<1>2. /\ engine' = [mode |-> "run", pc |-> "boundary", call |-> "none", saving |-> "none",
                    snapshot |-> NoSnapshot]
      /\ UNCHANGED <<script, answered, outcomeOf, required, receipt, editJob, jobResult, drafted,
                     pendingCalls>>
  BY Zenon DEF ContextRecover
<1>3. ContextTyped
  BY Zenon DEF ContextInv
<1>4. Shaped(engine') /\ engine'.pc = "boundary" /\ engine'.saving = "none"
  BY Zenon, <1>2 DEF Shaped
<1>5. /\ DOMAIN acked' = ContextCalls
      /\ \A c \in ContextCalls :
            acked'[c] = IF c \in told THEN acked[c] \cup {Acknowledged(c)} ELSE acked[c]
  BY Zenon, <1>1
<1>6. ContextTyped'
  BY Zenon, <1>2, <1>3, <1>4, <1>5 DEF ContextTyped, Shaped
<1>7. ASSUME NEW a \in Asyncs PROVE Unowed(a)'
  <2>1. Unowed(a) /\ a \in ContextCalls
    BY Zenon DEF ContextInv, ContextCalls
  <2>2. Acknowledged(a) = "committed"
    BY Zenon, <2>1 DEF Unowed, Acknowledged
  <2>3. "aborted" \notin acked'[a]
    BY <2>1, <2>2, <1>5 DEF Unowed
  <2> QED BY Zenon, <2>1, <2>3, <1>2 DEF Unowed
<1>8. ASSUME NEW c \in Editors PROVE EditorFact(c)'
  <2>1. EditorFact(c) /\ c \in ContextCalls
    BY Zenon DEF ContextInv, ContextCalls
  <2>2. c \in told => outcomeOf[c] \in {"ok", "err"}
    BY Zenon, <1>1 DEF has_completed_output
  <2>3. acked'[c] # {} => outcomeOf[c] \in {"ok", "err"}
    BY Zenon, <2>1, <2>2, <1>5 DEF EditorFact, ToldNow
  <2>4. acked'[c] \subseteq {Acknowledged(c)}
    BY Zenon, <2>1, <1>5 DEF EditorFact, ToldNow
  <2>5. ToldNow(c)'
    BY Zenon, <2>3, <2>4, <1>2 DEF ToldNow, Acknowledged
  <2> QED BY Zenon, <2>1, <2>5, <1>2 DEF EditorFact, DraftOwed, JobFact, Unissued
<1>9. RoundFact'
  BY Zenon, <1>4 DEF RoundFact
<1> QED BY Zenon, <1>6, <1>7, <1>8, <1>9 DEF ContextInv

LEMMA ContextStep == ContextInv /\ [ContextNext]_contextVars => ContextInv'
<1> SUFFICES ASSUME ContextInv, [ContextNext]_contextVars PROVE ContextInv'
  BY Zenon
<1>1. CASE UNCHANGED contextVars
  <2>1. UNCHANGED <<script, answered, outcomeOf, required, receipt, acked, editJob, jobResult,
                    drafted, pendingCalls, engine>>
    BY Zenon, <1>1 DEF contextVars, contextDurable, contextEngine
  <2>2. Shaped(engine') /\ RoundFact'
    BY Zenon, <2>1 DEF ContextInv, ContextTyped, Shaped, RoundFact
  <2> QED BY Zenon, <2>1, <2>2, CallsUnread
<1>2. CASE ContextNext
  BY Zenon, <1>2, AnswerKeeps, QuietKeeps, RequireKeeps, SettleKeeps, AcknowledgeKeeps, PublishKeeps,
     RetainKeeps, CrashKeeps, RecoverKeeps, BeginKeeps, JobEndsKeeps, PersistKeeps, CleanKeeps
     DEF ContextNext
<1> QED BY Zenon, <1>1, <1>2

\* The engine's place in a round and each call's job, terminal and requirement
\* agree (engine.rs, retain_output; transactions.rs), through cancellations,
\* losses of the process and recoveries.
THEOREM ContextInvariant == ContextSpec => []ContextInv
BY ContextStart, ContextStep, PTL DEF ContextSpec

\* What the owner of an editing call is told is true, for any script of
\* responses, cancellations, crashes and compactions (acknowledge_output).
THEOREM OwnersToldTruly == ContextSpec => []AcknowledgedTruly
<1>1. ContextInv => AcknowledgedTruly
  <2> SUFFICES ASSUME ContextInv, NEW c \in ContextCalls
               PROVE  /\ "committed" \in acked[c] /\ c \in drafted => receipt[c] = "committed"
                      /\ "aborted" \in acked[c] => receipt[c] # "committed" /\ "committed" \notin acked[c]
    BY Zenon DEF AcknowledgedTruly
  <2>1. CASE c \in Asyncs
    <3>1. Unowed(c) /\ c \notin drafted
      BY Zenon, <2>1, ContextAssumption DEF ContextInv, ContextTyped
    <3> QED BY Zenon, <3>1 DEF Unowed
  <2>2. CASE c \in Editors
    <3>1. ToldNow(c) /\ DraftOwed(c)
      BY Zenon, <2>2 DEF ContextInv, EditorFact
    <3>2. "committed" \in acked[c] => Acknowledged(c) = "committed" /\ outcomeOf[c] \in {"ok", "err"}
      BY Zenon, <3>1 DEF ToldNow
    <3>3. "aborted" \in acked[c] => Acknowledged(c) = "aborted"
      BY Zenon, <3>1 DEF ToldNow
    <3>4. "committed" \in acked[c] /\ c \in drafted => required[c].owed
      BY Zenon, <3>1, <3>2 DEF DraftOwed
    <3> QED BY Zenon, <3>2, <3>3, <3>4 DEF Acknowledged
  <2> QED BY Zenon, <2>1, <2>2 DEF ContextCalls
<1> QED BY <1>1, ContextInvariant, PTL

-----------------------------------------------------------------------------
Places == {"idle", "claim", "run", "wake", "settle", "publish"}

JournalTyped ==
    /\ kind \in [Ops -> Kinds \cup {"unused"}]
    /\ row \in [Ops -> States] /\ seen \in [Ops -> States]
    /\ effect \in [Ops -> {0, 1}]
    /\ fenced \in BOOLEAN
    /\ task \in [Tasks -> [at : Places, op : Ops \cup {NoCommand}, outcome : Final \cup {"none"}]]

\* The connection shows the durable rows until a COMMIT fails; a stopped process has no
\* tasks.
ViewCurrent ==
    /\ ~fenced => seen = row
    /\ ~up => \A t \in Tasks : task[t] = Idle

\* A row tells whether its command took effect, as far as it tells anything.
RowFact(o) ==
    /\ row[o] \in {"absent", "queued", "refused"} => effect[o] = 0
    /\ row[o] \in Settled \ {"refused"} => effect[o] = 1

EffectsMatch == \A o \in Ops : RowFact(o)

\* What a task knows of the row it works on.
TaskFact(t) ==
    LET o == task[t].op IN
    /\ task[t].at # "idle" => o \in Ops
    /\ task[t].at = "run" => row[o] = "dispatching" /\ effect[o] = 0
    /\ task[t].at = "wake" => row[o] = "input_admitted"
    /\ task[t].at = "settle" =>
          /\ task[t].outcome \in {"control_requested", "refused", "unconfirmed"}
          /\ ~fenced => row[o] = "dispatching"
          /\ row[o] = "dispatching" =>
                /\ task[t].outcome = "control_requested" => effect[o] = 1
                /\ task[t].outcome = "refused" => effect[o] = 0

TaskFacts == \A t \in Tasks : TaskFact(t)

Working(t) == task[t].at \in {"run", "settle"}

\* Two tasks never work on one row.
Apart == \A t, u \in Tasks : t # u /\ Working(t) /\ Working(u) => task[t].op # task[u].op

\* The inductive invariant.
JournalInv == JournalTyped /\ ViewCurrent /\ EffectsMatch /\ TaskFacts /\ Apart

-----------------------------------------------------------------------------
(* Writes to the journal *)

\* A write keeps the journal's types.
LEMMA WriteTyped ==
    ASSUME JournalTyped, NEW o \in Ops, NEW state \in States, NEW times \in {0, 1}, NEW wake,
           effect[o] + times \in {0, 1}, Write(o, state, times, wake)
    PROVE  /\ row' \in [Ops -> States] /\ effect' \in [Ops -> {0, 1}]
           /\ row'[o] = state /\ effect'[o] = effect[o] + times
           /\ \A p \in Ops \ {o} : row'[p] = row[p] /\ effect'[p] = effect[p]
BY Zenon DEF JournalTyped, Write

\* A transaction on o: its COMMIT succeeds, or fails with its write durable or not.
Transaction(o, state, times) ==
    \E wake \in BOOLEAN : Commit(o, state, times, wake) \/ complete_transaction(o, state, times, wake)

\* Nothing but the row o changes in the journal.
RowsFrame(o) ==
    /\ row' \in [Ops -> States] /\ seen' \in [Ops -> States] /\ effect' \in [Ops -> {0, 1}]
    /\ fenced' \in BOOLEAN /\ (~fenced' => ~fenced /\ seen' = row')
    /\ \A p \in Ops \ {o} : row'[p] = row[p] /\ effect'[p] = effect[p]

\* The ways in which the row o and its effect may change in one step.
RowMoves(o) ==
    /\ RowsFrame(o)
    /\ \/ row'[o] = row[o] /\ effect'[o] = effect[o]
       \/ row[o] = "absent" /\ row'[o] = "queued" /\ effect'[o] = effect[o]
       \/ row[o] = "queued" /\ row'[o] = "dispatching" /\ effect'[o] = effect[o]
       \/ row[o] = "dispatching" /\ row'[o] \in Final /\ effect'[o] \in {effect[o], 1}
       \/ row[o] = "dispatching" /\ row'[o] = "dispatching" /\ effect[o] = 0 /\ effect'[o] = 1

Moves == UNCHANGED <<row, effect>> \/ \E o \in Ops : RowMoves(o)

\* What a transaction does to the rows.
LEMMA TransactionRows ==
    ASSUME JournalTyped, ViewCurrent, NEW o \in Ops, NEW state \in States, NEW times \in {0, 1},
           effect[o] + times \in {0, 1}, Transaction(o, state, times)
    PROVE  /\ ~fenced /\ RowsFrame(o)
           /\ \/ row'[o] = state /\ effect'[o] = effect[o] + times
              \/ fenced' /\ row'[o] = row[o] /\ effect'[o] = effect[o]
<1>1. PICK wake \in BOOLEAN : Commit(o, state, times, wake) \/ complete_transaction(o, state, times, wake)
    BY Zenon DEF Transaction
<1>2. ~fenced /\ seen = row
    BY Zenon, <1>1 DEF Commit, complete_transaction, ViewCurrent
<1>3. CASE Commit(o, state, times, wake)
  <2>1. /\ row' = [row EXCEPT ![o] = state] /\ seen' = [seen EXCEPT ![o] = state]
        /\ UNCHANGED fenced /\ Write(o, state, times, wake)
    BY Zenon, <1>3 DEF Commit, Write
  <2>2. seen' = row' /\ fenced' \in BOOLEAN
    BY Zenon, <1>2, <2>1 DEF JournalTyped
  <2> QED BY <1>2, <2>1, <2>2, WriteTyped DEF RowsFrame
<1>4. CASE complete_transaction(o, state, times, wake)
  <2>1. fenced' = TRUE /\ seen' \in {seen, [seen EXCEPT ![o] = state]}
    BY Zenon, <1>4 DEF complete_transaction
  <2>2. seen' \in [Ops -> States]
    BY Zenon, <2>1 DEF JournalTyped
  <2>3. CASE Write(o, state, times, wake)
    BY <1>2, <2>1, <2>2, <2>3, WriteTyped DEF RowsFrame
  <2>4. CASE UNCHANGED <<row, effect>>
    BY Zenon, <1>2, <2>1, <2>2, <2>4 DEF JournalTyped, RowsFrame
  <2> QED BY Zenon, <1>4, <2>3, <2>4 DEF complete_transaction
<1> QED BY Zenon, <1>1, <1>3, <1>4

\* A transaction that performs nothing.
LEMMA QuietTransaction ==
    ASSUME JournalTyped, ViewCurrent, NEW o \in Ops, NEW state \in States, Transaction(o, state, 0)
    PROVE  /\ ~fenced /\ RowsFrame(o)
           /\ effect'[o] = effect[o]
           /\ row'[o] = state \/ row'[o] = row[o]
<1>1. effect[o] \in {0, 1} /\ effect[o] + 0 = effect[o] /\ 0 \in {0, 1}
    BY DEF JournalTyped
<1>2. effect[o] + 0 \in {0, 1}
    BY Zenon, <1>1
<1> QED BY Zenon, <1>1, <1>2, TransactionRows

\* No task but t moves.
TasksFrame(t) ==
    /\ task' \in [Tasks -> [at : Places, op : Ops \cup {NoCommand}, outcome : Final \cup {"none"}]]
    /\ \A u \in Tasks \ {t} : task'[u] = task[u]

\* A task moves on.
LEMMA GotoTyped ==
    ASSUME JournalTyped, NEW t \in Tasks, NEW at \in Places, NEW o \in Ops \cup {NoCommand},
           NEW outcome \in Final \cup {"none"}, Goto(t, at, o, outcome)
    PROVE  /\ TasksFrame(t)
           /\ task'[t] = [at |-> at, op |-> o, outcome |-> outcome]
BY Zenon DEF JournalTyped, Goto, TasksFrame

\* A task that goes idle, or on to publish, has no claim any more.
LEMMA GoesIdle ==
    ASSUME JournalTyped, NEW t \in Tasks, Goto(t, "idle", NoCommand, "none")
    PROVE  TasksFrame(t) /\ TaskFact(t)' /\ ~Working(t)'
<1>1. task' = [task EXCEPT ![t] = [at |-> "idle", op |-> NoCommand, outcome |-> "none"]]
    BY Zenon DEF Goto
<1>2. task'[t] = [at |-> "idle", op |-> NoCommand, outcome |-> "none"]
    BY Zenon, <1>1 DEF JournalTyped
<1>3. TasksFrame(t)
    BY Zenon, <1>1 DEF JournalTyped, TasksFrame, Places
<1> QED BY <1>2, <1>3 DEF TaskFact, Working

LEMMA GoesPublish ==
    ASSUME JournalTyped, NEW t \in Tasks, NEW o \in Ops, NEW outcome \in Final, Goto(t, "publish", o, outcome)
    PROVE  TasksFrame(t) /\ TaskFact(t)' /\ ~Working(t)'
<1>1. task' = [task EXCEPT ![t] = [at |-> "publish", op |-> o, outcome |-> outcome]]
    BY Zenon DEF Goto
<1>2. task'[t] = [at |-> "publish", op |-> o, outcome |-> outcome]
    BY Zenon, <1>1 DEF JournalTyped
<1>3. TasksFrame(t)
    BY Zenon, <1>1 DEF JournalTyped, TasksFrame, Places
<1> QED BY <1>2, <1>3 DEF TaskFact, Working

LEMMA GoesRun ==
    ASSUME JournalTyped, NEW t \in Tasks, NEW o \in Ops, Goto(t, "run", o, "none"),
           row'[o] = "dispatching", effect'[o] = 0
    PROVE  TasksFrame(t) /\ TaskFact(t)' /\ task'[t].op = o
<1>1. task' = [task EXCEPT ![t] = [at |-> "run", op |-> o, outcome |-> "none"]]
    BY Zenon DEF Goto
<1>2. task'[t] = [at |-> "run", op |-> o, outcome |-> "none"]
    BY Zenon, <1>1 DEF JournalTyped
<1>3. TasksFrame(t)
    BY Zenon, <1>1 DEF JournalTyped, TasksFrame, Places
<1> QED BY <1>2, <1>3 DEF TaskFact

\* No other task works on o, and one that is to wake the input o finds it admitted.
Alone(t, o) ==
    \A u \in Tasks \ {t} : /\ Working(u) => task[u].op # o
                           /\ task[u].at = "wake" /\ task[u].op = o => row'[o] = "input_admitted"

\* A task's step on its row keeps the invariant when the row and the task keep theirs and
\* no other task works on the row.
LEMMA RowStep ==
    ASSUME JournalInv, NEW t \in Tasks, NEW o \in Ops, up, UNCHANGED <<kind, up>>,
           RowsFrame(o), TasksFrame(t), Alone(t, o),
           RowFact(o)', TaskFact(t)', Working(t)' => task'[t].op = o
    PROVE  JournalInv'
<1>1. JournalTyped /\ ViewCurrent /\ EffectsMatch /\ TaskFacts /\ Apart
    BY Zenon DEF JournalInv
<1>2. JournalTyped' /\ ViewCurrent'
    BY Zenon, <1>1 DEF JournalTyped, ViewCurrent, RowsFrame, TasksFrame
<1>3. EffectsMatch'
    BY Zenon, <1>1 DEF EffectsMatch, RowFact, RowsFrame
<1>4. TaskFacts'
  <2>1. ASSUME NEW u \in Tasks \ {t} PROVE TaskFact(u)'
    <3>1. task'[u] = task[u] /\ TaskFact(u)
      BY Zenon, <1>1 DEF TaskFacts, TasksFrame
    <3>2. CASE task[u].op # o
      BY ZenonT(40), <3>1, <3>2 DEF TaskFact, RowsFrame
    <3>3. CASE task[u].op = o
      BY Zenon, <3>1, <3>3 DEF TaskFact, Working, Alone
    <3> QED BY Zenon, <3>2, <3>3
  <2> QED BY Zenon, <2>1 DEF TaskFacts
<1>5. Apart'
    BY ZenonT(40), <1>1 DEF Apart, Working, TasksFrame, Alone
<1> QED BY Zenon, <1>2, <1>3, <1>4, <1>5 DEF JournalInv


\* A task moves on without touching the journal.
LEMMA TaskMoves ==
    ASSUME JournalInv, NEW t \in Tasks, NEW at \in {"idle", "claim", "publish", "settle"},
           NEW p \in Ops \cup {NoCommand}, NEW outcome \in Final \cup {"none"}, Goto(t, at, p, outcome),
           UNCHANGED <<kind, row, effect, seen, fenced, up>>, up, at # "idle" => p \in Ops,
           at = "settle" => outcome = "refused" /\ task[t].at = "run" /\ task[t].op = p
    PROVE  JournalInv' /\ Moves
<1>1. JournalTyped /\ ViewCurrent /\ EffectsMatch /\ TaskFacts /\ Apart
    BY Zenon DEF JournalInv
<1>2. /\ TasksFrame(t)
      /\ task'[t] = [at |-> at, op |-> p, outcome |-> outcome]
    BY <1>1, GotoTyped DEF Places
<1>3. JournalTyped' /\ ViewCurrent' /\ EffectsMatch'
    BY Zenon, <1>1, <1>2 DEF JournalTyped, ViewCurrent, EffectsMatch, RowFact, TasksFrame
<1>4. TaskFacts'
    BY <1>1, <1>2 DEF TaskFacts, TaskFact, TasksFrame
<1>5. Apart'
    BY <1>1, <1>2 DEF Apart, Working, TasksFrame
<1> QED BY Zenon, <1>3, <1>4, <1>5 DEF JournalInv, Moves

\* A task that is not idle belongs to a running process.
LEMMA TaskUp ==
    ASSUME JournalInv, NEW t \in Tasks, task[t].at # "idle"
    PROVE  up /\ task[t].op \in Ops
BY DEF JournalInv, ViewCurrent, TaskFacts, TaskFact, Idle

\* A task that claims, performs or settles a row has it for itself.
LEMMA Elsewhere ==
    ASSUME JournalInv, NEW t \in Tasks, NEW o \in Ops,
           \/ row[o] = "queued" /\ ~fenced
           \/ row[o] = "dispatching" /\ Working(t) /\ task[t].op = o
    PROVE  Alone(t, o)
BY Zenon DEF JournalInv, Alone, TaskFacts, TaskFact, Apart, Working

\* Every host action preserves the invariant and moves at most one row, forward.
LEMMA HostInv ==
    ASSUME JournalInv, NEW t \in Tasks, HostStep(t)
    PROVE  JournalInv' /\ Moves
<1>1. /\ JournalTyped /\ ViewCurrent /\ EffectsMatch /\ TaskFacts
      /\ NoCommand \in Ops \cup {NoCommand} /\ "none" \in Final \cup {"none"}
      /\ \A state \in Settled \cup {"dispatching", "unconfirmed"} : state \in States
    BY Zenon DEF JournalInv, States, Final
<1>2. PICK o \in Ops \cup {NoCommand} : o = task[t].op
    BY Zenon, <1>1 DEF JournalTyped
<1>3. ASSUME NEW p \in Ops, queued_embedded_commands(t, p) PROVE JournalInv' /\ Moves
    BY Zenon, <1>2, <1>1, <1>3, TaskMoves DEF queued_embedded_commands, journal
<1>4. CASE claim_embedded_command(t)
  <2>1. up /\ o \in Ops /\ UNCHANGED <<kind, up>>
    BY Zenon, <1>2, <1>4, TaskUp DEF claim_embedded_command
  <2>2. CASE /\ seen[o] = "queued" /\ Transaction(o, "dispatching", 0)
             /\ \/ Goto(t, "idle", NoCommand, "none")
                \/ Goto(t, "run", o, "none") /\ row'[o] = "dispatching"
    <3>1. /\ ~fenced /\ RowsFrame(o) /\ effect'[o] = effect[o]
          /\ row'[o] = "dispatching" \/ row'[o] = row[o]
      BY Zenon, <1>1, <2>1, <2>2, QuietTransaction
    <3>2. row[o] = "queued" /\ effect[o] = 0
      BY Zenon, <1>1, <2>1, <2>2, <3>1 DEF ViewCurrent, EffectsMatch, RowFact
    <3>3. Alone(t, o)
      BY Zenon, <1>2, <2>1, <3>1, <3>2, Elsewhere
    <3>4. RowFact(o)'
      BY Zenon, <3>1, <3>2 DEF RowFact, Settled
    <3>5. Moves
      BY Zenon, <2>1, <3>1, <3>2 DEF Moves, RowMoves
    <3>6. CASE Goto(t, "idle", NoCommand, "none")
      <4>1. TasksFrame(t) /\ TaskFact(t)' /\ ~Working(t)'
        BY Zenon, <1>1, <3>6, GoesIdle
      <4> QED BY Zenon, <2>1, <3>1, <3>3, <3>4, <3>5, <4>1, RowStep
    <3>7. CASE Goto(t, "run", o, "none") /\ row'[o] = "dispatching"
      <4>1. effect'[o] = 0
        BY Zenon, <3>1, <3>2
      <4>2. TasksFrame(t) /\ TaskFact(t)' /\ task'[t].op = o
        BY Zenon, <1>1, <2>1, <3>7, <4>1, GoesRun
      <4> QED BY Zenon, <2>1, <3>1, <3>3, <3>4, <3>5, <4>2, RowStep
    <3> QED BY Zenon, <2>2, <3>6, <3>7
  <2>3. CASE Goto(t, "idle", NoCommand, "none") /\ UNCHANGED journal
    BY Zenon, <1>2, <1>1, <2>1, <2>3, TaskMoves DEF journal
  <2>4. Commit(o, "dispatching", 0, FALSE) => row'[o] = "dispatching" /\ Transaction(o, "dispatching", 0)
    BY Zenon, <1>1, <2>1 DEF Commit, Write, JournalTyped, Transaction
  <2> QED BY Zenon, <1>2, <1>4, <2>2, <2>3, <2>4 DEF claim_embedded_command, Transaction
<1>5. CASE Perform(t)
  <2>1. up /\ o \in Ops /\ task[t].at = "run" /\ UNCHANGED <<kind, up>>
    BY Zenon, <1>2, <1>5, TaskUp DEF Perform
  <2>2. row[o] = "dispatching" /\ effect[o] = 0
    BY Zenon, <1>2, <1>1, <2>1 DEF TaskFacts, TaskFact
  <2>3. /\ Success(kind[o]) \in Settled \ {"refused"}
        /\ kind[o] = "input" => Success(kind[o]) = "input_admitted"
    BY Zenon, <1>2, <1>5 DEF Perform, Success, Settled
  <2>4. ASSUME NEW state \in Settled, NEW times \in {0, 1}, Transaction(o, state, times),
               state = "refused" <=> times = 0,
               NEW at \in {"wake", "publish", "settle"}, NEW outcome \in Final, Goto(t, at, o, outcome),
               at = "wake" => state = "input_admitted" /\ row'[o] = state,
               at = "settle" => outcome = "refused" /\ fenced' /\ state # "refused"
        PROVE  JournalInv' /\ Moves
    <3>1. effect[o] + times \in {0, 1} /\ effect[o] + times = times /\ state \in States
      BY <2>2, <2>4 DEF States, Final
    <3>2. /\ ~fenced /\ RowsFrame(o)
          /\ (row'[o] = state /\ effect'[o] = times) \/ (fenced' /\ row'[o] = "dispatching" /\ effect'[o] = 0)
      BY <1>1, <2>1, <2>2, <2>4, <3>1, TransactionRows
    <3>3. at \in Places /\ o \in Ops \cup {NoCommand} /\ outcome \in Final \cup {"none"}
      BY Zenon, <2>1, <2>4 DEF Places
    <3>4. TasksFrame(t) /\ task'[t] = [at |-> at, op |-> o, outcome |-> outcome]
      BY <1>1, <2>4, <3>3, GotoTyped
    <3>5. TasksFrame(t) /\ task'[t].at = at /\ task'[t].op = o /\ task'[t].outcome = outcome
      BY <3>4
    <3>6. Alone(t, o)
      BY Zenon, <1>2, <2>1, <2>2, Elsewhere DEF Working
    <3>7. Moves
      BY Zenon, <2>1, <2>2, <2>4, <3>2 DEF Moves, RowMoves, Final
    <3>8. RowFact(o)'
      BY Zenon, <2>4, <3>2 DEF RowFact, Settled
    <3>9. TaskFact(t)'
      <4>1. CASE at = "wake"
        BY Zenon, <2>1, <2>4, <3>5, <4>1 DEF TaskFact
      <4>2. CASE at = "publish"
        BY Zenon, <2>1, <3>5, <4>2 DEF TaskFact
      <4>3. CASE at = "settle"
        BY Zenon, <2>1, <2>4, <3>2, <3>5, <4>3 DEF TaskFact, Settled
      <4> QED BY Zenon, <2>4, <4>1, <4>2, <4>3
    <3> QED BY Zenon, <2>1, <3>2, <3>5, <3>6, <3>8, <3>9, <3>7, RowStep
  <2>5. CASE /\ Commit(o, Success(kind[o]), 1, FALSE)
             /\ Goto(t, IF kind[o] = "input" THEN "wake" ELSE "publish", o, Success(kind[o]))
    <3>1. row'[o] = Success(kind[o]) /\ Transaction(o, Success(kind[o]), 1)
      BY Zenon, <1>1, <2>1, <2>5 DEF Commit, Write, JournalTyped, Transaction
    <3>2. Success(kind[o]) \in Final
      BY Zenon, <2>3 DEF Final
    <3> QED BY <2>3, <2>4, <2>5, <3>1, <3>2
  <2>6. CASE complete_transaction(o, Success(kind[o]), 1, FALSE) /\ Goto(t, "settle", o, "refused")
    <3>1. fenced' = TRUE /\ Transaction(o, Success(kind[o]), 1) /\ "refused" \in Final
      BY Zenon, <2>6 DEF complete_transaction, Transaction, Final, Settled
    <3> QED BY <2>3, <2>4, <2>6, <3>1
  <2>7. CASE Commit(o, "refused", 0, FALSE) /\ Goto(t, "publish", o, "refused")
    <3>1. Transaction(o, "refused", 0) /\ "refused" \in Final /\ "refused" \in Settled
      BY Zenon, <2>7 DEF Transaction, Final, Settled
    <3> QED BY Zenon, <2>4, <2>7, <3>1
  <2>8. CASE Goto(t, "settle", o, "refused") /\ UNCHANGED journal
    BY Zenon, <1>2, <2>1, <2>8, TaskMoves DEF journal, Final, Settled
  <2> QED BY Zenon, <1>2, <1>5, <2>5, <2>6, <2>7, <2>8 DEF Perform
<1>6. CASE Wake(t)
  <2>1. up /\ o \in Ops /\ task[t].at = "wake" /\ UNCHANGED <<kind, up>>
    BY Zenon, <1>2, <1>6, TaskUp DEF Wake
  <2>2. row[o] = "input_admitted" /\ effect[o] = 1 /\ "input_admitted" \in States
    BY Zenon, <1>2, <1>1, <2>1 DEF TaskFacts, TaskFact, EffectsMatch, RowFact, Settled
  <2>3. CASE /\ Transaction(o, "input_admitted", 0)
             /\ Goto(t, "publish", o, "input_admitted") \/ Goto(t, "idle", NoCommand, "none")
    <3>1. ~fenced /\ RowsFrame(o) /\ effect'[o] = 1 /\ row'[o] = "input_admitted"
      BY Zenon, <1>1, <2>1, <2>2, <2>3, QuietTransaction
    <3>2. Alone(t, o)
      BY Zenon, <1>2, <1>1, <2>2, <3>1 DEF TaskFacts, TaskFact, Working, Alone
    <3>3. RowFact(o)' /\ Moves
      BY Zenon, <2>1, <2>2, <3>1 DEF RowFact, Moves, RowMoves
    <3>4. "input_admitted" \in Final
      BY Zenon DEF Final, Settled
    <3>5. TasksFrame(t) /\ TaskFact(t)' /\ ~Working(t)'
      BY Zenon, <1>1, <2>1, <2>3, <3>4, GoesIdle, GoesPublish
    <3> QED BY Zenon, <2>1, <3>1, <3>2, <3>3, <3>5, RowStep
  <2>4. CASE Goto(t, "publish", o, "input_admitted") /\ UNCHANGED journal
    BY Zenon, <1>2, <2>1, <2>4, TaskMoves DEF journal, Final, Settled
  <2>5. CASE Goto(t, "idle", NoCommand, "none") /\ UNCHANGED journal
    BY Zenon, <1>2, <1>1, <2>1, <2>5, TaskMoves DEF journal
  <2> QED BY Zenon, <1>2, <1>6, <2>3, <2>4, <2>5 DEF Wake, Transaction
<1>7. CASE Control(t)
  <2>1. up /\ o \in Ops /\ task[t].at = "run" /\ UNCHANGED <<kind, row, seen, fenced, up>>
    BY Zenon, <1>2, <1>7, TaskUp DEF Control
  <2>2. row[o] = "dispatching" /\ effect[o] = 0
    BY Zenon, <1>2, <1>1, <2>1 DEF TaskFacts, TaskFact
  <2>3. PICK outcome \in {"control_requested", "refused", "unconfirmed"}, times \in 0..1 :
          /\ outcome = "control_requested" => times = 1
          /\ outcome = "refused" => times = 0
          /\ effect' = [effect EXCEPT ![o] = @ + times]
          /\ Goto(t, "settle", o, outcome)
    BY Zenon, <1>2, <1>7 DEF Control
  <2>4. /\ effect' \in [Ops -> {0, 1}] /\ effect'[o] = times
        /\ \A q \in Ops \ {o} : effect'[q] = effect[q]
    BY <1>1, <2>1, <2>2, <2>3 DEF JournalTyped
  <2>5. RowsFrame(o)
    BY Zenon, <1>1, <2>1, <2>4 DEF JournalTyped, ViewCurrent, RowsFrame
  <2>6. "settle" \in Places /\ o \in Ops \cup {NoCommand} /\ outcome \in Final \cup {"none"}
    BY Zenon, <2>1, <2>3 DEF Places, Final, Settled
  <2>7. TasksFrame(t) /\ task'[t] = [at |-> "settle", op |-> o, outcome |-> outcome]
    BY <1>1, <2>3, <2>6, GotoTyped
  <2>8. Alone(t, o)
    BY Zenon, <1>2, <2>1, <2>2, Elsewhere DEF Working
  <2>9. RowFact(o)' /\ Moves
    BY Zenon, <2>1, <2>2, <2>4, <2>5 DEF RowFact, Settled, Moves, RowMoves
  <2>10. TaskFact(t)'
    BY <2>1, <2>2, <2>3, <2>4, <2>7 DEF TaskFact
  <2>11. task'[t].op = o
    BY <2>7
  <2> QED BY Zenon, <2>1, <2>5, <2>7, <2>8, <2>9, <2>10, <2>11, RowStep
<1>8. CASE settle_embedded_command(t)
  <2> DEFINE v == task[t].outcome
  <2>1. up /\ o \in Ops /\ task[t].at = "settle" /\ UNCHANGED <<kind, up>>
    BY Zenon, <1>2, <1>8, TaskUp DEF settle_embedded_command
  <2>2. /\ v \in {"control_requested", "refused", "unconfirmed"} /\ v \in States /\ v \in Final
        /\ effect[o] \in {0, 1}
        /\ ~fenced => /\ row[o] = "dispatching"
                      /\ v = "control_requested" => effect[o] = 1
                      /\ v = "refused" => effect[o] = 0
    BY Zenon, <1>2, <1>1, <2>1 DEF TaskFacts, TaskFact, JournalTyped, States, Final, Settled
  <2>3. CASE /\ Transaction(o, v, 0)
             /\ Goto(t, "publish", o, v) \/ Goto(t, "idle", NoCommand, "none")
    <3>1. ~fenced /\ RowsFrame(o) /\ effect'[o] = effect[o] /\ (row'[o] = v \/ row'[o] = row[o])
      BY Zenon, <1>1, <2>1, <2>2, <2>3, QuietTransaction
    <3>2. Alone(t, o)
      BY Zenon, <1>2, <2>1, <2>2, <3>1, Elsewhere DEF Working
    <3>3. RowFact(o)' /\ Moves
      BY Zenon, <2>1, <2>2, <3>1 DEF RowFact, Settled, Moves, RowMoves
    <3>4. TasksFrame(t) /\ TaskFact(t)' /\ ~Working(t)'
      BY Zenon, <1>1, <2>1, <2>2, <2>3, GoesIdle, GoesPublish
    <3> QED BY Zenon, <2>1, <3>1, <3>2, <3>3, <3>4, RowStep
  <2>4. CASE Goto(t, "idle", NoCommand, "none") /\ UNCHANGED journal
    BY Zenon, <1>2, <1>1, <2>1, <2>4, TaskMoves DEF journal
  <2> QED BY Zenon, <1>2, <1>8, <2>3, <2>4 DEF settle_embedded_command, Transaction
<1>9. CASE SendReceipt(t)
  <2>1. up
    BY Zenon, <1>2, <1>9, TaskUp DEF SendReceipt
  <2> QED BY Zenon, <1>2, <1>1, <1>9, <2>1, TaskMoves DEF SendReceipt, journal
<1> QED BY Zenon, <1>3, <1>4, <1>5, <1>6, <1>7, <1>8, <1>9 DEF HostStep


-----------------------------------------------------------------------------
(* The other steps *)

\* A submission is journalled, at most once.
LEMMA ReceiveInv ==
    ASSUME JournalInv, NEW o \in Ops, Receive(o)
    PROVE  JournalInv' /\ Moves
<1>1. JournalTyped /\ ViewCurrent /\ EffectsMatch /\ TaskFacts /\ Apart /\ "queued" \in States
    BY Zenon DEF JournalInv, States
<1>2. up /\ UNCHANGED <<kind, up, task>>
    BY Zenon DEF Receive, host
<1>3. CASE seen[o] = "absent" /\ Transaction(o, "queued", 0)
  <2>1. /\ ~fenced /\ RowsFrame(o) /\ effect'[o] = effect[o]
        /\ row'[o] = "queued" \/ row'[o] = row[o]
    BY Zenon, <1>1, <1>3, QuietTransaction
  <2>2. row[o] = "absent" /\ effect[o] = 0
    BY Zenon, <1>1, <1>3, <2>1 DEF ViewCurrent, EffectsMatch, RowFact
  <2>3. Moves
    BY Zenon, <2>1, <2>2 DEF Moves, RowMoves
  <2>4. JournalTyped' /\ ViewCurrent'
    BY Zenon, <1>1, <1>2, <2>1 DEF JournalTyped, ViewCurrent, RowsFrame
  <2>5. EffectsMatch'
    BY Zenon, <1>1, <2>1, <2>2 DEF EffectsMatch, RowFact, RowsFrame, Settled
  <2>6. TaskFacts'
    <3>1. ASSUME NEW u \in Tasks PROVE TaskFact(u)'
      <4>1. TaskFact(u) /\ task'[u] = task[u]
        BY Zenon, <1>1, <1>2 DEF TaskFacts
      <4>2. task[u].at \in {"run", "wake", "settle"} => task[u].op # o
        BY Zenon, <2>1, <2>2, <4>1 DEF TaskFact
      <4> QED BY Zenon, <2>1, <4>1, <4>2 DEF TaskFact, RowsFrame
    <3> QED BY Zenon, <3>1 DEF TaskFacts
  <2>7. Apart'
    BY Zenon, <1>1, <1>2 DEF Apart, Working
  <2> QED BY Zenon, <2>3, <2>4, <2>5, <2>6, <2>7 DEF JournalInv
<1>4. CASE UNCHANGED journal
  <2>1. UNCHANGED <<row, effect, seen, fenced>>
    BY Zenon, <1>4 DEF journal
  <2> QED BY Zenon, <1>2, <2>1
          DEF JournalInv, JournalTyped, ViewCurrent, EffectsMatch, RowFact, TaskFacts, TaskFact,
              Apart, Working, Moves
<1> QED BY Zenon, <1>3, <1>4 DEF Receive, Transaction

\* The process is lost with its tasks; the rows stay.
LEMMA LostInv ==
    ASSUME JournalInv, HostLost
    PROVE  JournalInv' /\ Moves
<1>1. UNCHANGED <<kind, row, effect, seen, fenced>> /\ task' = [t \in Tasks |-> Idle]
    BY Zenon DEF HostLost, journal
<1>2. JournalTyped' /\ ViewCurrent'
    BY Zenon, <1>1 DEF JournalInv, JournalTyped, ViewCurrent, Idle, Places
<1>3. EffectsMatch' /\ Moves
    BY Zenon, <1>1 DEF JournalInv, EffectsMatch, RowFact, Moves
<1>4. TaskFacts' /\ Apart'
    BY Zenon, <1>1 DEF TaskFacts, TaskFact, Apart, Working, Idle
<1> QED BY Zenon, <1>2, <1>3, <1>4 DEF JournalInv

\* The next owner reports the claims that were lost.
LEMMA RecoverInv ==
    ASSUME JournalInv, recover_embedded_command_claims
    PROVE  JournalInv'
<1>1. /\ UNCHANGED <<kind, effect, task>> /\ ~up /\ seen' = row' /\ ~fenced'
      /\ row' = [o \in Ops |-> IF row[o] = "dispatching" THEN "unconfirmed" ELSE row[o]]
    BY Zenon DEF recover_embedded_command_claims
<1>2. \A t \in Tasks : task[t] = Idle
    BY Zenon, <1>1 DEF JournalInv, ViewCurrent
<1>3. fenced' \in BOOLEAN /\ up'
    BY Zenon DEF recover_embedded_command_claims
<1>4. JournalTyped' /\ ViewCurrent'
    BY Zenon, <1>1, <1>3 DEF JournalInv, JournalTyped, ViewCurrent, States, Final
<1>5. EffectsMatch'
    BY Zenon, <1>1 DEF JournalInv, EffectsMatch, RowFact, Settled
<1>6. TaskFacts' /\ Apart'
    BY <1>1, <1>2 DEF TaskFacts, TaskFact, Apart, Working, Idle
<1> QED BY Zenon, <1>4, <1>5, <1>6 DEF JournalInv

\* What the browser does leaves the journal and the host alone.
LEMMA BrowserFrame ==
    ASSUME \/ \E o \in Ops : \/ Submit(o) \/ retryHostCommand(o)
                             \/ Lookup(o) \/ applyCommandStatus(o) \/ applyCommandReceipt(o)
           \/ Connect \/ Offline \/ Reload
           \/ UNCHANGED commandVars
    PROVE  /\ UNCHANGED <<kind, row, effect, seen, fenced, up, task>>
           /\ UNCHANGED <<wakeError, receipts>>
<1>1. ASSUME NEW o \in Ops, Submit(o) PROVE UNCHANGED <<kind, journal, host>>
    BY Zenon, <1>1 DEF Submit
<1>2. ASSUME NEW o \in Ops, retryHostCommand(o) PROVE UNCHANGED <<kind, journal, host>>
    BY Zenon, <1>2 DEF retryHostCommand
<1>3. ASSUME NEW o \in Ops, Lookup(o) PROVE UNCHANGED <<kind, journal, host>>
    BY Zenon, <1>3 DEF Lookup
<1>4. ASSUME NEW o \in Ops, applyCommandStatus(o) PROVE UNCHANGED <<kind, journal, host>>
    BY Zenon, <1>4 DEF applyCommandStatus
<1>5. ASSUME NEW o \in Ops, applyCommandReceipt(o) PROVE UNCHANGED <<kind, journal, host>>
    BY Zenon, <1>5 DEF applyCommandReceipt
<1>6. Connect \/ Offline \/ Reload \/ UNCHANGED commandVars => UNCHANGED <<kind, journal, host>>
    BY Zenon DEF Connect, Offline, Reload, commandVars
<1>7. UNCHANGED <<kind, journal, host>>
    BY Zenon, <1>1, <1>2, <1>3, <1>4, <1>5, <1>6
<1> QED BY Zenon, <1>7 DEF journal, host

\* Every step but recovery's preserves the invariant and moves at most one row.
LEMMA StepInv ==
    ASSUME JournalInv, [CommandNext]_commandVars
    PROVE  JournalInv' /\ (Moves \/ recover_embedded_command_claims)
<1>1. ASSUME NEW o \in Ops, Receive(o) PROVE JournalInv' /\ Moves
    BY Zenon, <1>1, ReceiveInv
<1>2. ASSUME NEW t \in Tasks, HostStep(t) PROVE JournalInv' /\ Moves
    BY Zenon, <1>2, HostInv
<1>3. CASE UNCHANGED <<kind, row, effect, seen, fenced, up, task>>
    BY Zenon, <1>3
    DEF JournalInv, JournalTyped, ViewCurrent, EffectsMatch, RowFact, TaskFacts, TaskFact, Apart,
        Working, Moves
<1>4. CASE \/ \E o \in Ops : \/ Submit(o) \/ retryHostCommand(o)
                             \/ Lookup(o) \/ applyCommandStatus(o) \/ applyCommandReceipt(o)
           \/ Connect \/ Offline \/ Reload
           \/ UNCHANGED commandVars
    BY Zenon, <1>3, <1>4, BrowserFrame
<1>5. CASE HostLost
    BY Zenon, <1>5, LostInv
<1>6. CASE recover_embedded_command_claims
    BY Zenon, <1>6, RecoverInv
<1> QED BY Zenon, <1>1, <1>2, <1>4, <1>5, <1>6 DEF CommandNext

LEMMA StartInv ==
    ASSUME CommandInit PROVE JournalInv
<1>1. kind \in [Ops -> Kinds \cup {"unused"}]
    BY Zenon, CommandAssumption DEF CommandInit
<1>2. JournalTyped
    BY Zenon, <1>1 DEF CommandInit, JournalTyped, States, Idle, Places
<1>3. ViewCurrent /\ EffectsMatch /\ TaskFacts /\ Apart
    BY Zenon
    DEF CommandInit, ViewCurrent, EffectsMatch, RowFact, TaskFacts, TaskFact, Apart, Working,
        Idle, Settled
<1> QED BY Zenon, <1>2, <1>3 DEF JournalInv

(***************************************************************************)
(* The journal's inductive invariant: in every reachable state a claimed   *)
(* row has one task, which knows whether the command took effect, and a    *)
(* settled row tells the truth about it.                                   *)
(***************************************************************************)
THEOREM JournalInvariant == CommandSpec => []JournalInv
<1>1. CommandInit => JournalInv
    BY Zenon, StartInv
<1>2. JournalInv /\ [CommandNext]_commandVars => JournalInv'
    BY Zenon, StepInv
<1> QED BY <1>1, <1>2, PTL DEF CommandSpec

-----------------------------------------------------------------------------
(* The refinement *)

Retained == {o \in Ops : row[o] # "absent"}


VerdictOf == [o \in Ops |-> Verdict(o)]

\* Under the mapping a row that moves is retained, performed or reported, or nothing is seen.
LEMMA MoveRefines ==
    ASSUME JournalTyped, JournalTyped', EffectsMatch', NEW o \in Ops, RowMoves(o)
    PROVE  Once!OnceNext \/ UNCHANGED <<Retained, effect, VerdictOf>>
<1>1. /\ \A p \in Ops \ {o} : row'[p] = row[p] /\ effect'[p] = effect[p]
      /\ row \in [Ops -> States] /\ row' \in [Ops -> States]
      /\ effect \in [Ops -> {0, 1}] /\ effect' \in [Ops -> {0, 1}]
    BY Zenon DEF RowMoves, RowsFrame, JournalTyped
<1>2. effect' = [effect EXCEPT ![o] = effect'[o]]
    BY Zenon, <1>1
<1>3. \A p \in Ops \ {o} : Verdict(p)' = Verdict(p)
    BY Zenon, <1>1 DEF Verdict
<1>4. VerdictOf' = [VerdictOf EXCEPT ![o] = Verdict(o)'] /\ VerdictOf[o] = Verdict(o)
    BY Zenon, <1>3 DEF VerdictOf
<1>5. CASE row[o] = "absent" /\ row'[o] = "queued" /\ effect'[o] = effect[o]
  <2>1. Verdict(o)' = Verdict(o)
    BY Zenon, <1>5 DEF Verdict, Final, Settled
  <2>2. VerdictOf' = VerdictOf
    BY Zenon, <1>3, <2>1 DEF VerdictOf
  <2>3. effect' = effect
    BY <1>1, <1>2, <1>5
  <2>4. o \notin Retained /\ Retained' = Retained \cup {o}
    BY Zenon, <1>1, <1>5 DEF Retained
  <2> QED BY Zenon, <2>2, <2>3, <2>4 DEF Once!OnceNext, Once!Retain, Retained, VerdictOf
<1>6. CASE \/ row'[o] = row[o]
           \/ row[o] = "queued" /\ row'[o] = "dispatching"
  <2>1. Verdict(o)' = Verdict(o)
    BY Zenon, <1>6 DEF Verdict, Final, Settled
  <2>2. VerdictOf' = VerdictOf
    BY Zenon, <1>3, <2>1 DEF VerdictOf
  <2>3. Retained' = Retained
    BY Zenon, <1>1, <1>6 DEF Retained
  <2>4. CASE effect'[o] = effect[o]
    <3>1. effect' = effect
      BY Zenon, <1>1, <1>2, <2>4
    <3> QED BY Zenon, <2>2, <2>3, <3>1
  <2>5. CASE row[o] = "dispatching" /\ effect[o] = 0 /\ effect'[o] = 1
    <3>1. o \in Retained /\ VerdictOf[o] = "none"
      BY Zenon, <1>4, <2>5 DEF Retained, Verdict, Final, Settled
    <3>2. effect' = [effect EXCEPT ![o] = 1]
      BY Zenon, <1>2, <2>5
    <3> QED BY Zenon, <2>2, <2>3, <2>5, <3>1, <3>2 DEF Once!OnceNext, Once!Act, Retained, VerdictOf
  <2>6. effect'[o] = effect[o] \/ (row[o] = "dispatching" /\ effect[o] = 0 /\ effect'[o] = 1)
    BY Zenon, <1>6 DEF RowMoves, Final, Settled
  <2> QED BY Zenon, <2>4, <2>5, <2>6
<1>7. CASE row[o] = "dispatching" /\ row'[o] \in Final /\ effect'[o] \in {effect[o], 1}
  <2>1. /\ Verdict(o)' \in {"done", "refused", "unconfirmed"}
        /\ Verdict(o)' = "done" => row'[o] \in Settled \ {"refused"}
        /\ Verdict(o)' = "refused" => row'[o] = "refused"
    BY Zenon, <1>7 DEF Verdict, Final, Settled
  <2>2. RowFact(o)'
    BY Zenon DEF EffectsMatch
  <2>3. /\ Verdict(o)' = "done" => effect'[o] = 1
        /\ Verdict(o)' = "refused" => effect'[o] = 0
    BY Zenon, <2>1, <2>2 DEF RowFact
  <2>4. o \in Retained /\ VerdictOf[o] = "none"
    BY Zenon, <1>4, <1>7 DEF Retained, Verdict, Final, Settled
  <2>5. Retained' = Retained
    BY Zenon, <1>1, <1>7 DEF Retained, Final, Settled
  <2>6. PICK v \in {"done", "refused", "unconfirmed"} : v = Verdict(o)'
    BY Zenon, <2>1
  <2>7. Once!Report(o, v)
    BY Zenon, <1>2, <1>4, <1>7, <2>3, <2>4, <2>5, <2>6 DEF Once!Report, Retained, VerdictOf
  <2> QED BY Zenon, <2>6, <2>7 DEF Once!OnceNext, Once!Verdicts
<1> QED BY Zenon, <1>5, <1>6, <1>7 DEF RowMoves

\* Recovery reports every lost claim as unconfirmed and nothing else.
LEMMA RecoverRefines ==
    ASSUME JournalTyped, recover_embedded_command_claims
    PROVE  Once!OnceNext
<1> DEFINE lost == {o \in Ops : row[o] = "dispatching"}
<1>1. /\ row' = [o \in Ops |-> IF row[o] = "dispatching" THEN "unconfirmed" ELSE row[o]]
      /\ effect' = effect
    BY Zenon DEF recover_embedded_command_claims
<1>2. Retained' = Retained
    BY Zenon, <1>1 DEF Retained
<1>3. \A o \in Ops : Verdict(o)' = IF o \in lost THEN "unconfirmed" ELSE Verdict(o)
    BY Zenon, <1>1 DEF Verdict, Final, Settled
<1>4. VerdictOf' = [o \in Ops |-> IF o \in lost THEN "unconfirmed" ELSE VerdictOf[o]]
    BY Zenon, <1>3 DEF VerdictOf
<1>5. lost \subseteq {o \in Retained : VerdictOf[o] = "none"}
    BY Zenon DEF Retained, VerdictOf, Verdict, Final, Settled
<1>6. Once!Lose(lost)
    BY Zenon, <1>1, <1>2, <1>4, <1>5 DEF Once!Lose, Retained, VerdictOf
<1> QED BY Zenon, <1>6 DEF Once!OnceNext

(***************************************************************************)
(* The embedded command journal implements CommandOnce, for any number of  *)
(* commands, host tasks, resent submissions, process losses and unknown    *)
(* COMMITs: a command takes effect at most once, and the verdict its row   *)
(* gives is given once and is true.                                        *)
(***************************************************************************)
THEOREM JournalImplementsOnce == CommandSpec => CommandsHappenOnce
<1>1. CommandInit => Once!OnceInit
  <2> SUFFICES ASSUME CommandInit PROVE Once!OnceInit
    BY Zenon
  <2>1. row = [o \in Ops |-> "absent"] /\ effect = [o \in Ops |-> 0]
    BY Zenon DEF CommandInit
  <2>2. \A o \in Ops : Verdict(o) = "none"
    BY Zenon, <2>1 DEF Verdict, Final, Settled
  <2> QED BY Zenon, <2>1, <2>2 DEF Once!OnceInit
<1>2. JournalInv /\ [CommandNext]_commandVars => [Once!OnceNext]_Once!once
  <2> SUFFICES ASSUME JournalInv, [CommandNext]_commandVars
               PROVE  Once!OnceNext \/ UNCHANGED <<Retained, effect, VerdictOf>>
    BY Zenon DEF Once!once, Retained, VerdictOf
  <2>1. JournalTyped /\ JournalTyped' /\ EffectsMatch' /\ (Moves \/ recover_embedded_command_claims)
    BY Zenon, StepInv DEF JournalInv
  <2>2. ASSUME NEW o \in Ops, RowMoves(o)
        PROVE  Once!OnceNext \/ UNCHANGED <<Retained, effect, VerdictOf>>
    BY Zenon, <2>1, <2>2, MoveRefines
  <2>3. CASE UNCHANGED <<row, effect>>
    BY <2>3 DEF Retained, VerdictOf, Verdict
  <2>4. CASE recover_embedded_command_claims
    BY Zenon, <2>1, <2>4, RecoverRefines
  <2> QED BY Zenon, <2>1, <2>2, <2>3, <2>4 DEF Moves
<1> QED BY <1>1, <1>2, JournalInvariant, PTL DEF CommandSpec, CommandsHappenOnce, Once!OnceSpec

-----------------------------------------------------------------------------
(* The browser's evidence *)

\* A row goes one way.
Onward(o) ==
    \/ row'[o] = row[o]
    \/ row[o] = "absent" /\ row'[o] = "queued"
    \/ row[o] = "queued" /\ row'[o] = "dispatching"
    \/ row[o] = "dispatching" /\ row'[o] \in Final

LEMMA RowsGoOn ==
    ASSUME JournalInv, [CommandNext]_commandVars
    PROVE  \A o \in Ops : Onward(o)
<1>1. Moves \/ recover_embedded_command_claims
    BY Zenon, StepInv
<1>2. ASSUME NEW o \in Ops, RowMoves(o) PROVE \A p \in Ops : Onward(p)
    BY Zenon, <1>2 DEF RowMoves, RowsFrame, Onward
<1>3. CASE recover_embedded_command_claims
    BY Zenon, <1>3 DEF recover_embedded_command_claims, Onward, Final
<1>4. CASE UNCHANGED <<row, effect>>
    BY Zenon, <1>4 DEF Onward
<1> QED BY Zenon, <1>1, <1>2, <1>3, <1>4 DEF Moves

\* A settled row reports success in the way of its kind.
RowKinds == \A o \in Ops : row[o] \in Settled => row[o] \in {"refused", Success(kind[o])}

\* A task publishes the state its row has for good.
TaskKind(t) ==
    LET o == task[t].op IN
    /\ task[t].at = "wake" => kind[o] = "input"
    /\ task[t].at = "settle" /\ task[t].outcome = "control_requested" => kind[o] = "control"
    /\ task[t].at = "publish" => row[o] = task[t].outcome /\ task[t].outcome \in Final

TaskKinds == \A t \in Tasks : TaskKind(t)

LEMMA GoesOnKind ==
    ASSUME JournalInv, TaskKinds, UNCHANGED kind, \A o \in Ops : Onward(o),
           NEW t \in Tasks, NEW at, NEW p, NEW x, Goto(t, at, p, x),
           at = "wake" => kind[p] = "input",
           at = "settle" /\ x = "control_requested" => kind[p] = "control",
           at = "publish" => row'[p] = x /\ x \in Final
    PROVE  TaskKinds'
<1>1. /\ \A u \in Tasks \ {t} : task'[u] = task[u]
      /\ task'[t] = [at |-> at, op |-> p, outcome |-> x]
    BY Zenon DEF Goto, JournalInv, JournalTyped
<1>2. TaskKind(t)'
  <2>1. task'[t].at = at /\ task'[t].op = p /\ task'[t].outcome = x
    BY <1>1
  <2> QED BY Zenon, <2>1 DEF TaskKind
<1>3. ASSUME NEW u \in Tasks \ {t} PROVE TaskKind(u)'
  <2>1. task'[u] = task[u] /\ TaskKind(u)
    BY Zenon, <1>1 DEF TaskKinds
  <2>2. task[u].at = "publish" => task[u].op \in Ops
    BY Zenon DEF JournalInv, TaskFacts, TaskFact
  <2>3. task[u].at = "publish" => row'[task[u].op] = row[task[u].op]
    BY Zenon, <2>1, <2>2 DEF Onward, TaskKind, Final, Settled
  <2> QED BY Zenon, <2>1, <2>3 DEF TaskKind
<1> QED BY Zenon, <1>2, <1>3 DEF TaskKinds

\* A transaction writes one row or none, and a COMMIT that succeeds writes it.
LEMMA WritesRow ==
    ASSUME JournalTyped, NEW o \in Ops, NEW state, NEW times, NEW wake,
           Commit(o, state, times, wake) \/ complete_transaction(o, state, times, wake)
    PROVE  /\ \A p \in Ops \ {o} : row'[p] = row[p]
           /\ row'[o] \in {row[o], state}
           /\ Commit(o, state, times, wake) => row'[o] = state
           /\ wakeError \subseteq wakeError'
<1>1. CASE Write(o, state, times, wake)
  <2>1. row' = [row EXCEPT ![o] = state] /\ row \in [Ops -> States]
    BY Zenon, <1>1 DEF Write, JournalTyped
  <2>2. wakeError \subseteq wakeError'
    BY Zenon, <1>1 DEF Write
  <2> QED BY Zenon, <2>1, <2>2
<1>2. CASE UNCHANGED <<row, effect, wakeError>> /\ ~Write(o, state, times, wake)
    BY Zenon, <1>2 DEF Commit
<1> QED BY Zenon, <1>1, <1>2 DEF Commit, complete_transaction

\* Kinds are kept by a transaction that reports success in the way of the kind.
LEMMA CommitKind ==
    ASSUME JournalInv, RowKinds, UNCHANGED kind, NEW o \in Ops, NEW state, NEW times, NEW wake,
           Commit(o, state, times, wake) \/ complete_transaction(o, state, times, wake),
           state \in Settled => state \in {"refused", Success(kind[o])}
    PROVE  RowKinds' /\ wakeError \subseteq wakeError'
<1>1. /\ \A p \in Ops \ {o} : row'[p] = row[p]
      /\ row'[o] = row[o] \/ row'[o] = state
      /\ wakeError \subseteq wakeError'
    BY Zenon, WritesRow DEF JournalInv
<1>2. ASSUME NEW p \in Ops, row'[p] \in Settled PROVE row'[p] \in {"refused", Success(kind[p])}
    BY Zenon, <1>1, <1>2 DEF RowKinds
<1>3. ASSUME NEW p \in Ops PROVE Success(kind[p])' = Success(kind[p])
    BY Zenon DEF Success
<1> QED BY Zenon, <1>1, <1>2, <1>3 DEF RowKinds

LEMMA QuietKind ==
    ASSUME RowKinds, UNCHANGED <<kind, row, wakeError>>
    PROVE  RowKinds' /\ wakeError \subseteq wakeError'
BY Zenon DEF RowKinds, Success

\* Every host action keeps kinds.
LEMMA HostKinds ==
    ASSUME JournalInv, RowKinds, TaskKinds, NEW t \in Tasks, HostStep(t),
           \A o \in Ops : Onward(o)
    PROVE  RowKinds' /\ TaskKinds' /\ wakeError \subseteq wakeError'
<1> DEFINE Goal == RowKinds' /\ TaskKinds' /\ wakeError \subseteq wakeError'
           o == task[t].op
<1>1. JournalTyped /\ TaskKind(t) /\ TaskFact(t)
    BY Zenon DEF JournalInv, TaskKinds, TaskFacts
<1>2. UNCHANGED kind
    BY Zenon DEF HostStep, queued_embedded_commands, claim_embedded_command, Perform, Wake,
                 Control, settle_embedded_command, SendReceipt
<1>3. \A at, p, x : Goto(t, at, p, x) /\ at \in {"idle", "claim", "run"} => TaskKinds'
    BY Zenon, <1>2, GoesOnKind
<1>4. UNCHANGED journal => RowKinds' /\ wakeError \subseteq wakeError'
    BY Zenon, <1>2, QuietKind DEF journal
<1>5. \A p \in Ops : queued_embedded_commands(t, p) => Goal
    BY Zenon, <1>3, <1>4 DEF queued_embedded_commands
<1>6. CASE claim_embedded_command(t)
  <2>1. o \in Ops /\ "dispatching" \notin Settled
    BY Zenon, <1>1, <1>6 DEF claim_embedded_command, TaskFact, Settled
  <2>2. Commit(o, "dispatching", 0, FALSE) \/ complete_transaction(o, "dispatching", 0, FALSE)
          => RowKinds' /\ wakeError \subseteq wakeError'
    BY Zenon, <1>2, <2>1, CommitKind
  <2> QED BY Zenon, <1>3, <1>4, <1>6, <2>2 DEF claim_embedded_command
<1>7. CASE Perform(t)
  <2> DEFINE done == Success(kind[o])
  <2>1. o \in Ops
    BY Zenon, <1>1, <1>7 DEF Perform, TaskFact
  <2>2. done \in Final /\ "refused" \in Final /\ done # "control_requested"
    BY Zenon, <1>7 DEF Perform, Success, Final, Settled
  <2>3. \A times :
          Commit(o, done, times, FALSE) \/ complete_transaction(o, done, times, FALSE)
            => RowKinds' /\ wakeError \subseteq wakeError'
    BY Zenon, <1>2, <2>1, CommitKind
  <2>4. Commit(o, "refused", 0, FALSE) => RowKinds' /\ wakeError \subseteq wakeError'
    BY Zenon, <1>2, <2>1, CommitKind
  <2>5. Goto(t, "settle", o, "refused") => TaskKinds'
    BY Zenon, <1>2, GoesOnKind
  <2>6. \A x, times : Commit(o, x, times, FALSE) => row'[o] = x
    BY Zenon, <1>1, <2>1, WritesRow
  <2>7. \A x \in Final : row'[o] = x /\ Goto(t, "publish", o, x) => TaskKinds'
    BY Zenon, <1>2, GoesOnKind
  <2>8. kind[o] = "input" /\ Goto(t, "wake", o, done) => TaskKinds'
    BY Zenon, <1>2, GoesOnKind
  <2> HIDE DEF done
  <2>9. \/ /\ Commit(o, done, 1, FALSE)
           /\ (kind[o] = "input" /\ Goto(t, "wake", o, done)) \/ Goto(t, "publish", o, done)
        \/ complete_transaction(o, done, 1, FALSE) /\ Goto(t, "settle", o, "refused")
        \/ Commit(o, "refused", 0, FALSE) /\ Goto(t, "publish", o, "refused")
        \/ Goto(t, "settle", o, "refused") /\ UNCHANGED journal
    BY Zenon, <1>7 DEF Perform, done
  <2> QED BY Zenon, <1>4, <2>2, <2>3, <2>4, <2>5, <2>6, <2>7, <2>8, <2>9
<1>8. CASE Wake(t)
  <2>1. o \in Ops /\ kind[o] = "input" /\ row[o] = "input_admitted"
    BY Zenon, <1>1, <1>8 DEF Wake, TaskFact, TaskKind
  <2>2. "input_admitted" = Success(kind[o]) /\ "input_admitted" \in Final
    BY Zenon, <2>1 DEF Success, Final, Settled
  <2>3. Commit(o, "input_admitted", 0, TRUE) \/ complete_transaction(o, "input_admitted", 0, TRUE)
          => RowKinds' /\ wakeError \subseteq wakeError'
    BY Zenon, <1>2, <2>1, <2>2, CommitKind
  <2>4. row'[o] = "input_admitted"
    BY Zenon, <2>1 DEF Onward
  <2>5. Goto(t, "publish", o, "input_admitted") => TaskKinds'
    BY Zenon, <1>2, <2>2, <2>4, GoesOnKind
  <2> QED BY Zenon, <1>3, <1>4, <1>8, <2>3, <2>5 DEF Wake
<1>9. CASE Control(t)
  <2>1. PICK x \in {"control_requested", "refused", "unconfirmed"} : Goto(t, "settle", o, x)
    BY Zenon, <1>9 DEF Control
  <2>2. kind[o] = "control" /\ UNCHANGED <<kind, row, wakeError>>
    BY Zenon, <1>9 DEF Control
  <2> QED BY Zenon, <2>1, <2>2, QuietKind, GoesOnKind
<1>10. CASE settle_embedded_command(t)
  <2> DEFINE x == task[t].outcome
  <2>1. /\ o \in Ops /\ x \in Final
        /\ x \in Settled => x \in {"refused", Success(kind[o])}
    BY Zenon, <1>1, <1>10 DEF settle_embedded_command, TaskFact, TaskKind, Success, Final, Settled
  <2> HIDE DEF x
  <2>2. Commit(o, x, 0, FALSE) \/ complete_transaction(o, x, 0, FALSE)
          => RowKinds' /\ wakeError \subseteq wakeError'
    BY Zenon, <1>2, <2>1, CommitKind
  <2>3. Commit(o, x, 0, FALSE) => row'[o] = x
    BY Zenon, <1>1, <2>1, WritesRow
  <2>4. row'[o] = x /\ Goto(t, "publish", o, x) => TaskKinds'
    BY Zenon, <1>2, <2>1, GoesOnKind
  <2> QED BY Zenon, <1>3, <1>4, <1>10, <2>2, <2>3, <2>4 DEF settle_embedded_command, x
<1>11. CASE SendReceipt(t)
    BY Zenon, <1>3, <1>4, <1>11 DEF SendReceipt
<1> QED BY Zenon, <1>5, <1>6, <1>7, <1>8, <1>9, <1>10, <1>11 DEF HostStep

\* A host action writes no row that is not journalled.
LEMMA HostWrites ==
    ASSUME JournalInv, NEW t \in Tasks, HostStep(t), NEW p \in Ops, row[p] = "absent"
    PROVE  row'[p] = "absent"
<1> DEFINE o == task[t].op
<1>1. JournalTyped /\ TaskFact(t) /\ (~fenced => seen = row)
    BY Zenon DEF JournalInv, TaskFacts, ViewCurrent
<1>2. \A state, times, wake :
        /\ Commit(o, state, times, wake) \/ complete_transaction(o, state, times, wake)
        /\ o \in Ops /\ row[o] # "absent"
        => row'[p] = "absent"
    BY Zenon, <1>1, WritesRow
<1>3. UNCHANGED journal => row'[p] = "absent"
    BY Zenon DEF journal
<1>4. ASSUME NEW q \in Ops, queued_embedded_commands(t, q) PROVE row'[p] = "absent"
    BY Zenon, <1>3, <1>4 DEF queued_embedded_commands
<1>5. CASE claim_embedded_command(t)
  <2>1. o \in Ops
    BY Zenon, <1>1, <1>5 DEF claim_embedded_command, TaskFact
  <2>2. UNCHANGED journal \/ (seen[o] = "queued" /\
          (Commit(o, "dispatching", 0, FALSE) \/ complete_transaction(o, "dispatching", 0, FALSE)))
    BY Zenon, <1>5 DEF claim_embedded_command
  <2>3. CASE ~fenced /\ seen[o] = "queued"
    BY Zenon, <1>1, <1>2, <1>3, <2>1, <2>2, <2>3
  <2>4. CASE fenced
    BY Zenon, <1>3, <2>2, <2>4 DEF Commit, complete_transaction
  <2> QED BY Zenon, <1>3, <2>2, <2>3, <2>4
<1>6. CASE Perform(t)
  <2>1. o \in Ops /\ row[o] # "absent"
    BY Zenon, <1>1, <1>6 DEF Perform, TaskFact
  <2> QED BY Zenon, <1>2, <1>3, <1>6, <2>1 DEF Perform
<1>7. CASE Wake(t)
  <2>1. o \in Ops /\ row[o] # "absent"
    BY Zenon, <1>1, <1>7 DEF Wake, TaskFact
  <2> QED BY Zenon, <1>2, <1>3, <1>7, <2>1 DEF Wake
<1>8. CASE Control(t)
    BY Zenon, <1>8 DEF Control
<1>9. CASE settle_embedded_command(t)
  <2>1. o \in Ops /\ (~fenced => row[o] # "absent")
    BY Zenon, <1>1, <1>9 DEF settle_embedded_command, TaskFact
  <2>2. CASE fenced
    BY Zenon, <1>3, <1>9, <2>2 DEF settle_embedded_command, Commit, complete_transaction
  <2> QED BY Zenon, <1>2, <1>3, <1>9, <2>1, <2>2 DEF settle_embedded_command
<1>10. CASE SendReceipt(t)
    BY Zenon, <1>3, <1>10 DEF SendReceipt
<1> QED BY Zenon, <1>4, <1>5, <1>6, <1>7, <1>8, <1>9, <1>10 DEF HostStep

\* A report about o is true: it was true when it was made, and rows go one way.
Tells(o, state) ==
    /\ row[o] # "absent"
    /\ state = "dispatching" => row[o] # "queued"
    /\ state \in Final => row[o] = state

Fields == {"op", "authority", "state", "wake", "issue", "age"}

\* A record of the ledger is honest.
Honest(r) ==
    /\ DOMAIN r = Fields /\ r.op \in Ops
    /\ r.issue = FALSE
    /\ r.wake => r.op \in wakeError
    /\ r.authority \in {"local", "status", "receipt"}
    /\ r.authority # "local" => Tells(r.op, r.state)

LedgerHonest == /\ \A r \in mem : Honest(r)
                /\ \A r \in disk : Honest(r)

Answers == [state : States \cup {"none"}, wake : BOOLEAN]

\* What is on its way to the browser is true.
ReadHonest(o) ==
    reads[o] = NoRead \/ reads[o].state = "absent"
      \/ (reads[o].state # "none" /\ Tells(o, reads[o].state) /\ (reads[o].wake => o \in wakeError))

ReceiptHonest(o) ==
    receipts[o] = NoReceipt
      \/ /\ receipts[o].state \in Final /\ row[o] = receipts[o].state
         /\ receipts[o].wake => o \in wakeError

ReportsHonest ==
    /\ reads \in [Ops -> Answers] /\ receipts \in [Ops -> Answers]
    /\ net \subseteq Ops
    /\ \A o \in Ops : ReadHonest(o) /\ ReceiptHonest(o)

\* A command the host may know of is in session storage until it is settled.
Kept == \A o \in Ops :
           (o \in net \/ row[o] # "absent") /\ o \notin OpsOf(disk) => row[o] \in Settled

\* The inductive invariant of the evidence.
EvidenceInv == RowKinds /\ TaskKinds /\ LedgerHonest /\ ReportsHonest /\ Kept

\* What was true stays true.
LEMMA TruthStays ==
    ASSUME \A o \in Ops : Onward(o), wakeError \subseteq wakeError'
    PROVE  /\ \A o \in Ops : \A state : Tells(o, state) => Tells(o, state)'
           /\ \A r : Honest(r) => Honest(r)'
           /\ \A o \in Ops : UNCHANGED reads /\ ReadHonest(o) => ReadHonest(o)'
           /\ \A o \in Ops : UNCHANGED receipts /\ ReceiptHonest(o) => ReceiptHonest(o)'
<1>1. ASSUME NEW o \in Ops, NEW state, Tells(o, state) PROVE Tells(o, state)'
  <2>1. row[o] \in Final => row'[o] = row[o]
    BY Zenon DEF Onward, Final, Settled
  <2>2. row'[o] # "absent" /\ (row[o] # "queued" => row'[o] # "queued")
    BY Zenon, <1>1 DEF Onward, Tells, Final, Settled
  <2> QED BY Zenon, <1>1, <2>1, <2>2 DEF Tells
<1>2. ASSUME NEW r, Honest(r) PROVE Honest(r)'
    BY Zenon, <1>1, <1>2 DEF Honest
<1>3. ASSUME NEW o \in Ops, UNCHANGED reads, ReadHonest(o) PROVE ReadHonest(o)'
    BY Zenon, <1>1, <1>3 DEF ReadHonest
<1>4. ASSUME NEW o \in Ops, UNCHANGED receipts, ReceiptHonest(o) PROVE ReceiptHonest(o)'
  <2>1. row[o] \in Final => row'[o] = row[o]
    BY Zenon DEF Onward, Final, Settled
  <2> QED BY Zenon, <1>4, <2>1 DEF ReceiptHonest
<1> QED BY Zenon, <1>1, <1>2, <1>3, <1>4

\* A true report merged into an honest record leaves it honest.
LEMMA MergeHonest ==
    ASSUME RowKinds, NEW r, Honest(r), NEW state, NEW wake, NEW authority \in {"status", "receipt"},
           Tells(r.op, state), wake => r.op \in wakeError
    PROVE  Honest(mergeEvidence(r, state, authority, wake))
<1> DEFINE m == mergeEvidence(r, state, authority, wake)
           n == [r EXCEPT !.state = state, !.authority = authority, !.wake = @ \/ wake]
<1>1. state \notin Settled \ {"refused", Success(kind[r.op])}
    BY Zenon DEF Tells, RowKinds, Honest, Final
<1>2. isSettledCommand(r) /\ ~Stale(r, state) => r.state = state
    BY Zenon DEF isSettledCommand, Stale, Honest, Tells, Final
<1>3. m \in {r, n}
    BY Zenon, <1>1, <1>2 DEF mergeEvidence
<1>4. /\ DOMAIN n = Fields /\ n.op = r.op /\ n.issue = r.issue
      /\ n.authority = authority /\ n.state = state /\ n.wake = (r.wake \/ wake)
    BY SMT DEF Honest, Fields
<1> HIDE DEF n, m
<1>5. Honest(n)
  <2>1. n.wake => n.op \in wakeError
    BY Zenon, <1>4 DEF Honest
  <2>2. n.op \in Ops /\ n.issue = FALSE /\ Tells(n.op, n.state)
    BY <1>4 DEF Honest
  <2> QED BY Zenon, <1>4, <2>1, <2>2 DEF Honest
<1> QED BY Zenon, <1>3, <1>5 DEF m

\* Compaction discards only settled records.
LEMMA CompactDrops ==
    ASSUME NEW R
    PROVE  /\ compact(R) \subseteq R
           /\ \A r \in R : r \in compact(R) \/ isSettledCommand(r)
BY Zenon DEF compact

\* Writing honest records to session storage forgets only settled commands.
LEMMA StoreKeeps ==
    ASSUME NEW R, \A r \in R : Honest(r), LedgerHonest
    PROVE  /\ \A r \in writePendingCommands(R) : Honest(r)
           /\ \A o \in OpsOf(disk) \cup OpsOf(R) :
                 o \in OpsOf(writePendingCommands(R)) \/ row[o] \in Settled
<1> DEFINE A == {r \in disk : r.op \notin OpsOf(R)} \cup R
<1>1. writePendingCommands(R) = compact(A)
    BY Zenon DEF writePendingCommands
<1>2. \A r \in A : Honest(r)
    BY Zenon DEF LedgerHonest
<1>3. ASSUME NEW o \in OpsOf(disk) \cup OpsOf(R) PROVE \E r \in A : r.op = o
  <2>1. CASE o \in OpsOf(R)
    BY Zenon, <2>1 DEF OpsOf
  <2>2. CASE o \notin OpsOf(R)
    <3>1. PICK r \in disk : r.op = o
      BY Zenon, <2>2, <1>3 DEF OpsOf
    <3>2. r.op \notin OpsOf(R)
      BY Zenon, <3>1, <2>2
    <3> QED BY Zenon, <3>1, <3>2
  <2> QED BY Zenon, <2>1, <2>2
<1> HIDE DEF A
<1>4. ASSUME NEW o \in OpsOf(disk) \cup OpsOf(R) PROVE o \in OpsOf(compact(A)) \/ row[o] \in Settled
  <2>1. PICK r \in A : r.op = o
    BY Zenon, <1>3
  <2>2. r \in compact(A) \/ isSettledCommand(r)
    BY Zenon, CompactDrops
  <2>3. CASE r \in compact(A)
    BY Zenon, <2>1, <2>3 DEF OpsOf
  <2>4. CASE isSettledCommand(r)
    <3>1. Tells(r.op, r.state) /\ r.state \in Settled
      BY Zenon, <1>2, <2>4 DEF Honest, isSettledCommand
    <3>2. row[r.op] = r.state
      BY Zenon, <3>1 DEF Tells, Final
    <3> QED BY Zenon, <2>1, <3>1, <3>2
  <2> QED BY Zenon, <2>2, <2>3, <2>4
<1>5. \A r \in compact(A) : Honest(r)
    BY Zenon, <1>2, CompactDrops
<1> QED BY Zenon, <1>1, <1>4, <1>5

\* A ledger in which a true report is observed stays honest and keeps its commands.
LEMMA ObserveHonest ==
    ASSUME RowKinds, NEW R, \A r \in R : Honest(r), NEW o \in Ops, NEW state, NEW wake,
           NEW authority \in {"status", "receipt"}, Tells(o, state), wake => o \in wakeError
    PROVE  \A r \in Observe(R, o, state, authority, wake) : Honest(r)
<1>1. ASSUME NEW r \in R
      PROVE  Honest(IF r.op = o THEN mergeEvidence(r, state, authority, wake) ELSE r)
  <2>1. CASE r.op = o
    <3>1. Tells(r.op, state) /\ (wake => r.op \in wakeError)
      BY Zenon, <2>1
    <3>2. Honest(mergeEvidence(r, state, authority, wake))
      BY Zenon, <3>1, MergeHonest
    <3> QED BY Zenon, <2>1, <3>2
  <2>2. CASE r.op # o
    BY Zenon, <2>2
  <2> QED BY Zenon, <2>1, <2>2
<1> QED BY Zenon, <1>1 DEF Observe

\* A new record is honest.
LEMMA RetainHonest ==
    ASSUME NEW R, \A r \in R : Honest(r), NEW o \in Ops
    PROVE  /\ \A r \in retainCommand(R, o) : Honest(r)
           /\ o \in OpsOf(retainCommand(R, o))
<1> DEFINE age == 1 + Highest({0} \cup {r.age : r \in R})
           n == [op |-> o, authority |-> "local", state |-> "queued", wake |-> FALSE,
                 issue |-> FALSE, age |-> age]
<1>1. retainCommand(R, o) = R \cup {n}
    BY Zenon DEF retainCommand
<1> HIDE DEF age
<1>2. /\ DOMAIN n = Fields /\ n.op = o /\ n.issue = FALSE /\ n.wake = FALSE
      /\ n.authority = "local"
    BY SMT DEF Fields
<1> HIDE DEF n
<1>3. Honest(n)
    BY <1>2 DEF Honest
<1> QED BY Zenon, <1>1, <1>2, <1>3 DEF OpsOf

\* A write of the ledger, accepted or refused, keeps what the evidence promises.
LEMMA UpdateKeeps ==
    ASSUME NEW R, \A r \in R : Honest(r), LedgerHonest, Kept,
           \/ disk' = writePendingCommands(R) /\ mem' = disk'
           \/ mem' = R /\ UNCHANGED disk,
           UNCHANGED <<row, wakeError>>,
           \A o \in net' : o \in net \/ (o \in OpsOf(R) /\ disk' = writePendingCommands(R))
    PROVE  LedgerHonest' /\ Kept'
<1>1. \A r : Honest(r) => Honest(r)'
    BY Zenon DEF Honest, Tells
<1>2. CASE disk' = writePendingCommands(R) /\ mem' = disk'
  <2>1. LedgerHonest'
    BY Zenon, <1>1, <1>2, StoreKeeps DEF LedgerHonest
  <2>2. ASSUME NEW o \in Ops, o \in net' \/ row'[o] # "absent", o \notin OpsOf(disk')
        PROVE  row'[o] \in Settled
    <3>1. o \notin OpsOf(disk) \cup OpsOf(R) \/ row[o] \in Settled
      BY Zenon, <1>2, <2>2, StoreKeeps
    <3>2. CASE o \notin OpsOf(disk) \cup OpsOf(R)
      BY Zenon, <2>2, <3>2 DEF Kept
    <3> QED BY Zenon, <3>1, <3>2
  <2>3. Kept'
    BY Zenon, <2>2 DEF Kept, OpsOf
  <2> QED BY Zenon, <2>1, <2>3
<1>3. CASE mem' = R /\ UNCHANGED disk /\ disk' # writePendingCommands(R)
    BY Zenon, <1>1, <1>3 DEF LedgerHonest, Kept, OpsOf
<1>4. CASE mem' = R /\ UNCHANGED disk /\ disk' = writePendingCommands(R)
  <2>1. LedgerHonest'
    BY Zenon, <1>1, <1>4 DEF LedgerHonest
  <2>2. \A o \in OpsOf(R) : o \in OpsOf(disk) \/ row[o] \in Settled
    BY Zenon, <1>4, StoreKeeps
  <2>3. Kept'
    BY Zenon, <1>4, <2>2 DEF Kept, OpsOf
  <2> QED BY Zenon, <2>1, <2>3
<1> QED BY Zenon, <1>2, <1>3, <1>4

LEMMA EvidenceStart ==
    ASSUME CommandInit PROVE EvidenceInv
<1>1. NoRead \in Answers /\ NoReceipt \in Answers
    BY Zenon DEF NoRead, NoReceipt, Answers, States
<1>2. RowKinds /\ TaskKinds /\ LedgerHonest /\ Kept
    BY Zenon DEF CommandInit, RowKinds, TaskKinds, TaskKind, LedgerHonest, Kept, Settled, Idle
<1>3. ReportsHonest
    BY Zenon, <1>1 DEF CommandInit, ReportsHonest, ReadHonest, ReceiptHonest
<1> QED BY Zenon, <1>2, <1>3 DEF EvidenceInv

\* A step that leaves the ledger alone and starts no row outside it.
LEMMA LedgerStays ==
    ASSUME EvidenceInv, \A o \in Ops : Onward(o), wakeError \subseteq wakeError',
           UNCHANGED <<mem, disk>>, net' \subseteq net,
           \A o \in Ops : row[o] = "absent" => o \in net \/ row'[o] = "absent"
    PROVE  LedgerHonest' /\ Kept'
<1>1. LedgerHonest'
    BY Zenon, TruthStays DEF EvidenceInv, LedgerHonest
<1>2. ASSUME NEW o \in Ops, o \in net' \/ row'[o] # "absent", o \notin OpsOf(disk')
      PROVE  row'[o] \in Settled
  <2>1. row[o] \in Settled
    BY Zenon, <1>2 DEF EvidenceInv, Kept
  <2> QED BY Zenon, <2>1 DEF Onward, Settled
<1> QED BY Zenon, <1>1, <1>2 DEF Kept, OpsOf

\* A step that leaves rows, kinds and tasks alone keeps kinds and truths.
LEMMA KindsStay ==
    ASSUME EvidenceInv, UNCHANGED <<kind, row, effect, seen, fenced, up, task>>,
           UNCHANGED <<wakeError, receipts>>
    PROVE  /\ RowKinds' /\ TaskKinds' /\ \A o \in Ops : Onward(o)
           /\ \A o \in Ops : ReceiptHonest(o)'
<1>1. RowKinds' /\ \A o \in Ops : Onward(o)
    BY Zenon, QuietKind DEF EvidenceInv, Onward
<1>2. TaskKinds'
    BY Zenon DEF EvidenceInv, TaskKinds, TaskKind
<1>3. \A o \in Ops : ReceiptHonest(o)'
    BY Zenon, <1>1, TruthStays DEF EvidenceInv, ReportsHonest
<1> QED BY Zenon, <1>1, <1>2, <1>3

LEMMA SendEvidence ==
    ASSUME EvidenceInv, NEW o \in Ops, Submit(o) \/ retryHostCommand(o)
    PROVE  EvidenceInv'
<1>1. /\ UNCHANGED <<kind, row, effect, seen, fenced, up, task>>
      /\ UNCHANGED <<wakeError, receipts>>
    BY Zenon, BrowserFrame
<1>2. RowKinds' /\ TaskKinds' /\ \A p \in Ops : ReceiptHonest(p)'
    BY Zenon, <1>1, KindsStay
<1>3. PICK R : /\ \A r \in R : Honest(r)
               /\ o \in OpsOf(R)
               /\ disk' = writePendingCommands(R) /\ mem' = disk'
  <2>1. CASE Submit(o)
    BY Zenon, <2>1, RetainHonest DEF Submit, EvidenceInv, LedgerHonest
  <2>2. CASE retryHostCommand(o)
    BY Zenon, <2>2 DEF retryHostCommand, EvidenceInv, LedgerHonest
  <2> QED BY Zenon, <2>1, <2>2
<1>4. net' \subseteq net \cup {o} /\ UNCHANGED reads
    BY Zenon DEF Submit, retryHostCommand
<1>5. LedgerHonest' /\ Kept'
    BY Zenon, <1>1, <1>3, <1>4, UpdateKeeps DEF EvidenceInv
<1>6. ReportsHonest'
    BY Zenon, <1>1, <1>2, <1>4 DEF EvidenceInv, ReportsHonest, ReadHonest, Tells
<1> QED BY Zenon, <1>2, <1>5, <1>6 DEF EvidenceInv

LEMMA LookupEvidence ==
    ASSUME JournalInv, EvidenceInv, NEW o \in Ops, Lookup(o)
    PROVE  EvidenceInv'
<1>1. /\ UNCHANGED <<kind, row, effect, seen, fenced, up, task>>
      /\ UNCHANGED <<wakeError, receipts>>
    BY Zenon, BrowserFrame
<1>2. RowKinds' /\ TaskKinds' /\ (\A p \in Ops : ReceiptHonest(p)') /\ \A p \in Ops : Onward(p)
    BY Zenon, <1>1, KindsStay
<1>3. UNCHANGED <<mem, disk, net>>
    BY Zenon DEF Lookup
<1>4. LedgerHonest' /\ Kept'
    BY Zenon, <1>1, <1>2, <1>3, LedgerStays
<1> DEFINE a == [state |-> seen[o], wake |-> o \in wakeError]
<1>5. seen = row /\ row[o] \in States /\ reads' = [reads EXCEPT ![o] = a]
    BY Zenon DEF Lookup, JournalInv, JournalTyped, ViewCurrent
<1>6. a.state = row[o] /\ a.wake = (o \in wakeError) /\ a \in Answers
    BY <1>5 DEF Answers
<1> HIDE DEF a
<1>7. /\ reads' \in [Ops -> Answers] /\ reads'[o] = a
      /\ \A p \in Ops \ {o} : reads'[p] = reads[p]
    BY Zenon, <1>5, <1>6 DEF EvidenceInv, ReportsHonest
<1>8. ReadHonest(o)'
  <2>1. reads'[o].state = row[o] /\ (reads'[o].wake <=> o \in wakeError)
    BY Zenon, <1>6, <1>7
  <2>2. row[o] # "absent" => row[o] # "none" /\ Tells(o, row[o])
    BY Zenon, <1>5 DEF Tells, States, Final, Settled
  <2>3. Tells(o, row[o]) => Tells(o, row[o])'
    BY Zenon, <1>1 DEF Tells
  <2> QED BY Zenon, <1>1, <2>1, <2>2, <2>3 DEF ReadHonest
<1>9. ASSUME NEW p \in Ops \ {o} PROVE ReadHonest(p)'
    BY Zenon, <1>1, <1>7 DEF EvidenceInv, ReportsHonest, ReadHonest, Tells
<1>10. ReportsHonest'
    BY Zenon, <1>1, <1>2, <1>3, <1>7, <1>8, <1>9 DEF EvidenceInv, ReportsHonest
<1> QED BY Zenon, <1>2, <1>4, <1>10 DEF EvidenceInv

LEMMA ApplyEvidence ==
    ASSUME EvidenceInv, NEW o \in Ops, applyCommandStatus(o) \/ applyCommandReceipt(o)
    PROVE  EvidenceInv'
<1>1. /\ UNCHANGED <<kind, row, effect, seen, fenced, up, task>>
      /\ UNCHANGED <<wakeError, receipts>>
    BY Zenon, BrowserFrame
<1>2. RowKinds' /\ TaskKinds' /\ \A p \in Ops : ReceiptHonest(p)'
    BY Zenon, <1>1, KindsStay
<1>3. RowKinds /\ \A r \in mem : Honest(r)
    BY Zenon DEF EvidenceInv, LedgerHonest
<1>4. PICK R : (\A r \in R : Honest(r)) /\ updatePending(R)
  <2>1. CASE applyCommandStatus(o) /\ reads[o].state = "absent"
    BY Zenon, <1>3, <2>1 DEF applyCommandStatus
  <2>2. CASE applyCommandStatus(o) /\ reads[o].state # "absent"
    <3>1. Tells(o, reads[o].state) /\ (reads[o].wake => o \in wakeError)
      BY Zenon, <2>2 DEF EvidenceInv, ReportsHonest, ReadHonest, applyCommandStatus
    <3>2. \A r \in Observe(mem, o, reads[o].state, "status", reads[o].wake) : Honest(r)
      BY Zenon, <1>3, <3>1, ObserveHonest
    <3> QED BY Zenon, <2>2, <3>2 DEF applyCommandStatus
  <2>3. CASE applyCommandReceipt(o)
    <3>1. receipts[o].state \in Final /\ row[o] = receipts[o].state
      BY Zenon, <2>3 DEF EvidenceInv, ReportsHonest, ReceiptHonest, applyCommandReceipt
    <3>2. Tells(o, receipts[o].state)
      BY Zenon, <3>1 DEF Tells, Final, Settled
    <3>3. receipts[o].wake => o \in wakeError
      BY Zenon, <2>3 DEF EvidenceInv, ReportsHonest, ReceiptHonest, applyCommandReceipt
    <3>4. \A r \in Observe(mem, o, receipts[o].state, "receipt", receipts[o].wake) : Honest(r)
      BY Zenon, <1>3, <3>2, <3>3, ObserveHonest
    <3> QED BY Zenon, <2>3, <3>4 DEF applyCommandReceipt
  <2> QED BY Zenon, <2>1, <2>2, <2>3
<1>5. UNCHANGED net
    BY Zenon DEF applyCommandStatus, applyCommandReceipt
<1>6. LedgerHonest' /\ Kept'
    BY Zenon, <1>1, <1>4, <1>5, UpdateKeeps DEF EvidenceInv, updatePending
<1>7. UNCHANGED reads \/ reads' = [reads EXCEPT ![o] = NoRead]
    BY Zenon DEF applyCommandStatus, applyCommandReceipt
<1>8. reads' \in [Ops -> Answers] /\ \A p \in Ops : reads'[p] = reads[p] \/ reads'[p] = NoRead
  <2>1. NoRead \in Answers
    BY Zenon DEF NoRead, Answers
  <2> QED BY Zenon, <1>7, <2>1 DEF EvidenceInv, ReportsHonest
<1>9. ASSUME NEW p \in Ops PROVE ReadHonest(p)'
    BY Zenon, <1>1, <1>8 DEF EvidenceInv, ReportsHonest, ReadHonest, Tells
<1>10. ReportsHonest'
    BY Zenon, <1>1, <1>2, <1>5, <1>8, <1>9 DEF EvidenceInv, ReportsHonest
<1> QED BY Zenon, <1>2, <1>6, <1>10 DEF EvidenceInv

LEMMA ConnectionEvidence ==
    ASSUME EvidenceInv, Connect \/ Offline \/ Reload \/ UNCHANGED commandVars
    PROVE  EvidenceInv'
<1>1. /\ UNCHANGED <<kind, row, effect, seen, fenced, up, task>>
      /\ UNCHANGED <<wakeError, receipts>>
    BY Zenon, BrowserFrame
<1>2. RowKinds' /\ TaskKinds' /\ (\A p \in Ops : ReceiptHonest(p)') /\ \A p \in Ops : Onward(p)
    BY Zenon, <1>1, KindsStay
<1>3. /\ UNCHANGED disk /\ (UNCHANGED mem \/ mem' = disk) /\ net' \subseteq net
      /\ UNCHANGED reads \/ reads' = [p \in Ops |-> NoRead]
    BY Zenon DEF Connect, Offline, Reload, commandVars, browser
<1>4. LedgerHonest'
  <2>1. \A r : Honest(r) => Honest(r)'
    BY Zenon, <1>1, <1>2, TruthStays
  <2> QED BY Zenon, <1>3, <2>1 DEF EvidenceInv, LedgerHonest
<1>5. Kept'
    BY Zenon, <1>1, <1>3 DEF EvidenceInv, Kept, OpsOf
<1>6. reads' \in [Ops -> Answers] /\ \A p \in Ops : reads'[p] = reads[p] \/ reads'[p] = NoRead
  <2>1. NoRead \in Answers
    BY Zenon DEF NoRead, Answers
  <2> QED BY Zenon, <1>3, <2>1 DEF EvidenceInv, ReportsHonest
<1>7. ASSUME NEW p \in Ops PROVE ReadHonest(p)'
    BY Zenon, <1>1, <1>6 DEF EvidenceInv, ReportsHonest, ReadHonest, Tells
<1>8. ReportsHonest'
    BY Zenon, <1>1, <1>2, <1>3, <1>6, <1>7 DEF EvidenceInv, ReportsHonest
<1> QED BY Zenon, <1>2, <1>4, <1>5, <1>8 DEF EvidenceInv

LEMMA ReceiveEvidence ==
    ASSUME JournalInv, EvidenceInv, \A p \in Ops : Onward(p), NEW o \in Ops, Receive(o)
    PROVE  EvidenceInv'
<1>1. UNCHANGED <<kind, up, task, receipts, mem, disk, reads>> /\ o \in net /\ net' = net \ {o}
    BY Zenon DEF Receive, host
<1>2. \/ UNCHANGED journal
      \/ Commit(o, "queued", 0, FALSE) \/ complete_transaction(o, "queued", 0, FALSE)
    BY Zenon DEF Receive
<1>3. RowKinds' /\ wakeError \subseteq wakeError'
  <2>1. "queued" \notin Settled
    BY Zenon DEF Settled
  <2> QED BY Zenon, <1>1, <1>2, <2>1, CommitKind, QuietKind DEF EvidenceInv, journal
<1>4. \A p \in Ops \ {o} : row'[p] = row[p]
    BY Zenon, <1>2, WritesRow DEF JournalInv, journal
<1>5. TaskKinds'
  <2>1. ASSUME NEW t \in Tasks PROVE TaskKind(t)'
    <3>1. TaskKind(t) /\ (task[t].at = "publish" => task[t].op \in Ops)
      BY Zenon DEF EvidenceInv, TaskKinds, JournalInv, TaskFacts, TaskFact
    <3>2. task[t].at = "publish" => row'[task[t].op] = row[task[t].op]
      BY Zenon, <3>1 DEF Onward, TaskKind, Final, Settled
    <3> QED BY Zenon, <1>1, <3>1, <3>2 DEF TaskKind
  <2> QED BY Zenon, <2>1 DEF TaskKinds
<1>6. LedgerHonest' /\ Kept'
    BY Zenon, <1>1, <1>3, <1>4, LedgerStays
<1>7. ReportsHonest'
    BY Zenon, <1>1, <1>3, TruthStays DEF EvidenceInv, ReportsHonest
<1> QED BY Zenon, <1>3, <1>5, <1>6, <1>7 DEF EvidenceInv

LEMMA HostEvidence ==
    ASSUME JournalInv, EvidenceInv, \A p \in Ops : Onward(p), NEW t \in Tasks, HostStep(t)
    PROVE  EvidenceInv'
<1>1. RowKinds' /\ TaskKinds' /\ wakeError \subseteq wakeError'
    BY Zenon, HostKinds DEF EvidenceInv
<1>2. UNCHANGED <<mem, disk, net, reads>>
    BY Zenon
    DEF HostStep, queued_embedded_commands, claim_embedded_command, Perform, Wake,
        Control, settle_embedded_command, SendReceipt, browser
<1>3. LedgerHonest' /\ Kept'
    BY Zenon, <1>1, <1>2, HostWrites, LedgerStays
<1>4. ReportsHonest'
  <2>1. CASE UNCHANGED receipts
    BY Zenon, <1>1, <1>2, <2>1, TruthStays DEF EvidenceInv, ReportsHonest
  <2>2. CASE SendReceipt(t)
    <3>1. PICK o \in Ops : /\ o = task[t].op
                           /\ row[o] = task[t].outcome /\ task[t].outcome \in Final
      BY Zenon, <2>2 DEF SendReceipt, EvidenceInv, TaskKinds, TaskKind, JournalInv, TaskFacts, TaskFact
    <3> DEFINE a == [state |-> task[t].outcome, wake |-> o \in wakeError]
    <3>2. receipts' = [receipts EXCEPT ![o] = a] /\ UNCHANGED <<row, wakeError>>
      BY Zenon, <2>2, <3>1 DEF SendReceipt, journal
    <3>3. a.state = row[o] /\ a.wake = (o \in wakeError) /\ a \in Answers
      BY <3>1 DEF Answers, States
    <3> HIDE DEF a
    <3>4. /\ receipts' \in [Ops -> Answers] /\ receipts'[o] = a
          /\ \A p \in Ops \ {o} : receipts'[p] = receipts[p]
      BY Zenon, <3>1, <3>2, <3>3 DEF EvidenceInv, ReportsHonest
    <3>5. ReceiptHonest(o)'
      <4>1. receipts'[o].state = row[o] /\ (receipts'[o].wake <=> o \in wakeError) /\ row[o] \in Final
        BY Zenon, <3>1, <3>3, <3>4
      <4> QED BY Zenon, <3>2, <4>1 DEF ReceiptHonest
    <3>6. ASSUME NEW p \in Ops \ {o} PROVE ReceiptHonest(p)'
      BY Zenon, <3>2, <3>4 DEF EvidenceInv, ReportsHonest, ReceiptHonest
    <3>7. \A p \in Ops : ReadHonest(p)'
      BY Zenon, <1>1, <1>2, TruthStays DEF EvidenceInv, ReportsHonest
    <3>8. ASSUME NEW p \in Ops PROVE ReceiptHonest(p)'
      BY Zenon, <3>5, <3>6
    <3> QED BY Zenon, <1>2, <3>4, <3>7, <3>8 DEF EvidenceInv, ReportsHonest
  <2>3. UNCHANGED receipts \/ SendReceipt(t)
    BY Zenon
    DEF host, HostStep, queued_embedded_commands, claim_embedded_command, Perform, Wake,
        Control, settle_embedded_command
  <2> QED BY Zenon, <2>1, <2>2, <2>3
<1> QED BY Zenon, <1>1, <1>3, <1>4 DEF EvidenceInv

LEMMA ProcessEvidence ==
    ASSUME JournalInv, EvidenceInv, \A p \in Ops : Onward(p),
           HostLost \/ recover_embedded_command_claims
    PROVE  EvidenceInv'
<1>1. /\ UNCHANGED <<kind, wakeError, mem, disk>> /\ net' \subseteq net
      /\ \A p \in Ops : row'[p] = row[p] \/ (row[p] = "dispatching" /\ row'[p] = "unconfirmed")
    BY Zenon DEF HostLost, recover_embedded_command_claims, journal, browser
<1>2. \A t \in Tasks : task'[t] = Idle
    BY Zenon DEF HostLost, recover_embedded_command_claims, JournalInv, ViewCurrent
<1>3. TaskKinds'
  <2>1. \A t \in Tasks : task'[t].at = "idle"
    BY <1>2 DEF Idle
  <2> QED BY Zenon, <2>1 DEF TaskKinds, TaskKind
<1>4. RowKinds'
    BY Zenon, <1>1 DEF EvidenceInv, RowKinds, Success, Settled
<1>5. LedgerHonest' /\ Kept'
    BY Zenon, <1>1, LedgerStays
<1>6. \/ UNCHANGED <<reads, receipts>>
      \/ reads' = [o \in Ops |-> NoRead] /\ receipts' = [o \in Ops |-> NoReceipt]
    BY Zenon DEF HostLost, recover_embedded_command_claims, browser, host
<1>7. NoRead \in Answers /\ NoReceipt \in Answers
    BY Zenon DEF NoRead, NoReceipt, Answers, States
<1>8. ReportsHonest'
  <2>1. CASE UNCHANGED <<reads, receipts>>
    BY Zenon, <1>1, <2>1, TruthStays DEF EvidenceInv, ReportsHonest
  <2>2. CASE reads' = [o \in Ops |-> NoRead] /\ receipts' = [o \in Ops |-> NoReceipt]
    BY Zenon, <1>1, <1>7, <2>2 DEF EvidenceInv, ReportsHonest, ReadHonest, ReceiptHonest
  <2> QED BY Zenon, <1>6, <2>1, <2>2
<1> QED BY Zenon, <1>3, <1>4, <1>5, <1>8 DEF EvidenceInv

(***************************************************************************)
(* The evidence's inductive invariant: rows report success in the way of   *)
(* their kind, every status answer and receipt under way was true when it  *)
(* was made and is still, and so is every record the ledger merged from    *)
(* them.                                                                   *)
(***************************************************************************)
THEOREM EvidenceInvariant == CommandSpec => []EvidenceInv
<1>1. CommandInit => EvidenceInv
    BY Zenon, EvidenceStart
<1>2. JournalInv /\ EvidenceInv /\ [CommandNext]_commandVars => EvidenceInv'
  <2> SUFFICES ASSUME JournalInv, EvidenceInv, [CommandNext]_commandVars PROVE EvidenceInv'
    BY Zenon
  <2>1. \A p \in Ops : Onward(p)
    BY Zenon, RowsGoOn
  <2> QED
    BY Zenon, <2>1, SendEvidence, LookupEvidence, ApplyEvidence, ConnectionEvidence,
       ReceiveEvidence, HostEvidence, ProcessEvidence
    DEF CommandNext
<1> QED BY <1>1, <1>2, JournalInvariant, PTL DEF CommandSpec

(***************************************************************************)
(* What the browser holds as evidence of a command is true of the journal, *)
(* and an unsettled command the host may know of is in session storage.    *)
(***************************************************************************)
THEOREM EvidenceIsTrue == CommandSpec => []EvidenceTrue
<1>1. EvidenceInv => EvidenceTrue
    BY Zenon DEF EvidenceInv, LedgerHonest, Honest, Tells, Kept, EvidenceTrue
<1> QED BY <1>1, EvidenceInvariant, PTL
=============================================================================
