----------------------------- MODULE ActorForms -----------------------------
(***************************************************************************)
(* Durable human forms of one actor incarnation (store/forms.rs): the      *)
(* browser submits and dismisses (server/chat.rs), the native decoder      *)
(* rejects or commits what it read, its scope closes, a restart interrupts.*)
(*                                                                         *)
(* Every store call is one transaction, signalled under the same lock, and *)
(* so one action. A browser request may be delayed, lost or repeated, and  *)
(* may come from a view that is out of date, so that any operation may     *)
(* reach the store at any time.                                            *)
(***************************************************************************)
EXTENDS Naturals, FiniteSets

CONSTANTS
    Forms,       \* mounts of the incarnation
    Operations,  \* operation ids allocated by browsers
    Drafts,      \* form drafts
    None         \* absence of an attempt, a draft or an answer

ASSUME FormsAssumption ==
    /\ IsFiniteSet(Forms)
    /\ None \notin Operations \cup Drafts
    /\ "unused" \notin Drafts \cup {None}

VARIABLES
    form,      \* actor_forms.presentation of each mount
    events,    \* last row id of the events table
    ops,       \* actor_form_operations: payload of each applied operation
    awake,     \* mounts whose waiter has an unseen watch version
    decoder, read, \* native decoder of each mount: where it stands, what it read
    rejected   \* history: attempts rejected for each mount

storeVars == <<form, events, ops>>
decoderVars == <<awake, decoder, read>>
vars == <<storeVars, decoderVars, rejected>>

\* ActorFormState, with "absent" for a mount that has no row yet
Pending == {"open", "submitted"}
Settled == {"answered", "dismissed", "cancelled", "interrupted"}

\* StoredActorForm. The answer is named by the draft it was decoded from.
Row == [sequence : Nat, revision : Nat, state : Pending \cup Settled \cup {"absent"},
        attempt : Operations \cup {None}, draft : Drafts \cup {None},
        errors : {"none", "some"}, answer : Drafts \cup {None}]
Absent == [sequence |-> 0, revision |-> 0, state |-> "absent", attempt |-> None,
           draft |-> None, errors |-> "none", answer |-> None]

\* A dismissal is stored as the payload null, None here.
Unused == "unused"
Payloads == Drafts \cup {None}

NoRead == [attempt |-> None, draft |-> None]

Init ==
    /\ form = [f \in Forms |-> Absent]
    /\ events = 0
    /\ ops = [f \in Forms |-> [o \in Operations |-> Unused]]
    /\ awake = {}
    /\ decoder = [f \in Forms |-> "mounting"]
    /\ read = [f \in Forms |-> NoRead]
    /\ rejected = [f \in Forms |-> {}]

-----------------------------------------------------------------------------
(* The store *)

\* Mutant: only the waiters that are parked are notified.
SignalParked == awake' = awake \cup {f \in Forms : decoder[f] = "waiting"}
\* signal_actor_form_change: every subscribed waiter sees a new watch version.
Signal == awake' = {f \in Forms : decoder[f] # "mounting"}

\* save: the row gets the row id of its update event as revision.
Save(f, row) ==
    /\ events' = events + 1
    /\ form' = [form EXCEPT ![f] = [row EXCEPT !.revision = events + 1]]
    /\ Signal

\* open_actor_form: a mount that has a row keeps it.
Open(f) ==
    /\ decoder[f] = "mounting"
    /\ decoder' = [decoder EXCEPT ![f] = "reading"]
    /\ IF form[f].state = "absent"
       THEN /\ events' = events + 1
            /\ form' = [form EXCEPT ![f] = [Absent EXCEPT !.sequence = events + 1,
                                                          !.revision = events + 1,
                                                          !.state = "open"]]
            /\ Signal
       ELSE UNCHANGED <<form, events, awake>>
    /\ UNCHANGED <<ops, read, rejected>>

\* The row after a browser operation.
Operated(row, o, p) ==
    IF p = None THEN [row EXCEPT !.errors = "none", !.state = "dismissed"]
    ELSE [row EXCEPT !.attempt = o, !.draft = p, !.errors = "none", !.state = "submitted"]

\* Mutant: the recorded operation is not looked up.
BrowserOperationRepeats(f, o, p) ==
    /\ form[f].state = "open" \/ (p = None /\ form[f].state = "submitted")
    /\ ops' = [ops EXCEPT ![f][o] = p]
    /\ Save(f, Operated(form[f], o, p))
    /\ UNCHANGED <<decoder, read, rejected>>

\* form_browser_operation: an operation that was applied before is acknowledged
\* again, any other needs an open form, or a submitted one to dismiss.
BrowserOperation(f, o, p) ==
    /\ ops[f][o] = Unused
    /\ form[f].state = "open" \/ (p = None /\ form[f].state = "submitted")
    /\ ops' = [ops EXCEPT ![f][o] = p]
    /\ Save(f, Operated(form[f], o, p))
    /\ UNCHANGED <<decoder, read, rejected>>

\* settle_actor_form(Close), by the scope that owns the mount
Close(f) ==
    /\ form[f].state \in Pending
    /\ Save(f, [form[f] EXCEPT !.state = "cancelled"])
    /\ UNCHANGED <<ops, decoder, read, rejected>>

\* interrupt_actor_forms_for_restart, before any scope of the new process
Interrupt ==
    LET pending == {f \in Forms : form[f].state \in Pending} IN
    /\ \E rank \in [pending -> 1..Cardinality(pending)] :
         /\ \A f, g \in pending : f # g => rank[f] # rank[g]
         /\ form' = [f \in Forms |->
                       IF f \in pending THEN [form[f] EXCEPT !.state = "interrupted",
                                                             !.revision = events + rank[f]]
                       ELSE form[f]]
    /\ events' = events + Cardinality(pending)
    /\ awake' = {}
    /\ decoder' = [f \in Forms |-> "mounting"]
    /\ read' = [f \in Forms |-> NoRead]
    /\ UNCHANGED <<ops, rejected>>

-----------------------------------------------------------------------------
(* The native decoder: it subscribes to the watch, then reads. *)

\* actor_form_attempt
ReadAttempt(f) ==
    /\ decoder[f] = "reading"
    /\ \/ /\ form[f].state = "open"
          /\ decoder' = [decoder EXCEPT ![f] = "unanswered"]
          /\ UNCHANGED read
       \/ /\ form[f].state = "submitted"
          /\ decoder' = [decoder EXCEPT ![f] = "decoding"]
          /\ read' = [read EXCEPT ![f] = [attempt |-> form[f].attempt,
                                          draft |-> form[f].draft]]
       \/ /\ form[f].state \in Settled
          /\ decoder' = [decoder EXCEPT ![f] = "done"]
          /\ UNCHANGED read
    /\ UNCHANGED <<storeVars, awake, rejected>>

\* The decoder found no attempt and awaits the next change.
Park(f) ==
    /\ decoder[f] = "unanswered"
    /\ decoder' = [decoder EXCEPT ![f] = "waiting"]
    /\ UNCHANGED <<storeVars, awake, read, rejected>>

\* Receiver::changed returns at once when a version was missed.
Wake(f) ==
    /\ decoder[f] = "waiting" /\ f \in awake
    /\ awake' = awake \ {f}
    /\ decoder' = [decoder EXCEPT ![f] = "reading"]
    /\ UNCHANGED <<storeVars, read, rejected>>

\* Mutant: a settlement is not compared with the attempt of the row.
AnyAttempt(f) == TRUE
\* The attempt a settlement names is the one the row holds.
SameAttempt(f) == form[f].attempt = read[f].attempt

\* After a settlement the decoder reads again, or repeats the call ("decoding").
Outcomes == {"reading", "decoding"}

\* settle_actor_form(Commit): the answer comes from the draft that was read.
Commit(f, at) ==
    /\ decoder[f] = "decoding"
    /\ decoder' = [decoder EXCEPT ![f] = at]
    /\ IF SameAttempt(f) /\ form[f].state = "submitted"
       THEN Save(f, [form[f] EXCEPT !.state = "answered", !.answer = read[f].draft,
                                    !.errors = "none"])
       ELSE UNCHANGED <<form, events, awake>>
    /\ UNCHANGED <<ops, read, rejected>>

\* settle_actor_form(Reject)
Reject(f, at) ==
    /\ decoder[f] = "decoding"
    /\ decoder' = [decoder EXCEPT ![f] = at]
    /\ IF SameAttempt(f) /\ form[f].state = "submitted"
       THEN /\ \E e \in {"none", "some"} :
                 Save(f, [form[f] EXCEPT !.state = "open", !.errors = e])
            /\ rejected' = [rejected EXCEPT ![f] = @ \cup {form[f].attempt}]
       ELSE UNCHANGED <<form, events, awake, rejected>>
    /\ UNCHANGED <<ops, read>>

Next ==
    \/ \E f \in Forms : \/ Open(f) \/ Close(f) \/ ReadAttempt(f) \/ Park(f) \/ Wake(f)
                        \/ \E o \in Operations, p \in Payloads : BrowserOperation(f, o, p)
                        \/ \E at \in Outcomes : Commit(f, at) \/ Reject(f, at)
    \/ Interrupt

Spec == Init /\ [][Next]_vars

\* A mounted decoder keeps waiting, reading and settling.
Fairness ==
    \A f \in Forms : WF_vars(\/ ReadAttempt(f) \/ Park(f) \/ Wake(f)
                            \/ Commit(f, "reading") \/ Reject(f, "reading"))
-----------------------------------------------------------------------------
(* Properties *)

TypeOK ==
    /\ form \in [Forms -> Row]
    /\ events \in Nat
    /\ ops \in [Forms -> [Operations -> Payloads \cup {Unused}]]
    /\ awake \subseteq Forms
    /\ decoder \in [Forms -> {"mounting", "reading", "unanswered", "waiting",
                            "decoding", "done"}]
    /\ read \in [Forms -> [attempt : Operations \cup {None}, draft : Drafts \cup {None}]]
    /\ rejected \in [Forms -> SUBSET Operations]

\* Every sequence of operations leaves a row that StoredActorForm::validate
\* accepts: otherwise save would refuse a transition the code means to make, and
\* load would refuse the row for ever after.
RowsValid ==
    \A f \in Forms :
        LET row == form[f]
            submission == row.attempt # None /\ row.draft # None
            none == row.attempt = None /\ row.draft = None
        IN  row.state # "absent" =>
              /\ 0 < row.sequence /\ row.sequence <= row.revision
              /\ submission \/ none
              /\ row.state \in {"submitted", "answered"} => submission /\ row.errors = "none"
              /\ (row.answer # None) <=> (row.state = "answered")

\* An answer is decoded from the draft the form holds: a decoder that read an
\* earlier attempt cannot settle a later one.
AnswerOfDraft ==
    \A f \in Forms : form[f].state = "answered" => form[f].answer = form[f].draft

\* A retry of a browser request whose attempt was rejected does not submit it
\* again (form_browser_operation, the recorded operation).
RejectedNotPending ==
    \A f \in Forms : form[f].state = "submitted" => form[f].attempt \notin rejected[f]

\* A settled form never changes again, whatever browsers, decoder, scope and
\* restart do.
SettledFinal == [][\A f \in Forms : form[f].state \in Settled => form'[f] = form[f]]_vars

\* A submitted form is settled, rejected or closed: the decoder that subscribed
\* before it read does not miss the submission.
SubmissionSettles ==
    \A f \in Forms : []<>(form[f].state # "submitted")
=============================================================================
