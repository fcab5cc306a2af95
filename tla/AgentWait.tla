----------------------------- MODULE AgentWait -----------------------------
(***************************************************************************)
(* The wait of an agent for a job, for mail, for its cancellation or for a *)
(* bound (crates/harness/src/turn.rs, wait_until_exact and its drain),     *)
(* with the engine's loop around it (engine.rs, wait_for_resume).          *)
(*                                                                         *)
(* A job settles under the scheduler's lock and is announced afterwards on *)
(* a broadcast channel, whose receivers lose the oldest events when they   *)
(* fall behind.  Mail is an unread envelope and, later, a hint in the      *)
(* agent's mailbox; the hint outlives the envelope's delivery.             *)
(***************************************************************************)
EXTENDS Naturals, Sequences, SequencesExt

CONSTANTS WaitWorlds, \* the operations an agent waits for, those of others, and bounds
                      \* on the envelopes sent to the agent and on its waits
          Lag         \* capacity of the broadcast channel

ASSUME WaitAssumption == /\ \A w \in WaitWorlds : {w.posts, w.waits} \subseteq Nat
                         /\ Lag \in Nat \ {0}

VARIABLES
    load,      \* the world
    settledJobs,   \* operations with an output
    sentEvents,\* the broadcast channel: every event sent
    cursor,    \* events the agent's receiver has passed
    mailbox,   \* hints in the agent's channel
    senders,   \* whether the channel has a sender
    unreadMail,\* envelopes not yet delivered
    posts,     \* envelopes sent so far
    stopped,   \* the agent is cancelled, or its canceller is gone
    bound,     \* the wait's deadline: none, set or passed
    waiter,    \* the wait: where it is, the next operation, what resumed it
    waits      \* waits begun so far

waitVars == <<load, settledJobs, sentEvents, cursor, mailbox, senders, unreadMail, posts, stopped, bound, waiter, waits>>
outside == <<load, settledJobs, sentEvents, mailbox, senders, unreadMail, posts, stopped, bound, waits>>

Operations == load.waited \cup load.others
By(kind, of) == [kind |-> kind, of |-> of]
Nothing == By("nothing", 0)
NewWait(calls) == [at |-> "enter", calls |-> calls, next |-> 1, open |-> TRUE, by |-> Nothing, outputs |-> <<>>]

WaitInit ==
    /\ load \in WaitWorlds
    /\ settledJobs = {} /\ sentEvents = <<>> /\ cursor = 0
    /\ mailbox = <<>> /\ senders = TRUE /\ unreadMail = {} /\ posts = 0
    /\ stopped = FALSE
    /\ bound \in {"none", "set"}
    /\ waiter = NewWait(SetToSeq(load.waited))
    /\ waits = 1

-----------------------------------------------------------------------------
(* Jobs, senders, the canceller and the clock *)

\* settle
Settled(op) ==
    /\ op \notin settledJobs
    /\ settledJobs' = settledJobs \cup {op}
    /\ UNCHANGED <<load, sentEvents, cursor, mailbox, senders, unreadMail, posts, stopped, bound, waiter, waits>>

\* events.send, after the settlement
Announce(op) ==
    /\ op \in settledJobs /\ ~Contains(sentEvents, op)
    /\ sentEvents' = Append(sentEvents, op)
    /\ UNCHANGED <<load, settledJobs, cursor, mailbox, senders, unreadMail, posts, stopped, bound, waiter, waits>>

PostMail ==
    /\ posts < load.posts /\ posts' = posts + 1
    /\ unreadMail' = unreadMail \cup {posts + 1}
    /\ UNCHANGED <<load, settledJobs, sentEvents, cursor, mailbox, senders, stopped, bound, waiter, waits>>

\* The notifier's hint for an envelope it found unread, delivered meanwhile or not.
Hint(id) ==
    /\ senders /\ id \in 1..posts /\ ~Contains(mailbox, id) /\ Len(mailbox) < load.posts
    /\ mailbox' = Append(mailbox, id)
    /\ UNCHANGED <<load, settledJobs, sentEvents, cursor, senders, unreadMail, posts, stopped, bound, waiter, waits>>

SendersLeave ==
    /\ senders /\ senders' = FALSE
    /\ UNCHANGED <<load, settledJobs, sentEvents, cursor, mailbox, unreadMail, posts, stopped, bound, waiter, waits>>

StopAgent ==
    /\ ~stopped /\ stopped' = TRUE
    /\ UNCHANGED <<load, settledJobs, sentEvents, cursor, mailbox, senders, unreadMail, posts, bound, waiter, waits>>

DeadlinePasses ==
    /\ bound = "set" /\ bound' = "passed"
    /\ UNCHANGED <<load, settledJobs, sentEvents, cursor, mailbox, senders, unreadMail, posts, stopped, waiter, waits>>

-----------------------------------------------------------------------------
(* wait_until_exact *)

Moves(new) == waiter' = new
Woken(by) == [waiter EXCEPT !.at = "drain", !.next = 1, !.by = by]
Scanning == [waiter EXCEPT !.at = "scan", !.next = 1]

\* The cancellation, then a subscription: events sent before it are not seen.
EnterWait ==
    /\ waiter.at = "enter"
    /\ IF stopped THEN Moves(Woken(By("cancelled", 0))) /\ UNCHANGED cursor
                  ELSE Moves(Scanning) /\ cursor' = Len(sentEvents)
    /\ UNCHANGED outside

\* One retained result at a time, under the scheduler's lock.
ScanOne ==
    /\ waiter.at = "scan" /\ waiter.next \in DOMAIN waiter.calls
    /\ LET op == waiter.calls[waiter.next] IN
       Moves(IF op \in settledJobs THEN Woken(By("job", op)) ELSE [waiter EXCEPT !.next = @ + 1])
    /\ UNCHANGED <<outside, cursor>>

ScanEnds ==
    /\ waiter.at = "scan" /\ waiter.next \notin DOMAIN waiter.calls
    /\ Moves(IF stopped THEN Woken(By("cancelled", 0))
             ELSE IF bound = "passed" THEN Woken(By("timeout", 0))
             ELSE [waiter EXCEPT !.at = "select"])
    /\ UNCHANGED <<outside, cursor>>

EventReady == cursor < Len(sentEvents)
MailReady == waiter.open /\ (mailbox # <<>> \/ ~senders)

SelectStopped ==
    /\ waiter.at = "select" /\ stopped
    /\ Moves(Woken(By("cancelled", 0)))
    /\ UNCHANGED <<outside, cursor>>

LagContinues ==
    /\ waiter.at = "select" /\ ~stopped /\ EventReady
    /\ IF Len(sentEvents) - cursor > Lag
       THEN cursor' = Len(sentEvents) - Lag /\ UNCHANGED waiter
       ELSE LET op == sentEvents[cursor + 1] IN
            /\ cursor' = cursor + 1
            /\ Moves(IF Contains(waiter.calls, op) /\ op \in settledJobs THEN Woken(By("job", op)) ELSE waiter)
    /\ UNCHANGED outside

\* An event of an awaited operation ends the wait; after another one, and after
\* events were lost, the retained results are read again.
SelectEvent ==
    /\ waiter.at = "select" /\ ~stopped /\ EventReady
    /\ IF Len(sentEvents) - cursor > Lag
       THEN cursor' = Len(sentEvents) - Lag /\ Moves(Scanning)
       ELSE LET op == sentEvents[cursor + 1] IN
            /\ cursor' = cursor + 1
            /\ Moves(IF Contains(waiter.calls, op) /\ op \in settledJobs THEN Woken(By("job", op)) ELSE Scanning)
    /\ UNCHANGED outside

SelectMail ==
    /\ waiter.at = "select" /\ ~stopped /\ ~EventReady /\ MailReady
    /\ IF mailbox # <<>>
       THEN Moves(Woken(By("mail", Head(mailbox)))) /\ mailbox' = Tail(mailbox)
       ELSE Moves([Scanning EXCEPT !.open = FALSE]) /\ UNCHANGED mailbox
    /\ UNCHANGED <<load, settledJobs, sentEvents, cursor, senders, unreadMail, posts, stopped, bound, waits>>

SelectTimer ==
    /\ waiter.at = "select" /\ ~stopped /\ ~EventReady /\ ~MailReady /\ bound = "passed"
    /\ Moves(Woken(By("timeout", 0)))
    /\ UNCHANGED <<outside, cursor>>

-----------------------------------------------------------------------------
(* The drain and wait_for_resume *)

\* outputs_in_operation_order
DrainOne ==
    /\ waiter.at = "drain" /\ waiter.next \in DOMAIN waiter.calls
    /\ LET op == waiter.calls[waiter.next] IN
       Moves([waiter EXCEPT !.next = @ + 1, !.outputs = IF op \in settledJobs THEN Append(@, op) ELSE @])
    /\ UNCHANGED <<outside, cursor>>

\* A result that was ready when the timer fired wins over it.
DrainEnds ==
    /\ waiter.at = "drain" /\ waiter.next \notin DOMAIN waiter.calls
    /\ Moves([waiter EXCEPT
          !.at = IF waiter.by.kind = "mail" THEN "verify" ELSE "resumed",
          !.by = IF @.kind = "timeout" /\ waiter.outputs # <<>> THEN By("job", waiter.outputs[1]) ELSE @])
    /\ UNCHANGED <<outside, cursor>>

\* A hint for an envelope that was delivered before is dropped and the wait
\* begins again.
VerifyWake ==
    /\ waiter.at = "verify"
    /\ Moves(IF waiter.by.of \in unreadMail THEN [waiter EXCEPT !.at = "resumed"] ELSE NewWait(waiter.calls))
    /\ UNCHANGED <<outside, cursor>>

\* The engine takes the outputs and the unread mail and may wait again.
WaitAgain ==
    /\ waiter.at = "resumed" /\ waiter.by.kind # "cancelled" /\ waits < load.waits
    /\ waits' = waits + 1
    /\ unreadMail' = {}
    /\ bound' \in {"none", "set"}
    /\ Moves(NewWait(SelectSeq(waiter.calls, LAMBDA op : ~Contains(waiter.outputs, op))))
    /\ UNCHANGED <<load, settledJobs, sentEvents, cursor, mailbox, senders, posts, stopped>>

Waiting == EnterWait \/ ScanOne \/ ScanEnds \/ SelectStopped \/ SelectEvent \/ SelectMail \/ SelectTimer
              \/ DrainOne \/ DrainEnds \/ VerifyWake

WaitNext == \/ Waiting \/ WaitAgain
            \/ \E op \in Operations : Settled(op) \/ Announce(op)
            \/ PostMail \/ SendersLeave \/ StopAgent \/ DeadlinePasses
            \/ \E id \in 1..load.posts : Hint(id)

\* The runtime polls a ready wait, and a settled job goes on to announce itself.
WaitFairness ==
    /\ WF_waitVars(Waiting)
    /\ \A op \in UNION {w.waited \cup w.others : w \in WaitWorlds} : WF_waitVars(op \in Operations /\ Announce(op))

WaitSpec == WaitInit /\ [][WaitNext]_waitVars

-----------------------------------------------------------------------------

Due == \/ \E i \in DOMAIN waiter.calls : waiter.calls[i] \in settledJobs
       \/ \E i \in DOMAIN mailbox : mailbox[i] \in unreadMail
       \/ stopped
       \/ bound = "passed"

\* An agent never waits on for what is already there: a settled operation it
\* waits for, unread mail it has a hint of, its cancellation or a passed bound
\* ends the wait, whatever events the receiver lost (turn.rs:1707).
WaitResumes == []<>(waiter.at = "resumed" \/ ~Due)
=============================================================================
