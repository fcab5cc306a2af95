----------------------------- MODULE Invocation -----------------------------
(***************************************************************************)
(* Bounded turns driven by a program (invocation.rs): the invocations of   *)
(* one parent cell share a CellBudget; each has a worker that runs the     *)
(* engine, an event queue of capacity one on which callbacks and hooks     *)
(* wait to be handed out, and a program that takes, completes or drops     *)
(* them.                                                                   *)
(***************************************************************************)
EXTENDS Naturals, Sequences

CONSTANTS
    Invocations,   \* the invocations of one cell
    Limits,        \* Limits of each scope: requests, tools, tokens
    AfterTool,     \* the invocations whose options ask for hooks
    MaxCalls,      \* bound on the calls of one response
    Cell, Unset

Scopes == Invocations \cup {Cell}
Fields == {"requests", "tools", "tokens"}
ScopeLimits == [Fields -> Nat]

\* CellBudget::narrow: the limits of a child scope are at most its parent's.
ASSUME LimitsAssumption ==
    /\ Cell \notin Invocations
    /\ Limits \in [Scopes -> ScopeLimits]
    /\ \A i \in Invocations, f \in Fields : Limits[i][f] <= Limits[Cell][f]
    /\ Unset \notin Fields \cup {"deadline"}
    /\ AfterTool \subseteq Invocations
    /\ MaxCalls \in Nat

VARIABLES
    reason,     \* Gate::reason: why the cell is exhausted, or Unset
    counts,     \* Counts of every scope
    expired,    \* the scopes whose deadline has passed
    worker,     \* where the engine of each invocation is
    undispatched, \* calls of the response it has not dispatched yet
    eventKind,  \* the event it sends or waits for: "callback" or "hook"
    event,      \* the number of its latest event
    admission,  \* the admission of that event: queued, admitted, refused
    reply,      \* the oneshot of that event
    eventQueue, \* the events in the channel
    taken,      \* the event next() has taken and checked, or 0
    held,       \* the event the program holds, or 0
    closed,     \* the invocations whose closed flag and signal are set
    shut,       \* the invocations whose channel refuses sends
    failed,     \* the invocations whose failure is set
    outcome     \* Outcome of the receipt, or Unset

budgetVars == <<reason, counts, expired>>
workerVars == <<worker, undispatched, eventKind, event>>
bridgeVars == <<admission, reply, eventQueue, taken, held>>
flagVars == <<closed, shut, failed, outcome>>
invocationVars == <<budgetVars, workerVars, bridgeVars, flagVars>>

InvocationInit ==
    /\ reason = Unset
    /\ counts = [s \in Scopes |-> [f \in Fields |-> 0]]
    /\ expired = {}
    /\ worker = [i \in Invocations |-> "off"]
    /\ undispatched = [i \in Invocations |-> 0]
    /\ eventKind = [i \in Invocations |-> "callback"]
    /\ event = [i \in Invocations |-> 0]
    /\ admission = [i \in Invocations |-> "queued"]
    /\ reply = [i \in Invocations |-> "none"]
    /\ eventQueue = [i \in Invocations |-> <<>>]
    /\ taken = [i \in Invocations |-> 0]
    /\ held = [i \in Invocations |-> 0]
    /\ closed = {} /\ shut = {} /\ failed = {}
    /\ outcome = [i \in Invocations |-> Unset]

-----------------------------------------------------------------------------
(* CellBudget. Every operation holds the gate's mutex, so each is one step. *)

\* scopes[0] is the cell, the last one the invocation's own
ScopesOf(i) == {Cell, i}

Earliest(cell, own) == IF cell # Unset THEN cell ELSE own

\* CellBudget::check: what exhausts a scope with the counts c
Spent(c, s) == CASE s \in expired -> "deadline"
                 [] s \notin expired /\ c[s]["tokens"] >= Limits[s]["tokens"] -> "tokens"
                 [] OTHER -> Unset

\* The token is cancelled exactly when a reason is latched.
ExhaustedBy(i, c) == IF reason # Unset THEN reason ELSE Earliest(Spent(c, Cell), Spent(c, i))
Exhausted(i) == ExhaustedBy(i, counts)

\* CellBudget::admit, what it refuses
Full(s, field) == IF counts[s][field] >= Limits[s][field] THEN field ELSE Unset
Refusal(i, field) == IF Exhausted(i) # Unset THEN Exhausted(i)
                     ELSE Earliest(Full(Cell, field), Full(i, field))

\* CellBudget::admit, what it counts
Count(i, field) ==
    [s \in Scopes |-> IF s \in ScopesOf(i) THEN [counts[s] EXCEPT ![field] = @ + 1] ELSE counts[s]]

Admit(i, field) ==
    /\ reason' = Refusal(i, field)
    /\ counts' = IF Refusal(i, field) = Unset THEN Count(i, field) ELSE counts
    /\ UNCHANGED expired

\* CellBudget::usage: the tokens are counted, then the scopes are checked.
Usage(i, tokens) ==
    /\ counts' = [s \in Scopes |-> IF s \in ScopesOf(i)
                                   THEN [counts[s] EXCEPT !["tokens"] = @ + tokens] ELSE counts[s]]
    /\ reason' = ExhaustedBy(i, counts')
    /\ UNCHANGED expired

\* A deadline passes. narrow() gives a child the earlier of its own and its
\* parent's deadline, so the cell's is never the first.
Expire(s) ==
    /\ s \notin expired
    /\ s = Cell => Invocations \subseteq expired
    /\ expired' = expired \cup {s}
    /\ UNCHANGED <<reason, counts, workerVars, bridgeVars, flagVars>>

-----------------------------------------------------------------------------
(* The worker: BudgetTransport, CallbackProvider and the end of Invocation::start *)

\* Invocation::start
StartInvocation(i) ==
    /\ worker[i] = "off"
    /\ worker' = [worker EXCEPT ![i] = "request"]
    /\ UNCHANGED <<budgetVars, undispatched, eventKind, event, bridgeVars, flagVars>>

\* BudgetTransport::create and create_streaming, up to the inner transport
Request(i) ==
    /\ worker[i] = "request"
    /\ IF i \in closed \cup failed
       THEN worker' = [worker EXCEPT ![i] = "failed"] /\ UNCHANGED budgetVars
       ELSE /\ Admit(i, "requests")
            /\ worker' = [worker EXCEPT ![i] = IF Refusal(i, "requests") = Unset
                                               THEN "inflight" ELSE "failed"]
    /\ UNCHANGED <<undispatched, eventKind, event, bridgeVars, flagVars>>

\* The provider answers with n calls and reports its tokens; an answer without
\* calls is the final one.
ModelResponds(i, tokens, n) ==
    /\ worker[i] = "inflight"
    /\ Usage(i, tokens)
    /\ undispatched' = [undispatched EXCEPT ![i] = n]
    /\ worker' = [worker EXCEPT ![i] = IF n = 0 THEN "answered" ELSE "dispatch"]
    /\ UNCHANGED <<eventKind, event, bridgeVars, flagVars>>

\* The other branches of the select: deadline, closed signal, cancelled budget
Interrupted(i) == i \in closed \/ reason # Unset \/ i \in expired

\* The request is interrupted, or the provider fails; no usage is known.
RequestFails(i) ==
    /\ worker[i] = "inflight"
    /\ Usage(i, 0)
    /\ worker' = [worker EXCEPT ![i] = "failed"]
    /\ UNCHANGED <<undispatched, eventKind, event, bridgeVars, flagVars>>

\* validate_call of the next call of the response. An undeclared name is refused
\* after it was counted.
ValidateCall(i, declared) ==
    /\ worker[i] = "dispatch" /\ undispatched[i] > 0
    /\ undispatched' = [undispatched EXCEPT ![i] = @ - 1]
    /\ IF i \in closed
       THEN worker' = [worker EXCEPT ![i] = "failed"] /\ UNCHANGED budgetVars
       ELSE /\ Admit(i, "tools")
            /\ worker' = [worker EXCEPT ![i] = IF Refusal(i, "tools") = Unset /\ declared
                                               THEN "call" ELSE "failed"]
    /\ UNCHANGED <<eventKind, event, bridgeVars, flagVars>>

\* All calls of the response have their outputs: the next request.
NextRound(i) ==
    /\ worker[i] = "dispatch" /\ undispatched[i] = 0
    /\ worker' = [worker EXCEPT ![i] = "request"]
    /\ UNCHANGED <<budgetVars, undispatched, eventKind, event, bridgeVars, flagVars>>

\* The output of the call is committed: output_committed asks for a hook unless
\* the invocation failed or was closed.
Committed(i) ==
    IF i \in AfterTool /\ i \notin failed' \cup closed
    THEN /\ worker' = [worker EXCEPT ![i] = "send"]
         /\ eventKind' = [eventKind EXCEPT ![i] = "hook"]
    ELSE worker' = [worker EXCEPT ![i] = "dispatch"] /\ UNCHANGED eventKind

\* call_with_context: arguments that miss the schema fail the invocation, and
\* the call has an error for its output.
CallWithContext(i, valid) ==
    /\ worker[i] = "call"
    /\ IF valid
       THEN /\ worker' = [worker EXCEPT ![i] = "send"]
            /\ eventKind' = [eventKind EXCEPT ![i] = "callback"]
            /\ UNCHANGED failed
       ELSE failed' = failed \cup {i} /\ Committed(i)
    /\ UNCHANGED <<budgetVars, undispatched, event, bridgeVars, closed, shut, outcome>>

\* What follows the wait for an event: a callback has its output, a hook is
\* acknowledged or, without an answer, fails the round.
Resume(i, answered) ==
    /\ UNCHANGED <<undispatched, event, flagVars>>
    /\ IF eventKind[i] = "callback" THEN Committed(i)
       ELSE /\ worker' = [worker EXCEPT ![i] = IF answered THEN "dispatch" ELSE "failed"]
            /\ UNCHANGED eventKind

\* sender.send: waits for room in the channel.
Send(i) ==
    /\ worker[i] = "send" /\ i \notin shut
    /\ eventQueue[i] = <<>>
    /\ event' = [event EXCEPT ![i] = @ + 1]
    /\ eventQueue' = [eventQueue EXCEPT ![i] = <<event[i] + 1>>]
    /\ admission' = [admission EXCEPT ![i] = "queued"]
    /\ reply' = [reply EXCEPT ![i] = "none"]
    /\ worker' = [worker EXCEPT ![i] = "wait"]
    /\ UNCHANGED <<budgetVars, undispatched, eventKind, taken, held, flagVars>>

SendFails(i) ==
    /\ worker[i] = "send" /\ i \in shut
    /\ Resume(i, FALSE)
    /\ UNCHANGED <<budgetVars, bridgeVars>>

\* continuation(): the reply, or the sender was dropped
Received(i) ==
    /\ worker[i] = "wait" /\ reply[i] # "none"
    /\ Resume(i, reply[i] = "value")
    /\ UNCHANGED <<budgetVars, bridgeVars>>

\* continuation(): the closed signal, the cancelled budget or the deadline, which
\* latches the budget; then the exchange of the admission. When the event was
\* admitted the worker goes on waiting for the reply alone.
Refuse(i) ==
    /\ worker[i] = "wait" /\ Interrupted(i)
    /\ reason' = IF i \in expired THEN Exhausted(i) ELSE reason
    /\ IF admission[i] = "queued"
       THEN /\ admission' = [admission EXCEPT ![i] = "refused"]
            /\ Resume(i, FALSE)
       ELSE UNCHANGED <<admission, workerVars, flagVars>>
    /\ UNCHANGED <<counts, expired, reply, eventQueue, taken, held>>

\* The task of Invocation::start after run_invocation: failure before closed
\* before exhausted before the result. The provider, and with it the sender, is
\* dropped.
Finish(i) ==
    /\ worker[i] \in {"answered", "failed"}
    /\ LET quiet == i \notin failed \cup closed
       IN  /\ outcome' = [outcome EXCEPT ![i] =
                 CASE i \in failed -> "failed"
                   [] i \in closed \ failed -> "cancelled"
                   [] quiet /\ Exhausted(i) # Unset -> "exhausted"
                   [] OTHER -> IF worker[i] = "answered" THEN "completed" ELSE "failed"]
           /\ reason' = IF quiet THEN Exhausted(i) ELSE reason
    /\ worker' = [worker EXCEPT ![i] = "ended"]
    /\ UNCHANGED <<counts, expired, undispatched, eventKind, event, bridgeVars, closed, shut, failed>>

-----------------------------------------------------------------------------
(* The program: Invocation::next, close and drop, Callback::complete *)

\* The sender of an event is dropped; only the waiting event's oneshot matters.
Dropped(i, e) == [reply EXCEPT ![i] = IF e = event[i] /\ @ = "none" THEN "dropped" ELSE @]

\* next(): an event is received, and dropped when the invocation is closed or
\* its budget exhausted
NextEvent(i) ==
    /\ taken[i] = 0 /\ eventQueue[i] # <<>>
    /\ eventQueue' = [eventQueue EXCEPT ![i] = <<>>]
    /\ IF i \in closed THEN reply' = Dropped(i, eventQueue[i][1]) /\ UNCHANGED <<reason, taken>>
       ELSE /\ reason' = Exhausted(i)
            /\ IF Exhausted(i) # Unset
               THEN reply' = Dropped(i, eventQueue[i][1]) /\ UNCHANGED taken
               ELSE taken' = [taken EXCEPT ![i] = eventQueue[i][1]] /\ UNCHANGED reply
    /\ UNCHANGED <<counts, expired, workerVars, admission, held, flagVars>>

\* Mutant: the event is handed out without the exchange.
HandOutAlways(i) ==
    /\ taken[i] # 0
    /\ taken' = [taken EXCEPT ![i] = 0]
    /\ held' = [held EXCEPT ![i] = taken[i]]
    /\ admission' = [admission EXCEPT ![i] = "admitted"]
    /\ UNCHANGED <<budgetVars, workerVars, reply, eventQueue, flagVars>>

\* next(): the exchange of the admission decides between delivery and refusal
HandOut(i) ==
    /\ taken[i] # 0
    /\ taken' = [taken EXCEPT ![i] = 0]
    /\ IF taken[i] = event[i] /\ admission[i] = "queued"
       THEN /\ held' = [held EXCEPT ![i] = taken[i]]
            /\ admission' = [admission EXCEPT ![i] = "admitted"]
            /\ UNCHANGED reply
       ELSE reply' = Dropped(i, taken[i]) /\ UNCHANGED <<held, admission>>
    /\ UNCHANGED <<budgetVars, workerVars, eventQueue, flagVars>>

\* Callback::complete and Hook::complete; a program may also drop what it holds.
Complete(i, how) ==
    /\ held[i] # 0
    /\ held' = [held EXCEPT ![i] = 0]
    /\ reply' = [reply EXCEPT ![i] = IF held[i] = event[i] THEN how ELSE @]
    /\ UNCHANGED <<budgetVars, workerVars, admission, eventQueue, taken, flagVars>>

\* InvocationCloseHandle::close, at any moment
CloseHandle(i) ==
    /\ i \notin closed
    /\ closed' = closed \cup {i}
    /\ UNCHANGED <<budgetVars, workerVars, bridgeVars, shut, failed, outcome>>

\* Invocation::close, between two calls of next(): the channel refuses sends,
\* and still delivers what it holds.
Close(i) ==
    /\ i \notin shut /\ taken[i] = 0
    /\ closed' = closed \cup {i}
    /\ shut' = shut \cup {i}
    /\ UNCHANGED <<budgetVars, workerVars, bridgeVars, failed, outcome>>

\* Drop of the Invocation: the receiver goes with what the channel holds. What
\* the program holds stays its own.
Drop(i) ==
    /\ taken[i] = 0
    /\ i \notin shut \/ i \notin closed \/ eventQueue[i] # <<>>
    /\ closed' = closed \cup {i}
    /\ shut' = shut \cup {i}
    /\ eventQueue' = [eventQueue EXCEPT ![i] = <<>>]
    /\ reply' = IF eventQueue[i] = <<>> THEN reply ELSE Dropped(i, eventQueue[i][1])
    /\ UNCHANGED <<budgetVars, workerVars, admission, taken, held, failed, outcome>>

WorkerStep(i) ==
    \/ Request(i) \/ NextRound(i)
    \/ \E declared \in BOOLEAN : ValidateCall(i, declared)
    \/ \E valid \in BOOLEAN : CallWithContext(i, valid)
    \/ Send(i) \/ SendFails(i) \/ Received(i) \/ Finish(i)

ProgramStep(i) == NextEvent(i) \/ HandOut(i) \/ \E how \in {"value", "dropped"} : Complete(i, how)

InvocationNext ==
    \/ \E s \in Scopes : Expire(s)
    \/ \E i \in Invocations :
        \/ StartInvocation(i)
        \/ WorkerStep(i)
        \/ \E tokens \in 0..1, n \in 0..MaxCalls : ModelResponds(i, tokens, n)
        \/ RequestFails(i) \/ Refuse(i)
        \/ ProgramStep(i)
        \/ CloseHandle(i) \/ Close(i) \/ Drop(i)

InvocationSpec == InvocationInit /\ [][InvocationNext]_invocationVars

-----------------------------------------------------------------------------
(* Properties *)

\* No interleaving of the invocations of a cell admits more requests or tool calls
\* than the cell allows to all of them together, or an invocation's own narrower
\* scope to it alone (CellBudget::admit).
BudgetRespected ==
    \A s \in Scopes, field \in {"requests", "tools"} : counts[s][field] <= Limits[s][field]

\* "Cancellation may discard queued work, but cannot revoke a handed-out
\* continuation": while the program holds a callback or a hook the worker waits
\* for the reply to that one, however the deadline, a close, a drop of the
\* invocation or a sibling's exhaustion fell in between.
HandedOutHeard ==
    \A i \in Invocations : held[i] # 0 => worker[i] = "wait" /\ event[i] = held[i] /\ reply[i] = "none"

\* "exhaustion latches the whole cell scope": from the moment one scope is found
\* exhausted, no invocation of the cell has a request or a tool call admitted, and
\* the reason stays the first one.
ExhaustionLatches ==
    [][reason # Unset =>
          /\ reason' = reason
          /\ \A s \in Scopes : /\ counts'[s]["requests"] = counts[s]["requests"]
                               /\ counts'[s]["tools"] = counts[s]["tools"]]_invocationVars
=============================================================================
