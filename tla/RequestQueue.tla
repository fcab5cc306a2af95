---------------------------- MODULE RequestQueue ----------------------------
(***************************************************************************)
(* RequestScheduler (crates/harness/src/turn.rs): the admission queue for  *)
(* active model requests.  The queue is a vector from which the best       *)
(* ticket is taken by swap_remove, so that its order is not the arrival    *)
(* order; a sequence number keeps that.                                    *)
(***************************************************************************)
EXTENDS Naturals, Sequences, FiniteSets

CONSTANTS Tickets,  \* request ids
          Priority, \* depth, operator_waiting and prefix_warm of each ticket
          Slots,    \* capacity
          MaxTurns  \* tickets enqueued

ASSUME QueueAssumption ==
    /\ Priority \in [Tickets -> [depth : Nat, operator_waiting : BOOLEAN, prefix_warm : BOOLEAN]]
    /\ Slots \in Nat \ {0} /\ MaxTurns \in Nat

VARIABLES activeTickets, queued, sequence,
          ahead \* history: the waiting tickets that came before each waiting one

queueVars == <<activeTickets, queued, sequence, ahead>>

QueueInit ==
    activeTickets = {} /\ queued = <<>> /\ sequence = 0 /\ ahead = [t \in Tickets |-> {}]

Waiting == {queued[i].id : i \in DOMAIN queued}
Entry(i) == Priority[queued[i].id]

\* The policy: depth, then an operator waiting, then a warm prefix.
Before(p, q) == \/ p.depth < q.depth
                \/ /\ p.depth = q.depth
                   /\ \/ p.operator_waiting /\ ~q.operator_waiting
                      \/ /\ p.operator_waiting = q.operator_waiting
                         /\ p.prefix_warm /\ ~q.prefix_warm

ComparePolicyOnly(i, j) == Before(Entry(i), Entry(j))

\* compare_priority is Less; arrival breaks a tie.
compare_priority(i, j) ==
    \/ Before(Entry(i), Entry(j))
    \/ /\ ~Before(Entry(j), Entry(i))
       /\ queued[i].sequence < queued[j].sequence

enqueue(t) ==
    /\ t \notin activeTickets /\ t \notin Waiting
    /\ sequence < MaxTurns /\ sequence' = sequence + 1
    /\ queued' = Append(queued, [id |-> t, sequence |-> sequence'])
    /\ ahead' = [ahead EXCEPT ![t] = Waiting]
    /\ UNCHANGED activeTickets

\* min_by: the first of the least.
Best == CHOOSE i \in DOMAIN queued :
            /\ \A j \in DOMAIN queued : ~compare_priority(j, i)
            /\ \A j \in 1..(i - 1) : \E k \in DOMAIN queued : compare_priority(k, j)

\* swap_remove
SwapRemove(i) == [j \in 1..(Len(queued) - 1) |-> IF j = i THEN queued[Len(queued)] ELSE queued[j]]

next_ready ==
    /\ Cardinality(activeTickets) < Slots /\ queued # <<>>
    /\ queued' = SwapRemove(Best)
    /\ activeTickets' = activeTickets \cup {queued[Best].id}
    /\ ahead' = [t \in Tickets |-> ahead[t] \ {queued[Best].id}]
    /\ UNCHANGED sequence

finish(t) ==
    /\ t \in activeTickets /\ activeTickets' = activeTickets \ {t}
    /\ UNCHANGED <<queued, sequence, ahead>>

QueueNext == next_ready \/ \E t \in Tickets : enqueue(t) \/ finish(t)

QueueSpec == QueueInit /\ [][QueueNext]_queueVars

-----------------------------------------------------------------------------

\* However often swap_remove has reordered the vector, it holds a request once,
\* and none that is active.
QueuedOnce ==
    /\ \A i, j \in DOMAIN queued : queued[i].id = queued[j].id => i = j
    /\ activeTickets \cap Waiting = {}

\* An admitted request was waiting, has none before it in the policy and none of its
\* own priority that came before it (turn.rs:192 "roots first, then nodes with an
\* operator waiting, then warm prefixes, preserving FIFO ties").
AdmittedInOrder ==
    [][\A t \in activeTickets' \ activeTickets :
          /\ t \in Waiting
          /\ \A u \in Waiting : ~Before(Priority[u], Priority[t])
          /\ \A u \in ahead[t] : Before(Priority[t], Priority[u])]_queueVars
=============================================================================
