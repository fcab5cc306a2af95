-------------------------- MODULE AdmissionProofs ---------------------------
(***************************************************************************)
(* What is let in and when: rounds by the inference gate (InferenceGate),  *)
(* for any rounds and incarnations, and requests by their queue            *)
(* (RequestQueue), for any tickets and priorities.                         *)
(*                                                                         *)
(* InferenceGate: the inductive invariant, its parts, what the store       *)
(* transactions do to them as functions of the gate row, and why the steps *)
(* of a round driver, from select to settle, keep it.  RequestQueue: the   *)
(* policy is the order of one number, and the queue's scan stops at the    *)
(* first ticket that is best, named with Least.                            *)
(***************************************************************************)
EXTENDS InferenceGate, RequestQueue, WellFoundedInduction, TLAPS

\* A set of numbers has a least one.
LEMMA Least ==
    ASSUME NEW T \in SUBSET Nat, T # {}
    PROVE  \E x \in T : \A y \in T : x <= y
<1> DEFINE R == OpToRel(<, Nat)
<1>1. IsWellFoundedOn(R, Nat)
  BY Zenon, NatLessThanWellFounded
<1> HIDE DEF R
<1>2. PICK x \in T : \A y \in T : <<y, x>> \notin R
  BY Zenon, <1>1, WFMin
<1>3. \A y \in T : y < x => <<y, x>> \in R
  BY SMT DEF R, OpToRel
<1>4. \A y \in T : ~(y < x)
  BY Zenon, <1>2, <1>3
<1>5. \A y \in T : x <= y
  BY SMT, <1>4
<1> QED BY Zenon, <1>5

-----------------------------------------------------------------------------
(* The request queue *)

Priorities == [depth : Nat, operator_waiting : BOOLEAN, prefix_warm : BOOLEAN]

\* The policy is the order of one number.
Rank(p) == 4 * p.depth + (IF p.operator_waiting THEN 0 ELSE 2) + (IF p.prefix_warm THEN 0 ELSE 1)

LEMMA RankOrders ==
    \A p, q \in Priorities : Rank(p) \in Nat /\ (Before(p, q) <=> Rank(p) < Rank(q))
<1> TAKE p, q \in Priorities
<1>1. /\ p.depth \in Nat /\ p.operator_waiting \in BOOLEAN /\ p.prefix_warm \in BOOLEAN
      /\ q.depth \in Nat /\ q.operator_waiting \in BOOLEAN /\ q.prefix_warm \in BOOLEAN
  BY DEF Priorities
<1> QED BY <1>1 DEF Rank, Before

Queued == [id : Tickets, sequence : Nat]

QueueTyped ==
    /\ queued \in Seq(Queued)
    /\ sequence \in Nat
    /\ activeTickets \subseteq Tickets
    /\ ahead \in [Tickets -> SUBSET Tickets]

Numbered ==
    /\ \A i \in DOMAIN queued : queued[i].sequence <= sequence
    /\ \A i, j \in DOMAIN queued : queued[i].sequence = queued[j].sequence => i = j

\* The sequence numbers keep the order of arrival that the vector loses.
ArrivalNumbered ==
    \A i \in DOMAIN queued : \A u \in ahead[queued[i].id] :
        \E j \in DOMAIN queued : queued[j].id = u /\ queued[j].sequence < queued[i].sequence

QueueInv == QueueTyped /\ QueuedOnce /\ Numbered /\ ArrivalNumbered

LEMMA QueuePlaces ==
    ASSUME QueueTyped
    PROVE  /\ Len(queued) \in Nat /\ DOMAIN queued = 1..Len(queued)
           /\ \A i \in DOMAIN queued :
                /\ queued[i] \in Queued
                /\ queued[i].id \in Tickets /\ queued[i].sequence \in Nat
<1>1. /\ Len(queued) \in Nat /\ DOMAIN queued = 1..Len(queued)
      /\ \A i \in DOMAIN queued : queued[i] \in Queued
  BY DEF QueueTyped
<1>2. \A e \in Queued : e.id \in Tickets /\ e.sequence \in Nat
  BY DEF Queued
<1> QED BY Zenon, <1>1, <1>2

\* min_by finds a ticket before all others.
LEMMA BestFirst ==
    ASSUME QueueInv, queued # <<>>
    PROVE  /\ Best \in DOMAIN queued
           /\ \A j \in DOMAIN queued : ~compare_priority(j, Best)
<1> DEFINE D == DOMAIN queued
           ranks == {Rank(Entry(i)) : i \in D}
<1>1. QueueTyped /\ Numbered
  BY Zenon DEF QueueInv
<1>2. \A i \in D : Entry(i) \in Priorities /\ queued[i].sequence \in Nat
  <2>1. \A t \in Tickets : Priority[t] \in Priorities
    BY Zenon, QueueAssumption DEF Priorities
  <2> QED BY Zenon, <1>1, <2>1, QueuePlaces DEF Entry
<1>3. \A i \in D : Rank(Entry(i)) \in Nat
  BY Zenon, <1>2, RankOrders
<1>4. \E i : i \in D
  <2>1. 1 \in D
    BY <1>1 DEF QueueTyped
  <2> QED BY Zenon, <2>1
<1> HIDE DEF D
<1>5. PICK r \in ranks : \A x \in ranks : r <= x
  <2>1. ranks \in SUBSET Nat
    BY SMT, <1>3
  <2>2. ranks # {}
    BY Zenon, <1>4
  <2> QED BY Zenon, <2>1, <2>2, Least
<1> DEFINE first == {i \in D : Rank(Entry(i)) = r}
           times == {queued[i].sequence : i \in first}
<1>6. PICK n \in times : \A x \in times : n <= x
  <2>1. times \in SUBSET Nat
    BY SMT, <1>2
  <2>2. times # {}
    BY Zenon, <1>5
  <2> QED BY Zenon, <2>1, <2>2, Least
<1>7. PICK b \in first : queued[b].sequence = n
  BY Zenon, <1>6
<1>8. b \in D /\ Rank(Entry(b)) = r
  BY Zenon, <1>7
<1>9. ASSUME NEW j \in D, j # b PROVE compare_priority(b, j) /\ ~compare_priority(j, b)
  <2>1. r <= Rank(Entry(j)) /\ Rank(Entry(j)) \in Nat /\ r \in Nat
    BY Zenon, <1>3, <1>5, <1>8
  <2>2. queued[j].sequence # queued[b].sequence
    BY Zenon, <1>1, <1>8, <1>9 DEF Numbered, D
  <2>3. Rank(Entry(j)) = r => n <= queued[j].sequence
    BY Zenon, <1>6
  <2>4. /\ Before(Entry(b), Entry(j)) <=> Rank(Entry(b)) < Rank(Entry(j))
        /\ Before(Entry(j), Entry(b)) <=> Rank(Entry(j)) < Rank(Entry(b))
    BY Zenon, <1>2, <1>8, RankOrders
  <2>5. queued[j].sequence \in Nat /\ queued[b].sequence \in Nat
    BY Zenon, <1>2, <1>8
  <2> QED BY <1>7, <1>8, <2>1, <2>2, <2>3, <2>4, <2>5 DEF compare_priority
<1>10. ~compare_priority(b, b)
  <2>1. Before(Entry(b), Entry(b)) <=> Rank(Entry(b)) < Rank(Entry(b))
    BY Zenon, <1>2, <1>8, RankOrders
  <2>2. queued[b].sequence \in Nat
    BY Zenon, <1>2, <1>8
  <2> QED BY <1>3, <1>8, <2>1, <2>2 DEF compare_priority
<1>11. b \in Nat /\ \A j \in 1..(b - 1) : j \in D /\ j # b
  <2>1. \E m \in Nat : D = 1..m
    BY Zenon, <1>1, QueuePlaces DEF D
  <2> QED BY <1>8, <2>1
<1>12. /\ \A j \in D : ~compare_priority(j, b)
       /\ \A j \in 1..(b - 1) : \E k \in D : compare_priority(k, j)
  BY Zenon, <1>8, <1>9, <1>10, <1>11
<1> QED BY Zenon, <1>8, <1>12 DEF Best, D

\* Append puts a ticket behind the others, with a number above theirs.
LEMMA EnqueueKeeps ==
    ASSUME QueueInv, NEW t \in Tickets, enqueue(t)
    PROVE  QueueInv'
<1> DEFINE e == [id |-> t, sequence |-> sequence']
           n == Len(queued)
<1>0. QueueTyped /\ QueuedOnce /\ Numbered /\ ArrivalNumbered
  BY Zenon DEF QueueInv
<1>2. sequence' = sequence + 1 /\ sequence \in Nat /\ sequence' \in Nat
  BY <1>0 DEF QueueTyped, enqueue
<1>1. /\ n \in Nat /\ DOMAIN queued = 1..n
      /\ DOMAIN queued' = 1..(n + 1)
      /\ queued'[n + 1] = e /\ \A i \in 1..n : queued'[i] = queued[i]
      /\ queued' \in Seq(Queued)
  <2>1. e \in Queued
    BY <1>2 DEF Queued
  <2>2. queued \in Seq(Queued) /\ queued' = Append(queued, e)
    BY Zenon, <1>0 DEF enqueue, QueueTyped
  <2> HIDE DEF e
  <2> QED BY <2>1, <2>2
<1>3. e.id = t /\ e.sequence = sequence'
  OBVIOUS
<1>4. \A i \in 1..(n + 1) : i = n + 1 \/ i \in 1..n
  BY SMT, <1>1
<1>5. \A i \in 1..n : /\ queued[i].id \in Waiting /\ queued[i].id # t
                     /\ queued[i].sequence <= sequence /\ queued[i].sequence \in Nat
  <2>1. \A i \in 1..n : queued[i].id \in Waiting
    BY Zenon, <1>1 DEF Waiting
  <2>2. t \notin Waiting
    BY Zenon DEF enqueue
  <2> QED BY Zenon, <1>0, <1>1, <2>1, <2>2, QueuePlaces DEF Numbered
<1> HIDE DEF n, e
<1>6. QueueTyped'
  <2>1. Waiting \subseteq Tickets
    BY Zenon, <1>0, QueuePlaces DEF Waiting
  <2>2. ahead' = [ahead EXCEPT ![t] = Waiting] /\ activeTickets' = activeTickets
    BY Zenon DEF enqueue
  <2>3. ahead' \in [Tickets -> SUBSET Tickets]
    BY <1>0, <2>1, <2>2 DEF QueueTyped
  <2> QED BY Zenon, <1>0, <1>1, <1>2, <2>2, <2>3 DEF QueueTyped
<1>7. \A i, j \in 1..(n + 1) : queued'[i].id = queued'[j].id => i = j
  BY Zenon, <1>0, <1>1, <1>3, <1>4, <1>5 DEF QueuedOnce
<1>8. activeTickets' \cap Waiting' = {}
  <2>1. \A i \in 1..(n + 1) : queued'[i].id = t \/ queued'[i].id \in Waiting
    BY Zenon, <1>1, <1>3, <1>4, <1>5
  <2>2. \A u \in Waiting' : u = t \/ u \in Waiting
    BY Zenon, <1>1, <2>1 DEF Waiting
  <2> QED BY Zenon, <1>0, <2>2 DEF QueuedOnce, enqueue
<1>9. \A i \in 1..n : queued[i].sequence <= sequence' /\ queued[i].sequence < sequence'
  BY <1>2, <1>5
<1>10. \A i \in 1..(n + 1) : queued'[i].sequence <= sequence'
  <2>1. sequence' <= sequence'
    BY SMT, <1>2
  <2> QED BY Zenon, <1>1, <1>3, <1>4, <1>9, <2>1
<1>11. \A i, j \in 1..(n + 1) : queued'[i].sequence = queued'[j].sequence => i = j
  <2>1. \A i \in 1..n : queued[i].sequence # sequence'
    BY SMT, <1>2, <1>5, <1>9
  <2> QED BY Zenon, <1>0, <1>1, <1>3, <1>4, <2>1 DEF Numbered
<1>12. \A i \in 1..(n + 1) : \A u \in ahead'[queued'[i].id] :
         \E j \in 1..(n + 1) : queued'[j].id = u /\ queued'[j].sequence < queued'[i].sequence
  <2>1. /\ ahead'[t] = Waiting
        /\ \A v \in Tickets : v # t => ahead'[v] = ahead[v]
    BY Zenon, <1>0 DEF QueueTyped, enqueue
  <2>2. 1..n \subseteq 1..(n + 1)
    BY SMT, <1>1
  <2>3. \A i \in 1..n : queued[i].id \in Tickets
    BY Zenon, <1>0, <1>1, QueuePlaces
  <2>4. \A u \in Waiting : \E j \in 1..n : queued[j].id = u
    BY Zenon, <1>1 DEF Waiting
  <2>5. ASSUME NEW i \in 1..(n + 1), NEW u \in ahead'[queued'[i].id], i = n + 1
        PROVE  \E j \in 1..(n + 1) :
                  queued'[j].id = u /\ queued'[j].sequence < queued'[i].sequence
    <3>1. PICK j \in 1..n : queued[j].id = u
      BY Zenon, <1>1, <1>3, <2>1, <2>4, <2>5
    <3> QED BY Zenon, <1>1, <1>3, <1>9, <2>2, <2>5, <3>1
  <2>6. ASSUME NEW i \in 1..n, NEW u \in ahead'[queued'[i].id]
        PROVE  \E j \in 1..(n + 1) :
                  queued'[j].id = u /\ queued'[j].sequence < queued'[i].sequence
    <3>1. u \in ahead[queued[i].id]
      BY Zenon, <1>1, <1>5, <2>1, <2>3
    <3>2. PICK j \in 1..n : queued[j].id = u /\ queued[j].sequence < queued[i].sequence
      BY Zenon, <1>0, <1>1, <3>1 DEF ArrivalNumbered
    <3> QED BY Zenon, <1>1, <2>2, <3>2
  <2> QED BY Zenon, <1>4, <2>5, <2>6
<1> QED BY Zenon, <1>1, <1>6, <1>7, <1>8, <1>10, <1>11, <1>12 DEF QueueInv, QueuedOnce, Numbered, ArrivalNumbered

\* Each ticket of q but the one at b is in r, moved as m says.
Moved(q, r, b, m) ==
    /\ m \in [DOMAIN r -> DOMAIN q]
    /\ \A i \in DOMAIN r : r[i] = q[m[i]] /\ m[i] # b
    /\ \A i, j \in DOMAIN r : m[i] = m[j] => i = j
    /\ \A k \in DOMAIN q : k # b => \E i \in DOMAIN r : m[i] = k

\* swap_remove leaves every other ticket somewhere, with the number it had.
LEMMA SwapRemoves ==
    ASSUME QueueTyped, NEW b \in DOMAIN queued, queued' = SwapRemove(b)
    PROVE  /\ queued' \in Seq(Queued)
           /\ \E m : Moved(queued, queued', b, m)
<1> DEFINE n == Len(queued)
           D == 1..(n - 1)
           m == [i \in D |-> IF i = b THEN n ELSE i]
<1>1. n \in Nat /\ DOMAIN queued = 1..n /\ b \in 1..n
  BY Zenon, QueuePlaces
<1>2. \A i \in 1..n : queued[i] \in Queued
  BY Zenon, <1>1, QueuePlaces
<1>3. queued' = [j \in D |-> IF j = b THEN queued[n] ELSE queued[j]]
  BY DEF SwapRemove
<1> HIDE DEF n
<1>4. n - 1 \in Nat /\ n \in 1..n /\ \A i \in D : i \in 1..n /\ i # n
  BY SMT, <1>1
<1>5. DOMAIN queued' = D
  BY Zenon, <1>3
<1>6. \A i \in D : queued'[i] \in Queued
  BY Zenon, <1>2, <1>3, <1>4
<1>7. queued' \in Seq(Queued)
  <2>1. queued' \in [1..(n - 1) -> Queued]
    BY Zenon, <1>3, <1>2, <1>4
  <2> QED BY SMT, <1>4, <2>1
<1>8. m \in [D -> 1..n]
  BY Zenon, <1>4
<1>9. \A i \in D : queued'[i] = queued[m[i]] /\ m[i] # b
  BY Zenon, <1>3, <1>4
<1>10. \A i, j \in D : m[i] = m[j] => i = j
  BY Zenon, <1>4
<1>11. \A k \in 1..n : k # b => \E i \in D : m[i] = k
  <2>1. \A k \in 1..n : k = n \/ k \in D
    BY SMT, <1>1
  <2>2. b # n => b \in D
    BY Zenon, <1>1, <2>1
  <2>3. b # n => m[b] = n
    BY Zenon, <2>2
  <2>4. \A k \in D : k # b => m[k] = k
    BY Zenon
  <2> HIDE DEF m
  <2> QED BY Zenon, <2>1, <2>2, <2>3, <2>4
<1> HIDE DEF m
<1>12. Moved(queued, queued', b, m)
  BY Zenon, <1>1, <1>5, <1>8, <1>9, <1>10, <1>11 DEF Moved
<1> QED BY Zenon, <1>7, <1>12

\* Taking the best ticket leaves the others as they are.
LEMMA TakeKeeps ==
    ASSUME QueueInv, next_ready
    PROVE  QueueInv'
<1> DEFINE t == queued[Best].id
<1>0. QueueTyped /\ QueuedOnce /\ Numbered /\ ArrivalNumbered
  BY Zenon DEF QueueInv
<1>1. Best \in DOMAIN queued
  BY Zenon, BestFirst DEF next_ready
<1>2. /\ queued' = SwapRemove(Best) /\ activeTickets' = activeTickets \cup {t}
      /\ sequence' = sequence /\ ahead' = [u \in Tickets |-> ahead[u] \ {t}]
  BY Zenon DEF next_ready
<1>3. queued' \in Seq(Queued)
  BY Zenon, <1>1, <1>2, <1>0, SwapRemoves
<1>4. PICK m : Moved(queued, queued', Best, m)
  BY Zenon, <1>1, <1>2, <1>0, SwapRemoves
<1>5. \A i \in DOMAIN queued : queued[i].id \in Tickets
  BY Zenon, <1>0, QueuePlaces
<1> DEFINE D == DOMAIN queued'
<1>6. /\ \A i \in D : m[i] \in DOMAIN queued /\ queued'[i] = queued[m[i]] /\ m[i] # Best
      /\ \A i, j \in D : m[i] = m[j] => i = j
      /\ \A k \in DOMAIN queued : k # Best => \E i \in D : m[i] = k
  BY Zenon, <1>4 DEF Moved
<1> HIDE DEF D, t
<1>7. QueueTyped'
  <2>1. t \in Tickets
    BY Zenon, <1>1, <1>5 DEF t
  <2>2. ahead' \in [Tickets -> SUBSET Tickets]
    BY Zenon, <1>0, <1>2 DEF QueueTyped
  <2>3. activeTickets' \subseteq Tickets
    BY Zenon, <1>0, <1>2, <2>1 DEF QueueTyped
  <2> QED BY Zenon, <1>2, <1>3, <2>2, <2>3, <1>0 DEF QueueTyped
<1>8. \A i \in D : queued'[i].id # t /\ queued'[i].id \in Waiting
  <2>1. \A k \in DOMAIN queued : k # Best => queued[k].id # t
    BY Zenon, <1>0, <1>1 DEF QueuedOnce, t
  <2>2. \A k \in DOMAIN queued : queued[k].id \in Waiting
    BY Zenon DEF Waiting
  <2>3. ASSUME NEW i \in D PROVE queued'[i].id # t /\ queued'[i].id \in Waiting
    <3>1. m[i] \in DOMAIN queued /\ queued'[i] = queued[m[i]] /\ m[i] # Best
      BY Zenon, <1>6
    <3> QED BY Zenon, <2>1, <2>2, <3>1
  <2> QED BY Zenon, <2>3
<1>9. QueuedOnce'
  <2>1. ASSUME NEW i \in D, NEW j \in D, queued'[i].id = queued'[j].id PROVE i = j
    <3>1. /\ m[i] \in DOMAIN queued /\ queued'[i] = queued[m[i]]
          /\ m[j] \in DOMAIN queued /\ queued'[j] = queued[m[j]]
      BY Zenon, <1>6
    <3>2. queued[m[i]].id = queued[m[j]].id
      BY Zenon, <2>1, <3>1
    <3>3. m[i] = m[j]
      BY Zenon, <1>0, <3>1, <3>2 DEF QueuedOnce
    <3> QED BY Zenon, <1>6, <3>3
  <2>2. \A u \in Waiting' : u # t /\ u \in Waiting
    BY Zenon, <1>8 DEF Waiting, D
  <2>3. activeTickets' \cap Waiting' = {}
    BY Zenon, <1>0, <1>2, <2>2 DEF QueuedOnce
  <2> QED BY Zenon, <2>1, <2>3 DEF QueuedOnce, D
<1>10. \A i \in D : queued'[i].sequence <= sequence'
  BY ZenonT(40), <1>0, <1>2, <1>6 DEF Numbered, D
<1>11. ASSUME NEW i \in D, NEW j \in D, queued'[i].sequence = queued'[j].sequence PROVE i = j
  <2>1. /\ m[i] \in DOMAIN queued /\ queued'[i] = queued[m[i]]
        /\ m[j] \in DOMAIN queued /\ queued'[j] = queued[m[j]]
    BY Zenon, <1>6
  <2>2. queued[m[i]].sequence = queued[m[j]].sequence
    BY Zenon, <1>11, <2>1
  <2>3. m[i] = m[j]
    BY Zenon, <1>0, <2>1, <2>2 DEF Numbered
  <2> QED BY Zenon, <1>6, <2>3
<1>12. ASSUME NEW i \in D, NEW u \in ahead'[queued'[i].id]
       PROVE  \E j \in D : queued'[j].id = u /\ queued'[j].sequence < queued'[i].sequence
  <2>1. queued'[i] = queued[m[i]] /\ m[i] \in DOMAIN queued
    BY Zenon, <1>6 DEF D
  <2>2. u \in ahead[queued[m[i]].id] /\ u # t
    BY Zenon, <1>2, <1>5, <2>1
  <2>3. PICK k \in DOMAIN queued : queued[k].id = u /\ queued[k].sequence < queued[m[i]].sequence
    BY Zenon, <1>0, <2>1, <2>2 DEF ArrivalNumbered
  <2>4. PICK j \in D : m[j] = k
    BY Zenon, <1>6, <2>2, <2>3 DEF t, D
  <2> QED BY Zenon, <1>6, <2>1, <2>3, <2>4 DEF D
<1> QED BY Zenon, <1>7, <1>9, <1>10, <1>11, <1>12 DEF QueueInv, Numbered, ArrivalNumbered, D

\* The invariant of RequestScheduler: the vector holds a request once, and arrival
\* can be told from the sequence numbers whatever order swap_remove left.
THEOREM QueueInvariant == QueueSpec => []QueueInv
<1>1. QueueInit => QueueInv
  BY DEF QueueInit, QueueInv, QueueTyped, QueuedOnce, Numbered, ArrivalNumbered, Waiting
<1>2. QueueInv /\ [QueueNext]_queueVars => QueueInv'
  <2> SUFFICES ASSUME QueueInv, [QueueNext]_queueVars PROVE QueueInv'
    OBVIOUS
  <2>1. CASE next_ready
    BY Zenon, <2>1, TakeKeeps
  <2>2. ASSUME NEW t \in Tickets, enqueue(t) PROVE QueueInv'
    BY Zenon, <2>2, EnqueueKeeps
  <2>3. ASSUME NEW t \in Tickets, finish(t) PROVE QueueInv'
    BY <2>3 DEF finish, QueueInv, QueueTyped, QueuedOnce, Numbered, ArrivalNumbered,
                       Waiting
  <2>4. CASE UNCHANGED queueVars
    BY <2>4 DEF queueVars, QueueInv, QueueTyped, QueuedOnce, Numbered, ArrivalNumbered,
                       Waiting
  <2> QED BY Zenon, <2>1, <2>2, <2>3, <2>4 DEF QueueNext
<1> QED BY <1>1, <1>2, PTL DEF QueueSpec

\* The vector holds a request once, and none that is active (RequestScheduler::enqueue,
\* next_ready).
THEOREM TicketsQueuedOnce == QueueSpec => []QueuedOnce
<1>1. QueueInv => QueuedOnce
  BY Zenon DEF QueueInv
<1> QED BY <1>1, QueueInvariant, PTL

\* The policy with its FIFO ties: next_ready admits a waiting request that none
\* precedes, neither by priority nor, among equals, by arrival.
THEOREM AdmissionFollowsPolicy == QueueSpec => AdmittedInOrder
<1> DEFINE Ordered ==
      \A t \in activeTickets' \ activeTickets :
          /\ t \in Waiting
          /\ \A u \in Waiting : ~Before(Priority[u], Priority[t])
          /\ \A u \in ahead[t] : Before(Priority[t], Priority[u])
<1>1. ASSUME QueueInv, [QueueNext]_queueVars PROVE [Ordered]_queueVars
  <2>1. CASE next_ready
    <3> DEFINE t == queued[Best].id
    <3>1. Best \in DOMAIN queued /\ \A j \in DOMAIN queued : ~compare_priority(j, Best)
      BY Zenon, <1>1, <2>1, BestFirst DEF next_ready
    <3>2. activeTickets' \ activeTickets \subseteq {t}
      BY Zenon, <2>1 DEF next_ready
    <3>3. t \in Waiting
      BY Zenon, <3>1 DEF Waiting
    <3>4. \A u \in Waiting : ~Before(Priority[u], Priority[t])
      BY Zenon, <3>1 DEF Waiting, compare_priority, Entry
    <3>5. ASSUME NEW u \in ahead[t] PROVE Before(Priority[t], Priority[u])
      <4>1. PICK j \in DOMAIN queued : queued[j].id = u /\ queued[j].sequence < queued[Best].sequence
        BY Zenon, <1>1, <3>1 DEF QueueInv, ArrivalNumbered
      <4> QED BY Zenon, <3>1, <4>1 DEF compare_priority, Entry
    <3> QED BY Zenon, <3>2, <3>3, <3>4, <3>5
  <2>2. CASE activeTickets' \subseteq activeTickets
    BY Zenon, <2>2
  <2>3. QueueNext => next_ready \/ activeTickets' \subseteq activeTickets
    BY Zenon DEF QueueNext, enqueue, finish
  <2> QED BY Zenon, <1>1, <2>1, <2>2, <2>3
<1> QED BY <1>1, QueueInvariant, PTL DEF QueueSpec, AdmittedInOrder

-----------------------------------------------------------------------------
\* History and gate never run ahead of the generation counter.
GenerationBounds ==
    /\ \A g \in granted : g <= generation
    /\ gate.block.generation <= generation

\* A driver starts only once its incarnation is bound.
SuccessorsIdle == \A i \in Incarnations : i > binding => at[i] = "idle"

\* Only a written request can have an uncertain operation.
UncertainWritten == \A r \in uncertain : r <= tip

\* The inductive invariant.  StreamingHoldsGate and GateAtHead need each other:
\* only a driver that holds the gate moves the frontier head.
Inv ==
    /\ TypeOK
    /\ GenerationBounds
    /\ OpenBlockUngranted
    /\ GateAtHead
    /\ StreamingHoldsGate
    /\ SuccessorsIdle
    /\ UncertainWritten
    /\ GrantedLineageClean

\* What a store transaction may leave in the gate row.
RowOK(row) ==
    /\ row.generation \in Nat /\ row.gate \in Gate
    /\ row.generation >= generation
    /\ row.gate.block.generation <= row.generation
    /\ row.gate.state \in {"blocked", "auto_retry"} =>
          /\ row.gate.block.generation = row.generation
          /\ row.generation \notin granted
          /\ row.gate.block.request = tip
    /\ row.gate.state = "recovering" => row.gate.head = tip

\* The placeholder block is a block.
LEMMA NoBlockType == NoBlock \in Block
BY Zenon DEF NoBlock, Block, Refusals

\* Row is a record with its two fields.
LEMMA RowFields ==
    ASSUME NEW g, NEW s
    PROVE  Row(g, s).generation = g /\ Row(g, s).gate = s
BY Zenon DEF Row

\* The gate constructors are gates with the fields they name.
LEMMA GateShapes ==
    ASSUME NEW i \in Nat, NEW a \in Nat, NEW b \in Block, NEW h \in Nat
    PROVE  /\ Idle \in Gate /\ Idle.state = "idle" /\ Idle.block.generation = 0
           /\ Running(i, a) \in Gate /\ Running(i, a).state = "running"
           /\ Running(i, a).inc = i /\ Running(i, a).attempt = a
           /\ Running(i, a).block.generation = 0
           /\ Blocked(b) \in Gate /\ Blocked(b).state = "blocked" /\ Blocked(b).block = b
           /\ AutoRetry(i, b, a) \in Gate /\ AutoRetry(i, b, a).state = "auto_retry"
           /\ AutoRetry(i, b, a).block = b
           /\ Recovering(i, b, h) \in Gate /\ Recovering(i, b, h).state = "recovering"
           /\ Recovering(i, b, h).block = b /\ Recovering(i, b, h).head = h
BY Zenon
DEF Idle, Running, Blocked, AutoRetry, Recovering, Gate, GateStates, Block, NoBlock, Reasons,
    Refusals

\* block_tx leaves a fresh block of the frontier head.
LEMMA BlockRowOK ==
    ASSUME Inv, NEW row, RowOK(row), NEW reason \in Reasons
    PROVE  /\ RowOK(BlockRow(row, reason))
           /\ BlockRow(row, reason).gate.state = "blocked"
           /\ BlockRow(row, reason).gate.block \in Block
<1> DEFINE b == [request |-> tip, generation |-> row.generation + 1,
                 reason |-> reason, refusal |-> "none"]
<1>1. /\ row.generation \in Nat /\ row.gate \in Gate /\ row.generation >= generation
      /\ tip \in Nat /\ generation \in Nat /\ granted \subseteq Nat
  BY Zenon DEF Inv, TypeOK, RowOK
<1>2. b \in Block /\ b.generation = row.generation + 1 /\ b.request = tip
  BY <1>1 DEF Block, Reasons, Refusals
<1>3. Blocked(b) \in Gate /\ Blocked(b).state = "blocked" /\ Blocked(b).block = b
  BY Zenon, <1>2, GateShapes
<1>4. row.generation + 1 \notin granted
  BY <1>1 DEF Inv, GenerationBounds
<1>5. RowOK(Row(row.generation + 1, Blocked(b)))
  BY <1>1, <1>2, <1>3, <1>4, RowFields DEF RowOK
<1>6. row.gate.block \in Block
  BY Zenon, <1>1 DEF Gate
<1> QED
  BY <1>2, <1>3, <1>5, <1>6, RowFields DEF BlockRow

\* initialize leaves a sound row, and leaves a live attempt of the bound
\* incarnation alone.
LEMMA CurrentOK ==
    ASSUME Inv
    PROVE  /\ RowOK(Current)
           /\ (gate.inc = binding \/ gate.state \in {"idle", "blocked"})
                 => Current = Row(generation, gate)
<1>1. RowOK(Row(generation, gate))
  BY RowFields DEF Inv, TypeOK, RowOK, GenerationBounds, OpenBlockUngranted, GateAtHead
<1>2. RowOK(Row(generation, Idle))
  BY GateShapes, RowFields DEF Inv, TypeOK, RowOK, NoBlock, Block, Idle, Gate, GateStates, Refusals
<1>3. RowOK(BlockRow(Row(generation, gate), "host"))
  BY Zenon, <1>1, BlockRowOK DEF Reasons
<1> QED
  BY Zenon, <1>1, <1>2, <1>3 DEF Current, Inv, TypeOK, Gate, GateStates

\* mark_continuation_refusal leaves a sound row.
LEMMA RefuseRowOK ==
    ASSUME Inv, NEW row, RowOK(row), NEW expected \in Block, NEW why \in Refusals
    PROVE  RowOK(RefuseRow(row, expected, why))
<1> DEFINE b == [request |-> expected.request, generation |-> row.generation + 1,
                 reason |-> expected.reason, refusal |-> why]
<1>1. /\ row.generation \in Nat /\ row.gate \in Gate /\ row.generation >= generation
      /\ generation \in Nat /\ granted \subseteq Nat
  BY Zenon DEF Inv, TypeOK, RowOK
<1>2. b \in Block /\ b.generation = row.generation + 1 /\ b.request = expected.request
  BY <1>1 DEF Block
<1>3. Blocked(b) \in Gate /\ Blocked(b).state = "blocked" /\ Blocked(b).block = b
  BY ZenonT(60), <1>2, GateShapes
<1>4. row.generation + 1 \notin granted
  BY <1>1 DEF Inv, GenerationBounds
<1>5. CASE /\ row.gate.state \in {"blocked", "auto_retry"}
           /\ row.gate.block = expected /\ expected.refusal # why
  <2>1. expected.request = tip
    BY Zenon, <1>5 DEF RowOK
  <2>2. RowOK(Row(row.generation + 1, Blocked(b)))
    BY <1>1, <1>2, <1>3, <1>4, <2>1, RowFields DEF RowOK
  <2> QED BY Zenon, <1>5, <2>2 DEF RefuseRow
<1>6. CASE ~(/\ row.gate.state \in {"blocked", "auto_retry"}
             /\ row.gate.block = expected /\ expected.refusal # why)
  BY Zenon, <1>6 DEF RefuseRow
<1> QED BY Zenon, <1>5, <1>6

\* The part of the invariant that speaks of the gate row.
GatePart ==
    /\ generation \in Nat /\ gate \in Gate /\ granted \subseteq Nat
    /\ GenerationBounds /\ OpenBlockUngranted /\ GateAtHead

\* Writing a sound row keeps that part.
LEMMA InstallOK ==
    ASSUME Inv, NEW row, RowOK(row), Install(row), tip' = tip, granted' = granted
    PROVE  GatePart'
BY DEF Inv, TypeOK, RowOK, Install, GatePart, GenerationBounds, OpenBlockUngranted, GateAtHead

\* A grant's gate names its block and its head.
LEMMA RecoveringShape ==
    ASSUME NEW i \in Nat, NEW b \in Block, NEW h \in Nat
    PROVE  /\ Recovering(i, b, h) \in Gate /\ Recovering(i, b, h).state = "recovering"
           /\ Recovering(i, b, h).block = b /\ Recovering(i, b, h).head = h
<1>1. 0 \in Nat BY Zenon
<1> QED BY <1>1, GateShapes

\* A grant consumes the block: its generation joins the history as the gate
\* stops being open.
LEMMA GrantOK ==
    ASSUME Inv, NEW row, RowOK(row), NEW expected \in Block, NEW head \in Nat,
           Grantable(row, expected),
           Install(Row(row.generation, Recovering(binding, expected, head))),
           granted' = granted \cup {expected.generation}, tip' = head
    PROVE  GatePart'
<1>1. /\ row.generation \in Nat /\ row.generation >= generation
      /\ generation \in Nat /\ granted \subseteq Nat /\ binding \in Nat
      /\ \A g \in granted : g <= generation
  BY DEF Inv, TypeOK, RowOK, GenerationBounds, Incarnations
<1>2. /\ Recovering(binding, expected, head) \in Gate
      /\ Recovering(binding, expected, head).state = "recovering"
      /\ Recovering(binding, expected, head).block = expected
      /\ Recovering(binding, expected, head).head = head
  BY <1>1, RecoveringShape
<1>3. expected.generation = row.generation
  BY Zenon DEF Grantable, RowOK
<1>4. generation' = row.generation /\ gate' = Recovering(binding, expected, head)
  BY Zenon, RowFields DEF Install
<1>5. /\ generation' \in Nat /\ gate' \in Gate /\ granted' \subseteq Nat
      /\ gate'.state = "recovering" /\ gate'.head = tip'
      /\ gate'.block.generation = generation'
  BY Zenon, <1>1, <1>2, <1>3, <1>4
<1>6. \A g \in granted' : g <= generation'
  BY <1>1, <1>3, <1>4
<1>7. GenerationBounds'
  BY <1>5, <1>6 DEF GenerationBounds
<1>8. OpenBlockUngranted' /\ GateAtHead'
  BY Zenon, <1>5 DEF OpenBlockUngranted, GateAtHead
<1> QED
  BY Zenon, <1>5, <1>7, <1>8 DEF GatePart

\* Why a grant is refused is one of the reasons, and "none" means it can be made.
LEMMA RefusalOK ==
    ASSUME NEW row, NEW expected, NEW projects
    PROVE  /\ Refusal(row, expected, projects) \in Refusals
           /\ Refusal(row, expected, projects) = "none" => Grantable(row, expected) /\ Clean
BY Zenon DEF Refusal, Refusals

\* checked_exact_grant grants or marks, and keeps the gate part either way.
LEMMA ExactGrantOK ==
    ASSUME Inv, NEW row, RowOK(row), NEW expected \in Block, NEW projects \in BOOLEAN,
           ExactGrant(row, expected, projects), tip' = tip
    PROVE  GatePart'
<1>1. CASE Refusal(row, expected, projects) = "none"
  <2>1. tip \in Nat BY Zenon DEF Inv, TypeOK
  <2>2. /\ Install(Row(row.generation, Recovering(binding, expected, tip)))
        /\ granted' = granted \cup {expected.generation}
    BY Zenon, <1>1 DEF ExactGrant
  <2> QED BY Zenon, <1>1, <2>1, <2>2, GrantOK, RefusalOK
<1>2. CASE Refusal(row, expected, projects) # "none"
  <2>1. /\ Install(RefuseRow(row, expected, Refusal(row, expected, projects)))
        /\ granted' = granted
    BY Zenon, <1>2 DEF ExactGrant
  <2> QED BY Zenon, <2>1, RefusalOK, RefuseRowOK, InstallOK
<1> QED BY Zenon, <1>1, <1>2

\* Starting an attempt from an idle or granted gate keeps the gate part.
LEMMA RunningOK ==
    ASSUME Inv, NEW i \in Nat, NEW a \in Nat,
           Install(Row(Current.generation, Running(i, a))), tip' = tip, granted' = granted
    PROVE  GatePart'
<1>1. RowOK(Current) BY Zenon, CurrentOK
<1>2. Running(i, a) \in Gate /\ Running(i, a).state = "running"
      /\ Running(i, a).block.generation = 0
  BY GateShapes, NoBlockType
<1>3. RowOK(Row(Current.generation, Running(i, a)))
  BY <1>1, <1>2, RowFields DEF RowOK
<1> QED BY Zenon, <1>3, InstallOK

-----------------------------------------------------------------------------
\* The types of everything but the gate row.
OtherTypes ==
    /\ binding \in Incarnations
    /\ settled \in Nat /\ tip \in Nat
    /\ interrupted \subseteq Nat /\ escaped \subseteq Nat /\ uncertain \subseteq Nat
    /\ final \subseteq Nat
    /\ used \in Nat
    /\ input \in [Inputs -> {"new", "undelivered", "delivered"}]
    /\ bound \in [Inputs -> Nat]
    /\ command \in [Recovers -> {"none", "queued", "dispatching", "authorized",
                                 "refused", "unconfirmed"}]
    /\ expects \in [Recovers -> Block]
    /\ target \in [Recovers -> Nat]
    /\ at \in [Incarnations -> DriverStates]
    /\ attempt \in [Incarnations -> Nat]
    /\ mine \in [Incarnations -> Block]
    /\ due \in [Incarnations -> Nat]
    /\ snap \in [Incarnations -> Snapshot]
    /\ attempts \in Nat
    /\ retried \in Nat

\* The uncertain effects: where they are, and that a grant excludes them.
LineagePart == UncertainWritten /\ GrantedLineageClean

\* Where the drivers stand.
DriverPart == StreamingHoldsGate /\ SuccessorsIdle

\* The invariant is the sum of its parts.
LEMMA InvParts == Inv <=> GatePart /\ OtherTypes /\ DriverPart /\ LineagePart
BY Zenon DEF Inv, GatePart, OtherTypes, DriverPart, LineagePart, TypeOK

\* The same, one step later.
LEMMA InvPartsNext ==
    ASSUME GatePart', OtherTypes', DriverPart', LineagePart'
    PROVE  Inv'
BY Zenon DEF Inv, GatePart, OtherTypes, DriverPart, LineagePart, TypeOK

\* A step that leaves the gate row and the head alone keeps the gate part.
LEMMA GateKept ==
    ASSUME Inv, UNCHANGED <<generation, gate, granted, tip>>
    PROVE  GatePart'
BY Zenon DEF Inv, TypeOK, GatePart, GenerationBounds, OpenBlockUngranted, GateAtHead

\* Snapshots are snapshots.
LEMMA SnapshotType ==
    ASSUME Inv, NEW row, RowOK(row)
    PROVE  NoSnapshot \in Snapshot /\ Selection(row) \in Snapshot
<1>1. Idle \in Gate
  BY Zenon, GateShapes, NoBlockType
<1>2. FirstUnread \in SUBSET Nat
  BY BoundsAssumption DEF FirstUnread, Unread, Inputs
<1> QED
  BY Zenon, <1>1, <1>2 DEF NoSnapshot, Selection, Snapshot, Inv, TypeOK, RowOK

\* A driver's move keeps what is known of where drivers stand, as long as it
\* streams only with the gate in hand.
LEMMA DriverMoves ==
    ASSUME Inv, NEW i \in Incarnations, NEW w \in DriverStates, Goto(i, w),
           binding' = binding, i = binding \/ at[i] # "idle",
           i = binding /\ w \in {"write", "inbox", "stream"}
              => gate' = Running(i, attempt'[i]),
           i # binding => gate' = gate /\ attempt' = attempt
    PROVE  DriverPart' /\ at' \in [Incarnations -> DriverStates]
<1>1. binding \in Incarnations /\ at \in [Incarnations -> DriverStates] /\ binding \in Nat
      /\ Incarnations \subseteq Nat
  BY BoundsAssumption DEF Inv, TypeOK, Incarnations
<1>2. /\ at' \in [Incarnations -> DriverStates] /\ at'[i] = w
      /\ \A j \in Incarnations : j # i => at'[j] = at[j]
  BY Zenon, <1>1 DEF Goto
<1>3. StreamingHoldsGate'
  <2>1. CASE i = binding
    BY Zenon, <2>1, <1>1, <1>2 DEF StreamingHoldsGate
  <2>2. CASE i # binding
    BY Zenon, <2>2, <1>1, <1>2 DEF StreamingHoldsGate, Inv
  <2> QED BY Zenon, <2>1, <2>2
<1>4. SuccessorsIdle'
  BY <1>1, <1>2 DEF SuccessorsIdle, Inv
<1> QED BY Zenon, <1>2, <1>3, <1>4 DEF DriverPart

\* EndRun is such a move.
LEMMA EndRunOK ==
    ASSUME Inv, NEW i \in Incarnations, EndRun(i), binding' = binding,
           i = binding \/ at[i] # "idle", i # binding => gate' = gate /\ attempt' = attempt
    PROVE  /\ DriverPart' /\ at' \in [Incarnations -> DriverStates]
           /\ snap' \in [Incarnations -> Snapshot]
<1>1. snap \in [Incarnations -> Snapshot] /\ NoSnapshot \in Snapshot
  BY Zenon, SnapshotType, CurrentOK DEF Inv, TypeOK
<1>2. snap' \in [Incarnations -> Snapshot]
  BY Zenon, <1>1 DEF EndRun
<1>3. Goto(i, "idle") /\ "idle" \in DriverStates
  BY Zenon DEF EndRun, DriverStates
<1> QED BY Zenon, <1>2, <1>3, DriverMoves

\* A step that moves no driver keeps it, if it leaves a streaming driver's gate.
LEMMA DriversKept ==
    ASSUME Inv, UNCHANGED <<at, attempt, binding>>,
           at[binding] \in {"write", "inbox", "stream"} => gate' = gate
    PROVE  DriverPart'
BY Zenon DEF Inv, StreamingHoldsGate, SuccessorsIdle, DriverPart

\* Uncertain effects that do not grow keep a clean lineage clean, as long as the
\* step grants only over a clean one.
LEMMA LineageKept ==
    ASSUME Inv, uncertain' \subseteq uncertain, tip' \in Nat, tip' >= tip,
           gate'.state = "recovering" => (gate.state = "recovering" /\ tip' = tip) \/ Clean
    PROVE  LineagePart'
BY DEF Inv, TypeOK, UncertainWritten, GrantedLineageClean, LineagePart, Clean

\* A step that grants nothing and leaves the head and the operations alone keeps
\* the lineage part.
LEMMA LineageStays ==
    ASSUME Inv, UNCHANGED <<uncertain, tip>>,
           gate'.state = "recovering" => gate.state = "recovering"
    PROVE  LineagePart'
<1>1. tip' \in Nat /\ tip' >= tip BY DEF Inv, TypeOK
<1> QED BY Zenon, <1>1, LineageKept

\* initialize never grants.
LEMMA CurrentGrants ==
    ASSUME Inv, Current.gate.state = "recovering"
    PROVE  gate.state = "recovering"
<1>1. BlockRow(Row(generation, gate), "host").gate.state # "recovering"
  <2>1. RowOK(Row(generation, gate))
    BY RowFields DEF Inv, TypeOK, RowOK, GenerationBounds, OpenBlockUngranted, GateAtHead
  <2> QED BY Zenon, <2>1, BlockRowOK DEF Reasons
<1>2. Idle.state = "idle" BY Zenon DEF Idle
<1> QED BY <1>1, <1>2, RowFields DEF Current

-----------------------------------------------------------------------------
(* The steps of a round driver, from select to settle, keep the invariant. *)

\* next_round
LEMMA SelectInv == ASSUME Inv, NEW i \in Incarnations, Select(i) PROVE Inv'
<1>1. RowOK(Current) BY Zenon, CurrentOK
<1>2. /\ Install(Current) /\ Goto(i, "selected") /\ i = binding
      /\ UNCHANGED <<binding, settled, tip, interrupted, escaped, uncertain, final, used,
                     granted, retried, input, bound, command, expects, target, attempt,
                     mine, due, attempts>>
      /\ snap' = [snap EXCEPT ![i] = Selection(Current)]
  BY Zenon DEF Select, frontierVars, inputVars, commandVars
<1>3. GatePart' BY Zenon, <1>1, <1>2, InstallOK
<1>4. DriverPart' /\ at' \in [Incarnations -> DriverStates]
  BY Zenon, <1>2, DriverMoves DEF DriverStates
<1>5. OtherTypes'
  <2>1. Selection(Current) \in Snapshot BY Zenon, <1>1, SnapshotType
  <2>2. snap' \in [Incarnations -> Snapshot] BY Zenon, <1>2, <2>1 DEF Inv, TypeOK
  <2> QED BY Zenon, <1>2, <1>4, <2>2 DEF OtherTypes, Inv, TypeOK
<1>6. LineagePart' BY Zenon, <1>2, CurrentGrants, LineageStays DEF Install
<1> QED BY Zenon, <1>3, <1>4, <1>5, <1>6, InvPartsNext

\* begin_inference and the attempt it issues
LEMMA BeginOK ==
    ASSUME Inv, NEW i \in Incarnations, i = binding, Begin(i, Current),
           UNCHANGED <<binding, tip, granted, uncertain>>
    PROVE  /\ GatePart' /\ DriverPart' /\ LineagePart'
           /\ at' \in [Incarnations -> DriverStates]
           /\ attempt' \in [Incarnations -> Nat] /\ attempts' \in Nat
<1>1. /\ i \in Nat /\ attempts \in Nat /\ attempts + 1 \in Nat
      /\ attempt \in [Incarnations -> Nat]
  BY DEF Inv, TypeOK, Incarnations
<1>2. /\ attempt' \in [Incarnations -> Nat] /\ attempts' \in Nat
      /\ attempt'[i] = attempts + 1
  BY Zenon, <1>1 DEF Begin
<1>3. gate' = Running(i, attempts + 1)
  BY Zenon, RowFields DEF Begin, Install
<1>4. GatePart'
  BY Zenon, <1>1, RunningOK DEF Begin
<1>5. DriverPart' /\ at' \in [Incarnations -> DriverStates]
  <2>1. Goto(i, "write") /\ "write" \in DriverStates
    BY Zenon DEF Begin, DriverStates
  <2> QED BY Zenon, <1>2, <1>3, <2>1, DriverMoves
<1>6. LineagePart'
  <2>1. gate'.state # "recovering" BY <1>1, <1>3, GateShapes, NoBlockType
  <2> QED BY <2>1, LineageKept DEF Inv, TypeOK
<1> QED BY Zenon, <1>2, <1>4, <1>5, <1>6

\* run_round on its selection
LEMMA BeginSelectedInv == ASSUME Inv, NEW i \in Incarnations, BeginSelected(i) PROVE Inv'
<1>1. /\ i = binding
      /\ UNCHANGED <<binding, settled, tip, interrupted, escaped, uncertain, final, used,
                     granted, retried, input, bound, command, expects, target, mine, due>>
  BY Zenon DEF BeginSelected, frontierVars, inputVars, commandVars
<1>2. CASE Begin(i, Current) /\ UNCHANGED snap
  <2>1. /\ GatePart' /\ DriverPart' /\ LineagePart' /\ at' \in [Incarnations -> DriverStates]
        /\ attempt' \in [Incarnations -> Nat] /\ attempts' \in Nat
    BY Zenon, <1>1, <1>2, BeginOK
  <2>2. OtherTypes' BY Zenon, <1>1, <1>2, <2>1 DEF OtherTypes, Inv, TypeOK
  <2> QED BY Zenon, <2>1, <2>2, InvPartsNext
<1>3. CASE EndRun(i) /\ UNCHANGED <<generation, gate, attempt, attempts>>
  <2>1. /\ DriverPart' /\ at' \in [Incarnations -> DriverStates]
        /\ snap' \in [Incarnations -> Snapshot]
    BY Zenon, <1>1, <1>3, EndRunOK
  <2>2. OtherTypes' BY Zenon, <1>1, <1>3, <2>1 DEF OtherTypes, Inv, TypeOK
  <2>3. GatePart' BY Zenon, <1>1, <1>3, GateKept
  <2>4. LineagePart' BY Zenon, <1>1, <1>3, LineageStays
  <2> QED BY Zenon, <2>1, <2>2, <2>3, <2>4, InvPartsNext
<1> QED BY Zenon, <1>2, <1>3 DEF BeginSelected

\* The next attempt of the run
LEMMA RebeginInv == ASSUME Inv, NEW i \in Incarnations, Rebegin(i) PROVE Inv'
<1>1. /\ i = binding
      /\ UNCHANGED <<binding, settled, tip, interrupted, escaped, uncertain, final, used,
                     granted, retried, input, bound, command, expects, target, mine, due>>
  BY Zenon DEF Rebegin, frontierVars, inputVars, commandVars
<1>2. CASE Begin(i, Current) /\ UNCHANGED snap
  <2>1. /\ GatePart' /\ DriverPart' /\ LineagePart' /\ at' \in [Incarnations -> DriverStates]
        /\ attempt' \in [Incarnations -> Nat] /\ attempts' \in Nat
    BY Zenon, <1>1, <1>2, BeginOK
  <2>2. OtherTypes' BY Zenon, <1>1, <1>2, <2>1 DEF OtherTypes, Inv, TypeOK
  <2> QED BY Zenon, <2>1, <2>2, InvPartsNext
<1>3. CASE EndRun(i) /\ UNCHANGED <<generation, gate, attempt, attempts>>
  <2>1. /\ DriverPart' /\ at' \in [Incarnations -> DriverStates]
        /\ snap' \in [Incarnations -> Snapshot]
    BY Zenon, <1>1, <1>3, EndRunOK
  <2>2. OtherTypes' BY Zenon, <1>1, <1>3, <2>1 DEF OtherTypes, Inv, TypeOK
  <2>3. GatePart' BY Zenon, <1>1, <1>3, GateKept
  <2>4. LineagePart' BY Zenon, <1>1, <1>3, LineageStays
  <2> QED BY Zenon, <2>1, <2>2, <2>3, <2>4, InvPartsNext
<1> QED BY Zenon, <1>2, <1>3 DEF Rebegin

\* A driver that streams finds its own attempt in the gate.
LEMMA StreamingGate ==
    ASSUME Inv, at[binding] \in {"write", "inbox", "stream"}
    PROVE  gate = Running(binding, attempt[binding]) /\ gate.state = "running"
           /\ Current = Row(generation, gate)
<1>1. gate = Running(binding, attempt[binding])
  BY Zenon DEF Inv, StreamingHoldsGate
<1>2. gate.state = "running" /\ gate.inc = binding
  BY Zenon, <1>1 DEF Running
<1> QED BY Zenon, <1>1, <1>2, CurrentOK

\* The recorded answer is resumed.
LEMMA ResumeRecordedInv == ASSUME Inv, NEW i \in Incarnations, ResumeRecorded(i) PROVE Inv'
<1>1. /\ i = binding /\ Goto(i, "completed")
      /\ UNCHANGED <<binding, settled, tip, interrupted, escaped, uncertain, final,
                     generation, gate, used, granted, retried, input, bound, command,
                     expects, target, attempt, mine, due, snap, attempts>>
  BY Zenon DEF ResumeRecorded, frontierVars, gateVars, inputVars, commandVars
<1>2. DriverPart' /\ at' \in [Incarnations -> DriverStates]
  BY Zenon, <1>1, DriverMoves DEF DriverStates
<1>3. OtherTypes' BY Zenon, <1>1, <1>2 DEF OtherTypes, Inv, TypeOK
<1>4. GatePart' BY Zenon, <1>1, GateKept
<1>5. LineagePart' BY Zenon, <1>1, LineageStays
<1> QED BY Zenon, <1>2, <1>3, <1>4, <1>5, InvPartsNext

\* write_embedded_request moves the head, which only the gate's holder does.
LEMMA WriteRequestInv == ASSUME Inv, NEW i \in Incarnations, WriteRequest(i) PROVE Inv'
<1>1. /\ i = binding /\ at[i] \in {"write", "stream"} /\ Goto(i, "inbox") /\ tip' = tip + 1
      /\ UNCHANGED <<binding, settled, interrupted, escaped, uncertain, final,
                     generation, gate, used, granted, retried, input, bound, command,
                     expects, target, attempt, mine, due, snap, attempts>>
  BY Zenon DEF WriteRequest, gateVars, inputVars, commandVars
<1>2. gate = Running(i, attempt[i]) /\ gate.state = "running"
  BY Zenon, <1>1, StreamingGate
<1>3. DriverPart' /\ at' \in [Incarnations -> DriverStates]
  BY Zenon, <1>1, <1>2, DriverMoves DEF DriverStates
<1>4. tip' \in Nat /\ tip' >= tip BY <1>1 DEF Inv, TypeOK
<1>5. OtherTypes' BY Zenon, <1>1, <1>3, <1>4 DEF OtherTypes, Inv, TypeOK
<1>6. GatePart'
  BY Zenon, <1>1, <1>2 DEF Inv, TypeOK, GatePart, GenerationBounds, OpenBlockUngranted, GateAtHead
<1>7. LineagePart' BY Zenon, <1>1, <1>2, <1>4, LineageKept
<1> QED BY Zenon, <1>3, <1>5, <1>6, <1>7, InvPartsNext

\* append_unread_envelopes, by any incarnation's driver
LEMMA AppendUnreadInv == ASSUME Inv, NEW i \in Incarnations, AppendUnread(i) PROVE Inv'
<1>1. /\ at[i] = "inbox" /\ Goto(i, "stream")
      /\ input' = [n \in Inputs |-> IF n \in Unread THEN "delivered" ELSE input[n]]
      /\ UNCHANGED <<binding, settled, tip, interrupted, escaped, uncertain, final,
                     generation, gate, used, granted, retried, bound, command,
                     expects, target, attempt, mine, due, snap, attempts>>
  BY Zenon DEF AppendUnread, frontierVars, gateVars, commandVars
<1>2. i = binding => gate = Running(i, attempt[i])
  BY Zenon, <1>1, StreamingGate
<1>3. DriverPart' /\ at' \in [Incarnations -> DriverStates]
  BY Zenon, <1>1, <1>2, DriverMoves DEF DriverStates
<1>4. input' \in [Inputs -> {"new", "undelivered", "delivered"}]
  BY Zenon, <1>1 DEF Inv, TypeOK
<1>5. OtherTypes' BY Zenon, <1>1, <1>3, <1>4 DEF OtherTypes, Inv, TypeOK
<1>6. GatePart' BY Zenon, <1>1, GateKept
<1>7. LineagePart' BY Zenon, <1>1, LineageStays
<1> QED BY Zenon, <1>3, <1>5, <1>6, <1>7, InvPartsNext

\* An item is retained while the gate is held, so no grant is outstanding.
LEMMA RetainItemInv == ASSUME Inv, NEW i \in Incarnations, RetainItem(i) PROVE Inv'
<1>1. /\ i = binding /\ at[i] = "stream" /\ escaped' = escaped \cup {tip}
      /\ uncertain' \in {uncertain, uncertain \cup {tip}}
      /\ UNCHANGED <<binding, settled, tip, interrupted, final,
                     generation, gate, used, granted, retried, input, bound, command,
                     expects, target, at, attempt, mine, due, snap, attempts>>
  BY Zenon DEF RetainItem, gateVars, inputVars, commandVars, driverVars
<1>2. gate.state = "running" BY Zenon, <1>1, StreamingGate
<1>3. DriverPart' BY Zenon, <1>1, DriversKept
<1>4. escaped' \subseteq Nat /\ uncertain' \subseteq Nat BY Zenon, <1>1 DEF Inv, TypeOK
<1>5. OtherTypes' BY Zenon, <1>1, <1>4 DEF OtherTypes, Inv, TypeOK
<1>6. GatePart' BY Zenon, <1>1, GateKept
<1>7. LineagePart'
  BY <1>1, <1>2 DEF LineagePart, UncertainWritten, GrantedLineageClean, Inv, TypeOK
<1> QED BY Zenon, <1>3, <1>5, <1>6, <1>7, InvPartsNext

\* An operation settles.
LEMMA OperationTerminalInv == ASSUME Inv, NEW r, OperationTerminal(r) PROVE Inv'
<1>1. /\ uncertain' = uncertain \ {r}
      /\ UNCHANGED <<binding, settled, tip, interrupted, escaped, final,
                     generation, gate, used, granted, retried, input, bound, command,
                     expects, target, at, attempt, mine, due, snap, attempts>>
  BY Zenon DEF OperationTerminal, gateVars, inputVars, commandVars, driverVars
<1>2. DriverPart' BY Zenon, <1>1, DriversKept
<1>3. uncertain' \subseteq uncertain BY Zenon, <1>1
<1>4. OtherTypes' BY Zenon, <1>1, <1>3 DEF OtherTypes, Inv, TypeOK
<1>5. GatePart' BY Zenon, <1>1, GateKept
<1>6. tip' \in Nat /\ tip' >= tip BY <1>1 DEF Inv, TypeOK
<1>7. LineagePart' BY Zenon, <1>1, <1>3, <1>6, LineageKept
<1> QED BY Zenon, <1>2, <1>4, <1>5, <1>7, InvPartsNext

\* The round ends.
LEMMA EndRoundInv == ASSUME Inv, NEW i \in Incarnations, EndRound(i) PROVE Inv'
<1>1. /\ i = binding
      /\ UNCHANGED <<binding, settled, tip, interrupted, escaped, uncertain,
                     generation, gate, used, granted, retried, input, bound, command,
                     expects, target, attempt, mine, due, attempts>>
  BY Zenon DEF EndRound, gateVars, inputVars, commandVars
<1>2. /\ DriverPart' /\ at' \in [Incarnations -> DriverStates]
      /\ snap' \in [Incarnations -> Snapshot] /\ final' \subseteq Nat
  <2>1. CASE /\ Goto(i, "completed") \/ Goto(i, "cancelled")
             /\ final' \in {final, final \cup {tip}} /\ UNCHANGED snap
    BY Zenon, <1>1, <2>1, DriverMoves DEF DriverStates, Inv, TypeOK
  <2>2. CASE EndRun(i) /\ UNCHANGED final
    BY Zenon, <1>1, <2>2, EndRunOK DEF Inv, TypeOK
  <2> QED BY Zenon, <2>1, <2>2 DEF EndRound
<1>3. OtherTypes' BY Zenon, <1>1, <1>2 DEF OtherTypes, Inv, TypeOK
<1>4. GatePart' BY Zenon, <1>1, GateKept
<1>5. LineagePart' BY Zenon, <1>1, LineageStays
<1> QED BY Zenon, <1>2, <1>3, <1>4, <1>5, InvPartsNext

\* Blocking the run leaves a fresh block in the gate and with the driver.
LEMMA BlockRunOK ==
    ASSUME Inv, NEW i \in Incarnations, NEW reason \in Reasons, i = binding,
           BlockRun(i, reason), UNCHANGED <<binding, tip, granted, uncertain>>
    PROVE  /\ GatePart' /\ DriverPart' /\ LineagePart'
           /\ at' \in [Incarnations -> DriverStates] /\ mine' \in [Incarnations -> Block]
<1> DEFINE row == BlockRow(Current, reason)
<1>1. RowOK(row) /\ row.gate.state = "blocked" /\ row.gate.block \in Block
  BY Zenon, CurrentOK, BlockRowOK
<1>2. /\ Install(row) /\ Goto(i, "assess")
      /\ mine' = [mine EXCEPT ![i] = row.gate.block]
  BY Zenon DEF BlockRun
<1> HIDE DEF row
<1>3. GatePart' BY Zenon, <1>1, <1>2, InstallOK
<1>4. DriverPart' /\ at' \in [Incarnations -> DriverStates]
  BY Zenon, <1>2, DriverMoves DEF DriverStates
<1>5. LineagePart' BY Zenon, <1>1, <1>2, LineageStays DEF Install
<1>6. mine' \in [Incarnations -> Block] BY Zenon, <1>1, <1>2 DEF Inv, TypeOK
<1> QED BY Zenon, <1>3, <1>4, <1>5, <1>6

\* record_interrupted_model_request
LEMMA StreamInterruptedInv ==
    ASSUME Inv, NEW i \in Incarnations, StreamInterrupted(i) PROVE Inv'
<1>1. /\ i = binding /\ BlockRun(i, "stream") /\ interrupted' = interrupted \cup {tip}
      /\ UNCHANGED <<binding, settled, tip, escaped, uncertain, final, used, granted,
                     retried, input, bound, command, expects, target, attempt, due,
                     snap, attempts>>
  BY Zenon DEF StreamInterrupted, inputVars, commandVars
<1>2. /\ GatePart' /\ DriverPart' /\ LineagePart'
      /\ at' \in [Incarnations -> DriverStates] /\ mine' \in [Incarnations -> Block]
  BY Zenon, <1>1, BlockRunOK DEF Reasons
<1>3. interrupted' \subseteq Nat BY Zenon, <1>1 DEF Inv, TypeOK
<1>4. OtherTypes' BY Zenon, <1>1, <1>2, <1>3 DEF OtherTypes, Inv, TypeOK
<1> QED BY Zenon, <1>2, <1>4, InvPartsNext

\* record_failed_model_request
LEMMA RequestRejectedInv ==
    ASSUME Inv, NEW i \in Incarnations, RequestRejected(i) PROVE Inv'
<1>1. /\ i = binding /\ BlockRun(i, "rejected") /\ settled' = tip
      /\ UNCHANGED <<binding, tip, interrupted, escaped, uncertain, final, used, granted,
                     retried, input, bound, command, expects, target, attempt, due,
                     snap, attempts>>
  BY Zenon DEF RequestRejected, inputVars, commandVars
<1>2. /\ GatePart' /\ DriverPart' /\ LineagePart'
      /\ at' \in [Incarnations -> DriverStates] /\ mine' \in [Incarnations -> Block]
  BY Zenon, <1>1, BlockRunOK DEF Reasons
<1>3. OtherTypes' BY Zenon, <1>1, <1>2 DEF OtherTypes, Inv, TypeOK
<1> QED BY Zenon, <1>2, <1>3, InvPartsNext

\* block_embedded_inference, granted or refused
LEMMA StreamFailedInv ==
    ASSUME Inv, NEW i \in Incarnations, StreamFailed(i) PROVE Inv'
<1>1. /\ i = binding
      /\ UNCHANGED <<binding, settled, tip, interrupted, escaped, uncertain, final, used,
                     granted, retried, input, bound, command, expects, target, attempt,
                     due, attempts>>
  BY Zenon DEF StreamFailed, frontierVars, inputVars, commandVars
<1>2. CASE BlockRun(i, "failed") /\ UNCHANGED snap
  <2>1. /\ GatePart' /\ DriverPart' /\ LineagePart'
        /\ at' \in [Incarnations -> DriverStates] /\ mine' \in [Incarnations -> Block]
    BY Zenon, <1>1, <1>2, BlockRunOK DEF Reasons
  <2>2. OtherTypes' BY Zenon, <1>1, <1>2, <2>1 DEF OtherTypes, Inv, TypeOK
  <2> QED BY Zenon, <2>1, <2>2, InvPartsNext
<1>3. CASE EndRun(i) /\ UNCHANGED <<generation, gate, mine>>
  <2>1. /\ DriverPart' /\ at' \in [Incarnations -> DriverStates]
        /\ snap' \in [Incarnations -> Snapshot]
    BY Zenon, <1>1, <1>3, EndRunOK
  <2>2. OtherTypes' BY Zenon, <1>1, <1>3, <2>1 DEF OtherTypes, Inv, TypeOK
  <2>3. GatePart' BY Zenon, <1>1, <1>3, GateKept
  <2>4. LineagePart' BY Zenon, <1>1, <1>3, LineageStays
  <2> QED BY Zenon, <2>1, <2>2, <2>3, <2>4, InvPartsNext
<1> QED BY Zenon, <1>2, <1>3 DEF StreamFailed

\* An idle gate is a sound row.
LEMMA IdleOK ==
    ASSUME Inv, NEW g \in Nat, g >= generation
    PROVE  RowOK(Row(g, Idle)) /\ Idle.state = "idle"
<1>1. Idle \in Gate /\ Idle.state = "idle" /\ Idle.block.generation = 0
  BY Zenon, GateShapes, NoBlockType
<1>2. Row(g, Idle).generation = g /\ Row(g, Idle).gate = Idle BY Zenon, RowFields
<1> QED BY <1>1, <1>2 DEF RowOK

\* finish_embedded_inference
LEMMA FinishAttemptInv ==
    ASSUME Inv, NEW i \in Incarnations, FinishAttempt(i) PROVE Inv'
<1>1. /\ i = binding /\ Goto(i, "head")
      /\ UNCHANGED <<binding, settled, tip, interrupted, escaped, uncertain, final,
                     granted, input, command, expects, target, attempt, mine, due, snap,
                     attempts>>
      /\ \/ /\ Install(Row(generation, Idle)) /\ Expire(attempt[i])
            /\ used' \in {0, used} /\ retried' \in {0, retried}
         \/ UNCHANGED <<generation, gate, bound, used, retried>>
  BY Zenon DEF FinishAttempt, frontierVars, commandVars
<1>2. DriverPart' /\ at' \in [Incarnations -> DriverStates]
  BY Zenon, <1>1, DriverMoves DEF DriverStates
<1>3. GatePart'
  <2>1. RowOK(Row(generation, Idle)) BY IdleOK DEF Inv, TypeOK
  <2> QED BY Zenon, <1>1, <2>1, InstallOK, GateKept
<1>4. bound' \in [Inputs -> Nat] /\ used' \in Nat /\ retried' \in Nat
  BY <1>1 DEF Expire, Inv, TypeOK
<1>5. OtherTypes' BY Zenon, <1>1, <1>2, <1>4 DEF OtherTypes, Inv, TypeOK
<1>6. LineagePart'
  <2>1. gate'.state = "recovering" => gate.state = "recovering"
    <3>1. gate' = gate \/ gate' = Idle BY <1>1, RowFields DEF Install
    <3> QED BY <3>1 DEF Idle
  <2> QED BY Zenon, <1>1, <2>1, LineageStays
<1> QED BY Zenon, <1>2, <1>3, <1>5, <1>6, InvPartsNext

\* settle_tx
LEMMA SettleHeadInv == ASSUME Inv, NEW i \in Incarnations, SettleHead(i) PROVE Inv'
<1>1. /\ i = binding /\ EndRun(i) /\ settled' \in {tip, settled}
      /\ UNCHANGED <<binding, tip, interrupted, escaped, uncertain, final, generation,
                     gate, used, granted, retried, input, bound, command, expects,
                     target, attempt, mine, due, attempts>>
  BY Zenon DEF SettleHead, gateVars, inputVars, commandVars
<1>2. /\ DriverPart' /\ at' \in [Incarnations -> DriverStates]
      /\ snap' \in [Incarnations -> Snapshot]
  BY Zenon, <1>1, EndRunOK
<1>3. OtherTypes' BY Zenon, <1>1, <1>2 DEF OtherTypes, Inv, TypeOK
<1>4. GatePart' BY Zenon, <1>1, GateKept
<1>5. LineagePart' BY Zenon, <1>1, LineageStays
<1> QED BY Zenon, <1>2, <1>3, <1>4, <1>5, InvPartsNext

\* The run goes on or ends.
LEMMA AssessRoundInv == ASSUME Inv, NEW i \in Incarnations, AssessRound(i) PROVE Inv'
<1>1. /\ i = binding
      /\ UNCHANGED <<binding, settled, tip, interrupted, escaped, uncertain, final,
                     generation, gate, used, granted, retried, input, bound, command,
                     expects, target, attempt, mine, due, attempts>>
  BY Zenon DEF AssessRound, frontierVars, gateVars, inputVars, commandVars
<1>2. /\ DriverPart' /\ at' \in [Incarnations -> DriverStates]
      /\ snap' \in [Incarnations -> Snapshot]
  <2>1. CASE Goto(i, "continue") /\ UNCHANGED snap
    BY Zenon, <1>1, <2>1, DriverMoves DEF DriverStates, Inv, TypeOK
  <2>2. CASE EndRun(i)
    BY Zenon, <1>1, <2>2, EndRunOK
  <2> QED BY Zenon, <2>1, <2>2 DEF AssessRound
<1>3. OtherTypes' BY Zenon, <1>1, <1>2 DEF OtherTypes, Inv, TypeOK
<1>4. GatePart' BY Zenon, <1>1, GateKept
<1>5. LineagePart' BY Zenon, <1>1, LineageStays
<1> QED BY Zenon, <1>2, <1>3, <1>4, <1>5, InvPartsNext

\* A fenced driver ends its run and touches nothing else.
LEMMA FencedInv == ASSUME Inv, NEW i \in Incarnations, Fenced(i) PROVE Inv'
<1>1. /\ at[i] # "idle" /\ EndRun(i)
      /\ UNCHANGED <<binding, settled, tip, interrupted, escaped, uncertain, final,
                     generation, gate, used, granted, retried, input, bound, command,
                     expects, target, attempt, mine, due, attempts>>
  BY Zenon DEF Fenced, frontierVars, gateVars, inputVars, commandVars
<1>2. /\ DriverPart' /\ at' \in [Incarnations -> DriverStates]
      /\ snap' \in [Incarnations -> Snapshot]
  BY Zenon, <1>1, EndRunOK
<1>3. OtherTypes' BY Zenon, <1>1, <1>2 DEF OtherTypes, Inv, TypeOK
<1>4. GatePart' BY Zenon, <1>1, GateKept
<1>5. LineagePart' BY Zenon, <1>1, LineageStays
<1> QED BY Zenon, <1>2, <1>3, <1>4, <1>5, InvPartsNext

-----------------------------------------------------------------------------

(* The steps that grant, refuse or reserve, and the steps of the host and the *)
(* operator, keep the invariant.                                             *)

\* A refusal never grants.
LEMMA RefuseRowGrants ==
    ASSUME NEW row, NEW expected, NEW why,
           RefuseRow(row, expected, why).gate.state = "recovering"
    PROVE  row.gate.state = "recovering"
BY RowFields DEF RefuseRow, Blocked

\* checked_exact_grant on the current row grants over a clean lineage only.
LEMMA ExactGrantLineage ==
    ASSUME Inv, NEW expected, NEW projects, ExactGrant(Current, expected, projects),
           UNCHANGED <<tip, uncertain>>
    PROVE  LineagePart'
<1>1. CASE Refusal(Current, expected, projects) = "none"
  <2>1. Clean BY Zenon, <1>1, RefusalOK
  <2>2. tip' \in Nat /\ tip' >= tip BY DEF Inv, TypeOK
  <2> QED BY Zenon, <2>1, <2>2, LineageKept
<1>2. CASE Refusal(Current, expected, projects) # "none"
  <2>1. gate' = RefuseRow(Current, expected, Refusal(Current, expected, projects)).gate
    BY Zenon, <1>2 DEF ExactGrant, Install
  <2>2. gate'.state = "recovering" => gate.state = "recovering"
    BY Zenon, <2>1, RefuseRowGrants, CurrentGrants
  <2> QED BY Zenon, <2>2, LineageStays
<1> QED BY Zenon, <1>1, <1>2

\* continue_queued_input
LEMMA ContinueQueuedInputInv ==
    ASSUME Inv, NEW i \in Incarnations, ContinueQueuedInput(i) PROVE Inv'
<1>1. /\ i = binding /\ Expire(attempt[i])
      /\ UNCHANGED <<binding, settled, tip, interrupted, escaped, uncertain, final, used,
                     retried, input, command, expects, target, attempt, mine, due, snap,
                     attempts>>
      /\ \/ \E projects \in BOOLEAN : ExactGrant(Current, Current.gate.block, projects)
         \/ UNCHANGED <<generation, gate, granted>>
      /\ Goto(i, "rebegin") \/ Goto(i, "reserve")
  BY Zenon DEF ContinueQueuedInput, frontierVars, commandVars
<1>2. DriverPart' /\ at' \in [Incarnations -> DriverStates]
  BY Zenon, <1>1, DriverMoves DEF DriverStates
<1>3. bound' \in [Inputs -> Nat] BY Zenon, <1>1 DEF Expire, Inv, TypeOK
<1>4. OtherTypes' BY Zenon, <1>1, <1>2, <1>3 DEF OtherTypes, Inv, TypeOK
<1>5. CASE \E projects \in BOOLEAN : ExactGrant(Current, Current.gate.block, projects)
  <2>1. RowOK(Current) /\ Current.gate.block \in Block
    BY Zenon, CurrentOK DEF RowOK, Gate
  <2>2. GatePart' BY Zenon, <1>1, <1>5, <2>1, ExactGrantOK
  <2>3. LineagePart' BY Zenon, <1>1, <1>5, ExactGrantLineage
  <2> QED BY Zenon, <1>2, <1>4, <2>2, <2>3, InvPartsNext
<1>6. CASE UNCHANGED <<generation, gate, granted>>
  <2>1. GatePart' BY Zenon, <1>1, <1>6, GateKept
  <2>2. LineagePart' BY Zenon, <1>1, <1>6, LineageStays
  <2> QED BY Zenon, <1>2, <1>4, <2>1, <2>2, InvPartsNext
<1> QED BY Zenon, <1>1, <1>5, <1>6

\* The gate of a reservation is a sound row: its block is the current one.
LEMMA AutoRetryOK ==
    ASSUME Inv, NEW i \in Nat, NEW b \in Block, NEW n \in Nat, MayRetry(Current, b)
    PROVE  RowOK(Row(Current.generation, AutoRetry(i, b, n)))
           /\ AutoRetry(i, b, n).state = "auto_retry"
<1>1. RowOK(Current) /\ Current.gate.state = "blocked" /\ Current.gate.block = b
  BY Zenon, CurrentOK DEF MayRetry
<1>2. /\ AutoRetry(i, b, n) \in Gate /\ AutoRetry(i, b, n).state = "auto_retry"
      /\ AutoRetry(i, b, n).block = b
  BY GateShapes
<1> QED BY <1>1, <1>2, RowFields DEF RowOK

\* reserve_automatic_retry
LEMMA ReserveRetryInv == ASSUME Inv, NEW i \in Incarnations, ReserveRetry(i) PROVE Inv'
<1>a. /\ i = binding
      /\ UNCHANGED <<binding, settled, tip, interrupted, escaped, uncertain, final,
                     granted, input, bound, command, expects, target, attempt, mine,
                     attempts>>
  BY Zenon DEF ReserveRetry, frontierVars, inputVars, commandVars
<1>b. /\ used \in Nat /\ mine[i] \in Block
      /\ due \in [Incarnations -> Nat] /\ retried \in Nat
  BY Zenon DEF Inv, TypeOK
<1>c. i \in Nat BY DEF Incarnations
<1>1. /\ i = binding /\ i \in Nat /\ used \in Nat /\ mine[i] \in Block
      /\ due \in [Incarnations -> Nat] /\ retried \in Nat
      /\ UNCHANGED <<binding, settled, tip, interrupted, escaped, uncertain, final,
                     granted, input, bound, command, expects, target, attempt, mine,
                     attempts>>
  BY Zenon, <1>a, <1>b, <1>c
<1>2. CASE /\ MayRetry(Current, mine[i])
           /\ Install(Row(Current.generation, AutoRetry(i, mine[i], used + 1)))
           /\ used' = used + 1 /\ retried' = retried + 1
           /\ due' = [due EXCEPT ![i] = used + 1]
           /\ Goto(i, "waiting") /\ UNCHANGED snap
  <2>1. /\ RowOK(Row(Current.generation, AutoRetry(i, mine[i], used + 1)))
        /\ AutoRetry(i, mine[i], used + 1).state = "auto_retry"
    BY <1>1, <1>2, AutoRetryOK
  <2>2. GatePart' BY Zenon, <1>1, <1>2, <2>1, InstallOK
  <2>3. DriverPart' /\ at' \in [Incarnations -> DriverStates]
    BY Zenon, <1>1, <1>2, DriverMoves DEF DriverStates
  <2>4. used' \in Nat /\ retried' \in Nat /\ due' \in [Incarnations -> Nat]
    BY <1>1, <1>2
  <2>5. OtherTypes' BY Zenon, <1>1, <1>2, <2>3, <2>4 DEF OtherTypes, Inv, TypeOK
  <2>6. gate'.state # "recovering" BY <1>2, <2>1, RowFields DEF Install
  <2>7. LineagePart' BY Zenon, <1>1, <2>6, LineageStays
  <2> QED BY Zenon, <2>2, <2>3, <2>5, <2>7, InvPartsNext
<1>3. CASE /\ Install(RefuseRow(Current, mine[i], "projection"))
           /\ EndRun(i) /\ UNCHANGED <<used, retried, due>>
  <2>1. RowOK(RefuseRow(Current, mine[i], "projection"))
    BY Zenon, <1>1, CurrentOK, RefuseRowOK DEF Refusals
  <2>2. GatePart' BY Zenon, <1>1, <1>3, <2>1, InstallOK
  <2>3. /\ DriverPart' /\ at' \in [Incarnations -> DriverStates]
        /\ snap' \in [Incarnations -> Snapshot]
    BY Zenon, <1>1, <1>3, EndRunOK
  <2>4. OtherTypes' BY Zenon, <1>1, <1>3, <2>3 DEF OtherTypes, Inv, TypeOK
  <2>5. gate'.state = "recovering" => gate.state = "recovering"
    BY Zenon, <1>3, RefuseRowGrants, CurrentGrants DEF Install
  <2>6. LineagePart' BY Zenon, <1>1, <2>5, LineageStays
  <2> QED BY Zenon, <2>2, <2>3, <2>4, <2>6, InvPartsNext
<1>4. CASE EndRun(i) /\ UNCHANGED <<generation, gate, used, retried, due>>
  <2>1. /\ DriverPart' /\ at' \in [Incarnations -> DriverStates]
        /\ snap' \in [Incarnations -> Snapshot]
    BY Zenon, <1>1, <1>4, EndRunOK
  <2>2. OtherTypes' BY Zenon, <1>1, <1>4, <2>1 DEF OtherTypes, Inv, TypeOK
  <2>3. GatePart' BY Zenon, <1>1, <1>4, GateKept
  <2>4. LineagePart' BY Zenon, <1>1, <1>4, LineageStays
  <2> QED BY Zenon, <2>1, <2>2, <2>3, <2>4, InvPartsNext
<1> QED BY Zenon, <1>2, <1>3, <1>4 DEF ReserveRetry

\* activate_automatic_retry
LEMMA ActivateRetryInv == ASSUME Inv, NEW i \in Incarnations, ActivateRetry(i) PROVE Inv'
<1>1. /\ i = binding /\ mine[i] \in Block
      /\ UNCHANGED <<binding, settled, tip, interrupted, escaped, uncertain, final, used,
                     retried, input, bound, command, expects, target, attempt, mine, due,
                     attempts>>
      /\ \/ \E projects \in BOOLEAN : ExactGrant(Current, mine[i], projects)
         \/ UNCHANGED <<generation, gate, granted>>
      /\ (Goto(i, "rebegin") /\ UNCHANGED snap) \/ EndRun(i)
  BY Zenon DEF ActivateRetry, frontierVars, inputVars, commandVars, Inv, TypeOK
<1>2. /\ DriverPart' /\ at' \in [Incarnations -> DriverStates]
      /\ snap' \in [Incarnations -> Snapshot]
  <2>1. CASE Goto(i, "rebegin") /\ UNCHANGED snap
    BY Zenon, <1>1, <2>1, DriverMoves DEF DriverStates, Inv, TypeOK
  <2>2. CASE EndRun(i)
    BY Zenon, <1>1, <2>2, EndRunOK
  <2> QED BY Zenon, <1>1, <2>1, <2>2
<1>3. OtherTypes' BY Zenon, <1>1, <1>2 DEF OtherTypes, Inv, TypeOK
<1>4. CASE \E projects \in BOOLEAN : ExactGrant(Current, mine[i], projects)
  <2>1. GatePart' BY Zenon, <1>1, <1>4, CurrentOK, ExactGrantOK
  <2>2. LineagePart' BY Zenon, <1>1, <1>4, ExactGrantLineage
  <2> QED BY Zenon, <1>2, <1>3, <2>1, <2>2, InvPartsNext
<1>5. CASE UNCHANGED <<generation, gate, granted>>
  <2>1. GatePart' BY Zenon, <1>1, <1>5, GateKept
  <2>2. LineagePart' BY Zenon, <1>1, <1>5, LineageStays
  <2> QED BY Zenon, <1>2, <1>3, <2>1, <2>2, InvPartsNext
<1> QED BY Zenon, <1>1, <1>4, <1>5

\* cancel_automatic_retry
LEMMA CancelRetryInv == ASSUME Inv, NEW i \in Incarnations, CancelRetry(i) PROVE Inv'
<1>1. /\ i = binding /\ EndRun(i)
      /\ UNCHANGED <<binding, settled, tip, interrupted, escaped, uncertain, final, used,
                     granted, retried, input, bound, command, expects, target, attempt,
                     mine, due, attempts>>
      /\ Install(BlockRow(Current, "host")) \/ UNCHANGED <<generation, gate>>
  BY Zenon DEF CancelRetry, frontierVars, inputVars, commandVars
<1>2. /\ DriverPart' /\ at' \in [Incarnations -> DriverStates]
      /\ snap' \in [Incarnations -> Snapshot]
  BY Zenon, <1>1, EndRunOK
<1>3. OtherTypes' BY Zenon, <1>1, <1>2 DEF OtherTypes, Inv, TypeOK
<1>4. RowOK(BlockRow(Current, "host")) /\ BlockRow(Current, "host").gate.state = "blocked"
  BY Zenon, CurrentOK, BlockRowOK DEF Reasons
<1>5. GatePart' BY Zenon, <1>1, <1>4, InstallOK, GateKept
<1>6. gate'.state = "recovering" => gate.state = "recovering"
  BY Zenon, <1>1, <1>4 DEF Install
<1>7. LineagePart' BY Zenon, <1>1, <1>6, LineageStays
<1> QED BY Zenon, <1>2, <1>3, <1>5, <1>7, InvPartsNext

\* A state read fences a predecessor.
LEMMA ObserveInv == ASSUME Inv, Observe PROVE Inv'
<1>1. /\ Install(Current)
      /\ UNCHANGED <<binding, settled, tip, interrupted, escaped, uncertain, final, used,
                     granted, retried, input, bound, command, expects, target, at,
                     attempt, mine, due, snap, attempts>>
  BY Zenon DEF Observe, frontierVars, inputVars, commandVars, driverVars
<1>2. GatePart' BY Zenon, <1>1, CurrentOK, InstallOK
<1>3. at[binding] \in {"write", "inbox", "stream"} => gate' = gate
  BY <1>1, StreamingGate, RowFields DEF Install
<1>4. DriverPart' BY Zenon, <1>1, <1>3, DriversKept
<1>5. OtherTypes' BY Zenon, <1>1 DEF OtherTypes, Inv, TypeOK
<1>6. LineagePart' BY Zenon, <1>1, CurrentGrants, LineageStays DEF Install
<1> QED BY Zenon, <1>2, <1>4, <1>5, <1>6, InvPartsNext

\* admit_embedded_input_tx: a block is resumed in the admission's transaction.
LEMMA AdmitInputInv == ASSUME Inv, NEW n \in Inputs, AdmitInput(n) PROVE Inv'
<1>1. /\ input' = [input EXCEPT ![n] = "undelivered"]
      /\ UNCHANGED <<binding, settled, tip, interrupted, escaped, uncertain, final, used,
                     retried, command, expects, target, at, attempt, mine, due, snap,
                     attempts>>
  BY Zenon DEF AdmitInput, frontierVars, commandVars, driverVars
<1>2. input' \in [Inputs -> {"new", "undelivered", "delivered"}]
  BY Zenon, <1>1 DEF Inv, TypeOK
<1>3. RowOK(Current) /\ Current.gate.block \in Block /\ Current.gate.attempt \in Nat
  BY Zenon, CurrentOK DEF RowOK, Gate
<1>4. at[binding] \in {"write", "inbox", "stream"} =>
         Current.gate = gate /\ Current.gate.state = "running"
  BY StreamingGate, RowFields
<1>5. CASE /\ Current.gate.state \in {"blocked", "auto_retry"}
           /\ \E projects \in BOOLEAN : ExactGrant(Current, Current.gate.block, projects)
           /\ UNCHANGED bound
  <2>1. GatePart' BY Zenon, <1>1, <1>3, <1>5, ExactGrantOK
  <2>2. LineagePart' BY Zenon, <1>1, <1>5, ExactGrantLineage
  <2>3. DriverPart' BY Zenon, <1>1, <1>4, <1>5, DriversKept
  <2>4. OtherTypes' BY Zenon, <1>1, <1>2, <1>5 DEF OtherTypes, Inv, TypeOK
  <2> QED BY Zenon, <2>1, <2>2, <2>3, <2>4, InvPartsNext
<1>6. CASE /\ Current.gate.state \notin {"blocked", "auto_retry"}
           /\ Install(Current)
           /\ bound' = [bound EXCEPT ![n] = IF Current.gate.state = "running"
                                            THEN Current.gate.attempt ELSE 0]
           /\ UNCHANGED granted
  <2>1. GatePart' BY Zenon, <1>1, <1>3, <1>6, InstallOK
  <2>2. LineagePart' BY Zenon, <1>1, <1>6, CurrentGrants, LineageStays DEF Install
  <2>3. DriverPart' BY Zenon, <1>1, <1>4, <1>6, DriversKept DEF Install
  <2>4. bound' \in [Inputs -> Nat] BY Zenon, <1>3, <1>6 DEF Inv, TypeOK
  <2>5. OtherTypes' BY Zenon, <1>1, <1>2, <2>4 DEF OtherTypes, Inv, TypeOK
  <2> QED BY Zenon, <2>1, <2>2, <2>3, <2>5, InvPartsNext
<1> QED BY Zenon, <1>5, <1>6 DEF AdmitInput

\* enqueue_embedded_command
LEMMA EnqueueRecoverInv == ASSUME Inv, NEW k \in Recovers, EnqueueRecover(k) PROVE Inv'
<1>1. /\ command' = [command EXCEPT ![k] = "queued"]
      /\ expects' = [expects EXCEPT ![k] = gate.block]
      /\ target' = [target EXCEPT ![k] = binding]
      /\ UNCHANGED <<binding, settled, tip, interrupted, escaped, uncertain, final,
                     generation, gate, used, granted, retried, input, bound, at, attempt,
                     mine, due, snap, attempts>>
  BY Zenon DEF EnqueueRecover, frontierVars, gateVars, inputVars, driverVars
<1>2. gate.block \in Block /\ binding \in Nat
  BY DEF Inv, TypeOK, Gate, Incarnations
<1>3. /\ command' \in [Recovers -> {"none", "queued", "dispatching", "authorized",
                                    "refused", "unconfirmed"}]
      /\ expects' \in [Recovers -> Block] /\ target' \in [Recovers -> Nat]
  BY Zenon, <1>1, <1>2 DEF Inv, TypeOK
<1>4. OtherTypes' BY Zenon, <1>1, <1>3 DEF OtherTypes, Inv, TypeOK
<1>5. GatePart' BY Zenon, <1>1, GateKept
<1>6. DriverPart' BY Zenon, <1>1, DriversKept
<1>7. LineagePart' BY Zenon, <1>1, LineageStays
<1> QED BY Zenon, <1>4, <1>5, <1>6, <1>7, InvPartsNext

\* claim_embedded_command
LEMMA ClaimRecoverInv == ASSUME Inv, NEW k \in Recovers, ClaimRecover(k) PROVE Inv'
<1>1. /\ command' = [command EXCEPT ![k] = "dispatching"]
      /\ UNCHANGED <<binding, settled, tip, interrupted, escaped, uncertain, final,
                     generation, gate, used, granted, retried, input, bound, expects,
                     target, at, attempt, mine, due, snap, attempts>>
  BY Zenon DEF ClaimRecover, frontierVars, gateVars, inputVars, driverVars
<1>2. command' \in [Recovers -> {"none", "queued", "dispatching", "authorized",
                                 "refused", "unconfirmed"}]
  BY Zenon, <1>1 DEF Inv, TypeOK
<1>3. OtherTypes' BY Zenon, <1>1, <1>2 DEF OtherTypes, Inv, TypeOK
<1>4. GatePart' BY Zenon, <1>1, GateKept
<1>5. DriverPart' BY Zenon, <1>1, DriversKept
<1>6. LineagePart' BY Zenon, <1>1, LineageStays
<1> QED BY Zenon, <1>3, <1>4, <1>5, <1>6, InvPartsNext

\* authorize_embedded_recovery: a visible projection moves the head in the
\* transaction that grants it.
LEMMA AuthorizeRecoverInv == ASSUME Inv, NEW k \in Recovers, AuthorizeRecover(k) PROVE Inv'
<1> DEFINE b == expects[k]
<1>1. /\ UNCHANGED <<binding, settled, interrupted, escaped, uncertain, final, used,
                     retried, input, bound, expects, target, at, attempt, mine, due,
                     snap, attempts>>
      /\ b \in Block /\ tip \in Nat /\ RowOK(Current)
  BY Zenon, CurrentOK DEF AuthorizeRecover, inputVars, driverVars, Inv, TypeOK
<1>2. at[binding] \in {"write", "inbox", "stream"} =>
         Current.gate.state = "running" /\ Current = Row(generation, gate)
  BY StreamingGate, RowFields
<1>3. PICK mode \in Modes, projects \in BOOLEAN :
        LET why == IF target[k] # binding \/ Current.gate.state # "blocked" THEN "stale"
                   ELSE Refusal(Current, b, projects) IN
        \/ /\ why = "none"
           /\ tip' = IF mode = "visible" THEN tip + 1 ELSE tip
           /\ Install(Row(Current.generation, Recovering(binding, b, tip')))
           /\ granted' = granted \cup {b.generation}
           /\ command' = [command EXCEPT ![k] = "authorized"]
        \/ /\ why # "none"
           /\ Install(IF why = "stale" THEN Row(generation, gate)
                      ELSE RefuseRow(Current, b, why))
           /\ command' = [command EXCEPT ![k] = "refused"]
           /\ UNCHANGED <<tip, granted>>
  BY Zenon DEF AuthorizeRecover
<1> DEFINE why == IF target[k] # binding \/ Current.gate.state # "blocked" THEN "stale"
                  ELSE Refusal(Current, b, projects)
<1>4. /\ command' \in [Recovers -> {"none", "queued", "dispatching", "authorized",
                                    "refused", "unconfirmed"}]
      /\ tip' \in Nat /\ tip' >= tip
  <2>1. /\ tip' = tip \/ tip' = tip + 1
        /\ \/ command' = [command EXCEPT ![k] = "authorized"]
           \/ command' = [command EXCEPT ![k] = "refused"]
    BY Zenon, <1>3
  <2>2. command \in [Recovers -> {"none", "queued", "dispatching", "authorized",
                                  "refused", "unconfirmed"}]
    BY Zenon DEF Inv, TypeOK
  <2> QED BY <1>1, <2>1, <2>2
<1>5. OtherTypes' BY Zenon, <1>1, <1>4 DEF OtherTypes, Inv, TypeOK
<1>6. why \in Refusals BY Zenon, RefusalOK DEF Refusals
<1>7. CASE why = "none"
  <2>1. /\ Current.gate.state = "blocked" /\ Refusal(Current, b, projects) = "none"
    BY Zenon, <1>7
  <2>2. Grantable(Current, b) /\ Clean BY Zenon, <2>1, RefusalOK
  <2>3. /\ Install(Row(Current.generation, Recovering(binding, b, tip')))
        /\ granted' = granted \cup {b.generation}
    BY Zenon, <1>3, <1>7
  <2> HIDE DEF b, why
  <2>4. PICK head \in Nat : tip' = head BY Zenon, <1>4
  <2>5. GatePart' BY Zenon, <1>1, <2>2, <2>3, <2>4, GrantOK
  <2>6. LineagePart' BY Zenon, <1>1, <1>4, <2>2, LineageKept
  <2>7. DriverPart' BY Zenon, <1>1, <1>2, <2>1, DriversKept
  <2> QED BY Zenon, <1>5, <2>5, <2>6, <2>7, InvPartsNext
<1>8. CASE why # "none"
  <2>1. /\ UNCHANGED <<tip, granted>>
        /\ Install(IF why = "stale" THEN Row(generation, gate)
                   ELSE RefuseRow(Current, b, why))
    BY Zenon, <1>3, <1>8
  <2>2. why # "stale" => Current.gate.state = "blocked" BY Zenon
  <2> HIDE DEF b, why
  <2>3. CASE why = "stale"
    <3>1. UNCHANGED <<generation, gate>> BY Zenon, <2>1, <2>3, RowFields DEF Install
    <3>2. GatePart' BY Zenon, <2>1, <3>1, GateKept
    <3>3. LineagePart' BY Zenon, <1>1, <1>4, <2>1, <3>1, LineageKept
    <3>4. DriverPart' BY Zenon, <1>1, <3>1, DriversKept
    <3> QED BY Zenon, <1>5, <3>2, <3>3, <3>4, InvPartsNext
  <2>4. CASE why # "stale"
    <3>1. Install(RefuseRow(Current, b, why)) BY Zenon, <2>1, <2>4
    <3>2. GatePart' BY Zenon, <1>1, <1>6, <2>1, <3>1, RefuseRowOK, InstallOK
    <3>3. gate'.state = "recovering" => gate.state = "recovering"
      BY Zenon, <3>1, RefuseRowGrants, CurrentGrants DEF Install
    <3>4. LineagePart' BY Zenon, <1>1, <1>4, <2>1, <3>3, LineageKept
    <3>5. DriverPart' BY Zenon, <1>1, <1>2, <2>2, <2>4, DriversKept
    <3> QED BY Zenon, <1>5, <3>2, <3>4, <3>5, InvPartsNext
  <2> QED BY Zenon, <2>3, <2>4
<1> QED BY Zenon, <1>7, <1>8

\* transfer_embedded_binding: the successor's driver is idle.
LEMMA TransferInv == ASSUME Inv, Transfer PROVE Inv'
<1>1. /\ binding < MaxIncarnation /\ binding' = binding + 1
      /\ UNCHANGED <<settled, tip, interrupted, escaped, uncertain, final, generation,
                     gate, used, granted, retried, input, bound, command, expects, target,
                     at, attempt, mine, due, snap, attempts>>
  BY Zenon DEF Transfer, frontierVars, gateVars, inputVars, commandVars, driverVars
<1>2. binding' \in Incarnations /\ binding' > binding /\ binding \in Nat
  <2>1. binding \in 1..MaxIncarnation BY Zenon DEF Inv, TypeOK, Incarnations
  <2> QED BY <1>1, <2>1, BoundsAssumption DEF Incarnations
<1>3. OtherTypes' BY Zenon, <1>1, <1>2 DEF OtherTypes, Inv, TypeOK
<1>4. GatePart' BY Zenon, <1>1, GateKept
<1>5. at[binding'] = "idle" BY Zenon, <1>2 DEF Inv, SuccessorsIdle
<1>6. SuccessorsIdle'
  BY <1>1, <1>2, BoundsAssumption DEF Inv, SuccessorsIdle, Incarnations
<1>7. DriverPart' BY Zenon, <1>1, <1>5, <1>6 DEF DriverPart, StreamingHoldsGate
<1>8. LineagePart' BY Zenon, <1>1, LineageStays
<1> QED BY Zenon, <1>3, <1>4, <1>7, <1>8, InvPartsNext

\* recover_embedded_inference_after_host_loss
LEMMA HostRestartInv == ASSUME Inv, HostRestart PROVE Inv'
<1>1. /\ command' = [k \in Recovers |-> IF command[k] = "dispatching" THEN "unconfirmed"
                                        ELSE command[k]]
      /\ at' = [i \in Incarnations |-> "idle"]
      /\ snap' = [i \in Incarnations |-> NoSnapshot]
      /\ UNCHANGED <<binding, settled, tip, interrupted, escaped, uncertain, final, used,
                     granted, retried, input, bound, expects, target, attempt, mine, due,
                     attempts>>
      /\ \/ Install(Current) \/ Install(BlockRow(Current, "host"))
         \/ Install(Row(Current.generation, Idle))
  BY Zenon DEF HostRestart, frontierVars, inputVars
<1>2. /\ RowOK(Current) /\ RowOK(BlockRow(Current, "host"))
      /\ BlockRow(Current, "host").gate.state = "blocked"
  BY Zenon, CurrentOK, BlockRowOK DEF Reasons
<1>3. RowOK(Row(Current.generation, Idle)) /\ Idle.state = "idle"
  BY Zenon, <1>2, IdleOK DEF RowOK
<1>4. GatePart' BY Zenon, <1>1, <1>2, <1>3, InstallOK
<1>5. gate'.state = "recovering" => gate.state = "recovering"
  <2>1. CASE Install(Current) BY Zenon, <2>1, CurrentGrants DEF Install
  <2>2. CASE Install(BlockRow(Current, "host")) BY Zenon, <1>2, <2>2 DEF Install
  <2>3. CASE Install(Row(Current.generation, Idle))
    <3>1. gate' = Idle BY Zenon, <2>3, RowFields DEF Install
    <3> QED BY Zenon, <1>3, <3>1
  <2> QED BY Zenon, <1>1, <2>1, <2>2, <2>3
<1>6. LineagePart' BY Zenon, <1>1, <1>5, LineageStays
<1>7. DriverPart'
  BY Zenon, <1>1 DEF DriverPart, StreamingHoldsGate, SuccessorsIdle, Inv, TypeOK
<1>8. OtherTypes'
  <2>1. at' \in [Incarnations -> DriverStates] BY Zenon, <1>1 DEF DriverStates
  <2>2. snap' \in [Incarnations -> Snapshot] BY Zenon, <1>1, <1>2, SnapshotType
  <2>3. command' \in [Recovers -> {"none", "queued", "dispatching", "authorized",
                                   "refused", "unconfirmed"}]
    BY Zenon, <1>1 DEF Inv, TypeOK
  <2> QED BY Zenon, <1>1, <2>1, <2>2, <2>3 DEF OtherTypes, Inv, TypeOK
<1> QED BY Zenon, <1>4, <1>6, <1>7, <1>8, InvPartsNext

-----------------------------------------------------------------------------
(* The theorems *)

\* A fresh actor satisfies the invariant.
LEMMA InitInv == Init => Inv
<1> SUFFICES ASSUME Init PROVE Inv BY Zenon
<1>1. /\ NoBlock \in Block /\ Idle \in Gate /\ Idle.state = "idle"
      /\ Idle.block.generation = 0
  BY Zenon, NoBlockType, GateShapes
<1>2. NoSnapshot \in Snapshot BY Zenon, <1>1 DEF NoSnapshot, Snapshot
<1>3. 1 \in Incarnations BY BoundsAssumption DEF Incarnations
<1>4. TypeOK BY Zenon, <1>1, <1>2, <1>3 DEF Init, TypeOK, DriverStates
<1>5. GenerationBounds /\ OpenBlockUngranted /\ GateAtHead /\ GrantedLineageClean
  BY <1>1 DEF Init, GenerationBounds, OpenBlockUngranted, GateAtHead, GrantedLineageClean
<1>6. StreamingHoldsGate /\ SuccessorsIdle /\ UncertainWritten
  BY Zenon, <1>3 DEF Init, StreamingHoldsGate, SuccessorsIdle, UncertainWritten
<1> QED BY Zenon, <1>4, <1>5, <1>6 DEF Inv

\* Every step keeps the invariant.
LEMMA NextInv == Inv /\ [Next]_vars => Inv'
<1> SUFFICES ASSUME Inv, [Next]_vars PROVE Inv' BY Zenon
<1>1. ASSUME NEW i \in Incarnations, Drive(i) PROVE Inv'
  BY Zenon, <1>1, SelectInv, BeginSelectedInv, RebeginInv, ResumeRecordedInv, WriteRequestInv,
     AppendUnreadInv, RetainItemInv, EndRoundInv, StreamInterruptedInv, RequestRejectedInv,
     StreamFailedInv, FinishAttemptInv, SettleHeadInv, AssessRoundInv, ContinueQueuedInputInv,
     ReserveRetryInv, ActivateRetryInv, CancelRetryInv, FencedInv
  DEF Drive
<1>2. CASE Observe BY Zenon, <1>2, ObserveInv
<1>3. ASSUME NEW r \in 1..MaxRequest, OperationTerminal(r) PROVE Inv'
  BY Zenon, <1>3, OperationTerminalInv
<1>4. ASSUME NEW n \in Inputs, AdmitInput(n) PROVE Inv'
  BY Zenon, <1>4, AdmitInputInv
<1>5. ASSUME NEW k \in Recovers, EnqueueRecover(k) \/ ClaimRecover(k) \/ AuthorizeRecover(k)
      PROVE  Inv'
  BY Zenon, <1>5, EnqueueRecoverInv, ClaimRecoverInv, AuthorizeRecoverInv
<1>6. CASE Transfer BY Zenon, <1>6, TransferInv
<1>7. CASE HostRestart BY Zenon, <1>7, HostRestartInv
<1>8. CASE UNCHANGED vars
  <2>1. UNCHANGED <<binding, settled, tip, interrupted, escaped, uncertain, final,
                    generation, gate, used, granted, retried, input, bound, command,
                    expects, target, at, attempt, mine, due, snap, attempts>>
    BY Zenon, <1>8 DEF vars, frontierVars, gateVars, inputVars, commandVars, driverVars
  <2>2. OtherTypes' BY Zenon, <2>1 DEF OtherTypes, Inv, TypeOK
  <2>3. GatePart' BY Zenon, <2>1, GateKept
  <2>4. DriverPart' BY Zenon, <2>1, DriversKept
  <2>5. LineagePart' BY <2>1, LineageKept DEF Inv, TypeOK
  <2> QED BY Zenon, <2>2, <2>3, <2>4, <2>5, InvPartsNext
<1> QED BY Zenon, <1>1, <1>2, <1>3, <1>4, <1>5, <1>6, <1>7, <1>8 DEF Next

\* The inductive invariant holds in every reachable state of the gate.
THEOREM Invariance == Spec => []Inv
<1>1. Init => Inv BY Zenon, InitInv
<1>2. Inv /\ [Next]_vars => Inv' BY Zenon, NextInv
<1> QED BY <1>1, <1>2, PTL DEF Spec

\* Every variable of the gate, the frontier, the journal and the drivers keeps
\* its type.
THEOREM TypeCorrect == Spec => []TypeOK
<1>1. Inv => TypeOK BY Zenon DEF Inv
<1> QED BY <1>1, Invariance, PTL

\* However many inputs, Recover commands, retries, transfers and restarts race
\* for it, a block that is still open has never been granted (grant_tx).
THEOREM GrantedOnce == Spec => []OpenBlockUngranted
<1>1. Inv => OpenBlockUngranted BY Zenon DEF Inv
<1> QED BY <1>1, Invariance, PTL

\* Blocks and grants speak of the frontier head (validate_frontier never finds
\* the gate stale).
THEOREM HeadCurrent == Spec => []GateAtHead
<1>1. Inv => GateAtHead BY Zenon DEF Inv
<1> QED BY <1>1, Invariance, PTL

\* At most one attempt streams: the driver that does holds the gate
\* (begin_inference).
THEOREM OneAttempt == Spec => []StreamingHoldsGate
<1>1. Inv => StreamingHoldsGate BY Zenon DEF Inv
<1> QED BY <1>1, Invariance, PTL

\* No grant is outstanding over an uncertain effect (validate_cleanup).
THEOREM CleanGrants == Spec => []GrantedLineageClean
<1>1. Inv => GrantedLineageClean BY Zenon DEF Inv
<1> QED BY <1>1, Invariance, PTL

-----------------------------------------------------------------------------
(* Block identity *)

\* A row that names the old block, no block, or a block of a new generation.
Names(row) ==
    /\ row.generation >= generation
    /\ row.gate.block # gate.block /\ row.gate.block # NoBlock
          => row.gate.block.generation > generation

\* What BlockIdentity says of one step.
KeepsNames ==
    /\ generation' >= generation
    /\ gate'.block # gate.block /\ gate'.block # NoBlock
          => gate'.block.generation > generation

\* Writing such a row is such a step, and so is leaving the row alone.
LEMMA InstallNames ==
    ASSUME Inv, \/ UNCHANGED <<generation, gate>>
                \/ \E row : Names(row) /\ Install(row)
    PROVE  KeepsNames
BY DEF Names, KeepsNames, Install, Inv, TypeOK

\* block_tx and mark_continuation_refusal name a new block by a new generation.
LEMMA NewNames ==
    ASSUME Inv, NEW row, RowOK(row), Names(row), NEW reason, NEW expected, NEW why
    PROVE  Names(BlockRow(row, reason)) /\ Names(RefuseRow(row, expected, why))
<1>1. row.generation \in Nat /\ generation \in Nat /\ row.generation >= generation
  BY Zenon DEF RowOK, Inv, TypeOK
<1>2. ASSUME NEW q, NEW e, NEW y
      PROVE  Names(Row(row.generation + 1,
                       Blocked([request |-> q, generation |-> row.generation + 1,
                                reason |-> e, refusal |-> y])))
  BY <1>1 DEF Names, Row, Blocked
<1> QED BY Zenon, <1>2 DEF BlockRow, RefuseRow

\* initialize renames nothing.
LEMMA CurrentNames == ASSUME Inv PROVE Names(Current) /\ Names(Row(Current.generation, Idle))
<1>1. RowOK(Row(generation, gate)) /\ Names(Row(generation, gate)) /\ generation \in Nat
  BY RowFields DEF Inv, TypeOK, RowOK, GenerationBounds, OpenBlockUngranted, GateAtHead, Names
<1>2. \A g \in Nat : g >= generation => Names(Row(g, Idle))
  BY RowFields DEF Names, Idle
<1>3. Names(BlockRow(Row(generation, gate), "host")) BY Zenon, <1>1, NewNames
<1>4. Names(Current) BY <1>1, <1>2, <1>3 DEF Current
<1>5. Current.generation \in Nat /\ Current.generation >= generation
  BY Zenon, CurrentOK DEF RowOK
<1> QED BY Zenon, <1>2, <1>4, <1>5

\* A grant, a reservation and an attempt name the block of the row, or none.
LEMMA GrantNames ==
    ASSUME Inv, NEW expected, Current.gate.block = expected, NEW i, NEW h, NEW n
    PROVE  /\ Names(Row(Current.generation, Recovering(i, expected, h)))
           /\ Names(Row(Current.generation, AutoRetry(i, expected, n)))
           /\ Names(Row(Current.generation, Running(i, n)))
BY Zenon, CurrentNames DEF Names, Row, Recovering, AutoRetry, Running

\* checked_exact_grant
LEMMA ExactGrantNames ==
    ASSUME Inv, NEW expected, NEW projects, ExactGrant(Current, expected, projects)
    PROVE  KeepsNames
<1>1. CASE Refusal(Current, expected, projects) = "none"
  <2>1. Current.gate.block = expected BY Zenon, <1>1, RefusalOK DEF Grantable
  <2>2. Names(Row(Current.generation, Recovering(binding, expected, tip)))
    BY Zenon, <2>1, GrantNames
  <2> QED BY Zenon, <1>1, <2>2, InstallNames DEF ExactGrant
<1>2. CASE Refusal(Current, expected, projects) # "none"
  <2>1. Names(RefuseRow(Current, expected, Refusal(Current, expected, projects)))
    BY Zenon, CurrentOK, CurrentNames, NewNames
  <2> QED BY Zenon, <1>2, <2>1, InstallNames DEF ExactGrant
<1> QED BY Zenon, <1>1, <1>2

\* authorize_embedded_recovery
LEMMA AuthorizeNames ==
    ASSUME Inv, NEW k \in Recovers, AuthorizeRecover(k) PROVE KeepsNames
<1> DEFINE b == expects[k]
<1>1. PICK mode \in Modes, projects \in BOOLEAN :
        LET why == IF target[k] # binding \/ Current.gate.state # "blocked" THEN "stale"
                   ELSE Refusal(Current, b, projects) IN
        \/ /\ why = "none"
           /\ Install(Row(Current.generation, Recovering(binding, b, tip')))
        \/ Install(IF why = "stale" THEN Row(generation, gate)
                   ELSE RefuseRow(Current, b, why))
  BY Zenon DEF AuthorizeRecover
<1>2. Refusal(Current, b, projects) = "none" =>
         Names(Row(Current.generation, Recovering(binding, b, tip')))
  BY Zenon, RefusalOK, GrantNames DEF Grantable
<1>3. \A why : Names(RefuseRow(Current, b, why))
  BY Zenon, CurrentOK, CurrentNames, NewNames
<1>4. Names(Row(generation, gate)) BY RowFields DEF Names, Inv, TypeOK
<1> HIDE DEF b
<1>5. CASE Install(Row(generation, gate)) BY Zenon, <1>4, <1>5, InstallNames
<1>6. CASE \E why : Install(RefuseRow(Current, b, why)) BY Zenon, <1>3, <1>6, InstallNames
<1>7. CASE /\ Refusal(Current, b, projects) = "none"
           /\ Install(Row(Current.generation, Recovering(binding, b, tip')))
  BY Zenon, <1>2, <1>7, InstallNames
<1> QED BY Zenon, <1>1, <1>5, <1>6, <1>7

\* No step of any actor renames a block.
LEMMA NextNames == Inv /\ [Next]_vars => KeepsNames
<1> SUFFICES ASSUME Inv, [Next]_vars PROVE KeepsNames BY Zenon
<1>1. /\ Names(Current) /\ Names(Row(Current.generation, Idle)) /\ RowOK(Current)
      /\ \A reason : Names(BlockRow(Current, reason))
      /\ \A b, why : Names(RefuseRow(Current, b, why))
  BY Zenon, CurrentNames, CurrentOK, NewNames
<1>2. \A i, a : Names(Row(Current.generation, Running(i, a)))
  BY Zenon, GrantNames
<1>3. ASSUME NEW i \in Incarnations, Drive(i) PROVE KeepsNames
  <2>1. CASE Select(i) BY Zenon, <1>1, <2>1, InstallNames DEF Select
  <2>2. CASE BeginSelected(i) \/ Rebegin(i)
    BY Zenon, <1>2, <2>2, InstallNames DEF BeginSelected, Rebegin, Begin
  <2>3. CASE \/ ResumeRecorded(i) \/ WriteRequest(i) \/ AppendUnread(i) \/ RetainItem(i)
             \/ EndRound(i) \/ SettleHead(i) \/ AssessRound(i) \/ Fenced(i)
    BY Zenon, <2>3, InstallNames
    DEF ResumeRecorded, WriteRequest, AppendUnread, RetainItem, EndRound, SettleHead, AssessRound,
        Fenced, gateVars
  <2>4. CASE StreamInterrupted(i) \/ RequestRejected(i) \/ StreamFailed(i)
    BY Zenon, <1>1, <2>4, InstallNames DEF StreamInterrupted, RequestRejected, StreamFailed, BlockRun
  <2>5. CASE FinishAttempt(i)
    <3>1. Names(Row(generation, Idle))
      BY RowFields DEF Names, Idle, Inv, TypeOK
    <3> QED BY Zenon, <2>5, <3>1, InstallNames DEF FinishAttempt
  <2>6. CASE ContinueQueuedInput(i)
    BY Zenon, <2>6, ExactGrantNames, InstallNames DEF ContinueQueuedInput
  <2>7. CASE ReserveRetry(i)
    <3>1. MayRetry(Current, mine[i]) =>
             Names(Row(Current.generation, AutoRetry(i, mine[i], used + 1)))
      BY Zenon, GrantNames DEF MayRetry
    <3> QED BY Zenon, <1>1, <2>7, <3>1, InstallNames DEF ReserveRetry
  <2>8. CASE ActivateRetry(i)
    BY Zenon, <2>8, ExactGrantNames, InstallNames DEF ActivateRetry
  <2>9. CASE CancelRetry(i) BY Zenon, <1>1, <2>9, InstallNames DEF CancelRetry
  <2> QED
    BY Zenon, <1>3, <2>1, <2>2, <2>3, <2>4, <2>5, <2>6, <2>7, <2>8, <2>9 DEF Drive
<1>4. CASE Observe BY Zenon, <1>1, <1>4, InstallNames DEF Observe
<1>5. ASSUME NEW r \in 1..MaxRequest, OperationTerminal(r) PROVE KeepsNames
  BY Zenon, <1>5, InstallNames DEF OperationTerminal, gateVars
<1>6. ASSUME NEW n \in Inputs, AdmitInput(n) PROVE KeepsNames
  BY Zenon, <1>1, <1>6, ExactGrantNames, InstallNames DEF AdmitInput
<1>7. ASSUME NEW k \in Recovers, EnqueueRecover(k) \/ ClaimRecover(k) \/ AuthorizeRecover(k)
      PROVE  KeepsNames
  BY Zenon, <1>7, AuthorizeNames, InstallNames DEF EnqueueRecover, ClaimRecover, gateVars
<1>8. CASE Transfer BY Zenon, <1>8, InstallNames DEF Transfer, gateVars
<1>9. CASE HostRestart
  <2>1. \/ Install(Current) \/ Install(BlockRow(Current, "host"))
        \/ Install(Row(Current.generation, Idle))
    BY Zenon, <1>9 DEF HostRestart
  <2> QED BY Zenon, <1>1, <2>1, InstallNames
<1>10. CASE UNCHANGED vars BY Zenon, <1>10, InstallNames DEF vars, gateVars
<1> QED BY Zenon, <1>3, <1>4, <1>5, <1>6, <1>7, <1>8, <1>9, <1>10 DEF Next

\* A generation names one block for ever, so an operator's expected_block is
\* compared with the block it was shown (continue_exact's staleness check).
THEOREM BlocksNamedOnce == Spec => BlockIdentity
<1>1. Inv /\ [Next]_vars =>
        [/\ generation' >= generation
         /\ (gate'.block # gate.block /\ gate'.block # NoBlock)
               => gate'.block.generation > generation]_vars
  BY Zenon, NextNames DEF KeepsNames
<1> QED BY <1>1, Invariance, PTL DEF Spec, BlockIdentity

-----------------------------------------------------------------------------
(* The retry budget *)

\* The stored counter is the number of automatic retries since the last
\* completed attempt.
BudgetInv == retried = used /\ used \in 0..RetryLimit

\* Only reserve_automatic_retry spends the budget, and only a completed attempt
\* restores it.
LEMMA BudgetStep == BudgetInv /\ [Next]_vars => BudgetInv'
<1> SUFFICES ASSUME BudgetInv, [Next]_vars PROVE BudgetInv' BY Zenon
<1>1. CASE UNCHANGED <<used, retried>> BY Zenon, <1>1 DEF BudgetInv
<1>2. ASSUME NEW i \in Incarnations, FinishAttempt(i) PROVE BudgetInv'
  <2>1. (used' = 0 /\ retried' = 0) \/ UNCHANGED <<used, retried>>
    BY Zenon, <1>2 DEF FinishAttempt
  <2> QED BY <1>1, <2>1 DEF BudgetInv, RetryLimit
<1>3. ASSUME NEW i \in Incarnations, ReserveRetry(i) PROVE BudgetInv'
  <2>1. UNCHANGED <<used, retried>>
        \/ (used < RetryLimit /\ used' = used + 1 /\ retried' = retried + 1)
    BY Zenon, <1>3 DEF ReserveRetry, MayRetry
  <2> QED BY <1>1, <2>1 DEF BudgetInv, RetryLimit
<1>4. ASSUME NEW i \in Incarnations, Drive(i) PROVE BudgetInv'
  BY Zenon, <1>1, <1>2, <1>3, <1>4
  DEF Drive, Select, BeginSelected, Rebegin, ResumeRecorded, WriteRequest, AppendUnread,
      RetainItem, EndRound, StreamInterrupted, RequestRejected, StreamFailed, SettleHead,
      AssessRound, ContinueQueuedInput, ActivateRetry, CancelRetry, Fenced, gateVars
<1>5. CASE UNCHANGED vars BY Zenon, <1>1, <1>5 DEF vars, gateVars
<1> QED
  BY Zenon, <1>1, <1>4, <1>5
  DEF Next, Observe, OperationTerminal, AdmitInput, EnqueueRecover, ClaimRecover,
      AuthorizeRecover, Transfer, HostRestart, gateVars

\* Restarts, transfers, stops and manual continuation leave the two-retry
\* budget as it is (embedded_retry_lineage).
THEOREM BudgetKept == Spec => []RetryBudget
<1>1. Init => BudgetInv BY DEF Init, BudgetInv, RetryLimit
<1>2. BudgetInv => RetryBudget BY DEF BudgetInv, RetryBudget, RetryLimit
<1> QED BY <1>1, <1>2, BudgetStep, PTL DEF Spec
=============================================================================
