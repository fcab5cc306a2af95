---------------------------- MODULE AgentProofs -----------------------------
(***************************************************************************)
(* What agents ask for and what is shown of it: the verbs of agents        *)
(* (AgentVerbs), for any agents and jobs; the pages of a conversation's    *)
(* history (HistoryPages), for any history; and the forms of an actor with *)
(* the views of them (ActorForms, FormViews), for any number of forms,     *)
(* operations and drafts.                                                  *)
(*                                                                         *)
(* Listings, pages and scans stop at the first of something, which the     *)
(* proofs name with Least.                                                 *)
(***************************************************************************)
EXTENDS AgentVerbs, HistoryPages, FormViews, FiniteSetTheorems, WellFoundedInduction, TLAPS

\* A set of numbers has a least one.
LEMMA Least ==
    ASSUME NEW T \in SUBSET Nat, T # {}
    PROVE  \E x \in T : \A y \in T : x <= y
<1> DEFINE R == OpToRel(<, Nat)
<1>1. IsWellFoundedOn(R, Nat)
  BY Zenon, NatLessThanWellFounded
<1> HIDE DEF R
<1>2. PICK x \in T : \A y \in T : <<y, x>> \notin R
  BY Zenon, <1>1, WFMin
<1>3. \A y \in T : y < x => <<y, x>> \in R
  BY SMT DEF R, OpToRel
<1>4. \A y \in T : ~(y < x)
  BY Zenon, <1>2, <1>3
<1>5. \A y \in T : x <= y
  BY SMT, <1>4
<1> QED BY Zenon, <1>5

-----------------------------------------------------------------------------
(* Agent verbs *)

VerbPlaces == {"queued", "looked", "read", "ok", "refused"}

VerbsTyped ==
    /\ future \in [Jobs -> {"new", "awaiting", "dropped", "ok", "refused"}]
    /\ closure \in [Jobs -> VerbPlaces]
    /\ todo \in [Jobs -> SUBSET Agents] /\ listed \in [Jobs -> SUBSET Agents]
    /\ before \in [Jobs -> SUBSET Agents]
    /\ admitted \in SUBSET Agents
    /\ \A c \in Jobs : /\ verb[c].of \in Agents
                       /\ verb[c].op = "spawn" => verb[c].of # Root /\ Parent(verb[c].of) = verb[c].agent

\* A set of agents with the root and with the parent of each of its agents
Rooted(S) == Root \in S /\ \A b \in S \ {Root} : Parent(b) \in S

\* What is committed and what is answered follow the closure.
AnswerFact(c) ==
    /\ future[c] = "new" => closure[c] = "queued"
    /\ c \in committed => closure[c] = "ok"
    /\ closure[c] = "ok" /\ verb[c].op \in {"spawn", "mail"} => c \in committed
    /\ future[c] \in Finished => closure[c] = future[c]
    /\ future[c] = "ok" /\ verb[c].op \in {"spawn", "mail"} => c \in told
    /\ closure[c] \in {"looked", "read"} => verb[c].agent \in admitted

\* A listing under way: what is below an agent it has read, and was there when it
\* began, it has or will read.
ListFact(c) ==
    /\ closure[c] = "queued" => listed[c] = {}
    /\ verb[c].op = "list" /\ closure[c] \in {"looked", "ok"} =>
         /\ listed[c] \cup todo[c] \subseteq admitted
         /\ Root \in listed[c] \cup todo[c]
         /\ before[c] \subseteq admitted /\ Rooted(before[c])
         /\ \A b \in before[c] \ {Root} : Parent(b) \in listed[c] => b \in listed[c] \cup todo[c]
         /\ closure[c] = "ok" => todo[c] = {}

VerbsInv ==
    /\ VerbsTyped /\ Rooted(admitted)
    /\ \A c \in Jobs : AnswerFact(c)
    /\ \A c \in Jobs : ListFact(c)

-----------------------------------------------------------------------------
\* What is closed under reading the children of its agents has every agent.
LEMMA AllListed ==
    ASSUME NEW B \in SUBSET Agents, Rooted(B), NEW L, Root \in L,
           \A b \in B \ {Root} : Parent(b) \in L => b \in L
    PROVE  B \subseteq L
<1> DEFINE T == {Len(b) : b \in B \ L}
<1>1. \A b \in B : Len(b) \in Nat
  BY VerbsAssumption
<1> SUFFICES ASSUME NEW a \in B, a \notin L PROVE FALSE
  OBVIOUS
<1>2. Len(a) \in T
  BY Zenon
<1>3. T \in SUBSET Nat
  BY SMT, <1>1
<1> HIDE DEF T
<1>4. PICK n \in T : \A m \in T : n <= m
  BY Zenon, <1>2, <1>3, Least
<1>5. PICK b \in B \ L : n = Len(b)
  BY Zenon DEF T
<1>6. b # Root /\ Parent(b) \in B
  BY Zenon, <1>5 DEF Rooted
<1>7. Len(Parent(b)) \in Nat /\ Len(Parent(b)) < Len(b)
  <2>1. b \in Seq(STRING) /\ b # <<>>
    BY <1>6, VerbsAssumption DEF Root
  <2> QED BY <2>1 DEF Parent
<1>8. Parent(b) \notin L
  BY Zenon, <1>5, <1>6
<1>9. Len(Parent(b)) \in T
  BY Zenon, <1>6, <1>8 DEF T
<1> QED BY <1>1, <1>4, <1>5, <1>7, <1>9

\* At the end of a listing everything it had to read is read.
LEMMA ListingWhole ==
    ASSUME VerbsTyped, NEW c \in Jobs, ListFact(c), verb[c].op = "list", closure[c] = "ok"
    PROVE  before[c] \subseteq listed[c] /\ listed[c] \subseteq admitted
<1>1. /\ listed[c] \subseteq admitted /\ todo[c] = {} /\ Root \in listed[c] /\ Rooted(before[c])
      /\ \A b \in before[c] \ {Root} : Parent(b) \in listed[c] => b \in listed[c]
  BY DEF ListFact
<1>2. before[c] \in SUBSET Agents
  BY Zenon DEF VerbsTyped
<1>3. before[c] \subseteq listed[c]
  BY <1>1, <1>2, AllListed
<1> QED BY Zenon, <1>1, <1>3

-----------------------------------------------------------------------------
(* The steps *)

\* The facts of a job that a step leaves alone, while agents are only added
LEMMA OtherJob ==
    ASSUME NEW c, AnswerFact(c), ListFact(c), verb' = verb, admitted \subseteq admitted',
           future'[c] = future[c], closure'[c] = closure[c], todo'[c] = todo[c],
           listed'[c] = listed[c], before'[c] = before[c],
           c \in committed' <=> c \in committed, c \in told => c \in told'
    PROVE  AnswerFact(c)' /\ ListFact(c)'
<1>1. AnswerFact(c)'
  BY Zenon DEF AnswerFact
<1>2. ListFact(c)'
  BY Zenon DEF ListFact, Rooted
<1> QED BY Zenon, <1>1, <1>2

\* A step of one job keeps the invariant when it keeps that job's facts.
LEMMA JobKeeps ==
    ASSUME VerbsInv, VerbsTyped', Rooted(admitted)', NEW c \in Jobs, verb' = verb,
           admitted \subseteq admitted', AnswerFact(c)', ListFact(c)',
           \A x \in Jobs \ {c} : /\ future'[x] = future[x] /\ closure'[x] = closure[x]
                                 /\ todo'[x] = todo[x] /\ listed'[x] = listed[x]
                                 /\ before'[x] = before[x]
                                 /\ x \in committed' <=> x \in committed
                                 /\ x \in told => x \in told'
    PROVE  VerbsInv'
<1>1. \A x \in Jobs : AnswerFact(x) /\ ListFact(x)
  BY Zenon DEF VerbsInv
<1>2. \A x \in Jobs : AnswerFact(x)' /\ ListFact(x)'
  BY Zenon, <1>1, OtherJob
<1>3. Jobs' = Jobs
  BY Zenon DEF Jobs
<1> QED BY Zenon, <1>2, <1>3 DEF VerbsInv

LEMMA LookKeeps ==
    ASSUME VerbsInv, NEW c \in Jobs, Look(c)
    PROVE  VerbsInv'
<1>1. /\ UNCHANGED <<verb, future, listed, agents, committed, told>>
      /\ closure[c] = "queued" /\ future[c] # "new"
      /\ todo' = [todo EXCEPT ![c] = IF verb[c].op = "list" THEN {Root} ELSE @]
      /\ before' = [before EXCEPT ![c] = admitted]
      /\ \/ Named(c) \subseteq admitted /\ closure' = [closure EXCEPT ![c] = "looked"]
         \/ closure' = [closure EXCEPT ![c] = "refused"]
  BY Zenon DEF Look, ClosureAt, Goes, rowVars
<1>2. VerbsTyped /\ Rooted(admitted) /\ AnswerFact(c) /\ ListFact(c) /\ Root \in Agents
  BY Zenon, VerbsAssumption DEF VerbsInv
<1>3. Jobs' = Jobs /\ admitted' = admitted
  BY Zenon, <1>1 DEF Jobs, admitted
<1>4. VerbsTyped'
  BY <1>1, <1>2, <1>3 DEF VerbsTyped, VerbPlaces
<1>5. Rooted(admitted)'
  BY Zenon, <1>2, <1>3 DEF Rooted
<1>6. /\ verb[c].op = "list" => todo'[c] = {Root}
      /\ before'[c] = admitted /\ closure'[c] \in {"looked", "refused"}
      /\ closure'[c] = "looked" => verb[c].agent \in admitted
  BY <1>1, <1>2 DEF VerbsTyped, Named
<1>7. AnswerFact(c)'
  BY <1>1, <1>2, <1>3, <1>6 DEF AnswerFact, Finished
<1>8. listed'[c] = {}
  BY Zenon, <1>1, <1>2 DEF ListFact
<1>9. ListFact(c)'
  BY <1>1, <1>2, <1>3, <1>6, <1>8 DEF ListFact, Rooted
<1> HIDE DEF admitted
<1>10. \A x \in Jobs \ {c} : closure'[x] = closure[x] /\ todo'[x] = todo[x] /\ before'[x] = before[x]
  BY <1>1, <1>2 DEF VerbsTyped
<1> QED BY Zenon, <1>1, <1>3, <1>4, <1>5, <1>7, <1>9, <1>10, JobKeeps

\* A closure commits as it ends well.
Commits(c, to) ==
    \/ committed' = committed \cup {c} /\ to = "ok"
    \/ committed' = committed /\ (to = "ok" => verb[c].op \notin {"spawn", "mail"})

\* The steps of a closure that read no list: to a new place, perhaps with a commit
LEMMA ClosureKeeps ==
    ASSUME VerbsInv, NEW c \in Jobs, NEW to \in {"read", "ok", "refused"}, future[c] # "new",
           closure' = [closure EXCEPT ![c] = to], closure[c] \in {"looked", "read"},
           verb[c].op # "list",
           UNCHANGED <<verb, future, todo, listed, before, told>>,
           admitted' \in SUBSET Agents, admitted \subseteq admitted', Rooted(admitted)',
           Commits(c, to)
    PROVE  VerbsInv'
<1>1. VerbsTyped /\ AnswerFact(c) /\ ListFact(c)
  BY Zenon DEF VerbsInv
<1>2. Jobs' = Jobs
  BY Zenon DEF Jobs
<1>3. closure' \in [Jobs -> VerbPlaces] /\ closure'[c] = to
      /\ \A x \in Jobs \ {c} : closure'[x] = closure[x]
  BY <1>1 DEF VerbsTyped, VerbPlaces
<1>4. VerbsTyped'
  BY Zenon, <1>1, <1>2, <1>3 DEF VerbsTyped
<1>5. AnswerFact(c)'
  BY <1>1, <1>3 DEF AnswerFact, Finished, Commits
<1>6. ListFact(c)'
  BY <1>1, <1>3 DEF ListFact
<1>7. \A x \in Jobs \ {c} : x \in committed' <=> x \in committed
  BY Zenon DEF Commits
<1> QED BY Zenon, <1>3, <1>4, <1>5, <1>6, <1>7, JobKeeps

LEMMA ReadKeeps ==
    ASSUME VerbsInv, NEW c \in Jobs, ReadSaved(c)
    PROVE  VerbsInv'
<1>1. /\ UNCHANGED <<verb, future, todo, listed, before, told, agents, committed>>
      /\ closure[c] = "looked" /\ future[c] # "new" /\ verb[c].op \in {"checkpoint", "spawn"}
      /\ closure' = [closure EXCEPT ![c] = "read"] \/ closure' = [closure EXCEPT ![c] = "refused"]
  BY Zenon DEF ReadSaved, ClosureAt, Goes, rowVars
<1>2. admitted' = admitted /\ admitted \in SUBSET Agents /\ Rooted(admitted)
  BY Zenon, <1>1 DEF VerbsInv, VerbsTyped, admitted
<1>3. Rooted(admitted)' /\ admitted' \in SUBSET Agents
  BY Zenon, <1>2 DEF Rooted
<1>4. verb[c].op # "list"
  BY <1>1
<1>5. PICK to \in {"read", "refused"} : closure' = [closure EXCEPT ![c] = to]
  BY Zenon, <1>1
<1>6. to \in {"read", "ok", "refused"} /\ to # "ok" /\ closure[c] \in {"looked", "read"}
  BY <1>1
<1>7. Commits(c, to)
  BY Zenon, <1>1, <1>6 DEF Commits
<1> QED BY Zenon, <1>1, <1>2, <1>3, <1>4, <1>5, <1>6, <1>7, ClosureKeeps

LEMMA CommitKeeps ==
    ASSUME VerbsInv, NEW c \in Jobs, SaveCheckpoint(c) \/ PersistEnvelope(c) \/ SaveEffort(c)
    PROVE  VerbsInv'
<1>1. /\ UNCHANGED <<verb, future, todo, listed, before, told, agents>>
      /\ committed' = committed \cup {c}
      /\ closure[c] \in {"looked", "read"} /\ future[c] # "new"
      /\ verb[c].op \in {"checkpoint", "mail", "effort"}
      /\ closure' = [closure EXCEPT ![c] = "ok"]
  BY Zenon DEF SaveCheckpoint, PersistEnvelope, SaveEffort, ClosureAt, Goes, readVars
<1>2. admitted' = admitted /\ admitted \in SUBSET Agents /\ Rooted(admitted)
  BY Zenon, <1>1 DEF VerbsInv, VerbsTyped, admitted
<1>3. Rooted(admitted)' /\ admitted' \in SUBSET Agents
  BY Zenon, <1>2 DEF Rooted
<1>4. verb[c].op # "list"
  BY <1>1
<1>5. "ok" \in {"read", "ok", "refused"} /\ Commits(c, "ok")
  BY Zenon, <1>1 DEF Commits
<1> QED BY Zenon, <1>1, <1>2, <1>3, <1>4, <1>5, ClosureKeeps

LEMMA AdmitKeeps ==
    ASSUME VerbsInv, NEW c \in Jobs, AdmitAgent(c)
    PROVE  VerbsInv'
<1>1. /\ UNCHANGED <<verb, future, todo, listed, before, told>>
      /\ closure[c] \in {"looked", "read"} /\ future[c] # "new" /\ verb[c].op = "spawn"
  BY Zenon DEF AdmitAgent, ClosureAt, readVars
<1>2. admitted \in SUBSET Agents /\ Rooted(admitted) /\ VerbsTyped /\ AnswerFact(c)
  BY Zenon DEF VerbsInv, VerbsTyped
<1>3. verb[c].op # "list" /\ "ok" \in {"read", "ok", "refused"} /\ "refused" # "ok"
      /\ "refused" \in {"read", "ok", "refused"}
  BY <1>1
<1>4. CASE verb[c].of \in admitted
  <2>1. agents' = agents /\ committed' = committed /\ closure' = [closure EXCEPT ![c] = "refused"]
    BY Zenon, <1>4 DEF AdmitAgent, Goes
  <2>2. admitted' = admitted
    BY Zenon, <2>1 DEF admitted
  <2>3. Rooted(admitted)' /\ admitted' \in SUBSET Agents
    BY Zenon, <1>2, <2>2 DEF Rooted
  <2>4. Commits(c, "refused")
    BY Zenon, <1>3, <2>1 DEF Commits
  <2> QED BY Zenon, <1>1, <1>3, <2>1, <2>2, <2>3, <2>4, ClosureKeeps
<1>5. CASE verb[c].of \notin admitted
  <2>1. /\ committed' = committed \cup {c} /\ closure' = [closure EXCEPT ![c] = "ok"]
        /\ agents' = [a \in admitted \cup {verb[c].of} |-> IF a = verb[c].of THEN Source(c) ELSE agents[a]]
    BY Zenon, <1>5 DEF AdmitAgent, Goes
  <2>2. DOMAIN agents' = admitted \cup {verb[c].of}
    BY Zenon, <2>1
  <2>3. admitted' = admitted \cup {verb[c].of}
    BY Zenon, <2>2 DEF admitted
  <2>4. /\ verb[c].of \in Agents /\ verb[c].of # Root /\ Parent(verb[c].of) = verb[c].agent
        /\ verb[c].agent \in admitted
    BY Zenon, <1>1, <1>2 DEF VerbsTyped, AnswerFact
  <2>5. Rooted(admitted)'
    BY Zenon, <1>2, <2>3, <2>4 DEF Rooted
  <2>6. admitted' \in SUBSET Agents /\ admitted \subseteq admitted'
    BY Zenon, <1>2, <2>3, <2>4
  <2>7. Commits(c, "ok")
    BY Zenon, <2>1 DEF Commits
  <2> QED BY Zenon, <1>1, <1>3, <2>1, <2>5, <2>6, <2>7, ClosureKeeps
<1> QED BY Zenon, <1>4, <1>5

LEMMA CollectKeeps ==
    ASSUME VerbsInv, NEW c \in Jobs, Collect(c)
    PROVE  VerbsInv'
<1>1. /\ UNCHANGED <<verb, future, closure, before, agents, committed, told>>
      /\ closure[c] = "looked" /\ verb[c].op = "list"
  BY Zenon DEF Collect, ClosureAt, rowVars
<1>2. PICK a \in todo[c] : /\ todo' = [todo EXCEPT ![c] = (@ \ {a}) \cup Children(a)]
                           /\ listed' = [listed EXCEPT ![c] = @ \cup {a}]
  BY Zenon DEF Collect
<1>3. VerbsTyped /\ Rooted(admitted) /\ AnswerFact(c) /\ ListFact(c)
  BY Zenon DEF VerbsInv
<1>4. Jobs' = Jobs /\ admitted' = admitted
  BY Zenon, <1>1 DEF Jobs, admitted
<1>5. Children(a) \subseteq admitted /\ \A b \in admitted \ {Root} : Parent(b) = a => b \in Children(a)
  BY Zenon DEF Children
<1>6. /\ listed[c] \cup todo[c] \subseteq admitted
      /\ Root \in listed[c] \cup todo[c]
      /\ before[c] \subseteq admitted /\ Rooted(before[c])
      /\ \A b \in before[c] \ {Root} : Parent(b) \in listed[c] => b \in listed[c] \cup todo[c]
  BY <1>1, <1>3 DEF ListFact
<1> HIDE DEF admitted
<1>7. /\ todo'[c] = (todo[c] \ {a}) \cup Children(a) /\ listed'[c] = listed[c] \cup {a}
      /\ \A x \in Jobs \ {c} : todo'[x] = todo[x] /\ listed'[x] = listed[x]
  BY Zenon, <1>2, <1>3 DEF VerbsTyped
<1>8. VerbsTyped'
  <2>1. (todo[c] \ {a}) \cup Children(a) \in SUBSET Agents /\ listed[c] \cup {a} \in SUBSET Agents
    BY <1>3, <1>5 DEF VerbsTyped
  <2>2. todo' \in [Jobs -> SUBSET Agents] /\ listed' \in [Jobs -> SUBSET Agents]
    BY <1>2, <1>3, <2>1 DEF VerbsTyped
  <2> QED BY Zenon, <1>1, <1>3, <1>4, <2>2 DEF VerbsTyped
<1>9. Rooted(admitted)'
  BY Zenon, <1>3, <1>4 DEF Rooted
<1>10. AnswerFact(c)'
  BY Zenon, <1>1, <1>3, <1>4 DEF AnswerFact
<1>11. closure'[c] # "queued" /\ closure'[c] # "ok"
  BY <1>1
<1>12. /\ listed'[c] \cup todo'[c] \subseteq admitted'
       /\ Root \in listed'[c] \cup todo'[c]
       /\ \A b \in before[c] \ {Root} : Parent(b) \in listed'[c] => b \in listed'[c] \cup todo'[c]
  BY <1>4, <1>5, <1>6, <1>7
<1>13. ListFact(c)'
  BY Zenon, <1>1, <1>4, <1>6, <1>11, <1>12 DEF ListFact, Rooted
<1> QED BY Zenon, <1>1, <1>4, <1>7, <1>8, <1>9, <1>10, <1>13, JobKeeps

LEMMA ListedKeeps ==
    ASSUME VerbsInv, NEW c \in Jobs, Listed(c)
    PROVE  VerbsInv'
<1>1. /\ UNCHANGED <<verb, future, todo, listed, before, agents, committed, told>>
      /\ closure[c] = "looked" /\ future[c] # "new" /\ verb[c].op = "list" /\ todo[c] = {}
      /\ closure' = [closure EXCEPT ![c] = "ok"]
  BY Zenon DEF Listed, ClosureAt, Goes, readVars, rowVars
<1>2. VerbsTyped /\ Rooted(admitted) /\ AnswerFact(c) /\ ListFact(c)
  BY Zenon DEF VerbsInv
<1>3. Jobs' = Jobs /\ admitted' = admitted
  BY Zenon, <1>1 DEF Jobs, admitted
<1> HIDE DEF admitted
<1>4. closure' \in [Jobs -> VerbPlaces] /\ closure'[c] = "ok"
      /\ \A x \in Jobs \ {c} : closure'[x] = closure[x]
  BY <1>1, <1>2 DEF VerbsTyped, VerbPlaces
<1>5. VerbsTyped'
  BY Zenon, <1>1, <1>2, <1>3, <1>4 DEF VerbsTyped
<1>6. Rooted(admitted)'
  BY Zenon, <1>2, <1>3 DEF Rooted
<1>7. AnswerFact(c)'
  BY <1>1, <1>2, <1>3, <1>4 DEF AnswerFact, Finished
<1>8. ListFact(c)'
  BY <1>1, <1>2, <1>3, <1>4 DEF ListFact, Rooted
<1> QED BY Zenon, <1>1, <1>3, <1>4, <1>5, <1>6, <1>7, <1>8, JobKeeps

\* The steps of a future leave the closure where it is, but for a call refused at once.
LEMMA FutureKeeps ==
    ASSUME VerbsInv, NEW c \in Jobs, Call(c) \/ Cancelled(c) \/ ReturnAnswer(c)
    PROVE  VerbsInv'
<1>1. UNCHANGED <<verb, todo, listed, before, agents, committed>>
  BY Zenon DEF Call, Cancelled, ReturnAnswer, readVars, rowVars
<1>2. VerbsTyped /\ Rooted(admitted) /\ AnswerFact(c) /\ ListFact(c)
  BY Zenon DEF VerbsInv
<1>3. Jobs' = Jobs /\ admitted' = admitted
  BY Zenon, <1>1 DEF Jobs, admitted
<1> HIDE DEF admitted
<1>4. Rooted(admitted)'
  BY Zenon, <1>2, <1>3 DEF Rooted
<1>5. CASE Call(c)
  <2>1. future[c] = "new" /\ future' = [future EXCEPT ![c] = "awaiting"] /\ UNCHANGED <<closure, told>>
    BY Zenon, <1>5 DEF Call
  <2>2. VerbsTyped'
    BY <1>1, <1>2, <1>3, <2>1 DEF VerbsTyped
  <2>3. future'[c] = "awaiting" /\ \A x \in Jobs \ {c} : future'[x] = future[x]
    BY <1>2, <2>1 DEF VerbsTyped
  <2>4. AnswerFact(c)'
    BY <1>1, <1>2, <1>3, <2>1, <2>3 DEF AnswerFact, Finished
  <2>5. ListFact(c)'
    BY Zenon, <1>1, <1>2, <1>3, <2>1 DEF ListFact, Rooted
  <2> QED BY Zenon, <1>1, <1>3, <1>4, <2>1, <2>2, <2>3, <2>4, <2>5, JobKeeps
<1>6. CASE Cancelled(c)
  <2>1. /\ future[c] \in {"new", "awaiting"} /\ future' = [future EXCEPT ![c] = "dropped"]
        /\ told' = told
        /\ IF future[c] = "new" THEN closure' = [closure EXCEPT ![c] = "refused"]
                                ELSE closure' = closure
    BY Zenon, <1>6 DEF Cancelled, Goes
  <2>2. VerbsTyped'
    BY <1>1, <1>2, <1>3, <2>1 DEF VerbsTyped, VerbPlaces
  <2>3. future'[c] = "dropped" /\ \A x \in Jobs \ {c} : future'[x] = future[x]
    BY <1>2, <2>1 DEF VerbsTyped
  <2>4. /\ (closure'[c] = "refused" /\ closure[c] = "queued") \/ closure'[c] = closure[c]
        /\ \A x \in Jobs \ {c} : closure'[x] = closure[x]
    BY <1>2, <2>1 DEF VerbsTyped, AnswerFact
  <2>5. AnswerFact(c)'
    BY <1>1, <1>2, <1>3, <2>3, <2>4 DEF AnswerFact, Finished
  <2>6. ListFact(c)'
    BY <1>1, <1>2, <1>3, <2>4 DEF ListFact, Rooted
  <2> QED BY Zenon, <1>1, <1>3, <1>4, <2>1, <2>2, <2>3, <2>4, <2>5, <2>6, JobKeeps
<1>7. CASE ReturnAnswer(c)
  <2>1. /\ future[c] = "awaiting" /\ closure[c] \in Finished
        /\ future' = [future EXCEPT ![c] = closure[c]] /\ closure' = closure
        /\ told' = IF closure[c] = "ok" /\ verb[c].op \in {"spawn", "mail"} THEN told \cup {c} ELSE told
    BY Zenon, <1>7 DEF ReturnAnswer
  <2>2. VerbsTyped'
    BY <1>1, <1>2, <1>3, <2>1 DEF VerbsTyped, Finished
  <2>3. future'[c] = closure[c] /\ \A x \in Jobs \ {c} : future'[x] = future[x]
    BY <1>2, <2>1 DEF VerbsTyped
  <2>4. AnswerFact(c)'
    BY <1>1, <1>2, <1>3, <2>1, <2>3 DEF AnswerFact, Finished
  <2>5. ListFact(c)'
    BY Zenon, <1>1, <1>2, <1>3, <2>1 DEF ListFact, Rooted
  <2>6. \A x \in Jobs : x \in told => x \in told'
    BY Zenon, <2>1
  <2> QED BY Zenon, <1>1, <1>3, <1>4, <2>1, <2>2, <2>3, <2>4, <2>5, <2>6, JobKeeps
<1> QED BY Zenon, <1>5, <1>6, <1>7

\* The engine's steps and stuttering change nothing the facts speak of.
LEMMA EngineKeeps ==
    ASSUME VerbsInv,
           UNCHANGED <<verb, future, closure, todo, listed, before, agents, committed, told>>
    PROVE  VerbsInv'
<1>1. Jobs' = Jobs /\ admitted' = admitted
  BY Zenon DEF Jobs, admitted
<1> HIDE DEF Jobs, admitted
<1>2. VerbsTyped' /\ Rooted(admitted)'
  BY Zenon, <1>1 DEF VerbsInv, VerbsTyped, Rooted
<1>3. \A c \in Jobs : AnswerFact(c)'
  BY Zenon, <1>1 DEF VerbsInv, AnswerFact
<1>4. \A c \in Jobs : ListFact(c)'
  BY Zenon, <1>1 DEF VerbsInv, ListFact, Rooted
<1> QED BY Zenon, <1>1, <1>2, <1>3, <1>4 DEF VerbsInv

LEMMA LostKeeps ==
    ASSUME VerbsInv, VerbsLost
    PROVE  VerbsInv'
<1>1. /\ UNCHANGED <<verb, todo, listed, before, agents, committed, told>>
      /\ future' = [c \in Jobs |-> IF future[c] = "awaiting" THEN "dropped" ELSE future[c]]
      /\ closure' = [c \in Jobs |-> IF future[c] = "new" \/ closure[c] \in Finished THEN closure[c]
                                    ELSE "refused"]
  BY Zenon DEF VerbsLost, readVars, rowVars
<1>2. VerbsTyped /\ Rooted(admitted) /\ \A c \in Jobs : AnswerFact(c) /\ ListFact(c)
  BY Zenon DEF VerbsInv
<1>3. Jobs' = Jobs /\ admitted' = admitted
  BY Zenon, <1>1 DEF Jobs, admitted
<1> HIDE DEF Jobs, admitted
<1>4. VerbsTyped'
  BY <1>1, <1>2, <1>3 DEF VerbsTyped, VerbPlaces
<1>5. Rooted(admitted)'
  BY Zenon, <1>2, <1>3 DEF Rooted
<1>6. ASSUME NEW c \in Jobs PROVE AnswerFact(c)' /\ ListFact(c)'
  <2>1. /\ future'[c] = IF future[c] = "awaiting" THEN "dropped" ELSE future[c]
        /\ \/ closure'[c] = closure[c] /\ (future[c] = "new" \/ closure[c] \in Finished)
           \/ closure'[c] = "refused" /\ future[c] # "new" /\ closure[c] \notin Finished
    BY Zenon, <1>1
  <2>2. AnswerFact(c)'
    BY <1>1, <1>2, <1>3, <2>1 DEF AnswerFact, Finished
  <2>3. ListFact(c)'
    BY <1>1, <1>2, <1>3, <2>1 DEF ListFact, Rooted, Finished
  <2> QED BY Zenon, <2>2, <2>3
<1> QED BY Zenon, <1>3, <1>4, <1>5, <1>6 DEF VerbsInv

LEMMA VerbsStep == VerbsInv /\ [VerbsNext]_verbVars => VerbsInv'
<1> SUFFICES ASSUME VerbsInv, [VerbsNext]_verbVars PROVE VerbsInv'
  OBVIOUS
<1>1. CASE UNCHANGED verbVars
  BY Zenon, <1>1, EngineKeeps DEF verbVars, readVars, rowVars
<1>2. ASSUME NEW a \in Agents, BeginRequest(a) \/ ApplyPendingEffort(a) PROVE VerbsInv'
  BY Zenon, <1>2, EngineKeeps DEF BeginRequest, ApplyPendingEffort, readVars
<1>3. ASSUME NEW c \in Jobs, StepClosure(c) PROVE VerbsInv'
  BY Zenon, <1>3, LookKeeps, ReadKeeps, CommitKeeps, AdmitKeeps, CollectKeeps, ListedKeeps DEF StepClosure
<1> QED BY Zenon, <1>1, <1>2, <1>3, FutureKeeps, LostKeeps DEF VerbsNext

LEMMA VerbsStart == VerbsInit => VerbsInv
<1> SUFFICES ASSUME VerbsInit PROVE VerbsInv
  OBVIOUS
<1>1. PICK w \in VerbWorlds : verb = w.calls
  BY Zenon DEF VerbsInit
<1>2. admitted = {Root}
  BY Zenon DEF VerbsInit, admitted
<1>3. \A c \in Jobs : /\ verb[c].of \in Agents
                      /\ verb[c].op = "spawn" => verb[c].of # Root /\ Parent(verb[c].of) = verb[c].agent
  BY Zenon, <1>1, VerbsAssumption DEF Jobs
<1> HIDE DEF Jobs, admitted
<1>4. VerbsTyped
  <2>1. Root \in Agents /\ admitted \in SUBSET Agents
    BY Zenon, <1>2, VerbsAssumption
  <2>2. /\ future \in [Jobs -> {"new", "awaiting", "dropped", "ok", "refused"}]
        /\ closure \in [Jobs -> VerbPlaces]
    BY DEF VerbsInit, VerbPlaces
  <2>3. /\ todo \in [Jobs -> SUBSET Agents] /\ listed \in [Jobs -> SUBSET Agents]
        /\ before \in [Jobs -> SUBSET Agents]
    BY DEF VerbsInit
  <2> QED BY Zenon, <1>3, <2>1, <2>2, <2>3 DEF VerbsTyped
<1>5. Rooted(admitted)
  BY Zenon, <1>2 DEF Rooted
<1>6. \A c \in Jobs : AnswerFact(c)
  BY DEF VerbsInit, AnswerFact, Finished
<1>7. \A c \in Jobs : ListFact(c)
  BY DEF VerbsInit, ListFact
<1> QED BY Zenon, <1>4, <1>5, <1>6, <1>7 DEF VerbsInv

-----------------------------------------------------------------------------
(* Theorems *)

\* What is committed, told and listed keeps its facts in every reachable state.
THEOREM VerbsInvariant == VerbsSpec => []VerbsInv
BY VerbsStart, VerbsStep, PTL DEF VerbsSpec

\* Every answer a job gets from an agent verb is true of the store, whatever
\* verbs, cancellations and process losses come between its store calls.
THEOREM VerbAnswersTrue == VerbsSpec => []AnswersTrue
<1>1. ASSUME VerbsInv, NEW c \in Jobs
      PROVE  /\ future[c] = "refused" => c \notin committed
             /\ future[c] = "ok" /\ verb[c].op \in {"spawn", "mail"} => c \in committed /\ c \in told
             /\ future[c] = "ok" /\ verb[c].op = "list" =>
                   before[c] \subseteq listed[c] /\ listed[c] \subseteq admitted
  <2>1. VerbsTyped /\ AnswerFact(c) /\ ListFact(c)
    BY Zenon, <1>1 DEF VerbsInv
  <2>2. future[c] \in Finished => closure[c] = future[c]
    BY Zenon, <2>1 DEF AnswerFact
  <2>3. future[c] = "refused" => c \notin committed
    BY <2>1, <2>2 DEF AnswerFact, Finished
  <2>4. future[c] = "ok" => closure[c] = "ok"
    BY <2>2 DEF Finished
  <2>5. future[c] = "ok" /\ verb[c].op \in {"spawn", "mail"} => c \in committed /\ c \in told
    BY Zenon, <2>1, <2>4 DEF AnswerFact
  <2> QED BY Zenon, <2>1, <2>3, <2>4, <2>5, ListingWhole
<1>2. VerbsInv => AnswersTrue
  BY Zenon, <1>1 DEF AnswersTrue
<1> QED BY <1>2, VerbsInvariant, PTL

-----------------------------------------------------------------------------
(* History pages *)

LEMMA MinLeast ==
    ASSUME NEW T \in SUBSET Nat, T # {}
    PROVE  Min(T) \in T /\ \A y \in T : Min(T) <= y
BY Zenon, Least DEF Min

Pages == [ok : BOOLEAN, items : SUBSET Nat, next : SUBSET Nat, oversized : SUBSET Nat]

\* A page passes over nothing from its offset on.
Whole(page, offset) ==
    /\ page.next = {} => \A p \in Nat : offset <= p /\ p < retained => p \in page.items
    /\ \A n \in page.next, p \in Nat : offset <= p /\ p < n => p \in page.items

\* What the final loop leaves out is read by the next page.
LEMMA TrimWhole ==
    ASSUME NEW page \in Pages, NEW offset \in Nat, Whole(page, offset),
           \A p, q \in Nat : q \in page.items /\ offset <= p /\ p < q => p \in page.items,
           HistoryTrim(page).ok
    PROVE  HistoryTrim(page) \in Pages /\ Whole(HistoryTrim(page), offset)
<1> DEFINE kept == Encodable(page.items)
           left == page.items \ kept
<1>1. CASE page.oversized # {} \/ kept = page.items
  BY Zenon, <1>1 DEF HistoryTrim
<1>2. CASE ~(page.oversized # {} \/ kept = page.items)
  <2>1. kept \subseteq page.items /\ page.items \in SUBSET Nat
    BY DEF Encodable, Pages
  <2> HIDE DEF kept
  <2>2. left \in SUBSET Nat /\ left # {}
    BY Zenon, <1>2, <2>1
  <2>3. Min(left) \in left /\ \A y \in left : Min(left) <= y
    BY Zenon, <2>2, MinLeast
  <2>4. HistoryTrim(page) = IF kept = {} THEN InvalidPage
                            ELSE [page EXCEPT !.items = kept, !.next = {Min(left)}]
    BY Zenon, <1>2 DEF HistoryTrim, kept
  <2>5. ~InvalidPage.ok
    BY DEF InvalidPage, NoPage
  <2>6. HistoryTrim(page) = [page EXCEPT !.items = kept, !.next = {Min(left)}]
    BY Zenon, <2>4, <2>5
  <2> DEFINE trimmed == HistoryTrim(page)
             m == Min(left)
  <2> HIDE DEF trimmed, m, left
  <2>7. m \in Nat /\ m \in page.items
    BY Zenon, <2>1, <2>2, <2>3 DEF left, m
  <2>8. trimmed \in Pages /\ trimmed.next = {m} /\ trimmed.items = kept
    BY ZenonT(40), <2>1, <2>6, <2>7 DEF trimmed, Pages, m
  <2>9. ASSUME NEW p \in Nat, offset <= p, p < m PROVE p \in kept
    <3>1. p \in page.items
      BY Zenon, <2>7, <2>9
    <3>2. p \notin left
      BY <2>3, <2>7, <2>9 DEF m
    <3> QED BY Zenon, <3>1, <3>2 DEF left
  <2>10. Whole(trimmed, offset)
    BY Zenon, <2>8, <2>9 DEF Whole
  <2> QED BY Zenon, <2>8, <2>10 DEF trimmed
<1> QED BY Zenon, <1>1, <1>2

\* history_page passes over nothing: the items from the offset on are in the page,
\* up to its next offset, or to the last one retained.
LEMMA PageWhole ==
    ASSUME NEW offset \in Nat, retained \in Nat, history_page(offset).ok
    PROVE  history_page(offset) \in Pages /\ Whole(history_page(offset), offset)
<1> DEFINE rest == {p \in 0..(retained - 1) : p >= offset}
           window == {p \in rest : p < offset + PageItems}
           taken == {p \in window :
                       \A r \in UpTo(window, p) : StoredBytes(UpTo(window, r)) <= ItemBudget}
           left == rest \ taken
           next == IF left = {} THEN {} ELSE {Min(left)}
           notice == IF taken = window THEN {} ELSE Noticed(taken, Min(left))
           page == [NoPage EXCEPT !.items = taken, !.next = next, !.oversized = notice]
<1>1. history_page(offset) = HistoryTrim(page)
  BY Zenon DEF history_page
<1>2. /\ \A p \in rest : p \in Nat /\ offset <= p /\ p < retained
      /\ \A p \in Nat : offset <= p /\ p < retained => p \in rest
  BY SMT
<1>3. PageItems \in Nat
  BY HistoryAssumption
<1> HIDE DEF rest
<1>4. /\ window \subseteq rest
      /\ \A p, q \in Nat : q \in window /\ offset <= p /\ p < q => p \in window
  BY <1>2, <1>3
<1>5. taken \subseteq window
  BY Zenon
<1> HIDE DEF window
<1>6. \A p, q \in Nat : q \in taken /\ offset <= p /\ p < q => p \in taken
  <2> SUFFICES ASSUME NEW p \in Nat, NEW q \in Nat, q \in taken, offset <= p, p < q
               PROVE  p \in taken
    BY Zenon
  <2>1. q \in window /\ \A r \in UpTo(window, q) : StoredBytes(UpTo(window, r)) <= ItemBudget
    BY Zenon
  <2>2. p \in window
    BY Zenon, <1>4, <2>1
  <2>3. window \in SUBSET Nat
    BY Zenon, <1>2, <1>4
  <2>4. UpTo(window, p) \subseteq UpTo(window, q)
    <3>1. \A x \in window : x <= p => x <= q
      BY SMT, <2>3
    <3> QED BY Zenon, <3>1 DEF UpTo
  <2> QED BY Zenon, <2>1, <2>2, <2>4
<1> HIDE DEF taken
<1>7. left \in SUBSET Nat /\ left \subseteq rest /\ taken \in SUBSET Nat
  BY Zenon, <1>2, <1>4, <1>5
<1>8. left # {} => Min(left) \in left /\ \A y \in left : Min(left) <= y
  BY Zenon, <1>7, MinLeast
<1>9. \A p \in rest : p \in left \/ p \in taken
  BY Zenon
<1>10. notice \in SUBSET Nat
  <2>1. taken # window => left # {}
    BY Zenon, <1>4, <1>5
  <2>2. left # {} => Noticed(taken, Min(left)) \in SUBSET Nat
    <3> HIDE DEF left
    <3> QED BY Zenon, <1>7, <1>8 DEF Noticed
  <2> QED BY Zenon, <2>1, <2>2
<1> HIDE DEF left
<1>11. next \in SUBSET Nat
  BY Zenon, <1>7, <1>8
<1> HIDE DEF notice, next
<1>12. NoPage \in Pages
  BY DEF NoPage, Pages
<1>13. page \in Pages /\ page.items = taken /\ page.next = next
  BY Zenon, <1>7, <1>10, <1>11, <1>12 DEF Pages
<1> HIDE DEF page
<1>14. ASSUME NEW n \in next, NEW p \in Nat, offset <= p, p < n PROVE p \in taken
  <2>1. left # {} /\ n = Min(left)
    BY Zenon DEF next
  <2>2. n \in left /\ n \in rest /\ n \in Nat /\ \A y \in left : n <= y
    BY Zenon, <1>2, <1>7, <1>8, <2>1
  <2>3. p < retained /\ p \notin left
    BY <1>2, <1>7, <1>14, <2>2
  <2> QED BY Zenon, <1>2, <1>9, <1>14, <2>3
<1>15. next = {} => \A p \in Nat : offset <= p /\ p < retained => p \in taken
  BY Zenon, <1>2, <1>9 DEF next
<1>16. Whole(page, offset)
  BY Zenon, <1>13, <1>14, <1>15 DEF Whole
<1> QED BY Zenon, <1>1, <1>6, <1>13, <1>16, TrimWhole

Shown(n) == \A p \in Nat : p < n => p \in seenItems

HistoryTyped ==
    /\ items \in Histories /\ retained \in Nat
    /\ wanted \in Seq(Nat) /\ wanted # <<>>
    /\ loaded \in [page : Pages, offsets : Seq(Nat), of : Nat]

\* Every offset the window can read, and every page it can go on from, has all
\* that precedes it shown.
HistoryInv ==
    /\ HistoryTyped
    /\ \A i \in DOMAIN wanted : Shown(wanted[i])
    /\ \A i \in DOMAIN loaded.offsets : Shown(loaded.offsets[i])
    /\ \A n \in loaded.page.next :
          Shown(n) /\ (loaded.page.oversized # {} => n \in seenItems)
    /\ loaded.page.next = {} => Shown(loaded.of)

LEMMA IntendKeeps ==
    ASSUME HistoryInv, NEW o \in Seq(Nat), o # <<>>, \A i \in DOMAIN o : Shown(o[i]), Intend(o)
    PROVE  HistoryInv'
BY Zenon DEF HistoryInv, HistoryTyped, Intend, Shown

LEMMA PageReadKeeps ==
    ASSUME HistoryInv, ReadHistoryPage
    PROVE  HistoryInv'
<1> DEFINE offset == Head(wanted)
           page == history_page(offset)
<1>0. HistoryTyped
  BY Zenon DEF HistoryInv
<1>1. /\ offset \in Nat /\ 1 \in DOMAIN wanted /\ offset = wanted[1]
      /\ wanted \in Seq(Nat) /\ retained \in Nat
  BY <1>0 DEF HistoryTyped
<1>2. Shown(offset)
  BY Zenon, <1>1 DEF HistoryInv
<1>3. UNCHANGED <<items, retained, wanted>>
  BY Zenon DEF ReadHistoryPage
<1>4. CASE UNCHANGED <<loaded, seenItems>>
  BY Zenon, <1>3, <1>4 DEF HistoryInv, HistoryTyped, Shown
<1>5. CASE /\ page.ok /\ decodeHistoryPage(page, offset)
           /\ loaded' = [page |-> page, offsets |-> wanted, of |-> retained]
           /\ seenItems' = seenItems \cup page.items \cup page.oversized
  <2>1. page \in Pages /\ Whole(page, offset)
    BY Zenon, <1>1, <1>5, PageWhole
  <2>2. \A large \in page.oversized : page.next = {large}
    BY Zenon, <1>5 DEF decodeHistoryPage
  <2> HIDE DEF page, offset
  <2>3. /\ loaded'.page = page /\ loaded'.offsets = wanted /\ loaded'.of = retained
        /\ loaded' \in [page : Pages, offsets : Seq(Nat), of : Nat]
    BY Zenon, <1>1, <1>5, <2>1
  <2>4. seenItems \subseteq seenItems' /\ page.items \subseteq seenItems'
        /\ page.oversized \subseteq seenItems'
    BY Zenon, <1>5
  <2>5. \A i \in DOMAIN wanted : Shown(wanted[i])'
    BY Zenon, <1>3, <2>4 DEF HistoryInv, Shown
  <2>6. ASSUME NEW n \in page.next PROVE Shown(n)'
    <3>1. \A p \in Nat : p < offset => p \in seenItems
      BY Zenon, <1>2 DEF Shown
    <3>2. \A p \in Nat : p < offset \/ offset <= p
      BY SMT, <1>1
    <3> QED BY Zenon, <2>1, <2>4, <3>1, <3>2 DEF Whole, Shown
  <2>7. \A n \in page.next : page.oversized # {} => n \in seenItems'
    BY Zenon, <2>2, <2>4
  <2>8. page.next = {} => Shown(retained)'
    <3>1. \A p \in Nat : p < offset => p \in seenItems
      BY Zenon, <1>2 DEF Shown
    <3>2. \A p \in Nat : p < offset \/ offset <= p
      BY SMT, <1>1
    <3> QED BY Zenon, <1>3, <2>1, <2>4, <3>1, <3>2 DEF Whole, Shown
  <2>9. HistoryTyped'
    BY Zenon, <1>0, <1>3, <2>3 DEF HistoryTyped
  <2> QED BY Zenon, <1>3, <2>3, <2>5, <2>6, <2>7, <2>8, <2>9 DEF HistoryInv
<1> QED BY Zenon, <1>4, <1>5 DEF ReadHistoryPage

LEMMA NextPageKeeps ==
    ASSUME HistoryInv, NextPage
    PROVE  HistoryInv'
<1>1. PICK next \in loaded.page.next :
        Intend(<<IF loaded.page.oversized # {} THEN next + 1 ELSE next>> \o loaded.offsets)
  BY Zenon DEF NextPage
<1> DEFINE first == IF loaded.page.oversized # {} THEN next + 1 ELSE next
           o == <<first>> \o loaded.offsets
<1>2. /\ loaded.page \in Pages /\ loaded.offsets \in Seq(Nat)
  BY DEF HistoryInv, HistoryTyped
<1>3. next \in Nat
  BY Zenon, <1>1, <1>2 DEF Pages
<1>4. first \in Nat
  BY <1>3
<1>5. Shown(next) /\ (loaded.page.oversized # {} => next \in seenItems)
  BY Zenon, <1>1 DEF HistoryInv
<1>6. Shown(first)
  <2>1. \A p \in Nat : p < next + 1 => p < next \/ p = next
    BY SMT, <1>3
  <2> QED BY Zenon, <1>5, <2>1 DEF Shown
<1> HIDE DEF first
<1>7. /\ o \in Seq(Nat) /\ o # <<>>
      /\ \A i \in DOMAIN o : o[i] = first \/ \E j \in DOMAIN loaded.offsets : o[i] = loaded.offsets[j]
  <2> DEFINE s == loaded.offsets
  <2>1. s \in Seq(Nat) /\ o = <<first>> \o s
    BY Zenon, <1>2
  <2> HIDE DEF s, o
  <2>2. o \in Seq(Nat) /\ o # <<>>
    BY <1>4, <2>1
  <2>3. ASSUME NEW i \in DOMAIN o, i # 1 PROVE i - 1 \in DOMAIN s /\ o[i] = s[i - 1]
    BY <1>4, <2>1, <2>3
  <2>4. o[1] = first
    BY <1>4, <2>1
  <2> QED BY Zenon, <2>2, <2>3, <2>4 DEF s
<1>8. \A i \in DOMAIN o : Shown(o[i])
  BY Zenon, <1>6, <1>7 DEF HistoryInv
<1>9. Intend(o)
  BY Zenon, <1>1 DEF first
<1> HIDE DEF o
<1> QED BY Zenon, <1>7, <1>8, <1>9, IntendKeeps

\* The invariant of the inspection window: whatever it may read next, everything
\* before it was shown.
THEOREM HistoryInvariant == HistorySpec => []HistoryInv
<1>1. ASSUME HistoryInit PROVE HistoryInv
  <2>1. /\ items \in Histories /\ retained \in 0..Len(items) /\ wanted = <<0>>
        /\ loaded = [page |-> NoPage, offsets |-> <<>>, of |-> 0]
    BY Zenon, <1>1 DEF HistoryInit
  <2>2. Len(items) \in Nat
    BY <2>1, HistoryAssumption
  <2>3. NoPage \in Pages /\ NoPage.next = {}
    BY DEF NoPage, Pages
  <2>4. loaded \in [page : Pages, offsets : Seq(Nat), of : Nat]
    BY <2>1, <2>3
  <2>5. Shown(0)
    BY SMT DEF Shown
  <2>6. HistoryTyped
    BY <2>1, <2>2, <2>4 DEF HistoryTyped
  <2>7. \A i \in DOMAIN wanted : Shown(wanted[i])
    BY <2>1, <2>5
  <2>8. loaded.page = NoPage /\ loaded.offsets = <<>> /\ loaded.of = 0
    BY Zenon, <2>1
  <2>9. \A i \in DOMAIN loaded.offsets : Shown(loaded.offsets[i])
    BY <2>8
  <2> QED BY Zenon, <2>3, <2>5, <2>6, <2>7, <2>8, <2>9 DEF HistoryInv
<1>2. ASSUME HistoryInv, [HistoryNext]_historyVars PROVE HistoryInv'
  <2>0. /\ wanted \in Seq(Nat) /\ wanted # <<>> /\ loaded.offsets \in Seq(Nat) /\ retained \in Nat
    BY <1>2 DEF HistoryInv, HistoryTyped
  <2>1. CASE RetainItem
    <3>1. retained' \in Nat
      BY <2>0, <2>1 DEF RetainItem
    <3> QED BY Zenon, <1>2, <2>1, <3>1 DEF HistoryInv, HistoryTyped, Shown, RetainItem
  <2>2. CASE ReadHistoryPage
    BY Zenon, <1>2, <2>2, PageReadKeeps
  <2>3. CASE ReadFails
    BY Zenon, <1>2, <2>3 DEF HistoryInv, HistoryTyped, Shown, ReadFails
  <2>4. CASE NextPage
    BY Zenon, <1>2, <2>4, NextPageKeeps
  <2>5. CASE PreviousPage
    <3> DEFINE s == loaded.offsets
               o == Tail(s)
    <3>1. Intend(o) /\ Len(s) > 1
      BY Zenon, <2>5 DEF PreviousPage
    <3>2. s \in Seq(Nat)
      BY Zenon, <2>0
    <3> HIDE DEF s
    <3>3. o \in Seq(Nat) /\ o # <<>>
      BY <3>1, <3>2
    <3>4. \A i \in DOMAIN o : i + 1 \in DOMAIN s /\ o[i] = s[i + 1]
      BY <3>1, <3>2
    <3>5. \A i \in DOMAIN o : Shown(o[i])
      BY Zenon, <1>2, <3>4 DEF HistoryInv, s
    <3> HIDE DEF o
    <3> QED BY Zenon, <1>2, <3>1, <3>3, <3>5, IntendKeeps
  <2>6. CASE Refresh
    <3>1. Intend(loaded.offsets) /\ loaded.offsets # <<>>
      BY Zenon, <2>6 DEF Refresh
    <3>2. \A i \in DOMAIN loaded.offsets : Shown(loaded.offsets[i])
      BY Zenon, <1>2 DEF HistoryInv
    <3> QED BY Zenon, <1>2, <2>0, <3>1, <3>2, IntendKeeps
  <2>7. CASE Retry
    <3>1. Intend(wanted)
      BY Zenon, <2>7 DEF Retry
    <3>2. \A i \in DOMAIN wanted : Shown(wanted[i])
      BY Zenon, <1>2 DEF HistoryInv
    <3> QED BY Zenon, <1>2, <2>0, <3>1, <3>2, IntendKeeps
  <2>8. CASE UNCHANGED historyVars
    BY Zenon, <1>2, <2>8 DEF HistoryInv, HistoryTyped, Shown, historyVars
  <2> QED BY Zenon, <1>2, <2>1, <2>2, <2>3, <2>4, <2>5, <2>6, <2>7, <2>8 DEF HistoryNext
<1> QED BY <1>1, <1>2, PTL DEF HistorySpec

\* "It is never silently skipped": no item before the offset being read was passed
\* over, and the last page ends at the last item retained when it was read.
THEOREM NoItemPassedOver == HistorySpec => []NothingPassedOver
<1>1. ASSUME HistoryInv PROVE NothingPassedOver
  <2>1. /\ Head(wanted) \in Nat /\ 1 \in DOMAIN wanted /\ Head(wanted) = wanted[1]
        /\ loaded.of \in Nat
    BY <1>1 DEF HistoryInv, HistoryTyped
  <2>2. Shown(Head(wanted)) /\ (loaded.page.next = {} => Shown(loaded.of))
    BY Zenon, <1>1, <2>1 DEF HistoryInv
  <2>3. \A n \in Nat : \A p \in 0..(n - 1) : p \in Nat /\ p < n
    BY SMT
  <2> QED BY Zenon, <2>1, <2>2, <2>3 DEF NothingPassedOver, Shown
<1> QED BY <1>1, HistoryInvariant, PTL

-----------------------------------------------------------------------------
(* Actor forms *)

\* What the store keeps of one row, given the last event, the operations applied
\* to the form and the attempts rejected for it.
RowOK(row, last, known, refused) ==
    /\ row \in Row
    /\ row.revision <= last
    /\ row.state = "absent" => row = Absent
    /\ row.state # "absent" => 0 < row.sequence /\ row.sequence <= row.revision
    /\ (row.attempt = None) <=> (row.draft = None)
    /\ row.attempt # None => known[row.attempt] = row.draft
    /\ row.state \in {"submitted", "answered"} => row.attempt # None /\ row.errors = "none"
    /\ (row.answer # None) <=> (row.state = "answered")
    /\ row.state = "answered" => row.answer = row.draft
    /\ row.state = "submitted" => row.attempt \notin refused

RowsOK == \A f \in Forms : RowOK(form[f], events, ops[f], rejected[f])

\* What a decoder read is an operation that was applied to its form.
ReadsApplied ==
    \A f \in Forms :
        /\ decoder[f] # "mounting" => form[f].state # "absent"
        /\ decoder[f] = "decoding" => /\ read[f].attempt \in Operations
                                      /\ ops[f][read[f].attempt] = read[f].draft

\* Only applied operations are rejected.
RejectedApplied == \A f \in Forms : \A o \in rejected[f] : ops[f][o] # Unused

Inv == TypeOK /\ RowsOK /\ ReadsApplied /\ RejectedApplied

-----------------------------------------------------------------------------
(* The row operators *)

\* save stores a valid row under the next revision.
LEMMA SaveRow ==
    ASSUME NEW f \in Forms, NEW row, NEW known, NEW refused,
           TypeOK, RowsOK, Save(f, row),
           RowOK(row, events, known, refused), row.state # "absent"
    PROVE  /\ events' \in Nat /\ events' = events + 1
           /\ form' \in [Forms -> Row]
           /\ awake' \subseteq Forms
           /\ RowOK(form'[f], events', known, refused)
           /\ form'[f].state = row.state
           /\ \A g \in Forms \ {f} : form'[g] = form[g]
  <1>1. row \in Row /\ events \in Nat /\ row.revision \in Nat /\ row.sequence \in Nat
    BY Zenon DEF RowOK, Row, TypeOK
  <1>2. form'[f] = [row EXCEPT !.revision = events + 1]
    BY Zenon DEF Save, TypeOK
  <1>3. [row EXCEPT !.revision = events + 1] \in Row
    BY <1>1 DEF Row
  <1>4. RowOK(form'[f], events + 1, known, refused)
    BY <1>1, <1>2, <1>3 DEF RowOK, Row
  <1> QED
    BY Zenon, <1>1, <1>2, <1>3, <1>4 DEF Save, Signal, TypeOK, Row

\* A browser operation that was never applied turns an open row into a valid one.
LEMMA OperatedRow ==
    ASSUME NEW row, NEW last, NEW known \in [Operations -> Payloads \cup {Unused}],
           NEW refused, NEW o \in Operations, NEW p \in Payloads,
           RowOK(row, last, known, refused), o \notin refused, known[o] = Unused,
           row.state = "open" \/ (p = None /\ row.state = "submitted")
    PROVE  /\ RowOK(Operated(row, o, p), last, [known EXCEPT ![o] = p], refused)
           /\ Operated(row, o, p).state \in {"submitted", "dismissed"}
  <1>1. row \in Row /\ o # None /\ p # Unused
    BY Zenon, FormsAssumption DEF RowOK, Payloads, Unused
  <1>2. CASE p = None
    <2>1. Operated(row, o, p) = [row EXCEPT !.errors = "none", !.state = "dismissed"]
      BY Zenon, <1>2 DEF Operated
    <2>2. row.attempt # o
      BY Zenon, <1>1, FormsAssumption DEF RowOK, Row, Unused
    <2>3. row.attempt # None => [known EXCEPT ![o] = p][row.attempt] = row.draft
      BY Zenon, <2>2, <1>1 DEF RowOK, Row
    <2>4. [row EXCEPT !.errors = "none", !.state = "dismissed"] \in Row
      BY Zenon, <1>1 DEF Row, Settled
    <2> QED BY Zenon, <1>1, <1>2, <2>1, <2>3, <2>4 DEF RowOK, Row
  <1>3. CASE p # None
    <2>1. Operated(row, o, p) = [row EXCEPT !.attempt = o, !.draft = p, !.errors = "none",
                                            !.state = "submitted"]
      BY Zenon, <1>3 DEF Operated
    <2>2. Operated(row, o, p) \in Row
      BY Zenon, <1>1, <1>3, <2>1 DEF Row, Payloads, Pending
    <2>3. [known EXCEPT ![o] = p][o] = p
      BY Zenon
    <2> QED BY Zenon, <1>1, <1>3, <2>1, <2>2, <2>3 DEF RowOK, Row
  <1> QED BY Zenon, <1>2, <1>3

\* A step that changes one form, and leaves a valid row there, keeps all rows valid.
LEMMA OneRow ==
    ASSUME NEW f \in Forms, RowsOK, events \in Nat, events' \in Nat, events' >= events,
           TypeOK,
           RowOK(form'[f], events', ops'[f], rejected'[f]),
           \A g \in Forms \ {f} : /\ form'[g] = form[g] /\ ops'[g] = ops[g]
                                  /\ rejected'[g] = rejected[g]
    PROVE  RowsOK'
  <1> SUFFICES ASSUME NEW g \in Forms
               PROVE  RowOK(form'[g], events', ops'[g], rejected'[g])
    BY Zenon DEF RowsOK
  <1>1. CASE g = f
    BY Zenon, <1>1
  <1>2. CASE g # f
    <2>1. RowOK(form[g], events, ops[g], rejected[g])
      BY Zenon DEF RowsOK
    <2>2. form[g].revision \in Nat
      BY Zenon, <2>1 DEF RowOK, Row
    <2> QED BY <1>2, <2>1, <2>2 DEF RowOK
  <1> QED BY Zenon, <1>1, <1>2

-----------------------------------------------------------------------------
(* The actions *)

\* The empty form table satisfies the invariant.
LEMMA InitInv == Init => Inv
  <1> SUFFICES ASSUME Init PROVE Inv
    BY Zenon
  <1>1. Absent \in Row
    BY Zenon DEF Absent, Row
  <1>2. TypeOK
    BY Zenon, <1>1 DEF Init, TypeOK, NoRead
  <1>3. \A f \in Forms : RowOK(Absent, 0, ops[f], {})
    BY <1>1 DEF RowOK, Absent
  <1> QED BY Zenon, <1>2, <1>3 DEF Init, Inv, RowsOK, ReadsApplied, RejectedApplied

\* open_actor_form gives a fresh mount a valid row.
LEMMA OpenInv ==
    ASSUME Inv, NEW f \in Forms, Open(f)
    PROVE  Inv'
  <1>1. RowOK(form[f], events, ops[f], rejected[f]) /\ events \in Nat
    BY Zenon DEF Inv, RowsOK, TypeOK
  <1>2. CASE form[f].state = "absent"
    <2> DEFINE new == [Absent EXCEPT !.sequence = events + 1, !.revision = events + 1,
                                     !.state = "open"]
    <2>1. new \in Row
      <3>1. Absent \in Row /\ events + 1 \in Nat
        BY <1>1 DEF Absent, Row
      <3> QED BY Zenon, <3>1 DEF Row, Pending
    <2>2. form' = [form EXCEPT ![f] = new] /\ events' = events + 1
      BY Zenon, <1>2 DEF Open
    <2>3. RowOK(new, events + 1, ops[f], rejected[f])
      BY <1>1, <2>1 DEF RowOK, Absent
    <2>4. form'[f] = new /\ \A g \in Forms \ {f} : form'[g] = form[g]
      BY Zenon, <2>2 DEF Inv, TypeOK
    <2>5. RowsOK'
      BY <1>1, <2>2, <2>3, <2>4, OneRow DEF Inv, Open
    <2>6. TypeOK'
      BY <1>1, <1>2, <2>1, <2>2 DEF Inv, TypeOK, Open, Signal
    <2>7. new.state = "open"
      BY Zenon DEF Absent
    <2>8. ReadsApplied'
      BY Zenon, <2>4, <2>7 DEF Inv, TypeOK, Open, ReadsApplied
    <2> QED BY Zenon, <2>5, <2>6, <2>8 DEF Inv, Open, RejectedApplied
  <1>3. CASE form[f].state # "absent"
    <2>1. UNCHANGED <<form, events, awake, ops, read, rejected>>
      BY Zenon, <1>3 DEF Open
    <2>2. decoder' = [decoder EXCEPT ![f] = "reading"]
      BY Zenon DEF Open
    <2>3. TypeOK' /\ RowsOK' /\ RejectedApplied'
      BY Zenon, <2>1, <2>2 DEF Inv, TypeOK, RowsOK, RejectedApplied
    <2>4. ReadsApplied'
      BY Zenon, <2>1, <2>2, <1>3 DEF Inv, TypeOK, ReadsApplied
    <2> QED BY Zenon, <2>3, <2>4 DEF Inv
  <1> QED BY Zenon, <1>2, <1>3

\* A submission or dismissal records its operation with the row it leaves.
LEMMA BrowserOperationInv ==
    ASSUME Inv, NEW f \in Forms, NEW o \in Operations, NEW p \in Payloads,
           BrowserOperation(f, o, p)
    PROVE  Inv'
  <1> DEFINE new == Operated(form[f], o, p)
             known == [ops[f] EXCEPT ![o] = p]
  <1>1. /\ RowOK(form[f], events, ops[f], rejected[f]) /\ events \in Nat
        /\ ops[f] \in [Operations -> Payloads \cup {Unused}]
        /\ o \notin rejected[f] /\ ops[f][o] = Unused
    BY Zenon DEF Inv, RowsOK, TypeOK, RejectedApplied, BrowserOperation
  <1>2. RowOK(new, events, known, rejected[f]) /\ new.state # "absent"
    BY <1>1, OperatedRow DEF BrowserOperation
  <1>3. Save(f, new)
    BY Zenon DEF BrowserOperation
  <1> HIDE DEF new
  <1>4. /\ events' \in Nat /\ events' = events + 1 /\ form' \in [Forms -> Row]
        /\ awake' \subseteq Forms /\ RowOK(form'[f], events', known, rejected[f])
        /\ form'[f].state = new.state /\ \A g \in Forms \ {f} : form'[g] = form[g]
    BY Zenon, <1>2, <1>3, SaveRow DEF Inv
  <1>5. /\ ops' = [ops EXCEPT ![f] = known] /\ known \in [Operations -> Payloads \cup {Unused}]
        /\ ops'[f] = known /\ \A g \in Forms \ {f} : ops'[g] = ops[g]
    BY Zenon, <1>1 DEF BrowserOperation, Inv, TypeOK
  <1>6. UNCHANGED <<decoder, read, rejected>>
    BY Zenon DEF BrowserOperation
  <1>7. TypeOK'
    BY Zenon, <1>1, <1>4, <1>5, <1>6 DEF Inv, TypeOK
  <1>8. RowsOK'
    BY <1>1, <1>4, <1>5, <1>6, OneRow DEF Inv
  <1>9. \A g \in Forms : \A q \in Operations : ops[g][q] # Unused => ops'[g][q] = ops[g][q]
    BY Zenon, <1>1, <1>5
  <1>10. RejectedApplied'
    BY Zenon, <1>6, <1>9 DEF Inv, RejectedApplied, TypeOK
  <1>11. ReadsApplied'
    <2> SUFFICES ASSUME NEW g \in Forms
                 PROVE  /\ decoder[g] # "mounting" => form'[g].state # "absent"
                        /\ decoder[g] = "decoding" => /\ read[g].attempt \in Operations
                                                      /\ ops'[g][read[g].attempt] = read[g].draft
      BY Zenon, <1>6 DEF ReadsApplied
    <2>1. decoder[g] # "mounting" => form'[g].state # "absent"
      BY Zenon, <1>2, <1>4 DEF Inv, ReadsApplied
    <2>2. ASSUME decoder[g] = "decoding"
          PROVE  read[g].attempt \in Operations /\ ops'[g][read[g].attempt] = read[g].draft
      <3>1. read[g].attempt \in Operations /\ ops[g][read[g].attempt] = read[g].draft
        BY Zenon, <2>2 DEF Inv, ReadsApplied
      <3>2. read[g].draft # Unused
        BY Zenon, FormsAssumption DEF Inv, TypeOK, Unused
      <3> QED BY Zenon, <3>1, <3>2, <1>9
    <2> QED BY Zenon, <2>1, <2>2
  <1> QED BY Zenon, <1>7, <1>8, <1>10, <1>11 DEF Inv

\* Settling, rejecting or closing a form: a save that leaves operations alone.
LEMMA SettleInv ==
    ASSUME Inv, NEW f \in Forms, NEW row, Save(f, row), row.state # "absent",
           RowOK(row, events, ops[f], rejected'[f]), UNCHANGED <<ops, read>>,
           rejected' \in [Forms -> SUBSET Operations],
           \A g \in Forms \ {f} : rejected'[g] = rejected[g],
           \A o \in rejected'[f] : ops[f][o] # Unused,
           NEW at \in {"reading", "decoding", decoder[f]},
           decoder' = [decoder EXCEPT ![f] = at], at = "decoding" => decoder[f] = "decoding"
    PROVE  Inv'
  <1>1. /\ events' \in Nat /\ events' = events + 1 /\ form' \in [Forms -> Row]
        /\ awake' \subseteq Forms /\ RowOK(form'[f], events', ops[f], rejected'[f])
        /\ form'[f].state = row.state /\ \A g \in Forms \ {f} : form'[g] = form[g]
    BY Zenon, SaveRow DEF Inv
  <1>2. TypeOK'
    BY Zenon, <1>1 DEF Inv, TypeOK
  <1>3. RowsOK'
    <2>1. events \in Nat /\ events' >= events
      BY <1>1 DEF Inv, TypeOK
    <2> QED BY Zenon, <1>1, <2>1, OneRow DEF Inv
  <1>4. RejectedApplied'
    BY Zenon DEF Inv, RejectedApplied
  <1>5. ReadsApplied'
    BY Zenon, <1>1 DEF Inv, ReadsApplied, TypeOK
  <1> QED BY Zenon, <1>2, <1>3, <1>4, <1>5 DEF Inv

\* Closing a scope keeps the invariant.
LEMMA CloseInv ==
    ASSUME Inv, NEW f \in Forms, Close(f)
    PROVE  Inv'
  <1> DEFINE new == [form[f] EXCEPT !.state = "cancelled"]
  <1>1. RowOK(form[f], events, ops[f], rejected[f])
    BY Zenon DEF Inv, RowsOK
  <1>2. new \in Row /\ new.state = "cancelled"
    BY Zenon, <1>1 DEF RowOK, Row, Settled
  <1>3. RowOK(new, events, ops[f], rejected[f])
    BY Zenon, <1>1, <1>2 DEF RowOK, Row, Close, Pending
  <1>4. Save(f, new) /\ UNCHANGED <<ops, decoder, read, rejected>>
    BY Zenon DEF Close
  <1> HIDE DEF new
  <1>5. decoder' = [decoder EXCEPT ![f] = decoder[f]]
    BY Zenon, <1>4 DEF Inv, TypeOK
  <1>6. rejected' \in [Forms -> SUBSET Operations] /\ \A o \in rejected'[f] : ops[f][o] # Unused
    BY Zenon, <1>4 DEF Inv, TypeOK, RejectedApplied
  <1> QED BY Zenon, <1>2, <1>3, <1>4, <1>5, <1>6, SettleInv

\* An answer is decoded from the draft of the attempt that the row still holds.
LEMMA CommitInv ==
    ASSUME Inv, NEW f \in Forms, NEW at \in Outcomes, Commit(f, at)
    PROVE  Inv'
  <1>1. RowOK(form[f], events, ops[f], rejected[f])
    BY Zenon DEF Inv, RowsOK
  <1>2. /\ decoder[f] = "decoding" /\ at \in {"reading", "decoding"}
        /\ decoder' = [decoder EXCEPT ![f] = at] /\ UNCHANGED <<ops, read, rejected>>
    BY Zenon DEF Commit, Outcomes
  <1>3. CASE SameAttempt(f) /\ form[f].state = "submitted"
    <2> DEFINE new == [form[f] EXCEPT !.state = "answered", !.answer = read[f].draft,
                                      !.errors = "none"]
    <2>1. read[f].attempt \in Operations /\ ops[f][read[f].attempt] = read[f].draft
      BY Zenon, <1>2 DEF Inv, ReadsApplied
    <2>2. read[f].draft = form[f].draft /\ form[f].draft # None
      BY Zenon, <1>1, <1>3, <2>1 DEF RowOK, SameAttempt
    <2>3. new \in Row /\ new.state = "answered"
      BY Zenon, <1>1, <2>2 DEF RowOK, Row, Settled
    <2>4. RowOK(new, events, ops[f], rejected[f])
      BY Zenon, <1>1, <1>3, <2>2, <2>3 DEF RowOK, Row
    <2>5. Save(f, new)
      BY Zenon, <1>3 DEF Commit
    <2> HIDE DEF new
    <2>6. rejected' \in [Forms -> SUBSET Operations] /\ \A o \in rejected'[f] : ops[f][o] # Unused
      BY Zenon, <1>2 DEF Inv, TypeOK, RejectedApplied
    <2> QED BY Zenon, <1>2, <2>3, <2>4, <2>5, <2>6, SettleInv
  <1>4. CASE ~(SameAttempt(f) /\ form[f].state = "submitted")
    <2>1. UNCHANGED <<form, events, awake>>
      BY Zenon, <1>4 DEF Commit
    <2>2. TypeOK' /\ RowsOK' /\ RejectedApplied'
      BY Zenon, <1>2, <2>1 DEF Inv, TypeOK, RowsOK, RejectedApplied
    <2>3. ReadsApplied'
      BY Zenon, <1>2, <2>1 DEF Inv, TypeOK, ReadsApplied
    <2> QED BY Zenon, <2>2, <2>3 DEF Inv
  <1> QED BY Zenon, <1>3, <1>4

\* A rejected attempt was applied, so that it is never unused again.
LEMMA RejectInv ==
    ASSUME Inv, NEW f \in Forms, NEW at \in Outcomes, Reject(f, at)
    PROVE  Inv'
  <1>1. RowOK(form[f], events, ops[f], rejected[f])
    BY Zenon DEF Inv, RowsOK
  <1>2. /\ decoder[f] = "decoding" /\ at \in {"reading", "decoding"}
        /\ decoder' = [decoder EXCEPT ![f] = at] /\ UNCHANGED <<ops, read>>
    BY Zenon DEF Reject, Outcomes
  <1>3. CASE SameAttempt(f) /\ form[f].state = "submitted"
    <2>1. PICK e \in {"none", "some"} : Save(f, [form[f] EXCEPT !.state = "open", !.errors = e])
      BY Zenon, <1>3 DEF Reject
    <2> DEFINE new == [form[f] EXCEPT !.state = "open", !.errors = e]
    <2>2. rejected' = [rejected EXCEPT ![f] = @ \cup {form[f].attempt}]
      BY Zenon, <1>3 DEF Reject
    <2>3. new \in Row /\ new.state = "open"
      BY Zenon, <1>1 DEF RowOK, Row, Pending
    <2>4. RowOK(new, events, ops[f], rejected'[f])
      BY Zenon, <1>1, <1>3, <2>3 DEF RowOK, Row
    <2>5. Save(f, new)
      BY Zenon, <2>1
    <2> HIDE DEF new
    <2>6. /\ form[f].attempt \in Operations /\ ops[f][form[f].attempt] = form[f].draft
          /\ form[f].draft \in Drafts \cup {None}
      BY Zenon, <1>1, <1>3 DEF RowOK, Row
    <2>7. ops[f][form[f].attempt] # Unused
      BY Zenon, <2>6, FormsAssumption DEF Unused
    <2>8. /\ rejected' \in [Forms -> SUBSET Operations]
          /\ rejected'[f] = rejected[f] \cup {form[f].attempt}
          /\ \A g \in Forms \ {f} : rejected'[g] = rejected[g]
      BY Zenon, <2>2, <2>6 DEF Inv, TypeOK
    <2>9. \A o \in rejected'[f] : ops[f][o] # Unused
      BY Zenon, <2>7, <2>8 DEF Inv, RejectedApplied
    <2> QED BY Zenon, <1>2, <2>3, <2>4, <2>5, <2>8, <2>9, SettleInv
  <1>4. CASE ~(SameAttempt(f) /\ form[f].state = "submitted")
    <2>1. UNCHANGED <<form, events, awake, rejected>>
      BY Zenon, <1>4 DEF Reject
    <2>2. TypeOK' /\ RowsOK' /\ RejectedApplied'
      BY Zenon, <1>2, <2>1 DEF Inv, TypeOK, RowsOK, RejectedApplied
    <2>3. ReadsApplied'
      BY Zenon, <1>2, <2>1 DEF Inv, TypeOK, ReadsApplied
    <2> QED BY Zenon, <2>2, <2>3 DEF Inv
  <1> QED BY Zenon, <1>3, <1>4

\* What a restart does to the rows: each pending one is interrupted under a
\* revision of its own, the others stay.
LEMMA InterruptRows ==
    ASSUME TypeOK, Interrupt
    PROVE  /\ events' \in Nat /\ events' >= events
           /\ form' \in [Forms -> Row]
           /\ \A f \in Forms : form[f].state \notin Pending => form'[f] = form[f]
           /\ \A f \in Forms : form[f].state \in Pending =>
                \E r \in Nat : /\ r > events /\ r <= events'
                             /\ form'[f] = [form[f] EXCEPT !.state = "interrupted",
                                                            !.revision = r]
  <1> DEFINE pending == {f \in Forms : form[f].state \in Pending}
  <1>1. Cardinality(pending) \in Nat
    BY Zenon, FormsAssumption, FS_Subset, FS_CardinalityType
  <1>2. PICK rank \in [pending -> 1..Cardinality(pending)] :
             form' = [f \in Forms |->
                        IF f \in pending THEN [form[f] EXCEPT !.state = "interrupted",
                                                              !.revision = events + rank[f]]
                        ELSE form[f]]
    BY Zenon DEF Interrupt
  <1>3. events' = events + Cardinality(pending) /\ events \in Nat
    BY Zenon DEF Interrupt, TypeOK
  <1>4. \A f \in pending : rank[f] \in 1..Cardinality(pending)
    BY Zenon, <1>2
  <1>5. \A f \in pending : /\ events + rank[f] \in Nat /\ events + rank[f] > events
                           /\ events + rank[f] <= events'
    BY <1>1, <1>3, <1>4
  <1>6. \A f \in Forms : form[f].state \in Pending <=> f \in pending
    BY Zenon
  <1> HIDE DEF pending
  <1>7. \A f \in Forms : form[f] \in Row
    BY Zenon DEF TypeOK
  <1>8. \A f \in pending : [form[f] EXCEPT !.state = "interrupted",
                                          !.revision = events + rank[f]] \in Row
    <2> SUFFICES ASSUME NEW f \in pending
                 PROVE  [form[f] EXCEPT !.state = "interrupted",
                                        !.revision = events + rank[f]] \in Row
      BY Zenon
    <2>1. form[f] \in Row /\ events + rank[f] \in Nat
      BY Zenon, <1>5, <1>7 DEF pending
    <2> QED BY Zenon, <2>1 DEF Row, Settled
  <1>9. form' \in [Forms -> Row]
    BY Zenon, <1>2, <1>7, <1>8
  <1>10. ASSUME NEW f \in Forms, f \in pending
         PROVE  \E r \in Nat : /\ r > events /\ r <= events'
                             /\ form'[f] = [form[f] EXCEPT !.state = "interrupted",
                                                            !.revision = r]
    <2> DEFINE r == events + rank[f]
    <2>1. form'[f] = [form[f] EXCEPT !.state = "interrupted", !.revision = r]
      BY Zenon, <1>2, <1>10
    <2>2. r \in Nat /\ r > events /\ r <= events'
      BY Zenon, <1>5, <1>10
    <2> HIDE DEF r
    <2> QED BY Zenon, <2>1, <2>2
  <1>11. events' \in Nat /\ events' >= events
    BY <1>1, <1>3
  <1>12. \A f \in Forms : form[f].state \notin Pending => form'[f] = form[f]
    BY Zenon, <1>2, <1>6
  <1> QED BY <1>6, <1>9, <1>10, <1>11, <1>12, Zenon

\* A restart settles pending rows and forgets what the decoders read.
LEMMA InterruptInv ==
    ASSUME Inv, Interrupt
    PROVE  Inv'
  <1>1. TypeOK /\ RowsOK
    BY Zenon DEF Inv
  <1>2. /\ awake' = {} /\ decoder' = [f \in Forms |-> "mounting"]
        /\ read' = [f \in Forms |-> NoRead] /\ UNCHANGED <<ops, rejected>>
    BY Zenon DEF Interrupt
  <1>3. TypeOK'
    BY Zenon, <1>1, <1>2, InterruptRows DEF TypeOK, NoRead
  <1>4. RowsOK'
    <2> SUFFICES ASSUME NEW f \in Forms
                 PROVE  RowOK(form'[f], events', ops[f], rejected[f])
      BY Zenon, <1>2 DEF RowsOK
    <2>1. RowOK(form[f], events, ops[f], rejected[f]) /\ events \in Nat /\ events' \in Nat
      BY Zenon, <1>1, InterruptRows DEF RowsOK, TypeOK
    <2>2. form[f].revision \in Nat /\ form[f].sequence \in Nat
      BY Zenon, <2>1 DEF RowOK, Row
    <2>3. CASE form[f].state \notin Pending
      <3>1. form'[f] = form[f] /\ events' >= events
        BY Zenon, <1>1, <2>3, InterruptRows
      <3> QED BY <2>1, <2>2, <3>1 DEF RowOK
    <2>4. CASE form[f].state \in Pending
      <3>1. PICK r \in Nat : /\ r > events /\ r <= events'
                             /\ form'[f] = [form[f] EXCEPT !.state = "interrupted", !.revision = r]
        BY Zenon, <1>1, <2>4, InterruptRows
      <3>2. form'[f] \in Row
        BY Zenon, <1>1, InterruptRows
      <3> QED BY <2>1, <2>2, <2>4, <3>1, <3>2 DEF RowOK, Row, Pending
    <2> QED BY Zenon, <2>3, <2>4
  <1>5. ReadsApplied' /\ RejectedApplied'
    BY Zenon, <1>2 DEF Inv, ReadsApplied, RejectedApplied
  <1> QED BY Zenon, <1>3, <1>4, <1>5 DEF Inv

\* The decoder's own steps change no row; what it reads was applied.
LEMMA DecoderInv ==
    ASSUME Inv, NEW f \in Forms, ReadAttempt(f) \/ Park(f) \/ Wake(f)
    PROVE  Inv'
  <1>1. UNCHANGED <<form, events, ops, rejected>> /\ awake' \subseteq Forms
    BY Zenon DEF ReadAttempt, Park, Wake, storeVars, Inv, TypeOK
  <1>2. RowsOK' /\ RejectedApplied'
    BY Zenon, <1>1 DEF Inv, RowsOK, RejectedApplied
  <1>3. RowOK(form[f], events, ops[f], rejected[f])
    BY Zenon DEF Inv, RowsOK
  <1>4. CASE ReadAttempt(f)
    <2>1. form[f].attempt \in Operations \cup {None} /\ form[f].draft \in Drafts \cup {None}
      BY Zenon, <1>3 DEF RowOK, Row
    <2>2. CASE form[f].state = "submitted"
      <3>1. /\ decoder' = [decoder EXCEPT ![f] = "decoding"]
            /\ read' = [read EXCEPT ![f] = [attempt |-> form[f].attempt,
                                            draft |-> form[f].draft]]
        BY Zenon, <1>4, <2>2 DEF ReadAttempt, Settled
      <3>2. form[f].attempt \in Operations /\ ops[f][form[f].attempt] = form[f].draft
        BY Zenon, <1>3, <2>1, <2>2 DEF RowOK
      <3>3. TypeOK'
        BY Zenon, <1>1, <2>1, <3>1 DEF Inv, TypeOK
      <3>4. ReadsApplied'
        BY Zenon, <1>1, <2>2, <3>1, <3>2 DEF Inv, TypeOK, ReadsApplied
      <3> QED BY Zenon, <1>2, <3>3, <3>4 DEF Inv
    <2>3. CASE form[f].state # "submitted"
      <3>1. UNCHANGED read /\ \E d \in {"unanswered", "done"} : decoder' = [decoder EXCEPT ![f] = d]
        BY Zenon, <1>4, <2>3 DEF ReadAttempt
      <3>2. decoder[f] = "reading"
        BY Zenon, <1>4 DEF ReadAttempt
      <3>3. TypeOK'
        BY Zenon, <1>1, <3>1 DEF Inv, TypeOK
      <3>4. ReadsApplied'
        BY Zenon, <1>1, <3>1, <3>2 DEF Inv, TypeOK, ReadsApplied
      <3> QED BY Zenon, <1>2, <3>3, <3>4 DEF Inv
    <2> QED BY Zenon, <2>2, <2>3
  <1>5. CASE Park(f) \/ Wake(f)
    <2>1. /\ UNCHANGED read /\ decoder[f] \in {"unanswered", "waiting"}
          /\ \E d \in {"waiting", "reading"} : decoder' = [decoder EXCEPT ![f] = d]
      BY Zenon, <1>5 DEF Park, Wake
    <2>2. TypeOK'
      BY Zenon, <1>1, <2>1 DEF Inv, TypeOK
    <2>3. ReadsApplied'
      BY Zenon, <1>1, <2>1 DEF Inv, TypeOK, ReadsApplied
    <2> QED BY Zenon, <1>2, <2>2, <2>3 DEF Inv
  <1> QED BY Zenon, <1>4, <1>5

\* Every step keeps the invariant.
LEMMA NextInv == Inv /\ [Next]_vars => Inv'
  <1> SUFFICES ASSUME Inv, [Next]_vars PROVE Inv'
    BY Zenon
  <1>1. CASE UNCHANGED vars
    BY Zenon, <1>1
    DEF vars, storeVars, decoderVars, Inv, TypeOK, RowsOK, ReadsApplied, RejectedApplied
  <1>2. CASE Next
    BY Zenon, <1>2, OpenInv, CloseInv, DecoderInv, BrowserOperationInv, CommitInv, RejectInv,
       InterruptInv
    DEF Next
  <1> QED BY Zenon, <1>1, <1>2

\* The invariant implies the properties of the runs.
LEMMA InvImplies == Inv => RowsValid /\ AnswerOfDraft /\ RejectedNotPending
  <1> SUFFICES ASSUME Inv PROVE RowsValid /\ AnswerOfDraft /\ RejectedNotPending
    BY Zenon
  <1>1. \A f \in Forms : RowOK(form[f], events, ops[f], rejected[f])
    BY Zenon DEF Inv, RowsOK
  <1> QED BY Zenon, <1>1 DEF RowOK, RowsValid, AnswerOfDraft, RejectedNotPending

-----------------------------------------------------------------------------
(* The store *)

\* The rows of the store, the reads of the decoders and the operation journal fit
\* together after any sequence of browser, decoder, scope and restart steps.
THEOREM FormsInvariant == Spec => []Inv
  BY InitInv, NextInv, PTL DEF Spec

\* Type correctness of the form store.
THEOREM FormsTyped == Spec => []TypeOK
  <1>1. Inv => TypeOK
    BY Zenon DEF Inv
  <1> QED BY <1>1, FormsInvariant, PTL

\* StoredActorForm::validate accepts every row the transitions produce.
THEOREM FormsValid == Spec => []RowsValid
  BY FormsInvariant, InvImplies, PTL

\* A decoder that read an earlier attempt never settles a later one.
THEOREM AnswersMatch == Spec => []AnswerOfDraft
  BY FormsInvariant, InvImplies, PTL

\* A repeated browser operation never revives a rejected attempt.
THEOREM RejectionsStand == Spec => []RejectedNotPending
  BY FormsInvariant, InvImplies, PTL

\* One form's row in one step: it stays, or an unsettled row gets a revision later
\* than all there are.
RowStep(f) ==
    form'[f] = form[f] \/ (form'[f].revision > events /\ form[f].state \notin Settled)

\* A save changes one row and gives it a revision above all others.
LEMMA SaveStep ==
    ASSUME Inv, NEW g \in Forms, NEW row \in Row, Save(g, row), form[g].state \notin Settled,
           NEW f \in Forms
    PROVE  RowStep(f)
  <1>1. RowOK(form[g], events, ops[g], rejected[g]) /\ events \in Nat
    BY Zenon DEF Inv, RowsOK, TypeOK
  <1>2. form[g].revision \in Nat /\ form[g].revision <= events
    BY Zenon, <1>1 DEF RowOK, Row
  <1>3. form' = [form EXCEPT ![g] = [row EXCEPT !.revision = events + 1]]
    BY Zenon DEF Save
  <1>4. [row EXCEPT !.revision = events + 1].revision = events + 1
    BY Zenon DEF Row
  <1>5. CASE f = g
    <2>1. form'[f] = [row EXCEPT !.revision = events + 1]
      BY Zenon, <1>3, <1>5 DEF Inv, TypeOK
    <2>2. form'[f].revision > events
      BY <1>1, <1>4, <2>1
    <2> QED BY Zenon, <1>5, <2>2 DEF RowStep
  <1>6. CASE f # g
    BY Zenon, <1>3, <1>6 DEF Inv, TypeOK, RowStep
  <1> QED BY Zenon, <1>5, <1>6

\* Every step leaves a row alone or replaces a row that is not settled under a later revision.
LEMMA RowSteps ==
    ASSUME Inv, [Next]_vars, NEW f \in Forms
    PROVE  RowStep(f)
  <1>1. CASE form' = form
    BY Zenon, <1>1 DEF RowStep
  <1>2. ASSUME NEW g \in Forms, Open(g), form' # form PROVE RowStep(f)
    <2>1. RowOK(form[g], events, ops[g], rejected[g]) /\ events \in Nat
      BY Zenon DEF Inv, RowsOK, TypeOK
    <2>2. /\ form[g].state = "absent" /\ form[g].revision \in Nat
          /\ form[g].revision <= events
      BY Zenon, <1>2, <2>1 DEF Open, RowOK, Row
    <2> DEFINE new == [Absent EXCEPT !.sequence = events + 1, !.revision = events + 1,
                                     !.state = "open"]
    <2>3. form' = [form EXCEPT ![g] = new]
      BY Zenon, <1>2, <2>2 DEF Open
    <2>4. new.revision = events + 1
      BY Zenon DEF Absent
    <2> HIDE DEF new
    <2>5. CASE f = g
      <3>1. form'[f] = new
        BY Zenon, <2>3, <2>5 DEF Inv, TypeOK
      <3>2. form'[f].revision > events
        BY <2>1, <2>4, <3>1
      <3> QED BY Zenon, <2>2, <2>5, <3>2 DEF RowStep, Settled
    <2>6. CASE f # g
      BY Zenon, <2>3, <2>6 DEF Inv, TypeOK, RowStep
    <2> QED BY Zenon, <2>5, <2>6
  <1>3. ASSUME NEW g \in Forms, Close(g) PROVE RowStep(f)
    <2>1. form[g] \in Row /\ form[g].state \notin Settled
      BY Zenon, <1>3 DEF Close, Pending, Settled, Inv, TypeOK
    <2>2. [form[g] EXCEPT !.state = "cancelled"] \in Row
      BY Zenon, <2>1 DEF Row, Settled
    <2> QED BY Zenon, <1>3, <2>1, <2>2, SaveStep DEF Close
  <1>4. ASSUME NEW g \in Forms, NEW o \in Operations, NEW p \in Payloads,
               BrowserOperation(g, o, p)
        PROVE  RowStep(f)
    <2>1. form[g] \in Row /\ form[g].state \notin Settled
      BY Zenon, <1>4 DEF BrowserOperation, Settled, Inv, TypeOK
    <2>2. /\ RowOK(form[g], events, ops[g], rejected[g])
          /\ ops[g] \in [Operations -> Payloads \cup {Unused}]
          /\ o \notin rejected[g] /\ ops[g][o] = Unused
      BY Zenon, <1>4 DEF Inv, RowsOK, TypeOK, RejectedApplied, BrowserOperation
    <2>3. RowOK(Operated(form[g], o, p), events, [ops[g] EXCEPT ![o] = p], rejected[g])
      BY Zenon, <1>4, <2>2, OperatedRow DEF BrowserOperation
    <2>4. Operated(form[g], o, p) \in Row
      BY Zenon, <2>3 DEF RowOK
    <2> QED BY Zenon, <1>4, <2>1, <2>4, SaveStep DEF BrowserOperation
  <1>5. ASSUME NEW g \in Forms, NEW at \in Outcomes, Commit(g, at), form' # form
        PROVE  RowStep(f)
    <2>1. form[g] \in Row /\ form[g].state = "submitted"
      BY Zenon, <1>5 DEF Commit, Inv, TypeOK
    <2>2. read[g].draft \in Drafts \cup {None}
      BY Zenon DEF Inv, TypeOK
    <2>3. [form[g] EXCEPT !.state = "answered", !.answer = read[g].draft, !.errors = "none"] \in Row
      BY Zenon, <2>1, <2>2 DEF Row, Settled
    <2> QED BY Zenon, <1>5, <2>1, <2>3, SaveStep DEF Commit, Settled
  <1>6. ASSUME NEW g \in Forms, NEW at \in Outcomes, Reject(g, at), form' # form
        PROVE  RowStep(f)
    <2>1. form[g] \in Row /\ form[g].state = "submitted" /\ form[g].state \notin Settled
      BY Zenon, <1>6 DEF Reject, Inv, TypeOK, Settled
    <2>2. PICK e \in {"none", "some"} : Save(g, [form[g] EXCEPT !.state = "open", !.errors = e])
      BY Zenon, <1>6 DEF Reject
    <2>3. [form[g] EXCEPT !.state = "open", !.errors = e] \in Row
      BY Zenon, <2>1 DEF Row, Pending
    <2> QED BY Zenon, <2>1, <2>2, <2>3, SaveStep
  <1>7. CASE Interrupt
    <2>1. RowOK(form[f], events, ops[f], rejected[f]) /\ events \in Nat /\ TypeOK
      BY Zenon DEF Inv, RowsOK, TypeOK
    <2>2. form[f] \in Row /\ form[f].revision \in Nat /\ form[f].revision <= events
      BY Zenon, <2>1 DEF RowOK, Row
    <2>3. CASE form[f].state \notin Pending
      BY Zenon, <1>7, <2>1, <2>3, InterruptRows DEF RowStep
    <2>4. CASE form[f].state \in Pending
      <3>1. PICK r \in Nat : /\ r > events
                             /\ form'[f] = [form[f] EXCEPT !.state = "interrupted", !.revision = r]
        BY Zenon, <1>7, <2>1, <2>4, InterruptRows
      <3>2. form'[f].revision = r
        BY Zenon, <2>2, <3>1 DEF Row
      <3>3. form'[f].revision > events
        BY Zenon, <3>1, <3>2
      <3> QED BY Zenon, <2>4, <3>3 DEF RowStep, Pending, Settled
    <2> QED BY Zenon, <2>3, <2>4
  <1>8. \A g \in Forms : ReadAttempt(g) \/ Park(g) \/ Wake(g) => form' = form
    BY Zenon DEF ReadAttempt, Park, Wake, storeVars
  <1>9. UNCHANGED vars => form' = form
    BY Zenon DEF vars, storeVars
  <1> QED BY Zenon, <1>1, <1>2, <1>3, <1>4, <1>5, <1>6, <1>7, <1>8, <1>9 DEF Next

\* Settlement is final, whatever browsers, decoder, scope and restart do.
THEOREM FormsFinal == Spec => SettledFinal
  <1>1. Inv /\ [Next]_vars => [\A f \in Forms : form[f].state \in Settled => form'[f] = form[f]]_vars
    BY Zenon, RowSteps DEF RowStep
  <1> QED BY <1>1, FormsInvariant, PTL DEF Spec, SettledFinal

-----------------------------------------------------------------------------
(* The views *)

\* A row that was sent or shown, against the row of the store.
Behind(seen, row) ==
    /\ seen.revision <= row.revision
    /\ seen.revision = row.revision => seen = row
    /\ seen.state \in Settled => seen = row

ViewInv ==
    /\ Inv
    /\ latest \in [Forms -> Row]
    /\ replies \subseteq [mount : Forms, row : Row]
    /\ \A f \in Forms : Behind(latest[f], form[f])
    /\ \A m \in replies : Behind(m.row, form[m.mount])

\* Nothing is shown or on its way at first.
LEMMA ViewInitInv == ViewInit => ViewInv
  <1> SUFFICES ASSUME ViewInit PROVE ViewInv
    BY Zenon
  <1>1. Absent \in Row
    BY Zenon DEF Absent, Row
  <1>2. Behind(Absent, Absent)
    BY DEF Behind, Absent
  <1> QED BY Zenon, <1>1, <1>2, InitInv DEF ViewInit, ViewInv, Init

\* A row that is behind the stored one stays behind after a step of the store.
LEMMA BehindStays ==
    ASSUME Inv, [Next]_vars, NEW f \in Forms, NEW seen \in Row, Behind(seen, form[f]), Inv'
    PROVE  Behind(seen, form'[f])
  <1>1. form[f] \in Row /\ form'[f] \in Row
    BY Zenon DEF Inv, TypeOK
  <1>2. seen.revision \in Nat /\ form[f].revision \in Nat /\ form'[f].revision \in Nat
    BY Zenon, <1>1 DEF Row
  <1>3. RowStep(f)
    BY Zenon, RowSteps
  <1>4. CASE form'[f] = form[f]
    BY Zenon, <1>4
  <1>5. CASE form'[f].revision > events /\ form[f].state \notin Settled
    <2>1. form[f].revision <= events /\ events \in Nat
      BY Zenon DEF Inv, TypeOK, RowsOK, RowOK
    <2> QED BY <1>2, <1>5, <2>1 DEF Behind
  <1> QED BY Zenon, <1>3, <1>4, <1>5 DEF RowStep

\* Every step of store, browser and reader keeps rows behind the store.
LEMMA ViewNextInv == ViewInv /\ [ViewNext]_allVars => ViewInv'
  <1> SUFFICES ASSUME ViewInv, [ViewNext]_allVars PROVE ViewInv'
    BY Zenon
  <1>1. CASE [Next]_vars /\ UNCHANGED <<replies, latest>>
    <2>1. Inv'
      BY Zenon, <1>1, NextInv DEF ViewInv
    <2>2. \A f \in Forms : Behind(latest'[f], form'[f])
      BY Zenon, <1>1, <2>1, BehindStays DEF ViewInv
    <2>3. ASSUME NEW m \in replies PROVE Behind(m.row, form'[m.mount])
      <3>1. m.mount \in Forms /\ m.row \in Row /\ Behind(m.row, form[m.mount])
        BY Zenon DEF ViewInv
      <3> QED BY Zenon, <1>1, <2>1, <3>1, BehindStays DEF ViewInv
    <2> QED BY Zenon, <1>1, <2>1, <2>2, <2>3 DEF ViewInv
  <1>2. ASSUME NEW f \in Forms, Fetch(f) PROVE ViewInv'
    <2>1. form[f] \in Row /\ Behind(form[f], form[f])
      <3>1. form[f] \in Row BY Zenon DEF ViewInv, Inv, TypeOK
      <3>2. form[f].revision \in Nat BY Zenon, <3>1 DEF Row
      <3> QED BY <3>1, <3>2 DEF Behind
    <2>2. UNCHANGED <<form, latest>> /\ UNCHANGED vars
      BY Zenon, <1>2 DEF Fetch, vars, storeVars
    <2>3. Inv'
      BY Zenon, <2>2, NextInv DEF ViewInv
    <2>4. replies' = replies \cup {[mount |-> f, row |-> form[f]]}
      BY Zenon, <1>2 DEF Fetch
    <2> QED BY <2>1, <2>2, <2>3, <2>4 DEF ViewInv
  <1>3. ASSUME NEW m \in replies, Show(m) PROVE ViewInv'
    <2>1. m.mount \in Forms /\ m.row \in Row /\ Behind(m.row, form[m.mount])
      BY Zenon DEF ViewInv
    <2>2. UNCHANGED form /\ UNCHANGED vars /\ replies' = replies \ {m}
      BY Zenon, <1>3 DEF Show, vars, storeVars
    <2>3. Inv'
      BY Zenon, <2>2, NextInv DEF ViewInv
    <2>4. latest' = latest \/ latest' = [latest EXCEPT ![m.mount] = m.row]
      BY Zenon, <1>3 DEF Show
    <2>5. latest' \in [Forms -> Row] /\ \A f \in Forms : Behind(latest'[f], form[f])
      BY Zenon, <2>1, <2>4 DEF ViewInv
    <2> QED BY Zenon, <2>2, <2>3, <2>5 DEF ViewInv
  <1>4. \A n \in 1..PageLimit : ReadPage(n) => UNCHANGED <<vars, replies, latest>>
    BY Zenon DEF ReadPage
  <1>5. [Next]_vars /\ UNCHANGED viewVars => [Next]_vars /\ UNCHANGED <<replies, latest>>
    BY Zenon DEF viewVars
  <1>6. UNCHANGED allVars => UNCHANGED vars /\ UNCHANGED viewVars
    BY Zenon DEF allVars
  <1> QED BY Zenon, <1>1, <1>2, <1>3, <1>4, <1>5, <1>6 DEF ViewNext

\* What a browser holds or is about to receive never runs ahead of the store.
THEOREM ViewsInvariant == ViewSpec => []ViewInv
  BY ViewInitInv, ViewNextInv, PTL DEF ViewSpec

\* A revision names one content of a form: formRevisionIsStale may order rows by it.
THEOREM RevisionsName == ViewSpec => []RevisionNamesRow
  <1>1. ViewInv => RevisionNamesRow
    BY Zenon DEF ViewInv, RevisionNamesRow, Behind
  <1> QED BY <1>1, ViewsInvariant, PTL

\* The browser never shows a form as pending after it showed it settled.
THEOREM ViewsStaySettled == ViewSpec => ViewNeverReopens
  <1>1. ASSUME ViewInv, ViewNext, NEW f \in Forms, latest[f].state \in Settled
        PROVE  latest'[f] = latest[f]
    <2>1. ASSUME NEW m \in replies, Show(m) PROVE latest'[f] = latest[f]
      <3>1. m.mount \in Forms /\ m.row \in Row /\ Behind(m.row, form[m.mount])
        BY Zenon, <1>1 DEF ViewInv
      <3>2. latest[f] = form[f]
        BY Zenon, <1>1 DEF ViewInv, Behind
      <3>3. latest[f] \in Row
        BY Zenon, <1>1 DEF ViewInv
      <3>4. m.row.revision \in Nat /\ latest[f].revision \in Nat
        BY Zenon, <3>1, <3>3 DEF Row
      <3> DEFINE stale == RevisionIsStale(m.row, latest[m.mount])
      <3>0. /\ stale => latest' = latest
            /\ ~stale => latest' = [latest EXCEPT ![m.mount] = m.row]
        BY Zenon, <2>1 DEF Show
      <3>5. CASE m.mount = f /\ m.row.revision < latest[f].revision
        <4>1. stale
          BY Zenon, <3>5 DEF RevisionIsStale
        <4> QED BY Zenon, <3>0, <4>1
      <3> HIDE DEF stale
      <3>6. CASE m.mount = f /\ m.row.revision = latest[f].revision
        <4>1. m.row = latest[f]
          BY Zenon, <3>1, <3>2, <3>6 DEF Behind
        <4> QED BY Zenon, <1>1, <3>0, <3>6, <4>1 DEF ViewInv
      <3>7. CASE m.mount # f
        BY Zenon, <1>1, <3>0, <3>7 DEF ViewInv
      <3> QED BY <3>1, <3>2, <3>4, <3>5, <3>6, <3>7 DEF Behind
    <2>2. CASE latest' = latest
      BY Zenon, <2>2
    <2> QED BY Zenon, <1>1, <2>1, <2>2 DEF ViewNext, Fetch, ReadPage, viewVars
  <1>2. ViewInv /\ [ViewNext]_allVars =>
          [\A f \in Forms : latest[f].state \in Settled => latest'[f] = latest[f]]_allVars
    BY Zenon, <1>1
  <1> QED BY <1>2, ViewsInvariant, PTL DEF ViewSpec, ViewNeverReopens

-----------------------------------------------------------------------------
(* The pages of the pending index *)

\* A bounded one also has a greatest: the least of its bounds.
LEMMA Greatest ==
    ASSUME NEW T \in SUBSET Nat, T # {}, NEW b \in Nat, \A y \in T : y <= b
    PROVE  \E x \in T : \A y \in T : y <= x
  <1> DEFINE U == {m \in Nat : \A y \in T : y <= m}
  <1>1. U \in SUBSET Nat /\ b \in U
    BY Zenon
  <1>2. PICK m \in U : \A u \in U : m <= u
    BY Zenon, <1>1, Least
  <1>3. m \in Nat /\ \A y \in T : y <= m
    BY Zenon
  <1>4. CASE m \notin T
    <2>1. \A y \in T : y <= m - 1
      BY <1>3, <1>4
    <2>2. m - 1 \in Nat
      <3>1. PICK y \in T : y \in Nat /\ y <= m - 1
        BY Zenon, <2>1
      <3> QED BY SMT, <1>3, <3>1
    <2>3. m - 1 \in U
      BY Zenon, <2>1, <2>2
    <2>4. m <= m - 1
      BY Zenon, <1>2, <2>3
    <2> QED BY <1>3, <2>4
  <1> QED BY Zenon, <1>3, <1>4

Top(rows) == LET revisions == {0} \cup {rows[f].revision : f \in Forms} IN
             CHOOSE r \in revisions : \A s \in revisions : s <= r

LEMMA TopBounds ==
    ASSUME NEW rows, NEW b \in Nat,
           \A f \in Forms : rows[f].revision \in Nat /\ rows[f].revision <= b
    PROVE  /\ Top(rows) \in Nat /\ Top(rows) <= b
           /\ \A f \in Forms : rows[f].revision <= Top(rows)
  <1> DEFINE T == {0} \cup {rows[f].revision : f \in Forms}
  <1>2. T \in SUBSET Nat /\ T # {} /\ \A y \in T : y <= b
    OBVIOUS
  <1>3. \A f \in Forms : rows[f].revision \in T
    BY Zenon
  <1>4. Top(rows) = CHOOSE r \in T : \A s \in T : s <= r
    BY Zenon DEF Top
  <1> HIDE DEF T
  <1>5. \E x \in T : \A y \in T : y <= x
    BY Zenon, <1>2, Greatest
  <1>6. Top(rows) \in T /\ \A s \in T : s <= Top(rows)
    BY Zenon, <1>4, <1>5
  <1> QED BY Zenon, <1>2, <1>3, <1>6

LEMMA RevisionBounds ==
    ASSUME Inv
    PROVE  /\ FormRevision \in Nat /\ FormRevision <= events
           /\ \A f \in Forms : form[f].revision <= FormRevision
  <1>1. events \in Nat /\ \A f \in Forms : form[f].revision \in Nat /\ form[f].revision <= events
    BY Zenon DEF Inv, TypeOK, RowsOK, RowOK, Row
  <1>2. FormRevision = Top(form)
    BY Zenon DEF FormRevision, Top
  <1> QED BY Zenon, <1>1, <1>2, TopBounds

\* Every change of a form moves the revision of the index.
LEMMA RevisionMoves ==
    ASSUME Inv, [Next]_vars, Inv', form' # form
    PROVE  FormRevision' \in Nat /\ FormRevision < FormRevision'
  <1>0. form \in [Forms -> Row] /\ form' \in [Forms -> Row]
    BY Zenon DEF Inv, TypeOK
  <1>1. PICK f \in Forms : form'[f] # form[f]
    BY <1>0
  <1>2. form'[f].revision > events
    BY Zenon, <1>1, RowSteps DEF RowStep
  <1>3. FormRevision \in Nat /\ FormRevision <= events /\ events \in Nat
    BY Zenon, RevisionBounds DEF Inv, TypeOK
  <1>4. FormRevision' \in Nat /\ form'[f].revision <= FormRevision'
    <2>1. /\ events' \in Nat
          /\ \A g \in Forms : form'[g].revision \in Nat /\ form'[g].revision <= events'
      BY Zenon DEF Inv, TypeOK, RowsOK, RowOK, Row
    <2>2. FormRevision' = Top(form')
      BY Zenon DEF FormRevision, Top
    <2> QED BY Zenon, <2>1, <2>2, TopBounds
  <1>5. form'[f].revision \in Nat
    BY Zenon, <1>0 DEF Row
  <1> QED BY <1>2, <1>3, <1>4, <1>5

\* The entries of the index that the pages up to the cursor hold.
ReadSoFar == {e \in PendingIndex : reader.complete \/ form[e.mount].sequence <= reader.after}

ReaderInv ==
    /\ reader.after \in Nat /\ reader.revision \in Nat /\ reader.revision <= FormRevision
    /\ reader.after = 0 /\ ~reader.complete => reader.got = {}
    /\ reader.revision = FormRevision /\ (reader.after # 0 \/ reader.complete)
         => reader.got = ReadSoFar

PendingAfter(a) == {f \in Forms : form[f].state \in Pending /\ form[f].sequence > a}
Earlier(S, f) == {g \in S : form[g].sequence < form[f].sequence}
PageOf(S, n) == {f \in S : Cardinality(Earlier(S, f)) < n}
LastOf(S) == CHOOSE f \in S : \A g \in S : form[g].sequence <= form[f].sequence

\* A page ends at its last form: those it leaves out were opened later.
LEMMA PageEnds ==
    ASSUME Inv, NEW after \in SUBSET Forms, NEW n \in Nat, n > 0, PageOf(after, n) # after
    PROVE  /\ LastOf(PageOf(after, n)) \in PageOf(after, n)
           /\ \A f \in after :
                f \in PageOf(after, n)
                  <=> form[f].sequence <= form[LastOf(PageOf(after, n))].sequence
  <1> DEFINE seq(f) == form[f].sequence
             page == PageOf(after, n)
             last == LastOf(page)
  <1>1. /\ events \in Nat
        /\ \A f \in Forms : seq(f) \in Nat /\ seq(f) <= events
    <2>1. \A f \in Forms : RowOK(form[f], events, ops[f], rejected[f])
      BY Zenon DEF Inv, RowsOK
    <2>2. events \in Nat /\ Absent.sequence = 0 /\ Absent.revision = 0
      BY Zenon DEF Inv, TypeOK, Absent
    <2>3. 0 <= 0
      BY SMT
    <2>4. \A f \in Forms : seq(f) \in Nat /\ seq(f) <= form[f].revision
                          /\ form[f].revision \in Nat /\ form[f].revision <= events
      BY Zenon, <2>1, <2>2, <2>3 DEF RowOK, Row
    <2>5. \A f \in Forms : seq(f) <= events
      BY SMT, <2>2, <2>4
    <2> QED BY Zenon, <2>2, <2>4, <2>5
  <1> HIDE DEF seq
  <1>2. page \subseteq after /\ \A f \in after : Cardinality(Earlier(after, f)) < n => f \in page
    BY Zenon DEF PageOf
  <1>3. \A f \in page : Cardinality(Earlier(after, f)) < n
    BY Zenon DEF PageOf
  <1>4. IsFiniteSet(after)
    BY Zenon, FS_Subset, FormsAssumption
  <1>5. ASSUME NEW f \in after
        PROVE  IsFiniteSet(Earlier(after, f)) /\ Cardinality(Earlier(after, f)) \in Nat
    <2>1. Earlier(after, f) \in SUBSET after
      BY Zenon DEF Earlier
    <2> QED BY Zenon, <1>4, <2>1, FS_Subset, FS_CardinalityType
  <1> HIDE DEF page
  <1>6. page # {}
    <2> DEFINE T == {seq(f) : f \in after}
    <2>1. T \in SUBSET Nat /\ T # {}
      BY Zenon, <1>1, <1>2 DEF page
    <2>2. PICK t \in T : \A y \in T : t <= y
      BY Zenon, <2>1, Least
    <2>3. PICK f \in after : seq(f) = t
      BY Zenon
    <2>4. \A g \in after : seq(f) <= seq(g) /\ seq(f) \in Nat /\ seq(g) \in Nat
      BY Zenon, <1>1, <2>2, <2>3
    <2>5. \A g \in after : ~(seq(g) < seq(f))
      BY SMT, <2>4
    <2>6. Earlier(after, f) = {}
      BY Zenon, <2>5 DEF Earlier, seq
    <2>7. Cardinality(Earlier(after, f)) = 0
      BY Zenon, <2>6, FS_EmptySet
    <2>8. Cardinality(Earlier(after, f)) < n
      BY SMT, <2>7
    <2> QED BY Zenon, <1>2, <2>3, <2>8
  <1>7. \E f \in page : \A g \in page : seq(g) <= seq(f)
    <2> DEFINE T == {seq(f) : f \in page}
    <2>0. \A f \in page : f \in Forms
      BY Zenon, <1>2
    <2>1. T \in SUBSET Nat /\ T # {} /\ \A y \in T : y <= events
      BY Zenon, <1>1, <1>6, <2>0
    <2>2. \A f \in page : seq(f) \in T
      BY Zenon
    <2>3. \A t \in T : \E f \in page : seq(f) = t
      BY Zenon
    <2> HIDE DEF T
    <2>4. PICK t \in T : \A y \in T : y <= t
      BY Zenon, <1>1, <2>1, Greatest
    <2>5. PICK f \in page : seq(f) = t
      BY Zenon, <2>3
    <2> QED BY Zenon, <2>2, <2>4, <2>5
  <1>8. last \in page /\ \A g \in page : seq(g) <= seq(last)
    BY Zenon, <1>7 DEF LastOf, seq
  <1> HIDE DEF last
  <1>9. ASSUME NEW f \in after, seq(f) <= seq(last) PROVE f \in page
    <2>1. last \in after /\ Cardinality(Earlier(after, last)) < n
      BY Zenon, <1>2, <1>3, <1>8 DEF page
    <2>2. \A g \in after : seq(g) \in Nat /\ seq(f) \in Nat /\ seq(last) \in Nat
      BY Zenon, <1>1, <2>1
    <2>3. \A g \in after : seq(g) < seq(f) => seq(g) < seq(last)
      BY SMT, <1>9, <2>2
    <2>4. Earlier(after, f) \in SUBSET Earlier(after, last)
      BY Zenon, <2>3 DEF Earlier, seq
    <2>5. Cardinality(Earlier(after, f)) <= Cardinality(Earlier(after, last))
      BY Zenon, <1>5, <2>1, <2>4, FS_Subset
    <2>6. Cardinality(Earlier(after, f)) \in Nat /\ Cardinality(Earlier(after, last)) \in Nat
      BY Zenon, <1>5, <2>1
    <2> HIDE DEF last
    <2>7. Cardinality(Earlier(after, f)) < n
      BY SMT, <2>1, <2>5, <2>6
    <2> QED BY Zenon, <1>2, <2>7
  <1> QED BY Zenon, <1>8, <1>9 DEF last, page, seq

\* A page of the index keeps what was read in step with its cursor.
LEMMA PageKeeps ==
    ASSUME Inv, ReaderInv, NEW n \in 1..PageLimit, ReadPage(n)
    PROVE  ReaderInv'
  <1> DEFINE after == PendingAfter(reader.after)
             page == PageOf(after, n)
             last == LastOf(page)
             news == {e \in PendingIndex : e.mount \in page}
  <1>0. FormRevision \in Nat
    BY Zenon, RevisionBounds
  <1>1. UNCHANGED <<form>> /\ FormRevision' = FormRevision /\ PendingIndex' = PendingIndex
    BY Zenon DEF ReadPage, vars, storeVars, FormRevision, PendingIndex
  <1>2. /\ ~reader.complete
        /\ reader' = IF MustRestart THEN Start
                     ELSE [after |-> IF page = after THEN 0 ELSE form[last].sequence,
                           revision |-> FormRevision,
                           got |-> reader.got \cup news,
                           complete |-> page = after]
    BY Zenon DEF ReadPage, PendingAfter, PageOf, LastOf, Earlier
  <1>3. CASE MustRestart
    <2>1. reader' = Start
      BY Zenon, <1>2, <1>3
    <2>2. /\ reader'.after = 0 /\ reader'.revision = 0 /\ reader'.got = {}
          /\ ~reader'.complete
      BY <2>1 DEF Start
    <2>3. 0 \in Nat /\ 0 <= FormRevision
      BY SMT, <1>0
    <2> QED BY Zenon, <1>1, <2>2, <2>3 DEF ReaderInv
  <1>4. CASE ~MustRestart
    <2>1. /\ reader'.after = IF page = after THEN 0 ELSE form[last].sequence
          /\ reader'.revision = FormRevision
          /\ reader'.got = reader.got \cup news
          /\ reader'.complete = (page = after)
      BY Zenon, <1>2, <1>4
    <2>2. \A e \in PendingIndex :
            /\ e.mount \in Forms /\ form[e.mount].state \in Pending
            /\ form[e.mount].sequence \in Nat /\ form[e.mount].sequence > 0
      <3>1. \A e \in PendingIndex : e.mount \in Forms /\ form[e.mount].state \in Pending
        BY SMT DEF PendingIndex
      <3>2. \A f \in Forms : RowOK(form[f], events, ops[f], rejected[f])
        BY Zenon DEF Inv, RowsOK
      <3>3. \A f \in Forms : form[f].state \in Pending =>
               form[f].sequence \in Nat /\ 0 < form[f].sequence
        BY Zenon, <3>2 DEF RowOK, Row, Pending
      <3>4. \A x \in Nat : 0 < x => x > 0
        BY SMT
      <3> QED BY Zenon, <3>1, <3>3, <3>4
    <2>3. reader.got = {e \in PendingIndex : form[e.mount].sequence <= reader.after}
      <3>1. CASE reader.after = 0
        <4>1. reader.got = {}
          BY Zenon, <1>2, <3>1 DEF ReaderInv
        <4>2. \A e \in PendingIndex : ~(form[e.mount].sequence <= 0)
          BY SMT, <2>2
        <4> QED BY Zenon, <3>1, <4>1, <4>2
      <3>2. CASE reader.after # 0
        BY Zenon, <1>2, <1>4, <3>2 DEF ReaderInv, MustRestart, ReadSoFar
      <3> QED BY Zenon, <3>1, <3>2
    <2>4. reader.after \in Nat /\ n \in Nat /\ n > 0 /\ after \in SUBSET Forms
      BY ViewsAssumption DEF ReaderInv, PendingAfter
    <2>5. /\ \A e \in PendingIndex :
               e.mount \in after <=> ~(form[e.mount].sequence <= reader.after)
          /\ \A f \in after : form[f].sequence \in Nat /\ form[f].sequence > reader.after
      <3>1. \A x \in Nat : x > reader.after <=> ~(x <= reader.after)
        BY SMT, <2>4
      <3>2. \A f \in Forms : form[f].sequence \in Nat
        BY Zenon DEF Inv, TypeOK, Row
      <3> QED BY Zenon, <2>2, <3>1, <3>2 DEF PendingAfter
    <2>6. page \subseteq after
      BY Zenon DEF PageOf
    <2> HIDE DEF after
    <2>7. CASE page = after
      <3>1. reader'.complete /\ reader'.after = 0
        BY Zenon, <2>1, <2>7
      <3>2. reader'.got = PendingIndex
        BY Zenon, <2>1, <2>3, <2>5, <2>7
      <3>3. ReadSoFar' = PendingIndex
        BY Zenon, <1>1, <3>1 DEF ReadSoFar
      <3>4. 0 \in Nat /\ FormRevision <= FormRevision
        BY SMT, <1>0
      <3> QED BY Zenon, <1>0, <1>1, <2>1, <3>1, <3>2, <3>3, <3>4 DEF ReaderInv
    <2>8. CASE page # after
      <3>1. /\ last \in page
            /\ \A f \in after : f \in page <=> form[f].sequence <= form[last].sequence
        BY Zenon, <2>4, <2>8, PageEnds
      <3> HIDE DEF page, last
      <3> DEFINE z == form[last].sequence
      <3>2. z \in Nat /\ z > reader.after
        BY Zenon, <2>5, <2>6, <3>1
      <3>3. z # 0
        BY SMT, <2>4, <3>2
      <3>4. ~reader'.complete /\ reader'.after = z
        BY Zenon, <2>1, <2>8
      <3> HIDE DEF z
      <3>5. \A x \in Nat : x <= reader.after => x <= z
        BY SMT, <2>4, <3>2
      <3>6. ASSUME NEW e \in PendingIndex
            PROVE  e \in reader'.got <=> form[e.mount].sequence <= z
        <4>1. e \in reader'.got <=> form[e.mount].sequence <= reader.after \/ e.mount \in page
          BY Zenon, <2>1, <2>3
        <4>2. CASE form[e.mount].sequence <= reader.after
          BY Zenon, <2>2, <3>5, <4>1, <4>2
        <4>3. CASE ~(form[e.mount].sequence <= reader.after)
          BY Zenon, <2>5, <3>1, <4>1, <4>3 DEF z
        <4> QED BY Zenon, <4>2, <4>3
      <3>7. reader'.got \subseteq PendingIndex
        BY Zenon, <2>1, <2>3
      <3>8. reader'.got = {e \in PendingIndex : form[e.mount].sequence <= z}
        BY Zenon, <3>6, <3>7
      <3>9. reader'.got = ReadSoFar'
        BY Zenon, <1>1, <3>4, <3>8 DEF ReadSoFar
      <3>10. FormRevision <= FormRevision
        BY SMT, <1>0
      <3> QED BY Zenon, <1>0, <1>1, <2>1, <3>2, <3>3, <3>4, <3>9, <3>10 DEF ReaderInv
    <2> QED BY Zenon, <2>7, <2>8
  <1> QED BY Zenon, <1>3, <1>4

\* A change of a form makes the pages read so far out of date.
LEMMA ReaderStays ==
    ASSUME Inv, Inv', ReaderInv, [Next]_vars, UNCHANGED reader
    PROVE  ReaderInv'
  <1>1. CASE form' = form
    <2>1. FormRevision' = FormRevision /\ ReadSoFar' = ReadSoFar
      BY Zenon, <1>1 DEF FormRevision, ReadSoFar, PendingIndex
    <2> QED BY Zenon, <2>1 DEF ReaderInv
  <1>2. CASE form' # form
    <2>1. FormRevision' \in Nat /\ FormRevision < FormRevision' /\ FormRevision \in Nat
      BY Zenon, <1>2, RevisionMoves, RevisionBounds
    <2>2. reader.revision \in Nat /\ reader.revision <= FormRevision
      BY Zenon DEF ReaderInv
    <2>3. reader.revision <= FormRevision' /\ reader.revision # FormRevision'
      BY SMT, <2>1, <2>2
    <2> QED BY Zenon, <2>3 DEF ReaderInv
  <1> QED BY Zenon, <1>1, <1>2

\* What a reader that starts again whenever the revision moved has read is the
\* pending index of its revision, up to its cursor.
THEOREM PagesInvariant == ViewSpec => []ReaderInv
  <1>1. ASSUME ViewInit PROVE ReaderInv
    <2>1. Inv
      BY Zenon, <1>1, ViewInitInv DEF ViewInv
    <2>2. FormRevision \in Nat
      BY Zenon, <2>1, RevisionBounds
    <2>3. /\ reader.after = 0 /\ reader.revision = 0 /\ reader.got = {}
          /\ ~reader.complete
      BY <1>1 DEF ViewInit, Start
    <2>4. 0 \in Nat /\ 0 <= FormRevision
      BY SMT, <2>2
    <2> QED BY Zenon, <2>3, <2>4 DEF ReaderInv
  <1>2. ASSUME ViewInv, ViewInv', ReaderInv, [ViewNext]_allVars PROVE ReaderInv'
    <2>1. Inv /\ Inv'
      BY Zenon, <1>2 DEF ViewInv
    <2>2. CASE [Next]_vars /\ UNCHANGED reader
      BY Zenon, <1>2, <2>1, <2>2, ReaderStays
    <2>3. ASSUME NEW n \in 1..PageLimit, ReadPage(n) PROVE ReaderInv'
      BY Zenon, <1>2, <2>1, <2>3, PageKeeps
    <2>4. \A f \in Forms : Fetch(f) => UNCHANGED vars /\ UNCHANGED reader
      BY Zenon DEF Fetch
    <2>5. \A m \in replies : Show(m) => UNCHANGED vars /\ UNCHANGED reader
      BY Zenon DEF Show
    <2>6. UNCHANGED allVars => UNCHANGED vars /\ UNCHANGED reader
      BY Zenon DEF allVars, viewVars
    <2>7. UNCHANGED viewVars => UNCHANGED reader
      BY Zenon DEF viewVars
    <2> QED BY Zenon, <1>2, <2>2, <2>3, <2>4, <2>5, <2>6, <2>7 DEF ViewNext
  <1> QED BY <1>1, <1>2, ViewsInvariant, PTL DEF ViewSpec

\* A complete read of the pages, none of a moved revision, is the pending index.
THEOREM PagesAgree == ViewSpec => []PagesConsistent
  <1>1. ReaderInv => PagesConsistent
    BY Zenon DEF ReaderInv, PagesConsistent, ReadSoFar
  <1> QED BY <1>1, PagesInvariant, PTL
=============================================================================
