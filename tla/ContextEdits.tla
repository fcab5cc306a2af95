---------------------------- MODULE ContextEdits ----------------------------
(***************************************************************************)
(* The editable context of one conversation: a tool that runs before the   *)
(* next inference may return a patch to the conversation's own history,    *)
(* and the store commits patch, outcome, output and receipt together       *)
(* (store/context.rs, store/context/transactions.rs, context.rs).          *)
(*                                                                         *)
(* Requests form one chain; a request marked as a cut hides everything     *)
(* before it (history).  An occurrence keeps the request and position at   *)
(* which it was first written (origin) when a later request copies it.     *)
(* Claims belong to a request, so a cut must carry them over.              *)
(*                                                                         *)
(* Left out: the model and effort a draft may also choose, edits of fields *)
(* inside a native group, the whole-document Draft and Replay              *)
(* dispositions, the frozen copy made for deferred children, and the       *)
(* provider's own projection limits.  Recovery's order of writes is        *)
(* EngineLoop's subject; here it acknowledges, interrupts and publishes.   *)
(***************************************************************************)
EXTENDS Integers, Sequences, FiniteSets

CONSTANTS
    Editors,        \* calls that run before the next inference and may edit
    Asyncs,         \* calls that settle whenever they settle
    Scripts         \* [responses, faults, compactions]: what the model answers, each
                    \* response a sequence of calls, possibly led by "reasoning";
                    \* how often the run is cancelled or crashes; how often it compacts

Concatenated(seqs) ==
    LET upTo[n \in 0..Len(seqs)] == IF n = 0 THEN <<>> ELSE upTo[n - 1] \o seqs[n]
    IN  upTo[Len(seqs)]
ItemsOf(f) == {f[x] : x \in DOMAIN f}
Enumerated(S) == CHOOSE f \in [1..Cardinality(S) -> S] : ItemsOf(f) = S

ContextCalls == Editors \cup Asyncs

\* The calls of a response.
Issues(s, i) == {s.responses[i][j] : j \in DOMAIN s.responses[i]} \ {"reasoning"}

\* A call is one operation: no two responses issue it, although a provider may
\* reuse its call ids.
ASSUME ContextAssumption ==
    /\ Editors \cap Asyncs = {}
    /\ "none" \notin ContextCalls
    /\ \A s \in Scripts :
          /\ s.faults \in Nat /\ s.compactions \in Nat
          /\ s.responses \in Seq(Seq(ContextCalls \cup {"reasoning"}))
          /\ \A i, j \in DOMAIN s.responses : Issues(s, i) \cap Issues(s, j) # {} => i = j

VARIABLES
    script,         \* the responses still to come are script.responses[answered + 1 ..]
    answered,
    requests,       \* durable: the chain, [cut, items]
    claims,         \* durable: [call -> [request -> state]]
    outcomeOf,      \* durable: the one outcome the settled claims agree on
    required,       \* durable context_disposition events: [owed, retained], a
                    \* commit is owed and the owner's patch is in the event
    receipt,        \* durable context_commit records: "none", "committed",
                    \* "rejected" or "cancelled"
    acked,          \* what the provider was told about a call
    editJob,        \* scheduler: "none", "queued", "running" or "done"
    jobResult,      \* scheduler: [outcome, draft] of a finished job
    drafted,        \* history: calls whose owner returned an edit
    engine,         \* [pc, call, snapshot]
    pendingCalls,   \* the engine's pending calls
    cancelled,      \* the caller's cancellation signal
    contextFaults, compactions

contextDurable == <<requests, claims, outcomeOf, required, receipt>>
contextEngine == <<engine, pendingCalls, cancelled>>
contextVars == <<script, answered, contextDurable, acked, editJob, jobResult, drafted,
                 contextEngine, contextFaults, compactions>>

(***************************************************************************)
(* History                                                                 *)
(***************************************************************************)
\* An occurrence: where it was first written, where it is stored, what it is.
Occurrence(origin, at, kind, call, text, response) ==
    [origin |-> origin, at |-> at, kind |-> kind, call |-> call, text |-> text,
     response |-> response]

HeadRequest == Len(requests)

\* The nearest request at or above k whose history replay starts there.
CutOf(k) == CHOOSE i \in 1..k : (requests[i].cut \/ i = 1)
                                /\ \A j \in (i + 1)..k : ~requests[j].cut

history(k) == Concatenated([i \in 1..(k - CutOf(k) + 1) |-> requests[CutOf(k) + i - 1].items])

\* All ancestry, cuts ignored.
retained_history(k) == Concatenated([i \in 1..k |-> requests[i].items])

Calls(items, c) == {i \in DOMAIN items : items[i].kind = "call" /\ items[i].call = c}
OutputsOf(items, c) == {i \in DOMAIN items : items[i].kind = "output" /\ items[i].call = c}

\* The request that issued a call: where its original occurrence is stored.
IssuedAt(c) == CHOOSE k \in DOMAIN requests :
                  \E i \in Calls(requests[k].items, c) : requests[k].items[i].origin[1] = k
Issued(c) == \E k \in DOMAIN requests : Calls(requests[k].items, c) # {}
original_call(c) == LET k == IssuedAt(c)
                    IN  <<k, CHOOSE i \in Calls(requests[k].items, c) :
                                requests[k].items[i].origin = <<k, i>>>>

(***************************************************************************)
(* Claims                                                                  *)
(***************************************************************************)
\* The request holding the nearest claim for c at or above k, 0 if none.
NearestClaim(c, k) ==
    LET held == {i \in CutOf(k)..k : i \in DOMAIN claims[c]}
    IN  IF held = {} THEN 0 ELSE CHOOSE i \in held : \A j \in held : j <= i

\* Settling an operation settles every claimant still pending.
settle_claims(c, cl) ==
    [cl EXCEPT ![c] = [k \in DOMAIN @ |-> IF @[k] = "pending" THEN "settled" ELSE @[k]]]

AnyPending(c) == \E k \in DOMAIN claims[c] : claims[c][k] = "pending"

\* What the claimant's row replays: its own interruption or the shared outcome.
replay_claim(c, k) == IF claims[c][k] = "interrupted" THEN "interrupted" ELSE outcomeOf[c]

\* Publishing is idempotent for one request and one operation.
append_tx(c, outcome, k, reqs) ==
    IF OutputsOf(reqs[k].items, c) # {} THEN reqs
    ELSE LET n == Len(reqs[k].items) + 1
         IN  [reqs EXCEPT ![k].items =
                Append(@, Occurrence(<<k, n>>, k, "output", c, outcome, 0))]

has_completed_output(c) ==
    /\ Issued(c)
    /\ claims[c][IssuedAt(c)] = "settled"
    /\ outcomeOf[c] \in {"ok", "err"}

\* carry_native_claims: every retained call brings its claim to the new head:
\* the nearest one on the consuming lineage, else the nearest one where the
\* retained occurrence came from, else the issuing one.
ClaimSource(c, items, consumer, restore) ==
    LET published == OutputsOf(items, c)
        historical == IF published # {}
                      THEN items[CHOOSE i \in published : TRUE].origin[1]
                      ELSE items[CHOOSE i \in Calls(items, c) : TRUE].at
    IN  IF NearestClaim(c, consumer) # 0 THEN NearestClaim(c, consumer)
        ELSE IF published = {} /\ ~restore THEN 0
        ELSE IF NearestClaim(c, historical) # 0 THEN NearestClaim(c, historical)
        ELSE IssuedAt(c)

Carried(items) == {c \in ContextCalls : Calls(items, c) # {}}

CarryRefused(items, consumer, restore) ==
    \E c \in Carried(items) :
        \/ Cardinality(Calls(items, c)) # 1
        \/ Cardinality(OutputsOf(items, c)) > 1
        \/ ClaimSource(c, items, consumer, restore) = 0

\* Mutant: the claims stay on the request they were on.
CarryNothing(items, consumer, target, restore, cl) == cl

carry_native_claims(items, consumer, target, restore, cl) ==
    [c \in ContextCalls |->
        IF c \notin Carried(items) THEN cl[c]
        ELSE [k \in DOMAIN cl[c] \cup {target} |->
                 IF k \in DOMAIN cl[c] THEN cl[c][k]
                 ELSE cl[c][ClaimSource(c, items, consumer, restore)]]]

(***************************************************************************)
(* The document a snapshot shows: text units and native groups             *)
(***************************************************************************)

\* Ranges that may not be split: standing instructions, a call with its next
\* output, an orphan output, and the whole response of an opaque item.
Ranges(all, n) ==
    LET ofCall(i) ==
            LET later == {j \in OutputsOf(all, all[i].call) : j > i}
                end == IF later = {} THEN i
                       ELSE CHOOSE j \in later : \A l \in later : j <= l
            IN  [from |-> i, to |-> IF end < n THEN end ELSE n, opaque |-> FALSE,
                 mandatory |-> later = {} \/ end > n]
        ofOpaque(i) ==
            LET members == {j \in DOMAIN all : all[j].response = all[i].response}
                first == CHOOSE j \in members : \A l \in members : j <= l
                last == CHOOSE j \in members : \A l \in members : l <= j
            IN  [from |-> first, to |-> IF last < n THEN last ELSE n, opaque |-> TRUE,
                 mandatory |-> Cardinality(members) # Len(script.responses[all[i].response]) \/ last > n]
        alone(i, m) == [from |-> i, to |-> i, opaque |-> FALSE, mandatory |-> m]
    IN  {alone(i, TRUE) : i \in {j \in 1..n : all[j].kind = "owner"}}
        \cup {ofCall(i) : i \in {j \in 1..n : all[j].kind = "call"}}
        \cup {alone(i, ~\E j \in Calls(all, all[i].call) : j < i) :
                 i \in {j \in 1..n : all[j].kind = "output"}}
        \cup {ofOpaque(i) : i \in {j \in 1..n : all[j].kind = "reasoning"}}

\* Overlapping ranges merge; what no range covers is a text unit of its own.
blocks(all, n) ==
    LET ranges == Ranges(all, n)
        joined(i) == \E r \in ranges : r.from <= i /\ i + 1 <= r.to
        end(i) == CHOOSE j \in i..n : (j = n \/ ~joined(j)) /\ \A l \in i..(j - 1) : joined(l)
        block(i) == LET inside == {r \in ranges : r.from >= i /\ r.to <= end(i)}
                    IN  [from |-> i, to |-> end(i), native |-> inside # {},
                         opaque |-> \E r \in inside : r.opaque,
                         mandatory |-> \E r \in inside : r.mandatory,
                         items |-> SubSeq(all, i, end(i))]
    IN  {block(i) : i \in {j \in 1..n : j = 1 \/ ~joined(j - 1)}}

reference(b) == [i \in DOMAIN b.items |-> b.items[i].origin]
Version(b) == [i \in DOMAIN b.items |-> b.items[i].text]
Removable(b) == ~b.native \/ (~b.mandatory /\ ~b.opaque)

(***************************************************************************)
(* Patches                                                                 *)
(***************************************************************************)
\* The two bodies a text unit may have; a patch replaces one by the other.
Texts == {"old", "new"}

\* A patch is a set of changes: replace a text, remove a unit, append a note,
\* append a retained exchange.  The first two expect a version.
Replacement(o, expected, text) ==
    [kind |-> "replace", target |-> <<o>>, expected |-> <<expected>>, text |-> text]
Removal(ref, expected) ==
    [kind |-> "remove", target |-> ref, expected |-> expected, text |-> "none"]
NewNote == [kind |-> "note", target |-> <<>>, expected |-> <<>>, text |-> "new"]
RetainedExchange(c) == [kind |-> "exchange", target |-> <<>>, expected |-> <<>>, text |-> c]

Targets(change, b) ==
    /\ reference(b) = change.target
    /\ \/ change.kind = "replace" /\ ~b.native
       \/ change.kind = "remove" /\ Removable(b)

\* Mutant: the target exists, whatever its version.
CheckTargets(bs, patch) ==
    \A c \in patch : c.kind \in {"replace", "remove"} => \E b \in bs : Targets(c, b)

\* Every target is exactly one unit at the version expected, and no unit is
\* named twice or both edited and removed.
check_context_patch(bs, patch) ==
    LET aimed == {c \in patch : c.kind \in {"replace", "remove"}}
    IN  /\ \A c \in aimed : \E b \in bs : Targets(c, b) /\ Version(b) = c.expected
        /\ \A c, d \in aimed : c.target = d.target => c = d

\* The issuing call was shown every unit the patch names.
patch_authority(shown, patch) ==
    \A c \in patch : c.kind \in {"replace", "remove"} => \E b \in shown : Targets(c, b)

\* A completed exchange the issuing call may restore: its call precedes the
\* issuing one in all ancestry and its outcome is a published success.
qualified_items(call, x) ==
    LET ancestry == retained_history(IssuedAt(call))
        before == {i \in Calls(ancestry, x) : \E j \in Calls(ancestry, call) :
                      i < j /\ ancestry[j].origin = original_call(call)}
        published == {y \in ItemsOf(retained_history(HeadRequest)) :
                         y.kind = "output" /\ y.call = x /\ y.origin[1] = y.at}
    IN  IF before = {} \/ outcomeOf[x] # "ok" \/ published = {} THEN <<>>
        ELSE <<ancestry[CHOOSE i \in before : TRUE], CHOOSE y \in published : TRUE>>

\* An exchange is appended whole, is already there whole, or is refused.
ExchangeRefused(call, items, patch) ==
    \E c \in patch : /\ c.kind = "exchange"
                     /\ \/ qualified_items(call, c.text) = <<>>
                        \/ (Calls(items, c.text) = {}) # (OutputsOf(items, c.text) = {})

append_changes(call, items, patch) ==
    items \o Concatenated(Enumerated({qualified_items(call, c.text) :
                                    c \in {d \in patch : d.kind = "exchange"
                                                         /\ Calls(items, d.text) = {}}}))

\* The units the patch keeps, in their order, with the bodies it replaces,
\* and its note at the end.
Rewritten(prefix, bs, patch) ==
    LET removed(i) == \E b \in bs : /\ b.from <= i /\ i <= b.to
                                    /\ \E c \in patch : c.kind = "remove" /\ Targets(c, b)
        edited(x) == LET cs == {c \in patch : c.kind = "replace" /\ c.target = <<x.origin>>}
                     IN  IF cs = {} THEN x ELSE [x EXCEPT !.text = (CHOOSE c \in cs : TRUE).text]
        kept == SelectSeq([i \in DOMAIN prefix |-> i], LAMBDA i : ~removed(i))
    IN  [i \in DOMAIN kept |-> edited(prefix[kept[i]])]
        \o IF \E c \in patch : c.kind = "note"
           THEN <<Occurrence(<<0, 0>>, 0, "note", "none", "new", 0)>> ELSE <<>>

\* What a rewrite compares: contents, not where a copy is stored.
Contents(items) == [i \in DOMAIN items |-> <<items[i].kind, items[i].call, items[i].text>>]

\* The unique visible occurrence of the issuing call, 0 unless it is unique.
CutPosition(call, all) ==
    LET at == {i \in DOMAIN all : all[i].origin = original_call(call)}
    IN  IF Cardinality(at) = 1 THEN CHOOSE i \in at : TRUE ELSE 0

begin_context(call, head) ==
    LET all == history(head)
        n == CutPosition(call, all) - 1
    IN  [head |-> head, blocks |-> blocks(all, n)]

(***************************************************************************)
(* The store's context transaction                                         *)
(***************************************************************************)
\* record_unapplied: the terminal and a refusal, published or not.
record_unapplied(call, outcome, status, publish) ==
    /\ claims' = settle_claims(call, claims)
    /\ outcomeOf' = [outcomeOf EXCEPT ![call] = outcome]
    /\ receipt' = [receipt EXCEPT ![call] = status]
    /\ requests' = IF publish THEN append_tx(call, outcome, HeadRequest, requests) ELSE requests

\* commit_context_tx: the items of the new head are the rewritten prefix, what
\* the head holds from the issuing call on, and the call's own output.
Prospective(call, patch) ==
    LET all == history(HeadRequest)
        n == CutPosition(call, all) - 1
        prefix == SubSeq(all, 1, n)
        kept == Rewritten(prefix, blocks(all, n), patch)
        published == Occurrence(<<HeadRequest, Len(requests[HeadRequest].items) + 1>>,
                                HeadRequest, "output", call, "ok", 0)
    IN  [prefix |-> prefix, kept |-> kept, rewritten |-> append_changes(call, kept, patch),
         suffix |-> Append(SubSeq(all, n + 1, Len(all)), published)]

\* insert_occurrence: a copy keeps its origin; a new note gets its own.
Stored(items, k) ==
    [i \in DOMAIN items |->
        [items[i] EXCEPT !.at = k, !.origin = IF @[1] = 0 THEN <<k, i>> ELSE @]]

CommitRefused(call, patch) ==
    LET p == Prospective(call, patch)
        items == p.rewritten \o p.suffix
    IN  \/ ExchangeRefused(call, p.kept, patch)
        \/ /\ Contents(p.rewritten) # Contents(p.prefix)
           /\ \/ CarryRefused(items, HeadRequest, TRUE)
              \/ ~((pendingCalls \cup {call}) \subseteq Carried(items))

commit_context_tx(call, patch) ==
    LET p == Prospective(call, patch)
        items == p.rewritten \o p.suffix
        settled == settle_claims(call, claims)
        published == append_tx(call, "ok", HeadRequest, requests)
        head == HeadRequest + 1
    IN  /\ outcomeOf' = [outcomeOf EXCEPT ![call] = "ok"]
        /\ receipt' = [receipt EXCEPT ![call] = "committed"]
        /\ IF Contents(p.rewritten) = Contents(p.prefix)
           THEN requests' = published /\ claims' = settled
           ELSE /\ requests' = Append(published, [cut |-> TRUE, items |-> Stored(items, head)])
                /\ claims' = carry_native_claims(items, HeadRequest, head, TRUE, settled)

\* settle_context_transaction_guarded at the engine's head; the patch is
\* checked again against the head, not only against what the call was shown.
settle_context_transaction(call, outcome, patch, discarded) ==
    LET all == history(HeadRequest)
        bs == blocks(all, CutPosition(call, all) - 1)
    IN  IF outcome = "cancelled" THEN record_unapplied(call, outcome, "cancelled", TRUE)
        ELSE IF \/ discarded \/ outcome # "ok"
                \/ ~patch_authority(engine.snapshot.blocks, patch)
                \/ ~check_context_patch(bs, patch)
                \/ CommitRefused(call, patch)
        THEN record_unapplied(call, outcome, "rejected", TRUE)
        ELSE commit_context_tx(call, patch)

(***************************************************************************)
(* The engine's round                                                      *)
(***************************************************************************)
NoSnapshot == [head |-> 0, blocks |-> {}]
NotRequired == [owed |-> FALSE, retained |-> FALSE]
NoResult == [outcome |-> "none", edit |-> "unedited", patch |-> {}]

ContextInit ==
    /\ script \in Scripts
    /\ answered = 0
    /\ requests = <<[cut |-> FALSE,
                     items |-> <<Occurrence(<<1, 1>>, 1, "owner", "none", "old", 0),
                                 Occurrence(<<1, 2>>, 1, "text", "none", "old", 0)>>]>>
    /\ claims = [c \in ContextCalls |-> <<>>]
    /\ outcomeOf = [c \in ContextCalls |-> "none"]
    /\ required = [c \in ContextCalls |-> NotRequired]
    /\ receipt = [c \in ContextCalls |-> "none"]
    /\ acked = [c \in ContextCalls |-> {}]
    /\ editJob = [c \in ContextCalls |-> "none"]
    /\ jobResult = [c \in ContextCalls |-> NoResult]
    /\ drafted = {}
    /\ engine = [mode |-> "run", pc |-> "boundary", call |-> "none", saving |-> "none",
                 snapshot |-> NoSnapshot]
    /\ pendingCalls = {}
    /\ cancelled = FALSE
    /\ contextFaults = 0 /\ compactions = 0

At(mode, pc) == engine.mode = mode /\ engine.pc = pc /\ engine.saving = "none"

\* A request is written and its response recorded: every call is claimed at
\* the request, asynchronous calls start and the others queue.
Answer ==
    /\ At("run", "boundary")
    /\ answered < Len(script.responses)
    /\ LET response == script.responses[answered + 1]
           k == HeadRequest + 1
           issued == Issues(script, answered + 1)
           item(i) == IF response[i] = "reasoning"
                      THEN Occurrence(<<k, i>>, k, "reasoning", "none", "old", answered + 1)
                      ELSE Occurrence(<<k, i>>, k, "call", response[i], "old", answered + 1)
       IN  /\ requests' = Append(requests, [cut |-> FALSE, items |-> [i \in DOMAIN response |-> item(i)]])
           /\ claims' = [c \in ContextCalls |-> IF c \in issued THEN [n \in {k} |-> "pending"] ELSE claims[c]]
           /\ editJob' = [c \in ContextCalls |->
                        IF c \in issued THEN IF c \in Asyncs THEN "running" ELSE "queued"
                        ELSE editJob[c]]
           /\ pendingCalls' = pendingCalls \cup issued
    /\ answered' = answered + 1
    /\ engine' = [engine EXCEPT !.pc = "sync"]
    /\ UNCHANGED <<script, outcomeOf, required, receipt, acked, jobResult, drafted, cancelled,
                   contextFaults, compactions>>

\* execute_sync_calls, one call after the other in the response's order.
NextQueued(c) ==
    LET response == script.responses[answered]
    IN  \E i \in DOMAIN response :
           /\ response[i] = c /\ editJob[c] = "queued"
           /\ \A j \in 1..(i - 1) : response[j] \in ContextCalls => editJob[response[j]] # "queued"

BeginEdit(c) ==
    /\ At("run", "sync") /\ ~cancelled
    /\ NextQueued(c)
    /\ claims[c][IssuedAt(c)] = "pending"
    /\ CutPosition(c, history(HeadRequest)) # 0
    /\ editJob' = [editJob EXCEPT ![c] = "running"]
    /\ engine' = [engine EXCEPT !.pc = "wait", !.call = c,
                                !.snapshot = begin_context(c, HeadRequest)]
    /\ UNCHANGED <<script, answered, contextDurable, acked, jobResult, drafted, pendingCalls,
                   cancelled, contextFaults, compactions>>

SyncDone ==
    /\ At("run", "sync")
    /\ ~\E c \in Editors : editJob[c] = "queued"
    /\ engine' = [engine EXCEPT !.pc = "boundary", !.snapshot = NoSnapshot]
    /\ UNCHANGED <<script, answered, contextDurable, acked, editJob, jobResult, drafted, pendingCalls,
                   cancelled, contextFaults, compactions>>

\* Patches the owner of a call may return for the document it was shown.  A
\* version may come from an earlier inspection.
Patches(c) ==
    LET bs == engine.snapshot.blocks
        replace == {Replacement(b.items[1].origin, old, new) :
                       b \in {x \in bs : ~x.native}, old \in Texts, new \in {"new"}}
        remove == UNION {{Removal(reference(b), v) :
                            v \in {Version(b)} \cup IF b.native THEN {} ELSE {<<"old">>}} :
                         b \in {x \in bs : Removable(x)}}
        restore == {RetainedExchange(x) : x \in {y \in ContextCalls \ {c} : Issued(y)
                                                   /\ qualified_items(c, y) # <<>>}}
    IN  {{}} \cup {{NewNote}} \cup {{x} : x \in replace \cup remove \cup restore}
        \cup {{x, y} : x \in replace, y \in {z \in remove : Len(z.target) > 1}}

\* A job ends: an asynchronous one with a result, an editing one also with
\* what it asks of the context.  A patch beside a failure is discarded.
JobEnds(c) ==
    /\ editJob[c] = "running"
    /\ \E outcome \in IF c \in Asyncs THEN {"ok"} ELSE {"ok", "err", "cancelled", "unconfirmed"},
         edit \in IF c \in Asyncs THEN {"unedited"} ELSE {"unedited", "patch", "unavailable"} :
         \E patch \in IF edit = "patch" THEN Patches(c) ELSE {{}} :
            /\ edit = "unavailable" => outcome = "ok"
            /\ outcome # "ok" => patch = {}
            /\ jobResult' = [jobResult EXCEPT ![c] = [outcome |-> outcome, edit |-> edit, patch |-> patch]]
            /\ drafted' = IF edit = "unedited" THEN drafted ELSE drafted \cup {c}
    /\ editJob' = [editJob EXCEPT ![c] = "done"]
    /\ UNCHANGED <<script, answered, contextDurable, acked, contextEngine, contextFaults, compactions>>

\* Mutant: only an aborted round retains the requirement.
RequirementOnAbort(c, abort) == [required[c] EXCEPT !.owed = @ \/ abort]

\* retain_context_requirement: the event precedes any terminal.  A round that
\* is being aborted requires a commit of every call that completed.
Requirement(c, abort) ==
    IF jobResult[c].edit = "patch"
    THEN [owed |-> TRUE, retained |-> TRUE]
    ELSE [required[c] EXCEPT !.owed = @ \/ jobResult[c].edit = "unavailable" \/ abort]

Require ==
    /\ \/ At("run", "wait") /\ editJob[engine.call] = "done" /\ ~cancelled
       \/ At("stop", "require")
    /\ LET c == engine.call
           abort == /\ engine.mode = "stop" /\ c \in Editors
                    /\ jobResult[c].outcome \in {"ok", "err"} /\ ~has_completed_output(c)
       IN  required' = [required EXCEPT ![c] = Requirement(c, abort)]
    /\ engine' = [engine EXCEPT !.pc = IF engine.mode = "run" THEN "settle" ELSE "retain"]
    /\ UNCHANGED <<script, answered, requests, claims, outcomeOf, receipt, acked, editJob, jobResult,
                   drafted, pendingCalls, cancelled, contextFaults, compactions>>

Stop == engine' = [engine EXCEPT !.mode = "stop", !.pc = "clean", !.call = "none",
                                 !.snapshot = NoSnapshot]

\* The call's terminal without a context transaction.
WriteOutput(c, outcome, publish) ==
    /\ claims' = settle_claims(c, claims)
    /\ outcomeOf' = [outcomeOf EXCEPT ![c] = outcome]
    /\ requests' = IF publish THEN append_tx(c, outcome, HeadRequest, requests) ELSE requests
    /\ UNCHANGED receipt

\* retain_context_transaction_output: cleanup never publishes and never edits.
retain_context_transaction_output(c, outcome) ==
    IF outcome = "unconfirmed" \/ ~required[c].retained
    THEN WriteOutput(c, outcome, FALSE)
    ELSE record_unapplied(c, outcome, IF outcome = "cancelled" THEN "cancelled" ELSE "rejected", FALSE)

Settle ==
    /\ At("run", "settle")
    /\ LET c == engine.call
           r == jobResult[c]
       IN  \/ /\ r.edit = "patch" /\ r.outcome = "unconfirmed"
              /\ retain_context_transaction_output(c, r.outcome)
              /\ Stop
           \/ /\ r.edit = "patch" /\ r.outcome # "unconfirmed"
              /\ ~(cancelled /\ r.outcome = "ok")
              /\ settle_context_transaction(c, r.outcome, r.patch, r.outcome # "ok")
              /\ engine' = [engine EXCEPT !.pc = "ack"]
           \/ /\ r.edit = "patch" /\ r.outcome = "ok" /\ cancelled
              /\ UNCHANGED <<requests, claims, outcomeOf, receipt>>
              /\ Stop
           \/ /\ r.edit = "unavailable"
              /\ UNCHANGED <<requests, claims, outcomeOf, receipt>>
              /\ Stop
           \/ /\ r.edit = "unedited"
              /\ WriteOutput(c, r.outcome, TRUE)
              /\ engine' = [engine EXCEPT !.pc = "ack"]
    /\ UNCHANGED <<script, answered, required, acked, editJob, jobResult, drafted, pendingCalls, cancelled,
                   contextFaults, compactions>>

\* acknowledge_output: a call that owed a commit and has none was aborted.
Acknowledged(c) ==
    IF required[c].owed /\ receipt[c] # "committed" THEN "aborted" ELSE "committed"

Acknowledge ==
    /\ engine.pc = "ack" /\ engine.saving = "none"
    /\ LET c == engine.call
       IN  /\ acked' = [acked EXCEPT ![c] =
                          IF has_completed_output(c) THEN @ \cup {Acknowledged(c)} ELSE @]
           /\ pendingCalls' = pendingCalls \ {c}
           /\ jobResult' = [jobResult EXCEPT ![c] = NoResult]
    /\ engine' = [engine EXCEPT !.pc = IF engine.mode = "run" THEN "sync" ELSE "clean",
                                !.call = "none", !.snapshot = NoSnapshot]
    /\ UNCHANGED <<script, answered, contextDurable, editJob, drafted, cancelled,
                   contextFaults, compactions>>

\* persist_settled while the engine waits: terminal first, publication and
\* acknowledgment after.
PersistSettled(a) ==
    /\ At("run", "wait") \/ At("run", "boundary")
    /\ a \in pendingCalls \cap Asyncs /\ editJob[a] = "done"
    /\ WriteOutput(a, jobResult[a].outcome, FALSE)
    /\ engine' = [engine EXCEPT !.saving = a]
    /\ UNCHANGED <<script, answered, required, acked, editJob, jobResult, drafted, pendingCalls, cancelled,
                   contextFaults, compactions>>

PublishSettled ==
    /\ engine.saving # "none"
    /\ LET a == engine.saving
       IN  /\ requests' = append_tx(a, outcomeOf[a], HeadRequest, requests)
           /\ acked' = [acked EXCEPT ![a] = @ \cup {Acknowledged(a)}]
           /\ pendingCalls' = pendingCalls \ {a}
           /\ jobResult' = [jobResult EXCEPT ![a] = NoResult]
    /\ engine' = [engine EXCEPT !.saving = "none"]
    /\ UNCHANGED <<script, answered, claims, outcomeOf, required, receipt, editJob, drafted,
                   cancelled, contextFaults, compactions>>

\* compact_window between rounds: standing instructions, a summary, the user's
\* text and the pending calls, in a new cut that owns their claims.
Compact ==
    /\ At("run", "boundary")
    /\ compactions < script.compactions
    /\ LET all == history(HeadRequest)
           head == HeadRequest + 1
           retained(x) == x.kind \in {"owner", "text"} \/ (x.kind = "call" /\ x.call \in pendingCalls)
           summary == Occurrence(<<0, 0>>, 0, "note", "none", "old", 0)
           items == Append(SelectSeq(all, retained), summary)
       IN  /\ ~CarryRefused(items, HeadRequest, FALSE)
           /\ (pendingCalls \cap Asyncs) \subseteq Carried(items)
           /\ requests' = Append(requests, [cut |-> TRUE, items |-> Stored(items, head)])
           /\ claims' = carry_native_claims(items, HeadRequest, head, FALSE, claims)
    /\ compactions' = compactions + 1
    /\ UNCHANGED <<script, answered, outcomeOf, required, receipt, acked, editJob, jobResult, drafted,
                   contextEngine, contextFaults>>

(***************************************************************************)
(* Cancellation, crash and recovery                                        *)
(***************************************************************************)
Cancel ==
    /\ engine.mode = "run" /\ ~cancelled /\ contextFaults < script.faults
    /\ cancelled' = TRUE
    /\ contextFaults' = contextFaults + 1
    /\ UNCHANGED <<script, answered, contextDurable, acked, editJob, jobResult, drafted, engine,
                   pendingCalls, compactions>>

ObserveCancel ==
    /\ \E pc \in {"boundary", "sync", "wait"} : At("run", pc)
    /\ cancelled
    /\ Stop
    /\ UNCHANGED <<script, answered, contextDurable, acked, editJob, jobResult, drafted, pendingCalls,
                   cancelled, contextFaults, compactions>>

\* cancel_pending, call by call: a terminal already stored is left alone, a
\* queued job is cancelled, a running one is asked and answers or does not.
Clean(c) ==
    /\ At("stop", "clean")
    /\ c \in pendingCalls
    /\ IF outcomeOf[c] \in {"ok", "err", "cancelled"}
       THEN /\ pendingCalls' = pendingCalls \ {c}
            /\ UNCHANGED <<engine, editJob, jobResult>>
       ELSE /\ engine' = [engine EXCEPT !.pc = "require", !.call = c]
            /\ editJob' = [editJob EXCEPT ![c] = "done"]
            /\ IF editJob[c] = "done" THEN UNCHANGED jobResult
               ELSE \E outcome \in IF editJob[c] = "queued" THEN {"cancelled"}
                                   ELSE {"cancelled", "unconfirmed"} :
                       jobResult' = [jobResult EXCEPT ![c] = [NoResult EXCEPT !.outcome = outcome]]
            /\ UNCHANGED pendingCalls
    /\ UNCHANGED <<script, answered, contextDurable, acked, drafted, cancelled, contextFaults, compactions>>

Retain ==
    /\ At("stop", "retain")
    /\ LET c == engine.call
       IN  IF outcomeOf[c] = "none"
           THEN retain_context_transaction_output(c, jobResult[c].outcome)
           ELSE UNCHANGED <<requests, claims, outcomeOf, receipt>>
    /\ engine' = [engine EXCEPT !.pc = "ack"]
    /\ UNCHANGED <<script, answered, required, acked, editJob, jobResult, drafted, pendingCalls, cancelled,
                   contextFaults, compactions>>

Stopped ==
    /\ At("stop", "clean") /\ pendingCalls = {}
    /\ engine' = [engine EXCEPT !.pc = "down"]
    /\ UNCHANGED <<script, answered, contextDurable, acked, editJob, jobResult, drafted, pendingCalls,
                   cancelled, contextFaults, compactions>>

ContextCrash ==
    /\ engine.pc # "down" /\ contextFaults < script.faults
    /\ contextFaults' = contextFaults + 1
    /\ engine' = [mode |-> "stop", pc |-> "down", call |-> "none", saving |-> "none",
                  snapshot |-> NoSnapshot]
    /\ pendingCalls' = {} /\ cancelled' = FALSE
    /\ editJob' = [c \in ContextCalls |-> "none"]
    /\ jobResult' = [c \in ContextCalls |-> NoResult]
    /\ UNCHANGED <<script, answered, contextDurable, acked, drafted, compactions>>

\* A resumed conversation acknowledges what settled, interrupts what has no
\* job, and publishes on a new request the outputs its history lacks.
ContextRecover ==
    /\ engine.pc = "down"
    /\ LET all == history(HeadRequest)
           k == HeadRequest + 1
           at(c) == NearestClaim(c, HeadRequest)
           held == {c \in ContextCalls : at(c) # 0}
           now == [c \in ContextCalls |->
                     IF c \in held /\ claims[c][at(c)] = "pending"
                     THEN [claims[c] EXCEPT ![at(c)] = "interrupted"] ELSE claims[c]]
           missing == Enumerated({c \in held : OutputsOf(all, c) = {}})
           text(c) == IF now[c][at(c)] = "interrupted" THEN "interrupted" ELSE outcomeOf[c]
       IN  /\ claims' = now
           /\ acked' = [c \in ContextCalls |->
                          IF c \in held /\ claims[c][at(c)] = "settled" /\ has_completed_output(c)
                          THEN acked[c] \cup {Acknowledged(c)} ELSE acked[c]]
           /\ requests' = Append(requests, [cut |-> FALSE, items |->
                 [i \in DOMAIN missing |->
                    Occurrence(<<k, i>>, k, "output", missing[i], text(missing[i]), 0)]])
    /\ engine' = [mode |-> "run", pc |-> "boundary", call |-> "none", saving |-> "none",
                  snapshot |-> NoSnapshot]
    /\ cancelled' = FALSE
    /\ UNCHANGED <<script, answered, outcomeOf, required, receipt, editJob, jobResult, drafted, pendingCalls,
                   contextFaults, compactions>>

ContextNext ==
    \/ Answer \/ SyncDone \/ Require \/ Settle \/ Acknowledge \/ PublishSettled \/ Compact
    \/ Cancel \/ ObserveCancel \/ Retain \/ Stopped \/ ContextCrash \/ ContextRecover
    \/ \E c \in ContextCalls : BeginEdit(c) \/ JobEnds(c) \/ PersistSettled(c) \/ Clean(c)

ContextSpec == ContextInit /\ [][ContextNext]_contextVars

(***************************************************************************)
(* Properties                                                              *)
(***************************************************************************)

\* Whatever edits, compactions, cancellations and crashes came before, the head
\* keeps the standing instructions and shows no output before its call or twice
\* (store/context.rs, blocks), and recovery can read it (engine.rs,
\* run_loop_inner): every claim on its lineage has its call visible exactly once,
\* at most one output, and that output is the one the claim replays; and every
\* call the engine still owes has such a claim.
Recoverable ==
    LET all == history(HeadRequest)
    IN  /\ Cardinality({i \in DOMAIN all : all[i].kind = "owner"}) = 1
        /\ \A i \in DOMAIN all : all[i].kind = "output" =>
              /\ \E j \in Calls(all, all[i].call) : j < i
              /\ OutputsOf(all, all[i].call) = {i}
        /\ \A c \in ContextCalls : NearestClaim(c, HeadRequest) # 0 =>
              /\ Cardinality(Calls(all, c)) = 1
              /\ Cardinality(OutputsOf(all, c)) <= 1
              /\ \A i \in OutputsOf(all, c) :
                    /\ claims[c][NearestClaim(c, HeadRequest)] # "pending"
                    /\ all[i].text = replay_claim(c, NearestClaim(c, HeadRequest))
        /\ \A c \in pendingCalls : NearestClaim(c, HeadRequest) # 0

\* What the owner of an editing call is told is true: committed only when the
\* edit is in the conversation, aborted only when it is not, never both, through
\* crashes between the event, the terminal and the acknowledgment
\* (engine.rs, retain_output: a completed editing operation is never
\* acknowledged as an unedited success).
AcknowledgedTruly ==
    \A c \in ContextCalls :
        /\ "committed" \in acked[c] /\ c \in drafted => receipt[c] = "committed"
        /\ "aborted" \in acked[c] => receipt[c] # "committed" /\ "committed" \notin acked[c]

\* A visible text changes or a unit disappears only in a compaction or in the
\* step that records a committed receipt for a patch that names it at the
\* version it had; and a committed patch lands whole (context.rs,
\* check_context_patch).
VisibleToModel(k) == ItemsOf(history(k))
EditsReceipted ==
    [][\/ requests' = requests \/ compactions' # compactions
       \/ LET now == VisibleToModel(HeadRequest)'
          IN  \A x \in VisibleToModel(HeadRequest) :
                \/ \E y \in now : y.origin = x.origin /\ y.text = x.text
                \/ \E c \in Editors :
                      /\ receipt[c] = "none" /\ receipt'[c] = "committed"
                      /\ \E d \in jobResult[c].patch :
                            /\ \E i \in DOMAIN d.target : d.target[i] = x.origin
                                                        /\ d.expected[i] = x.text
                            /\ \A e \in jobResult[c].patch : e.kind = "replace" =>
                                  \E y \in now : <<y.origin>> = e.target /\ y.text = e.text
      ]_contextVars
=============================================================================
