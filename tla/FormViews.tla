----------------------------- MODULE FormViews ------------------------------
(***************************************************************************)
(* What a browser sees of the forms of ActorForms: a view that applies     *)
(* rows arriving late and out of order (web/src/useMountedForm.ts), and a  *)
(* reader that pages through the pending index (pending_actor_forms).      *)
(***************************************************************************)
EXTENDS ActorForms

CONSTANTS
    PageLimit,   \* forms on a page of the pending index
    MaxReplies   \* bound on rows on their way to the view

ASSUME ViewsAssumption == PageLimit \in Nat \ {0} /\ MaxReplies \in Nat

VARIABLES
    replies,   \* rows on their way to the browser
    latest,    \* the row the browser shows for each mount
    reader     \* a paged read: cursor, revision of its pages, forms got

viewVars == <<replies, latest, reader>>
allVars == <<vars, viewVars>>

Start == [after |-> 0, revision |-> 0, got |-> {}, complete |-> FALSE]

ViewInit ==
    /\ Init
    /\ replies = {}
    /\ latest = [f \in Forms |-> Absent]
    /\ reader = Start

\* The answer to a browser operation, a conversation page or an event carries the
\* row of the moment.
Fetch(f) ==
    /\ form[f].state # "absent"
    /\ Cardinality(replies) < MaxReplies
    /\ replies' = replies \cup {[mount |-> f, row |-> form[f]]}
    /\ UNCHANGED <<vars, latest, reader>>

\* Mutant: the newest arrival wins.
NeverStale(incoming, current) == FALSE

\* formRevisionIsStale
RevisionIsStale(incoming, current) ==
    \/ incoming.revision < current.revision
    \/ /\ incoming.revision = current.revision
       /\ current.state # "open" /\ incoming.state = "open"

\* setLatest in useMountedForm.ts, for rows in any order
Show(m) ==
    /\ replies' = replies \ {m}
    /\ latest' = IF RevisionIsStale(m.row, latest[m.mount]) THEN latest
                 ELSE [latest EXCEPT ![m.mount] = m.row]
    /\ UNCHANGED <<vars, reader>>

\* revision_sequence of the pending index: the latest revision of any mount, or 0
FormRevision ==
    LET revisions == {0} \cup {form[f].revision : f \in Forms} IN
    CHOOSE r \in revisions : \A s \in revisions : s <= r

\* PendingActorForm of the mounts that are open or submitted
PendingIndex ==
    {[mount |-> f, state |-> form[f].state, revision |-> form[f].revision] :
        f \in {g \in Forms : form[g].state \in Pending}}

\* Mutant of MustRestart: the pages go on from their cursor.
NeverRestart == FALSE

\* "A changed revision requires callers to restart pagination."
MustRestart == reader.after # 0 /\ reader.revision # FormRevision

\* pending_actor_forms: at most n mounts after the cursor, in opening order (a
\* byte limit may end a page early, never before its first form). A caller
\* starts again when the revision moved between two pages.
ReadPage(n) ==
    LET after == {f \in Forms : form[f].state \in Pending
                                /\ form[f].sequence > reader.after}
        before(f) == {g \in after : form[g].sequence < form[f].sequence}
        page == {f \in after : Cardinality(before(f)) < n}
        last == CHOOSE f \in page : \A g \in page : form[g].sequence <= form[f].sequence
    IN  /\ ~reader.complete
        /\ reader' = IF MustRestart THEN Start
                     ELSE [after |-> IF page = after THEN 0 ELSE form[last].sequence,
                           revision |-> FormRevision,
                           got |-> reader.got \cup {e \in PendingIndex : e.mount \in page},
                           complete |-> page = after]
        /\ UNCHANGED <<vars, replies, latest>>

ViewNext ==
    \/ Next /\ UNCHANGED viewVars
    \/ \E f \in Forms : Fetch(f)
    \/ \E m \in replies : Show(m)
    \/ \E n \in 1..PageLimit : ReadPage(n)

ViewSpec == ViewInit /\ [][ViewNext]_allVars

-----------------------------------------------------------------------------
(* Properties *)

\* A revision names one content of a form, so that the browser may order rows
\* by it: no row on its way, or shown, differs from the stored row of that revision.
RevisionNamesRow ==
    \A f \in Forms :
        /\ latest[f].revision = form[f].revision => latest[f] = form[f]
        /\ latest[f].revision <= form[f].revision
        /\ \A m \in replies : m.mount = f /\ m.row.revision = form[f].revision => m.row = form[f]

\* Pages read one by one, with a restart whenever the revision moved, are the
\* pending index of their revision ("A changed revision requires callers to
\* restart pagination").
PagesConsistent ==
    reader.complete /\ reader.revision = FormRevision => reader.got = PendingIndex

\* The browser never shows a form as open or submitted after it showed it settled.
ViewNeverReopens ==
    [][\A f \in Forms : latest[f].state \in Settled => latest'[f] = latest[f]]_allVars
=============================================================================
