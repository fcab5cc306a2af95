---------------------------- MODULE MCFormViews -----------------------------
(***************************************************************************)
(* Small instances of the views of forms.  `share` names what a behaviour  *)
(* spends its bounds on: one form with every operation, draft and late     *)
(* row, or two forms and a reader that pages through them.                 *)
(***************************************************************************)
EXTENDS FormViews

CONSTANTS f1, f2, o1, o2, d1, d2
VARIABLE share

MCInit == ViewInit /\ share \in {"operations", "pages"}

MCNext ==
    /\ ViewNext /\ UNCHANGED share
    /\ share = "operations" => form'[f2] = Absent /\ UNCHANGED reader
    /\ share = "pages" => /\ replies' = {} /\ rejected'[f2] = {}
                          /\ \A f \in Forms : ops'[f][o2] = Unused /\ ops'[f][o1] # d2

\* The decoders of ActorForms are fair; nothing is assumed of browsers and readers.
MCSpec == MCInit /\ [][MCNext]_<<allVars, share>> /\ Fairness
=============================================================================
