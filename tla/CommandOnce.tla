----------------------------- MODULE CommandOnce -----------------------------
(***************************************************************************)
(* What the embedded command journal promises about an operator's command: *)
(* it takes effect at most once, its verdict is given once and never       *)
(* changed, "done" means that the effect happened, "refused" that it did   *)
(* not and never will.  "unconfirmed" is the honest third answer: the host *)
(* was lost in between and the effect may or may not have happened.        *)
(* CommandJournal implements this specification.                           *)
(***************************************************************************)
CONSTANT Ops                    \* the operation ids allocated by the browser

VARIABLES retained, effect, verdict

once == <<retained, effect, verdict>>

Verdicts == {"done", "refused", "unconfirmed"}

OnceInit == /\ retained = {}
            /\ effect = [o \in Ops |-> 0]
            /\ verdict = [o \in Ops |-> "none"]

\* The command's exact contents are retained before anything else happens.
Retain(o) == /\ o \notin retained
             /\ retained' = retained \cup {o}
             /\ UNCHANGED <<effect, verdict>>

\* The effect happens; its verdict may follow later, or be lost.
Act(o) == /\ o \in retained /\ verdict[o] = "none" /\ effect[o] = 0
          /\ effect' = [effect EXCEPT ![o] = 1]
          /\ UNCHANGED <<retained, verdict>>

\* The verdict is given, alone or in one transaction with the effect.
Report(o, v) ==
    /\ o \in retained /\ verdict[o] = "none"
    /\ verdict' = [verdict EXCEPT ![o] = v]
    /\ \E e \in {effect[o], 1} :
          /\ v = "done" => e = 1
          /\ v = "refused" => e = 0
          /\ effect' = [effect EXCEPT ![o] = e]
    /\ UNCHANGED retained

\* The host was lost: the claims it had made are reported together.
Lose(lost) ==
    /\ lost \subseteq {o \in retained : verdict[o] = "none"}
    /\ verdict' = [o \in Ops |-> IF o \in lost THEN "unconfirmed" ELSE verdict[o]]
    /\ UNCHANGED <<retained, effect>>

OnceNext == \/ \E o \in Ops : \/ Retain(o)
                              \/ Act(o)
                              \/ \E v \in Verdicts : Report(o, v)
            \/ \E lost \in SUBSET Ops : Lose(lost)

OnceSpec == OnceInit /\ [][OnceNext]_once
=============================================================================
