-------------------------- MODULE MCJobScheduler --------------------------
(* Instances of JobScheduler for TLC.                                      *)
EXTENDS JobScheduler

CONSTANTS d, e, s

\* Domain jobs of one activation, and the settlement job that may close it.
MCRole == [op \in Ops |-> IF op = s THEN "settlement" ELSE "domain"]
MCActivation == [op \in Ops |-> "a"]
=============================================================================
