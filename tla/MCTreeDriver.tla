---------------------------- MODULE MCTreeDriver ----------------------------
(* A root with one child. *)
EXTENDS TreeDriver

MCParent == [a \in Agents \ {Root} |-> Root]
=============================================================================
