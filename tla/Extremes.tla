------------------------------ MODULE Extremes ------------------------------
(***************************************************************************)
(* The greatest and the least of a finite set of integers, as in           *)
(* FiniteSetsExt; a module of their own keeps that library, and what it    *)
(* extends, out of the context of every proof obligation.                  *)
(***************************************************************************)
EXTENDS Integers

Highest(S) == CHOOSE x \in S : \A y \in S : x >= y
Lowest(S) == CHOOSE x \in S : \A y \in S : x <= y
=============================================================================
