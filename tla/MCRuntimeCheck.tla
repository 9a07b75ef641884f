---------------------------- MODULE MCRuntimeCheck ----------------------------
(***************************************************************************)
(* A small instance of RuntimeCheck for TLC: one agent process, bound to   *)
(* the first of two hosts that may also wait for each other.               *)
(***************************************************************************)
EXTENDS RuntimeCheck

CONSTANTS p1, h1, h2

Bound == [p \in {p1} |-> h1]
==============================================================================
