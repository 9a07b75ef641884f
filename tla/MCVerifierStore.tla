--------------------------- MODULE MCVerifierStore ---------------------------
(***************************************************************************)
(* A small instance of VerifierStore and Wraps for TLC: a root agent and   *)
(* one it spawned, two issuer keys, one envelope key, windows of one unit  *)
(* of time.                                                                *)
(***************************************************************************)
EXTENDS Wraps

RootAndChild == <<0, 1>>
==============================================================================
