--------------------------- MODULE MCIssuanceLog -----------------------------
(***************************************************************************)
(* Small instances of IssuanceLog, LogExports and Bundles for TLC.  A      *)
(* process has no identity the operations look at, so the processes are    *)
(* symmetric.                                                              *)
(***************************************************************************)
EXTENDS Bundles, TLC

ProcessSymmetry == Permutations(Processes)
==============================================================================
