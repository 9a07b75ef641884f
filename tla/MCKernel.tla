------------------------------ MODULE MCKernel -------------------------------
(***************************************************************************)
(* Small instances of Kernel for TLC.  Two configurations ask different    *)
(* questions of the same specification, and each keeps small what its      *)
(* question does not need: MCKernel_tree (what is granted along a chain of *)
(* delegations, and what a kill anywhere in it reaches: labels, users,     *)
(* hops, no clock) and MCKernel_time (the clock: expiry, challenge         *)
(* windows, seals).  MCKernel_outlive asks the one question whose answer   *)
(* is no.                                                                  *)
(***************************************************************************)
EXTENDS CapabilityTokens

Read == <<"read">>
Pay == <<"pay">>
PayProd == <<"pay", "/prod">>

OneIntent == {Read}
OneAudience == {Pay}
TwoAudiences == {Pay, PayProd}

PayContinues == {<<"payments", "pay">>}

\* A type that may delegate once and one that may delegate twice.
Worker == [intents |-> {Read}, limit |-> Pay, depth |-> 1, lifetime |-> 1]
Manager == [intents |-> {Read}, limit |-> Pay, depth |-> 2, lifetime |-> 2]
Workers == {Worker}
Managers == {Manager}
==============================================================================
