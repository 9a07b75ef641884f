-------------------------- MODULE MCKernelProcesses --------------------------
(***************************************************************************)
(* Small instances of KernelProcesses for TLC: one label, one type.  A     *)
(* process has no identity the operations look at, so they are symmetric.  *)
(***************************************************************************)
EXTENDS KernelProcesses, TLC

Read == <<"read">>
Pay == <<"pay">>
OneIntent == {Read}
OneAudience == {Pay}
Workers == {[intents |-> {Read}, limit |-> Pay, depth |-> 1, lifetime |-> 2]}

ProcessSymmetry == Permutations(Processes)

\* Bounds of the run that passes: every behaviour that stays short, and of the
\* longer ones those that begin with a parent that spawns a child, and whose
\* operations overlap only after that.
Prelude == <<"birth_write", "challenge", "challenge_spent", "spawn", "challenge">>

PreludeFirst ==
    /\ \A p \in DOMAIN Prelude : p \in DOMAIN log => log[p].op = Prelude[p]
    /\ trouble = "overlap" => Len(log) >= Len(Prelude)

Short ==
    /\ Len(capabilities) <= 2 /\ Cardinality(Lines({"challenge"})) <= 1
    /\ Len(log) <= IF trouble = "overlap" THEN 4 ELSE 6

ShortOrPreludeFirst == Short \/ PreludeFirst
==============================================================================
