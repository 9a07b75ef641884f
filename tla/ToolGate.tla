------------------------------- MODULE ToolGate -------------------------------
(***************************************************************************)
(* What an agent process promises about its tools (README.md, AgentProcess *)
(* of runtime_check.rs), with nothing of how it finds out: a line of input *)
(* is answered with ALLOWED only if the check host granted every act the   *)
(* line covers, each after the line was read and while the host did not    *)
(* know it dead; and every line is answered.                               *)
(***************************************************************************)
CONSTANTS Agents, Acts, Hosts, Base    \* agent processes; Base[p] is p's check host

VARIABLES
    gate,       \* the answer to the last line; "open" until there is one
    covers,     \* the acts of the last line
    granted,    \* those of them granted since it was read
    before,     \* the acts that were dead when it was read
    dead        \* the acts each host refuses for good

gateVars == <<gate, covers, granted, before, dead>>

GateInit ==
    /\ gate = [p \in Agents |-> "closed"]
    /\ covers = [p \in Agents |-> {}]
    /\ granted = [p \in Agents |-> {}]
    /\ before = [p \in Agents |-> {}]
    /\ dead = [h \in Hosts |-> {}]

ReadLine(p, acts) ==
    /\ gate[p] # "open"
    /\ gate' = [gate EXCEPT ![p] = "open"]
    /\ covers' = [covers EXCEPT ![p] = acts]
    /\ granted' = [granted EXCEPT ![p] = {}]
    /\ before' = [before EXCEPT ![p] = dead[Base[p]]]
    /\ UNCHANGED dead

Grant(p, a) ==
    /\ gate[p] = "open"
    /\ a \in covers[p] \ dead[Base[p]]
    /\ granted' = [granted EXCEPT ![p] = @ \union {a}]
    /\ UNCHANGED <<gate, covers, before, dead>>

Allow(p) ==
    /\ gate[p] = "open"
    /\ covers[p] # {} /\ covers[p] \subseteq granted[p]
    /\ gate' = [gate EXCEPT ![p] = "ALLOWED"]
    /\ UNCHANGED <<covers, granted, before, dead>>

Refuse(p) ==
    /\ gate[p] = "open"
    /\ gate' = [gate EXCEPT ![p] = "REFUSED"]
    /\ UNCHANGED <<covers, granted, before, dead>>

Die(h, a) ==
    /\ dead' = [dead EXCEPT ![h] = @ \union {a}]
    /\ UNCHANGED <<gate, covers, granted, before>>

GateNext ==
    \/ \E p \in Agents, acts \in SUBSET Acts : ReadLine(p, acts)
    \/ \E p \in Agents, a \in Acts : Grant(p, a)
    \/ \E p \in Agents : Allow(p) \/ Refuse(p)
    \/ \E h \in Hosts, a \in Acts : Die(h, a)

GateSafety == GateInit /\ [][GateNext]_gateVars

\* Every line is answered.
GateFairness == \A p \in Agents : WF_gateVars(Allow(p) \/ Refuse(p))

GateSpec == GateSafety /\ GateFairness

\* A tool never runs on a line that covers an act which was dead when the line
\* was read: there is no allow kept from an earlier line (before_next_tool).
DeathStopsNextLine ==
    \A p \in Agents : gate[p] = "ALLOWED" => covers[p] \intersect before[p] = {}
===============================================================================
