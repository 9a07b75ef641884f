------------------------- MODULE KernelProcessesProofs -------------------------
(***************************************************************************)
(* Theorems about KernelProcesses: what holds of several processes on one  *)
(* data directory, for every interleaving and every value of the constants.*)
(***************************************************************************)
EXTENDS KernelProcesses, KernelActs

------------------------------------------------------------------------------
(* The invariant.  Nothing that an operation read is ever taken back: the    *)
(* records it names stay, and so do the lines.  So what it found to exist    *)
(* exists when it comes to write, whatever the others did meanwhile.         *)

IssueJobs == [step : {"spend", "examine", "birth", "record", "line"},
              op : IssuanceOperations, inst : Nat, type : Nat, parentInst : Nat,
              parent : Nat, grant : Grants0, nonce : Nat, cap : Nat]
CheckJobs == [step : {"spend", "examine", "record decision"}, op : {"check"},
              inst : Nat, live : BOOLEAN, loaded : Nat, cap : Nat,
              grant : Grants0, nonce : Nat]
KillJobs == [step : {"kill instance", "kill instance line", "kill capability",
                     "kill capability line", "killed"},
             named : Nat, killed : SUBSET Nat, derived : SUBSET Nat,
             instances : SUBSET Nat, capabilities : SUBSET Nat,
             listed : SUBSET Nat, current : Nat]
Jobs == IssueJobs \union CheckJobs \union KillJobs \union {Idle}

\* What a job names is in the store, and what it derives from is in the log once
\* it was examined.
IssueRefs(j) ==
    /\ j.type \in DOMAIN agentTypes
    /\ j.parentInst \in DOMAIN instances \union {0}
    /\ j.parent \in DOMAIN chains \union {0}
    /\ j.op = "attenuate" => j.parent # 0
    /\ j.step \in {"spend", "examine"} => j.op = "spawn" /\ j.parentInst # 0 /\ j.parent # 0
    /\ j.step \in {"record", "line"} => j.inst \in DOMAIN instances
    /\ j.step \in {"birth", "record", "line"} /\ j.parent # 0 => PresentInLog(j.parent)
    /\ j.step = "line" => j.cap \in DOMAIN chains

\* An instance that was loaded live was named by no line of the log at the time.
LoadedInOrder(j) ==
    /\ j.loaded \in 0..Len(log)
    /\ j.live => \A q \in 1..j.loaded : ~HitsInstance(log[q], j.inst)

CheckRefs(j) ==
    j.inst \in DOMAIN instances /\ j.cap \in DOMAIN chains /\ LoadedInOrder(j)

KillRefs(j) ==
    /\ j.killed \union j.instances \subseteq DOMAIN instances
    /\ j.derived \union j.capabilities \union j.listed \subseteq DOMAIN chains
    /\ j.step \in {"kill instance", "kill instance line"} =>
          j.named \in DOMAIN instances /\ j.current \in DOMAIN instances
    /\ j.step = "kill capability line" => j.current \in DOMAIN chains

Refs(j) ==
    /\ j \in IssueJobs => IssueRefs(j)
    /\ j \in CheckJobs => CheckRefs(j)
    /\ j \in KillJobs => KillRefs(j)

JobsOK == job \in [Processes -> Jobs] /\ \A p \in Processes : Refs(job[p])

\* What was derived from is in the log, and so is all that was derived from.
LoggedParents ==
    \A c \in DOMAIN chains : chains[c].parent # 0 => PresentInLog(chains[c].parent)

EvaluatedInv ==
    /\ \A e \in evaluated : e.seen \in 0..Len(log) /\ e.cap \in DOMAIN chains
    /\ ActsRespectDeath /\ OnlyLoggedCapabilitiesAct

ProcessesInv == TypeOK /\ JobsOK /\ LoggedParents /\ EvaluatedInv

------------------------------------------------------------------------------
(* While no operations overlap, at most one job is under way, and what it has  *)
(* read is still so: what it derives from is not killed, its proof is unspent  *)
(* until it spends it and the last line thereafter, and a cascade goes on to   *)
(* kill what its first line killed already.  A crash leaves all of that to     *)
(* nobody.                                                                     *)

\* The line before is the proof of i.
LastSpent(i) == Len(log) > 0 /\ Spends(log[Len(log)]) /\ log[Len(log)].inst = i

IssueAlone(j) ==
    /\ j.step \in {"birth", "record", "line"} /\ j.parent # 0 => ~CapabilityKilled(j.parent)
    /\ j.step \in {"record", "line"} => ~InstanceKilled(j.inst)
    /\ j.step \in {"spend", "examine", "birth"} /\ j.parentInst # 0 =>
          ~InstanceKilled(j.parentInst)
    /\ j.step = "spend" => UnusedChallenge(j.parentInst, j.nonce)
    /\ j.op = "spawn" /\ j.step # "spend" => LastSpent(j.parentInst)
    /\ j.op = "spawn" /\ j.step \in {"record", "line"} =>
          instances[j.inst].parent = j.parentInst

CheckAlone(j) ==
    /\ j.step = "spend" => UnusedChallenge(j.inst, j.nonce)
    /\ j.step # "spend" => LastSpent(j.inst)

\* What a cascade reaches from an instance, from the capabilities of the
\* instances in S, and from a capability.
InstanceTree(i) == Tree(InstanceParent, {i})
Held(S) == UNION {CapabilitiesOf(i) : i \in S}
Derived(S) == Tree(CapabilityParent, Held(S))
CapabilityTree(c) == Tree(CapabilityParent, {c})

\* The first line of a cascade is still to come.
KillBegun(j) ==
    /\ j.step \in {"kill instance", "kill instance line"} /\ j.named \in j.instances
    /\ j.killed = InstanceTree(j.named) /\ j.instances = j.killed
    /\ j.derived = Derived(j.killed) /\ j.capabilities = j.derived /\ j.listed = {}
    /\ j.step = "kill instance line" => j.current = j.named

\* The first line is in the log, and named all that remains.
KillListed(j) ==
    /\ j.named \notin j.instances /\ j.listed = {}
    /\ \A i \in j.instances : InstanceKilled(i)
    /\ \A c \in j.capabilities : CapabilityKilled(c)
    /\ j.step = "kill instance line" => j.current \in j.instances
    /\ j.step = "kill capability line" => j.current \in j.capabilities

CapabilityKillBegun(j) ==
    /\ j.step \in {"kill capability", "kill capability line"}
    /\ j.capabilities = {j.named} /\ j.listed = CapabilityTree(j.named)
    /\ j.step = "kill capability line" => j.current = j.named

KillAlone(j) ==
    KillBegun(j) \/ KillListed(j) \/ CapabilityKillBegun(j) \/ j.step = "killed"

JobAlone(j) ==
    /\ j \in IssueJobs => IssueAlone(j)
    /\ j \in CheckJobs => CheckAlone(j)
    /\ j \in KillJobs => KillAlone(j)

LogInv == DeathInv /\ ProofInv /\ LogNames

AloneInv ==
    trouble # "overlap" =>
        /\ LogInv
        /\ \A p, q \in Processes : job[p] # Idle /\ job[q] # Idle => p = q
        /\ \A p \in Processes : JobAlone(job[p])

------------------------------------------------------------------------------
(* What is kept.                                                             *)

StoreGrows ==
    /\ RecordsGrow
    /\ DOMAIN agentTypes \subseteq DOMAIN agentTypes'
    /\ Len(log) <= Len(log') /\ DOMAIN log \subseteq DOMAIN log'
    /\ \A p \in DOMAIN log : log'[p] = log[p]

LEMMA IssueFields ==
    ASSUME NEW j \in IssueJobs
    PROVE  /\ j.step \in {"spend", "examine", "birth", "record", "line"}
           /\ j.op \in IssuanceOperations
           /\ j.inst \in Nat /\ j.type \in Nat /\ j.parentInst \in Nat
           /\ j.parent \in Nat /\ j.grant \in Grants0
           /\ j.nonce \in Nat /\ j.cap \in Nat
  BY DEF IssueJobs

LEMMA CheckFields ==
    ASSUME NEW j \in CheckJobs
    PROVE  /\ j.step \in {"spend", "examine", "record decision"}
           /\ j.op = "check" /\ j.inst \in Nat /\ j.cap \in Nat
           /\ j.live \in BOOLEAN /\ j.loaded \in Nat
           /\ j.grant \in Grants0 /\ j.nonce \in Nat
  BY DEF CheckJobs

LEMMA KillFields ==
    ASSUME NEW j \in KillJobs
    PROVE  /\ j.step \in {"kill instance", "kill instance line", "kill capability",
                          "kill capability line", "killed"}
           /\ j.named \in Nat /\ j.current \in Nat
           /\ j.killed \in SUBSET Nat /\ j.derived \in SUBSET Nat
           /\ j.instances \in SUBSET Nat /\ j.capabilities \in SUBSET Nat
           /\ j.listed \in SUBSET Nat
  BY DEF KillJobs

LEMMA JobKinds ==
    /\ \A j \in IssueJobs : j \notin CheckJobs \union KillJobs \union {Idle}
    /\ \A j \in CheckJobs : j \notin IssueJobs \union KillJobs \union {Idle}
    /\ \A j \in KillJobs : j \notin IssueJobs \union CheckJobs \union {Idle}
    /\ Idle \notin IssueJobs \union CheckJobs \union KillJobs /\ Idle.step = "idle"
  <1>1. Idle.step = "idle"
    BY DEF Idle
  <1>2. \A j \in IssueJobs : j.step # "idle" /\ j.op \in IssuanceOperations
    BY IssueFields
  <1>3. \A j \in CheckJobs : j.step # "idle" /\ j.op = "check"
    BY CheckFields
  <1>4. \A j \in KillJobs : j.step # "idle"
    BY KillFields
  <1>5. \A j \in KillJobs : j.step \notin {"spend", "examine", "birth", "record", "line",
                                           "record decision"}
    BY KillFields
  <1>6. "check" \notin IssuanceOperations
    BY DEF IssuanceOperations
  <1>7. \A j \in IssueJobs \union CheckJobs :
           j.step \in {"spend", "examine", "birth", "record", "line", "record decision"}
    BY IssueFields, CheckFields
  <1> QED  BY <1>1, <1>2, <1>3, <1>4, <1>5, <1>6, <1>7

LEMMA RefsKept ==
    ASSUME TypeOK, StoreGrows, NEW j, Refs(j)
    PROVE  Refs(j)'
  <1>1. \A c : PresentInLog(c) => PresentInLog(c)'
    BY DEF StoreGrows, PresentInLog
  <1>2. /\ DOMAIN instances \subseteq DOMAIN instances'
        /\ DOMAIN chains \subseteq DOMAIN chains'
        /\ DOMAIN agentTypes \subseteq DOMAIN agentTypes'
    BY DEF StoreGrows, RecordsGrow
  <1>3. IssueRefs(j) => IssueRefs(j)'
    BY <1>1, <1>2 DEF IssueRefs
  <1>4. CheckRefs(j) => CheckRefs(j)'
    <2>1. ASSUME LoadedInOrder(j) PROVE LoadedInOrder(j)'
      <3>1. /\ Len(log) \in Nat /\ Len(log') \in Nat /\ Len(log) <= Len(log')
            /\ DOMAIN log = 1..Len(log)
        BY DEF TypeOK, StoreGrows
      <3>2. j.loaded \in 0..Len(log)
        BY <2>1 DEF LoadedInOrder
      <3>3. \A q \in 1..j.loaded : log'[q] = log[q]
        BY <3>1, <3>2 DEF StoreGrows
      <3>4. j.live => \A q \in 1..j.loaded : ~HitsInstance(log'[q], j.inst)
        BY <2>1, <3>3 DEF LoadedInOrder
      <3>5. j.loaded \in 0..Len(log')
        BY <3>1, <3>2
      <3> QED  BY <3>4, <3>5 DEF LoadedInOrder, HitsInstance
    <2> QED  BY <1>2, <2>1 DEF CheckRefs
  <1>5. KillRefs(j) => KillRefs(j)'
    BY <1>2 DEF KillRefs
  <1> QED  BY <1>3, <1>4, <1>5 DEF Refs

LEMMA JobsKept ==
    ASSUME TypeOK, JobsOK, StoreGrows, UNCHANGED job
    PROVE  JobsOK'
  <1>1. \A p \in Processes : \A j : j = job[p] => Refs(j)'
    BY RefsKept DEF JobsOK
  <1> QED  BY <1>1 DEF JobsOK

LEMMA JobMoves ==
    ASSUME TypeOK, JobsOK, StoreGrows, NEW p \in Processes, NEW next \in Jobs,
           Goto(p, next), Refs(next)'
    PROVE  JobsOK'
  <1>1. /\ job' \in [Processes -> Jobs] /\ job'[p] = next
        /\ \A q \in Processes : q # p => job'[q] = job[q]
    BY DEF JobsOK, Goto
  <1>2. \A q \in Processes : \A j : j = job'[q] => Refs(j)'
    BY <1>1, RefsKept DEF JobsOK
  <1> QED  BY <1>1, <1>2 DEF JobsOK

LEMMA ParentsLogged ==
    ASSUME TypeOK, LoggedParents, StoreGrows,
           \A c \in DOMAIN chains' \ DOMAIN chains :
              chains'[c].parent # 0 => PresentInLog(chains'[c].parent)
    PROVE  LoggedParents'
  <1>1. \A c : PresentInLog(c) => PresentInLog(c)'
    BY DEF StoreGrows, PresentInLog
  <1>2. ASSUME NEW c \in DOMAIN chains', NEW d, d = chains'[c].parent, d # 0
        PROVE  PresentInLog(d)'
    <2>1. PresentInLog(d)
      BY <1>2 DEF LoggedParents, StoreGrows, RecordsGrow
    <2> QED  BY <1>1, <2>1
  <1> QED  BY <1>2 DEF LoggedParents

\* What was evaluated stays in order: the lines that were read are the same
\* lines, and the ancestors of a capability do not change.
LEMMA EvaluatedKept ==
    ASSUME TypeOK, TypeOK', EvaluatedInv, StoreGrows, UNCHANGED evaluated
    PROVE  EvaluatedInv'
  <1>1. \A c \in DOMAIN chains : CapabilityAncestors(c)' \subseteq CapabilityAncestors(c)
    BY AncestorsKept DEF StoreGrows
  <1>2. /\ Len(log) \in Nat /\ Len(log') \in Nat /\ Len(log) <= Len(log')
        /\ DOMAIN log = 1..Len(log) /\ DOMAIN chains \subseteq DOMAIN chains'
    BY DEF TypeOK, StoreGrows, RecordsGrow
  <1>3. ASSUME NEW e \in evaluated, NEW c, c = e.cap
        PROVE  /\ e.seen \in 0..Len(log') /\ c \in DOMAIN chains'
               /\ \A p \in 1..e.seen :
                     /\ \A d \in CapabilityAncestors(c)' : ~HitsCapability(log'[p], d)
                     /\ p <= e.loaded => ~HitsInstance(log'[p], e.inst)
                     /\ ~NamesInstance(log'[p], e.inst)
               /\ \A d \in CapabilityAncestors(c)' : \E p \in 1..e.seen :
                     log'[p].op \in IssuanceOperations /\ log'[p].cap = d
    <2>1. e.seen \in 0..Len(log) /\ c \in DOMAIN chains
      BY <1>3 DEF EvaluatedInv
    <2>2. \A p \in 1..e.seen : p \in DOMAIN log /\ log'[p] = log[p]
      BY <1>2, <2>1 DEF StoreGrows
    <2>3. /\ \A p \in 1..e.seen :
                /\ \A d \in CapabilityAncestors(c) : ~HitsCapability(log[p], d)
                /\ p <= e.loaded => ~HitsInstance(log[p], e.inst)
                /\ ~NamesInstance(log[p], e.inst)
          /\ \A d \in CapabilityAncestors(c) : \E p \in 1..e.seen :
                log[p].op \in IssuanceOperations /\ log[p].cap = d
      BY <1>3 DEF EvaluatedInv, ActsRespectDeath, OnlyLoggedCapabilitiesAct
    <2>4. e.seen \in 0..Len(log') /\ c \in DOMAIN chains'
      BY <1>2, <2>1
    <2> QED  BY <1>1, <2>1, <2>2, <2>3, <2>4
  <1>4. \A e \in evaluated' : e.seen \in 0..Len(log') /\ e.cap \in DOMAIN chains'
    BY <1>3
  <1>5. ActsRespectDeath'
    BY <1>3 DEF ActsRespectDeath, CapabilityAncestors, Tree, HitsCapability, HitsInstance,
                NamesInstance
  <1>6. OnlyLoggedCapabilitiesAct'
    BY <1>3 DEF OnlyLoggedCapabilitiesAct, CapabilityAncestors, Tree
  <1> QED  BY <1>4, <1>5, <1>6 DEF EvaluatedInv

------------------------------------------------------------------------------
(* What a step does to the store, apart from the process that takes it.      *)

StoreStep == TypeOK' /\ StoreGrows /\ LoggedParents'

LEMMA StillStep ==
    ASSUME TypeOK, LoggedParents, UNCHANGED vars
    PROVE  StoreStep
  <1>1. TypeOK'
    BY LogOnlyOK DEF vars, records, TypeOK
  <1>2. StoreGrows
    BY DEF vars, StoreGrows, RecordsGrow
  <1> QED
    BY <1>1, <1>2, ParentsLogged DEF vars, StoreStep

LEMMA LineStep ==
    ASSUME TypeOK, LoggedParents, NEW line \in LogLine, log' = Append(log, line),
           UNCHANGED <<now, killDate, records>>
    PROVE  StoreStep
  <1>1. /\ log' \in Seq(LogLine) /\ Len(log') = Len(log) + 1 /\ DOMAIN log = 1..Len(log)
        /\ DOMAIN log' = 1..(Len(log) + 1) /\ \A k \in DOMAIN log : log'[k] = log[k]
        /\ Len(log) \in Nat
    BY AppendFacts DEF TypeOK
  <1>2. TypeOK'
    BY <1>1, LogOnlyOK DEF TypeOK
  <1>3. StoreGrows
    BY <1>1 DEF records, StoreGrows, RecordsGrow
  <1> QED
    BY <1>2, <1>3, ParentsLogged DEF records, StoreStep

LEMMA InstanceStep ==
    ASSUME TypeOK, LoggedParents, UNCHANGED <<now, killDate, agentTypes, capabilities, chains, log>>,
           NEW type \in DOMAIN agentTypes, NEW parent \in DOMAIN instances \union {0},
           instances' = Append(instances, NewInstance(type, parent))
    PROVE  StoreStep /\ Len(instances) + 1 \in DOMAIN instances'
  <1>1. /\ instances' \in Seq(InstanceRecord)
        /\ DOMAIN instances \subseteq DOMAIN instances'
        /\ Len(instances) + 1 \in DOMAIN instances'
        /\ \A i \in DOMAIN instances' :
              instances'[i].type \in DOMAIN agentTypes /\ instances'[i].parent < i
    BY NewInstanceOK
  <1>2. TypeOK'
    BY <1>1 DEF TypeOK
  <1>3. \A i \in DOMAIN instances : instances'[i] = instances[i]
    BY InstanceBorn
  <1>4. StoreGrows
    BY <1>1, <1>3 DEF StoreGrows, RecordsGrow, TypeOK
  <1> QED
    BY <1>1, <1>2, <1>4, ParentsLogged DEF StoreStep

LEMMA CapabilityStep ==
    ASSUME TypeOK, LoggedParents, UNCHANGED <<now, killDate, agentTypes, instances, log>>,
           NEW capability \in CapabilityRecord, NEW chain \in ChainRecord,
           capability.inst \in DOMAIN instances,
           chain.parent \in DOMAIN chains \union {0},
           chain.parent # 0 => PresentInLog(chain.parent),
           capabilities' = Append(capabilities, capability),
           chains' = Append(chains, chain)
    PROVE  StoreStep /\ Len(capabilities) + 1 \in DOMAIN chains'
  <1>1. /\ capabilities' \in Seq(CapabilityRecord)
        /\ Len(capabilities') = Len(capabilities) + 1
        /\ DOMAIN capabilities = 1..Len(capabilities)
        /\ DOMAIN capabilities' = 1..(Len(capabilities) + 1)
        /\ \A k \in DOMAIN capabilities : capabilities'[k] = capabilities[k]
        /\ capabilities'[Len(capabilities) + 1] = capability
    BY AppendFacts DEF TypeOK
  <1>2. /\ chains' \in Seq(ChainRecord) /\ Len(chains') = Len(chains) + 1
        /\ DOMAIN chains = 1..Len(chains) /\ DOMAIN chains' = 1..(Len(chains) + 1)
        /\ \A k \in DOMAIN chains : chains'[k] = chains[k]
        /\ chains'[Len(chains) + 1] = chain
    BY AppendFacts DEF TypeOK
  <1>3. Len(chains) = Len(capabilities) /\ Len(chains) \in Nat
    BY DEF TypeOK
  <1>4. chain.parent < Len(chains) + 1
    BY <1>2, <1>3
  <1>5. \A k \in DOMAIN capabilities' : k \in DOMAIN capabilities \/ k = Len(capabilities) + 1
    BY <1>1, <1>3
  <1>6. \A k \in DOMAIN chains' : k \in DOMAIN chains \/ k = Len(chains) + 1
    BY <1>2, <1>3
  <1>7. /\ \A c \in DOMAIN capabilities' : capabilities'[c].inst \in DOMAIN instances
        /\ \A c \in DOMAIN chains' : chains'[c].parent < c
    BY <1>1, <1>2, <1>4, <1>5, <1>6 DEF TypeOK
  <1>8. TypeOK'
    BY <1>1, <1>2, <1>3, <1>7 DEF TypeOK
  <1>9. StoreGrows
    BY <1>1, <1>2, <1>3 DEF StoreGrows, RecordsGrow, TypeOK
  <1>10. \A c \in DOMAIN chains' \ DOMAIN chains : chains'[c] = chain
    BY <1>2, <1>6
  <1>11. LoggedParents'
    BY <1>9, <1>10, ParentsLogged
  <1> QED
    BY <1>2, <1>3, <1>8, <1>9, <1>11 DEF StoreStep

LEMMA InstanceDies ==
    ASSUME TypeOK, LoggedParents, UNCHANGED <<now, killDate, agentTypes, capabilities, chains, log>>,
           NEW i \in DOMAIN instances, instances' = [instances EXCEPT ![i].live = FALSE]
    PROVE  StoreStep
  <1>1. /\ DOMAIN instances' = DOMAIN instances
        /\ \A j \in DOMAIN instances : /\ instances'[j] \in InstanceRecord
                                       /\ instances'[j].type = instances[j].type
                                       /\ instances'[j].parent = instances[j].parent
    <2>1. \A j \in DOMAIN instances : instances[j] \in InstanceRecord
      BY ElementFacts DEF TypeOK
    <2> QED  BY <2>1 DEF InstanceRecord
  <1>2. instances' \in [DOMAIN instances -> InstanceRecord]
    BY <1>1
  <1>3. instances' \in Seq(InstanceRecord)
    BY <1>2, RewriteFacts DEF TypeOK
  <1>4. TypeOK'
    BY <1>1, <1>3 DEF TypeOK
  <1>5. StoreGrows
    BY <1>1 DEF StoreGrows, RecordsGrow, TypeOK
  <1> QED
    BY <1>4, <1>5, ParentsLogged DEF StoreStep

LEMMA ChainDies ==
    ASSUME TypeOK, LoggedParents, UNCHANGED <<now, killDate, agentTypes, instances, capabilities, log>>,
           NEW c \in DOMAIN chains, chains' = [chains EXCEPT ![c].revoked = TRUE]
    PROVE  StoreStep
  <1>1. /\ DOMAIN chains' = DOMAIN chains
        /\ \A d \in DOMAIN chains : /\ chains'[d] \in ChainRecord
                                    /\ chains'[d].parent = chains[d].parent
    <2>1. \A d \in DOMAIN chains : chains[d] \in ChainRecord
      BY ElementFacts DEF TypeOK
    <2> QED  BY <2>1 DEF ChainRecord
  <1>2. chains' \in [DOMAIN chains -> ChainRecord]
    BY <1>1
  <1>3. chains' \in Seq(ChainRecord) /\ Len(chains') = Len(chains)
    BY <1>2, RewriteFacts DEF TypeOK
  <1>4. TypeOK'
    BY <1>1, <1>3 DEF TypeOK
  <1>5. StoreGrows
    BY <1>1 DEF StoreGrows, RecordsGrow, TypeOK
  <1> QED
    BY <1>1, <1>4, <1>5, ParentsLogged DEF StoreStep

LEMMA OneStepStore ==
    ASSUME TypeOK, LoggedParents,
           \/ \E type \in TypeChoices : AddAgentType(type)
           \/ \E type \in DOMAIN agentTypes : BirthInstance(type)
           \/ Challenge
    PROVE  StoreStep
  <1>1. CASE \E type \in TypeChoices : AddAgentType(type)
    <2> PICK type \in TypeChoices : AddAgentType(type)
      BY <1>1
    <2>1. TypeOK'
      BY AddAgentTypeOK
    <2>2. DOMAIN agentTypes \subseteq DOMAIN agentTypes'
      BY AppendIndex, <2>1 DEF AddAgentType, TypeOK
    <2>3. StoreGrows
      BY <2>2 DEF AddAgentType, StoreGrows, RecordsGrow, TypeOK
    <2> QED  BY <2>1, <2>3, ParentsLogged DEF AddAgentType, StoreStep
  <1>2. CASE \E type \in DOMAIN agentTypes : BirthInstance(type)
    BY <1>2, InstanceStep DEF BirthInstance
  <1>3. CASE Challenge
    <2> PICK i \in DOMAIN instances : IssueHolderChallenge(i)
      BY <1>3 DEF Challenge
    <2> DEFINE line == [Line("challenge", i, 0) EXCEPT !.expires = now + ChallengeWindow]
    <2>1. line \in LogLine
      <3>0. i \in Nat /\ 0 \in Nat /\ "challenge" \in Operations
        BY ElementFacts DEF Operations, TypeOK
      <3>1. Line("challenge", i, 0) \in LogLine
        BY <3>0, LineType
      <3>2. now + ChallengeWindow \in Nat
        BY KernelAssumption DEF TypeOK
      <3> QED  BY <3>1, <3>2 DEF LogLine
    <2> QED  BY <2>1, LineStep DEF IssueHolderChallenge
  <1> QED  BY <1>1, <1>2, <1>3

------------------------------------------------------------------------------
(* The jobs.                                                                 *)

LEMMA IdleRefs == Idle \in Jobs /\ Refs(Idle)
  BY JobKinds DEF Jobs, Refs

LEMMA IssueRefsSuffice ==
    ASSUME NEW j \in IssueJobs
    PROVE  j \in Jobs /\ (IssueRefs(j) <=> Refs(j))
  BY JobKinds DEF Jobs, Refs

LEMMA IssueRefsThen ==
    ASSUME NEW j \in IssueJobs, IssueRefs(j)'
    PROVE  j \in Jobs /\ Refs(j)'
  BY JobKinds DEF Jobs, Refs

LEMMA CheckRefsSuffice ==
    ASSUME NEW j \in CheckJobs
    PROVE  j \in Jobs /\ (CheckRefs(j) <=> Refs(j))
  BY JobKinds DEF Jobs, Refs

LEMMA KillRefsSuffice ==
    ASSUME NEW j \in KillJobs
    PROVE  j \in Jobs /\ (KillRefs(j) <=> Refs(j))
  BY JobKinds DEF Jobs, Refs

\* The kind of a job is seen from the step it takes next.
LEMMA JobAt ==
    ASSUME JobsOK, NEW p \in Processes
    PROVE  /\ job[p] \in Jobs /\ Refs(job[p])
           /\ job[p].step \in {"birth", "record", "line"} => job[p] \in IssueJobs
           /\ job[p].step = "record decision" => job[p] \in CheckJobs
           /\ job[p].step \in {"spend", "examine"} /\ job[p].op = "check" => job[p] \in CheckJobs
           /\ job[p].step \in {"spend", "examine"} /\ job[p].op # "check" => job[p] \in IssueJobs
           /\ job[p].step \in {"kill instance", "kill instance line", "kill capability",
                               "kill capability line"} => job[p] \in KillJobs
  <1> PICK j \in Jobs : j = job[p] /\ Refs(j)
    BY DEF JobsOK
  <1>1. j \in IssueJobs \/ j \in CheckJobs \/ j \in KillJobs \/ j = Idle
    BY DEF Jobs
  <1>2. j \in IssueJobs => /\ j.step \in {"spend", "examine", "birth", "record", "line"}
                           /\ j.op # "check"
    BY IssueFields DEF IssuanceOperations
  <1>3. j \in CheckJobs => /\ j.step \in {"spend", "examine", "record decision"}
                           /\ j.op = "check"
    BY CheckFields
  <1>4. j \in KillJobs => j.step \in {"kill instance", "kill instance line",
                                      "kill capability", "kill capability line", "killed"}
    BY KillFields
  <1>5. j = Idle => j.step = "idle"
    BY JobKinds
  <1> QED  BY <1>1, <1>2, <1>3, <1>4, <1>5

LEMMA AloneSuffices ==
    /\ \A j \in IssueJobs : IssueAlone(j) => JobAlone(j)
    /\ \A j \in CheckJobs : CheckAlone(j) => JobAlone(j)
    /\ \A j \in KillJobs : KillAlone(j) => JobAlone(j)
    /\ JobAlone(Idle)
  BY JobKinds DEF JobAlone

\* A job begins with what it needs.
Begun(p) ==
    /\ UNCHANGED vars
    /\ \E next \in Jobs : Goto(p, next) /\ Refs(next) /\ JobAlone(next)

\* A step that only reads.
LEMMA ReadStep ==
    ASSUME TypeOK, JobsOK, LoggedParents, UNCHANGED vars, NEW p \in Processes,
           NEW next \in Jobs, Goto(p, next), Refs(next)
    PROVE  StoreStep /\ JobsOK'
  <1>1. StoreStep
    BY StillStep
  <1> QED  BY <1>1, RefsKept, JobMoves DEF StoreStep

\* A step that writes: the references of what comes next may be to what is new.
LEMMA WriteStep ==
    ASSUME TypeOK, JobsOK, StoreStep, NEW p \in Processes, NEW next \in Jobs,
           Goto(p, next), Refs(next) \/ Refs(next)'
    PROVE  JobsOK'
  BY RefsKept, JobMoves DEF StoreStep

LEMMA SameDomain == TypeOK => DOMAIN chains = DOMAIN capabilities
  BY AppendIndex DEF TypeOK

LEMMA ActingType ==
    ASSUME TypeOK, NEW i \in DOMAIN instances
    PROVE  i \in Nat /\ i # 0 /\ instances[i].type \in DOMAIN agentTypes
  BY ElementFacts DEF TypeOK

LEMMA CapabilityFacts ==
    ASSUME TypeOK, NEW c \in DOMAIN capabilities
    PROVE  /\ c \in Nat /\ c # 0 /\ c \in DOMAIN chains
           /\ capabilities[c].inst \in DOMAIN instances
  BY ElementFacts, ChildChainOK DEF TypeOK

LEMMA IssuanceJob ==
    ASSUME TypeOK, NEW op \in IssuanceOperations,
           NEW step \in {"spend", "examine", "birth", "record", "line"},
           NEW i \in Nat, NEW type \in DOMAIN agentTypes, NEW parentInst \in Nat,
           NEW parent \in Nat, NEW grant \in Grants0
    PROVE  LET j == Issuance(op, step, i, type, parentInst, parent, grant)
           IN  /\ j \in IssueJobs
               /\ j.op = op /\ j.step = step /\ j.inst = i /\ j.type = type
               /\ j.parentInst = parentInst /\ j.parent = parent
  <1>1. type \in Nat
    BY ElementFacts DEF TypeOK
  <1> QED  BY <1>1 DEF Issuance, IssueJobs

LEMMA BeginBirthWriteJob ==
    ASSUME TypeOK, NEW p \in Processes,
           NEW type \in DOMAIN agentTypes, NEW grant \in Grants0,
           BeginBirthWrite(p, type, grant)
    PROVE  Begun(p)
  <1> DEFINE next == Issuance("birth_write", "birth", 0, type, 0, 0, grant)
  <1>1. /\ next \in IssueJobs /\ next.op = "birth_write" /\ next.step = "birth"
        /\ next.type = type /\ next.parentInst = 0 /\ next.parent = 0
    BY IssuanceJob DEF IssuanceOperations
  <1>2. Goto(p, next) /\ UNCHANGED vars
    BY DEF BeginBirthWrite
  <1> HIDE DEF next
  <1>3. IssueRefs(next)
    BY <1>1 DEF IssueRefs
  <1>4. IssueAlone(next)
    BY <1>1 DEF IssueAlone
  <1> QED  BY <1>1, <1>2, <1>3, <1>4, IssueRefsSuffice, AloneSuffices DEF Begun

LEMMA BeginMintJob ==
    ASSUME TypeOK, NEW p \in Processes,
           NEW i \in DOMAIN instances, NEW grant \in Grants0, BeginMint(p, i, grant)
    PROVE  Begun(p)
  <1> DEFINE next == Issuance("mint", "record", i, instances[i].type, 0, 0, grant)
  <1>1. /\ next \in IssueJobs /\ next.op = "mint" /\ next.step = "record" /\ next.inst = i
        /\ next.type = instances[i].type /\ next.parentInst = 0 /\ next.parent = 0
    <2>1. i \in Nat /\ 0 \in Nat /\ instances[i].type \in DOMAIN agentTypes
      BY ActingType
    <2>2. "mint" \in IssuanceOperations
      BY DEF IssuanceOperations
    <2>3. instances[i].type \in Nat
      BY <2>1, ElementFacts DEF TypeOK
    <2> QED  BY <2>1, <2>2, <2>3 DEF Issuance, IssueJobs
  <1>2. Goto(p, next) /\ UNCHANGED vars /\ ~InstanceKilled(i)
    BY DEF BeginMint, RequireLiveInstance, Live
  <1> HIDE DEF next
  <1>3. IssueRefs(next)
    BY <1>1, ActingType DEF IssueRefs
  <1>4. IssueAlone(next)
    BY <1>1, <1>2 DEF IssueAlone
  <1> QED  BY <1>1, <1>2, <1>3, <1>4, IssueRefsSuffice, AloneSuffices DEF Begun

LEMMA BeginAttenuateJob ==
    ASSUME TypeOK, NEW p \in Processes,
           NEW c \in DOMAIN capabilities, NEW grant \in Grants0, BeginAttenuate(p, c, grant)
    PROVE  Begun(p)
  <1> PICK i \in DOMAIN instances : i = capabilities[c].inst
    BY CapabilityFacts
  <1> DEFINE next == Issuance("attenuate", "record", i, instances[i].type, 0, c, grant)
  <1>1. /\ next \in IssueJobs /\ next.op = "attenuate" /\ next.step = "record"
        /\ next.inst = i /\ next.type = instances[i].type /\ next.parentInst = 0
        /\ next.parent = c
    <2>1. i \in Nat /\ 0 \in Nat /\ c \in Nat /\ instances[i].type \in DOMAIN agentTypes
      BY ActingType, CapabilityFacts
    <2>2. "attenuate" \in IssuanceOperations
      BY DEF IssuanceOperations
    <2>3. instances[i].type \in Nat
      BY <2>1, ElementFacts DEF TypeOK
    <2> QED  BY <2>1, <2>2, <2>3 DEF Issuance, IssueJobs
  <1>2. /\ Goto(p, next) /\ UNCHANGED vars /\ PresentInLog(c)
        /\ ~CapabilityKilled(c) /\ ~InstanceKilled(i)
    BY DEF BeginAttenuate, MayDelegate, RequireLiveInstance, Live
  <1> HIDE DEF next
  <1>3. IssueRefs(next)
    BY <1>1, <1>2, ActingType, CapabilityFacts DEF IssueRefs
  <1>4. IssueAlone(next)
    BY <1>1, <1>2 DEF IssueAlone
  <1> QED  BY <1>1, <1>2, <1>3, <1>4, IssueRefsSuffice, AloneSuffices DEF Begun

LEMMA BeginSpawnJob ==
    ASSUME TypeOK, NEW p \in Processes,
           NEW i \in DOMAIN instances, NEW c \in DOMAIN capabilities,
           NEW grant \in Grants0, NEW nonce \in Nonces, BeginSpawn(p, i, c, grant, nonce)
    PROVE  Begun(p)
  <1> DEFINE begun == Issuance("spawn", "spend", 0, instances[i].type, i, c, grant)
             next == [begun EXCEPT !.nonce = nonce]
  <1>1. /\ begun \in IssueJobs /\ begun.op = "spawn" /\ begun.step = "spend"
        /\ begun.type = instances[i].type /\ begun.parentInst = i
        /\ begun.parent = c
    <2>1. i \in Nat /\ 0 \in Nat /\ c \in Nat /\ instances[i].type \in DOMAIN agentTypes
      BY ActingType, CapabilityFacts
    <2>2. "spawn" \in IssuanceOperations
      BY DEF IssuanceOperations
    <2>3. instances[i].type \in Nat
      BY <2>1, ElementFacts DEF TypeOK
    <2> QED  BY <2>1, <2>2, <2>3 DEF Issuance, IssueJobs
  <1>2. /\ Goto(p, next) /\ UNCHANGED vars
        /\ ~InstanceKilled(i) /\ UnusedChallenge(i, nonce)
    BY DEF BeginSpawn, RequireLiveInstance, Live
  <1>3. nonce \in Nat
    BY ElementFacts DEF Nonces, TypeOK
  <1> HIDE DEF begun
  <1>4. /\ next \in IssueJobs /\ next.op = "spawn" /\ next.step = "spend"
        /\ next.type = instances[i].type /\ next.parentInst = i /\ next.parent = c
        /\ next.nonce = nonce
    BY <1>1, <1>3 DEF IssueJobs
  <1> HIDE DEF next
  <1>5. IssueRefs(next)
    BY <1>4, ActingType, CapabilityFacts DEF IssueRefs
  <1>6. IssueAlone(next)
    BY <1>2, <1>4 DEF IssueAlone
  <1> QED  BY <1>2, <1>4, <1>5, <1>6, IssueRefsSuffice, AloneSuffices DEF Begun

LEMMA BeginCheckJob ==
    ASSUME TypeOK, NEW p \in Processes,
           NEW i \in DOMAIN instances, NEW c \in DOMAIN capabilities,
           NEW grant \in Grants0, NEW nonce \in Nonces, BeginCheck(p, i, c, grant, nonce)
    PROVE  Begun(p)
  <1>1. /\ nonce \in Nat /\ i \in Nat /\ c \in Nat
        /\ Len(log) \in Nat /\ DOMAIN log = 1..Len(log)
    BY ElementFacts DEF Nonces, TypeOK
  <1>2. PICK live \in BOOLEAN : live = Live(i)
    <2>1. Live(i) \in BOOLEAN
      BY DEF Live
    <2> QED  BY <2>1
  <1> DEFINE next == [step |-> "spend", op |-> "check", inst |-> i, live |-> live,
                      loaded |-> Len(log), cap |-> c, grant |-> grant, nonce |-> nonce]
  <1>3. Goto(p, next) /\ UNCHANGED vars /\ UnusedChallenge(i, nonce)
    BY <1>2 DEF BeginCheck
  <1>6. /\ next \in CheckJobs /\ next.inst = i /\ next.cap = c /\ next.loaded = Len(log)
        /\ next.live = live /\ next.step = "spend" /\ next.nonce = nonce
    BY <1>1 DEF CheckJobs
  <1> HIDE DEF next
  <1>7. live => \A q \in DOMAIN log : ~HitsInstance(log[q], i)
    BY <1>2 DEF Live, InstanceKilled
  <1>8. LoadedInOrder(next)
    BY <1>1, <1>6, <1>7 DEF LoadedInOrder
  <1>4. CheckRefs(next)
    BY <1>6, <1>8, CapabilityFacts DEF CheckRefs
  <1>5. CheckAlone(next)
    BY <1>3, <1>6 DEF CheckAlone
  <1> QED  BY <1>3, <1>4, <1>5, <1>6, CheckRefsSuffice, AloneSuffices DEF Begun

LEMMA KillListFacts ==
    ASSUME TypeOK, NEW i \in DOMAIN instances
    PROVE  LET killed == Tree(InstanceParent, {i})
               held == UNION {CapabilitiesOf(k) : k \in killed}
               derived == Tree(CapabilityParent, held)
           IN  /\ killed \subseteq DOMAIN instances /\ i \in killed
               /\ held \subseteq DOMAIN chains /\ held \subseteq derived
               /\ derived \subseteq DOMAIN chains
  <1> DEFINE killed == Tree(InstanceParent, {i})
             held == UNION {CapabilitiesOf(k) : k \in killed}
             derived == Tree(CapabilityParent, held)
  <1>1. DOMAIN InstanceParent = DOMAIN instances /\ DOMAIN CapabilityParent = DOMAIN chains
    BY DEF InstanceParent, CapabilityParent
  <1>2. killed \subseteq DOMAIN instances /\ i \in killed
    BY <1>1, TreeFacts
  <1>3. held \subseteq DOMAIN chains
    BY CapabilityFacts DEF CapabilitiesOf
  <1> HIDE DEF killed, held
  <1>4. held \subseteq derived /\ derived \subseteq DOMAIN chains
    BY <1>1, <1>3, TreeFacts
  <1> QED  BY <1>2, <1>3, <1>4 DEF killed, held

LEMMA BeginKillInstanceJob ==
    ASSUME TypeOK, NEW p \in Processes,
           NEW i \in DOMAIN instances, BeginKillInstance(p, i)
    PROVE  Begun(p)
  <1> DEFINE killed == Tree(InstanceParent, {i})
             derived == Tree(CapabilityParent, UNION {CapabilitiesOf(k) : k \in killed})
             next == [step |-> "kill instance", named |-> i, killed |-> killed,
                      derived |-> derived, instances |-> killed,
                      capabilities |-> derived, listed |-> {}, current |-> i]
  <1>1. Goto(p, next) /\ UNCHANGED vars
    BY DEF BeginKillInstance
  <1>2. /\ killed \subseteq DOMAIN instances /\ derived \subseteq DOMAIN chains
        /\ i \in killed
    BY KillListFacts
  <1>6. /\ killed = Tree(InstanceParent, {i})
        /\ derived = Tree(CapabilityParent, UNION {CapabilitiesOf(k) : k \in killed})
    OBVIOUS
  <1> HIDE DEF killed, derived
  <1>3. DOMAIN instances \subseteq Nat /\ DOMAIN chains \subseteq Nat
    BY DEF TypeOK
  <1>4. /\ next \in KillJobs /\ next.step = "kill instance" /\ next.named = i
        /\ next.current = i /\ next.killed = killed /\ next.instances = killed
        /\ next.derived = derived /\ next.capabilities = derived /\ next.listed = {}
    BY <1>2, <1>3 DEF KillJobs
  <1> HIDE DEF next
  <1>5. KillRefs(next)
    BY <1>2, <1>4 DEF KillRefs
  <1>7. KillBegun(next)
    BY <1>2, <1>4, <1>6 DEF KillBegun, InstanceTree, Derived, Held
  <1>8. KillAlone(next)
    BY <1>7 DEF KillAlone
  <1> QED  BY <1>1, <1>4, <1>5, <1>8, KillRefsSuffice, AloneSuffices DEF Begun

LEMMA BeginKillCapabilityJob ==
    ASSUME TypeOK, NEW p \in Processes,
           NEW c \in DOMAIN capabilities, BeginKillCapability(p, c)
    PROVE  Begun(p)
  <1> DEFINE listed == Tree(CapabilityParent, {c})
             next == [step |-> "kill capability", named |-> c, killed |-> {},
                      derived |-> {}, instances |-> {}, capabilities |-> {c},
                      listed |-> listed, current |-> c]
  <1>1. Goto(p, next) /\ UNCHANGED vars
    BY DEF BeginKillCapability
  <1>2. c \in DOMAIN chains /\ c \in Nat
    BY CapabilityFacts
  <1>3. listed \subseteq DOMAIN chains
    BY <1>2, TreeFacts DEF CapabilityParent
  <1>7. listed = Tree(CapabilityParent, {c})
    OBVIOUS
  <1> HIDE DEF listed
  <1>4. DOMAIN chains \subseteq Nat
    BY DEF TypeOK
  <1>5. /\ next \in KillJobs /\ next.step = "kill capability" /\ next.killed = {}
        /\ next.instances = {} /\ next.derived = {} /\ next.capabilities = {c}
        /\ next.listed = listed /\ next.named = c
    BY <1>2, <1>3, <1>4 DEF KillJobs
  <1> HIDE DEF next
  <1>6. KillRefs(next)
    BY <1>2, <1>3, <1>5 DEF KillRefs
  <1>8. CapabilityKillBegun(next)
    BY <1>5, <1>7 DEF CapabilityKillBegun, CapabilityTree
  <1>9. KillAlone(next)
    BY <1>8 DEF KillAlone
  <1> QED  BY <1>1, <1>5, <1>6, <1>9, KillRefsSuffice, AloneSuffices DEF Begun

------------------------------------------------------------------------------
(* What a step of a job does, while nothing overlaps.                        *)

\* A step leaves what is so of the log, and begins or ends what it may.
AloneStep(p) == LogInv' /\ \E next \in Jobs : Goto(p, next) /\ JobAlone(next)'

LEMMA HeldKept ==
    ASSUME UNCHANGED capabilities
    PROVE  \A S : Held(S)' = Held(S)
  BY DEF Held, CapabilitiesOf

LEMMA TreesKept ==
    ASSUME InstanceParent' = InstanceParent, CapabilityParent' = CapabilityParent,
           UNCHANGED capabilities
    PROVE  \A x : /\ InstanceTree(x)' = InstanceTree(x)
                  /\ CapabilityTree(x)' = CapabilityTree(x)
                  /\ Derived(x)' = Derived(x)
  <1>1. \A x : InstanceTree(x)' = InstanceTree(x)
    BY DEF InstanceTree, Tree
  <1>2. \A x : CapabilityTree(x)' = CapabilityTree(x)
    BY DEF CapabilityTree, Tree
  <1>3. \A x : Derived(x)' = Derived(x)
    BY HeldKept DEF Derived, Tree
  <1> QED  BY <1>1, <1>2, <1>3

LEMMA AloneStill ==
    ASSUME UNCHANGED vars, NEW j, JobAlone(j)
    PROVE  JobAlone(j)'
  <1>1. \A x : /\ CapabilityKilled(x)' <=> CapabilityKilled(x)
               /\ InstanceKilled(x)' <=> InstanceKilled(x)
    BY DEF vars, CapabilityKilled, InstanceKilled, HitsCapability, HitsInstance
  <1>2. \A i, n : /\ UnusedChallenge(i, n)' <=> UnusedChallenge(i, n)
                  /\ LastSpent(i)' <=> LastSpent(i)
    BY DEF vars, UnusedChallenge, LastSpent, Spends
  <1>3. IssueAlone(j) => IssueAlone(j)'
    BY <1>1, <1>2 DEF vars, IssueAlone
  <1>4. CheckAlone(j) => CheckAlone(j)'
    BY <1>2 DEF CheckAlone
  <1>5. InstanceParent' = InstanceParent /\ CapabilityParent' = CapabilityParent
    BY DEF vars, InstanceParent, CapabilityParent
  <1>6. \A x : /\ InstanceTree(x)' = InstanceTree(x) /\ CapabilityTree(x)' = CapabilityTree(x)
               /\ Derived(x)' = Derived(x)
    BY <1>5, TreesKept DEF vars
  <1>7. KillBegun(j) => KillBegun(j)'
    BY <1>6 DEF KillBegun
  <1>8. KillListed(j) => KillListed(j)'
    BY <1>1 DEF KillListed
  <1>9. CapabilityKillBegun(j) => CapabilityKillBegun(j)'
    BY <1>6 DEF CapabilityKillBegun
  <1> QED  BY <1>3, <1>4, <1>7, <1>8, <1>9 DEF JobAlone, KillAlone

LEMMA KilledStays ==
    ASSUME StoreGrows, NEW x
    PROVE  /\ CapabilityKilled(x) => CapabilityKilled(x)'
           /\ InstanceKilled(x) => InstanceKilled(x)'
  BY DEF StoreGrows, CapabilityKilled, InstanceKilled, HitsCapability, HitsInstance

LEMMA LogInvStep ==
    ASSUME TypeOK, TypeOK', LogInv, StoreGrows, UNCHANGED now, DeathInv', LogGrowsProven,
           \A p \in DOMAIN log' \ DOMAIN log :
              /\ log'[p].time <= now
              /\ log'[p].op = "spawn" => log'[p].inst \in DOMAIN instances'
    PROVE  LogInv'
  <1>1. ProofInv'
    BY ProofStep DEF LogInv, StoreGrows
  <1>2. DOMAIN instances \subseteq DOMAIN instances'
    BY DEF StoreGrows, RecordsGrow
  <1>3. ASSUME NEW p \in DOMAIN log'
        PROVE  /\ log'[p].time <= now'
               /\ log'[p].op = "spawn" => log'[p].inst \in DOMAIN instances'
    <2>1. CASE p \in DOMAIN log
      BY <1>2, <2>1 DEF LogInv, LogNames, StoreGrows
    <2>2. CASE p \notin DOMAIN log
      BY <1>3, <2>2
    <2> QED  BY <2>1, <2>2
  <1>4. LogNames'
    BY <1>3 DEF LogNames
  <1> QED  BY <1>1, <1>4 DEF LogInv

LEMMA SilentLogInv ==
    ASSUME TypeOK, LogInv, StoreStep, UNCHANGED <<now, log>>, DeathInv'
    PROVE  LogInv'
  <1>1. LogGrowsProven
    BY DEF LogGrowsProven
  <1> QED  BY <1>1, LogInvStep DEF StoreStep

LEMMA LineLogInv ==
    ASSUME TypeOK, LogInv, StoreStep, NEW line, log' = Append(log, line), line.time = now,
           line.op = "spawn" => line.inst \in DOMAIN instances',
           UNCHANGED now, DeathInv', LogGrowsProven
    PROVE  LogInv'
  <1>1. /\ DOMAIN log = 1..Len(log) /\ DOMAIN log' = 1..(Len(log) + 1)
        /\ Len(log) \in Nat /\ log'[Len(log) + 1] = line
    BY AppendIndex DEF TypeOK
  <1>2. \A p \in DOMAIN log' \ DOMAIN log : log'[p] = line
    BY <1>1
  <1>3. line.time <= now
    BY DEF TypeOK
  <1> QED  BY <1>2, <1>3, LogInvStep DEF StoreStep

\* An act or a birth behind the proof that was the last line.
LEMMA ActBehindProof ==
    ASSUME TypeOK, NEW i, LastSpent(i), NEW line, log' = Append(log, line), ~Spends(line),
           line.op # "spawn" => i = line.inst,
           line.op = "spawn" => i = instances'[line.inst].parent
    PROVE  LogGrowsProven
  <1>1. /\ DOMAIN log = 1..Len(log) /\ DOMAIN log' = 1..(Len(log) + 1)
        /\ Len(log) \in Nat /\ log'[Len(log) + 1] = line
        /\ \A k \in DOMAIN log : log'[k] = log[k]
    BY AppendIndex DEF TypeOK
  <1>2. Len(log) \in DOMAIN log
    BY <1>1 DEF LastSpent
  <1>3. ASSUME NEW p \in DOMAIN log' \ DOMAIN log
        PROVE  p > 1 /\ log'[p] = line /\ log'[p - 1] = log[Len(log)]
    <2>1. p = Len(log) + 1 /\ p - 1 = Len(log)
      BY <1>1
    <2> QED  BY <1>1, <1>2, <2>1
  <1> QED  BY <1>3 DEF LogGrowsProven, LastSpent, Spends

LEMMA QuietLineDeath ==
    ASSUME TypeOK, DeathInv, NEW line, Quiet(line), log' = Append(log, line),
           UNCHANGED records
    PROVE  DeathInv' /\ LogGrowsQuietly
  BY OneQuietLine, QuietStep DEF records

LEMMA SpendAlone ==
    ASSUME TypeOK, LogInv, StoreStep, NEW i \in DOMAIN instances, NEW nonce,
           UnusedChallenge(i, nonce), log' = LogWithSpent(i, nonce),
           UNCHANGED <<now, killDate, records>>
    PROVE  LogInv' /\ LastSpent(i)' /\ LogGrowsQuietly
  <1> PICK spent \in LogLine :
              /\ LogWithSpent(i, nonce) = Append(log, spent)
              /\ Spends(spent) /\ ~Acts(spent) /\ spent.inst = i
              /\ spent.nonce = nonce /\ spent.time = now /\ Quiet(spent)
    <2> DEFINE spent == [Line("challenge_spent", i, 0) EXCEPT !.nonce = nonce]
    <2>1. spent \in LogLine
      BY SpentOK DEF UnusedChallenge
    <2>2. /\ LogWithSpent(i, nonce) = Append(log, spent)
          /\ Spends(spent) /\ ~Acts(spent) /\ spent.inst = i
          /\ spent.nonce = nonce /\ spent.time = now
      BY DEF LogWithSpent, Line, Spends, Acts
    <2>3. Quiet(spent)
      BY DEF Line, Quiet, KillOperations
    <2> QED  BY <2>1, <2>2, <2>3
  <1>1. DeathInv' /\ LogGrowsQuietly
    BY QuietLineDeath DEF LogInv
  <1>2. LogGrowsProven
    BY ProofAlone
  <1>3. LogInv'
    <2>1. spent.op # "spawn"
      BY DEF Spends
    <2> QED  BY <1>1, <1>2, <2>1, LineLogInv
  <1>4. LastSpent(i)'
    <2>1. log' \in Seq(LogLine) /\ Len(log') = Len(log) + 1 /\ log'[Len(log) + 1] = spent
      BY AppendFacts DEF TypeOK
    <2>2. Len(log) \in Nat
      BY DEF TypeOK
    <2> QED  BY <2>1, <2>2 DEF LastSpent, Spends
  <1> QED  BY <1>1, <1>3, <1>4

LEMMA BornDeath ==
    ASSUME TypeOK, DeathInv, NEW instance, instances' = Append(instances, instance),
           instance.parent # 0 => ~InstanceKilled(instance.parent),
           UNCHANGED <<capabilities, chains, log>>
    PROVE  DeathInv'
  <1>1. /\ DOMAIN instances \subseteq DOMAIN instances'
        /\ \A i \in DOMAIN instances : instances'[i] = instances[i]
        /\ \A i \in DOMAIN instances' \ DOMAIN instances : instances'[i] = instance
    BY BornInstance
  <1>2. KillsNameRecords'
    BY <1>1 DEF DeathInv, KillsNameRecords
  <1>3. \A x : /\ InstanceKilled(x)' <=> InstanceKilled(x)
               /\ CapabilityKilled(x)' <=> CapabilityKilled(x)
    BY DEF InstanceKilled, CapabilityKilled, HitsInstance, HitsCapability
  <1>4. \A j : \A i \in DOMAIN instances' :
           j = instances'[i].parent /\ j # 0 /\ InstanceKilled(j) =>
           InstanceKilled(i)
    BY <1>1 DEF DeathInv, DeathReachesDescendants
  <1>5. \A i : \A c \in DOMAIN capabilities : i = capabilities[c].inst /\ InstanceKilled(i) =>
           CapabilityKilled(c)
    BY DEF DeathInv, DeathReachesDescendants
  <1>6. \A d : \A c \in DOMAIN chains : d = chains[c].parent /\ d # 0 /\ CapabilityKilled(d) =>
           CapabilityKilled(c)
    BY DEF DeathInv, DeathReachesDescendants
  <1>7. DeathReachesDescendants'
    BY <1>3, <1>4, <1>5, <1>6 DEF DeathReachesDescendants
  <1> QED  BY <1>2, <1>7 DEF DeathInv

\* A flag on disk says nothing about what the lines reach.
LEMMA FlagDeath ==
    ASSUME DeathInv, UNCHANGED <<capabilities, log>>,
           DOMAIN instances' = DOMAIN instances,
           \A i \in DOMAIN instances : instances'[i].parent = instances[i].parent,
           DOMAIN chains' = DOMAIN chains,
           \A c \in DOMAIN chains : chains'[c].parent = chains[c].parent
    PROVE  DeathInv' /\ InstanceParent' = InstanceParent /\ CapabilityParent' = CapabilityParent
  <1>1. KillsNameRecords'
    BY DEF DeathInv, KillsNameRecords
  <1>2. \A x : /\ InstanceKilled(x)' <=> InstanceKilled(x)
               /\ CapabilityKilled(x)' <=> CapabilityKilled(x)
    BY DEF InstanceKilled, CapabilityKilled, HitsInstance, HitsCapability
  <1>3. DeathReachesDescendants'
    BY <1>2 DEF DeathInv, DeathReachesDescendants
  <1>4. InstanceParent' = InstanceParent /\ CapabilityParent' = CapabilityParent
    BY DEF InstanceParent, CapabilityParent
  <1> QED  BY <1>1, <1>3, <1>4 DEF DeathInv

\* A line that hits nothing new.
LEMMA AgainStep ==
    ASSUME TypeOK, DeathInv, NEW line, log' = Append(log, line), UNCHANGED records,
           line.op = "kill_instance" => line.inst \in DOMAIN instances,
           line.op \in KillOperations => line.cap \in DOMAIN capabilities \union {0},
           line.killedInstances = {}, line.killedCapabilities = {},
           line.op = "kill_instance" => InstanceKilled(line.inst),
           line.op \in KillOperations /\ line.cap # 0 => CapabilityKilled(line.cap)
    PROVE  DeathInv'
  <1>1. /\ DOMAIN log = 1..Len(log) /\ Len(log) \in Nat
        /\ DOMAIN log' = 1..(Len(log) + 1) /\ log'[Len(log) + 1] = line
        /\ \A k \in DOMAIN log : log'[k] = log[k]
    BY AppendIndex DEF TypeOK
  <1>2. \A p \in DOMAIN log' : (p \in DOMAIN log /\ log'[p] = log[p]) \/ log'[p] = line
    BY <1>1
  <1>3. DOMAIN log \subseteq DOMAIN log'
    BY <1>1
  <1>4. \A x : InstanceKilled(x)' <=> InstanceKilled(x)
    BY <1>1, <1>2, <1>3 DEF InstanceKilled, HitsInstance
  <1>5. \A x : x # 0 => (CapabilityKilled(x)' <=> CapabilityKilled(x))
    BY <1>1, <1>2, <1>3 DEF CapabilityKilled, HitsCapability
  <1>6. KillsNameRecords'
    BY <1>2 DEF DeathInv, KillsNameRecords, records
  <1>7. /\ UNCHANGED <<instances, capabilities, chains>>
        /\ 0 \notin DOMAIN chains /\ 0 \notin DOMAIN capabilities
    BY DEF records, TypeOK
  <1>8. DeathReachesDescendants'
    BY <1>4, <1>5, <1>7 DEF DeathInv, DeathReachesDescendants
  <1> QED  BY <1>6, <1>8 DEF DeathInv

LEMMA AloneThen ==
    /\ \A j \in IssueJobs : IssueAlone(j)' => JobAlone(j)'
    /\ \A j \in CheckJobs : CheckAlone(j)' => JobAlone(j)'
    /\ \A j \in KillJobs : KillAlone(j)' => JobAlone(j)'
    /\ JobAlone(Idle)'
  BY JobKinds DEF JobAlone

LEMMA AloneIs ==
    /\ \A j \in IssueJobs : JobAlone(j) => IssueAlone(j)
    /\ \A j \in CheckJobs : JobAlone(j) => CheckAlone(j)
    /\ \A j \in KillJobs : JobAlone(j) => KillAlone(j)
  BY DEF JobAlone

LEMMA AloneRead ==
    ASSUME TypeOK, LoggedParents, LogInv, UNCHANGED vars, NEW p, NEW next \in Jobs,
           Goto(p, next), JobAlone(next)
    PROVE  AloneStep(p)
  <1>1. DeathInv'
    BY OtherDeath DEF LogInv
  <1>2. UNCHANGED <<now, log>>
    BY DEF vars
  <1>3. LogInv'
    BY <1>1, <1>2, StillStep, SilentLogInv
  <1> QED  BY <1>3, AloneStill DEF AloneStep

\* What the first line of a cascade names is closed under descent.
CascadeReaches(j) ==
    /\ j.named \in j.killed /\ j.killed \subseteq DOMAIN instances
    /\ j.derived \subseteq DOMAIN capabilities
    /\ \A i \in DOMAIN instances : instances[i].parent \in j.killed => i \in j.killed
    /\ \A c \in DOMAIN chains : chains[c].parent \in j.derived => c \in j.derived
    /\ \A c \in DOMAIN capabilities : capabilities[c].inst \in j.killed => c \in j.derived

LEMMA CascadeFacts ==
    ASSUME TypeOK, NEW j, j.named \in DOMAIN instances,
           j.killed = InstanceTree(j.named), j.derived = Derived(j.killed)
    PROVE  CascadeReaches(j)
  <1>1. /\ DOMAIN InstanceParent = DOMAIN instances
        /\ DOMAIN CapabilityParent = DOMAIN chains /\ DOMAIN chains = DOMAIN capabilities
    BY SameDomain DEF InstanceParent, CapabilityParent
  <1>2. /\ j.named \in j.killed /\ j.killed \subseteq DOMAIN instances
        /\ \A i \in DOMAIN instances : instances[i].parent \in j.killed => i \in j.killed
    <2>1. {j.named} \subseteq DOMAIN InstanceParent
      BY <1>1
    <2> QED  BY <1>1, <2>1, TreeFacts DEF InstanceTree, InstanceParent
  <1> PICK held : held = Held(j.killed)
    OBVIOUS
  <1>3. /\ held \subseteq DOMAIN capabilities
        /\ \A c \in DOMAIN capabilities : capabilities[c].inst \in j.killed => c \in held
    BY DEF Held, CapabilitiesOf
  <1>4. /\ held \subseteq j.derived /\ j.derived \subseteq DOMAIN capabilities
        /\ \A c \in DOMAIN chains : chains[c].parent \in j.derived => c \in j.derived
    <2>1. held \subseteq DOMAIN CapabilityParent
      BY <1>1, <1>3
    <2> QED  BY <1>1, <2>1, TreeFacts DEF Derived, CapabilityParent
  <1> QED  BY <1>2, <1>3, <1>4 DEF CascadeReaches

LEMMA CapabilityTreeFacts ==
    ASSUME TypeOK, NEW c \in DOMAIN chains
    PROVE  /\ c \in CapabilityTree(c) /\ CapabilityTree(c) \subseteq DOMAIN capabilities
           /\ \A d \in DOMAIN chains :
                 chains[d].parent \in CapabilityTree(c) => d \in CapabilityTree(c)
  <1>1. DOMAIN CapabilityParent = DOMAIN chains /\ DOMAIN chains = DOMAIN capabilities
    BY SameDomain DEF CapabilityParent
  <1>2. {c} \subseteq DOMAIN CapabilityParent
    BY <1>1
  <1> QED  BY <1>1, <1>2, TreeFacts DEF CapabilityTree, CapabilityParent

LineIsLogged(line) == \E p \in DOMAIN log' : log'[p] = line

LEMMA LastLine ==
    ASSUME TypeOK, NEW line, log' = Append(log, line)
    PROVE  LineIsLogged(line)
  <1>1. /\ DOMAIN log' = 1..(Len(log) + 1) /\ Len(log) \in Nat
        /\ log'[Len(log) + 1] = line
    BY AppendIndex DEF TypeOK
  <1> QED  BY <1>1 DEF LineIsLogged

------------------------------------------------------------------------------
(* The steps of a job.                                                       *)

\* A job that goes on keeps what it names.
LEMMA IssueGoesOn ==
    ASSUME NEW j \in IssueJobs, NEW step \in {"spend", "examine", "birth", "record", "line"}
    PROVE  LET next == [j EXCEPT !.step = step]
           IN  /\ next \in IssueJobs /\ next.step = step /\ next.op = j.op
               /\ next.type = j.type /\ next.parentInst = j.parentInst
               /\ next.parent = j.parent /\ next.inst = j.inst /\ next.cap = j.cap
  BY DEF IssueJobs

LEMMA CheckGoesOn ==
    ASSUME NEW j \in CheckJobs, NEW step \in {"spend", "examine", "record decision"}
    PROVE  LET next == [j EXCEPT !.step = step]
           IN  /\ next \in CheckJobs /\ next.inst = j.inst /\ next.cap = j.cap
               /\ next.live = j.live /\ next.loaded = j.loaded /\ next.step = step
  BY DEF CheckJobs

LEMMA SpendStep ==
    ASSUME TypeOK, JobsOK, LoggedParents, NEW p \in Processes, Spend(p)
    PROVE  StoreStep /\ JobsOK' /\ (LogInv /\ JobAlone(job[p]) => AloneStep(p))
  <1> PICK j \in Jobs : j = job[p] /\ Refs(j)
    BY DEF JobsOK
  <1> PICK i : /\ i = IF j.op = "spawn" THEN j.parentInst ELSE j.inst
               /\ log' = Append(log, [Line("challenge_spent", i, 0) EXCEPT !.nonce = j.nonce])
    BY DEF Spend, Append1
  <1>1. j.step = "spend" /\ UNCHANGED <<now, killDate, records>>
    BY DEF Spend, At
  <1>2. CASE j \in IssueJobs
    <2> DEFINE next == [j EXCEPT !.step = "examine"]
    <2>1. IssueRefs(j)
      BY <1>2, IssueRefsSuffice
    <2>2. i \in Nat /\ j.nonce \in Nat
      BY <1>2, IssueFields
    <2>3. StoreStep
      <3>1. 0 \in Nat /\ "challenge_spent" \in Operations
        BY DEF Operations
      <3>2. Line("challenge_spent", i, 0) \in LogLine
        BY <2>2, <3>1, LineType
      <3>3. [Line("challenge_spent", i, 0) EXCEPT !.nonce = j.nonce] \in LogLine
        BY <2>2, <3>2 DEF LogLine
      <3> QED  BY <1>1, <3>3, LineStep
    <2>4. /\ next \in IssueJobs /\ next.step = "examine" /\ next.op = j.op
          /\ next.type = j.type /\ next.parentInst = j.parentInst
          /\ next.parent = j.parent /\ next.inst = j.inst /\ next.cap = j.cap
      BY <1>2, IssueGoesOn
    <2>5. Goto(p, next)
      BY DEF Spend, Proceed
    <2> HIDE DEF next
    <2>6. IssueRefs(next)
      BY <1>1, <2>1, <2>4 DEF IssueRefs
    <2>7. ASSUME LogInv, JobAlone(j) PROVE AloneStep(p)
      <3>1. j.op = "spawn" /\ j.parentInst \in DOMAIN instances
        BY <1>1, <2>1 DEF IssueRefs
      <3>2. i = j.parentInst /\ log' = LogWithSpent(i, j.nonce)
        BY <3>1 DEF LogWithSpent
      <3>3. IssueAlone(j)
        BY <1>2, <2>7, AloneIs
      <3>4. UnusedChallenge(i, j.nonce) /\ ~InstanceKilled(i)
        BY <1>1, <3>1, <3>2, <3>3, ActingType DEF IssueAlone
      <3>5. LogInv' /\ LastSpent(i)' /\ LogGrowsQuietly
        BY <1>1, <2>3, <2>7, <3>1, <3>2, <3>4, SpendAlone
      <3>6. ~InstanceKilled(i)'
        BY <3>4, <3>5, QuietKills
      <3>7. IssueAlone(next)'
        BY <2>4, <3>2, <3>5, <3>6 DEF IssueAlone
      <3> QED  BY <2>4, <2>5, <3>5, <3>7, AloneThen, IssueRefsSuffice DEF AloneStep
    <2> QED  BY <2>3, <2>4, <2>5, <2>6, <2>7, IssueRefsSuffice, WriteStep
  <1>3. CASE j \in CheckJobs
    <2> DEFINE next == [j EXCEPT !.step = "examine"]
    <2>1. CheckRefs(j)
      BY <1>3, CheckRefsSuffice
    <2>2. i \in Nat /\ j.nonce \in Nat
      BY <1>3, CheckFields
    <2>3. StoreStep
      <3>1. 0 \in Nat /\ "challenge_spent" \in Operations
        BY DEF Operations
      <3>2. Line("challenge_spent", i, 0) \in LogLine
        BY <2>2, <3>1, LineType
      <3>3. [Line("challenge_spent", i, 0) EXCEPT !.nonce = j.nonce] \in LogLine
        BY <2>2, <3>2 DEF LogLine
      <3> QED  BY <1>1, <3>3, LineStep
    <2>4. /\ next \in CheckJobs /\ next.inst = j.inst /\ next.cap = j.cap
          /\ next.live = j.live /\ next.loaded = j.loaded /\ next.step = "examine"
      BY <1>3, CheckGoesOn
    <2>5. Goto(p, next)
      BY DEF Spend, Proceed
    <2> HIDE DEF next
    <2>6. CheckRefs(next)
      BY <2>1, <2>4 DEF CheckRefs, LoadedInOrder
    <2>7. ASSUME LogInv, JobAlone(j) PROVE AloneStep(p)
      <3>1. j.op = "check" /\ j.inst \in DOMAIN instances
        BY <1>3, <2>1, CheckFields DEF CheckRefs
      <3>2. i = j.inst /\ log' = LogWithSpent(i, j.nonce)
        BY <3>1 DEF LogWithSpent
      <3>3. CheckAlone(j)
        BY <1>3, <2>7, AloneIs
      <3>4. UnusedChallenge(i, j.nonce)
        BY <1>1, <3>2, <3>3 DEF CheckAlone
      <3>5. LogInv' /\ LastSpent(i)'
        BY <1>1, <2>3, <2>7, <3>1, <3>2, <3>4, SpendAlone
      <3>6. CheckAlone(next)'
        BY <2>4, <3>2, <3>5 DEF CheckAlone
      <3> QED  BY <2>4, <2>5, <3>5, <3>6, AloneThen, CheckRefsSuffice DEF AloneStep
    <2> QED  BY <2>3, <2>4, <2>5, <2>6, <2>7, CheckRefsSuffice, WriteStep
  <1> QED  BY <1>1, <1>2, <1>3, JobAt

LEMMA ExamineSpawnStep ==
    ASSUME TypeOK, JobsOK, LoggedParents, NEW p \in Processes, ExamineSpawn(p)
    PROVE  StoreStep /\ JobsOK' /\ (LogInv /\ JobAlone(job[p]) => AloneStep(p))
  <1> PICK j \in Jobs : j = job[p] /\ Refs(j)
    BY DEF JobsOK
  <1>1. j.step = "examine" /\ j.op = "spawn" /\ UNCHANGED vars
    BY DEF ExamineSpawn, At
  <1>2. j \in IssueJobs
    BY <1>1, JobAt
  <1>3. IssueRefs(j)
    BY <1>2, IssueRefsSuffice
  <1>4. CASE Goto(p, Idle)
    BY <1>1, <1>4, IdleRefs, ReadStep, AloneSuffices, AloneRead
  <1>5. CASE ~Goto(p, Idle)
    <2> DEFINE next == [j EXCEPT !.step = "birth"]
    <2>1. Goto(p, next) /\ PresentInLog(j.parent) /\ ~CapabilityKilled(j.parent)
      BY <1>5 DEF ExamineSpawn, Proceed, SpawnAllowed, MayDelegate
    <2>2. /\ next \in IssueJobs /\ next.step = "birth" /\ next.op = j.op
          /\ next.type = j.type /\ next.parentInst = j.parentInst
          /\ next.parent = j.parent
      BY <1>2, IssueGoesOn
    <2> HIDE DEF next
    <2>3. IssueRefs(next)
      BY <1>1, <1>3, <2>1, <2>2 DEF IssueRefs
    <2>4. LogInv /\ JobAlone(j) => IssueAlone(next)
      BY <1>1, <1>2, <2>1, <2>2, AloneIs DEF IssueAlone
    <2>5. LogInv /\ JobAlone(j) => AloneStep(p)
      BY <1>1, <2>1, <2>2, <2>4, AloneSuffices, AloneRead, IssueRefsSuffice
    <2> QED  BY <1>1, <2>1, <2>2, <2>3, <2>5, IssueRefsSuffice, ReadStep
  <1> QED  BY <1>4, <1>5

LEMMA SaveInstanceStep ==
    ASSUME TypeOK, JobsOK, LoggedParents, NEW p \in Processes, SaveInstance(p)
    PROVE  StoreStep /\ JobsOK' /\ (LogInv /\ JobAlone(job[p]) => AloneStep(p))
  <1> PICK j \in Jobs : j = job[p] /\ Refs(j)
    BY DEF JobsOK
  <1> PICK i : i = Len(instances) + 1
    OBVIOUS
  <1> DEFINE next == [j EXCEPT !.step = "record", !.inst = i]
  <1>1. /\ j.step = "birth" /\ Goto(p, next)
        /\ UNCHANGED <<now, killDate, agentTypes, capabilities, chains, log>>
        /\ instances' = Append(instances, NewInstance(j.type, j.parentInst))
    BY DEF SaveInstance, At
  <1>2. j \in IssueJobs
    BY <1>1, JobAt
  <1>3. IssueRefs(j)
    BY <1>2, IssueRefsSuffice
  <1>4. j.type \in DOMAIN agentTypes /\ j.parentInst \in DOMAIN instances \union {0}
    BY <1>3 DEF IssueRefs
  <1>5. StoreStep /\ i \in DOMAIN instances'
    BY <1>1, <1>4, InstanceStep
  <1>6. /\ next \in IssueJobs /\ next.step = "record" /\ next.op = j.op
        /\ next.type = j.type /\ next.parentInst = j.parentInst
        /\ next.parent = j.parent /\ next.inst = i
    <2>1. i \in Nat
      BY DEF TypeOK
    <2> QED  BY <1>2, <2>1 DEF IssueJobs
  <1> HIDE DEF next
  <1>7. IssueRefs(next)'
    <2>1. /\ DOMAIN agentTypes' = DOMAIN agentTypes /\ DOMAIN chains' = DOMAIN chains
          /\ DOMAIN instances \subseteq DOMAIN instances'
      BY <1>1, <1>5 DEF StoreStep, StoreGrows, RecordsGrow
    <2>2. PresentInLog(j.parent) => PresentInLog(j.parent)'
      BY <1>1 DEF PresentInLog
    <2>3. PresentInLog(next.parent)' <=> PresentInLog(j.parent)'
      BY <1>6
    <2>4. next.parent # 0 => PresentInLog(next.parent)'
      BY <1>1, <1>3, <1>6, <2>2, <2>3 DEF IssueRefs
    <2> QED  BY <1>1, <1>3, <1>5, <1>6, <2>1, <2>4 DEF IssueRefs
  <1>8. ASSUME LogInv, JobAlone(j) PROVE AloneStep(p)
    <2>1. IssueAlone(j)
      BY <1>2, <1>8, AloneIs
    <2>2. NewInstance(j.type, j.parentInst).parent = j.parentInst
      BY DEF NewInstance
    <2> PICK born : born = NewInstance(j.type, j.parentInst)
      OBVIOUS
    <2>3. instances' = Append(instances, born) /\ born.parent = j.parentInst
      BY <1>1, <2>2
    <2>4. j.parentInst # 0 => ~InstanceKilled(j.parentInst)
      BY <1>1, <2>1 DEF IssueAlone
    <2>5. DeathInv'
      BY <1>1, <1>8, <2>3, <2>4, BornDeath DEF LogInv
    <2>6. LogInv'
      BY <1>1, <1>5, <1>8, <2>5, SilentLogInv
    <2>7. /\ ~InstanceKilled(i)' /\ instances'[i].parent = j.parentInst
          /\ CapabilityKilled(j.parent)' <=> CapabilityKilled(j.parent)
          /\ LastSpent(j.parentInst)' <=> LastSpent(j.parentInst)
      <3>1. ~InstanceKilled(i)
        BY <1>8, UnbornNotKilled DEF LogInv, DeathInv
      <3>2. instances'[i] = born
        BY <2>3, AppendIndex DEF TypeOK
      <3>3. /\ InstanceKilled(i)' <=> InstanceKilled(i)
            /\ CapabilityKilled(j.parent)' <=> CapabilityKilled(j.parent)
            /\ LastSpent(j.parentInst)' <=> LastSpent(j.parentInst)
        BY <1>1 DEF InstanceKilled, HitsInstance, CapabilityKilled, HitsCapability,
                    LastSpent, Spends
      <3> QED  BY <2>3, <3>1, <3>2, <3>3
    <2>8. IssueAlone(next)'
      BY <1>1, <1>6, <2>1, <2>7 DEF IssueAlone
    <2> QED  BY <1>1, <1>6, <2>6, <2>8, AloneThen, IssueRefsSuffice DEF AloneStep
  <1> QED  BY <1>1, <1>5, <1>6, <1>7, <1>8, IssueRefsThen, WriteStep

ToSave(j) ==
    LET fresh == NewCapability(j.inst, instances[j.inst], j.grant.intent,
                               j.grant.audience, j.grant.behalf)
    IN  IF j.op = "attenuate"
        THEN [fresh EXCEPT !.expires = capabilities[j.parent].expires,
                           !.token = @ \union capabilities[j.parent].token]
        ELSE fresh

\* The record that is saved is typed, whatever it is derived from.
LEMMA SavedCapability ==
    ASSUME TypeOK, NEW j \in IssueJobs, IssueRefs(j), j.step = "record",
           NEW saved, saved = ToSave(j)
    PROVE  saved \in CapabilityRecord /\ saved.inst = j.inst /\ j.inst \in DOMAIN instances
  <1> PICK fresh : fresh = NewCapability(j.inst, instances[j.inst], j.grant.intent,
                                         j.grant.audience, j.grant.behalf)
    OBVIOUS
  <1>0. saved = IF j.op = "attenuate"
                THEN [fresh EXCEPT !.expires = capabilities[j.parent].expires,
                                   !.token = @ \union capabilities[j.parent].token]
                ELSE fresh
    BY DEF ToSave
  <1>1. /\ j.inst \in Nat /\ j.inst \in DOMAIN instances
        /\ j.grant.intent \in Intents /\ j.grant.audience \in Audiences
        /\ j.grant.behalf \in ActAuthorities
    BY IssueFields DEF Grants0, IssueRefs
  <1>2. instances[j.inst] \in InstanceRecord /\ instances[j.inst].type \in DOMAIN agentTypes
    BY <1>1, ElementFacts DEF TypeOK
  <1>3. fresh \in CapabilityRecord /\ fresh.inst = j.inst
    BY <1>1, <1>2, NewCapabilityOK
  <1>4. CASE j.op # "attenuate"
    BY <1>0, <1>1, <1>3, <1>4
  <1>5. CASE j.op = "attenuate"
    <2>1. j.parent \in DOMAIN capabilities
      BY <1>5 DEF IssueRefs, TypeOK
    <2>2. capabilities[j.parent] \in CapabilityRecord
      BY <2>1, ElementFacts DEF TypeOK
    <2>3. capabilities[j.parent].expires \in Nat /\ capabilities[j.parent].token \in SUBSET Nat
      BY <2>2 DEF CapabilityRecord
    <2>4. fresh.token \union capabilities[j.parent].token \in SUBSET Nat
      BY <1>3, <2>3 DEF CapabilityRecord
    <2> QED  BY <1>0, <1>1, <1>3, <1>5, <2>3, <2>4 DEF CapabilityRecord
  <1> QED  BY <1>4, <1>5

LEMMA SaveCapabilityStep ==
    ASSUME TypeOK, JobsOK, LoggedParents, NEW p \in Processes, SaveCapability(p)
    PROVE  StoreStep /\ JobsOK' /\ (LogInv /\ JobAlone(job[p]) => AloneStep(p))
  <1> PICK j \in Jobs : j = job[p] /\ Refs(j)
    BY DEF JobsOK
  <1> PICK c : c = Len(capabilities) + 1
    OBVIOUS
  <1> PICK saved : saved = ToSave(j)
    OBVIOUS
  <1> PICK hop : hop = IF j.parent = 0 THEN 0 ELSE chains[j.parent].hop + 1
    OBVIOUS
  <1> DEFINE next == [j EXCEPT !.step = "line", !.cap = c]
  <1>1. /\ j.step = "record" /\ Goto(p, next)
        /\ UNCHANGED <<now, killDate, agentTypes, instances, log>>
        /\ capabilities' = Append(capabilities, saved)
        /\ chains' = Append(chains, NewChain(j.parent, hop))
    BY DEF SaveCapability, At, ToSave
  <1>2. j \in IssueJobs
    BY <1>1, JobAt
  <1>3. IssueRefs(j)
    BY <1>2, IssueRefsSuffice
  <1>4. saved \in CapabilityRecord /\ saved.inst = j.inst /\ j.inst \in DOMAIN instances
    BY <1>1, <1>2, <1>3, SavedCapability
  <1>5. NewChain(j.parent, hop) \in ChainRecord /\ NewChain(j.parent, hop).parent = j.parent
    <2>1. j.parent # 0 => j.parent \in DOMAIN chains
      BY <1>3 DEF IssueRefs
    <2>2. j.parent # 0 => chains[j.parent].hop \in Nat
      <3>1. j.parent # 0 => chains[j.parent] \in ChainRecord
        BY <2>1, ElementFacts DEF TypeOK
      <3> QED  BY <3>1 DEF ChainRecord
    <2>3. hop \in Nat
      BY <2>2
    <2> QED  BY <1>2, <2>3, IssueFields, NewChainOK
  <1>6. /\ j.parent \in DOMAIN chains \union {0}
        /\ j.parent # 0 => PresentInLog(j.parent)
    BY <1>1, <1>3 DEF IssueRefs
  <1>7. StoreStep /\ c \in DOMAIN chains'
    <2>1. NewChain(j.parent, hop).parent \in DOMAIN chains \union {0}
      BY <1>5, <1>6
    <2>2. NewChain(j.parent, hop).parent # 0 => PresentInLog(NewChain(j.parent, hop).parent)
      BY <1>5, <1>6
    <2>3. saved.inst \in DOMAIN instances
      BY <1>4
    <2> DEFINE chain == NewChain(j.parent, hop)
    <2>4. chain \in ChainRecord /\ chain.parent \in DOMAIN chains \union {0}
          /\ (chain.parent # 0 => PresentInLog(chain.parent))
          /\ chains' = Append(chains, chain)
      BY <1>1, <1>5, <2>1, <2>2
    <2> HIDE DEF chain
    <2> QED  BY <1>1, <1>4, <2>3, <2>4, CapabilityStep
  <1>8. /\ next \in IssueJobs /\ next.step = "line" /\ next.op = j.op
        /\ next.type = j.type /\ next.parentInst = j.parentInst
        /\ next.parent = j.parent /\ next.inst = j.inst /\ next.cap = c
    <2>1. c \in Nat
      BY DEF TypeOK
    <2> QED  BY <1>2, <2>1 DEF IssueJobs
  <1> HIDE DEF next
  <1>9. IssueRefs(next)'
    <2>1. /\ DOMAIN agentTypes' = DOMAIN agentTypes /\ DOMAIN instances' = DOMAIN instances
          /\ DOMAIN chains \subseteq DOMAIN chains'
      BY <1>1, <1>7 DEF StoreStep, StoreGrows, RecordsGrow
    <2>2. PresentInLog(j.parent) => PresentInLog(j.parent)'
      BY <1>1 DEF PresentInLog
    <2>3. PresentInLog(next.parent)' <=> PresentInLog(j.parent)'
      BY <1>8
    <2>4. next.parent # 0 => PresentInLog(next.parent)'
      BY <1>6, <1>8, <2>2, <2>3
    <2> QED  BY <1>1, <1>3, <1>4, <1>7, <1>8, <2>1, <2>4 DEF IssueRefs
  <1>10. ASSUME LogInv, JobAlone(j) PROVE AloneStep(p)
    <2>1. IssueAlone(j)
      BY <1>2, <1>10, AloneIs
    <2> PICK chain : chain = NewChain(j.parent, hop)
      OBVIOUS
    <2>2. chains' = Append(chains, chain) /\ chain.parent = j.parent
      BY <1>1, <1>5
    <2>3. LogGrowsQuietly
      BY <1>1 DEF LogGrowsQuietly
    <2>4. /\ ~InstanceKilled(saved.inst)
          /\ chain.parent # 0 => ~CapabilityKilled(chain.parent)
      BY <1>1, <1>4, <2>1, <2>2 DEF IssueAlone
    <2>5. DeathInv'
      BY <1>1, <1>10, <2>2, <2>3, <2>4, IssueStep DEF LogInv
    <2>6. LogInv'
      BY <1>1, <1>7, <1>10, <2>5, SilentLogInv
    <2>7. /\ InstanceKilled(j.inst)' <=> InstanceKilled(j.inst)
          /\ CapabilityKilled(j.parent)' <=> CapabilityKilled(j.parent)
          /\ LastSpent(j.parentInst)' <=> LastSpent(j.parentInst)
      BY <1>1 DEF InstanceKilled, HitsInstance, CapabilityKilled, HitsCapability,
                  LastSpent, Spends
    <2>8. IssueAlone(next)'
      BY <1>1, <1>8, <2>1, <2>7 DEF IssueAlone
    <2> QED  BY <1>1, <1>8, <2>6, <2>8, AloneThen, IssueRefsSuffice DEF AloneStep
  <1> QED  BY <1>1, <1>7, <1>8, <1>9, <1>10, IssueRefsThen, WriteStep

LEMMA AppendIssuanceLineStep ==
    ASSUME TypeOK, JobsOK, LoggedParents, NEW p \in Processes, AppendIssuanceLine(p)
    PROVE  StoreStep /\ JobsOK' /\ (LogInv /\ JobAlone(job[p]) => AloneStep(p))
  <1> PICK j \in Jobs : j = job[p] /\ Refs(j)
    BY DEF JobsOK
  <1>1. /\ j.step = "line" /\ Goto(p, Idle) /\ UNCHANGED <<now, killDate, records>>
        /\ log' = Append(log, Line(j.op, j.inst, j.cap))
    BY DEF AppendIssuanceLine, At, Append1
  <1>2. j \in IssueJobs
    BY <1>1, JobAt
  <1>3. j.op \in Operations /\ j.inst \in Nat /\ j.cap \in Nat
    BY <1>2, IssueFields DEF Operations
  <1>4. StoreStep
    BY <1>1, <1>3, LineType, LineStep
  <1>5. ASSUME LogInv, JobAlone(j) PROVE AloneStep(p)
    <2>1. IssueAlone(j) /\ IssueRefs(j)
      BY <1>2, <1>5, AloneIs, IssueRefsSuffice
    <2> PICK line : line = Line(j.op, j.inst, j.cap)
      OBVIOUS
    <2>2. /\ log' = Append(log, line) /\ line.op = j.op /\ line.inst = j.inst
          /\ line.time = now /\ ~line.allowed
      BY <1>1 DEF Line
    <2>3. j.op \in IssuanceOperations
      BY <1>2, IssueFields
    <2>4. Quiet(line) /\ ~Spends(line)
      BY <2>2, <2>3, QuietLine DEF KillOperations, IssuanceOperations, Spends
    <2>5. DeathInv'
      BY <1>1, <1>5, <2>2, <2>4, QuietLineDeath DEF LogInv
    <2>6. LogGrowsProven
      <3>1. CASE j.op # "spawn"
        BY <2>2, <2>4, <3>1, NoProof DEF Acts
      <3>2. CASE j.op = "spawn"
        <4>1. /\ LastSpent(j.parentInst) /\ UNCHANGED instances
              /\ instances[line.inst].parent = j.parentInst
          BY <1>1, <2>1, <2>2, <3>2 DEF IssueAlone, records
        <4> QED  BY <2>2, <2>4, <3>2, <4>1, ActBehindProof
      <3> QED  BY <3>1, <3>2
    <2>7. line.inst \in DOMAIN instances'
      BY <1>1, <2>1, <2>2 DEF IssueRefs, records
    <2>8. LogInv'
      BY <1>1, <1>4, <1>5, <2>2, <2>5, <2>6, <2>7, LineLogInv
    <2> QED  BY <1>1, <2>8, AloneThen, IdleRefs DEF AloneStep
  <1> QED  BY <1>1, <1>4, <1>5, IdleRefs, WriteStep

LEMMA EvaluateStep ==
    ASSUME TypeOK, JobsOK, LoggedParents, NEW p \in Processes, Evaluate(p)
    PROVE  StoreStep /\ JobsOK' /\ (LogInv /\ JobAlone(job[p]) => AloneStep(p))
  <1> PICK j \in Jobs : j = job[p] /\ Refs(j)
    BY DEF JobsOK
  <1>1. j.step = "examine" /\ j.op = "check" /\ UNCHANGED vars
    BY DEF Evaluate, At
  <1>2. j \in CheckJobs
    BY <1>1, JobAt
  <1>3. CheckRefs(j)
    BY <1>2, CheckRefsSuffice
  <1>4. CASE Goto(p, Idle)
    BY <1>1, <1>4, IdleRefs, ReadStep, AloneSuffices, AloneRead
  <1>5. CASE ~Goto(p, Idle)
    <2> DEFINE next == [j EXCEPT !.step = "record decision"]
    <2>1. Goto(p, next)
      BY <1>5 DEF Evaluate, Proceed
    <2>2. /\ next \in CheckJobs /\ next.inst = j.inst /\ next.cap = j.cap
          /\ next.live = j.live /\ next.loaded = j.loaded
          /\ next.step = "record decision"
      BY <1>2, CheckGoesOn
    <2> HIDE DEF next
    <2>3. CheckRefs(next)
      BY <1>3, <2>2 DEF CheckRefs, LoadedInOrder
    <2>4. LogInv /\ JobAlone(j) => CheckAlone(next)
      BY <1>1, <1>2, <2>2, AloneIs DEF CheckAlone
    <2>5. LogInv /\ JobAlone(j) => AloneStep(p)
      BY <1>1, <2>1, <2>2, <2>4, AloneSuffices, AloneRead, CheckRefsSuffice
    <2> QED  BY <1>1, <2>1, <2>2, <2>3, <2>5, CheckRefsSuffice, ReadStep
  <1> QED  BY <1>4, <1>5

\* A line with another value in one of its fields is a line.
LEMMA LineWith ==
    ASSUME NEW l \in LogLine
    PROVE  /\ \A s \in Seq(STRING) : /\ [l EXCEPT !.intent = s] \in LogLine
                                     /\ [l EXCEPT !.audience = s] \in LogLine
           /\ \A S \in SUBSET Nat : /\ [l EXCEPT !.killedInstances = S] \in LogLine
                                    /\ [l EXCEPT !.killedCapabilities = S] \in LogLine
                                    /\ [l EXCEPT !.revoked = S] \in LogLine
           /\ [l EXCEPT !.allowed = TRUE] \in LogLine
  <1>1. ASSUME NEW s \in Seq(STRING) PROVE [l EXCEPT !.intent = s] \in LogLine
    BY DEF LogLine
  <1>2. ASSUME NEW s \in Seq(STRING) PROVE [l EXCEPT !.audience = s] \in LogLine
    BY DEF LogLine
  <1>3. ASSUME NEW S \in SUBSET Nat PROVE [l EXCEPT !.killedInstances = S] \in LogLine
    BY DEF LogLine
  <1>4. ASSUME NEW S \in SUBSET Nat PROVE [l EXCEPT !.killedCapabilities = S] \in LogLine
    BY DEF LogLine
  <1>5. ASSUME NEW S \in SUBSET Nat PROVE [l EXCEPT !.revoked = S] \in LogLine
    BY DEF LogLine
  <1>6. [l EXCEPT !.allowed = TRUE] \in LogLine
    BY DEF LogLine
  <1> QED  BY <1>1, <1>2, <1>3, <1>4, <1>5, <1>6

LEMMA RecordDecisionStep ==
    ASSUME TypeOK, JobsOK, LoggedParents, NEW p \in Processes, RecordDecision(p)
    PROVE  StoreStep /\ JobsOK' /\ (LogInv /\ JobAlone(job[p]) => AloneStep(p))
  <1> PICK j \in Jobs : j = job[p] /\ Refs(j)
    BY DEF JobsOK
  <1> DEFINE line == [Line("check", j.inst, j.cap) EXCEPT
                         !.intent = j.grant.intent, !.audience = j.grant.audience,
                         !.allowed = TRUE]
  <1>1. /\ j.step = "record decision" /\ Goto(p, Idle) /\ UNCHANGED <<now, killDate, records>>
        /\ log' = Append(log, line)
    BY DEF RecordDecision, At, Append1
  <1>2. j \in CheckJobs
    BY <1>1, JobAt
  <1>3. "check" \in Operations /\ j.inst \in Nat /\ j.cap \in Nat /\ j.grant \in Grants0
    BY <1>2, CheckFields DEF Operations, DecisionOperations
  <1>5. j.grant.intent \in Seq(STRING) /\ j.grant.audience \in Seq(STRING)
    BY <1>3, KernelAssumption DEF Grants0
  <1>6. line \in LogLine
    <2> PICK l : l = Line("check", j.inst, j.cap)
      OBVIOUS
    <2>1. l \in LogLine
      BY <1>3, LineType
    <2> PICK k : k = [l EXCEPT !.intent = j.grant.intent]
      OBVIOUS
    <2>2. k \in LogLine
      BY <1>5, <2>1, LineWith
    <2> PICK m : m = [k EXCEPT !.audience = j.grant.audience]
      OBVIOUS
    <2>3. m \in LogLine
      BY <1>5, <2>2, LineWith
    <2>4. line = [m EXCEPT !.allowed = TRUE]
      OBVIOUS
    <2> QED  BY <2>3, <2>4, LineWith
  <1>8. /\ line.op = "check" /\ line.inst = j.inst /\ line.time = now
        /\ Quiet(line) /\ ~Spends(line)
    BY DEF Line, Quiet, Spends, KillOperations
  <1> HIDE DEF line
  <1>7. StoreStep
    BY <1>1, <1>6, LineStep
  <1>9. ASSUME LogInv, JobAlone(j) PROVE AloneStep(p)
    <2>1. LastSpent(j.inst)
      BY <1>1, <1>2, <1>9, AloneIs DEF CheckAlone
    <2>2. DeathInv'
      BY <1>1, <1>8, <1>9, QuietLineDeath DEF LogInv
    <2>3. LogGrowsProven
      BY <1>1, <1>8, <2>1, ActBehindProof
    <2>4. LogInv'
      BY <1>1, <1>7, <1>8, <1>9, <2>2, <2>3, LineLogInv
    <2> QED  BY <1>1, <2>4, AloneThen, IdleRefs DEF AloneStep
  <1> QED  BY <1>1, <1>7, <1>9, IdleRefs, WriteStep

LEMMA SaveKilledInstanceStep ==
    ASSUME TypeOK, JobsOK, LoggedParents, NEW p \in Processes, SaveKilledInstance(p)
    PROVE  StoreStep /\ JobsOK' /\ (LogInv /\ JobAlone(job[p]) => AloneStep(p))
  <1> PICK j \in Jobs : j = job[p] /\ Refs(j)
    BY DEF JobsOK
  <1>1. /\ j.step = "kill instance"
        /\ UNCHANGED <<now, killDate, agentTypes, capabilities, chains, log>>
    BY DEF SaveKilledInstance, At
  <1> PICK i \in j.instances :
          /\ j.named \in j.instances => i = j.named
          /\ instances' = [instances EXCEPT ![i].live = FALSE]
          /\ Goto(p, [j EXCEPT !.step = "kill instance line", !.current = i])
    BY DEF SaveKilledInstance
  <1> DEFINE next == [j EXCEPT !.step = "kill instance line", !.current = i]
  <1>2. j \in KillJobs
    BY <1>1, JobAt
  <1>3. KillRefs(j)
    BY <1>2, KillRefsSuffice
  <1>4. i \in DOMAIN instances /\ i \in Nat
    BY <1>2, <1>3, KillFields DEF KillRefs
  <1>5. StoreStep
    BY <1>1, <1>4, InstanceDies
  <1>6. /\ next \in KillJobs /\ next.step = "kill instance line" /\ next.current = i
        /\ next.named = j.named /\ next.killed = j.killed /\ next.derived = j.derived
        /\ next.instances = j.instances /\ next.capabilities = j.capabilities
        /\ next.listed = j.listed
    BY <1>2, <1>4 DEF KillJobs
  <1> HIDE DEF next
  <1>7. KillRefs(next)
    BY <1>1, <1>3, <1>4, <1>6 DEF KillRefs
  <1>8. Goto(p, next)
    BY DEF next
  <1>9. ASSUME LogInv, JobAlone(j) PROVE AloneStep(p)
    <2>1. KillAlone(j)
      BY <1>2, <1>9, AloneIs
    <2>2. /\ DOMAIN instances' = DOMAIN instances
          /\ \A k \in DOMAIN instances : instances'[k].parent = instances[k].parent
      <3>1. \A k \in DOMAIN instances : instances[k] \in InstanceRecord
        BY ElementFacts DEF TypeOK
      <3> QED  BY <3>1 DEF InstanceRecord
    <2>3. /\ DeathInv' /\ InstanceParent' = InstanceParent
          /\ CapabilityParent' = CapabilityParent
      BY <1>1, <1>9, <2>2, FlagDeath DEF LogInv
    <2>4. LogInv'
      BY <1>1, <1>5, <1>9, <2>3, SilentLogInv
    <2>5. \A x : InstanceTree(x)' = InstanceTree(x) /\ Derived(x)' = Derived(x)
      BY <1>1, <2>3, TreesKept
    <2>6. ASSUME KillBegun(j) PROVE KillAlone(next)'
      <3>1. i = j.named
        BY <2>6 DEF KillBegun
      <3>2. KillBegun(next)'
        BY <1>6, <2>5, <2>6, <3>1 DEF KillBegun
      <3> QED  BY <3>2 DEF KillAlone
    <2>7. ASSUME KillListed(j) PROVE KillAlone(next)'
      <3>1. \A x : /\ InstanceKilled(x)' <=> InstanceKilled(x)
                   /\ CapabilityKilled(x)' <=> CapabilityKilled(x)
        BY <1>1 DEF InstanceKilled, HitsInstance, CapabilityKilled, HitsCapability
      <3>2. KillListed(next)'
        BY <1>6, <2>7, <3>1 DEF KillListed
      <3> QED  BY <3>2 DEF KillAlone
    <2>8. KillAlone(next)'
      BY <1>1, <2>1, <2>6, <2>7 DEF KillAlone, CapabilityKillBegun
    <2> QED  BY <1>6, <1>8, <2>4, <2>8, AloneThen, KillRefsSuffice DEF AloneStep
  <1> QED  BY <1>5, <1>6, <1>7, <1>8, <1>9, KillRefsSuffice, WriteStep

LEMMA NextKillSteps ==
    ASSUME NEW S, NEW T
    PROVE  /\ NextKillStep(S, T) \in {"kill instance", "kill capability", "killed"}
           /\ NextKillStep(S, T) = "kill instance" => S # {}
  BY DEF NextKillStep

\* A cascade with less to do is a cascade.
LEMMA KillGoesOn ==
    ASSUME NEW j \in KillJobs, NEW S \in SUBSET Nat
    PROVE  /\ [j EXCEPT !.instances = S] \in KillJobs
           /\ [j EXCEPT !.capabilities = S] \in KillJobs
  <1>1. [j EXCEPT !.instances = S] \in KillJobs
    BY DEF KillJobs
  <1>2. [j EXCEPT !.capabilities = S] \in KillJobs
    BY DEF KillJobs
  <1> QED  BY <1>1, <1>2

LEMMA AppendInstanceLineStep ==
    ASSUME TypeOK, JobsOK, LoggedParents, NEW p \in Processes, AppendInstanceLine(p)
    PROVE  StoreStep /\ JobsOK' /\ (LogInv /\ JobAlone(job[p]) => AloneStep(p))
  <1> PICK j \in Jobs : j = job[p] /\ Refs(j)
    BY DEF JobsOK
  <1> PICK step : step = NextKillStep(j.instances \ {j.current}, j.capabilities)
    OBVIOUS
  <1> PICK line : line = IF j.current = j.named
                         THEN [Line("kill_instance", j.current, 0) EXCEPT
                                  !.killedInstances = j.killed,
                                  !.killedCapabilities = j.derived]
                         ELSE Line("kill_instance", j.current, 0)
    OBVIOUS
  <1> DEFINE next == [j EXCEPT !.step = step, !.instances = j.instances \ {j.current}]
  <1>1. /\ j.step = "kill instance line" /\ Goto(p, next) /\ log' = Append(log, line)
        /\ UNCHANGED <<now, killDate, records>>
    BY DEF AppendInstanceLine, At, Append1
  <1>2. j \in KillJobs
    BY <1>1, JobAt
  <1>3. KillRefs(j)
    BY <1>2, KillRefsSuffice
  <1>4. line \in LogLine
    <2>1. "kill_instance" \in Operations /\ j.current \in Nat /\ 0 \in Nat
      BY <1>2, KillFields DEF Operations, KillOperations
    <2>2. Line("kill_instance", j.current, 0) \in LogLine
      BY <2>1, LineType
    <2>3. j.killed \in SUBSET Nat /\ j.derived \in SUBSET Nat
      BY <1>2, KillFields
    <2> PICK k : k = [Line("kill_instance", j.current, 0) EXCEPT !.killedInstances = j.killed]
      OBVIOUS
    <2>4. k \in LogLine
      BY <2>2, <2>3, LineWith
    <2>5. [k EXCEPT !.killedCapabilities = j.derived] \in LogLine
      BY <2>3, <2>4, LineWith
    <2>6. line \in {Line("kill_instance", j.current, 0),
                    [k EXCEPT !.killedCapabilities = j.derived]}
      OBVIOUS
    <2> QED  BY <2>2, <2>5, <2>6
  <1>5. StoreStep
    BY <1>1, <1>4, LineStep
  <1>6. /\ next \in KillJobs /\ next.step = step /\ next.current = j.current
        /\ next.named = j.named /\ next.killed = j.killed /\ next.derived = j.derived
        /\ next.instances = j.instances \ {j.current} /\ next.capabilities = j.capabilities
        /\ next.listed = j.listed
    <2>1. step \in {"kill instance", "kill capability", "killed"}
      BY NextKillSteps
    <2>2. j.instances \ {j.current} \in SUBSET Nat
      BY <1>2, KillFields
    <2> PICK k : k = [j EXCEPT !.step = step]
      OBVIOUS
    <2>3. /\ k \in KillJobs /\ k.step = step /\ k.current = j.current
          /\ k.named = j.named /\ k.killed = j.killed /\ k.derived = j.derived
          /\ k.capabilities = j.capabilities /\ k.listed = j.listed
      BY <1>2, <2>1 DEF KillJobs
    <2>4. PICK S \in SUBSET Nat : S = j.instances \ {j.current}
      BY <2>2
    <2>5. next = [k EXCEPT !.instances = S]
      BY <2>4
    <2> HIDE DEF next
    <2>6. next \in KillJobs
      BY <2>3, <2>5, KillGoesOn
    <2>7. /\ next.step = k.step /\ next.current = k.current /\ next.named = k.named
          /\ next.killed = k.killed /\ next.derived = k.derived
          /\ next.instances = S /\ next.capabilities = k.capabilities /\ next.listed = k.listed
      BY <2>3, <2>5 DEF KillJobs
    <2> QED  BY <2>3, <2>6, <2>7, <2>4
  <1> HIDE DEF next
  <1>7. KillRefs(next)
    <2>1. step \in {"kill instance", "kill capability", "killed"}
      BY NextKillSteps
    <2> QED  BY <1>1, <1>3, <1>6, <2>1 DEF KillRefs
  <1>8. ASSUME LogInv, JobAlone(j) PROVE AloneStep(p)
    <2>1. KillBegun(j) \/ KillListed(j)
      BY <1>1, <1>2, <1>8, AloneIs DEF KillAlone, CapabilityKillBegun
    <2>2. ~Acts(line) /\ ~Spends(line) /\ line.time = now /\ line.op # "spawn"
      BY DEF Line, Acts, Spends
    <2>3. UNCHANGED <<instances, capabilities, chains>>
      BY <1>1 DEF records
    <2>4. step \notin {"kill instance line", "kill capability line"}
      BY NextKillSteps
    <2>5. ASSUME KillBegun(j) PROVE DeathInv' /\ KillAlone(next)'
      <3>1. /\ j.current = j.named /\ j.named \in DOMAIN instances
            /\ j.killed = InstanceTree(j.named) /\ j.derived = Derived(j.killed)
            /\ j.instances = j.killed /\ j.capabilities = j.derived /\ j.listed = {}
        BY <1>1, <1>3, <2>5 DEF KillBegun, KillRefs
      <3>2. /\ line.op = "kill_instance" /\ line.inst = j.named /\ line.cap = 0
            /\ line.killedInstances = j.killed /\ line.killedCapabilities = j.derived
        BY <3>1 DEF Line
      <3>3. CascadeReaches(j)
        BY <3>1, CascadeFacts
      <3>4. DeathInv'
        BY <1>1, <1>8, <2>3, <3>2, <3>3, KillStep DEF LogInv, CascadeReaches, KillOperations
      <3>5. LineIsLogged(line)
        BY <1>1, LastLine
      <3>6. \A i \in j.killed : InstanceKilled(i)'
        BY <3>2, <3>5 DEF LineIsLogged, InstanceKilled, HitsInstance
      <3>7. \A c \in j.derived : CapabilityKilled(c)'
        BY <3>2, <3>5 DEF LineIsLogged, CapabilityKilled, HitsCapability, KillOperations
      <3>8. KillListed(next)'
        BY <1>6, <2>4, <3>1, <3>6, <3>7 DEF KillListed
      <3> QED  BY <3>4, <3>8 DEF KillAlone
    <2>6. ASSUME KillListed(j) PROVE DeathInv' /\ KillAlone(next)'
      <3>1. /\ j.current \in j.instances /\ j.current # j.named
            /\ j.current \in DOMAIN instances /\ InstanceKilled(j.current)
        BY <1>1, <1>3, <2>6 DEF KillListed, KillRefs
      <3>2. /\ line.op = "kill_instance" /\ line.inst = j.current /\ line.cap = 0
            /\ line.killedInstances = {} /\ line.killedCapabilities = {}
        BY <3>1 DEF Line
      <3>3. DeathInv'
        BY <1>1, <1>8, <3>1, <3>2, AgainStep DEF LogInv
      <3>4. KillListed(next)'
        BY <1>5, <1>6, <2>4, <2>6, KilledStays DEF KillListed, StoreStep
      <3> QED  BY <3>3, <3>4 DEF KillAlone
    <2>7. DeathInv' /\ KillAlone(next)'
      BY <2>1, <2>5, <2>6
    <2>8. LogInv'
      BY <1>1, <1>5, <1>8, <2>2, <2>7, NoProof, LineLogInv
    <2> QED  BY <1>1, <1>6, <2>7, <2>8, AloneThen, KillRefsSuffice DEF AloneStep
  <1> QED  BY <1>1, <1>5, <1>6, <1>7, <1>8, KillRefsSuffice, WriteStep

LEMMA SaveKilledChainStep ==
    ASSUME TypeOK, JobsOK, LoggedParents, NEW p \in Processes, SaveKilledChain(p)
    PROVE  StoreStep /\ JobsOK' /\ (LogInv /\ JobAlone(job[p]) => AloneStep(p))
  <1> PICK j \in Jobs : j = job[p] /\ Refs(j)
    BY DEF JobsOK
  <1>1. /\ j.step = "kill capability"
        /\ UNCHANGED <<now, killDate, agentTypes, instances, capabilities, log>>
    BY DEF SaveKilledChain, At
  <1> PICK c \in j.capabilities :
          /\ chains' = [chains EXCEPT ![c].revoked = TRUE]
          /\ Goto(p, [j EXCEPT !.step = "kill capability line", !.current = c])
    BY DEF SaveKilledChain
  <1> DEFINE next == [j EXCEPT !.step = "kill capability line", !.current = c]
  <1>2. j \in KillJobs
    BY <1>1, JobAt
  <1>3. KillRefs(j)
    BY <1>2, KillRefsSuffice
  <1>4. c \in DOMAIN chains /\ c \in Nat
    BY <1>2, <1>3, KillFields DEF KillRefs
  <1>5. StoreStep
    BY <1>1, <1>4, ChainDies
  <1>6. /\ next \in KillJobs /\ next.step = "kill capability line" /\ next.current = c
        /\ next.named = j.named /\ next.killed = j.killed /\ next.derived = j.derived
        /\ next.instances = j.instances /\ next.capabilities = j.capabilities
        /\ next.listed = j.listed
    BY <1>2, <1>4 DEF KillJobs
  <1> HIDE DEF next
  <1>7. KillRefs(next)
    BY <1>1, <1>3, <1>4, <1>6 DEF KillRefs
  <1>8. Goto(p, next)
    BY DEF next
  <1>9. ASSUME LogInv, JobAlone(j) PROVE AloneStep(p)
    <2>1. KillAlone(j)
      BY <1>2, <1>9, AloneIs
    <2>2. /\ DOMAIN chains' = DOMAIN chains
          /\ \A k \in DOMAIN chains : chains'[k].parent = chains[k].parent
      <3>1. \A k \in DOMAIN chains : chains[k] \in ChainRecord
        BY ElementFacts DEF TypeOK
      <3> QED  BY <3>1 DEF ChainRecord
    <2>3. /\ DeathInv' /\ InstanceParent' = InstanceParent
          /\ CapabilityParent' = CapabilityParent
      BY <1>1, <1>9, <2>2, FlagDeath DEF LogInv
    <2>4. LogInv'
      BY <1>1, <1>5, <1>9, <2>3, SilentLogInv
    <2>8. \A x : CapabilityTree(x)' = CapabilityTree(x)
      BY <1>1, <2>3, TreesKept
    <2>5. ASSUME CapabilityKillBegun(j) PROVE KillAlone(next)'
      <3>1. c = j.named
        BY <2>5 DEF CapabilityKillBegun
      <3>2. CapabilityKillBegun(next)'
        BY <1>6, <2>5, <2>8, <3>1 DEF CapabilityKillBegun
      <3> QED  BY <3>2 DEF KillAlone
    <2>6. ASSUME KillListed(j) PROVE KillAlone(next)'
      <3>1. \A x : /\ InstanceKilled(x)' <=> InstanceKilled(x)
                   /\ CapabilityKilled(x)' <=> CapabilityKilled(x)
        BY <1>1 DEF InstanceKilled, HitsInstance, CapabilityKilled, HitsCapability
      <3>2. KillListed(next)'
        BY <1>6, <2>6, <3>1 DEF KillListed
      <3> QED  BY <3>2 DEF KillAlone
    <2>7. KillAlone(next)'
      BY <1>1, <2>1, <2>5, <2>6 DEF KillAlone, KillBegun
    <2> QED  BY <1>6, <1>8, <2>4, <2>7, AloneThen, KillRefsSuffice DEF AloneStep
  <1> QED  BY <1>5, <1>6, <1>7, <1>8, <1>9, KillRefsSuffice, WriteStep

LEMMA AppendCapabilityLineStep ==
    ASSUME TypeOK, JobsOK, LoggedParents, NEW p \in Processes, AppendCapabilityLine(p)
    PROVE  StoreStep /\ JobsOK' /\ (LogInv /\ JobAlone(job[p]) => AloneStep(p))
  <1> PICK j \in Jobs : j = job[p] /\ Refs(j)
    BY DEF JobsOK
  <1> PICK step : step = NextKillStep({}, j.capabilities \ {j.current})
    OBVIOUS
  <1> PICK holder : holder = capabilities[j.current].inst
    OBVIOUS
  <1> DEFINE line == [Line("kill_capability", holder, j.current) EXCEPT
                         !.killedCapabilities = j.listed, !.revoked = {j.current}]
             next == [j EXCEPT !.step = step, !.capabilities = j.capabilities \ {j.current}]
  <1>1. /\ j.step = "kill capability line" /\ Goto(p, next) /\ log' = Append(log, line)
        /\ UNCHANGED <<now, killDate, records>>
    BY DEF AppendCapabilityLine, At, Append1
  <1>2. j \in KillJobs
    BY <1>1, JobAt
  <1>3. KillRefs(j)
    BY <1>2, KillRefsSuffice
  <1>4. line \in LogLine
    <2>1. "kill_capability" \in Operations
      BY DEF Operations, KillOperations
    <2>2. j.current \in Nat /\ j.listed \in SUBSET Nat
      BY <1>2, KillFields
    <2>3. holder \in Nat
      <3>1. j.current \in DOMAIN capabilities
        BY <1>1, <1>3, SameDomain DEF KillRefs
      <3>2. holder \in DOMAIN instances
        BY <3>1, CapabilityFacts
      <3> QED  BY <3>2, ActingType
    <2> PICK l : l = Line("kill_capability", holder, j.current)
      OBVIOUS
    <2>4. l \in LogLine
      BY <2>1, <2>2, <2>3, LineType
    <2> PICK k : k = [l EXCEPT !.killedCapabilities = j.listed]
      OBVIOUS
    <2>5. k \in LogLine
      BY <2>2, <2>4, LineWith
    <2>6. {j.current} \in SUBSET Nat
      BY <2>2
    <2>7. line = [k EXCEPT !.revoked = {j.current}]
      OBVIOUS
    <2> QED  BY <2>5, <2>6, <2>7, LineWith
  <1>8. /\ line.op = "kill_capability" /\ line.cap = j.current
        /\ line.killedInstances = {} /\ line.killedCapabilities = j.listed
        /\ ~Acts(line) /\ ~Spends(line) /\ line.time = now
    BY DEF Line, Acts, Spends
  <1> HIDE DEF line
  <1>5. StoreStep
    BY <1>1, <1>4, LineStep
  <1>6. /\ next \in KillJobs /\ next.step = step
        /\ next.named = j.named /\ next.killed = j.killed /\ next.derived = j.derived
        /\ next.instances = j.instances
        /\ next.capabilities = j.capabilities \ {j.current} /\ next.listed = j.listed
    <2>1. step \in {"kill instance", "kill capability", "killed"}
      BY NextKillSteps
    <2>2. j.capabilities \ {j.current} \in SUBSET Nat
      BY <1>2, KillFields
    <2> PICK k : k = [j EXCEPT !.step = step]
      OBVIOUS
    <2>3. /\ k \in KillJobs /\ k.step = step /\ k.current = j.current
          /\ k.named = j.named /\ k.killed = j.killed /\ k.derived = j.derived
          /\ k.instances = j.instances /\ k.listed = j.listed
      BY <1>2, <2>1 DEF KillJobs
    <2>4. PICK S \in SUBSET Nat : S = j.capabilities \ {j.current}
      BY <2>2
    <2>5. next = [k EXCEPT !.capabilities = S]
      BY <2>4
    <2> HIDE DEF next
    <2>6. next \in KillJobs
      BY <2>3, <2>5, KillGoesOn
    <2>7. /\ next.step = k.step /\ next.current = k.current /\ next.named = k.named
          /\ next.killed = k.killed /\ next.derived = k.derived
          /\ next.capabilities = S /\ next.instances = k.instances /\ next.listed = k.listed
      BY <2>3, <2>5 DEF KillJobs
    <2> QED  BY <2>3, <2>6, <2>7, <2>4
  <1> HIDE DEF next
  <1>7. KillRefs(next)
    BY <1>3, <1>6, NextKillSteps DEF KillRefs
  <1>9. ASSUME LogInv, JobAlone(j) PROVE AloneStep(p)
    <2>1. KillListed(j) \/ CapabilityKillBegun(j)
      BY <1>1, <1>2, <1>9, AloneIs DEF KillAlone, KillBegun
    <2>2. UNCHANGED <<instances, capabilities, chains>>
      BY <1>1 DEF records
    <2>3. step \notin {"kill instance line", "kill capability line"}
      BY NextKillSteps
    <2>4. j.current \in DOMAIN capabilities /\ j.current \in DOMAIN chains
      BY <1>1, <1>3, SameDomain DEF KillRefs
    <2>5. ASSUME CapabilityKillBegun(j) PROVE DeathInv' /\ KillAlone(next)'
      <3>1. /\ j.current = j.named /\ j.capabilities = {j.named}
            /\ j.listed = CapabilityTree(j.named)
        BY <1>1, <2>5 DEF CapabilityKillBegun
      <3>2. /\ j.current \in j.listed /\ j.listed \subseteq DOMAIN capabilities
            /\ \A d \in DOMAIN chains : chains[d].parent \in j.listed => d \in j.listed
        BY <2>4, <3>1, CapabilityTreeFacts
      <3>3. DeathInv'
        <4>1. /\ line.op # "kill_instance" /\ line.op \in KillOperations
              /\ line.cap \in line.killedCapabilities
              /\ line.killedInstances \subseteq DOMAIN instances
              /\ \A i : i \notin line.killedInstances
          BY <1>8, <3>2 DEF KillOperations
        <4> QED  BY <1>1, <1>8, <1>9, <2>2, <3>2, <4>1, KillStep DEF LogInv
      <3>4. next.step = "killed"
        BY <1>6, <3>1 DEF NextKillStep
      <3> QED  BY <3>3, <3>4 DEF KillAlone
    <2>6. ASSUME KillListed(j) PROVE DeathInv' /\ KillAlone(next)'
      <3>1. CapabilityKilled(j.current) /\ j.listed = {}
        BY <1>1, <2>6 DEF KillListed
      <3>2. DeathInv'
        BY <1>1, <1>8, <1>9, <2>4, <3>1, AgainStep DEF LogInv
      <3>3. KillListed(next)'
        BY <1>5, <1>6, <2>3, <2>6, KilledStays DEF KillListed, StoreStep
      <3> QED  BY <3>2, <3>3 DEF KillAlone
    <2>7. DeathInv' /\ KillAlone(next)'
      BY <2>1, <2>5, <2>6
    <2>8. LogInv'
      BY <1>1, <1>5, <1>8, <1>9, <2>7, NoProof, LineLogInv
    <2> QED  BY <1>1, <1>6, <2>7, <2>8, AloneThen, KillRefsSuffice DEF AloneStep
  <1> QED  BY <1>1, <1>5, <1>6, <1>7, <1>9, KillRefsSuffice, WriteStep

LEMMA StopStep ==
    ASSUME TypeOK, JobsOK, LoggedParents, NEW p \in Processes, Killed(p) \/ Crash(p)
    PROVE  StoreStep /\ JobsOK' /\ (LogInv /\ JobAlone(job[p]) => AloneStep(p))
  <1>1. Goto(p, Idle) /\ UNCHANGED vars
    BY DEF Killed, Crash
  <1> QED  BY <1>1, IdleRefs, ReadStep, AloneSuffices, AloneRead

------------------------------------------------------------------------------
(* A decision that allows, at the moment it is evaluated.                    *)

\* A capability without a line is one that nothing derives from.
LEMMA AncestorsLogged ==
    ASSUME TypeOK, LoggedParents, NEW c \in DOMAIN chains, PresentInLog(c),
           NEW d \in CapabilityAncestors(c)
    PROVE  PresentInLog(d)
  <1>1. d \in DOMAIN chains /\ c \in Tree(CapabilityParent, {d})
    BY DEF CapabilityAncestors
  <1>2. ASSUME ~PresentInLog(d) PROVE FALSE
    <2>1. d # 0
      BY <1>1, ElementFacts DEF TypeOK
    <2>2. \A e \in DOMAIN chains : chains[e].parent # d
      BY <1>2, <2>1 DEF LoggedParents
    <2>3. \A e \in DOMAIN CapabilityParent : CapabilityParent[e] \in {d} => e \in {d}
      BY <2>2 DEF CapabilityParent
    <2>4. {d} \in SUBSET DOMAIN CapabilityParent
      BY <1>1 DEF CapabilityParent
    <2>5. Tree(CapabilityParent, {d}) \subseteq {d}
      BY <2>3, <2>4, TreeLeast
    <2>6. c = d
      BY <1>1, <2>5
    <2> QED  BY <1>2, <2>6
  <1> QED  BY <1>2

LEMMA AllowedInOrder ==
    ASSUME TypeOK, LoggedParents, NEW i, NEW live, NEW c \in DOMAIN chains,
           PresentInLog(c), NotRevoked(c, i, live)
    PROVE  /\ live
           /\ \A p \in DOMAIN log :
                 /\ \A d \in CapabilityAncestors(c) : ~HitsCapability(log[p], d)
                 /\ ~NamesInstance(log[p], i)
           /\ \A d \in CapabilityAncestors(c) : \E p \in DOMAIN log :
                 log[p].op \in IssuanceOperations /\ log[p].cap = d
  <1>1. \A d \in CapabilityAncestors(c) : ~CapabilityKilled(d)
    BY DEF NotRevoked, ChainLive, RevokeFromHere
  <1>2. live /\ \A p \in DOMAIN log : ~NamesInstance(log[p], i)
    BY DEF NotRevoked
  <1>3. \A d \in CapabilityAncestors(c) : PresentInLog(d)
    BY AncestorsLogged
  <1> QED  BY <1>1, <1>2, <1>3 DEF CapabilityKilled, PresentInLog

LEMMA EvaluateOrder ==
    ASSUME TypeOK, JobsOK, LoggedParents, EvaluatedInv, NEW p \in Processes, Evaluate(p)
    PROVE  EvaluatedInv'
  <1> PICK j \in Jobs : j = job[p] /\ Refs(j)
    BY DEF JobsOK
  <1>1. UNCHANGED vars /\ j.step = "examine" /\ j.op = "check"
    BY DEF Evaluate, At
  <1>2. /\ Len(log) \in Nat /\ DOMAIN log = 1..Len(log)
    BY DEF TypeOK
  <1>3. j \in CheckJobs
    BY <1>1, JobAt
  <1>4. j.cap \in DOMAIN chains /\ LoadedInOrder(j)
    BY <1>3, CheckRefsSuffice DEF CheckRefs
  <1> PICK last : last = [inst |-> j.inst, cap |-> j.cap, loaded |-> j.loaded,
                          seen |-> Len(log)]
    OBVIOUS
  <1>5. CASE UNCHANGED evaluated
    BY <1>1, <1>5 DEF vars, EvaluatedInv, ActsRespectDeath, OnlyLoggedCapabilitiesAct,
                      CapabilityAncestors, CapabilityParent, Tree
  <1>6. CASE evaluated' # evaluated
    <2>1. /\ evaluated' = evaluated \union {last}
          /\ PresentInLog(j.cap) /\ NotRevoked(j.cap, j.inst, j.live)
      BY <1>6 DEF Evaluate, EvaluateCheck, EvaluateCapability
    <2>2. /\ last.seen \in 0..Len(log) /\ last.cap \in DOMAIN chains
          /\ \A q \in 1..last.seen :
                /\ \A d \in CapabilityAncestors(last.cap) : ~HitsCapability(log[q], d)
                /\ q <= last.loaded => ~HitsInstance(log[q], last.inst)
                /\ ~NamesInstance(log[q], last.inst)
          /\ \A d \in CapabilityAncestors(last.cap) : \E q \in 1..last.seen :
                log[q].op \in IssuanceOperations /\ log[q].cap = d
      <3>1. /\ last.seen = Len(log) /\ last.cap = j.cap /\ last.inst = j.inst
            /\ last.loaded = j.loaded
        OBVIOUS
      <3>2. /\ j.live
            /\ \A q \in DOMAIN log :
                  /\ \A d \in CapabilityAncestors(j.cap) : ~HitsCapability(log[q], d)
                  /\ ~NamesInstance(log[q], j.inst)
            /\ \A d \in CapabilityAncestors(j.cap) : \E q \in DOMAIN log :
                  log[q].op \in IssuanceOperations /\ log[q].cap = d
        BY <1>4, <2>1, AllowedInOrder
      <3>3. \A q \in 1..Len(log) : q <= j.loaded => ~HitsInstance(log[q], j.inst)
        BY <1>2, <1>4, <3>2 DEF LoadedInOrder
      <3> QED  BY <1>2, <1>4, <3>1, <3>2, <3>3
    <2>3. /\ \A e \in evaluated' : e.seen \in 0..Len(log) /\ e.cap \in DOMAIN chains
          /\ \A e \in evaluated' : \A q \in 1..e.seen :
                /\ \A d \in CapabilityAncestors(e.cap) : ~HitsCapability(log[q], d)
                /\ q <= e.loaded => ~HitsInstance(log[q], e.inst)
                /\ ~NamesInstance(log[q], e.inst)
          /\ \A e \in evaluated' : \A d \in CapabilityAncestors(e.cap) : \E q \in 1..e.seen :
                log[q].op \in IssuanceOperations /\ log[q].cap = d
      BY <2>1, <2>2 DEF EvaluatedInv, ActsRespectDeath, OnlyLoggedCapabilitiesAct
    <2>4. \A e \in evaluated' : e.seen \in 0..Len(log') /\ e.cap \in DOMAIN chains'
      BY <1>1, <2>3 DEF vars
    <2>5. ActsRespectDeath'
      BY <1>1, <2>3 DEF vars, ActsRespectDeath, CapabilityAncestors, CapabilityParent, Tree
    <2>6. OnlyLoggedCapabilitiesAct'
      BY <1>1, <2>3 DEF vars, OnlyLoggedCapabilitiesAct, CapabilityAncestors,
                        CapabilityParent, Tree
    <2> QED  BY <2>4, <2>5, <2>6 DEF EvaluatedInv
  <1> QED  BY <1>5, <1>6

------------------------------------------------------------------------------
(* Every step.                                                               *)

LEMMA BeginJob ==
    ASSUME TypeOK, NEW p \in Processes, Begin(p)
    PROVE  Begun(p) /\ UNCHANGED evaluated
  <1>1. UNCHANGED evaluated
    BY DEF Begin, BeginBirthWrite, BeginMint, BeginAttenuate, BeginSpawn, BeginCheck,
           BeginKillInstance, BeginKillCapability
  <1> USE TypeOK
  <1>2. CASE \E grant \in Grants0, type \in DOMAIN agentTypes : BeginBirthWrite(p, type, grant)
    BY <1>1, <1>2, BeginBirthWriteJob
  <1>3. CASE \E grant \in Grants0, i \in DOMAIN instances : BeginMint(p, i, grant)
    BY <1>1, <1>3, BeginMintJob
  <1>4. CASE \E grant \in Grants0, c \in DOMAIN capabilities : BeginAttenuate(p, c, grant)
    BY <1>1, <1>4, BeginAttenuateJob
  <1>5. CASE \E grant \in Grants0, i \in DOMAIN instances, c \in DOMAIN capabilities,
                nonce \in Nonces : BeginSpawn(p, i, c, grant, nonce)
    BY <1>1, <1>5, BeginSpawnJob
  <1>6. CASE \E grant \in Grants0, i \in DOMAIN instances, c \in DOMAIN capabilities,
                nonce \in Nonces : BeginCheck(p, i, c, grant, nonce)
    BY <1>1, <1>6, BeginCheckJob
  <1>7. CASE \E i \in DOMAIN instances : BeginKillInstance(p, i)
    BY <1>1, <1>7, BeginKillInstanceJob
  <1>8. CASE \E c \in DOMAIN capabilities : BeginKillCapability(p, c)
    BY <1>1, <1>8, BeginKillCapabilityJob
  <1> QED  BY <1>2, <1>3, <1>4, <1>5, <1>6, <1>7, <1>8 DEF Begin

LEMMA BeginStep ==
    ASSUME TypeOK, JobsOK, LoggedParents, NEW p \in Processes, Begin(p)
    PROVE  StoreStep /\ JobsOK' /\ UNCHANGED evaluated /\ (LogInv => AloneStep(p))
  <1>1. Begun(p) /\ UNCHANGED evaluated
    BY BeginJob
  <1> PICK next \in Jobs : Goto(p, next) /\ Refs(next) /\ JobAlone(next)
    BY <1>1 DEF Begun
  <1>2. UNCHANGED vars
    BY <1>1 DEF Begun
  <1> QED  BY <1>1, <1>2, ReadStep, AloneRead

LEMMA ContinueStep ==
    ASSUME ProcessesInv, NEW p \in Processes, Continue(p)
    PROVE  /\ StoreStep /\ JobsOK' /\ EvaluatedInv'
           /\ LogInv /\ JobAlone(job[p]) => AloneStep(p)
  <1> USE DEF ProcessesInv
  <1>1. CASE Evaluate(p)
    BY <1>1, EvaluateStep, EvaluateOrder
  <1>2. CASE ~Evaluate(p)
    <2>1. UNCHANGED evaluated
      BY <1>2 DEF Continue, Spend, ExamineSpawn, SaveInstance, SaveCapability,
                  AppendIssuanceLine, RecordDecision, SaveKilledInstance,
                  AppendInstanceLine, SaveKilledChain, AppendCapabilityLine, Killed
    <2>2. /\ StoreStep /\ JobsOK'
          /\ LogInv /\ JobAlone(job[p]) => AloneStep(p)
      BY <1>2, SpendStep, ExamineSpawnStep, SaveInstanceStep, SaveCapabilityStep,
         AppendIssuanceLineStep, RecordDecisionStep, SaveKilledInstanceStep,
         AppendInstanceLineStep, SaveKilledChainStep, AppendCapabilityLineStep,
         StopStep DEF Continue
    <2> QED  BY <2>1, <2>2, EvaluatedKept DEF StoreStep
  <1> QED  BY <1>1, <1>2

LEMMA ProcessesInit == PInit => ProcessesInv
  <1> SUFFICES ASSUME PInit PROVE ProcessesInv
    OBVIOUS
  <1>1. TypeOK
    BY InitOK DEF PInit
  <1>2. chains = <<>> /\ job = [p \in Processes |-> Idle] /\ evaluated = {}
    BY DEF PInit, Init
  <1>3. JobsOK
    BY <1>2, IdleRefs DEF JobsOK
  <1>4. LoggedParents
    BY <1>2 DEF LoggedParents
  <1>5. EvaluatedInv
    BY <1>2 DEF EvaluatedInv, ActsRespectDeath, OnlyLoggedCapabilitiesAct
  <1> QED  BY <1>1, <1>3, <1>4, <1>5 DEF ProcessesInv

LEMMA ProcessesNext == ProcessesInv /\ [PNext]_allVars => ProcessesInv'
  <1> SUFFICES ASSUME ProcessesInv, [PNext]_allVars PROVE ProcessesInv'
    OBVIOUS
  <1>0. TypeOK /\ JobsOK /\ LoggedParents /\ EvaluatedInv
    BY DEF ProcessesInv
  <1>1. CASE OneStep
    <2>1. StoreStep
      BY <1>0, <1>1, OneStepStore DEF OneStep
    <2>2. JobsOK' /\ EvaluatedInv'
      BY <1>0, <1>1, <2>1, JobsKept, EvaluatedKept DEF OneStep, StoreStep
    <2> QED  BY <2>1, <2>2 DEF StoreStep, ProcessesInv
  <1>2. CASE \E p \in Processes : Begin(p)
    <2>1. StoreStep /\ JobsOK' /\ UNCHANGED evaluated
      BY <1>0, <1>2, BeginStep
    <2> QED  BY <1>0, <2>1, EvaluatedKept DEF StoreStep, ProcessesInv
  <1>3. CASE \E p \in Processes : Continue(p)
    BY <1>3, ContinueStep DEF StoreStep, ProcessesInv
  <1>4. CASE \E p \in Processes : Crash(p)
    <2>1. StoreStep /\ JobsOK' /\ UNCHANGED evaluated
      BY <1>0, <1>4, StopStep DEF Crash
    <2> QED  BY <1>0, <2>1, EvaluatedKept DEF StoreStep, ProcessesInv
  <1>5. CASE UNCHANGED allVars
    <2>1. StoreStep /\ UNCHANGED <<job, evaluated>>
      BY <1>0, <1>5, StillStep DEF allVars
    <2> QED  BY <1>0, <2>1, JobsKept, EvaluatedKept DEF StoreStep, ProcessesInv
  <1> QED  BY <1>1, <1>2, <1>3, <1>4, <1>5 DEF PNext, Start

LEMMA ProcessesCorrect == PSpec => []ProcessesInv
  BY ProcessesInit, ProcessesNext, PTL DEF PSpec

------------------------------------------------------------------------------
(* While no operations overlap.                                              *)

LEMMA OneStepLog ==
    ASSUME TypeOK, LoggedParents, LogInv,
           \/ \E type \in TypeChoices : AddAgentType(type)
           \/ \E type \in DOMAIN agentTypes : BirthInstance(type)
           \/ Challenge
    PROVE  LogInv'
  <1>1. StoreStep
    BY OneStepStore
  <1>2. CASE \E type \in TypeChoices : AddAgentType(type)
    <2>1. DeathInv' /\ UNCHANGED <<now, log>>
      BY <1>2, OtherDeath DEF LogInv, AddAgentType
    <2> QED  BY <1>1, <2>1, SilentLogInv
  <1>3. CASE \E type \in DOMAIN agentTypes : BirthInstance(type)
    <2>1. DeathInv' /\ UNCHANGED <<now, log>>
      BY <1>3, BirthInstanceDeath DEF LogInv, BirthInstance
    <2> QED  BY <1>1, <2>1, SilentLogInv
  <1>4. CASE Challenge
    <2> PICK i \in DOMAIN instances : IssueHolderChallenge(i)
      BY <1>4 DEF Challenge
    <2> DEFINE line == [Line("challenge", i, 0) EXCEPT !.expires = now + ChallengeWindow]
    <2>1. log' = Append(log, line) /\ UNCHANGED now
      BY DEF IssueHolderChallenge
    <2>2. ~Acts(line) /\ ~Spends(line) /\ line.op # "spawn" /\ line.time = now
      BY DEF Line, Acts, Spends
    <2> HIDE DEF line
    <2>3. DeathInv'
      BY ChallengeDeath DEF LogInv
    <2> QED  BY <1>1, <2>1, <2>2, <2>3, NoProof, LineLogInv
  <1> QED  BY <1>2, <1>3, <1>4

LEMMA AloneMoves ==
    ASSUME JobsOK, NEW p \in Processes, \A q \in Processes : q # p => job[q] = Idle,
           AloneStep(p)
    PROVE  AloneInv'
  <1> PICK next \in Jobs : Goto(p, next) /\ JobAlone(next)'
    BY DEF AloneStep
  <1>1. /\ job'[p] = next
        /\ \A q \in Processes : q # p => job'[q] = Idle
    BY DEF JobsOK, Goto
  <1>2. \A q \in Processes : \A j : j = job'[q] => JobAlone(j)'
    BY <1>1, AloneThen
  <1>3. \A q, r \in Processes : job'[q] # Idle /\ job'[r] # Idle => q = r
    BY <1>1
  <1> QED  BY <1>2, <1>3 DEF AloneInv, AloneStep

LEMMA AloneNext ==
    ASSUME ProcessesInv, AloneInv, [PNext]_allVars
    PROVE  AloneInv'
  <1> SUFFICES ASSUME trouble' # "overlap" PROVE AloneInv'
    BY DEF AloneInv
  <1>0. TypeOK /\ JobsOK /\ LoggedParents
    BY DEF ProcessesInv
  <1>1. trouble # "overlap"
    BY DEF PNext, Start, allVars
  <1>2. /\ LogInv
        /\ \A p, q \in Processes : job[p] # Idle /\ job[q] # Idle => p = q
        /\ \A p \in Processes : JobAlone(job[p])
    BY <1>1 DEF AloneInv
  <1>3. CASE Start /\ OneStep
    <2>1. \A p \in Processes : job'[p] = Idle
      BY <1>3 DEF Start, OneStep
    <2>2. LogInv'
      BY <1>0, <1>2, <1>3, OneStepLog DEF OneStep
    <2>3. \A p \in Processes : \A j : j = job'[p] => JobAlone(j)'
      BY <2>1, AloneThen
    <2> QED  BY <2>1, <2>2, <2>3 DEF AloneInv
  <1>4. CASE Start /\ \E p \in Processes : Begin(p)
    <2> PICK p \in Processes : Begin(p)
      BY <1>4
    <2>1. \A q \in Processes : job[q] = Idle
      BY <1>4 DEF Start
    <2> QED  BY <1>0, <1>2, <2>1, BeginStep, AloneMoves
  <1>5. ASSUME NEW p \in Processes, Continue(p) PROVE AloneInv'
    <2>1. job[p].step # "idle"
      BY <1>5 DEF Continue, Spend, ExamineSpawn, SaveInstance, SaveCapability,
                  AppendIssuanceLine, Evaluate, RecordDecision, SaveKilledInstance,
                  AppendInstanceLine, SaveKilledChain, AppendCapabilityLine, Killed, At
    <2>2. \A q \in Processes : q # p => job[q] = Idle
      BY <1>2, <2>1, JobKinds
    <2> QED  BY <1>0, <1>2, <1>5, <2>2, ContinueStep, AloneMoves
  <1>6. ASSUME NEW p \in Processes, Crash(p) PROVE AloneInv'
    <2>1. \A q \in Processes : q # p => job[q] = Idle
      BY <1>2, <1>6 DEF Crash
    <2> QED  BY <1>0, <1>2, <1>6, <2>1, StopStep, AloneMoves
  <1>7. CASE UNCHANGED allVars
    <2>1. UNCHANGED vars /\ UNCHANGED job
      BY <1>7 DEF allVars
    <2>2. LogInv'
      <3>1. DeathInv' /\ UNCHANGED <<now, log>>
        BY <1>0, <1>2, <2>1, OtherDeath DEF LogInv, vars
      <3> QED  BY <1>0, <1>2, <2>1, <3>1, StillStep, SilentLogInv
    <2>3. \A p \in Processes : \A j : j = job'[p] => JobAlone(j)'
      BY <1>2, <2>1, AloneStill
    <2> QED  BY <1>2, <2>1, <2>2, <2>3 DEF AloneInv
  <1> QED  BY <1>3, <1>4, <1>5, <1>6, <1>7 DEF PNext, Start

LEMMA AloneInit == PInit => AloneInv
  <1> SUFFICES ASSUME PInit PROVE AloneInv
    OBVIOUS
  <1>1. DeathInv
    BY DeathInit DEF PInit
  <1>2. log = <<>> /\ job = [p \in Processes |-> Idle]
    BY DEF PInit, Init
  <1>3. ProofInv /\ LogNames
    BY <1>2 DEF ProofInv, OneProofOneAct, LogNames
  <1> QED  BY <1>1, <1>2, <1>3, AloneSuffices DEF AloneInv, LogInv

LEMMA AloneCorrect == PSpec => []AloneInv
  BY ProcessesCorrect, AloneInit, AloneNext, PTL DEF PSpec

------------------------------------------------------------------------------
(* The theorems.                                                             *)

\* However the processes interleave and wherever they die, the records keep
\* their types and name only records that are there, and so does every operation
\* that is under way.
THEOREM ProcessesSafe == PSpec => [](TypeOK /\ JobsOK)
  <1>1. ProcessesInv => TypeOK /\ JobsOK
    BY DEF ProcessesInv
  <1> QED  BY <1>1, ProcessesCorrect, PTL

\* ActsRespectDeath holds for any number of processes: what a decision allows is
\* not hit by any kill line it read, nor is anything it was derived from.
THEOREM ProcessesRespectDeath == PSpec => []ActsRespectDeath
  <1>1. ProcessesInv => ActsRespectDeath
    BY DEF ProcessesInv, EvaluatedInv
  <1> QED  BY <1>1, ProcessesCorrect, PTL

\* OnlyLoggedCapabilitiesAct holds for any number of processes: a crash in the
\* middle of an issuance leaves nothing behind that can act.
THEOREM ProcessesActLogged == PSpec => []OnlyLoggedCapabilitiesAct
  <1>1. ProcessesInv => OnlyLoggedCapabilitiesAct
    BY DEF ProcessesInv, EvaluatedInv
  <1> QED  BY <1>1, ProcessesCorrect, PTL

\* CrashedKillReachesDescendants holds for any number of processes: a crash,
\* wherever it strikes, leaves no descendant of what a kill line names unnamed,
\* as long as no operations overlap.
THEOREM CrashedKillReaches == PSpec => []CrashedKillReachesDescendants
  <1>1. AloneInv => CrashedKillReachesDescendants
    BY DEF AloneInv, LogInv, DeathInv, CrashedKillReachesDescendants
  <1> QED  BY <1>1, AloneCorrect, PTL

\* CrashedProofServesOnce holds for any number of processes: a crash, wherever
\* it strikes, lets no proof serve twice, as long as no operations overlap.
THEOREM CrashedProofServes == PSpec => []CrashedProofServesOnce
  <1>1. AloneInv => CrashedProofServesOnce
    BY DEF AloneInv, LogInv, ProofInv, CrashedProofServesOnce
  <1> QED  BY <1>1, AloneCorrect, PTL
==============================================================================
