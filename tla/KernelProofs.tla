---------------------------- MODULE KernelProofs -----------------------------
(***************************************************************************)
(* Theorems about Kernel, for every value of its constants: its types, the *)
(* reach of death and of the seal, and the bounds of authority.            *)
(***************************************************************************)
EXTENDS Kernel, TLAPS

------------------------------------------------------------------------------
(* Sequences, in the form the steps below need.                              *)

LEMMA AppendFacts ==
    ASSUME NEW S, NEW s \in Seq(S), NEW e \in S
    PROVE  /\ Append(s, e) \in Seq(S)
           /\ Len(Append(s, e)) = Len(s) + 1
           /\ DOMAIN s = 1..Len(s)
           /\ DOMAIN Append(s, e) = 1..(Len(s) + 1)
           /\ \A k \in DOMAIN s : Append(s, e)[k] = s[k]
           /\ Append(s, e)[Len(s) + 1] = e
  OBVIOUS

LEMMA RewriteFacts ==
    ASSUME NEW S, NEW s \in Seq(S), NEW f \in [DOMAIN s -> S]
    PROVE  f \in Seq(S) /\ Len(f) = Len(s) /\ DOMAIN f = DOMAIN s
  OBVIOUS

LEMMA ElementFacts ==
    ASSUME NEW S, NEW s \in Seq(S), NEW k \in DOMAIN s
    PROVE  s[k] \in S /\ k \in Nat /\ k >= 1 /\ k <= Len(s)
  OBVIOUS

------------------------------------------------------------------------------
(* Types.                                                                    *)

LEMMA LifetimeType ==
    ASSUME TypeOK, NEW type \in DOMAIN agentTypes
    PROVE  now + agentTypes[type].lifetime \in Nat
  <1>1. agentTypes[type] \in AgentType
    BY ElementFacts DEF TypeOK
  <1>2. agentTypes[type].lifetime \in Nat
    BY <1>1 DEF AgentType
  <1> QED  BY <1>2 DEF TypeOK

LEMMA LineType ==
    ASSUME TypeOK, NEW op \in Operations, NEW i \in Nat, NEW c \in Nat
    PROVE  Line(op, i, c) \in LogLine
  <1>1. <<>> \in Seq(STRING)
    OBVIOUS
  <1> QED  BY <1>1 DEF TypeOK, Line, LogLine

\* An instance that is appended, and what the records say of it afterwards.
LEMMA NewInstanceOK ==
    ASSUME TypeOK, NEW type \in DOMAIN agentTypes,
           NEW parent \in DOMAIN instances \union {0}
    PROVE  LET s == Append(instances, NewInstance(type, parent))
           IN  /\ NewInstance(type, parent) \in InstanceRecord
               /\ s \in Seq(InstanceRecord)
               /\ Len(s) = Len(instances) + 1
               /\ DOMAIN instances \subseteq DOMAIN s
               /\ Len(instances) + 1 \in DOMAIN s
               /\ \A i \in DOMAIN s : s[i].type \in DOMAIN agentTypes /\ s[i].parent < i
  <1> DEFINE e == NewInstance(type, parent)
             s == Append(instances, e)
  <1>1. now + agentTypes[type].lifetime \in Nat /\ type \in Nat
    BY LifetimeType, ElementFacts DEF TypeOK
  <1>2. parent \in Nat /\ parent < Len(instances) + 1
    BY ElementFacts DEF TypeOK
  <1>3. e \in InstanceRecord /\ e.type = type /\ e.parent = parent
    BY <1>1, <1>2 DEF NewInstance, InstanceRecord
  <1> HIDE DEF e
  <1>4. /\ instances \in Seq(InstanceRecord)
        /\ \A i \in DOMAIN instances :
              instances[i].type \in DOMAIN agentTypes /\ instances[i].parent < i
    BY DEF TypeOK
  <1>5. /\ s \in Seq(InstanceRecord)
        /\ Len(s) = Len(instances) + 1
        /\ DOMAIN instances = 1..Len(instances)
        /\ DOMAIN s = 1..(Len(instances) + 1)
        /\ \A k \in DOMAIN instances : s[k] = instances[k]
        /\ s[Len(instances) + 1] = e
    BY <1>3, <1>4, AppendFacts
  <1> HIDE DEF s
  <1>6. \A i \in DOMAIN s : s[i].type \in DOMAIN agentTypes /\ s[i].parent < i
    BY <1>2, <1>3, <1>4, <1>5
  <1>7. DOMAIN instances \subseteq DOMAIN s /\ Len(instances) + 1 \in DOMAIN s
    BY <1>4, <1>5
  <1> QED  BY <1>3, <1>5, <1>6, <1>7 DEF s, e

\* A capability, its chain and its line, however they are issued.
LEMMA IssueOK ==
    ASSUME TypeOK,
           NEW capability \in CapabilityRecord, NEW chain \in ChainRecord,
           NEW op \in IssuanceOperations, NEW lines \in Seq(LogLine),
           Issue(capability, chain, op, lines),
           capability.inst \in DOMAIN instances',
           chain.parent < Len(capabilities) + 1,
           instances' \in Seq(InstanceRecord),
           DOMAIN instances \subseteq DOMAIN instances',
           \A i \in DOMAIN instances' :
              instances'[i].type \in DOMAIN agentTypes /\ instances'[i].parent < i,
           UNCHANGED <<now, killDate, agentTypes>>
    PROVE  TypeOK'
  <1>1. Line(op, capability.inst, Len(capabilities) + 1) \in LogLine
    BY LineType DEF TypeOK, Operations, CapabilityRecord
  <1>2. log' \in Seq(LogLine)
    BY <1>1, AppendFacts DEF Issue
  <1>3. /\ capabilities' \in Seq(CapabilityRecord)
        /\ chains' \in Seq(ChainRecord)
        /\ Len(chains') = Len(capabilities')
    BY AppendFacts DEF Issue, TypeOK
  <1>4. \A c \in DOMAIN capabilities' : capabilities'[c].inst \in DOMAIN instances'
    BY AppendFacts DEF Issue, TypeOK
  <1>5. \A c \in DOMAIN chains' : chains'[c].parent < c
    <2>1. /\ chains' = Append(chains, chain) /\ chains \in Seq(ChainRecord)
          /\ Len(chains) = Len(capabilities) /\ Len(chains) \in Nat
          /\ \A c \in DOMAIN chains : chains[c].parent < c
      BY DEF Issue, TypeOK
    <2>2. /\ DOMAIN chains = 1..Len(chains)
          /\ DOMAIN chains' = 1..(Len(chains) + 1)
          /\ \A k \in DOMAIN chains : chains'[k] = chains[k]
          /\ chains'[Len(chains) + 1] = chain
      BY <2>1, AppendFacts
    <2> QED  BY <2>1, <2>2
  <1> QED  BY <1>2, <1>3, <1>4, <1>5 DEF TypeOK

LEMMA NewCapabilityOK ==
    ASSUME TypeOK, NEW i \in Nat, NEW instance \in InstanceRecord,
           instance.type \in DOMAIN agentTypes,
           NEW intent \in Intents, NEW audience \in Audiences, NEW behalf \in ActAuthorities
    PROVE  /\ NewCapability(i, instance, intent, audience, behalf) \in CapabilityRecord
           /\ NewCapability(i, instance, intent, audience, behalf).inst = i
  <1>1. now + agentTypes[instance.type].lifetime \in Nat
    BY LifetimeType
  <1>2. instance.expires \in Nat /\ Len(capabilities) + 1 \in Nat
    BY DEF TypeOK, InstanceRecord
  <1>3. Earlier(now + agentTypes[instance.type].lifetime, instance.expires) \in Nat
    BY <1>1, <1>2 DEF Earlier
  <1> QED  BY <1>2, <1>3, KernelAssumption DEF NewCapability, CapabilityRecord

LEMMA NewChainOK ==
    ASSUME NEW parent \in Nat, NEW hop \in Nat
    PROVE  NewChain(parent, hop) \in ChainRecord /\ NewChain(parent, hop).parent = parent
  BY DEF NewChain, ChainRecord

\* The chain of a capability derived from c.
LEMMA ChildChainOK ==
    ASSUME TypeOK, NEW c \in DOMAIN capabilities
    PROVE  /\ c \in DOMAIN chains /\ c \in Nat /\ c < Len(capabilities) + 1
           /\ NewChain(c, chains[c].hop + 1) \in ChainRecord
           /\ NewChain(c, chains[c].hop + 1).parent = c
  <1>1. c \in DOMAIN chains /\ c \in Nat /\ c < Len(capabilities) + 1
    BY ElementFacts DEF TypeOK
  <1>2. chains[c] \in ChainRecord
    BY <1>1, ElementFacts DEF TypeOK
  <1>3. chains[c].hop + 1 \in Nat
    BY <1>2 DEF ChainRecord
  <1> QED  BY <1>1, <1>3, NewChainOK

LEMMA InitOK == Init => TypeOK
  BY KernelAssumption DEF Init, TypeOK

LEMMA AddAgentTypeOK ==
    ASSUME TypeOK, NEW type \in TypeChoices, AddAgentType(type)
    PROVE  TypeOK'
  <1>1. type \in AgentType
    BY KernelAssumption
  <1>2. /\ agentTypes' \in Seq(AgentType)
        /\ DOMAIN agentTypes \subseteq DOMAIN agentTypes'
    BY <1>1, AppendFacts DEF AddAgentType, TypeOK
  <1> QED  BY <1>2 DEF AddAgentType, TypeOK

LEMMA BirthInstanceOK ==
    ASSUME TypeOK, NEW type \in DOMAIN agentTypes, BirthInstance(type)
    PROVE  TypeOK'
  BY NewInstanceOK DEF BirthInstance, TypeOK

LEMMA BirthWriteOK ==
    ASSUME TypeOK, NEW type \in DOMAIN agentTypes, NEW intent \in Intents,
           NEW audience \in Audiences, NEW behalf \in ActAuthorities,
           BirthWrite(type, intent, audience, behalf)
    PROVE  TypeOK'
  <1> DEFINE i == Len(instances) + 1
             instance == NewInstance(type, 0)
             capability == NewCapability(i, instance, intent, audience, behalf)
  <1>1. /\ instance \in InstanceRecord
        /\ instances' \in Seq(InstanceRecord)
        /\ DOMAIN instances \subseteq DOMAIN instances'
        /\ i \in DOMAIN instances'
        /\ \A j \in DOMAIN instances' :
              instances'[j].type \in DOMAIN agentTypes /\ instances'[j].parent < j
    BY NewInstanceOK DEF BirthWrite
  <1>2. i \in Nat /\ instance.type \in DOMAIN agentTypes
    BY DEF TypeOK, NewInstance
  <1>3. capability \in CapabilityRecord /\ capability.inst = i
    BY <1>1, <1>2, NewCapabilityOK
  <1>4. NewChain(0, 0) \in ChainRecord /\ NewChain(0, 0).parent = 0
    BY NewChainOK
  <1>5. Issue(capability, NewChain(0, 0), "birth_write", log)
    BY DEF BirthWrite
  <1>6. UNCHANGED <<now, killDate, agentTypes>>
    BY DEF BirthWrite
  <1>7. "birth_write" \in IssuanceOperations /\ log \in Seq(LogLine) /\ 0 < Len(capabilities) + 1
    BY DEF IssuanceOperations, TypeOK
  <1> HIDE DEF i, instance, capability
  <1> QED  BY <1>1, <1>3, <1>4, <1>5, <1>6, <1>7, IssueOK

LEMMA MintCapabilityOK ==
    ASSUME TypeOK, NEW i \in DOMAIN instances, NEW intent \in Intents,
           NEW audience \in Audiences, NEW behalf \in ActAuthorities,
           MintCapability(i, intent, audience, behalf)
    PROVE  TypeOK'
  <1> DEFINE capability == NewCapability(i, instances[i], intent, audience, behalf)
  <1>1. /\ instances[i] \in InstanceRecord /\ i \in Nat
        /\ instances[i].type \in DOMAIN agentTypes
    BY ElementFacts DEF TypeOK
  <1>2. capability \in CapabilityRecord /\ capability.inst = i
    BY <1>1, NewCapabilityOK
  <1>3. NewChain(0, 0) \in ChainRecord /\ NewChain(0, 0).parent = 0
    BY NewChainOK
  <1>4. /\ Issue(capability, NewChain(0, 0), "mint", log)
        /\ UNCHANGED <<now, killDate, agentTypes, instances>>
    BY DEF MintCapability
  <1>5. /\ "mint" \in IssuanceOperations /\ log \in Seq(LogLine) /\ 0 < Len(capabilities) + 1
        /\ instances \in Seq(InstanceRecord)
        /\ \A j \in DOMAIN instances :
              instances[j].type \in DOMAIN agentTypes /\ instances[j].parent < j
    BY DEF IssuanceOperations, TypeOK
  <1> HIDE DEF capability
  <1> QED  BY <1>2, <1>3, <1>4, <1>5, IssueOK

\* Operations that only write the log, and those that only move the clock or
\* the seal.
LEMMA LogOnlyOK ==
    ASSUME TypeOK, log' \in Seq(LogLine), UNCHANGED <<now, records>>,
           killDate' \in Nat \union {NoSeal}
    PROVE  TypeOK'
  BY DEF TypeOK, records

LEMMA ChallengeOK ==
    ASSUME TypeOK, NEW i \in DOMAIN instances, IssueHolderChallenge(i)
    PROVE  TypeOK'
  <1>1. i \in Nat /\ now + ChallengeWindow \in Nat
    BY KernelAssumption, ElementFacts DEF TypeOK
  <1>2. Line("challenge", i, 0) \in LogLine
    BY <1>1, LineType DEF Operations
  <1>3. [Line("challenge", i, 0) EXCEPT !.expires = now + ChallengeWindow] \in LogLine
    BY <1>1, <1>2 DEF LogLine
  <1>4. log' \in Seq(LogLine)
    BY <1>3, AppendFacts DEF IssueHolderChallenge, TypeOK
  <1> QED  BY <1>4, LogOnlyOK DEF IssueHolderChallenge, TypeOK

LEMMA SpentOK ==
    ASSUME TypeOK, NEW i \in DOMAIN instances, NEW nonce \in DOMAIN log
    PROVE  /\ LogWithSpent(i, nonce) \in Seq(LogLine)
           /\ [Line("challenge_spent", i, 0) EXCEPT !.nonce = nonce] \in LogLine
  <1>1. i \in Nat /\ nonce \in Nat
    BY ElementFacts DEF TypeOK
  <1>2. Line("challenge_spent", i, 0) \in LogLine
    BY <1>1, LineType DEF Operations
  <1>3. [Line("challenge_spent", i, 0) EXCEPT !.nonce = nonce] \in LogLine
    BY <1>1, <1>2 DEF LogLine
  <1> QED  BY <1>3, AppendFacts DEF LogWithSpent, TypeOK

LEMMA SpawnChildOK ==
    ASSUME TypeOK, NEW i \in DOMAIN instances, NEW c \in DOMAIN capabilities,
           NEW intent \in Intents, NEW audience \in Audiences,
           NEW behalf \in ActAuthorities, NEW nonce \in Nonces,
           SpawnChild(i, c, intent, audience, behalf, nonce)
    PROVE  TypeOK'
  <1>1. nonce \in DOMAIN log
    BY DEF Nonces
  <1>2. LogWithSpent(i, nonce) \in Seq(LogLine)
    BY <1>1, SpentOK
  <1>3. CASE SpawnAllowed(i, c, intent, audience, behalf)
    <2> DEFINE child == Len(instances) + 1
               instance == NewInstance(instances[i].type, i)
               capability == NewCapability(child, instance, intent, audience, behalf)
               chain == NewChain(c, chains[c].hop + 1)
    <2>1. instances[i].type \in DOMAIN agentTypes /\ child \in Nat
      BY DEF TypeOK
    <2>2. /\ instances' = Append(instances, instance)
          /\ Issue(capability, chain, "spawn", LogWithSpent(i, nonce))
          /\ UNCHANGED <<now, killDate, agentTypes>>
      BY <1>3 DEF SpawnChild
    <2>3. /\ instance \in InstanceRecord /\ instance.type = instances[i].type
          /\ instances' \in Seq(InstanceRecord)
          /\ DOMAIN instances \subseteq DOMAIN instances'
          /\ child \in DOMAIN instances'
          /\ \A j \in DOMAIN instances' :
                instances'[j].type \in DOMAIN agentTypes /\ instances'[j].parent < j
      BY <2>1, <2>2, NewInstanceOK DEF NewInstance
    <2>4. capability \in CapabilityRecord /\ capability.inst = child
      BY <2>1, <2>3, NewCapabilityOK
    <2>5. chain \in ChainRecord /\ chain.parent = c /\ c < Len(capabilities) + 1
      BY ChildChainOK
    <2>6. "spawn" \in IssuanceOperations
      BY DEF IssuanceOperations
    <2> HIDE DEF child, instance, capability, chain
    <2> QED  BY <1>2, <2>2, <2>3, <2>4, <2>5, <2>6, IssueOK
  <1>4. CASE ~SpawnAllowed(i, c, intent, audience, behalf)
    BY <1>2, <1>4, LogOnlyOK DEF SpawnChild, TypeOK
  <1> QED  BY <1>3, <1>4

LEMMA AttenuateCapabilityOK ==
    ASSUME TypeOK, NEW c \in DOMAIN capabilities, NEW intent \in Intents,
           NEW audience \in Audiences, AttenuateCapability(c, intent, audience)
    PROVE  TypeOK'
  <1> DEFINE child == [capabilities[c] EXCEPT
                          !.intent = intent, !.audience = audience,
                          !.token = @ \union {Len(capabilities) + 1}]
             chain == NewChain(c, chains[c].hop + 1)
  <1>1. /\ Issue(child, chain, "attenuate", log)
        /\ UNCHANGED <<now, killDate, agentTypes, instances>>
    BY DEF AttenuateCapability
  <1>2. /\ capabilities[c] \in CapabilityRecord /\ capabilities[c].inst \in DOMAIN instances
        /\ Len(capabilities) + 1 \in Nat
    BY ElementFacts DEF TypeOK
  <1>3. child \in CapabilityRecord /\ child.inst = capabilities[c].inst
    BY <1>2, KernelAssumption DEF CapabilityRecord
  <1>4. chain \in ChainRecord /\ chain.parent = c /\ c < Len(capabilities) + 1
    BY ChildChainOK
  <1>5. /\ "attenuate" \in IssuanceOperations /\ log \in Seq(LogLine)
        /\ instances \in Seq(InstanceRecord)
        /\ \A j \in DOMAIN instances :
              instances[j].type \in DOMAIN agentTypes /\ instances[j].parent < j
    BY DEF IssuanceOperations, TypeOK
  <1> HIDE DEF child, chain
  <1> QED  BY <1>1, <1>2, <1>3, <1>4, <1>5, IssueOK

LEMMA DecideOK ==
    ASSUME TypeOK, NEW op \in DecisionOperations, NEW i \in DOMAIN instances,
           NEW c \in DOMAIN capabilities, NEW intent \in Intents,
           NEW audience \in Audiences, NEW behalf \in ActAuthorities,
           NEW nonce \in Nonces,
           Decide(op, i, c, intent, audience, behalf, nonce)
    PROVE  TypeOK'
  <1> DEFINE line == [Line(op, i, c) EXCEPT !.intent = intent, !.audience = audience,
                                            !.allowed = TRUE]
  <1>1. nonce \in DOMAIN log
    BY DEF Nonces
  <1>2. LogWithSpent(i, nonce) \in Seq(LogLine)
    BY <1>1, SpentOK
  <1>3. i \in Nat /\ c \in Nat
    BY ElementFacts DEF TypeOK
  <1>4. Line(op, i, c) \in LogLine
    BY <1>3, LineType DEF Operations
  <1>5. line \in LogLine
    BY <1>4, KernelAssumption DEF LogLine
  <1>6. log' \in Seq(LogLine)
    BY <1>2, <1>5, AppendFacts DEF Decide
  <1> QED  BY <1>6, LogOnlyOK DEF Decide, TypeOK

LEMMA KillCapabilityOK ==
    ASSUME TypeOK, NEW c \in DOMAIN capabilities, KillCapability(c)
    PROVE  TypeOK'
  <1>0. capabilities[c] \in CapabilityRecord /\ c \in Nat /\ c \in DOMAIN chains
    BY ElementFacts DEF TypeOK
  <1>1. capabilities[c].inst \in Nat
    BY <1>0 DEF CapabilityRecord
  <1>2. Line("kill_capability", capabilities[c].inst, c) \in LogLine
    BY <1>0, <1>1, LineType DEF Operations, KillOperations
  <1>3. Tree(CapabilityParent, {c}) \subseteq Nat
    BY ElementFacts DEF Tree, CapabilityParent, TypeOK
  <1>4. log' \in Seq(LogLine)
    <2> DEFINE line == [Line("kill_capability", capabilities[c].inst, c) EXCEPT
                           !.killedCapabilities = Tree(CapabilityParent, {c}),
                           !.revoked = {c}]
    <2>1. line \in LogLine
      BY <1>0, <1>2, <1>3 DEF LogLine
    <2> QED  BY <2>1, AppendFacts DEF KillCapability, TypeOK
  <1>5. /\ chains' \in Seq(ChainRecord) /\ DOMAIN chains' = DOMAIN chains
        /\ Len(chains') = Len(chains)
        /\ \A d \in DOMAIN chains : chains'[d].parent = chains[d].parent
    <2>1. \A d \in DOMAIN chains : chains[d] \in ChainRecord
      BY ElementFacts DEF TypeOK
    <2>2. /\ chains' \in [DOMAIN chains -> ChainRecord]
          /\ \A d \in DOMAIN chains : chains'[d].parent = chains[d].parent
      BY <1>0, <2>1 DEF KillCapability, ChainRecord
    <2> QED  BY <2>2, RewriteFacts DEF TypeOK
  <1> QED  BY <1>4, <1>5 DEF KillCapability, TypeOK

LEMMA KillInstanceOK ==
    ASSUME TypeOK, NEW i \in DOMAIN instances, KillInstance(i)
    PROVE  TypeOK'
  <1> DEFINE killed == Tree(InstanceParent, {i})
             held == UNION {CapabilitiesOf(j) : j \in killed}
             derived == Tree(CapabilityParent, held)
  <1>1. i \in Nat
    BY ElementFacts DEF TypeOK
  <1>2. killed \subseteq Nat /\ derived \subseteq Nat
    BY ElementFacts DEF Tree, InstanceParent, CapabilityParent, TypeOK
  <1>3. Line("kill_instance", i, 0) \in LogLine
    BY <1>1, LineType DEF Operations, KillOperations
  <1> HIDE DEF killed, derived
  <1>4. log' \in Seq(LogLine)
    <2> DEFINE line == [Line("kill_instance", i, 0) EXCEPT
                           !.killedInstances = killed,
                           !.killedCapabilities = derived,
                           !.revoked = derived]
    <2>1. line \in LogLine
      BY <1>2, <1>3 DEF LogLine
    <2> HIDE DEF line
    <2>2. log' = Append(log, line)
      BY DEF KillInstance, line, killed, derived
    <2> QED  BY <2>1, <2>2, AppendFacts DEF TypeOK
  <1>5. /\ instances' = [j \in DOMAIN instances |->
                            [instances[j] EXCEPT !.live = @ /\ j \notin killed]]
        /\ chains' = [c \in DOMAIN chains |->
                            [chains[c] EXCEPT !.revoked = @ \/ c \in derived]]
        /\ UNCHANGED <<now, killDate, agentTypes, capabilities>>
    BY DEF KillInstance, killed, derived
  <1>6. /\ instances' \in Seq(InstanceRecord) /\ DOMAIN instances' = DOMAIN instances
        /\ \A j \in DOMAIN instances : /\ instances'[j].type = instances[j].type
                                       /\ instances'[j].parent = instances[j].parent
    <2>1. \A j \in DOMAIN instances : instances[j] \in InstanceRecord
      BY ElementFacts DEF TypeOK
    <2>2. /\ instances' \in [DOMAIN instances -> InstanceRecord]
          /\ \A j \in DOMAIN instances : /\ instances'[j].type = instances[j].type
                                         /\ instances'[j].parent = instances[j].parent
      BY <1>5, <2>1 DEF InstanceRecord
    <2> QED  BY <2>2, RewriteFacts DEF TypeOK
  <1>7. /\ chains' \in Seq(ChainRecord) /\ DOMAIN chains' = DOMAIN chains
        /\ Len(chains') = Len(chains)
        /\ \A c \in DOMAIN chains : chains'[c].parent = chains[c].parent
    <2>1. \A c \in DOMAIN chains : chains[c] \in ChainRecord
      BY ElementFacts DEF TypeOK
    <2>2. /\ chains' \in [DOMAIN chains -> ChainRecord]
          /\ \A c \in DOMAIN chains : chains'[c].parent = chains[c].parent
      BY <1>5, <2>1 DEF ChainRecord
    <2> QED  BY <2>2, RewriteFacts DEF TypeOK
  <1> QED  BY <1>4, <1>5, <1>6, <1>7 DEF TypeOK

LEMMA SealIssuerOK ==
    ASSUME TypeOK, NEW after \in SealDelays, SealIssuer(after)
    PROVE  TypeOK'
  <1>1. Line("issuer_seal", 0, 0) \in LogLine
    BY LineType DEF Operations
  <1>2. log' \in Seq(LogLine)
    BY <1>1, AppendFacts DEF SealIssuer, TypeOK
  <1>3. killDate' \in Nat
    BY KernelAssumption DEF SealIssuer, TypeOK
  <1> QED  BY <1>2, <1>3, LogOnlyOK DEF SealIssuer

LEMMA TickOK == TypeOK /\ Tick => TypeOK'
  BY DEF TypeOK, Tick, records

LEMMA NextOK == TypeOK /\ [Next]_vars => TypeOK'
  <1> SUFFICES ASSUME TypeOK, [Next]_vars PROVE TypeOK'
    OBVIOUS
  <1>1. CASE \E type \in TypeChoices : AddAgentType(type)
    BY <1>1, AddAgentTypeOK
  <1>2. CASE Birth
    BY <1>2, BirthInstanceOK, BirthWriteOK DEF Birth
  <1>3. CASE Mint
    BY <1>3, MintCapabilityOK DEF Mint
  <1>4. CASE Challenge
    BY <1>4, ChallengeOK DEF Challenge
  <1>5. CASE Spawn
    BY <1>5, SpawnChildOK DEF Spawn
  <1>6. CASE Attenuate
    BY <1>6, AttenuateCapabilityOK DEF Attenuate
  <1>7. CASE Decision
    BY <1>7, DecideOK DEF Decision
  <1>8. CASE \E c \in DOMAIN capabilities : KillCapability(c)
    BY <1>8, KillCapabilityOK
  <1>9. CASE \E i \in DOMAIN instances : KillInstance(i)
    BY <1>9, KillInstanceOK
  <1>10. CASE \E after \in SealDelays : SealIssuer(after)
    BY <1>10, SealIssuerOK
  <1>11. CASE Tick
    BY <1>11, TickOK
  <1>12. CASE UNCHANGED vars
    BY <1>12 DEF vars, TypeOK
  <1> QED
    BY <1>1, <1>2, <1>3, <1>4, <1>5, <1>6, <1>7, <1>8, <1>9, <1>10, <1>11, <1>12
       DEF Next

\* Every reachable store is well formed: records name records that exist, and
\* parents are older than their children, so no walk can meet a cycle.
THEOREM TypeCorrect == Spec => []TypeOK
  BY InitOK, NextOK, PTL DEF Spec

------------------------------------------------------------------------------
(* Death reaches everything derived: the safety argument of the kills.       *)
(*                                                                           *)
(* The inductive invariant adds to the property that kill lines name only    *)
(* records of the store (KillsNameRecords): otherwise a record issued later  *)
(* could be born under a name the log already kills, and a kill cascade      *)
(* would not be closed under its own references.                             *)

\* Kill lines name records of the store.
KillsNameRecords ==
    \A p \in DOMAIN log :
        /\ log[p].op = "kill_instance" => log[p].inst \in DOMAIN instances
        /\ log[p].op \in KillOperations => log[p].cap \in DOMAIN capabilities \union {0}
        /\ log[p].killedInstances \subseteq DOMAIN instances
        /\ log[p].killedCapabilities \subseteq DOMAIN capabilities

DeathInv == KillsNameRecords /\ DeathReachesDescendants

------------------------------------------------------------------------------
(* Sequences and trees.                                                      *)

LEMMA AppendIndex ==
    ASSUME NEW S, NEW s \in Seq(S), NEW e
    PROVE  /\ DOMAIN s = 1..Len(s) /\ Len(s) \in Nat
           /\ DOMAIN Append(s, e) = 1..(Len(s) + 1)
           /\ \A k \in DOMAIN s : Append(s, e)[k] = s[k]
           /\ Append(s, e)[Len(s) + 1] = e
  <1> DEFINE T == S \union {e}
  <1>1. s \in Seq(T) /\ e \in T
    OBVIOUS
  <1> HIDE DEF T
  <1> QED  BY <1>1, AppendFacts

\* A tree holds its roots, and the children of all it holds.
LEMMA TreeFacts ==
    ASSUME NEW parentOf, NEW roots, roots \subseteq DOMAIN parentOf
    PROVE  /\ roots \subseteq Tree(parentOf, roots)
           /\ Tree(parentOf, roots) \subseteq DOMAIN parentOf
           /\ \A d \in DOMAIN parentOf :
                 parentOf[d] \in Tree(parentOf, roots) => d \in Tree(parentOf, roots)
  BY DEF Tree

\* The tree is in every set that holds the roots and is closed under children.
LEMMA TreeLeast ==
    ASSUME NEW parentOf, NEW roots, NEW S \in SUBSET DOMAIN parentOf,
           roots \subseteq S,
           \A e \in DOMAIN parentOf : parentOf[e] \in S => e \in S
    PROVE  Tree(parentOf, roots) \subseteq S
  BY DEF Tree

------------------------------------------------------------------------------
(* What a step does to the log.                                              *)

\* The log grows by lines that kill nothing.
LogGrowsQuietly ==
    /\ DOMAIN log \subseteq DOMAIN log'
    /\ \A p \in DOMAIN log : log'[p] = log[p]
    /\ \A p \in DOMAIN log' \ DOMAIN log :
          /\ log'[p].op \notin KillOperations
          /\ log'[p].killedInstances = {} /\ log'[p].killedCapabilities = {}

\* A line of Line that is not a kill's, whatever else is put in it.
Quiet(line) ==
    line.op \notin KillOperations /\ line.killedInstances = {} /\ line.killedCapabilities = {}

LEMMA QuietLine ==
    ASSUME NEW op, op \notin KillOperations, NEW i, NEW c
    PROVE  Quiet(Line(op, i, c))
  BY DEF Quiet, Line

LEMMA OneQuietLine ==
    ASSUME TypeOK, NEW line, Quiet(line), log' = Append(log, line)
    PROVE  LogGrowsQuietly
  <1>1. /\ DOMAIN log = 1..Len(log) /\ Len(log) \in Nat
        /\ DOMAIN log' = 1..(Len(log) + 1)
        /\ \A k \in DOMAIN log : log'[k] = log[k]
        /\ log'[Len(log) + 1] = line
    BY AppendIndex DEF TypeOK
  <1> QED  BY <1>1 DEF LogGrowsQuietly, Quiet

LEMMA TwoQuietLines ==
    ASSUME TypeOK, NEW first, NEW second, first \in LogLine, Quiet(first), Quiet(second),
           log' = Append(Append(log, first), second)
    PROVE  LogGrowsQuietly
  <1> DEFINE lines == Append(log, first)
  <1>1. /\ lines \in Seq(LogLine) /\ DOMAIN log = 1..Len(log) /\ Len(log) \in Nat
        /\ Len(lines) = Len(log) + 1
        /\ \A k \in DOMAIN log : lines[k] = log[k]
        /\ lines[Len(log) + 1] = first
    BY AppendFacts DEF TypeOK
  <1>2. log' = Append(lines, second)
    OBVIOUS
  <1> HIDE DEF lines
  <1>3. /\ DOMAIN lines = 1..Len(lines)
        /\ DOMAIN log' = 1..(Len(lines) + 1)
        /\ \A k \in DOMAIN lines : log'[k] = lines[k]
        /\ log'[Len(lines) + 1] = second
    BY <1>1, <1>2, AppendIndex
  <1> QED  BY <1>1, <1>3 DEF LogGrowsQuietly, Quiet

\* Such a step kills nothing.
LEMMA QuietKills ==
    ASSUME LogGrowsQuietly, NEW x
    PROVE  /\ InstanceKilled(x)' <=> InstanceKilled(x)
           /\ CapabilityKilled(x)' <=> CapabilityKilled(x)
  BY DEF LogGrowsQuietly, InstanceKilled, CapabilityKilled, HitsInstance, HitsCapability,
         KillOperations

\* A step that issues nothing and kills nothing.
LEMMA QuietStep ==
    ASSUME DeathInv, LogGrowsQuietly, UNCHANGED <<instances, capabilities, chains>>
    PROVE  DeathInv'
  <1>1. KillsNameRecords'
    BY DEF DeathInv, KillsNameRecords, LogGrowsQuietly, KillOperations
  <1>2. DeathReachesDescendants'
    BY QuietKills DEF DeathInv, DeathReachesDescendants
  <1> QED  BY <1>1, <1>2 DEF DeathInv

\* A record that does not exist yet is not named by any kill line.
LEMMA UnbornNotKilled ==
    ASSUME TypeOK, KillsNameRecords
    PROVE  ~InstanceKilled(Len(instances) + 1) /\ ~CapabilityKilled(Len(capabilities) + 1)
  <1>1. /\ DOMAIN instances = 1..Len(instances) /\ Len(instances) \in Nat
        /\ DOMAIN capabilities = 1..Len(capabilities) /\ Len(capabilities) \in Nat
    BY DEF TypeOK
  <1> QED
    BY <1>1 DEF KillsNameRecords, InstanceKilled, CapabilityKilled, HitsInstance,
                HitsCapability, KillOperations

------------------------------------------------------------------------------
(* One step per action.                                                      *)

\* A capability is issued to an instance that is not killed, derived from
\* nothing or from a capability that is not killed; the instances it finds are
\* the old ones and at most one whose parent is not killed either.
LEMMA IssueStep ==
    ASSUME TypeOK, DeathInv, LogGrowsQuietly,
           NEW capability, NEW chain,
           capabilities' = Append(capabilities, capability),
           chains' = Append(chains, chain),
           ~InstanceKilled(capability.inst),
           chain.parent # 0 => ~CapabilityKilled(chain.parent),
           DOMAIN instances \subseteq DOMAIN instances',
           \A i \in DOMAIN instances : instances'[i] = instances[i],
           \A i \in DOMAIN instances' \ DOMAIN instances :
              instances'[i].parent # 0 => ~InstanceKilled(instances'[i].parent)
    PROVE  DeathInv'
  <1>1. /\ DOMAIN capabilities = 1..Len(capabilities) /\ Len(capabilities) \in Nat
        /\ DOMAIN capabilities' = 1..(Len(capabilities) + 1)
        /\ \A k \in DOMAIN capabilities : capabilities'[k] = capabilities[k]
        /\ capabilities'[Len(capabilities) + 1] = capability
    BY AppendIndex DEF TypeOK
  <1>2. /\ DOMAIN chains = 1..Len(capabilities)
        /\ DOMAIN chains' = 1..(Len(capabilities) + 1)
        /\ \A k \in DOMAIN chains : chains'[k] = chains[k]
        /\ chains'[Len(capabilities) + 1] = chain
    BY AppendIndex DEF TypeOK
  <1>3. KillsNameRecords'
    BY <1>1 DEF DeathInv, KillsNameRecords, LogGrowsQuietly, KillOperations
  <1>4. ASSUME NEW c \in DOMAIN chains', NEW d, d = chains'[c].parent,
               d # 0, CapabilityKilled(d)'
        PROVE  CapabilityKilled(c)'
    <2>1. CapabilityKilled(d)
      BY <1>4, QuietKills
    <2>2. c \in DOMAIN chains /\ chains'[c] = chains[c]
      BY <1>1, <1>2, <1>4, <2>1
    <2>3. CapabilityKilled(c)
      BY <1>4, <2>1, <2>2 DEF DeathInv, DeathReachesDescendants
    <2> QED  BY <2>3, QuietKills
  <1>5. ASSUME NEW i \in DOMAIN instances', NEW j, j = instances'[i].parent,
               j # 0, InstanceKilled(j)'
        PROVE  InstanceKilled(i)'
    <2>1. InstanceKilled(j)
      BY <1>5, QuietKills
    <2>2. i \in DOMAIN instances /\ instances'[i] = instances[i]
      BY <1>5, <2>1
    <2>3. InstanceKilled(i)
      BY <1>5, <2>1, <2>2 DEF DeathInv, DeathReachesDescendants
    <2> QED  BY <2>3, QuietKills
  <1>6. ASSUME NEW c \in DOMAIN capabilities', NEW i, i = capabilities'[c].inst,
               InstanceKilled(i)'
        PROVE  CapabilityKilled(c)'
    <2>1. InstanceKilled(i)
      BY <1>6, QuietKills
    <2>2. c \in DOMAIN capabilities /\ capabilities'[c] = capabilities[c]
      BY <1>1, <1>6, <2>1
    <2>3. CapabilityKilled(c)
      BY <1>6, <2>1, <2>2 DEF DeathInv, DeathReachesDescendants
    <2> QED  BY <2>3, QuietKills
  <1>7. DeathReachesDescendants'
    BY <1>4, <1>5, <1>6 DEF DeathReachesDescendants
  <1> QED  BY <1>3, <1>7 DEF DeathInv

\* What becomes of the instances when one is born.
LEMMA BornInstance ==
    ASSUME TypeOK, NEW instance, instances' = Append(instances, instance)
    PROVE  /\ DOMAIN instances \subseteq DOMAIN instances'
           /\ \A i \in DOMAIN instances : instances'[i] = instances[i]
           /\ \A i \in DOMAIN instances' \ DOMAIN instances :
                 i = Len(instances) + 1 /\ instances'[i] = instance
  BY AppendIndex DEF TypeOK

LEMMA BirthInstanceDeath ==
    ASSUME TypeOK, DeathInv, NEW type, BirthInstance(type)
    PROVE  DeathInv'
  <1>1. /\ DOMAIN instances \subseteq DOMAIN instances'
        /\ \A i \in DOMAIN instances : instances'[i] = instances[i]
        /\ \A i \in DOMAIN instances' \ DOMAIN instances : instances'[i].parent = 0
    BY BornInstance DEF BirthInstance, NewInstance
  <1>2. UNCHANGED <<capabilities, chains, log>>
    BY DEF BirthInstance
  <1>3. KillsNameRecords'
    BY <1>1, <1>2 DEF DeathInv, KillsNameRecords
  <1>4. \A x : /\ InstanceKilled(x)' <=> InstanceKilled(x)
               /\ CapabilityKilled(x)' <=> CapabilityKilled(x)
    BY <1>2 DEF InstanceKilled, CapabilityKilled, HitsInstance, HitsCapability
  <1>5. \A i \in DOMAIN instances' :
           instances'[i].parent # 0 => i \in DOMAIN instances
    BY <1>1
  <1>6. DeathReachesDescendants'
    BY <1>1, <1>2, <1>4, <1>5 DEF DeathInv, DeathReachesDescendants
  <1> QED  BY <1>3, <1>6 DEF DeathInv

LEMMA BirthWriteDeath ==
    ASSUME TypeOK, DeathInv, NEW type, NEW intent, NEW audience, NEW behalf,
           BirthWrite(type, intent, audience, behalf)
    PROVE  DeathInv'
  <1> DEFINE i == Len(instances) + 1
             capability == NewCapability(i, NewInstance(type, 0), intent, audience, behalf)
  <1>1. instances' = Append(instances, NewInstance(type, 0))
    BY DEF BirthWrite
  <1>2. /\ capabilities' = Append(capabilities, capability)
        /\ chains' = Append(chains, NewChain(0, 0))
        /\ log' = Append(log, Line("birth_write", i, Len(capabilities) + 1))
    BY DEF BirthWrite, Issue, NewCapability
  <1>3. capability.inst = i /\ NewChain(0, 0).parent = 0 /\ NewInstance(type, 0).parent = 0
    BY DEF NewCapability, NewChain, NewInstance
  <1>4. ~InstanceKilled(i)
    BY UnbornNotKilled DEF DeathInv
  <1>5. LogGrowsQuietly
    BY <1>2, QuietLine, OneQuietLine DEF KillOperations
  <1> HIDE DEF i, capability
  <1> QED  BY <1>1, <1>2, <1>3, <1>4, <1>5, BornInstance, IssueStep

LEMMA MintCapabilityDeath ==
    ASSUME TypeOK, DeathInv, NEW i, NEW intent, NEW audience, NEW behalf,
           MintCapability(i, intent, audience, behalf)
    PROVE  DeathInv'
  <1> DEFINE capability == NewCapability(i, instances[i], intent, audience, behalf)
  <1>1. /\ capabilities' = Append(capabilities, capability)
        /\ chains' = Append(chains, NewChain(0, 0))
        /\ log' = Append(log, Line("mint", i, Len(capabilities) + 1))
        /\ UNCHANGED instances
    BY DEF MintCapability, Issue, NewCapability
  <1>2. capability.inst = i /\ NewChain(0, 0).parent = 0
    BY DEF NewCapability, NewChain
  <1>3. ~InstanceKilled(i)
    BY DEF MintCapability, RequireLiveInstance, Live
  <1>4. LogGrowsQuietly
    BY <1>1, QuietLine, OneQuietLine DEF KillOperations
  <1> HIDE DEF capability
  <1> QED  BY <1>1, <1>2, <1>3, <1>4, IssueStep

LEMMA SpentQuietly ==
    ASSUME TypeOK, NEW i \in DOMAIN instances, NEW nonce \in DOMAIN log
    PROVE  \E spent \in LogLine : Quiet(spent) /\ LogWithSpent(i, nonce) = Append(log, spent)
  <1> DEFINE spent == [Line("challenge_spent", i, 0) EXCEPT !.nonce = nonce]
  <1>1. spent \in LogLine
    BY SpentOK
  <1>2. Quiet(spent)
    BY DEF Quiet, Line, KillOperations
  <1>3. LogWithSpent(i, nonce) = Append(log, spent)
    BY DEF LogWithSpent
  <1> QED  BY <1>1, <1>2, <1>3

LEMMA SpawnChildDeath ==
    ASSUME TypeOK, DeathInv, NEW i \in DOMAIN instances, NEW c, NEW intent, NEW audience,
           NEW behalf, NEW nonce \in Nonces,
           SpawnChild(i, c, intent, audience, behalf, nonce)
    PROVE  DeathInv'
  <1>1. PICK spent \in LogLine : Quiet(spent) /\ LogWithSpent(i, nonce) = Append(log, spent)
    BY SpentQuietly DEF Nonces
  <1>2. CASE SpawnAllowed(i, c, intent, audience, behalf)
    <2> DEFINE child == Len(instances) + 1
               instance == NewInstance(instances[i].type, i)
               capability == NewCapability(child, instance, intent, audience, behalf)
               chain == NewChain(c, chains[c].hop + 1)
               line == Line("spawn", child, Len(capabilities) + 1)
    <2>1. /\ instances' = Append(instances, instance)
          /\ capabilities' = Append(capabilities, capability)
          /\ chains' = Append(chains, chain)
          /\ log' = Append(Append(log, spent), line)
      BY <1>1, <1>2 DEF SpawnChild, Issue, NewCapability
    <2>2. capability.inst = child /\ chain.parent = c /\ instance.parent = i
      BY DEF NewCapability, NewChain, NewInstance
    <2>3. ~InstanceKilled(child)
      BY UnbornNotKilled DEF DeathInv
    <2>4. ~InstanceKilled(i) /\ ~CapabilityKilled(c)
      BY <1>2 DEF SpawnChild, RequireLiveInstance, Live, SpawnAllowed, MayDelegate
    <2>5. Quiet(line)
      BY QuietLine DEF KillOperations
    <2> HIDE DEF child, instance, capability, chain, line
    <2>6. LogGrowsQuietly
      BY <1>1, <2>1, <2>5, TwoQuietLines
    <2> QED  BY <2>1, <2>2, <2>3, <2>4, <2>6, BornInstance, IssueStep
  <1>3. CASE ~SpawnAllowed(i, c, intent, audience, behalf)
    <2>1. log' = Append(log, spent) /\ UNCHANGED <<instances, capabilities, chains>>
      BY <1>1, <1>3 DEF SpawnChild, records
    <2> QED  BY <1>1, <2>1, OneQuietLine, QuietStep
  <1> QED  BY <1>2, <1>3

LEMMA AttenuateCapabilityDeath ==
    ASSUME TypeOK, DeathInv, NEW c \in DOMAIN capabilities, NEW intent, NEW audience,
           AttenuateCapability(c, intent, audience)
    PROVE  DeathInv'
  <1> DEFINE child == [capabilities[c] EXCEPT
                          !.intent = intent, !.audience = audience,
                          !.token = @ \union {Len(capabilities) + 1}]
             chain == NewChain(c, chains[c].hop + 1)
  <1>1. capabilities[c] \in CapabilityRecord
    BY ElementFacts DEF TypeOK
  <1>2. child.inst = capabilities[c].inst /\ chain.parent = c
    BY <1>1 DEF CapabilityRecord, NewChain
  <1>3. /\ capabilities' = Append(capabilities, child)
        /\ chains' = Append(chains, chain)
        /\ log' = Append(log, Line("attenuate", child.inst, Len(capabilities) + 1))
        /\ UNCHANGED instances
    BY DEF AttenuateCapability, Issue
  <1>4. ~InstanceKilled(capabilities[c].inst) /\ ~CapabilityKilled(c)
    BY DEF AttenuateCapability, RequireLiveInstance, Live, MayDelegate
  <1>5. LogGrowsQuietly
    BY <1>3, QuietLine, OneQuietLine DEF KillOperations
  <1> HIDE DEF child, chain
  <1> QED  BY <1>2, <1>3, <1>4, <1>5, IssueStep

LEMMA ChallengeDeath ==
    ASSUME TypeOK, DeathInv, NEW i, IssueHolderChallenge(i)
    PROVE  DeathInv'
  <1> DEFINE line == [Line("challenge", i, 0) EXCEPT !.expires = now + ChallengeWindow]
  <1>1. Quiet(line)
    BY DEF Quiet, Line, KillOperations
  <1>2. log' = Append(log, line) /\ UNCHANGED <<instances, capabilities, chains>>
    BY DEF IssueHolderChallenge, records
  <1> HIDE DEF line
  <1> QED  BY <1>1, <1>2, OneQuietLine, QuietStep

LEMMA DecideDeath ==
    ASSUME TypeOK, DeathInv, NEW op \in DecisionOperations, NEW i \in DOMAIN instances,
           NEW c, NEW intent, NEW audience, NEW behalf, NEW nonce \in Nonces,
           Decide(op, i, c, intent, audience, behalf, nonce)
    PROVE  DeathInv'
  <1> DEFINE line == [Line(op, i, c) EXCEPT !.intent = intent, !.audience = audience,
                                            !.allowed = TRUE]
  <1>1. PICK spent \in LogLine : Quiet(spent) /\ LogWithSpent(i, nonce) = Append(log, spent)
    BY SpentQuietly DEF Nonces
  <1>2. Quiet(line)
    BY DEF Quiet, Line, KillOperations, DecisionOperations
  <1>3. /\ log' = Append(Append(log, spent), line) \/ log' = Append(log, spent)
        /\ UNCHANGED <<instances, capabilities, chains>>
    BY <1>1 DEF Decide, records
  <1> HIDE DEF line
  <1>4. LogGrowsQuietly
    BY <1>1, <1>2, <1>3, OneQuietLine, TwoQuietLines
  <1> QED  BY <1>3, <1>4, QuietStep

\* A kill adds one line, and the records keep their references.
LEMMA KillStep ==
    ASSUME TypeOK, DeathInv, NEW line, log' = Append(log, line),
           DOMAIN instances' = DOMAIN instances,
           \A i \in DOMAIN instances : instances'[i].parent = instances[i].parent,
           DOMAIN chains' = DOMAIN chains,
           \A c \in DOMAIN chains : chains'[c].parent = chains[c].parent,
           UNCHANGED capabilities,
           line.op = "kill_instance" => line.inst \in line.killedInstances,
           line.op \in KillOperations => line.cap \in line.killedCapabilities \union {0},
           line.op = "kill_capability" => line.killedInstances = {},
           line.op \in KillOperations,
           line.killedInstances \subseteq DOMAIN instances,
           line.killedCapabilities \subseteq DOMAIN capabilities,
           \A i \in DOMAIN instances :
              instances[i].parent \in line.killedInstances => i \in line.killedInstances,
           \A c \in DOMAIN chains :
              chains[c].parent \in line.killedCapabilities => c \in line.killedCapabilities,
           \A c \in DOMAIN capabilities :
              capabilities[c].inst \in line.killedInstances => c \in line.killedCapabilities
    PROVE  DeathInv'
  <1>1. /\ DOMAIN log = 1..Len(log) /\ Len(log) \in Nat
        /\ DOMAIN log' = 1..(Len(log) + 1)
        /\ \A k \in DOMAIN log : log'[k] = log[k]
        /\ log'[Len(log) + 1] = line
    BY AppendIndex DEF TypeOK
  <1>2. KillsNameRecords'
    BY <1>1 DEF DeathInv, KillsNameRecords, KillOperations
  <1>3. \A i : InstanceKilled(i)' <=> InstanceKilled(i) \/ i \in line.killedInstances
    BY <1>1 DEF InstanceKilled, HitsInstance, KillOperations
  <1>4. \A c : c # 0 =>
           (CapabilityKilled(c)' <=> CapabilityKilled(c) \/ c \in line.killedCapabilities)
    BY <1>1 DEF CapabilityKilled, HitsCapability
  <1>5. /\ DOMAIN chains = DOMAIN capabilities
        /\ \A c \in DOMAIN chains : c # 0
    BY DEF TypeOK
  <1>6. ASSUME NEW c \in DOMAIN chains', NEW d, d = chains'[c].parent,
               d # 0, CapabilityKilled(d)'
        PROVE  CapabilityKilled(c)'
    BY <1>4, <1>5, <1>6 DEF DeathInv, DeathReachesDescendants
  <1>7. ASSUME NEW i \in DOMAIN instances', NEW j, j = instances'[i].parent,
               j # 0, InstanceKilled(j)'
        PROVE  InstanceKilled(i)'
    BY <1>3, <1>7 DEF DeathInv, DeathReachesDescendants
  <1>8. ASSUME NEW c \in DOMAIN capabilities', NEW i, i = capabilities'[c].inst,
               InstanceKilled(i)'
        PROVE  CapabilityKilled(c)'
    BY <1>3, <1>4, <1>5, <1>8 DEF DeathInv, DeathReachesDescendants
  <1>9. DeathReachesDescendants'
    BY <1>6, <1>7, <1>8 DEF DeathReachesDescendants
  <1> QED  BY <1>2, <1>9 DEF DeathInv

LEMMA KillCapabilityDeath ==
    ASSUME TypeOK, DeathInv, NEW c \in DOMAIN capabilities, KillCapability(c)
    PROVE  DeathInv'
  <1> DEFINE tree == Tree(CapabilityParent, {c})
             line == [Line("kill_capability", capabilities[c].inst, c) EXCEPT
                         !.killedCapabilities = tree, !.revoked = {c}]
  <1>1. DOMAIN chains = DOMAIN capabilities
    BY DEF TypeOK
  <1>2. /\ c \in tree /\ tree \subseteq DOMAIN capabilities
        /\ \A d \in DOMAIN chains : chains[d].parent \in tree => d \in tree
    BY <1>1, TreeFacts DEF CapabilityParent
  <1>3. /\ line.op = "kill_capability" /\ line.cap = c
        /\ line.killedInstances = {} /\ line.killedCapabilities = tree
    BY DEF Line
  <1>4. \A d \in DOMAIN chains : chains[d] \in ChainRecord
    BY ElementFacts DEF TypeOK
  <1>5. /\ log' = Append(log, line)
        /\ UNCHANGED <<instances, capabilities>>
        /\ DOMAIN chains' = DOMAIN chains
        /\ \A d \in DOMAIN chains : chains'[d].parent = chains[d].parent
    BY <1>1, <1>4 DEF KillCapability, ChainRecord
  <1> HIDE DEF tree, line
  <1> QED  BY <1>1, <1>2, <1>3, <1>5, KillStep DEF KillOperations

LEMMA KillInstanceDeath ==
    ASSUME TypeOK, DeathInv, NEW i \in DOMAIN instances, KillInstance(i)
    PROVE  DeathInv'
  <1> DEFINE killed == Tree(InstanceParent, {i})
             held == UNION {CapabilitiesOf(j) : j \in killed}
             derived == Tree(CapabilityParent, held)
             line == [Line("kill_instance", i, 0) EXCEPT
                         !.killedInstances = killed, !.killedCapabilities = derived,
                         !.revoked = derived]
  <1>1. DOMAIN chains = DOMAIN capabilities
    BY DEF TypeOK
  <1>2. /\ i \in killed /\ killed \subseteq DOMAIN instances
        /\ \A j \in DOMAIN instances : instances[j].parent \in killed => j \in killed
    BY TreeFacts DEF InstanceParent
  <1>3. /\ held \subseteq DOMAIN capabilities
        /\ \A c \in DOMAIN capabilities : capabilities[c].inst \in killed => c \in held
    BY DEF CapabilitiesOf
  <1>4. /\ line.op = "kill_instance" /\ line.inst = i /\ line.cap = 0
        /\ line.killedInstances = killed /\ line.killedCapabilities = derived
    BY DEF Line
  <1>5. /\ \A j \in DOMAIN instances : instances[j] \in InstanceRecord
        /\ \A c \in DOMAIN chains : chains[c] \in ChainRecord
    BY ElementFacts DEF TypeOK
  <1>6. /\ log' = Append(log, line)
        /\ UNCHANGED capabilities
        /\ instances' = [j \in DOMAIN instances |->
                            [instances[j] EXCEPT !.live = @ /\ j \notin killed]]
        /\ chains' = [c \in DOMAIN chains |->
                            [chains[c] EXCEPT !.revoked = @ \/ c \in derived]]
    BY DEF KillInstance
  <1>7. /\ DOMAIN instances' = DOMAIN instances
        /\ \A j \in DOMAIN instances : instances'[j].parent = instances[j].parent
        /\ DOMAIN chains' = DOMAIN chains
        /\ \A c \in DOMAIN chains : chains'[c].parent = chains[c].parent
    BY <1>5, <1>6 DEF InstanceRecord, ChainRecord
  <1>8. /\ held \subseteq derived /\ derived \subseteq DOMAIN capabilities
        /\ \A d \in DOMAIN chains : chains[d].parent \in derived => d \in derived
    <2> HIDE DEF held
    <2> QED  BY <1>1, <1>3, TreeFacts DEF CapabilityParent
  <1> HIDE DEF killed, held, derived, line
  <1> QED  BY <1>2, <1>3, <1>4, <1>6, <1>7, <1>8, KillStep DEF KillOperations

LEMMA OtherDeath ==
    ASSUME TypeOK, DeathInv,
           \/ \E type \in TypeChoices : AddAgentType(type)
           \/ \E after \in SealDelays : SealIssuer(after)
           \/ Tick
           \/ UNCHANGED vars
    PROVE  DeathInv'
  <1>1. UNCHANGED <<instances, capabilities, chains>>
    BY DEF AddAgentType, SealIssuer, Tick, records, vars
  <1>2. LogGrowsQuietly
    <2>1. CASE \E after \in SealDelays : SealIssuer(after)
      BY <2>1, QuietLine, OneQuietLine DEF SealIssuer, KillOperations
    <2>2. CASE UNCHANGED log
      BY <2>2 DEF LogGrowsQuietly
    <2> QED  BY <2>1, <2>2 DEF AddAgentType, Tick, vars
  <1> QED  BY <1>1, <1>2, QuietStep

LEMMA DeathInit == Init => DeathInv
  BY DEF Init, DeathInv, KillsNameRecords, DeathReachesDescendants

LEMMA DeathNext == TypeOK /\ DeathInv /\ [Next]_vars => DeathInv'
  <1> SUFFICES ASSUME TypeOK, DeathInv, [Next]_vars PROVE DeathInv'
    OBVIOUS
  <1>1. CASE Birth
    BY <1>1, BirthInstanceDeath, BirthWriteDeath DEF Birth
  <1>2. CASE Mint
    BY <1>2, MintCapabilityDeath DEF Mint
  <1>3. CASE Challenge
    BY <1>3, ChallengeDeath DEF Challenge
  <1>4. CASE Spawn
    BY <1>4, SpawnChildDeath DEF Spawn
  <1>5. CASE Attenuate
    BY <1>5, AttenuateCapabilityDeath DEF Attenuate
  <1>6. CASE Decision
    BY <1>6, DecideDeath DEF Decision
  <1>7. CASE \E c \in DOMAIN capabilities : KillCapability(c)
    BY <1>7, KillCapabilityDeath
  <1>8. CASE \E i \in DOMAIN instances : KillInstance(i)
    BY <1>8, KillInstanceDeath
  <1>9. CASE \/ \E type \in TypeChoices : AddAgentType(type)
             \/ \E after \in SealDelays : SealIssuer(after)
             \/ Tick
             \/ UNCHANGED vars
    BY <1>9, OtherDeath
  <1> QED  BY <1>1, <1>2, <1>3, <1>4, <1>5, <1>6, <1>7, <1>8, <1>9 DEF Next

\* In every reachable store whatever descends from a killed record is killed:
\* neither a kill nor a later issuance leaves a live descendant behind.
THEOREM DeathReaches == Spec => []DeathReachesDescendants
  <1>1. Spec => []DeathInv
    BY TypeCorrect, DeathInit, DeathNext, PTL DEF Spec
  <1>2. DeathInv => DeathReachesDescendants
    BY DEF DeathInv
  <1> QED  BY <1>1, <1>2, PTL

------------------------------------------------------------------------------
(* The death of the store.  The seal date in force may be nearer than the    *)
(* one a line was written under, so the invariant also says that no line is  *)
(* from the future: a new seal date lies after all that was written.         *)

SealInv == (\A p \in DOMAIN log : log[p].time <= now) /\ SealIsDeath

\* A line that may be written now, sealed or not.
Timely(line) ==
    /\ line.time = now
    /\ Grants(line) \/ line.op = "challenge" => ~Sealed

\* The log grows by such lines.
LogGrowsTimely ==
    /\ DOMAIN log \subseteq DOMAIN log'
    /\ \A p \in DOMAIN log : log'[p] = log[p]
    /\ \A p \in DOMAIN log' \ DOMAIN log : Timely(log'[p])

LEMMA OneTimelyLine ==
    ASSUME TypeOK, NEW line, Timely(line), log' = Append(log, line)
    PROVE  LogGrowsTimely
  <1>1. /\ DOMAIN log = 1..Len(log) /\ Len(log) \in Nat
        /\ DOMAIN log' = 1..(Len(log) + 1)
        /\ \A k \in DOMAIN log : log'[k] = log[k]
        /\ log'[Len(log) + 1] = line
    BY AppendIndex DEF TypeOK
  <1> QED  BY <1>1 DEF LogGrowsTimely

LEMMA TwoTimelyLines ==
    ASSUME TypeOK, NEW first \in LogLine, NEW second, Timely(first), Timely(second),
           log' = Append(Append(log, first), second)
    PROVE  LogGrowsTimely
  <1> DEFINE lines == Append(log, first)
  <1>1. /\ lines \in Seq(LogLine) /\ DOMAIN log = 1..Len(log) /\ Len(log) \in Nat
        /\ Len(lines) = Len(log) + 1
        /\ \A k \in DOMAIN log : lines[k] = log[k]
        /\ lines[Len(log) + 1] = first
    BY AppendFacts DEF TypeOK
  <1>2. log' = Append(lines, second)
    OBVIOUS
  <1> HIDE DEF lines
  <1>3. /\ DOMAIN lines = 1..Len(lines)
        /\ DOMAIN log' = 1..(Len(lines) + 1)
        /\ \A k \in DOMAIN lines : log'[k] = lines[k]
        /\ log'[Len(lines) + 1] = second
    BY <1>1, <1>2, AppendIndex
  <1> QED  BY <1>1, <1>3 DEF LogGrowsTimely

LEMMA TimelyStep ==
    ASSUME TypeOK, SealInv, LogGrowsTimely, UNCHANGED <<now, killDate>>
    PROVE  SealInv'
  <1>1. \A p \in DOMAIN log' : log'[p].time <= now'
    BY DEF SealInv, LogGrowsTimely, Timely, TypeOK
  <1>2. ASSUME killDate' # NoSeal, NEW p \in DOMAIN log',
               Grants(log'[p]) \/ log'[p].op = "challenge"
        PROVE  log'[p].time < killDate'
    <2>1. CASE p \in DOMAIN log
      BY <1>2, <2>1 DEF SealInv, SealIsDeath, LogGrowsTimely
    <2>2. CASE p \notin DOMAIN log
      BY <1>2, <2>2 DEF LogGrowsTimely, Timely, Sealed, TypeOK
    <2> QED  BY <2>1, <2>2
  <1>3. SealIsDeath'
    BY <1>2 DEF SealIsDeath, Grants
  <1> QED  BY <1>1, <1>3 DEF SealInv

\* Every line an action writes is timely.
LEMMA TimelyLine ==
    ASSUME NEW op, NEW i, NEW c,
           op \in IssuanceOperations \union {"challenge"} => ~Sealed
    PROVE  Timely(Line(op, i, c))
  BY DEF Timely, Line, Grants

LEMMA SpentTimely ==
    ASSUME TypeOK, NEW i \in DOMAIN instances, NEW nonce \in DOMAIN log
    PROVE  \E spent \in LogLine : Timely(spent) /\ LogWithSpent(i, nonce) = Append(log, spent)
  <1> DEFINE spent == [Line("challenge_spent", i, 0) EXCEPT !.nonce = nonce]
  <1>1. spent \in LogLine
    BY SpentOK
  <1>2. Timely(spent)
    BY DEF Timely, Line, Grants, IssuanceOperations
  <1>3. LogWithSpent(i, nonce) = Append(log, spent)
    BY DEF LogWithSpent
  <1> QED  BY <1>1, <1>2, <1>3

LEMMA SealNext == TypeOK /\ SealInv /\ [Next]_vars => SealInv'
  <1> SUFFICES ASSUME TypeOK, SealInv, [Next]_vars PROVE SealInv'
    OBVIOUS
  <1>1. CASE \/ \E type \in TypeChoices : AddAgentType(type)
             \/ \E type \in DOMAIN agentTypes : BirthInstance(type)
             \/ UNCHANGED vars
    <2>1. UNCHANGED <<now, killDate, log>>
      BY <1>1 DEF AddAgentType, BirthInstance, vars
    <2>2. LogGrowsTimely
      BY <2>1 DEF LogGrowsTimely
    <2> QED  BY <2>1, <2>2, TimelyStep
  <1>2. ASSUME NEW type, NEW intent, NEW audience, NEW behalf,
               BirthWrite(type, intent, audience, behalf)
        PROVE  SealInv'
    <2>1. /\ \E i, c : log' = Append(log, Line("birth_write", i, c))
          /\ ~Sealed /\ UNCHANGED <<now, killDate>>
      BY <1>2 DEF BirthWrite, Issue
    <2> QED  BY <2>1, TimelyLine, OneTimelyLine, TimelyStep
  <1>3. ASSUME NEW i, NEW intent, NEW audience, NEW behalf,
               MintCapability(i, intent, audience, behalf)
        PROVE  SealInv'
    <2>1. /\ \E j, c : log' = Append(log, Line("mint", j, c))
          /\ ~Sealed /\ UNCHANGED <<now, killDate>>
      BY <1>3 DEF MintCapability, Issue
    <2> QED  BY <2>1, TimelyLine, OneTimelyLine, TimelyStep
  <1>4. ASSUME NEW i, IssueHolderChallenge(i) PROVE SealInv'
    <2> DEFINE line == [Line("challenge", i, 0) EXCEPT !.expires = now + ChallengeWindow]
    <2>1. log' = Append(log, line) /\ ~Sealed /\ UNCHANGED <<now, killDate>>
      BY <1>4 DEF IssueHolderChallenge
    <2>2. Timely(line)
      BY <2>1 DEF Timely, Line
    <2> HIDE DEF line
    <2> QED  BY <2>1, <2>2, OneTimelyLine, TimelyStep
  <1>5. ASSUME NEW i \in DOMAIN instances, NEW c, NEW intent, NEW audience, NEW behalf,
               NEW nonce \in Nonces, SpawnChild(i, c, intent, audience, behalf, nonce)
        PROVE  SealInv'
    <2>1. PICK spent \in LogLine : Timely(spent) /\ LogWithSpent(i, nonce) = Append(log, spent)
      BY SpentTimely DEF Nonces
    <2>2. /\ \/ \E j, d : log' = Append(Append(log, spent), Line("spawn", j, d))
             \/ log' = Append(log, spent)
          /\ ~Sealed /\ UNCHANGED <<now, killDate>>
      BY <1>5, <2>1 DEF SpawnChild, Issue
    <2>3. LogGrowsTimely
      BY <2>1, <2>2, TimelyLine, OneTimelyLine, TwoTimelyLines
    <2> QED  BY <2>2, <2>3, TimelyStep
  <1>6. ASSUME NEW c, NEW intent, NEW audience, AttenuateCapability(c, intent, audience)
        PROVE  SealInv'
    <2>1. /\ \E j, d : log' = Append(log, Line("attenuate", j, d))
          /\ ~Sealed /\ UNCHANGED <<now, killDate>>
      BY <1>6 DEF AttenuateCapability, Issue
    <2> QED  BY <2>1, TimelyLine, OneTimelyLine, TimelyStep
  <1>7. ASSUME NEW op, NEW i \in DOMAIN instances, NEW c, NEW intent, NEW audience,
               NEW behalf, NEW nonce \in Nonces,
               Decide(op, i, c, intent, audience, behalf, nonce)
        PROVE  SealInv'
    <2> DEFINE line == [Line(op, i, c) EXCEPT !.intent = intent, !.audience = audience,
                                              !.allowed = TRUE]
    <2>1. PICK spent \in LogLine : Timely(spent) /\ LogWithSpent(i, nonce) = Append(log, spent)
      BY SpentTimely DEF Nonces
    <2>2. /\ log' = Append(Append(log, spent), line) \/ log' = Append(log, spent)
          /\ ~Sealed /\ UNCHANGED <<now, killDate>>
      BY <1>7, <2>1 DEF Decide
    <2>3. Timely(line)
      BY <2>2 DEF Timely, Line
    <2> HIDE DEF line
    <2>4. LogGrowsTimely
      BY <2>1, <2>2, <2>3, OneTimelyLine, TwoTimelyLines
    <2> QED  BY <2>2, <2>4, TimelyStep
  <1>8. ASSUME NEW c, KillCapability(c) PROVE SealInv'
    <2> DEFINE line == [Line("kill_capability", capabilities[c].inst, c) EXCEPT
                           !.killedCapabilities = Tree(CapabilityParent, {c}),
                           !.revoked = {c}]
    <2>1. log' = Append(log, line) /\ UNCHANGED <<now, killDate>>
      BY <1>8 DEF KillCapability
    <2>2. Timely(line)
      BY DEF Timely, Line, Grants, IssuanceOperations
    <2> HIDE DEF line
    <2> QED  BY <2>1, <2>2, OneTimelyLine, TimelyStep
  <1>9. ASSUME NEW i, KillInstance(i) PROVE SealInv'
    <2>1. /\ \E killed, derived :
                log' = Append(log, [Line("kill_instance", i, 0) EXCEPT
                                       !.killedInstances = killed,
                                       !.killedCapabilities = derived,
                                       !.revoked = derived])
          /\ UNCHANGED <<now, killDate>>
      BY <1>9 DEF KillInstance
    <2>2. \A killed, derived :
             Timely([Line("kill_instance", i, 0) EXCEPT !.killedInstances = killed,
                       !.killedCapabilities = derived, !.revoked = derived])
      BY DEF Timely, Line, Grants, IssuanceOperations
    <2> QED  BY <2>1, <2>2, OneTimelyLine, TimelyStep
  <1>10. ASSUME NEW after \in SealDelays, SealIssuer(after) PROVE SealInv'
    <2> DEFINE line == Line("issuer_seal", 0, 0)
    <2>1. /\ DOMAIN log = 1..Len(log) /\ Len(log) \in Nat
          /\ DOMAIN log' = 1..(Len(log) + 1)
          /\ \A k \in DOMAIN log : log'[k] = log[k]
          /\ log'[Len(log) + 1] = line
      BY <1>10, AppendIndex DEF SealIssuer, TypeOK
    <2>2. line.time = now /\ ~Grants(line) /\ line.op # "challenge"
      BY DEF Line, Grants, IssuanceOperations
    <2>3. now' = now /\ now < killDate' /\ killDate' \in Nat /\ now \in Nat
      BY <1>10, KernelAssumption DEF SealIssuer, TypeOK
    <2>4. \A p \in DOMAIN log : log[p].time \in Nat
      <3>1. \A p \in DOMAIN log : log[p] \in LogLine
        BY ElementFacts DEF TypeOK
      <3> QED  BY <3>1 DEF LogLine
    <2> HIDE DEF line
    <2>5. \A p \in DOMAIN log' : log'[p].time <= now'
      BY <2>1, <2>2, <2>3 DEF SealInv
    <2>6. \A p \in DOMAIN log' : p \in DOMAIN log => log'[p].time < killDate'
      BY <2>1, <2>3, <2>4 DEF SealInv
    <2>7. SealIsDeath'
      BY <2>1, <2>2, <2>6 DEF SealIsDeath, Grants
    <2> QED  BY <2>5, <2>7 DEF SealInv
  <1>11. CASE Tick
    <2>1. \A p \in DOMAIN log : log[p].time \in Nat
      <3>1. \A p \in DOMAIN log : log[p] \in LogLine
        BY ElementFacts DEF TypeOK
      <3> QED  BY <3>1 DEF LogLine
    <2> QED  BY <1>11, <2>1 DEF Tick, TypeOK, SealInv, SealIsDeath, Grants
  <1> QED
    BY <1>1, <1>2, <1>3, <1>4, <1>5, <1>6, <1>7, <1>8, <1>9, <1>10, <1>11
       DEF Next, Birth, Mint, Challenge, Spawn, Attenuate, Decision

\* No act and nothing issued is dated at or after the death of the store,
\* however often the seal was brought forward.
THEOREM SealCorrect == Spec => []SealIsDeath
  <1>1. Init => SealInv
    BY DEF Init, SealInv, SealIsDeath
  <1>2. Spec => []SealInv
    BY TypeCorrect, <1>1, SealNext, PTL DEF Spec
  <1>3. SealInv => SealIsDeath
    BY DEF SealInv
  <1> QED  BY <1>2, <1>3, PTL

------------------------------------------------------------------------------
(* Authority never widens along a delegation chain.                          *)
(*                                                                           *)
(* The property speaks of all ancestors of a capability, the invariant of    *)
(* one hop only (GrantInv).  A tree is the least set closed under children,  *)
(* so what holds of the root and passes from each capability to its children *)
(* holds of the whole tree.                                                  *)

------------------------------------------------------------------------------
(* The order on grants.                                                      *)

LEMMA NarrowerTransitive ==
    ASSUME NEW a \in Seq(STRING), NEW b \in Seq(STRING), NEW c \in Seq(STRING),
           IsNarrowerOrEqual(a, b), IsNarrowerOrEqual(b, c)
    PROVE  IsNarrowerOrEqual(a, c)
  BY DEF IsNarrowerOrEqual

LEMMA GrantReflexive ==
    ASSUME NEW a \in CapabilityRecord
    PROVE  GrantWithin(a, a)
  BY DEF GrantWithin, IsNarrowerOrEqual, ChildActAuthorityCompatible, CapabilityRecord

LEMMA GrantTransitive ==
    ASSUME NEW a \in CapabilityRecord, NEW b \in CapabilityRecord,
           NEW c \in CapabilityRecord, GrantWithin(a, b), GrantWithin(b, c)
    PROVE  GrantWithin(a, c)
  <1>1. /\ a.intent \in Seq(STRING) /\ b.intent \in Seq(STRING) /\ c.intent \in Seq(STRING)
        /\ a.audience \in Seq(STRING) /\ b.audience \in Seq(STRING)
        /\ c.audience \in Seq(STRING)
    BY DEF CapabilityRecord
  <1>2. IsNarrowerOrEqual(a.intent, c.intent) /\ IsNarrowerOrEqual(a.audience, c.audience)
    BY <1>1, NarrowerTransitive DEF GrantWithin
  <1>3. ChildActAuthorityCompatible(c.behalf, a.behalf)
    BY DEF GrantWithin, ChildActAuthorityCompatible
  <1> QED  BY <1>2, <1>3 DEF GrantWithin

------------------------------------------------------------------------------
(* One hop.                                                                  *)

WithinType(capability, hop, type) ==
    MintAllowed(type, capability.intent, capability.audience) /\ hop <= type.depth

GrantInv ==
    \A c \in DOMAIN capabilities :
        /\ WithinType(capabilities[c], chains[c].hop, TypeOf(capabilities[c].inst))
        /\ chains[c].parent # 0 =>
              GrantWithin(capabilities[c], capabilities[chains[c].parent])

\* Agent types and the types of instances stay, new ones may be added.
TypesKept ==
    /\ \A t \in DOMAIN agentTypes : agentTypes'[t] = agentTypes[t]
    /\ \A i \in DOMAIN instances : instances'[i].type = instances[i].type

LEMMA KeptStep ==
    ASSUME TypeOK, GrantInv, TypesKept, UNCHANGED capabilities,
           \A c \in DOMAIN chains : /\ chains'[c].parent = chains[c].parent
                                    /\ chains'[c].hop = chains[c].hop
    PROVE  GrantInv'
  <1>1. DOMAIN chains = DOMAIN capabilities
    BY DEF TypeOK
  <1>2. \A c \in DOMAIN capabilities :
           /\ capabilities[c].inst \in DOMAIN instances
           /\ instances[capabilities[c].inst].type \in DOMAIN agentTypes
    BY DEF TypeOK
  <1> QED  BY <1>1, <1>2 DEF GrantInv, TypesKept, TypeOf

LEMMA GrantedStep ==
    ASSUME TypeOK, GrantInv, TypesKept, NEW capability, NEW chain,
           capabilities' = Append(capabilities, capability),
           chains' = Append(chains, chain),
           WithinType(capability, chain.hop,
                      agentTypes'[instances'[capability.inst].type]),
           chain.parent # 0 => /\ chain.parent \in DOMAIN capabilities
                               /\ GrantWithin(capability, capabilities[chain.parent])
    PROVE  GrantInv'
  <1>1. /\ DOMAIN capabilities = 1..Len(capabilities) /\ Len(capabilities) \in Nat
        /\ DOMAIN capabilities' = 1..(Len(capabilities) + 1)
        /\ \A k \in DOMAIN capabilities : capabilities'[k] = capabilities[k]
        /\ capabilities'[Len(capabilities) + 1] = capability
    BY AppendIndex DEF TypeOK
  <1>2. /\ DOMAIN chains = DOMAIN capabilities
        /\ \A k \in DOMAIN capabilities : chains'[k] = chains[k]
        /\ chains'[Len(capabilities) + 1] = chain
    BY AppendIndex DEF TypeOK
  <1>3. \A c \in DOMAIN capabilities :
           /\ capabilities[c].inst \in DOMAIN instances
           /\ instances[capabilities[c].inst].type \in DOMAIN agentTypes
    BY DEF TypeOK
  <1>4. \A c \in DOMAIN capabilities : chains[c].parent # 0 =>
           chains[c].parent \in DOMAIN capabilities
    <2>1. \A c \in DOMAIN chains : chains[c] \in ChainRecord /\ c <= Len(chains) /\ c \in Nat
      BY ElementFacts DEF TypeOK
    <2>2. \A c \in DOMAIN chains : chains[c].parent \in Nat /\ chains[c].parent < c
      BY <2>1 DEF TypeOK, ChainRecord
    <2> QED  BY <1>1, <1>2, <2>1, <2>2
  <1>5. ASSUME NEW c \in DOMAIN capabilities
        PROVE  /\ WithinType(capabilities'[c], chains'[c].hop,
                             agentTypes'[instances'[capabilities'[c].inst].type])
               /\ chains'[c].parent # 0 =>
                     GrantWithin(capabilities'[c], capabilities'[chains'[c].parent])
    BY <1>1, <1>2, <1>3, <1>4 DEF GrantInv, TypesKept, TypeOf
  <1>6. /\ WithinType(capability, chain.hop, agentTypes'[instances'[capability.inst].type])
        /\ chain.parent # 0 => GrantWithin(capability, capabilities'[chain.parent])
    BY <1>1
  <1>7. \A c \in DOMAIN capabilities' :
           c \in DOMAIN capabilities \/ c = Len(capabilities) + 1
    BY <1>1
  <1>8. ASSUME NEW c \in DOMAIN capabilities'
        PROVE  /\ WithinType(capabilities'[c], chains'[c].hop,
                             agentTypes'[instances'[capabilities'[c].inst].type])
               /\ chains'[c].parent # 0 =>
                     GrantWithin(capabilities'[c], capabilities'[chains'[c].parent])
    <2>1. CASE c \in DOMAIN capabilities
      BY <1>5, <2>1
    <2>2. CASE c = Len(capabilities) + 1
      BY <1>1, <1>2, <1>6, <2>2
    <2> QED  BY <1>7, <2>1, <2>2
  <1> QED  BY <1>8 DEF GrantInv, TypeOf, WithinType, GrantWithin

LEMMA BornTypesKept ==
    ASSUME TypeOK, NEW instance, instances' = Append(instances, instance),
           UNCHANGED agentTypes
    PROVE  /\ TypesKept
           /\ instances'[Len(instances) + 1] = instance
  BY AppendIndex DEF TypesKept, TypeOK

LEMMA BirthWriteGrant ==
    ASSUME TypeOK, GrantInv, NEW type \in DOMAIN agentTypes, NEW intent, NEW audience,
           NEW behalf, BirthWrite(type, intent, audience, behalf)
    PROVE  GrantInv'
  <1> DEFINE i == Len(instances) + 1
             instance == NewInstance(type, 0)
             capability == NewCapability(i, instance, intent, audience, behalf)
             chain == NewChain(0, 0)
  <1>1. /\ instances' = Append(instances, instance)
        /\ UNCHANGED agentTypes
        /\ capabilities' = Append(capabilities, capability)
        /\ chains' = Append(chains, chain)
        /\ MintAllowed(agentTypes[type], intent, audience)
    BY DEF BirthWrite, Issue
  <1>2. /\ capability.inst = i /\ capability.intent = intent /\ capability.audience = audience
        /\ chain.parent = 0 /\ chain.hop = 0 /\ instance.type = type
    BY DEF NewCapability, NewChain, NewInstance
  <1>3. 0 <= agentTypes[type].depth
    <2>1. agentTypes[type] \in AgentType
      BY ElementFacts DEF TypeOK
    <2> QED  BY <2>1 DEF AgentType
  <1> HIDE DEF i, instance, capability, chain
  <1>4. TypesKept /\ instances'[i] = instance
    BY <1>1, BornTypesKept DEF i
  <1>5. WithinType(capability, chain.hop, agentTypes'[instances'[capability.inst].type])
    BY <1>1, <1>2, <1>3, <1>4 DEF WithinType
  <1> QED  BY <1>1, <1>2, <1>4, <1>5, GrantedStep

LEMMA MintCapabilityGrant ==
    ASSUME TypeOK, GrantInv, NEW i \in DOMAIN instances, NEW intent, NEW audience,
           NEW behalf, MintCapability(i, intent, audience, behalf)
    PROVE  GrantInv'
  <1> DEFINE capability == NewCapability(i, instances[i], intent, audience, behalf)
             chain == NewChain(0, 0)
  <1>1. /\ UNCHANGED <<instances, agentTypes>>
        /\ capabilities' = Append(capabilities, capability)
        /\ chains' = Append(chains, chain)
        /\ MintAllowed(TypeOf(i), intent, audience)
    BY DEF MintCapability, Issue
  <1>2. /\ capability.inst = i /\ capability.intent = intent /\ capability.audience = audience
        /\ chain.parent = 0 /\ chain.hop = 0
    BY DEF NewCapability, NewChain
  <1>3. 0 <= TypeOf(i).depth
    <2>1. TypeOf(i) \in AgentType
      BY ElementFacts DEF TypeOK, TypeOf
    <2> QED  BY <2>1 DEF AgentType
  <1> HIDE DEF capability, chain
  <1>4. WithinType(capability, chain.hop, agentTypes'[instances'[capability.inst].type])
    BY <1>1, <1>2, <1>3 DEF WithinType, TypeOf
  <1>5. TypesKept
    BY <1>1 DEF TypesKept
  <1> QED  BY <1>1, <1>2, <1>4, <1>5, GrantedStep

LEMMA SpawnChildGrant ==
    ASSUME TypeOK, GrantInv, NEW i \in DOMAIN instances, NEW c \in DOMAIN capabilities,
           NEW intent, NEW audience, NEW behalf, NEW nonce,
           SpawnChild(i, c, intent, audience, behalf, nonce)
    PROVE  GrantInv'
  <1>1. CASE SpawnAllowed(i, c, intent, audience, behalf)
    <2> DEFINE child == Len(instances) + 1
               instance == NewInstance(instances[i].type, i)
               capability == NewCapability(child, instance, intent, audience, behalf)
               chain == NewChain(c, chains[c].hop + 1)
    <2>1. /\ instances' = Append(instances, instance)
          /\ UNCHANGED agentTypes
          /\ capabilities' = Append(capabilities, capability)
          /\ chains' = Append(chains, chain)
      BY <1>1 DEF SpawnChild, Issue
    <2>2. /\ capability.inst = child /\ chain.parent = c
          /\ capability.intent = intent /\ capability.audience = audience
          /\ capability.behalf = behalf
          /\ chain.hop = chains[c].hop + 1 /\ instance.type = instances[i].type
      BY DEF NewCapability, NewChain, NewInstance
    <2>3. /\ MintAllowed(TypeOf(i), intent, audience)
          /\ GrantWithin([intent |-> intent, audience |-> audience, behalf |-> behalf],
                         capabilities[c])
          /\ chains[c].hop + 1 <= TypeOf(i).depth
      BY <1>1 DEF SpawnAllowed
    <2> HIDE DEF child, instance, capability, chain
    <2>4. TypesKept /\ instances'[child] = instance
      BY <2>1, BornTypesKept DEF child
    <2>5. WithinType(capability, chain.hop, agentTypes'[instances'[capability.inst].type])
      BY <2>1, <2>2, <2>3, <2>4 DEF WithinType, TypeOf
    <2>6. GrantWithin(capability, capabilities[c])
      BY <2>2, <2>3 DEF GrantWithin
    <2> QED  BY <2>1, <2>2, <2>4, <2>5, <2>6, GrantedStep
  <1>2. CASE ~SpawnAllowed(i, c, intent, audience, behalf)
    <2>1. UNCHANGED records
      BY <1>2 DEF SpawnChild
    <2> QED  BY <2>1, KeptStep DEF records, TypesKept
  <1> QED  BY <1>1, <1>2

LEMMA AttenuateCapabilityGrant ==
    ASSUME TypeOK, GrantInv, NEW c \in DOMAIN capabilities, NEW intent, NEW audience,
           AttenuateCapability(c, intent, audience)
    PROVE  GrantInv'
  <1> DEFINE child == [capabilities[c] EXCEPT
                          !.intent = intent, !.audience = audience,
                          !.token = @ \union {Len(capabilities) + 1}]
             chain == NewChain(c, chains[c].hop + 1)
             type == TypeOf(capabilities[c].inst)
  <1>1. capabilities[c] \in CapabilityRecord
    BY ElementFacts DEF TypeOK
  <1>2. /\ child.inst = capabilities[c].inst /\ chain.parent = c
        /\ child.intent = intent /\ child.audience = audience
        /\ chain.hop = chains[c].hop + 1
    BY <1>1 DEF CapabilityRecord, NewChain
  <1>3. /\ capabilities' = Append(capabilities, child)
        /\ chains' = Append(chains, chain)
        /\ UNCHANGED <<instances, agentTypes>>
        /\ MintAllowed(type, intent, audience)
        /\ GrantWithin(child, capabilities[c])
        /\ chains[c].hop + 1 <= type.depth
    BY DEF AttenuateCapability, Issue
  <1> HIDE DEF child, chain
  <1>4. WithinType(child, chain.hop, agentTypes'[instances'[child.inst].type])
    BY <1>2, <1>3 DEF WithinType, TypeOf
  <1>5. TypesKept
    BY <1>3 DEF TypesKept
  <1> QED  BY <1>2, <1>3, <1>4, <1>5, GrantedStep

\* The other actions grant nothing.
LEMMA OtherGrant ==
    ASSUME TypeOK, GrantInv,
           \/ \E type \in TypeChoices : AddAgentType(type)
           \/ \E type \in DOMAIN agentTypes : BirthInstance(type)
           \/ Challenge \/ Decision
           \/ \E c \in DOMAIN capabilities : KillCapability(c)
           \/ \E i \in DOMAIN instances : KillInstance(i)
           \/ \E after \in SealDelays : SealIssuer(after)
           \/ Tick \/ UNCHANGED vars
    PROVE  GrantInv'
  <1>0. /\ \A i \in DOMAIN instances : instances[i] \in InstanceRecord
        /\ \A c \in DOMAIN chains : chains[c] \in ChainRecord
    BY ElementFacts DEF TypeOK
  <1>1. CASE \E type \in TypeChoices : AddAgentType(type)
    BY <1>1, AppendIndex, KeptStep DEF AddAgentType, TypesKept, TypeOK
  <1>2. CASE \E type \in DOMAIN agentTypes : BirthInstance(type)
    <2>1. PICK type \in DOMAIN agentTypes : BirthInstance(type)
      BY <1>2
    <2>2. TypesKept /\ UNCHANGED <<capabilities, chains>>
      BY <2>1, BornTypesKept DEF BirthInstance
    <2> QED  BY <2>2, KeptStep
  <1>3. CASE UNCHANGED records
    BY <1>3, KeptStep DEF TypesKept, records
  <1>4. CASE \E c \in DOMAIN capabilities : KillCapability(c)
    <2>1. /\ UNCHANGED <<agentTypes, instances, capabilities>>
          /\ \E c : chains' = [chains EXCEPT ![c].revoked = TRUE]
      BY <1>4 DEF KillCapability
    <2>2. \A d \in DOMAIN chains : /\ chains'[d].parent = chains[d].parent
                                   /\ chains'[d].hop = chains[d].hop
      BY <1>0, <2>1 DEF ChainRecord
    <2> QED  BY <2>1, <2>2, KeptStep DEF TypesKept
  <1>5. CASE \E i \in DOMAIN instances : KillInstance(i)
    <2>1. /\ UNCHANGED <<agentTypes, capabilities>>
          /\ \E killed : instances' = [j \in DOMAIN instances |->
                             [instances[j] EXCEPT !.live = @ /\ j \notin killed]]
          /\ \E derived : chains' = [c \in DOMAIN chains |->
                             [chains[c] EXCEPT !.revoked = @ \/ c \in derived]]
      BY <1>5 DEF KillInstance
    <2>2. /\ \A j \in DOMAIN instances : instances'[j].type = instances[j].type
          /\ \A c \in DOMAIN chains : /\ chains'[c].parent = chains[c].parent
                                      /\ chains'[c].hop = chains[c].hop
      BY <1>0, <2>1 DEF InstanceRecord, ChainRecord
    <2> QED  BY <2>1, <2>2, KeptStep DEF TypesKept
  <1>6. CASE Challenge
    BY <1>3, <1>6 DEF Challenge, IssueHolderChallenge
  <1>7. CASE Decision
    <2>1. PICK op \in DecisionOperations, i \in DOMAIN instances,
               c \in DOMAIN capabilities, intent \in Intents, audience \in Audiences,
               behalf \in ActAuthorities, nonce \in Nonces :
                  Decide(op, i, c, intent, audience, behalf, nonce)
      BY <1>7 DEF Decision
    <2> QED  BY <1>3, <2>1 DEF Decide
  <1>8. CASE \E after \in SealDelays : SealIssuer(after)
    BY <1>3, <1>8 DEF SealIssuer
  <1>9. CASE Tick \/ UNCHANGED vars
    BY <1>3, <1>9 DEF Tick, vars, records
  <1> QED
    BY <1>1, <1>2, <1>4, <1>5, <1>6, <1>7, <1>8, <1>9

LEMMA GrantNext == TypeOK /\ GrantInv /\ [Next]_vars => GrantInv'
  <1> SUFFICES ASSUME TypeOK, GrantInv, [Next]_vars PROVE GrantInv'
    OBVIOUS
  <1>1. ASSUME NEW type \in DOMAIN agentTypes, NEW intent, NEW audience, NEW behalf,
               BirthWrite(type, intent, audience, behalf)
        PROVE  GrantInv'
    BY <1>1, BirthWriteGrant
  <1>2. CASE Mint
    BY <1>2, MintCapabilityGrant DEF Mint
  <1>3. CASE Spawn
    BY <1>3, SpawnChildGrant DEF Spawn
  <1>4. CASE Attenuate
    BY <1>4, AttenuateCapabilityGrant DEF Attenuate
  <1> QED  BY <1>1, <1>2, <1>3, <1>4, OtherGrant DEF Next, Birth

------------------------------------------------------------------------------
(* From one hop to the whole tree.                                           *)

LEMMA GrantTree ==
    TypeOK /\ GrantInv =>
        \A c \in DOMAIN capabilities : \A d \in CapabilityAncestors(c) :
            GrantWithin(capabilities[c], capabilities[d])
  <1> SUFFICES ASSUME TypeOK, GrantInv, NEW c \in DOMAIN capabilities,
                      NEW d \in CapabilityAncestors(c)
               PROVE  GrantWithin(capabilities[c], capabilities[d])
    OBVIOUS
  <1> DEFINE S == {e \in DOMAIN chains : GrantWithin(capabilities[e], capabilities[d])}
  <1>1. /\ DOMAIN chains = DOMAIN capabilities
        /\ \A e \in DOMAIN chains : capabilities[e] \in CapabilityRecord /\ e # 0
    BY ElementFacts DEF TypeOK
  <1>2. d \in DOMAIN chains /\ c \in Tree(CapabilityParent, {d})
    BY DEF CapabilityAncestors
  <1>3. {d} \subseteq S
    BY <1>1, <1>2, GrantReflexive
  <1>4. ASSUME NEW e \in DOMAIN chains, chains[e].parent \in S
        PROVE  e \in S
    <2>1. chains[e].parent \in DOMAIN chains /\ chains[e].parent # 0
      BY <1>1, <1>4
    <2>2. GrantWithin(capabilities[e], capabilities[chains[e].parent])
      BY <1>1, <2>1 DEF GrantInv
    <2>3. GrantWithin(capabilities[chains[e].parent], capabilities[d])
      BY <1>4
    <2> QED  BY <1>1, <1>2, <2>1, <2>2, <2>3, GrantTransitive
  <1>5. S \in SUBSET DOMAIN chains
    OBVIOUS
  <1> HIDE DEF S
  <1>6. Tree(CapabilityParent, {d}) \subseteq S
    BY <1>3, <1>4, <1>5, TreeLeast DEF CapabilityParent
  <1> QED  BY <1>2, <1>6 DEF S

LEMMA GrantCorrect == Spec => [](TypeOK /\ GrantInv)
  <1>1. Init => GrantInv
    BY DEF Init, GrantInv
  <1> QED  BY TypeCorrect, <1>1, GrantNext, PTL DEF Spec

\* However long a delegation chain is and however it was made, nothing on it
\* grants more than any of its ancestors, than its agent type, or deeper than
\* the delegation depth.
THEOREM AuthorityCorrect == Spec => []AuthorityNeverWidens
  <1>1. TypeOK /\ GrantInv => AuthorityNeverWidens
    BY GrantTree DEF GrantInv, WithinType, AuthorityNeverWidens
  <1> QED  BY GrantCorrect, <1>1, PTL
==============================================================================
