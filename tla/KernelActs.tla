------------------------------ MODULE KernelActs -----------------------------
(***************************************************************************)
(* What the lines of the log that grant something (an allowed act, an      *)
(* issued capability) say about the records, then and ever after.          *)
(*                                                                         *)
(* GrantedLine is what an action establishes when it writes such a line.   *)
(* It is about one capability and one instance; GrantTree and KilledTree   *)
(* carry it to all their ancestors, and TreeOfOld says that the ancestors  *)
(* of a record do not change when others are added.                        *)
(*                                                                         *)
(* Then what follows from the same steps: nothing is undone, expiries are  *)
(* kept, and a proof serves one act.                                       *)
(***************************************************************************)
EXTENDS KernelProofs

LineWithin(line, capability) ==
    /\ IsNarrowerOrEqual(line.intent, capability.intent)
    /\ IsNarrowerOrEqual(line.audience, capability.audience)
    /\ line.time <= capability.expires

ActInv ==
    \A p \in DOMAIN log :
        Grants(log[p]) =>
            /\ log[p].cap \in DOMAIN capabilities
            /\ log[p].inst \in DOMAIN instances
            /\ log[p].allowed => LineWithin(log[p], capabilities[log[p].cap])

------------------------------------------------------------------------------
(* What a step does to the records and to the log.                           *)

RecordsGrow ==
    /\ \A c \in DOMAIN capabilities :
          c \in DOMAIN capabilities' /\ capabilities'[c] = capabilities[c]
    /\ \A c \in DOMAIN chains :
          c \in DOMAIN chains' /\ chains'[c].parent = chains[c].parent
    /\ \A i \in DOMAIN instances :
          i \in DOMAIN instances' /\ instances'[i].parent = instances[i].parent

GrantedLine(line) ==
    Grants(line) =>
        /\ line.cap \in DOMAIN capabilities' /\ ~CapabilityKilled(line.cap)
        /\ line.inst \in DOMAIN instances' /\ ~InstanceKilled(line.inst)
        /\ line.allowed => /\ line.cap \in DOMAIN capabilities
                           /\ LineWithin(line, capabilities[line.cap])

LogGrowsGranted ==
    /\ Len(log) <= Len(log')
    /\ \A p \in DOMAIN log : log'[p] = log[p]
    /\ \A p \in DOMAIN log' \ DOMAIN log :
          GrantedLine(log'[p]) /\ (Grants(log'[p]) => LogGrowsQuietly)

LEMMA OneGrantedLine ==
    ASSUME TypeOK, NEW line, GrantedLine(line), Grants(line) => Quiet(line),
           log' = Append(log, line)
    PROVE  LogGrowsGranted
  <1>1. /\ DOMAIN log = 1..Len(log) /\ Len(log) \in Nat
        /\ DOMAIN log' = 1..(Len(log) + 1)
        /\ \A k \in DOMAIN log : log'[k] = log[k]
        /\ log'[Len(log) + 1] = line
    BY AppendIndex DEF TypeOK
  <1>2. Len(log') = Len(log) + 1
    <2>1. log \in Seq(LogLine \union {line}) /\ line \in LogLine \union {line}
      BY DEF TypeOK
    <2> QED  BY <2>1, AppendFacts
  <1>3. Grants(line) => LogGrowsQuietly
    BY OneQuietLine
  <1> QED  BY <1>1, <1>2, <1>3 DEF LogGrowsGranted

\* The line that spends a proof grants nothing; what follows it may.
LEMMA TwoGrantedLines ==
    ASSUME TypeOK, NEW first \in LogLine, NEW second, Quiet(first), Quiet(second),
           ~Grants(first), GrantedLine(second), log' = Append(Append(log, first), second)
    PROVE  LogGrowsGranted
  <1> DEFINE lines == Append(log, first)
  <1>1. /\ lines \in Seq(LogLine) /\ DOMAIN log = 1..Len(log) /\ Len(log) \in Nat
        /\ Len(lines) = Len(log) + 1
        /\ \A k \in DOMAIN log : lines[k] = log[k]
        /\ lines[Len(log) + 1] = first
    BY AppendFacts DEF TypeOK
  <1>2. log' = Append(lines, second)
    OBVIOUS
  <1>3. LogGrowsQuietly
    BY TwoQuietLines
  <1> HIDE DEF lines
  <1>4. /\ DOMAIN lines = 1..Len(lines)
        /\ DOMAIN log' = 1..(Len(lines) + 1)
        /\ \A k \in DOMAIN lines : log'[k] = lines[k]
        /\ log'[Len(lines) + 1] = second
    BY <1>1, <1>2, AppendIndex
  <1>5. Len(log') = Len(lines) + 1
    <2>1. lines \in Seq(LogLine \union {second}) /\ second \in LogLine \union {second}
      BY <1>1
    <2> QED  BY <1>2, <2>1, AppendFacts
  <1>6. GrantedLine(first)
    BY DEF GrantedLine
  <1> QED  BY <1>1, <1>3, <1>4, <1>5, <1>6 DEF LogGrowsGranted

------------------------------------------------------------------------------
(* One step per action.                                                      *)

\* An issued capability: a record of its own, named by its own line.
LEMMA IssuedLine ==
    ASSUME TypeOK, KillsNameRecords, NEW op \in IssuanceOperations, NEW i,
           i \in DOMAIN instances', ~InstanceKilled(i),
           NEW capability, capabilities' = Append(capabilities, capability)
    PROVE  LET line == Line(op, i, Len(capabilities) + 1)
           IN  GrantedLine(line) /\ Quiet(line)
  <1> DEFINE line == Line(op, i, Len(capabilities) + 1)
  <1>1. line.cap = Len(capabilities) + 1 /\ line.inst = i /\ line.allowed = FALSE
    BY DEF Line
  <1>2. Len(capabilities) + 1 \in DOMAIN capabilities'
    BY AppendIndex DEF TypeOK
  <1>3. ~CapabilityKilled(Len(capabilities) + 1)
    BY UnbornNotKilled
  <1>4. Quiet(line)
    BY QuietLine DEF IssuanceOperations, KillOperations
  <1> HIDE DEF line
  <1> QED  BY <1>1, <1>2, <1>3, <1>4 DEF GrantedLine, line

LEMMA IssueGrows ==
    ASSUME TypeOK, NEW capability, NEW chain, NEW op, NEW lines,
           Issue(capability, chain, op, lines),
           \A i \in DOMAIN instances :
              i \in DOMAIN instances' /\ instances'[i].parent = instances[i].parent
    PROVE  RecordsGrow
  BY AppendIndex DEF Issue, RecordsGrow, TypeOK

Grown == RecordsGrow /\ LogGrowsGranted

LEMMA BirthWriteGrown ==
    ASSUME TypeOK, KillsNameRecords, NEW type, NEW intent, NEW audience, NEW behalf,
           BirthWrite(type, intent, audience, behalf)
    PROVE  Grown
  <1> DEFINE i == Len(instances) + 1
             capability == NewCapability(i, NewInstance(type, 0), intent, audience, behalf)
             line == Line("birth_write", i, Len(capabilities) + 1)
  <1>1. instances' = Append(instances, NewInstance(type, 0))
    BY DEF BirthWrite
  <1>2. /\ capabilities' = Append(capabilities, capability)
        /\ log' = Append(log, line)
        /\ Issue(capability, NewChain(0, 0), "birth_write", log)
    BY DEF BirthWrite, Issue, NewCapability
  <1>3. ~InstanceKilled(i) /\ i \in DOMAIN instances'
    BY <1>1, UnbornNotKilled, AppendIndex DEF TypeOK
  <1>4. \A j \in DOMAIN instances :
           j \in DOMAIN instances' /\ instances'[j].parent = instances[j].parent
    BY <1>1, BornInstance
  <1> HIDE DEF i, capability
  <1>5. GrantedLine(line) /\ Quiet(line)
    BY <1>2, <1>3, IssuedLine DEF IssuanceOperations
  <1> HIDE DEF line
  <1> QED  BY <1>2, <1>4, <1>5, IssueGrows, OneGrantedLine DEF Grown

LEMMA MintCapabilityGrown ==
    ASSUME TypeOK, KillsNameRecords, NEW i \in DOMAIN instances, NEW intent, NEW audience,
           NEW behalf, MintCapability(i, intent, audience, behalf)
    PROVE  Grown
  <1> DEFINE capability == NewCapability(i, instances[i], intent, audience, behalf)
             line == Line("mint", i, Len(capabilities) + 1)
  <1>1. /\ capabilities' = Append(capabilities, capability)
        /\ log' = Append(log, line)
        /\ Issue(capability, NewChain(0, 0), "mint", log)
        /\ UNCHANGED instances
    BY DEF MintCapability, Issue, NewCapability
  <1>2. ~InstanceKilled(i)
    BY DEF MintCapability, RequireLiveInstance, Live
  <1> HIDE DEF capability
  <1>3. GrantedLine(line) /\ Quiet(line)
    BY <1>1, <1>2, IssuedLine DEF IssuanceOperations
  <1> HIDE DEF line
  <1> QED  BY <1>1, <1>3, IssueGrows, OneGrantedLine DEF Grown

LEMMA AttenuateCapabilityGrown ==
    ASSUME TypeOK, KillsNameRecords, NEW c \in DOMAIN capabilities, NEW intent,
           NEW audience, AttenuateCapability(c, intent, audience)
    PROVE  Grown
  <1> DEFINE i == capabilities[c].inst
             child == [capabilities[c] EXCEPT
                          !.intent = intent, !.audience = audience,
                          !.token = @ \union {Len(capabilities) + 1}]
             line == Line("attenuate", i, Len(capabilities) + 1)
  <1>1. capabilities[c] \in CapabilityRecord /\ i \in DOMAIN instances
    BY ElementFacts DEF TypeOK
  <1>2. child.inst = i
    BY <1>1 DEF CapabilityRecord
  <1>3. /\ capabilities' = Append(capabilities, child)
        /\ log' = Append(log, line)
        /\ Issue(child, NewChain(c, chains[c].hop + 1), "attenuate", log)
        /\ UNCHANGED instances
    BY <1>2 DEF AttenuateCapability, Issue
  <1>4. ~InstanceKilled(i)
    BY DEF AttenuateCapability, RequireLiveInstance, Live
  <1> HIDE DEF i, child
  <1>5. GrantedLine(line) /\ Quiet(line)
    BY <1>1, <1>3, <1>4, IssuedLine DEF IssuanceOperations
  <1> HIDE DEF line
  <1> QED  BY <1>3, <1>5, IssueGrows, OneGrantedLine DEF Grown

LEMMA SpentLine ==
    ASSUME TypeOK, NEW i \in DOMAIN instances, NEW nonce \in DOMAIN log
    PROVE  \E spent \in LogLine : /\ Quiet(spent) /\ ~Grants(spent)
                                  /\ LogWithSpent(i, nonce) = Append(log, spent)
  <1> DEFINE spent == [Line("challenge_spent", i, 0) EXCEPT !.nonce = nonce]
  <1>1. spent \in LogLine
    BY SpentOK
  <1>2. Quiet(spent) /\ ~Grants(spent)
    BY DEF Quiet, Grants, Line, IssuanceOperations, KillOperations
  <1>3. LogWithSpent(i, nonce) = Append(log, spent)
    BY DEF LogWithSpent
  <1> QED  BY <1>1, <1>2, <1>3

LEMMA SpawnChildGrown ==
    ASSUME TypeOK, KillsNameRecords, NEW i \in DOMAIN instances, NEW c, NEW intent,
           NEW audience, NEW behalf, NEW nonce \in Nonces,
           SpawnChild(i, c, intent, audience, behalf, nonce)
    PROVE  Grown
  <1>1. PICK spent \in LogLine : /\ Quiet(spent) /\ ~Grants(spent)
                                 /\ LogWithSpent(i, nonce) = Append(log, spent)
    BY SpentLine DEF Nonces
  <1>2. CASE SpawnAllowed(i, c, intent, audience, behalf)
    <2> DEFINE child == Len(instances) + 1
               instance == NewInstance(instances[i].type, i)
               capability == NewCapability(child, instance, intent, audience, behalf)
               chain == NewChain(c, chains[c].hop + 1)
               line == Line("spawn", child, Len(capabilities) + 1)
    <2>1. /\ instances' = Append(instances, instance)
          /\ capabilities' = Append(capabilities, capability)
          /\ Issue(capability, chain, "spawn", LogWithSpent(i, nonce))
          /\ log' = Append(Append(log, spent), line)
      BY <1>1, <1>2 DEF SpawnChild, Issue, NewCapability
    <2>2. ~InstanceKilled(child) /\ child \in DOMAIN instances'
      BY <2>1, UnbornNotKilled, AppendIndex DEF TypeOK
    <2>3. \A j \in DOMAIN instances :
             j \in DOMAIN instances' /\ instances'[j].parent = instances[j].parent
      BY <2>1, BornInstance
    <2> HIDE DEF child, instance, capability, chain
    <2>4. GrantedLine(line) /\ Quiet(line)
      BY <2>1, <2>2, IssuedLine DEF IssuanceOperations
    <2> HIDE DEF line
    <2>5. RecordsGrow
      BY <2>1, <2>3, IssueGrows
    <2>6. LogGrowsGranted
      BY <1>1, <2>1, <2>4, TwoGrantedLines
    <2> QED  BY <2>5, <2>6 DEF Grown
  <1>3. CASE ~SpawnAllowed(i, c, intent, audience, behalf)
    <2>1. log' = Append(log, spent) /\ UNCHANGED <<instances, capabilities, chains>>
      BY <1>1, <1>3 DEF SpawnChild, records
    <2>2. GrantedLine(spent)
      BY <1>1 DEF GrantedLine
    <2> QED  BY <1>1, <2>1, <2>2, OneGrantedLine DEF Grown, RecordsGrow
  <1> QED  BY <1>2, <1>3

LEMMA DecideGrown ==
    ASSUME TypeOK, NEW op \in DecisionOperations, NEW i \in DOMAIN instances,
           NEW c \in DOMAIN capabilities, NEW intent, NEW audience, NEW behalf,
           NEW nonce \in Nonces, Decide(op, i, c, intent, audience, behalf, nonce)
    PROVE  Grown
  <1> DEFINE line == [Line(op, i, c) EXCEPT !.intent = intent, !.audience = audience,
                                            !.allowed = TRUE]
  <1>1. PICK spent \in LogLine : /\ Quiet(spent) /\ ~Grants(spent)
                                 /\ LogWithSpent(i, nonce) = Append(log, spent)
    BY SpentLine DEF Nonces
  <1>2. RecordsGrow
    BY DEF Decide, records, RecordsGrow
  <1>3. CASE EvaluateCheck(op, i, Live(i), c, intent, audience, behalf)
    <2>1. log' = Append(Append(log, spent), line) /\ UNCHANGED <<capabilities, instances>>
      BY <1>1, <1>3 DEF Decide, records
    <2>2. /\ line.cap = c /\ line.inst = i /\ line.intent = intent
          /\ line.audience = audience /\ line.time = now /\ Quiet(line)
      BY DEF Line, Quiet, DecisionOperations, KillOperations
    <2>3. /\ ~CapabilityKilled(c) /\ ~InstanceKilled(i)
          /\ RequestWithin(c, intent, audience) /\ now <= capabilities[c].expires
      BY <1>3 DEF EvaluateCheck, EvaluateCapability, NotRevoked, Live
    <2> HIDE DEF line
    <2>4. GrantedLine(line)
      BY <2>1, <2>2, <2>3 DEF GrantedLine, LineWithin, RequestWithin
    <2>5. LogGrowsGranted
      BY <1>1, <2>1, <2>2, <2>4, TwoGrantedLines
    <2> QED  BY <1>2, <2>5 DEF Grown
  <1>4. CASE ~EvaluateCheck(op, i, Live(i), c, intent, audience, behalf)
    <2>1. log' = Append(log, spent)
      BY <1>1, <1>4 DEF Decide
    <2>2. GrantedLine(spent)
      BY <1>1 DEF GrantedLine
    <2> QED  BY <1>1, <1>2, <2>1, <2>2, OneGrantedLine DEF Grown
  <1> QED  BY <1>3, <1>4

\* The other actions write one line that grants nothing, or none.
LEMMA NoGrant ==
    ASSUME TypeOK, NEW line, ~Grants(line), log' = Append(log, line)
    PROVE  LogGrowsGranted
  BY OneGrantedLine DEF GrantedLine

LEMMA LogKept ==
    ASSUME TypeOK, UNCHANGED log
    PROVE  LogGrowsGranted
  <1>1. Len(log) <= Len(log')
    BY DEF TypeOK
  <1> QED  BY <1>1 DEF LogGrowsGranted

LEMMA OtherGrown ==
    ASSUME TypeOK,
           \/ \E type \in TypeChoices : AddAgentType(type)
           \/ \E type \in DOMAIN agentTypes : BirthInstance(type)
           \/ Challenge
           \/ \E c \in DOMAIN capabilities : KillCapability(c)
           \/ \E i \in DOMAIN instances : KillInstance(i)
           \/ \E after \in SealDelays : SealIssuer(after)
           \/ Tick \/ UNCHANGED vars
    PROVE  Grown
  <1>0. /\ \A i \in DOMAIN instances : instances[i] \in InstanceRecord
        /\ \A c \in DOMAIN chains : chains[c] \in ChainRecord
    BY ElementFacts DEF TypeOK
  <1>1. CASE \/ \E type \in TypeChoices : AddAgentType(type)
             \/ Tick \/ UNCHANGED vars
    BY <1>1, LogKept DEF AddAgentType, Tick, vars, records, Grown, RecordsGrow
  <1>2. CASE \E type \in DOMAIN agentTypes : BirthInstance(type)
    BY <1>2, LogKept, BornInstance DEF BirthInstance, Grown, RecordsGrow
  <1>3. CASE Challenge
    <2>1. PICK i \in DOMAIN instances : IssueHolderChallenge(i)
      BY <1>3 DEF Challenge
    <2> DEFINE line == [Line("challenge", i, 0) EXCEPT !.expires = now + ChallengeWindow]
    <2>2. log' = Append(log, line) /\ RecordsGrow
      BY <2>1 DEF IssueHolderChallenge, records, RecordsGrow
    <2>3. ~Grants(line)
      BY DEF Line, Grants, IssuanceOperations
    <2> HIDE DEF line
    <2> QED  BY <2>2, <2>3, NoGrant DEF Grown
  <1>4. CASE \E c \in DOMAIN capabilities : KillCapability(c)
    <2>1. PICK c \in DOMAIN capabilities : KillCapability(c)
      BY <1>4
    <2> DEFINE line == [Line("kill_capability", capabilities[c].inst, c) EXCEPT
                           !.killedCapabilities = Tree(CapabilityParent, {c}),
                           !.revoked = {c}]
    <2>2. /\ log' = Append(log, line)
          /\ UNCHANGED <<instances, capabilities>>
          /\ chains' = [chains EXCEPT ![c].revoked = TRUE]
      BY <2>1 DEF KillCapability
    <2>3. ~Grants(line)
      BY DEF Line, Grants, IssuanceOperations
    <2>4. RecordsGrow
      BY <1>0, <2>2 DEF RecordsGrow, ChainRecord
    <2> HIDE DEF line
    <2> QED  BY <2>2, <2>3, <2>4, NoGrant DEF Grown
  <1>5. CASE \E i \in DOMAIN instances : KillInstance(i)
    <2>1. PICK i \in DOMAIN instances : KillInstance(i)
      BY <1>5
    <2> DEFINE killed == Tree(InstanceParent, {i})
               derived == Tree(CapabilityParent, UNION {CapabilitiesOf(j) : j \in killed})
               line == [Line("kill_instance", i, 0) EXCEPT
                           !.killedInstances = killed, !.killedCapabilities = derived,
                           !.revoked = derived]
    <2>2. /\ log' = Append(log, line)
          /\ UNCHANGED capabilities
          /\ instances' = [j \in DOMAIN instances |->
                              [instances[j] EXCEPT !.live = @ /\ j \notin killed]]
          /\ chains' = [c \in DOMAIN chains |->
                              [chains[c] EXCEPT !.revoked = @ \/ c \in derived]]
      BY <2>1 DEF KillInstance
    <2>3. ~Grants(line)
      BY DEF Line, Grants, IssuanceOperations
    <2> HIDE DEF killed, derived, line
    <2>4. RecordsGrow
      BY <1>0, <2>2 DEF RecordsGrow, InstanceRecord, ChainRecord
    <2> QED  BY <2>2, <2>3, <2>4, NoGrant DEF Grown
  <1>6. CASE \E after \in SealDelays : SealIssuer(after)
    <2> DEFINE line == Line("issuer_seal", 0, 0)
    <2>1. log' = Append(log, line) /\ RecordsGrow
      BY <1>6 DEF SealIssuer, records, RecordsGrow
    <2>2. ~Grants(line)
      BY DEF Line, Grants, IssuanceOperations
    <2> HIDE DEF line
    <2> QED  BY <2>1, <2>2, NoGrant DEF Grown
  <1> QED  BY <1>1, <1>2, <1>3, <1>4, <1>5, <1>6

LEMMA NextGrown == TypeOK /\ KillsNameRecords /\ [Next]_vars => Grown
  <1> SUFFICES ASSUME TypeOK, KillsNameRecords, [Next]_vars PROVE Grown
    OBVIOUS
  <1>1. ASSUME NEW type, NEW intent, NEW audience, NEW behalf,
               BirthWrite(type, intent, audience, behalf)
        PROVE  Grown
    BY <1>1, BirthWriteGrown
  <1>2. CASE Mint
    BY <1>2, MintCapabilityGrown DEF Mint
  <1>3. CASE Spawn
    BY <1>3, SpawnChildGrown DEF Spawn
  <1>4. CASE Attenuate
    BY <1>4, AttenuateCapabilityGrown DEF Attenuate
  <1>5. CASE Decision
    BY <1>5, DecideGrown DEF Decision
  <1> QED  BY <1>1, <1>2, <1>3, <1>4, <1>5, OtherGrown DEF Next, Birth

------------------------------------------------------------------------------
(* Trees: what is killed kills what descends from it, and the tree of a      *)
(* record that exists does not change when records are added.                *)

KilledDownward ==
    /\ \A c \in DOMAIN chains : ~CapabilityKilled(c) =>
          \A d \in CapabilityAncestors(c) : ~CapabilityKilled(d)
    /\ \A i \in DOMAIN instances : ~InstanceKilled(i) =>
          \A j \in InstanceAncestors(i) : ~InstanceKilled(j)

LEMMA KilledTree == TypeOK /\ DeathReachesDescendants => KilledDownward
  <1> SUFFICES ASSUME TypeOK, DeathReachesDescendants PROVE KilledDownward
    OBVIOUS
  <1>1. /\ \A c \in DOMAIN chains : c # 0
        /\ \A i \in DOMAIN instances : i # 0
    BY DEF TypeOK
  <1>2. ASSUME NEW c \in DOMAIN chains, NEW d \in CapabilityAncestors(c),
               CapabilityKilled(d)
        PROVE  CapabilityKilled(c)
    <2> DEFINE S == {e \in DOMAIN chains : CapabilityKilled(e)}
    <2>1. {d} \subseteq S /\ c \in Tree(CapabilityParent, {d})
      BY <1>2 DEF CapabilityAncestors
    <2>2. \A e \in DOMAIN CapabilityParent : CapabilityParent[e] \in S => e \in S
      BY <1>1 DEF CapabilityParent, DeathReachesDescendants
    <2>3. S \in SUBSET DOMAIN CapabilityParent
      BY DEF CapabilityParent
    <2> HIDE DEF S
    <2>4. Tree(CapabilityParent, {d}) \subseteq S
      BY <2>1, <2>2, <2>3, TreeLeast
    <2> QED  BY <2>1, <2>4 DEF S
  <1>3. ASSUME NEW i \in DOMAIN instances, NEW j \in InstanceAncestors(i),
               InstanceKilled(j)
        PROVE  InstanceKilled(i)
    <2> DEFINE S == {e \in DOMAIN instances : InstanceKilled(e)}
    <2>1. {j} \subseteq S /\ i \in Tree(InstanceParent, {j})
      BY <1>3 DEF InstanceAncestors
    <2>2. \A e \in DOMAIN InstanceParent : InstanceParent[e] \in S => e \in S
      BY <1>1 DEF InstanceParent, DeathReachesDescendants
    <2>3. S \in SUBSET DOMAIN InstanceParent
      BY DEF InstanceParent
    <2> HIDE DEF S
    <2>4. Tree(InstanceParent, {j}) \subseteq S
      BY <2>1, <2>2, <2>3, TreeLeast
    <2> QED  BY <2>1, <2>4 DEF S
  <1> QED  BY <1>2, <1>3 DEF KilledDownward

\* g extends f, and nothing of f has a parent that only g has.
LEMMA TreeOfOld ==
    ASSUME NEW f, NEW g, NEW d, NEW c \in DOMAIN f, DOMAIN f \subseteq DOMAIN g,
           \A x \in DOMAIN f : g[x] = f[x],
           \A x \in DOMAIN f : f[x] \notin DOMAIN g \ DOMAIN f,
           d \in DOMAIN g, c \in Tree(g, {d})
    PROVE  d \in DOMAIN f /\ c \in Tree(f, {d})
  <1>1. d \in DOMAIN f
    <2> SUFFICES ASSUME d \notin DOMAIN f PROVE FALSE
      OBVIOUS
    <2> DEFINE S == DOMAIN g \ DOMAIN f
    <2>1. /\ S \in SUBSET DOMAIN g /\ {d} \subseteq S
          /\ \A e \in DOMAIN g : g[e] \in S => e \in S
      OBVIOUS
    <2>2. Tree(g, {d}) \subseteq S
      <3> HIDE DEF S
      <3> QED  BY <2>1, TreeLeast
    <2> QED  BY <2>2
  <1>2. ASSUME NEW S \in SUBSET DOMAIN f, {d} \subseteq S,
               \A e \in DOMAIN f : f[e] \in S => e \in S
        PROVE  c \in S
    <2> DEFINE T == S \union (DOMAIN g \ DOMAIN f)
    <2>1. /\ T \in SUBSET DOMAIN g /\ {d} \subseteq T
          /\ \A e \in DOMAIN g : g[e] \in T => e \in T
      BY <1>2
    <2>2. Tree(g, {d}) \subseteq T
      <3> HIDE DEF T
      <3> QED  BY <2>1, TreeLeast
    <2> QED  BY <2>2
  <1> QED  BY <1>1, <1>2 DEF Tree

\* The parents of the records there are do not include one still to come.
LEMMA ParentsExist ==
    ASSUME TypeOK
    PROVE  /\ \A c \in DOMAIN chains : chains[c].parent \in DOMAIN chains \union {0}
           /\ \A i \in DOMAIN instances : instances[i].parent \in DOMAIN instances \union {0}
  <1>1. /\ \A c \in DOMAIN chains :
              chains[c] \in ChainRecord /\ c \in Nat /\ c <= Len(chains)
        /\ \A i \in DOMAIN instances :
              instances[i] \in InstanceRecord /\ i \in Nat /\ i <= Len(instances)
    BY ElementFacts DEF TypeOK
  <1>2. /\ DOMAIN chains = 1..Len(chains) /\ DOMAIN instances = 1..Len(instances)
        /\ Len(chains) \in Nat /\ Len(instances) \in Nat
    BY DEF TypeOK
  <1>3. ASSUME NEW c \in DOMAIN chains
        PROVE  chains[c].parent \in DOMAIN chains \union {0}
    <2>1. chains[c].parent \in Nat /\ chains[c].parent < c
      BY <1>1 DEF ChainRecord, TypeOK
    <2> QED  BY <1>1, <1>2, <2>1
  <1>4. ASSUME NEW i \in DOMAIN instances
        PROVE  instances[i].parent \in DOMAIN instances \union {0}
    <2>1. instances[i].parent \in Nat /\ instances[i].parent < i
      BY <1>1 DEF InstanceRecord, TypeOK
    <2> QED  BY <1>1, <1>2, <2>1
  <1> QED  BY <1>3, <1>4

LEMMA AncestorsKept ==
    ASSUME TypeOK, TypeOK', RecordsGrow
    PROVE  /\ \A c \in DOMAIN chains : CapabilityAncestors(c)' \subseteq CapabilityAncestors(c)
           /\ \A i \in DOMAIN instances : InstanceAncestors(i)' \subseteq InstanceAncestors(i)
  <1>0. /\ 0 \notin DOMAIN chains' /\ 0 \notin DOMAIN instances'
    BY DEF TypeOK
  <1>1. ASSUME NEW c \in DOMAIN chains, NEW d \in DOMAIN chains',
               c \in Tree(CapabilityParent', {d})
        PROVE  d \in CapabilityAncestors(c)
    <2> DEFINE f == CapabilityParent
               g == CapabilityParent'
    <2>1. /\ DOMAIN f = DOMAIN chains /\ DOMAIN g = DOMAIN chains'
          /\ \A x \in DOMAIN f : f[x] = chains[x].parent
          /\ \A x \in DOMAIN g : g[x] = chains'[x].parent
      BY DEF CapabilityParent
    <2>2. c \in Tree(g, {d})
      BY <1>1
    <2> HIDE DEF f, g
    <2>3. /\ DOMAIN f \subseteq DOMAIN g
          /\ \A x \in DOMAIN f : g[x] = f[x]
          /\ \A x \in DOMAIN f : f[x] \notin DOMAIN g \ DOMAIN f
      BY <1>0, <2>1, ParentsExist DEF RecordsGrow
    <2>4. d \in DOMAIN f /\ c \in Tree(f, {d})
      BY <1>1, <2>1, <2>2, <2>3, TreeOfOld
    <2> QED  BY <2>1, <2>4 DEF CapabilityAncestors, f
  <1>2. ASSUME NEW i \in DOMAIN instances, NEW j \in DOMAIN instances',
               i \in Tree(InstanceParent', {j})
        PROVE  j \in InstanceAncestors(i)
    <2> DEFINE f == InstanceParent
               g == InstanceParent'
    <2>1. /\ DOMAIN f = DOMAIN instances /\ DOMAIN g = DOMAIN instances'
          /\ \A x \in DOMAIN f : f[x] = instances[x].parent
          /\ \A x \in DOMAIN g : g[x] = instances'[x].parent
      BY DEF InstanceParent
    <2>2. i \in Tree(g, {j})
      BY <1>2
    <2> HIDE DEF f, g
    <2>3. /\ DOMAIN f \subseteq DOMAIN g
          /\ \A x \in DOMAIN f : g[x] = f[x]
          /\ \A x \in DOMAIN f : f[x] \notin DOMAIN g \ DOMAIN f
      BY <1>0, <2>1, ParentsExist DEF RecordsGrow
    <2>4. j \in DOMAIN f /\ i \in Tree(f, {j})
      BY <1>2, <2>1, <2>2, <2>3, TreeOfOld
    <2> QED  BY <2>1, <2>4 DEF InstanceAncestors, f
  <1>3. ASSUME NEW c \in DOMAIN chains
        PROVE  CapabilityAncestors(c)' \subseteq CapabilityAncestors(c)
    BY <1>1 DEF CapabilityAncestors, Tree
  <1>4. ASSUME NEW i \in DOMAIN instances
        PROVE  InstanceAncestors(i)' \subseteq InstanceAncestors(i)
    BY <1>2 DEF InstanceAncestors, Tree
  <1> QED  BY <1>3, <1>4

------------------------------------------------------------------------------
(* The invariants of the log.                                                *)

LEMMA ActStep ==
    ASSUME TypeOK, ActInv, Grown
    PROVE  ActInv'
  <1> SUFFICES ASSUME NEW p \in DOMAIN log', Grants(log'[p])
               PROVE  /\ log'[p].cap \in DOMAIN capabilities'
                      /\ log'[p].inst \in DOMAIN instances'
                      /\ log'[p].allowed =>
                            LineWithin(log'[p], capabilities'[log'[p].cap])
    BY DEF ActInv, Grants, LineWithin
  <1>1. CASE p \in DOMAIN log
    BY <1>1 DEF ActInv, Grown, RecordsGrow, LogGrowsGranted
  <1>2. CASE p \notin DOMAIN log
    BY <1>2 DEF Grown, RecordsGrow, LogGrowsGranted, GrantedLine
  <1> QED  BY <1>1, <1>2

FinalInv == ActInv /\ DeathIsFinal

LEMMA FinalStep ==
    ASSUME TypeOK, TypeOK', KilledDownward', FinalInv, Grown
    PROVE  DeathIsFinal'
  <1>1. ASSUME NEW p \in DOMAIN log', NEW q \in DOMAIN log', p < q, Grants(log'[q]),
               NEW c, c = log'[q].cap, NEW i, i = log'[q].inst
        PROVE  /\ \A d \in CapabilityAncestors(c)' : ~HitsCapability(log'[p], d)
               /\ \A j \in InstanceAncestors(i)' : ~HitsInstance(log'[p], j)
    <2>1. /\ DOMAIN log = 1..Len(log) /\ DOMAIN log' = 1..Len(log')
          /\ Len(log) \in Nat /\ Len(log') \in Nat
      BY DEF TypeOK
    <2>2. CASE q \in DOMAIN log
      <3>1. /\ p \in DOMAIN log /\ log'[p] = log[p] /\ log'[q] = log[q]
            /\ c \in DOMAIN chains /\ i \in DOMAIN instances
        <4>1. p \in DOMAIN log
          BY <1>1, <2>1, <2>2
        <4>2. log'[p] = log[p] /\ log'[q] = log[q]
          BY <2>2, <4>1 DEF Grown, LogGrowsGranted
        <4>3. c \in DOMAIN capabilities /\ i \in DOMAIN instances
          BY <1>1, <2>2, <4>2 DEF FinalInv, ActInv
        <4>4. DOMAIN capabilities = DOMAIN chains
          BY DEF TypeOK
        <4> QED  BY <4>1, <4>2, <4>3, <4>4
      <3>2. /\ \A d \in CapabilityAncestors(c) : ~HitsCapability(log[p], d)
            /\ \A j \in InstanceAncestors(i) : ~HitsInstance(log[p], j)
        BY <1>1, <2>2, <3>1 DEF FinalInv, DeathIsFinal
      <3> QED  BY <3>1, <3>2, AncestorsKept DEF Grown
    <2>3. CASE q \notin DOMAIN log
      <3>1. /\ c \in DOMAIN chains' /\ i \in DOMAIN instances'
            /\ ~CapabilityKilled(c) /\ ~InstanceKilled(i) /\ LogGrowsQuietly
        BY <1>1, <2>3 DEF Grown, LogGrowsGranted, GrantedLine, TypeOK
      <3>2. ~CapabilityKilled(c)' /\ ~InstanceKilled(i)'
        BY <3>1, QuietKills
      <3>3. /\ \A d \in CapabilityAncestors(c)' : ~CapabilityKilled(d)'
            /\ \A j \in InstanceAncestors(i)' : ~InstanceKilled(j)'
        BY <3>1, <3>2 DEF KilledDownward
      <3> QED  BY <3>3 DEF CapabilityKilled, InstanceKilled
    <2> QED  BY <2>2, <2>3
  <1> QED
    BY <1>1 DEF DeathIsFinal, Grants, HitsCapability, HitsInstance,
                CapabilityAncestors, InstanceAncestors, Tree

LEMMA FinalCorrect == Spec => [](TypeOK /\ FinalInv)
  <1>1. Init => FinalInv
    BY DEF Init, FinalInv, ActInv, DeathIsFinal
  <1>2. /\ TypeOK /\ DeathInv /\ FinalInv
        /\ TypeOK' /\ KilledDownward'
        /\ [Next]_vars
        => FinalInv'
    BY NextGrown, ActStep, FinalStep DEF FinalInv, DeathInv
  <1>3. Spec => []DeathInv
    BY TypeCorrect, DeathInit, DeathNext, PTL DEF Spec
  <1>4. DeathInv => DeathReachesDescendants
    BY DEF DeathInv
  <1> QED  BY TypeCorrect, <1>1, <1>2, <1>3, <1>4, KilledTree, PTL DEF Spec

\* Once a kill line is in the log, no line behind it allows an act or issues
\* anything for what it named or for what descends from that.
THEOREM DeathFinal == Spec => []DeathIsFinal
  <1>1. FinalInv => DeathIsFinal
    BY DEF FinalInv
  <1> QED  BY FinalCorrect, <1>1, PTL

LEMMA ActsTree == TypeOK /\ GrantInv /\ ActInv => ActsWithinEveryAncestor
  <1> SUFFICES ASSUME TypeOK, GrantInv, ActInv, NEW p \in DOMAIN log, log[p].allowed,
                      NEW d \in CapabilityAncestors(log[p].cap)
               PROVE  /\ IsNarrowerOrEqual(log[p].intent, capabilities[d].intent)
                      /\ IsNarrowerOrEqual(log[p].audience, capabilities[d].audience)
    BY DEF ActsWithinEveryAncestor
  <1> DEFINE c == log[p].cap
  <1>1. c \in DOMAIN capabilities /\ LineWithin(log[p], capabilities[c])
    BY DEF ActInv, Grants
  <1>2. GrantWithin(capabilities[c], capabilities[d])
    BY <1>1, GrantTree
  <1>3. d \in DOMAIN capabilities
    BY DEF CapabilityAncestors, TypeOK
  <1>4. /\ capabilities[c] \in CapabilityRecord /\ capabilities[d] \in CapabilityRecord
        /\ log[p] \in LogLine
    BY <1>1, <1>3, ElementFacts DEF TypeOK
  <1>5. /\ capabilities[c].intent \in Seq(STRING) /\ capabilities[c].audience \in Seq(STRING)
        /\ capabilities[d].intent \in Seq(STRING) /\ capabilities[d].audience \in Seq(STRING)
        /\ log[p].intent \in Seq(STRING) /\ log[p].audience \in Seq(STRING)
    BY <1>4 DEF CapabilityRecord, LogLine
  <1> HIDE DEF c
  <1> QED  BY <1>1, <1>2, <1>5, NarrowerTransitive DEF LineWithin, GrantWithin

\* What is allowed lies within the grant of every ancestor of the capability
\* the decision looked at, although it looked at that one only.
THEOREM ActsCorrect == Spec => []ActsWithinEveryAncestor
  <1>1. FinalInv => ActInv
    BY DEF FinalInv
  <1> QED  BY FinalCorrect, GrantCorrect, ActsTree, <1>1, PTL

------------------------------------------------------------------------------
(* Nothing is undone.                                                        *)

\* Status and flags on disk change one way only, and expiries do not change.
RecordsDie ==
    /\ \A i \in DOMAIN instances :
          /\ instances'[i].live => instances[i].live
          /\ instances'[i].expires = instances[i].expires
    /\ \A c \in DOMAIN chains : chains[c].revoked => chains'[c].revoked

LEMMA InstanceBorn ==
    ASSUME TypeOK, NEW e, instances' = Append(instances, e)
    PROVE  \A i \in DOMAIN instances : instances'[i] = instances[i]
  <1>1. instances \in Seq(InstanceRecord)
    BY DEF TypeOK
  <1> QED  BY <1>1, AppendIndex

LEMMA ChainBegun ==
    ASSUME TypeOK, NEW e, chains' = Append(chains, e)
    PROVE  \A c \in DOMAIN chains : chains'[c] = chains[c]
  <1>1. chains \in Seq(ChainRecord)
    BY DEF TypeOK
  <1> QED  BY <1>1, AppendIndex

LEMMA NextRecordsDie == TypeOK /\ [Next]_vars => RecordsDie
  <1> SUFFICES ASSUME TypeOK, [Next]_vars PROVE RecordsDie
    OBVIOUS
  <1>0. /\ \A i \in DOMAIN instances : instances[i] \in InstanceRecord
        /\ \A c \in DOMAIN chains : chains[c] \in ChainRecord
    BY ElementFacts DEF TypeOK
  <1>1. CASE \/ \E type \in TypeChoices : AddAgentType(type)
             \/ Challenge \/ Decision
             \/ \E after \in SealDelays : SealIssuer(after)
             \/ Tick \/ UNCHANGED vars
    <2>1. ASSUME NEW type, AddAgentType(type) PROVE UNCHANGED <<instances, chains>>
      BY <2>1 DEF AddAgentType
    <2>2. ASSUME Challenge PROVE UNCHANGED <<instances, chains>>
      BY <2>2 DEF Challenge, IssueHolderChallenge, records
    <2>3. ASSUME Decision PROVE UNCHANGED <<instances, chains>>
      BY <2>3 DEF Decision, Decide, records
    <2>4. ASSUME NEW after, SealIssuer(after) PROVE UNCHANGED <<instances, chains>>
      BY <2>4 DEF SealIssuer, records
    <2>5. Tick => UNCHANGED <<instances, chains>>
      BY DEF Tick, records
    <2>6. UNCHANGED vars => UNCHANGED <<instances, chains>>
      BY DEF vars, records
    <2>7. UNCHANGED <<instances, chains>>
      BY <1>1, <2>1, <2>2, <2>3, <2>4, <2>5, <2>6
    <2> QED  BY <2>7 DEF RecordsDie
  <1>2. ASSUME NEW type, BirthInstance(type)
        PROVE  RecordsDie
    <2>1. instances' = Append(instances, NewInstance(type, 0)) /\ UNCHANGED chains
      BY <1>2 DEF BirthInstance
    <2> QED  BY <2>1, InstanceBorn DEF RecordsDie
  <1>3. ASSUME NEW type, NEW intent, NEW audience, NEW behalf,
               BirthWrite(type, intent, audience, behalf)
        PROVE  RecordsDie
    <2>1. /\ instances' = Append(instances, NewInstance(type, 0))
          /\ chains' = Append(chains, NewChain(0, 0))
      BY <1>3 DEF BirthWrite, Issue
    <2> QED  BY <2>1, InstanceBorn, ChainBegun DEF RecordsDie
  <1>4. ASSUME NEW i, NEW intent, NEW audience, NEW behalf,
               MintCapability(i, intent, audience, behalf)
        PROVE  RecordsDie
    <2>1. UNCHANGED instances /\ chains' = Append(chains, NewChain(0, 0))
      BY <1>4 DEF MintCapability, Issue
    <2> QED  BY <2>1, ChainBegun DEF RecordsDie
  <1>5. ASSUME NEW c, NEW intent, NEW audience, AttenuateCapability(c, intent, audience)
        PROVE  RecordsDie
    <2>1. UNCHANGED instances /\ chains' = Append(chains, NewChain(c, chains[c].hop + 1))
      BY <1>5 DEF AttenuateCapability, Issue
    <2> QED  BY <2>1, ChainBegun DEF RecordsDie
  <1>6. ASSUME NEW i, NEW c, NEW intent, NEW audience, NEW behalf, NEW nonce,
               SpawnChild(i, c, intent, audience, behalf, nonce)
        PROVE  RecordsDie
    <2>1. \/ /\ instances' = Append(instances, NewInstance(instances[i].type, i))
             /\ chains' = Append(chains, NewChain(c, chains[c].hop + 1))
          \/ UNCHANGED <<instances, chains>>
      BY <1>6 DEF SpawnChild, Issue, records
    <2> QED  BY <2>1, InstanceBorn, ChainBegun DEF RecordsDie
  <1>7. ASSUME NEW c \in DOMAIN capabilities, KillCapability(c)
        PROVE  RecordsDie
    <2>1. UNCHANGED instances /\ chains' = [chains EXCEPT ![c].revoked = TRUE]
      BY <1>7 DEF KillCapability
    <2> QED  BY <1>0, <2>1 DEF RecordsDie, ChainRecord
  <1>8. ASSUME NEW i \in DOMAIN instances, KillInstance(i)
        PROVE  RecordsDie
    <2> DEFINE killed == Tree(InstanceParent, {i})
               derived == Tree(CapabilityParent, UNION {CapabilitiesOf(j) : j \in killed})
    <2>1. /\ instances' = [j \in DOMAIN instances |->
                              [instances[j] EXCEPT !.live = @ /\ j \notin killed]]
          /\ chains' = [c \in DOMAIN chains |->
                              [chains[c] EXCEPT !.revoked = @ \/ c \in derived]]
      BY <1>8 DEF KillInstance
    <2> HIDE DEF killed, derived
    <2> QED  BY <1>0, <2>1 DEF RecordsDie, InstanceRecord, ChainRecord
  <1> QED  BY <1>1, <1>2, <1>3, <1>4, <1>5, <1>6, <1>7, <1>8
              DEF Next, Birth, Mint, Spawn, Attenuate

LEMMA SealMovesForward ==
    TypeOK /\ [Next]_vars /\ killDate # NoSeal => killDate' # NoSeal /\ killDate' <= killDate
  <1> SUFFICES ASSUME TypeOK, [Next]_vars, killDate # NoSeal
               PROVE  killDate' # NoSeal /\ killDate' <= killDate
    OBVIOUS
  <1>1. CASE UNCHANGED killDate
    BY <1>1 DEF TypeOK
  <1>2. ASSUME NEW after \in SealDelays, SealIssuer(after)
        PROVE  killDate' # NoSeal /\ killDate' <= killDate
    <2>1. killDate' = now + after /\ now + after < killDate /\ after \in Nat
      BY <1>2, KernelAssumption DEF SealIssuer
    <2> QED  BY <2>1, KernelAssumption DEF TypeOK
  <1>3. CASE \/ \E type \in TypeChoices : AddAgentType(type)
             \/ Birth \/ Mint \/ Challenge
    BY <1>1, <1>3 DEF AddAgentType, Birth, BirthInstance, BirthWrite, Mint, MintCapability,
                      Challenge, IssueHolderChallenge
  <1>4. CASE Spawn \/ Attenuate \/ Decision
    <2>1. ASSUME NEW i, NEW c, NEW intent, NEW audience, NEW behalf, NEW nonce,
                 SpawnChild(i, c, intent, audience, behalf, nonce)
          PROVE  UNCHANGED killDate
      BY <2>1 DEF SpawnChild
    <2>2. ASSUME NEW c, NEW intent, NEW audience, AttenuateCapability(c, intent, audience)
          PROVE  UNCHANGED killDate
      BY <2>2 DEF AttenuateCapability
    <2>3. ASSUME NEW op, NEW i, NEW c, NEW intent, NEW audience, NEW behalf, NEW nonce,
                 Decide(op, i, c, intent, audience, behalf, nonce)
          PROVE  UNCHANGED killDate
      BY <2>3 DEF Decide
    <2> QED  BY <1>1, <1>4, <2>1, <2>2, <2>3 DEF Spawn, Attenuate, Decision
  <1>5. CASE \/ \E c \in DOMAIN capabilities : KillCapability(c)
             \/ \E i \in DOMAIN instances : KillInstance(i)
             \/ Tick \/ UNCHANGED vars
    BY <1>1, <1>5 DEF KillCapability, KillInstance, Tick, vars
  <1> QED  BY <1>2, <1>3, <1>4, <1>5 DEF Next

\* No step rewrites a line or a grant, brings anything back to life, or puts
\* off the death of the store.
THEOREM NothingUndone == Spec => NothingIsUndone
  <1>1. TypeOK /\ DeathInv /\ [Next]_vars
           => [/\ Len(log) <= Len(log') /\ \A p \in DOMAIN log : log'[p] = log[p]
               /\ \A i \in DOMAIN instances : ~Live(i) => ~Live(i)'
               /\ \A c \in DOMAIN chains : RevokeFromHere(c) => RevokeFromHere(c)'
               /\ \A c \in DOMAIN capabilities : capabilities'[c] = capabilities[c]
               /\ killDate # NoSeal => killDate' # NoSeal /\ killDate' <= killDate]_vars
    <2> SUFFICES ASSUME TypeOK, DeathInv, [Next]_vars
                 PROVE  /\ Len(log) <= Len(log') /\ \A p \in DOMAIN log : log'[p] = log[p]
                        /\ \A i \in DOMAIN instances : ~Live(i) => ~Live(i)'
                        /\ \A c \in DOMAIN chains : RevokeFromHere(c) => RevokeFromHere(c)'
                        /\ \A c \in DOMAIN capabilities : capabilities'[c] = capabilities[c]
                        /\ killDate # NoSeal => killDate' # NoSeal /\ killDate' <= killDate
      OBVIOUS
    <2>1. RecordsGrow /\ LogGrowsGranted
      BY NextGrown DEF DeathInv, Grown
    <2>2. DOMAIN log \subseteq DOMAIN log'
      <3>1. /\ Len(log) <= Len(log') /\ Len(log) \in Nat
            /\ DOMAIN log = 1..Len(log) /\ DOMAIN log' = 1..Len(log')
            /\ Len(log') \in Nat
        <4>1. TypeOK'
          BY NextOK
        <4> QED  BY <2>1, <4>1 DEF LogGrowsGranted, TypeOK
      <3> QED  BY <3>1
    <2>3. /\ \A i : InstanceKilled(i) => InstanceKilled(i)'
          /\ \A c : CapabilityKilled(c) => CapabilityKilled(c)'
      BY <2>1, <2>2 DEF LogGrowsGranted, InstanceKilled, CapabilityKilled, HitsInstance,
                        HitsCapability
    <2>4. RecordsDie
      BY NextRecordsDie
    <2>5. /\ \A i \in DOMAIN instances : ~Live(i) => ~Live(i)'
          /\ \A c \in DOMAIN chains : RevokeFromHere(c) => RevokeFromHere(c)'
      BY <2>3, <2>4 DEF RecordsDie, Live, RevokeFromHere
    <2> QED  BY <2>1, <2>5, SealMovesForward DEF RecordsGrow, LogGrowsGranted
  <1>2. Spec => []DeathInv
    BY TypeCorrect, DeathInit, DeathNext, PTL DEF Spec
  <1> QED  BY TypeCorrect, <1>1, <1>2, PTL DEF Spec, NothingIsUndone

------------------------------------------------------------------------------
(* Expiries.                                                                 *)

\* No capability outlasts the instance that holds it.
CapabilitiesEnd ==
    \A c \in DOMAIN capabilities :
        capabilities[c].expires <= instances[capabilities[c].inst].expires

LEMMA EndsWithInstance ==
    ASSUME NEW i, NEW instance, NEW intent, NEW audience, NEW behalf,
           instance.expires \in Nat, now + agentTypes[instance.type].lifetime \in Nat
    PROVE  NewCapability(i, instance, intent, audience, behalf).expires <= instance.expires
  BY DEF NewCapability, Earlier

LEMMA IssuedEnds ==
    ASSUME TypeOK, CapabilitiesEnd, RecordsDie, NEW capability,
           capabilities' = Append(capabilities, capability),
           capability.expires <= instances'[capability.inst].expires
    PROVE  CapabilitiesEnd'
  <1>1. /\ DOMAIN capabilities' = DOMAIN capabilities \union {Len(capabilities) + 1}
        /\ \A c \in DOMAIN capabilities :
              capabilities'[c] = capabilities[c] /\ capabilities[c].inst \in DOMAIN instances
        /\ capabilities'[Len(capabilities) + 1] = capability
    <2>1. capabilities \in Seq(CapabilityRecord)
      BY DEF TypeOK
    <2>2. /\ DOMAIN capabilities = 1..Len(capabilities) /\ Len(capabilities) \in Nat
          /\ DOMAIN capabilities' = 1..(Len(capabilities) + 1)
      BY <2>1, AppendIndex
    <2> QED  BY <2>1, <2>2, AppendIndex DEF TypeOK
  <1> QED  BY <1>1 DEF CapabilitiesEnd, RecordsDie

LEMMA NextEnds == TypeOK /\ CapabilitiesEnd /\ [Next]_vars => CapabilitiesEnd'
  <1> SUFFICES ASSUME TypeOK, CapabilitiesEnd, [Next]_vars PROVE CapabilitiesEnd'
    OBVIOUS
  <1>0. /\ RecordsDie
        /\ \A i \in DOMAIN instances :
              /\ instances[i] \in InstanceRecord /\ instances[i].expires \in Nat
              /\ now + agentTypes[instances[i].type].lifetime \in Nat
        /\ \A type \in DOMAIN agentTypes : now + agentTypes[type].lifetime \in Nat
    <2>1. \A i \in DOMAIN instances :
             instances[i] \in InstanceRecord /\ instances[i].type \in DOMAIN agentTypes
      BY ElementFacts DEF TypeOK
    <2> QED  BY <2>1, NextRecordsDie, LifetimeType DEF InstanceRecord
  <1>1. CASE UNCHANGED capabilities
    BY <1>0, <1>1 DEF CapabilitiesEnd, RecordsDie, TypeOK
  <1>2. ASSUME NEW type \in DOMAIN agentTypes, NEW intent, NEW audience, NEW behalf,
               BirthWrite(type, intent, audience, behalf)
        PROVE  CapabilitiesEnd'
    <2> DEFINE i == Len(instances) + 1
               instance == NewInstance(type, 0)
               capability == NewCapability(i, instance, intent, audience, behalf)
    <2>1. /\ instances' = Append(instances, instance)
          /\ capabilities' = Append(capabilities, capability)
      BY <1>2 DEF BirthWrite, Issue
    <2>2. instances'[i] = instance
      BY <2>1, AppendIndex DEF TypeOK
    <2>3. /\ instance.expires \in Nat /\ instance.type = type
          /\ capability.inst = i
      BY <1>0 DEF NewInstance, NewCapability
    <2>4. capability.expires <= instance.expires
      BY <1>0, <2>3, EndsWithInstance
    <2> HIDE DEF i, instance, capability
    <2> QED  BY <1>0, <2>1, <2>2, <2>3, <2>4, IssuedEnds
  <1>3. ASSUME NEW i \in DOMAIN instances, NEW intent, NEW audience, NEW behalf,
               MintCapability(i, intent, audience, behalf)
        PROVE  CapabilitiesEnd'
    <2> DEFINE capability == NewCapability(i, instances[i], intent, audience, behalf)
    <2>1. UNCHANGED instances /\ capabilities' = Append(capabilities, capability)
      BY <1>3 DEF MintCapability, Issue
    <2>2. capability.inst = i
      BY DEF NewCapability
    <2>3. capability.expires <= instances[i].expires
      BY <1>0, EndsWithInstance
    <2> HIDE DEF capability
    <2> QED  BY <1>0, <2>1, <2>2, <2>3, IssuedEnds
  <1>4. ASSUME NEW i \in DOMAIN instances, NEW c, NEW intent, NEW audience, NEW behalf,
               NEW nonce, SpawnChild(i, c, intent, audience, behalf, nonce)
        PROVE  CapabilitiesEnd'
    <2> DEFINE child == Len(instances) + 1
               instance == NewInstance(instances[i].type, i)
               capability == NewCapability(child, instance, intent, audience, behalf)
    <2>1. \/ UNCHANGED capabilities
          \/ /\ instances' = Append(instances, instance)
             /\ capabilities' = Append(capabilities, capability)
      BY <1>4 DEF SpawnChild, Issue, records
    <2>2. instances' = Append(instances, instance) => instances'[child] = instance
      BY AppendIndex DEF TypeOK
    <2>3. /\ instance.expires \in Nat /\ instance.type = instances[i].type
          /\ capability.inst = child
      BY <1>0 DEF NewInstance, NewCapability
    <2>4. capability.expires <= instance.expires
      BY <1>0, <2>3, EndsWithInstance
    <2> HIDE DEF child, instance, capability
    <2> QED  BY <1>0, <1>1, <2>1, <2>2, <2>3, <2>4, IssuedEnds
  <1>5. ASSUME NEW c \in DOMAIN capabilities, NEW intent, NEW audience,
               AttenuateCapability(c, intent, audience)
        PROVE  CapabilitiesEnd'
    <2> DEFINE child == [capabilities[c] EXCEPT
                            !.intent = intent, !.audience = audience,
                            !.token = @ \union {Len(capabilities) + 1}]
    <2>1. UNCHANGED instances /\ capabilities' = Append(capabilities, child)
      BY <1>5 DEF AttenuateCapability, Issue
    <2>2. child.inst = capabilities[c].inst /\ child.expires = capabilities[c].expires
      <3>1. capabilities[c] \in CapabilityRecord
        BY ElementFacts DEF TypeOK
      <3> QED  BY <3>1 DEF CapabilityRecord
    <2>3. child.expires <= instances'[child.inst].expires
      BY <2>1, <2>2 DEF CapabilitiesEnd
    <2> HIDE DEF child
    <2> QED  BY <1>0, <2>1, <2>3, IssuedEnds
  <1>6. CASE \/ \E type \in TypeChoices : AddAgentType(type)
             \/ \E type \in DOMAIN agentTypes : BirthInstance(type)
             \/ Challenge \/ Decision
             \/ \E c \in DOMAIN capabilities : KillCapability(c)
             \/ \E i \in DOMAIN instances : KillInstance(i)
             \/ \E after \in SealDelays : SealIssuer(after)
             \/ Tick \/ UNCHANGED vars
    <2>1. ASSUME NEW type, AddAgentType(type) PROVE UNCHANGED capabilities
      BY <2>1 DEF AddAgentType
    <2>2. ASSUME NEW type, BirthInstance(type) PROVE UNCHANGED capabilities
      BY <2>2 DEF BirthInstance
    <2>3. ASSUME Challenge PROVE UNCHANGED capabilities
      BY <2>3 DEF Challenge, IssueHolderChallenge, records
    <2>4. ASSUME Decision PROVE UNCHANGED capabilities
      BY <2>4 DEF Decision, Decide, records
    <2>5. ASSUME NEW c, KillCapability(c) PROVE UNCHANGED capabilities
      BY <2>5 DEF KillCapability
    <2>6. ASSUME NEW i, KillInstance(i) PROVE UNCHANGED capabilities
      BY <2>6 DEF KillInstance
    <2>7. ASSUME NEW after, SealIssuer(after) PROVE UNCHANGED capabilities
      BY <2>7 DEF SealIssuer, records
    <2>8. Tick => UNCHANGED capabilities
      BY DEF Tick, records
    <2>9. UNCHANGED vars => UNCHANGED capabilities
      BY DEF vars, records
    <2>10. UNCHANGED capabilities
      BY <1>6, <2>1, <2>2, <2>3, <2>4, <2>5, <2>6, <2>7, <2>8, <2>9
    <2> QED  BY <1>1, <2>10
  <1> QED  BY <1>2, <1>3, <1>4, <1>5, <1>6 DEF Next, Birth, Mint, Spawn, Attenuate

\* What is allowed is allowed while the capability lasts, and that is while its
\* holder does.
THEOREM ActsEnd == Spec => []ActsWithinLifetime
  <1>1. Init => CapabilitiesEnd
    BY DEF Init, CapabilitiesEnd
  <1>2. Spec => []CapabilitiesEnd
    BY TypeCorrect, <1>1, NextEnds, PTL DEF Spec
  <1>3. FinalInv /\ CapabilitiesEnd => ActsWithinLifetime
    BY DEF FinalInv, ActInv, Grants, LineWithin, CapabilitiesEnd, ActsWithinLifetime
  <1> QED  BY FinalCorrect, <1>2, <1>3, PTL

------------------------------------------------------------------------------
(* One proof, one act.                                                       *)

Acts(line) == line.allowed \/ line.op = "spawn"
Spends(line) == line.op = "challenge_spent"

\* OneProofOneAct, and that the challenge of a spent line stands in the log.
ProofInv ==
    /\ OneProofOneAct
    /\ \A p \in DOMAIN log : Spends(log[p]) => log[p].nonce \in DOMAIN log

\* A step spends one challenge at most, with its first line, and acts only
\* behind it.
LogGrowsProven ==
    \A p \in DOMAIN log' \ DOMAIN log :
        /\ Spends(log'[p]) => /\ p = Len(log) + 1 /\ log'[p].time = now
                              /\ UnusedChallenge(log'[p].inst, log'[p].nonce)
        /\ Acts(log'[p]) =>
              /\ p > 1 /\ Spends(log'[p - 1])
              /\ log'[p].op # "spawn" => log'[p - 1].inst = log'[p].inst
              /\ log'[p].op = "spawn" =>
                    log'[p - 1].inst = instances'[log'[p].inst].parent

\* A line is no younger than the store, and names the child it bore.
LogNames ==
    \A p \in DOMAIN log :
        log[p].time <= now /\ (log[p].op = "spawn" => log[p].inst \in DOMAIN instances)

LEMMA ProofStep ==
    ASSUME TypeOK, TypeOK', LogNames, ProofInv, RecordsGrow, LogGrowsProven,
           Len(log) <= Len(log'), \A p \in DOMAIN log : log'[p] = log[p]
    PROVE  ProofInv'
  <1>1. /\ DOMAIN log = 1..Len(log) /\ DOMAIN log' = 1..Len(log')
        /\ Len(log) \in Nat /\ Len(log') \in Nat /\ DOMAIN log \subseteq DOMAIN log'
        /\ \A p \in DOMAIN log : log'[p] = log[p]
        /\ \A p \in DOMAIN log : log[p] \in LogLine
    BY ElementFacts DEF TypeOK
  <1>2. ASSUME NEW p \in DOMAIN log', Acts(log'[p])
        PROVE  /\ p > 1 /\ Spends(log'[p - 1])
               /\ log'[p].op # "spawn" => log'[p - 1].inst = log'[p].inst
               /\ log'[p].op = "spawn" =>
                     log'[p - 1].inst = instances'[log'[p].inst].parent
    <2>1. CASE p \in DOMAIN log
      <3>1. /\ p > 1 /\ Spends(log[p - 1]) /\ log'[p] = log[p]
            /\ log[p].op # "spawn" => log[p - 1].inst = log[p].inst
            /\ log[p].op = "spawn" => log[p - 1].inst = instances[log[p].inst].parent
        BY <1>1, <1>2, <2>1 DEF ProofInv, OneProofOneAct, Acts, Spends
      <3>2. p - 1 \in DOMAIN log
        BY <1>1, <2>1, <3>1
      <3>3. log[p].op = "spawn" => log[p].inst \in DOMAIN instances
        BY <2>1 DEF LogNames
      <3> QED  BY <1>1, <3>1, <3>2, <3>3 DEF RecordsGrow
    <2>2. CASE p \notin DOMAIN log
      BY <1>2, <2>2 DEF LogGrowsProven
    <2> QED  BY <2>1, <2>2
  <1>3. ASSUME NEW p \in DOMAIN log', Spends(log'[p]), NEW nonce, nonce = log'[p].nonce
        PROVE  /\ nonce \in DOMAIN log /\ log[nonce].op = "challenge"
               /\ log[nonce].inst = log'[p].inst
               /\ log[nonce].time <= log'[p].time /\ log'[p].time <= log[nonce].expires
    <2>1. CASE p \in DOMAIN log
      BY <1>1, <1>3, <2>1 DEF ProofInv, OneProofOneAct, Spends
    <2>2. CASE p \notin DOMAIN log
      BY <1>3, <2>2 DEF LogGrowsProven, UnusedChallenge, LogNames
    <2> QED  BY <2>1, <2>2
  <1>4. ASSUME NEW p \in DOMAIN log', NEW q \in DOMAIN log', Spends(log'[p]),
               Spends(log'[q]), log'[p].nonce = log'[q].nonce
        PROVE  p = q
    <2>1. CASE p \in DOMAIN log /\ q \in DOMAIN log
      BY <1>1, <1>4, <2>1 DEF ProofInv, OneProofOneAct, Spends
    <2>2. CASE p \notin DOMAIN log /\ q \notin DOMAIN log
      BY <1>4, <2>2 DEF LogGrowsProven
    <2>3. CASE p \in DOMAIN log /\ q \notin DOMAIN log
      BY <1>1, <1>4, <2>3 DEF LogGrowsProven, UnusedChallenge, Spends
    <2>4. CASE p \notin DOMAIN log /\ q \in DOMAIN log
      BY <1>1, <1>4, <2>4 DEF LogGrowsProven, UnusedChallenge, Spends
    <2> QED  BY <2>1, <2>2, <2>3, <2>4
  <1>5. \A p \in DOMAIN log' : Spends(log'[p]) =>
           LET challenge == log'[log'[p].nonce]
           IN  /\ challenge.op = "challenge" /\ challenge.inst = log'[p].inst
               /\ challenge.time <= log'[p].time /\ log'[p].time <= challenge.expires
    BY <1>1, <1>3
  <1>6. \A p \in DOMAIN log' : Spends(log'[p]) => log'[p].nonce \in DOMAIN log'
    BY <1>1, <1>3
  <1>7. OneProofOneAct'
    BY <1>2, <1>4, <1>5 DEF OneProofOneAct, Acts, Spends
  <1> QED  BY <1>6, <1>7 DEF ProofInv, Spends

LEMMA NoProof ==
    ASSUME TypeOK, NEW line, ~Acts(line), ~Spends(line), log' = Append(log, line)
    PROVE  LogGrowsProven
  <1>1. /\ DOMAIN log = 1..Len(log) /\ Len(log) \in Nat
        /\ DOMAIN log' = 1..(Len(log) + 1) /\ log'[Len(log) + 1] = line
    BY AppendIndex DEF TypeOK
  <1> QED  BY <1>1 DEF LogGrowsProven

LEMMA SpentOnly ==
    ASSUME TypeOK, NEW i \in DOMAIN instances, NEW nonce, UnusedChallenge(i, nonce)
    PROVE  \E spent \in LogLine :
              /\ LogWithSpent(i, nonce) = Append(log, spent)
              /\ Spends(spent) /\ ~Acts(spent) /\ spent.inst = i
              /\ spent.nonce = nonce /\ spent.time = now
  <1> DEFINE spent == [Line("challenge_spent", i, 0) EXCEPT !.nonce = nonce]
  <1>1. spent \in LogLine
    BY SpentOK DEF UnusedChallenge
  <1>2. /\ Spends(spent) /\ ~Acts(spent) /\ spent.inst = i
        /\ spent.nonce = nonce /\ spent.time = now
    BY DEF Spends, Acts, Line
  <1>3. LogWithSpent(i, nonce) = Append(log, spent)
    BY DEF LogWithSpent
  <1> QED  BY <1>1, <1>2, <1>3

LEMMA ProofAlone ==
    ASSUME TypeOK, NEW i \in DOMAIN instances, NEW nonce, UnusedChallenge(i, nonce),
           log' = LogWithSpent(i, nonce)
    PROVE  LogGrowsProven
  <1>1. PICK spent \in LogLine :
              /\ LogWithSpent(i, nonce) = Append(log, spent)
              /\ Spends(spent) /\ ~Acts(spent) /\ spent.inst = i
              /\ spent.nonce = nonce /\ spent.time = now
    BY SpentOnly
  <1>2. /\ DOMAIN log = 1..Len(log) /\ Len(log) \in Nat
        /\ DOMAIN log' = 1..(Len(log) + 1) /\ log'[Len(log) + 1] = spent
    BY <1>1, AppendIndex DEF TypeOK
  <1> QED  BY <1>1, <1>2 DEF LogGrowsProven

LEMMA ProofThenAct ==
    ASSUME TypeOK, NEW i \in DOMAIN instances, NEW nonce, UnusedChallenge(i, nonce),
           NEW line, log' = Append(LogWithSpent(i, nonce), line), ~Spends(line),
           line.op # "spawn" => i = line.inst,
           line.op = "spawn" => i = instances'[line.inst].parent
    PROVE  LogGrowsProven
  <1>1. PICK spent \in LogLine :
              /\ LogWithSpent(i, nonce) = Append(log, spent)
              /\ Spends(spent) /\ ~Acts(spent) /\ spent.inst = i
              /\ spent.nonce = nonce /\ spent.time = now
    BY SpentOnly
  <1> DEFINE lines == Append(log, spent)
  <1>2. /\ lines \in Seq(LogLine) /\ DOMAIN log = 1..Len(log) /\ Len(log) \in Nat
        /\ Len(lines) = Len(log) + 1 /\ lines[Len(log) + 1] = spent
    BY AppendFacts DEF TypeOK
  <1>3. log' = Append(lines, line)
    BY <1>1
  <1> HIDE DEF lines
  <1>4. /\ DOMAIN log' = 1..(Len(log) + 2) /\ log'[Len(log) + 2] = line
        /\ log'[Len(log) + 1] = spent
    BY <1>2, <1>3, AppendIndex
  <1>5. ASSUME NEW p \in DOMAIN log' \ DOMAIN log
        PROVE  p = Len(log) + 1 \/ (p = Len(log) + 2 /\ p - 1 = Len(log) + 1 /\ p > 1)
    BY <1>2, <1>4
  <1> QED  BY <1>1, <1>4, <1>5 DEF LogGrowsProven

LEMMA NextProven == TypeOK /\ [Next]_vars => LogGrowsProven
  <1> SUFFICES ASSUME TypeOK, [Next]_vars PROVE LogGrowsProven
    OBVIOUS
  <1>1. CASE UNCHANGED log
    BY <1>1 DEF LogGrowsProven
  <1>2. ASSUME NEW op \in {"birth_write", "mint", "attenuate"}, NEW i, NEW c,
               log' = Append(log, Line(op, i, c))
        PROVE  LogGrowsProven
    <2>1. ~Acts(Line(op, i, c)) /\ ~Spends(Line(op, i, c))
      BY <1>2 DEF Line, Acts, Spends
    <2> QED  BY <1>2, <2>1, NoProof
  <1>3. ASSUME NEW type, NEW intent, NEW audience, NEW behalf,
               BirthWrite(type, intent, audience, behalf)
        PROVE  LogGrowsProven
    BY <1>2, <1>3 DEF BirthWrite, Issue
  <1>4. CASE Mint
    BY <1>2, <1>4 DEF Mint, MintCapability, Issue
  <1>5. CASE Attenuate
    BY <1>2, <1>5 DEF Attenuate, AttenuateCapability, Issue
  <1>6. CASE Challenge
    <2>1. PICK i : log' = Append(log, [Line("challenge", i, 0) EXCEPT
                                          !.expires = now + ChallengeWindow])
      BY <1>6 DEF Challenge, IssueHolderChallenge
    <2> DEFINE line == [Line("challenge", i, 0) EXCEPT !.expires = now + ChallengeWindow]
    <2>2. ~Acts(line) /\ ~Spends(line)
      BY DEF Line, Acts, Spends
    <2> HIDE DEF line
    <2> QED  BY <2>1, <2>2, NoProof DEF line
  <1>7. ASSUME NEW i \in DOMAIN instances, NEW c, NEW intent, NEW audience, NEW behalf,
               NEW nonce, SpawnChild(i, c, intent, audience, behalf, nonce)
        PROVE  LogGrowsProven
    <2> DEFINE child == Len(instances) + 1
               instance == NewInstance(instances[i].type, i)
               line == Line("spawn", child, Len(capabilities) + 1)
    <2>1. UnusedChallenge(i, nonce)
      BY <1>7 DEF SpawnChild
    <2>2. CASE log' = LogWithSpent(i, nonce)
      BY <2>1, <2>2, ProofAlone
    <2>3. CASE /\ instances' = Append(instances, instance)
               /\ log' = Append(LogWithSpent(i, nonce), line)
      <3>1. instances'[child] = instance
        BY <2>3, AppendIndex DEF TypeOK
      <3>2. line.op = "spawn" /\ line.inst = child /\ instance.parent = i /\ ~Spends(line)
        BY DEF Line, NewInstance, Spends
      <3> HIDE DEF child, instance, line
      <3> QED  BY <2>1, <2>3, <3>1, <3>2, ProofThenAct
    <2>4. \/ log' = LogWithSpent(i, nonce)
          \/ /\ instances' = Append(instances, instance)
             /\ log' = Append(LogWithSpent(i, nonce), line)
      BY <1>7 DEF SpawnChild, Issue, NewCapability
    <2> QED  BY <2>2, <2>3, <2>4
  <1>8. ASSUME NEW op \in DecisionOperations, NEW i \in DOMAIN instances, NEW c,
               NEW intent, NEW audience, NEW behalf, NEW nonce,
               Decide(op, i, c, intent, audience, behalf, nonce)
        PROVE  LogGrowsProven
    <2> DEFINE line == [Line(op, i, c) EXCEPT !.intent = intent, !.audience = audience,
                                              !.allowed = TRUE]
    <2>1. /\ UnusedChallenge(i, nonce)
          /\ \/ log' = LogWithSpent(i, nonce)
             \/ log' = Append(LogWithSpent(i, nonce), line)
      BY <1>8 DEF Decide
    <2>2. line.op # "spawn" /\ line.inst = i /\ ~Spends(line)
      BY DEF Line, Spends, DecisionOperations
    <2> HIDE DEF line
    <2> QED  BY <2>1, <2>2, ProofAlone, ProofThenAct
  <1>9. ASSUME NEW c, KillCapability(c) PROVE LogGrowsProven
    <2> DEFINE line == [Line("kill_capability", capabilities[c].inst, c) EXCEPT
                           !.killedCapabilities = Tree(CapabilityParent, {c}),
                           !.revoked = {c}]
    <2>1. log' = Append(log, line)
      BY <1>9 DEF KillCapability
    <2>2. ~Acts(line) /\ ~Spends(line)
      BY DEF Line, Acts, Spends
    <2> HIDE DEF line
    <2> QED  BY <2>1, <2>2, NoProof
  <1>10. ASSUME NEW i, KillInstance(i) PROVE LogGrowsProven
    <2> DEFINE killed == Tree(InstanceParent, {i})
               derived == Tree(CapabilityParent, UNION {CapabilitiesOf(j) : j \in killed})
               line == [Line("kill_instance", i, 0) EXCEPT
                           !.killedInstances = killed, !.killedCapabilities = derived,
                           !.revoked = derived]
    <2>1. log' = Append(log, line)
      BY <1>10 DEF KillInstance
    <2>2. ~Acts(line) /\ ~Spends(line)
      BY DEF Line, Acts, Spends
    <2> HIDE DEF line
    <2> QED  BY <2>1, <2>2, NoProof
  <1>11. ASSUME NEW after, SealIssuer(after) PROVE LogGrowsProven
    <2> DEFINE line == Line("issuer_seal", 0, 0)
    <2>1. log' = Append(log, line) /\ ~Acts(line) /\ ~Spends(line)
      BY <1>11 DEF SealIssuer, Line, Acts, Spends
    <2> HIDE DEF line
    <2> QED  BY <2>1, NoProof
  <1>12. CASE \/ \E type \in TypeChoices : AddAgentType(type)
              \/ \E type \in DOMAIN agentTypes : BirthInstance(type)
              \/ Tick \/ UNCHANGED vars
    BY <1>1, <1>12 DEF AddAgentType, BirthInstance, Tick, vars
  <1> QED  BY <1>3, <1>4, <1>5, <1>6, <1>7, <1>8, <1>9, <1>10, <1>11, <1>12
              DEF Next, Birth, Spawn, Decision

\* Every act and every spawn stands directly behind a proof of its own, in the
\* window of a challenge that was issued to the same instance and never again
\* answers.
THEOREM ProofServesOnce == Spec => []OneProofOneAct
  <1>1. Init => ProofInv
    BY DEF Init, ProofInv, OneProofOneAct
  <1>2. /\ TypeOK /\ TypeOK' /\ DeathInv /\ FinalInv /\ SealInv /\ ProofInv
        /\ [Next]_vars
        => ProofInv'
    <2> SUFFICES ASSUME TypeOK, TypeOK', DeathInv, FinalInv, SealInv, ProofInv, [Next]_vars
                 PROVE  ProofInv'
      OBVIOUS
    <2>1. /\ RecordsGrow /\ Len(log) <= Len(log')
          /\ \A p \in DOMAIN log : log'[p] = log[p]
      BY NextGrown DEF DeathInv, Grown, LogGrowsGranted
    <2>2. LogNames
      BY DEF LogNames, FinalInv, ActInv, SealInv, Grants, IssuanceOperations
    <2> QED  BY <2>1, <2>2, NextProven, ProofStep
  <1>3. Spec => []DeathInv
    BY TypeCorrect, DeathInit, DeathNext, PTL DEF Spec
  <1>4. Init => SealInv
    BY DEF Init, SealInv, SealIsDeath
  <1>5. ProofInv => OneProofOneAct
    BY DEF ProofInv
  <1> QED
    BY TypeCorrect, FinalCorrect, SealNext, <1>1, <1>2, <1>3, <1>4, <1>5, PTL DEF Spec
==============================================================================
