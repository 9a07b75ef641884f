------------------------------- MODULE Kernel --------------------------------
(***************************************************************************)
(* The identity kernel of one issuing store, one operation at a time: a    *)
(* process runs an operation of the kernel to completion before another    *)
(* starts, as the host does with its requests.  KernelProcesses takes the  *)
(* operations that race with one another apart into reads and writes.      *)
(*                                                                         *)
(* The state is the store: the JSON records (agent types, instances,       *)
(* capabilities, chains), issuer.kill_date, and issuance.log.  Every       *)
(* record is signed by the one issuer key, which this module never changes *)
(* (IssuerKeys models rotation), so a record the store holds is trusted.   *)
(*                                                                         *)
(* Identifiers: new_identifier() never repeats, so the n-th record of a    *)
(* directory is named n, a directory is a sequence, and 0 names nothing.   *)
(* A nonce is the position of the challenge line that issued it.           *)
(***************************************************************************)
EXTENDS Authority, FiniteSets

CONSTANTS
    Intents,           \* intent labels a caller may name
    Audiences,         \* audience labels a caller may name
    Users,             \* named users a capability may act on behalf of
    TypeChoices,       \* agent types an operator may add
    SealDelays,        \* values of --after-seconds
    ChallengeWindow,   \* CHALLENGE_WINDOW_SECONDS
    WalkLimit,         \* hops after which a parent walk gives up (64)
    NoSeal,            \* issuer.kill_date = None
    \* bounds on the directories, on the lines of the log (in all, of
    \* challenges, of kills), and on the clock
    MaxTypes, MaxInstances, MaxCapabilities, MaxLog, MaxChallenges, MaxKills, MaxTime

ActAuthorities == Users \union {Autonomous}

AgentType == [intents : SUBSET Seq(STRING), limit : Seq(STRING),
              depth : Nat, lifetime : Nat]

ASSUME KernelAssumption ==
    /\ Intents \subseteq Seq(STRING)
    /\ Audiences \subseteq Seq(STRING)
    /\ TypeChoices \subseteq AgentType
    /\ SealDelays \subseteq Nat
    /\ ChallengeWindow \in Nat
    /\ WalkLimit \in Nat
    /\ NoSeal \notin Nat

VARIABLES
    now,             \* the kernel clock
    killDate,        \* issuer.kill_date
    agentTypes,      \* agent_types/
    instances,       \* instances/
    capabilities,    \* capabilities/
    chains,          \* chains/, one for each capability
    log              \* issuance.log

vars == <<now, killDate, agentTypes, instances, capabilities, chains, log>>
records == <<agentTypes, instances, capabilities, chains>>

------------------------------------------------------------------------------
(* The issuance log.  The lines a kill cascade writes are one entry here,    *)
(* and the line of a refused decision is left out: no operation reads it.    *)

IssuanceOperations == {"mint", "birth_write", "spawn", "attenuate"}
KillOperations == {"kill_capability", "kill_instance"}
DecisionOperations == {"check", "verify"}

\* A line with the fields the operations read back.
Line(op, i, c) ==
    [op |-> op, inst |-> i, cap |-> c, time |-> now, nonce |-> 0, expires |-> 0,
     killedInstances |-> {}, killedCapabilities |-> {}, revoked |-> {},
     intent |-> <<>>, audience |-> <<>>, allowed |-> FALSE]

HitsInstance(line, i) ==
    /\ line.op = "kill_instance"
    /\ line.inst = i \/ i \in line.killedInstances

\* The line of this very instance, not that of an ancestor that lists it.
NamesInstance(line, i) == line.op = "kill_instance" /\ line.inst = i

HitsCapability(line, c) ==
    /\ line.op \in KillOperations
    /\ line.cap = c \/ c \in line.killedCapabilities

InstanceKilled(i) == \E p \in DOMAIN log : HitsInstance(log[p], i)
CapabilityKilled(c) == \E p \in DOMAIN log : HitsCapability(log[p], c)

\* Mutant of PresentInLog: a record is taken for an issued capability.
PresentInStore(c) == c \in DOMAIN capabilities

PresentInLog(c) ==
    \E p \in DOMAIN log : log[p].op \in IssuanceOperations /\ log[p].cap = c

\* Room in the bounded log of the model.
RoomFor(lines) == Len(log) + lines <= MaxLog
Lines(ops) == {p \in DOMAIN log : log[p].op \in ops}
RoomToChallenge == RoomFor(1) /\ Cardinality(Lines({"challenge"})) < MaxChallenges
RoomToKill == RoomFor(1) /\ Cardinality(Lines(KillOperations)) < MaxKills

RevokedIdentifiers == UNION {log[p].revoked : p \in DOMAIN log}

------------------------------------------------------------------------------
(* The records, as the operations read them.                                 *)

\* Mutant of Sealed: the store dies one tick late.
SealedOneTickLate == killDate # NoSeal /\ now > killDate

Sealed == killDate # NoSeal /\ now >= killDate

TypeOf(i) == agentTypes[instances[i].type]

\* load_instance: a signed kill line overrides the status on disk.
Live(i) == instances[i].live /\ ~InstanceKilled(i)

\* Mutant of RequireLiveInstance: the kill is forgotten.
RequireUnexpiredInstance(i) == now <= instances[i].expires

RequireLiveInstance(i) == Live(i) /\ now <= instances[i].expires

\* load_trusted_chain: a signed kill line overrides the flag on disk.
RevokeFromHere(c) == chains[c].revoked \/ CapabilityKilled(c)

InstanceParent == [i \in DOMAIN instances |-> instances[i].parent]
CapabilityParent == [c \in DOMAIN chains |-> chains[c].parent]

\* The roots and all that is reached from them through parent pointers: the
\* least set that contains the roots and every record whose parent it contains.
Tree(parentOf, roots) ==
    {d \in DOMAIN parentOf :
        \A S \in SUBSET DOMAIN parentOf :
            (/\ roots \subseteq S
             /\ \A e \in DOMAIN parentOf : parentOf[e] \in S => e \in S)
            => d \in S}

InstanceAncestors(i) ==
    {j \in DOMAIN instances : i \in Tree(InstanceParent, {j})}
CapabilityAncestors(c) ==
    {d \in DOMAIN chains : c \in Tree(CapabilityParent, {d})}

------------------------------------------------------------------------------
(* Issuance.                                                                 *)

\* create_live_instance
NewInstance(type, parent) ==
    [type |-> type, parent |-> parent, live |-> TRUE,
     expires |-> now + agentTypes[type].lifetime]

\* Mutant of Earlier: the expiry of the instance does not cap the capability.
FirstOf(a, b) == a

Earlier(a, b) == IF a <= b THEN a ELSE b

\* issue_capability_record.  A token carries its own revocation identifier,
\* named like the capability, and those of the token it was attenuated from.
NewCapability(i, instance, intent, audience, behalf) ==
    [inst |-> i, intent |-> intent, audience |-> audience, behalf |-> behalf,
     expires |-> Earlier(now + agentTypes[instance.type].lifetime, instance.expires),
     token |-> {Len(capabilities) + 1}]

NewChain(parent, hop) == [parent |-> parent, hop |-> hop, revoked |-> FALSE]

RoomToIssue(lines) == Len(capabilities) < MaxCapabilities /\ RoomFor(lines)

\* Mutant of Issue: save_chain is missing.
IssueWithoutChain(capability, chain, op, lines) ==
    /\ capabilities' = Append(capabilities, capability)
    /\ chains' = chains
    /\ log' = Append(lines, Line(op, capability.inst, Len(capabilities) + 1))

\* save_capability, save_chain and the issuance line, after the given log
Issue(capability, chain, op, lines) ==
    /\ capabilities' = Append(capabilities, capability)
    /\ chains' = Append(chains, chain)
    /\ log' = Append(lines, Line(op, capability.inst, Len(capabilities) + 1))

AddAgentType(type) ==
    /\ ~Sealed
    /\ type.intents # {} /\ type.lifetime > 0
    /\ Len(agentTypes) < MaxTypes
    /\ agentTypes' = Append(agentTypes, type)
    /\ UNCHANGED <<now, killDate, instances, capabilities, chains, log>>

\* The command line never names a parent, and no log line records the birth.
BirthInstance(type) ==
    /\ ~Sealed
    /\ Len(instances) < MaxInstances
    /\ instances' = Append(instances, NewInstance(type, 0))
    /\ UNCHANGED <<now, killDate, agentTypes, capabilities, chains, log>>

BirthWrite(type, intent, audience, behalf) ==
    /\ ~Sealed
    /\ MintAllowed(agentTypes[type], intent, audience)
    /\ RoomToIssue(1) /\ Len(instances) < MaxInstances
    /\ LET i == Len(instances) + 1
           instance == NewInstance(type, 0)
       IN  /\ instances' = Append(instances, instance)
           /\ Issue(NewCapability(i, instance, intent, audience, behalf),
                    NewChain(0, 0), "birth_write", log)
    /\ UNCHANGED <<now, killDate, agentTypes>>

MintCapability(i, intent, audience, behalf) ==
    /\ ~Sealed
    /\ RequireLiveInstance(i)
    /\ MintAllowed(TypeOf(i), intent, audience)
    /\ RoomToIssue(1)
    /\ Issue(NewCapability(i, instances[i], intent, audience, behalf),
             NewChain(0, 0), "mint", log)
    /\ UNCHANGED <<now, killDate, agentTypes, instances>>

------------------------------------------------------------------------------
(* The holder challenge and the proof that spends it.                        *)

CapabilitiesOf(i) == {c \in DOMAIN capabilities : capabilities[c].inst = i}

IssueHolderChallenge(i) ==
    /\ ~Sealed
    /\ Live(i)
    /\ CapabilitiesOf(i) = {} \/ \E c \in CapabilitiesOf(i) : ~CapabilityKilled(c)
    /\ RoomToChallenge
    /\ log' = Append(log, [Line("challenge", i, 0)
                              EXCEPT !.expires = now + ChallengeWindow])
    /\ UNCHANGED <<now, killDate, records>>

\* Mutant of UnusedChallenge: a spent challenge is as good as a new one.
IssuedChallenge(i, nonce) ==
    /\ nonce \in DOMAIN log
    /\ log[nonce].op = "challenge"
    /\ now <= log[nonce].expires
    /\ log[nonce].inst = i

\* require_unused_challenge, for the instance whose secret proves it: a caller
\* without the secret is refused and the challenge stays unspent.
UnusedChallenge(i, nonce) ==
    /\ nonce \in DOMAIN log
    /\ log[nonce].op = "challenge"
    /\ \A p \in DOMAIN log : ~(log[p].op = "challenge_spent" /\ log[p].nonce = nonce)
    /\ now <= log[nonce].expires
    /\ log[nonce].inst = i

\* require_holder_proof spends the challenge.
LogWithSpent(i, nonce) ==
    Append(log, [Line("challenge_spent", i, 0) EXCEPT !.nonce = nonce])

------------------------------------------------------------------------------
(* Delegation.                                                               *)

\* Mutant of MayDelegate: a killed capability still delegates.
MayDelegateAfterDeath(c) == PresentInLog(c)

\* What both ways to delegate require of the capability they derive from.
MayDelegate(c) == ~CapabilityKilled(c) /\ PresentInLog(c)

\* Mutant of SpawnAllowed: the child is held to the agent type, not the parent.
SpawnAllowedByType(i, c, intent, audience, behalf) ==
    /\ capabilities[c].inst = i
    /\ MayDelegate(c)
    /\ MintAllowed(TypeOf(i), intent, audience)
    /\ chains[c].hop + 1 <= TypeOf(i).depth

\* What spawn_child requires after the holder proof.
SpawnAllowed(i, c, intent, audience, behalf) ==
    /\ capabilities[c].inst = i
    /\ MayDelegate(c)
    /\ MintAllowed(TypeOf(i), intent, audience)
    /\ GrantWithin([intent |-> intent, audience |-> audience, behalf |-> behalf],
                   capabilities[c])
    /\ chains[c].hop + 1 <= TypeOf(i).depth

\* The proof is spent before the rest is examined, so a spawn that is refused
\* after a valid proof leaves the challenge_spent line behind.
SpawnChild(i, c, intent, audience, behalf, nonce) ==
    /\ ~Sealed
    /\ RequireLiveInstance(i)
    /\ UnusedChallenge(i, nonce)
    /\ RoomToIssue(2) /\ Len(instances) < MaxInstances
    /\ \/ /\ SpawnAllowed(i, c, intent, audience, behalf)
          /\ LET child == Len(instances) + 1
                 instance == NewInstance(instances[i].type, i)
             IN  /\ instances' = Append(instances, instance)
                 /\ Issue(NewCapability(child, instance, intent, audience, behalf),
                          NewChain(c, chains[c].hop + 1), "spawn",
                          LogWithSpent(i, nonce))
          /\ UNCHANGED <<now, killDate, agentTypes>>
       \/ /\ ~SpawnAllowed(i, c, intent, audience, behalf)
          /\ log' = LogWithSpent(i, nonce)
          /\ UNCHANGED <<now, killDate, records>>

AttenuateCapability(c, intent, audience) ==
    LET parent == capabilities[c]
        type == TypeOf(parent.inst)
        child == [parent EXCEPT !.intent = intent, !.audience = audience,
                                !.token = @ \union {Len(capabilities) + 1}]
    IN  /\ ~Sealed
        /\ RequireLiveInstance(parent.inst)
        /\ MayDelegate(c)
        /\ MintAllowed(type, intent, audience)
        /\ GrantWithin(child, parent)
        /\ chains[c].hop + 1 <= type.depth
        /\ now < parent.expires
        /\ RoomToIssue(1)
        /\ Issue(child, NewChain(c, chains[c].hop + 1), "attenuate", log)
        /\ UNCHANGED <<now, killDate, agentTypes, instances>>

------------------------------------------------------------------------------
(* The decision: check (names the instance) and verify (takes the one the    *)
(* capability names).                                                        *)

\* No record on the way to the root is revoked and the walk ends in time.
ChainLive(c) ==
    /\ Cardinality(CapabilityAncestors(c)) <= WalkLimit
    /\ \A d \in CapabilityAncestors(c) : ~RevokeFromHere(d)

\* A kill line of its own names the instance.  The decision does not look at the
\* list of what the line of an ancestor killed: load_instance did.
NamedByKill(i) ==
    \E p \in DOMAIN log : log[p].op = "kill_instance" /\ log[p].inst = i

\* Mutant of NotRevoked: the status the instance was loaded with is not used.
NotRevokedByLog(c, i, live) ==
    /\ ~CapabilityKilled(c)
    /\ \A p \in DOMAIN log : ~NamesInstance(log[p], i)
    /\ ChainLive(c)
    /\ capabilities[c].token \cap RevokedIdentifiers = {}

\* live is the status the instance had when it was loaded; of the log read now,
\* only a kill line of the instance's own counts against it.
NotRevoked(c, i, live) ==
    /\ ~CapabilityKilled(c)
    /\ live
    /\ \A p \in DOMAIN log : ~NamesInstance(log[p], i)
    /\ ChainLive(c)
    /\ capabilities[c].token \cap RevokedIdentifiers = {}

\* Mutant of RequestWithin: the audience is not compared.
RequestWithinAnyAudience(c, intent, audience) ==
    IsNarrowerOrEqual(intent, capabilities[c].intent)

\* require_request_within
RequestWithin(c, intent, audience) ==
    /\ IsNarrowerOrEqual(intent, capabilities[c].intent)
    /\ IsNarrowerOrEqual(audience, capabilities[c].audience)

EvaluateCapability(c, i, live, intent, audience) ==
    /\ PresentInLog(c)
    /\ NotRevoked(c, i, live)
    /\ ~Sealed
    /\ now <= instances[i].expires
    /\ now <= capabilities[c].expires
    /\ chains[c].hop <= TypeOf(i).depth
    /\ RequestWithin(c, intent, audience)

EvaluateCheck(op, i, live, c, intent, audience, behalf) ==
    /\ capabilities[c].inst = i
    /\ behalf = capabilities[c].behalf
    /\ op = "check" => MintAllowed(TypeOf(i), intent, audience)
    /\ EvaluateCapability(c, i, live, intent, audience)

\* evaluate_check or verify_capability, then record_decision_receipt.  The
\* instance is loaded and a valid proof is spent before the rest is examined,
\* whatever the decision will be.  A decision without a proof is refused and
\* writes only its own line.
Decide(op, i, c, intent, audience, behalf, nonce) ==
    LET proved == LogWithSpent(i, nonce)
        line == [Line(op, i, c) EXCEPT !.intent = intent, !.audience = audience,
                                       !.allowed = TRUE]
    IN  /\ ~Sealed
        /\ op = "verify" => i = capabilities[c].inst
        /\ UnusedChallenge(i, nonce)
        /\ RoomFor(2)
        /\ log' = IF EvaluateCheck(op, i, Live(i), c, intent, audience, behalf)
                  THEN Append(proved, line) ELSE proved
        /\ UNCHANGED <<now, killDate, records>>

------------------------------------------------------------------------------
(* Death.  Neither kill looks at the seal: a sealed store can still kill.    *)

KillCapability(c) ==
    /\ RoomToKill
    /\ chains' = [chains EXCEPT ![c].revoked = TRUE]
    /\ log' = Append(log, [Line("kill_capability", capabilities[c].inst, c) EXCEPT
                              !.killedCapabilities = Tree(CapabilityParent, {c}),
                              !.revoked = {c}])
    /\ UNCHANGED <<now, killDate, agentTypes, instances, capabilities>>

\* The instance tree, every capability of it, and every capability derived
\* from those.  Only the first line of the cascade carries the lists; the
\* kill_capability lines that follow add the revocation identifiers.
KillInstance(i) ==
    LET killed == Tree(InstanceParent, {i})
        held == UNION {CapabilitiesOf(j) : j \in killed}
        derived == Tree(CapabilityParent, held)
    IN  /\ RoomToKill
        /\ instances' = [j \in DOMAIN instances |->
                            [instances[j] EXCEPT !.live = @ /\ j \notin killed]]
        /\ chains' = [c \in DOMAIN chains |->
                            [chains[c] EXCEPT !.revoked = @ \/ c \in derived]]
        /\ log' = Append(log, [Line("kill_instance", i, 0) EXCEPT
                                  !.killedInstances = killed,
                                  !.killedCapabilities = derived,
                                  !.revoked = derived])
        /\ UNCHANGED <<now, killDate, agentTypes, capabilities>>

\* Mutant of SealIssuer: a later seal may postpone death.
SealIssuerAgain(after) ==
    /\ after > 0
    /\ RoomFor(1)
    /\ killDate' = now + after
    /\ log' = Append(log, Line("issuer_seal", 0, 0))
    /\ UNCHANGED <<now, records>>

\* A later seal may only bring death forward.
SealIssuer(after) ==
    /\ after > 0
    /\ killDate # NoSeal => now + after < killDate
    /\ RoomFor(1)
    /\ killDate' = now + after
    /\ log' = Append(log, Line("issuer_seal", 0, 0))
    /\ UNCHANGED <<now, records>>

Tick ==
    /\ now < MaxTime
    /\ now' = now + 1
    /\ UNCHANGED <<killDate, records, log>>

------------------------------------------------------------------------------

Init ==
    /\ now = 0
    /\ killDate = NoSeal
    /\ agentTypes = <<>>
    /\ instances = <<>>
    /\ capabilities = <<>>
    /\ chains = <<>>
    /\ log = <<>>

\* The nonces that were issued; any other is refused.
Nonces == {p \in DOMAIN log : log[p].op = "challenge"}

Birth ==
    \E type \in DOMAIN agentTypes :
        \/ BirthInstance(type)
        \/ \E intent \in Intents, audience \in Audiences, behalf \in ActAuthorities :
              BirthWrite(type, intent, audience, behalf)

Mint ==
    \E i \in DOMAIN instances, intent \in Intents, audience \in Audiences,
       behalf \in ActAuthorities :
        MintCapability(i, intent, audience, behalf)

Challenge == \E i \in DOMAIN instances : IssueHolderChallenge(i)

Spawn ==
    \E i \in DOMAIN instances, c \in DOMAIN capabilities, intent \in Intents,
       audience \in Audiences, behalf \in ActAuthorities, nonce \in Nonces :
        SpawnChild(i, c, intent, audience, behalf, nonce)

Attenuate ==
    \E c \in DOMAIN capabilities, intent \in Intents, audience \in Audiences :
        AttenuateCapability(c, intent, audience)

Decision ==
    \E op \in DecisionOperations, i \in DOMAIN instances, c \in DOMAIN capabilities,
       intent \in Intents, audience \in Audiences, behalf \in ActAuthorities,
       nonce \in Nonces :
        Decide(op, i, c, intent, audience, behalf, nonce)

Next ==
    \/ \E type \in TypeChoices : AddAgentType(type)
    \/ Birth
    \/ Mint
    \/ Challenge
    \/ Spawn
    \/ Attenuate
    \/ Decision
    \/ \E c \in DOMAIN capabilities : KillCapability(c)
    \/ \E i \in DOMAIN instances : KillInstance(i)
    \/ \E after \in SealDelays : SealIssuer(after)
    \/ Tick

Spec == Init /\ [][Next]_vars

------------------------------------------------------------------------------
(* Properties.                                                               *)

InstanceRecord == [type : Nat, parent : Nat, live : BOOLEAN, expires : Nat]
CapabilityRecord == [inst : Nat, intent : Seq(STRING), audience : Seq(STRING),
                     behalf : ActAuthorities, expires : Nat, token : SUBSET Nat]
ChainRecord == [parent : Nat, hop : Nat, revoked : BOOLEAN]
Operations == IssuanceOperations \union KillOperations \union DecisionOperations
                  \union {"challenge", "challenge_spent", "issuer_seal"}
LogLine == [op : Operations, inst : Nat, cap : Nat, time : Nat, nonce : Nat,
            expires : Nat, killedInstances : SUBSET Nat,
            killedCapabilities : SUBSET Nat, revoked : SUBSET Nat,
            intent : Seq(STRING), audience : Seq(STRING), allowed : BOOLEAN]

\* The types, and the references between the records: every record names
\* records of the store, and a parent is older than its child.
TypeOK ==
    /\ now \in Nat
    /\ killDate \in Nat \union {NoSeal}
    /\ agentTypes \in Seq(AgentType)
    /\ instances \in Seq(InstanceRecord)
    /\ capabilities \in Seq(CapabilityRecord)
    /\ chains \in Seq(ChainRecord)
    /\ log \in Seq(LogLine)
    /\ Len(chains) = Len(capabilities)
    /\ \A i \in DOMAIN instances :
          instances[i].type \in DOMAIN agentTypes /\ instances[i].parent < i
    /\ \A c \in DOMAIN capabilities : capabilities[c].inst \in DOMAIN instances
    /\ \A c \in DOMAIN chains : chains[c].parent < c

\* No capability, however it was derived, grants more than any capability it
\* descends from or than its agent type, and the hop index counts its ancestors
\* and stays within the delegation depth (spawn_child, attenuate_capability).
AuthorityNeverWidens ==
    \A c \in DOMAIN capabilities :
        /\ MintAllowed(TypeOf(capabilities[c].inst),
                       capabilities[c].intent, capabilities[c].audience)
        /\ chains[c].hop <= TypeOf(capabilities[c].inst).depth
        /\ \A d \in CapabilityAncestors(c) : GrantWithin(capabilities[c], capabilities[d])

\* An act is allowed only within the grant of every ancestor of the capability
\* it was decided on, not only of that capability (evaluate_capability).
ActsWithinEveryAncestor ==
    \A p \in DOMAIN log :
        log[p].allowed =>
            \A d \in CapabilityAncestors(log[p].cap) :
                /\ IsNarrowerOrEqual(log[p].intent, capabilities[d].intent)
                /\ IsNarrowerOrEqual(log[p].audience, capabilities[d].audience)

\* Death reaches everything derived: once a kill line names a capability or an
\* instance, a kill line names each of its descendants, those issued later
\* included (kill_capability, kill_instance, spawn_child, attenuate_capability,
\* mint_capability).
DeathReachesDescendants ==
    /\ \A c \in DOMAIN chains :
          chains[c].parent # 0 /\ CapabilityKilled(chains[c].parent) => CapabilityKilled(c)
    /\ \A i \in DOMAIN instances :
          instances[i].parent # 0 /\ InstanceKilled(instances[i].parent) => InstanceKilled(i)
    /\ \A c \in DOMAIN capabilities :
          InstanceKilled(capabilities[c].inst) => CapabilityKilled(c)

Grants(line) == line.op \in IssuanceOperations \/ line.allowed

\* After a kill line no act is allowed and nothing is issued for what it named
\* or for anything that descends from that: README, "A parent kill stops the
\* parent, all child instances, and all capabilities in those chains."
DeathIsFinal ==
    \A p, q \in DOMAIN log :
        p < q /\ Grants(log[q]) =>
            /\ \A d \in CapabilityAncestors(log[q].cap) : ~HitsCapability(log[p], d)
            /\ \A j \in InstanceAncestors(log[q].inst) : ~HitsInstance(log[p], j)

\* A holder proof is good for one operation: every allowed act and every spawn
\* stands directly behind the line that spent a challenge, issued for the
\* acting instance and still in its window, and no challenge is spent twice
\* (require_holder_proof).
OneProofOneAct ==
    /\ \A p \in DOMAIN log :
          log[p].allowed \/ log[p].op = "spawn" =>
              /\ p > 1
              /\ log[p - 1].op = "challenge_spent"
              /\ log[p].op # "spawn" => log[p - 1].inst = log[p].inst
              /\ log[p].op = "spawn" => log[p - 1].inst = instances[log[p].inst].parent
    /\ \A p \in DOMAIN log :
          log[p].op = "challenge_spent" =>
              LET challenge == log[log[p].nonce]
              IN  /\ challenge.op = "challenge" /\ challenge.inst = log[p].inst
                  /\ challenge.time <= log[p].time /\ log[p].time <= challenge.expires
    /\ \A p, q \in DOMAIN log :
          log[p].op = "challenge_spent" /\ log[q].op = "challenge_spent"
             /\ log[p].nonce = log[q].nonce => p = q

\* No act and no issuance bears a time at or after the seal date in force,
\* although a later seal may have brought that date forward (seal_issuer).
SealIsDeath ==
    killDate # NoSeal =>
        \A p \in DOMAIN log :
            Grants(log[p]) \/ log[p].op = "challenge" => log[p].time < killDate

\* An act is allowed only while the capability lasts, and no capability
\* outlasts the instance that holds it.
ActsWithinLifetime ==
    /\ \A p \in DOMAIN log :
          log[p].allowed => log[p].time <= capabilities[log[p].cap].expires
    /\ \A c \in DOMAIN capabilities :
          capabilities[c].expires <= instances[capabilities[c].inst].expires

\* An attenuated capability ends no later than the one it came from, and so
\* does a spawned one: "The child cannot gain rights that the parent does not
\* have" (spawn_child).
ChildWithinParentLifetime ==
    \A c \in DOMAIN capabilities, d \in DOMAIN capabilities :
        chains[c].parent = d => capabilities[c].expires <= capabilities[d].expires

\* Nothing is ever undone: no line is rewritten, no record comes back to life
\* or changes what it grants, and death is never postponed.
NothingIsUndone ==
    [][/\ Len(log) <= Len(log') /\ \A p \in DOMAIN log : log'[p] = log[p]
       /\ \A i \in DOMAIN instances : ~Live(i) => ~Live(i)'
       /\ \A c \in DOMAIN chains : RevokeFromHere(c) => RevokeFromHere(c)'
       /\ \A c \in DOMAIN capabilities : capabilities'[c] = capabilities[c]
       /\ killDate # NoSeal => killDate' # NoSeal /\ killDate' <= killDate]_vars
==============================================================================
