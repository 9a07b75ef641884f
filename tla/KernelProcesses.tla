--------------------------- MODULE KernelProcesses ---------------------------
(***************************************************************************)
(* Several processes on one data directory.  The host is one process and   *)
(* every command of the command line another; nothing locks the directory, *)
(* so an operation is a sequence of reads and writes that others may come  *)
(* between, and a process may die after any of them.                       *)
(*                                                                         *)
(* An operation that reads the store once and writes it once is still one  *)
(* step here.  The others are a job: what the process has read so far, and *)
(* the step it takes next.  save_capability and save_chain are one step,   *)
(* as are save_instance and save_holder_secret.                            *)
(*                                                                         *)
(* A behaviour has crashes or operations that overlap, and not both: the   *)
(* bound that keeps the instances small.                                   *)
(***************************************************************************)
EXTENDS Kernel

CONSTANTS
    Processes,
    CanCrash      \* may a process die in the middle of an operation?

ASSUME ProcessesAssumption == CanCrash \in BOOLEAN

VARIABLES
    job,          \* what each process is doing
    evaluated,    \* history: decisions that allowed, and the log each read when
                  \* it loaded the instance and when it was evaluated
    trouble       \* history: "none", "crash" or "overlap", whichever there was

allVars == <<vars, job, evaluated, trouble>>

Idle == [step |-> "idle"]

Goto(p, next) == job' = [job EXCEPT ![p] = next]
At(p, step) == job[p].step = step
Proceed(p, step) == Goto(p, [job[p] EXCEPT !.step = step])

Append1(line) == RoomFor(1) /\ log' = Append(log, line)

------------------------------------------------------------------------------
(* Issuance: examine, then save the instance if one is born, then save the   *)
(* capability and its chain, then append the line.                           *)

\* parent is the capability derived from, 0 for a root; inst is 0 until the
\* instance it is issued to is born.
Issuance(op, step, i, type, parentInst, parent, grant) ==
    [step |-> step, op |-> op, inst |-> i, type |-> type, parentInst |-> parentInst,
     parent |-> parent, grant |-> grant, nonce |-> 0, cap |-> 0]

Grants0 == [intent : Intents, audience : Audiences, behalf : ActAuthorities]

BeginBirthWrite(p, type, grant) ==
    /\ ~Sealed
    /\ MintAllowed(agentTypes[type], grant.intent, grant.audience)
    /\ Goto(p, Issuance("birth_write", "birth", 0, type, 0, 0, grant))
    /\ UNCHANGED <<vars, evaluated>>

BeginMint(p, i, grant) ==
    /\ ~Sealed
    /\ RequireLiveInstance(i)
    /\ MintAllowed(TypeOf(i), grant.intent, grant.audience)
    /\ Goto(p, Issuance("mint", "record", i, instances[i].type, 0, 0, grant))
    /\ UNCHANGED <<vars, evaluated>>

BeginAttenuate(p, c, grant) ==
    LET i == capabilities[c].inst IN
    /\ ~Sealed
    /\ RequireLiveInstance(i)
    /\ MayDelegate(c)
    /\ MintAllowed(TypeOf(i), grant.intent, grant.audience)
    /\ grant.behalf = capabilities[c].behalf
    /\ GrantWithin(grant, capabilities[c])
    /\ chains[c].hop + 1 <= TypeOf(i).depth
    /\ now < capabilities[c].expires
    /\ Goto(p, Issuance("attenuate", "record", i, instances[i].type, 0, c, grant))
    /\ UNCHANGED <<vars, evaluated>>

BeginSpawn(p, i, c, grant, nonce) ==
    /\ ~Sealed
    /\ RequireLiveInstance(i)
    /\ UnusedChallenge(i, nonce)
    /\ Goto(p, [Issuance("spawn", "spend", 0, instances[i].type, i, c, grant)
                   EXCEPT !.nonce = nonce])
    /\ UNCHANGED <<vars, evaluated>>

\* Mutant of Spend: the proof is examined and not spent.
SpendNothing(p) ==
    /\ At(p, "spend")
    /\ Proceed(p, "examine")
    /\ UNCHANGED <<vars, evaluated>>

\* The holder proof is spent first; what it was for is examined afterwards.
Spend(p) ==
    /\ At(p, "spend")
    /\ LET i == IF job[p].op = "spawn" THEN job[p].parentInst ELSE job[p].inst
       IN  Append1([Line("challenge_spent", i, 0) EXCEPT !.nonce = job[p].nonce])
    /\ Proceed(p, "examine")
    /\ UNCHANGED <<now, killDate, records, evaluated>>

ExamineSpawn(p) ==
    LET j == job[p] IN
    /\ At(p, "examine") /\ j.op = "spawn"
    /\ IF SpawnAllowed(j.parentInst, j.parent, j.grant.intent, j.grant.audience,
                       j.grant.behalf)
       THEN Proceed(p, "birth")
       ELSE Goto(p, Idle)
    /\ UNCHANGED <<vars, evaluated>>

SaveInstance(p) ==
    /\ At(p, "birth")
    /\ Len(instances) < MaxInstances
    /\ instances' = Append(instances, NewInstance(job[p].type, job[p].parentInst))
    /\ Goto(p, [job[p] EXCEPT !.step = "record", !.inst = Len(instances) + 1])
    /\ UNCHANGED <<now, killDate, agentTypes, capabilities, chains, log, evaluated>>

SaveCapability(p) ==
    LET j == job[p]
        c == Len(capabilities) + 1
        fresh == NewCapability(j.inst, instances[j.inst], j.grant.intent,
                               j.grant.audience, j.grant.behalf)
        hop == IF j.parent = 0 THEN 0 ELSE chains[j.parent].hop + 1
    IN  /\ At(p, "record")
        /\ Len(capabilities) < MaxCapabilities
        /\ capabilities' = Append(capabilities,
               IF j.op = "attenuate"
               THEN [fresh EXCEPT !.expires = capabilities[j.parent].expires,
                                  !.token = @ \union capabilities[j.parent].token]
               ELSE fresh)
        /\ chains' = Append(chains, NewChain(j.parent, hop))
        /\ Goto(p, [j EXCEPT !.step = "line", !.cap = c])
        /\ UNCHANGED <<now, killDate, agentTypes, instances, log, evaluated>>

AppendIssuanceLine(p) ==
    /\ At(p, "line")
    /\ Append1(Line(job[p].op, job[p].inst, job[p].cap))
    /\ Goto(p, Idle)
    /\ UNCHANGED <<now, killDate, records, evaluated>>

------------------------------------------------------------------------------
(* The decision.                                                             *)

\* The instance is loaded before its proof is looked at.  The status it has then
\* is the one the decision uses: live or not, it is not loaded again.  (loaded,
\* the log it was taken from, is history.)
BeginCheck(p, i, c, grant, nonce) ==
    /\ ~Sealed
    /\ UnusedChallenge(i, nonce)
    /\ Goto(p, [step |-> "spend", op |-> "check", inst |-> i, live |-> Live(i),
                loaded |-> Len(log), cap |-> c, grant |-> grant, nonce |-> nonce])
    /\ UNCHANGED <<vars, evaluated>>

\* The log is read once more, after the proof was spent.
Evaluate(p) ==
    LET j == job[p] IN
    /\ At(p, "examine") /\ j.op = "check"
    /\ IF EvaluateCheck("check", j.inst, j.live, j.cap, j.grant.intent,
                        j.grant.audience, j.grant.behalf)
       THEN /\ Proceed(p, "record decision")
            /\ evaluated' = evaluated \union
                   {[inst |-> j.inst, cap |-> j.cap, loaded |-> j.loaded,
                     seen |-> Len(log)]}
       ELSE Goto(p, Idle) /\ UNCHANGED evaluated
    /\ UNCHANGED vars

RecordDecision(p) ==
    LET j == job[p] IN
    /\ At(p, "record decision")
    /\ Append1([Line("check", j.inst, j.cap) EXCEPT
                   !.intent = j.grant.intent, !.audience = j.grant.audience,
                   !.allowed = TRUE])
    /\ Goto(p, Idle)
    /\ UNCHANGED <<now, killDate, records, evaluated>>

------------------------------------------------------------------------------
(* Death.  What is killed is listed first, once; then each record is saved   *)
(* and its line appended in turn, the named instance first.                  *)

BeginKillInstance(p, i) ==
    LET killed == Tree(InstanceParent, {i})
        derived == Tree(CapabilityParent, UNION {CapabilitiesOf(j) : j \in killed})
    IN  /\ RoomToKill
        /\ Goto(p, [step |-> "kill instance", named |-> i, killed |-> killed,
                    derived |-> derived, instances |-> killed,
                    capabilities |-> derived, listed |-> {}, current |-> i])
        /\ UNCHANGED <<vars, evaluated>>

BeginKillCapability(p, c) ==
    /\ RoomToKill
    /\ Goto(p, [step |-> "kill capability", named |-> c, killed |-> {},
                derived |-> {}, instances |-> {}, capabilities |-> {c},
                listed |-> Tree(CapabilityParent, {c}), current |-> c])
    /\ UNCHANGED <<vars, evaluated>>

\* The step of a cascade once some instances and capabilities remain.
NextKillStep(remainingInstances, remainingCapabilities) ==
    IF remainingInstances # {} THEN "kill instance"
    ELSE IF remainingCapabilities # {} THEN "kill capability" ELSE "killed"

SaveKilledInstance(p) ==
    /\ At(p, "kill instance")
    /\ \E i \in job[p].instances :
          /\ job[p].named \in job[p].instances => i = job[p].named
          /\ instances' = [instances EXCEPT ![i].live = FALSE]
          /\ Goto(p, [job[p] EXCEPT !.step = "kill instance line", !.current = i])
    /\ UNCHANGED <<now, killDate, agentTypes, capabilities, chains, log, evaluated>>

\* Mutant of AppendInstanceLine: the first line does not list what is killed.
AppendInstanceLineAlone(p) ==
    LET j == job[p]
        left == j.instances \ {j.current}
    IN  /\ At(p, "kill instance line")
        /\ Append1(Line("kill_instance", j.current, 0))
        /\ Goto(p, [j EXCEPT !.step = NextKillStep(left, j.capabilities),
                             !.instances = left])
        /\ UNCHANGED <<now, killDate, records, evaluated>>

AppendInstanceLine(p) ==
    LET j == job[p]
        left == j.instances \ {j.current}
    IN  /\ At(p, "kill instance line")
        /\ Append1(IF j.current = j.named
                   THEN [Line("kill_instance", j.current, 0) EXCEPT
                            !.killedInstances = j.killed, !.killedCapabilities = j.derived]
                   ELSE Line("kill_instance", j.current, 0))
        /\ Goto(p, [j EXCEPT !.step = NextKillStep(left, j.capabilities),
                             !.instances = left])
        /\ UNCHANGED <<now, killDate, records, evaluated>>

SaveKilledChain(p) ==
    /\ At(p, "kill capability")
    /\ \E c \in job[p].capabilities :
          /\ chains' = [chains EXCEPT ![c].revoked = TRUE]
          /\ Goto(p, [job[p] EXCEPT !.step = "kill capability line", !.current = c])
    /\ UNCHANGED <<now, killDate, agentTypes, instances, capabilities, log, evaluated>>

AppendCapabilityLine(p) ==
    LET j == job[p]
        left == j.capabilities \ {j.current}
    IN  /\ At(p, "kill capability line")
        /\ Append1([Line("kill_capability", capabilities[j.current].inst, j.current) EXCEPT
                       !.killedCapabilities = j.listed, !.revoked = {j.current}])
        /\ Goto(p, [j EXCEPT !.step = NextKillStep({}, left), !.capabilities = left])
        /\ UNCHANGED <<now, killDate, records, evaluated>>

Killed(p) ==
    /\ At(p, "killed")
    /\ Goto(p, Idle)
    /\ UNCHANGED <<vars, evaluated>>

------------------------------------------------------------------------------

\* A process that dies takes with it what it had read; what it wrote stays.
Crash(p) ==
    /\ CanCrash
    /\ job[p] # Idle
    /\ Goto(p, Idle)
    /\ UNCHANGED <<vars, evaluated>>

Begin(p) ==
    /\ job[p] = Idle
    /\ \/ \E grant \in Grants0 :
             \/ \E type \in DOMAIN agentTypes : BeginBirthWrite(p, type, grant)
             \/ \E i \in DOMAIN instances : BeginMint(p, i, grant)
             \/ \E c \in DOMAIN capabilities : BeginAttenuate(p, c, grant)
             \/ \E i \in DOMAIN instances, c \in DOMAIN capabilities, nonce \in Nonces :
                   \/ BeginSpawn(p, i, c, grant, nonce)
                   \/ BeginCheck(p, i, c, grant, nonce)
       \/ \E i \in DOMAIN instances : BeginKillInstance(p, i)
       \/ \E c \in DOMAIN capabilities : BeginKillCapability(p, c)

Continue(p) ==
    \/ Spend(p) \/ ExamineSpawn(p) \/ SaveInstance(p) \/ SaveCapability(p)
    \/ AppendIssuanceLine(p)
    \/ Evaluate(p) \/ RecordDecision(p)
    \/ SaveKilledInstance(p) \/ AppendInstanceLine(p) \/ SaveKilledChain(p)
    \/ AppendCapabilityLine(p) \/ Killed(p)

\* Operations of one read and one write, by a process that is doing nothing else.
OneStep ==
    /\ \E p \in Processes : job[p] = Idle
    /\ \/ \E type \in TypeChoices : AddAgentType(type)
       \/ \E type \in DOMAIN agentTypes : BirthInstance(type)
       \/ Challenge
    /\ UNCHANGED <<job, evaluated>>

PInit ==
    /\ Init
    /\ job = [p \in Processes |-> Idle] /\ evaluated = {} /\ trouble = "none"

\* An operation begins: does it overlap another?
Start ==
    /\ OneStep \/ \E p \in Processes : Begin(p)
    /\ IF \A p \in Processes : job[p] = Idle THEN UNCHANGED trouble
       ELSE trouble # "crash" /\ trouble' = "overlap"

PNext ==
    \/ Start
    \/ \E p \in Processes : Continue(p) /\ UNCHANGED trouble
    \/ trouble # "overlap" /\ trouble' = "crash" /\ \E p \in Processes : Crash(p)

PSpec == PInit /\ [][PNext]_allVars

------------------------------------------------------------------------------
(* Properties.                                                               *)

\* Whatever a crash leaves half done, the kill lines that got into the log name
\* every descendant there will ever be: the first line lists them all
\* (kill_instance).  With overlapping operations this fails: see
\* ParentKillStopsChildren.
CrashedKillReachesDescendants == trouble = "overlap" \/ DeathReachesDescendants

\* A crash after the proof was spent, or before, never lets it serve again.  With
\* overlapping operations this fails: see NonceSpentOnce.
CrashedProofServesOnce == trouble = "overlap" \/ OneProofOneAct

\* A decision never allows on a capability that the log it reads last names dead,
\* or any ancestor of which is named there, although that ancestor may have died
\* while the capability was being issued by another process
\* (chain_has_revoke_from_here); nor on an instance that any kill line named,
\* itself or among what died with its parent, when the instance was loaded, or
\* that a line of its own names by the time the log is read last
\* (evaluate_check, evaluate_capability).  A parent's kill in between is missed
\* when the capability was issued too late to be named by it.
ActsRespectDeath ==
    \A e \in evaluated : \A p \in 1..e.seen :
        /\ \A d \in CapabilityAncestors(e.cap) : ~HitsCapability(log[p], d)
        /\ p <= e.loaded => ~HitsInstance(log[p], e.inst)
        /\ ~NamesInstance(log[p], e.inst)

\* A crash between the records and the line of an issuance leaves a capability
\* that nothing can act on: what was allowed had an issuance line in the log
\* that was read, and so had every capability it was derived from.
OnlyLoggedCapabilitiesAct ==
    \A e \in evaluated : \A d \in CapabilityAncestors(e.cap) :
        \E p \in 1..e.seen : log[p].op \in IssuanceOperations /\ log[p].cap = d

\* README: "Re-use of a spent nonce fails."
NonceSpentOnce ==
    \A p, q \in DOMAIN log :
        (/\ log[p].op = "challenge_spent" /\ log[q].op = "challenge_spent"
         /\ log[p].nonce = log[q].nonce) => p = q

\* README: "A parent kill stops the parent, all child instances, and all
\* capabilities in those chains."  Once the kill has run to its end and nothing
\* else is under way, no child of a killed instance is live.
ParentKillStopsChildren ==
    (\A p \in Processes : job[p] = Idle) =>
        \A i \in DOMAIN instances :
            instances[i].parent # 0 /\ InstanceKilled(instances[i].parent) => ~Live(i)
==============================================================================
