# Verification of the identity kernel

TLA+ models of the prometheus-identity kernel and of what stands around it, the
TLC runs that check them and the theorems TLAPS proves about them. Paths without a
directory (`kernel.rs:2444`) are files of `src/src/`; `README.md` alone is the
repository's own.

## 1. The system

prometheus-identity issues identities to software agents. One *store* is a data
directory; one *kernel* (`kernel.rs`) reads and writes it. There is no server
that owns the directory: the host daemon (`host.rs`) and every command
(`main.rs`) open it on their own, and nothing locks it.

| component | state | operations | modules |
|---|---|---|---|
| kernel: issuance, delegation, decision, death (`kernel.rs`, `records.rs`) | agent types, instances, capabilities and chains as signed JSON records; `issuer.kill_date`; `issuance.log` | init, seal, add_agent_type, birth, birth_write, mint, spawn_child, attenuate, holder challenge, check, verify, kill instance, kill capability | `Authority`, `Kernel` |
| the store shared by processes (`store.rs`) | the same files, and what each process has read of them | the same, as separate reads and writes; crash | `KernelProcesses` |
| issuance log (`log_chain.rs`, `store.rs`) | raw lines of a file, each chained to the one before by SHA-256 | seal, append (line, then newline), read_log, verify_log_chain | `IssuanceLog`, `AppendOnlyLog` |
| inclusion proofs, tree heads (`log_proof.rs`, `log_tree_head.rs`) | none, derived from the log | prove, check, sign the root | `LogProof`, `LogExports` |
| issuer keys (`kernel.rs`, `store.rs`) | `issuer.secret`, `issuer.json`, the signatures on records and lines | rotate, member add, threshold raise, signing, trust | `IssuerKeys` |
| backup and restore (`kernel.rs`, `store.rs`) | a directory with copies of the files | export, restore, diagnostics | `Backup` |
| act, kill and seal bundles (`act_bundle.rs`, `kill_bundle.rs`, `seal_bundle.rs`) | three files each; accept lists in the other store's `issuer.json` | export, accept | `LogExports`, `Bundles`, `VerifierStore` |
| verifier store: presentations, challenges, accepted keys and deaths (`presentation.rs`, `kernel.rs`, `threshold.rs`) | accepted keys, previous keys, seals and kills in `issuer.json`; challenges in the host's memory | accept-*, verify threshold, challenge, present, verify, check | `VerifierStore`, `Thresholds` |
| WIMSE and X.509-SVID wraps (`wimse.rs`, `svid.rs`) | none | emit, verify | `Wraps` |
| tokens (`tokens.rs`) | the blocks of a Biscuit token | mint, attenuate, authorize | `CapabilityTokens` |
| host (`host.rs`, `interface.rs`) | a queue of connections, one served at a time | document, challenge, check, runtime check | `RuntimeCheck`, `VerifierStore` |
| runtime client (`runtime_check.rs`) | its acts, the pinned document, the last gate line | read a line, ask, sign, answer | `ToolGate`, `RuntimeCheck` |
| command line, operator page (`main.rs`, `operator_page.rs`) | none | calls of the kernel | processes of `KernelProcesses`, `VerifierStore` |

How they interact: every component calls the kernel, the kernel calls the store,
and processes meet only in the files. A decision reads the issuer, the instance,
the capability, the agent type, the chain and the log; the log overrides the
records wherever it says more (a kill line over a live status, a rotate line
over the previous-key list, a seal, previous-key or threshold line over what a racing
save has written to `issuer.json`). The log is thus both history and authority.
Stores meet only through documents that somebody carries; a tool runtime and a
host meet through HTTP exchanges of one request per connection.

What is hard in this code is listed with line numbers as `hazards` in
`PROJECT.json`, each with the property aimed at it. In short, what a component must
guarantee is

* kernel: authority never widens along a chain of derivations; death reaches
  every descendant, whenever issued; a holder proof serves one operation; the
  seal and the expiries bite at the right second; nothing is undone; a token
  neither refuses what its record covers nor lends a record more than it grants.
* shared store: a decision rests on no capability its last reading names dead and on no
  instance that was dead when it was loaded; a crash
  leaves no half-issued capability that acts and no half-done kill that forgets
  a descendant; the same promises with races, where they hold.
* log: an acknowledged line is never overlooked; a chain that verifies proves
  the order; a broken chain stays broken; what is exported from a growing log
  checks forever, and pieces of several exports never pass for one.
* keys and copies: no rotation, new member or raise takes the trust from what it
  should not, or gives it to what nobody issued; a copy made beside the work of a
  store restores to what the store would have said, or is refused.
* verifier store: an accepted death is never cleared and always bites; a challenge
  allows once; what was not heard of is short-lived; a raised threshold counts
  keys and not signatures, from the moment it is acknowledged.
* tool gate: a tool runs only on a line whose acts were all granted after it was
  read; every line is answered, and every host comes back to its queue.

## 2. The modules

**Authority.** The comparisons of grants: labels compare as path prefixes
(`is_narrower_or_equal`), act authority is a user or autonomous.

**Kernel.** The whole kernel, one operation per step, as one process on one
directory runs it. A directory is a sequence, the n-th record is named n, 0 names
nothing. A token is the set of its revocation identifiers, a nonce the position
of the challenge line that issued it, time a natural number. Every record in the
store is trusted here, since there is one key. A cascade of kill lines is one
log entry, and the line of a refused decision, which no operation reads, is left
out. `LogWithSpent` keeps the order of the code: a proof is spent before what it
was for is examined, so a refused spawn or check has spent it all the same.
`NotRevoked` takes the status of the instance as it was loaded and tests the log as
`evaluate_capability` does: for kill lines that name the capability in any way, but for the
instance only for a kill line of its own. Here the two readings are one step and the
difference does not show; KernelProcesses hands in the status of an earlier step.

| actions | code |
|---|---|
| `AddAgentType`, `BirthInstance`, `BirthWrite`, `MintCapability` | `add_agent_type`, `birth_instance`, `birth_write`, `mint_capability` |
| `IssueHolderChallenge` | `issue_holder_challenge_with_lifetime` |
| `SpawnChild`, `AttenuateCapability` | `spawn_child`, `attenuate_capability` |
| `Decide` (operators `EvaluateCheck`, `EvaluateCapability`, `NotRevoked`, ...) | `verify_capability_decision`, `evaluate_check`, `evaluate_capability` |
| `KillInstance`, `KillCapability`, `SealIssuer` | `kill_instance`, `kill_capability`, `seal_issuer` |
| `Tick` | the clock |

**CapabilityTokens** extends Kernel and looks into the token: the facts of the
first block, the check each attenuation adds (`StartsWith` compares strings, where
Authority compares path segments; `Continues` says which strings continue which),
and the comparison of a token with the record beside it.

**KernelProcesses** extends Kernel and takes issuance, spawn, decision and both
kills apart: each process has a `job` that holds what it has read and its next
step, and other processes, or its death, come between any two steps. It uses
Kernel's guards, so both modules test the same conditions. Operations of one
read and one write stay one step, and so do the readings an operation makes in a row
before it writes. A check has two rows of readings with the spent line between them:
`BeginCheck` loads the instance, whose status (`live` of the job) takes every kill line
into account, those of ancestors included, and finds the challenge unspent; `Evaluate`
reads the log and the chain again, and the status not. (Within a row the log only grows,
and a later reading of it only refuses more; to tell the readings of one row apart takes a
third process that logs an issuance behind the kill of what it issued, and gains it
nothing, for the walk to the root refuses.) `trouble` notes whether a behaviour had
overlapping operations or a crash; it never has both.

**IssuanceLog** goes below the append that the other modules take for one step.
A raw line is the sequence of pieces written to it, so a late newline glues two
lines and a torn write leaves a fragment; a digest is the text it digests. It
has the two ways to read: `read_log`, which needs every line to parse, and the
verification of the chain. What a line says does not matter here.
**AppendOnlyLog** is the log the other modules take it for: whole lines, appended one
by one, read as a whole or not at all. `IssuanceLog!ImplementsAppendOnlyLog` is the
refinement; a log that does not read maps to a damaged one.

**LogProof** has the Merkle tree over symbolic digests: `Width` is the padded number of
leaves, `Levels` and `Places` are the two loops of `merkle_levels` and
`sibling_hashes_for_leaf` (the digests one level up, the index halved), `Climb` the loop
of `recompute_root_from_proof`. All are functions of the level, so that what they compute
can be proved. **LogExports** adds to IssuanceLog the export of a
bundle, which reads the log twice, for the proof and for the tree head, while
others append. **Bundles** is the other end: the document, the proof and the tree head
are three files, and any combination of what the store ever gave out, cut,
re-indexed or edited, is handed to `AcceptBundle`.

**IssuerKeys** forgets what a record says and keeps who signed it: rotation as
its separate writes (`issuer.secret`, `issuer.json`, each record, the line),
member add and threshold raise as two writes, crashes between them, the overlays
of `load_issuer`, the freezes of `save_issuer`, and records planted in the store.
A command has the secrets of all members or of none. No time passes inside an
operation. The run starts unsealed and stays so.

**Backup** copies the files of IssuerKeys one after the other while its process goes
on. What the restored store makes of the copy is IssuerKeys itself, instantiated
over the copied files (`Restored`), so `OperationNormal` and the trust of a copied
record are the code's own functions on other files.

**Thresholds** counts a list of signatures. **VerifierStore** has two stores. Of the issuing
store it keeps the dates of kills, rotations and seals, and from them derives every
document that store could have signed so far; what arrives at the verifier store is
any of these at any time, so lost, late, repeated and reordered delivery are all
there. On the verifier store the host and a command accept at the same time, each
acceptance as it is written (load, compare with what is stored, write, append the
line), and either may die in between. Challenges live in the host's memory. The
issuing store signs at threshold 1, with no list of signatures.

| actions | code |
|---|---|
| `KillInstance`, `KillCapability`, `Rotate`, `Seal` | what the issuing store does to its own, by dates only |
| `BeginAcceptIssuer`, `BeginAcceptPrevious` and `PinPrevious`, `BeginAcceptKill`, `BeginAcceptSeal` | `accept_issuer_public_key`, `accept_previous_issuer_key`, `accept_kill_bundle_artifacts`, `accept_seal_bundle_artifacts`, up to the save |
| `BeginRaiseThreshold`, `RaiseAgain` | `set_verify_threshold`, and its early return |
| `CompareIssuer`, `WriteIssuer`, `AppendAcceptLine` | `save_issuer` (compare, write) and the line after it |
| `IssueVerifierChallenge`, `BeginCheck`, `DecideCheck` | the challenge and check requests of the host |
| `VerifyPresentation`, `VerifyAct` (operators) | `verify_presentation`, `accept_act_bundle_artifacts` |

**Wraps** extends VerifierStore by the two wraps of a presentation, a WIMSE token with an
HTTP signature and an X.509-SVID, and by every cross-check between their pieces.

**ToolGate** is the abstract promise of a gate in front of a tool: ALLOWED only if every
act the line covers was granted since the line was read, while the host did not
know it dead; and every line is answered. **RuntimeCheck** is what the code does: agent
processes and hosts, each host serving one connection at a time in order, four
exchanges per act on four connections, a pinned well-known document, `GiveUp` and
`ReadTimeout` for the five-second timeouts, hosts that ask other hosts (or
themselves) on behalf of somebody, restarts, visitors that send nothing, expired
challenges. The refinement maps `gate` to "open" while a line is being asked about and
to the last answer otherwise.

**Proof modules**: `KernelProofs` and on it `KernelActs`, and on both
`KernelProcessesProofs`; `TokenProofs`, `IssuanceLogProofs`, `RuntimeCheckProofs`;
`IssuerKeysProofs` (keys and backup), `VerifierStoreProofs` (verifier store and wraps).
`MCKernel`, `MCKernelProcesses`, `MCIssuanceLog`, `MCVerifierStore` and `MCRuntimeCheck`
hold the constants of the instances; `IssuerKeys` and `Backup` are run as they are,
their constants being numbers.

EXTENDS chains: Authority, Kernel, CapabilityTokens (MCKernel); Kernel,
KernelProcesses; IssuanceLog with LogProof, LogExports, Bundles (MCIssuanceLog);
IssuerKeys, Backup; Thresholds, VerifierStore, Wraps (MCVerifierStore).

## 3. The runs

Deadlock is not checked anywhere (`CHECK_DEADLOCK FALSE`): the bounds end every
behaviour, and the real system may rest too.

| run | question | bounds |
|---|---|---|
| `kernel_tree` | `TypeOK`, `AuthorityNeverWidens`, `ActsWithinEveryAncestor`, `DeathReachesDescendants`, `DeathIsFinal`, `TokenServesItsRecord`, `WiderTokenRefused` | 3 capabilities, 2 instances, one type (depth 2), two audiences (one narrower), one user and autonomy, 5 lines, one kill anywhere in between, no clock |
| `kernel_time` | `SealIsDeath`, `ActsWithinLifetime`, `OneProofOneAct`, `NothingIsUndone` | 2 capabilities, 2 instances, clock 0..2, lifetime 1, window 1, seals after 1 and 2 (0 is refused) in any order |
| `kernel_outlive` | `ChildWithinParentLifetime` (violated) | clock 0..1 |
| `processes` | `CrashedKillReachesDescendants`, `CrashedProofServesOnce`, `OnlyLoggedCapabilitiesAct`, `ActsRespectDeath` | 2 symmetric processes, 2 instances, one kill; crashes or overlaps, not both; 2 capabilities, one challenge, 4 lines with overlaps and 6 with crashes, and the behaviours up to 3 capabilities, 8 lines and two challenges that begin with a parent which spawned a child and overlap only after that (`ShortOrPreludeFirst`) |
| `processes_nonce` | `NonceSpentOnce` (violated) | 2 processes, no crash |
| `processes_kill` | `ParentKillStopsChildren` (violated) | 2 processes, no crash |
| `issuance_log` | `NothingAcknowledgedIsOverlooked`, `ChainWitnessesOrder`, `BreakIsForever`, `ImplementsAppendOnlyLog`, `ExportedBundleChecks`, `ProofsPinOneLog`, `AcceptedBundleIsWhole` | 3 processes, 4 lines, one export begun at any time |
| `issuance_log_fork` | `CheckNeedsUnbrokenChain` (violated) | 2 processes, 3 lines |
| `issuer_keys` | `LogStaysVerifiable`, `PlantedNeverTrusted`, `RotatedRecordsNeedNoOldKey`, `NormalRestoreKeepsRecords`, `QuietBackupRestores` | 3 keys, threshold 2, 2 records, 5 lines, clock 0..2; crashes at every step but one; a copy begun at 2 lines with one operation beside it |
| `issuer_keys_rotate` | `OldCapabilitiesVerify` (violated) | crash at that one step |
| `verifier_store` | `AcceptedKeyDeathStays`, `AcceptedKillStays`, `AcceptedDeathStopsActs`, `VerifierChallengeAllowsOnce`, `UnheardDeathIsShort`, `RaisedThresholdHolds`, `AcceptedWrapIsWhole`, `WrapLivesAsPresented` | a root agent and its child, 2 keys, 2 events at the issuing store, 2 acceptances, raises or challenges at the verifier store, clock 0..1; one envelope key and a stranger's, 2 forms of a document |
| `runtime_check` | `OneDocumentForLife`, `DeathStopsNextLine`, `ImplementsToolGate`, `HostComesBack` | 1 agent process, 2 hosts, 2 acts, 3 documents; 4 units to spend, a line costs 1, an event from outside 2 |

Why the bounds are enough. Three capabilities give a grandchild, so a property that
holds for each hop and not for two would fail; two instances give a spawn, a
mint on the child and an attenuation on either. A longer chain adds no
new kind of hop, and for the properties that matter most the theorems of section 4
remove the bound. (The depth of the type never binds with three capabilities; that no
chain is deeper than its type allows is part of the proved `GrantInv`.) One kill is
enough for the death properties, which relate one
kill line to one later grant. The clock steps on, before and after each of expiry,
window and seal. Two processes suffice for the races, which are between one
writer and one reader or two writers. The longer behaviours of `processes` are there
because it takes a child, a capability minted for it while its parent is being killed, and
a check of that one, to tell what a decision knows of its instance from what it knows of
its capability. The log has three processes because gluing two
pieces and reading them takes three. Four lines give a Merkle tree of two levels, with
padding at three. Three keys let a key be first current, then
previous, while another is a member. A backup with one operation beside it meets every
cut of every operation between every two files. Two acceptances are what it takes for
one to land on the other (with three, 2,959,877 states, nothing else happens), and two events for a kill or a rotation before a seal or
another kill; the second agent is there so that a death of the ancestor must reach the
descendant's documents. Two hosts may wait for one another and one for itself; two acts
give a line that is granted half. Four units are four lines, or two lines and one event,
or two events: an act that dies between two of its exchanges and a host that restarts
with another document are both reached. Each property has, in `PROJECT.json`, a
change to the modelled code that breaks it under the same bounds.

`WalkLimit` (64 hops, `kernel.rs:2684`) is in the model with its real value and
is never reached by the runs; the theorems hold for every value of it.

Fairness is stated in `RuntimeCheck` only: weak fairness of the next step of each agent
process and host that acts as a client, of each client's `GiveUp`, and of each host's own
steps (serving and `ReadTimeout`). The code justifies it by socket timeouts of five
seconds on both ends: `exchange_raw_http` sets them for the client, and
`read_http_request` for the host's reading. The host that `run_host_with_mode` starts sets
none for its writing (only the listener of `serve_loopback_listener_with_mode`, `host.rs:2809`,
does): that a response of a few kilobytes fits into the socket buffer of a client that does
not read it is assumed. Nothing is asked of whoever
writes lines or opens connections. Assumed besides: the signer command returns (the code
sets no limit on it), and a request arrives at once or not at all; a client that sends a
byte every four seconds keeps a host for as long as it likes, for the timeout is per
read. The other modules state no fairness: the kernel answers requests, and has
no timer, queue or retry of its own that would have to get somewhere.

## 4. The theorems

Those about `Kernel`'s `Spec` hold for every number of types, instances,
capabilities, lines, every label, user, depth, lifetime and every bound. They
assume only `KernelAssumption` (labels are sequences of strings, delays and
limits are naturals, `NoSeal` is none), `TokensAssumption` (which strings continue
which is a set of pairs of strings) and Authority's assumption. Those about
`IssuanceLog`'s `LogSpec` hold for every set of processes and number of lines, those
about `LogExports`' `ExportSpec` for logs, and so trees, of every size; those
about `RuntimeCheck`'s `RCSpec` for every number of hosts, agent processes, acts and
documents, under `RuntimeCheckAssumption` (an agent process is no host, `Base` binds each
to one, `Nobody` is neither). Those about `KernelProcesses`' `PSpec` hold besides for
every set of processes, with crashes or without; those about `IssuerKeys` and `Backup` for
every number of keys, members, records and lines, every threshold and delay, and a copy
begun anywhere; those about `VerifierStore` for every tree of agents, number of keys,
events, acceptances and challenges and every window; those about `Wraps` for every set of
envelope keys and every lifetime that is no shorter than the window. TLC evaluates every
assumption in a run.

Two hypotheses stand in theorems and not in assumptions. `"issuer" \notin CrashSteps`:
no crash strikes between `issuer.secret` and `issuer.json` (`kernel.rs:491`). With such a
crash the run `issuer_keys_rotate` shows the old key on no list: what it signed no
longer verifies, and a copy holds a secret that its `issuer.json` does not name. With every
other crash the theorems hold. `0 \notin KillDelays`: a
rotation that gives its old key no time signs no record again (`kernel.rs:452`), which
is a listed hazard; the theorem says that every other rotation which gets to its line does.

| theorem | states |
|---|---|
| `KernelProofs!TypeCorrect` | `[]TypeOK` |
| `KernelProofs!DeathReaches` | `[]DeathReachesDescendants` |
| `KernelProofs!SealCorrect` | `[]SealIsDeath` |
| `KernelProofs!AuthorityCorrect` | `[]AuthorityNeverWidens` |
| `KernelActs!DeathFinal` | `[]DeathIsFinal` |
| `KernelActs!ActsCorrect` | `[]ActsWithinEveryAncestor` |
| `KernelActs!NothingUndone` | `NothingIsUndone` |
| `KernelActs!ActsEnd` | `[]ActsWithinLifetime` |
| `KernelActs!ProofServesOnce` | `[]OneProofOneAct` |
| `TokenProofs!TokenServes` | `[]TokenServesItsRecord` |
| `TokenProofs!WiderRefused` | `[]WiderTokenRefused` |
| `IssuanceLogProofs!NothingOverlooked` | `[]NothingAcknowledgedIsOverlooked` |
| `IssuanceLogProofs!ChainOrder` | `[]ChainWitnessesOrder` |
| `IssuanceLogProofs!BreakStays` | `BreakIsForever` |
| `IssuanceLogProofs!LogImplementsAppendOnlyLog` | `ImplementsAppendOnlyLog` |
| `IssuanceLogProofs!ProvedChecks` | the proof made for a line recomputes to the root of its log |
| `IssuanceLogProofs!OnlyLeavesCheck` | what recomputes to the root from the digest of a line is a leaf |
| `IssuanceLogProofs!RootPinsLeaves` | logs with one root have the same lines |
| `IssuanceLogProofs!ExportsOnlyRead` | `ExportSpec => LogSpec` |
| `IssuanceLogProofs!ExportsCheck` | `[]ExportedBundleChecks` |
| `IssuanceLogProofs!ProofsPin` | `[]ProofsPinOneLog` |
| `IssuanceLogProofs!AcceptedWhole` | `[]AcceptedBundleIsWhole` |
| `RuntimeCheckProofs!GateIsSafe` | `Gate!GateSafety`, the safety half of `ImplementsToolGate` |
| `RuntimeCheckProofs!DeathStops` | `[]DeathStopsNextLine` |
| `RuntimeCheckProofs!OneDocument` | `[]OneDocumentForLife` |
| `KernelProcessesProofs!ProcessesSafe` | `[](TypeOK /\ JobsOK)` of several processes |
| `KernelProcessesProofs!ProcessesRespectDeath` | `[]ActsRespectDeath` |
| `KernelProcessesProofs!ProcessesActLogged` | `[]OnlyLoggedCapabilitiesAct` |
| `KernelProcessesProofs!CrashedKillReaches` | `[]CrashedKillReachesDescendants` |
| `KernelProcessesProofs!CrashedProofServes` | `[]CrashedProofServesOnce` |
| `IssuerKeysProofs!KeysSafe` | `[](KeysTypeOK /\ KeysInv)` |
| `IssuerKeysProofs!PlantedStaysUntrusted` | `[]PlantedNeverTrusted` |
| `IssuerKeysProofs!LogVerifies` | `[]LogStaysVerifiable`, if `"issuer" \notin CrashSteps` |
| `IssuerKeysProofs!RotationSignsAllAnew` | `[]RotatedRecordsNeedNoOldKey`, if `0 \notin KillDelays` |
| `IssuerKeysProofs!CopyLeavesStore` | `BackupSpec => KeysSpec` |
| `IssuerKeysProofs!QuietCopyRestores` | `[]QuietBackupRestores`, if `"issuer" \notin CrashSteps` |
| `IssuerKeysProofs!NormalRestoreKeeps` | `[]NormalRestoreKeepsRecords`, if `"issuer" \notin CrashSteps` |
| `VerifierStoreProofs!VerifierStoreSafe` | `[](VSTypeOK /\ AcceptInv)` |
| `VerifierStoreProofs!KeyDeathsStay` | `[]AcceptedKeyDeathStays` |
| `VerifierStoreProofs!KillsStay` | `[]AcceptedKillStays` |
| `VerifierStoreProofs!DeathsStopActs` | `[]AcceptedDeathStopsActs` |
| `VerifierStoreProofs!UnheardDeathsAreShort` | `[]UnheardDeathIsShort` |
| `VerifierStoreProofs!RaisedThresholdsHold` | `[]RaisedThresholdHolds` |
| `VerifierStoreProofs!ChallengesAllowOnce` | `[]VerifierChallengeAllowsOnce` |
| `VerifierStoreProofs!WrapIsWhole` | `[]AcceptedWrapIsWhole` |
| `VerifierStoreProofs!WrapLives` | `[]WrapLivesAsPresented` |

*Types.* `TypeOK` is inductive as it stands; its last conjuncts (references go to
existing, older records) carry the rest.

*Death.* `DeathReachesDescendants` alone is not inductive: a kill line could name a
record not yet issued, and issuing it would break the property. `DeathInv` adds
that kill lines name existing records. What is issued later is not derived from
anything dead (the guards of mint, spawn and attenuate), and what a kill names is
closed under children because `Tree` is a least closed set.

*Seal.* `SealIsDeath` needs the bound that no line's time is after the clock: a
seal that moves the date forward puts it after now, hence after every line written.

*Authority.* `GrantInv` says it hop by hop: a capability is within its parent's
grant, and its hop index is within the depth. The step from one hop to all
ancestors uses that `Tree` is the least closed set: those within d's grant form a set
closed under children, so it contains the tree of d. `GrantWithin` is transitive
because prefixes of prefixes are prefixes.

*Acts.* What was allowed was within its own capability, and capabilities do not
change; the rest is `GrantInv`. `DeathIsFinal` needs that trees only grow at new
records (`TreeOfOld`), so ancestors of an old record are what they were
(`AncestorsKept`), and that a grant line is appended only when no ancestor is named
dead.

*Nothing undone, and expiries.* Status and flags on disk change one way
(`RecordsDie`), lines stay, and the seal only moves forward. A capability ends with its
instance when it is issued (`Earlier` of the two, or the earlier expiry it was attenuated from),
and neither date is ever written again; the line of an act carries its time.

*Proofs.* `OneProofOneAct` is kept because every step that acts writes the spent line
first and finds the challenge unspent at that moment (`LogGrowsProven`). Two things are
added: the challenge a spent line names stands in the log, so it cannot be written
later, and no line is later than the clock. The parent of a spawned instance does not
change.

*Tokens.* `TokenInv` ties a record to every block of its token: each block is of a record
with the same holder, authority and expiry that grants at least as much. It passes from
a record to one attenuated from it because the order on labels is transitive, so nothing
has to be said of chains. Facts are those of the first block; checks only repeat what
`BlockAgrees` says.

*The log.* `LogInv` has three parts beside the types. `WrittenOnce`: a sealed line is
written by one process, once. `AcknowledgedKept`: what was acknowledged stands in
the file as a whole piece; pieces are never removed, so if the log reads, the
piece is a line of its own and was read. `SawPrefix`: as long as the log reads, a
sealed line saw the first n of its present lines and chained to the n-th. This is
what makes the chain a witness: if the link of the k-th line holds, its n-th and
its (k-1)-th line are equal, and by `WrittenOnce` n = k - 1. It is kept because
a write onto an open line makes the log unreadable for good, and any other write
only appends; for the same reason a broken chain stays broken (`Extends`).

*The refinement of the log* needs no more: a write on a closed end of a readable log maps to
`AppendEntry`, by `WrittenOnce` with a line that is not there yet; a write that glues or
tears maps to `Damage`; the newline that ends an append maps to `Return`, by
`AcknowledgedKept`; a decision maps to `Read`; the rest stutters.

*The tree.* What its functions compute is an induction over levels, and the induction
theorems of the library take the property as an operator, which no installed prover can
instantiate. `SetInduction` takes it as a set of numbers instead, and rests on the least
number outside the set (`LeastNumber`). Before a recursive function is used, the function
it describes is shown to exist (`IteratedExists` builds it step by step): that gives
`WidthFacts`, `PlacesFacts`, `LevelsFacts` and `ClimbFacts`, one equation a level each.
Three theorems follow. `ProvedChecks`: d steps up from a leaf, the climb is at the digest at
place index / 2^d of level d. `OnlyLeavesCheck`, from the top down: a digest of the climb
equals some digest of the tree, and a parent has no other children; the climb cannot
end above the leaves, since the digest of a line is no parent, nor go below them, since a
leaf is none (`DigestKinds`). The padding is the digest of nothing, which is no line's.
`RootPinsLeaves` goes down two trees at once; the deeper of two trees would have a parent
where the other has a leaf (`NotDeeper`). Digests are symbolic, so all of this
is up to collisions of SHA-256.

*Exports and bundles.* `ExportInv`: a bundle was made of one reading of the log, because the
proof and the tree head of its two readings have one root (`RootPinsLeaves`), and
as long as the log verifies, that reading is how it still begins, because a log that
verifies was never broken (`BreakStep`) and only grew. `ExportedBundleChecks` is then
`ProvedChecks`. `ProofsPinOneLog` is `OnlyLeavesCheck` and `RootPinsLeaves`.
`AcceptedBundleIsWhole` is `OnlyLeavesCheck` alone: the line's hash is computed from the
document, so a proof that checks starts from the digest of a line, whatever its siblings
and index are; that the head was signed by the store makes its leaves the log's lines.

*The gate.* `RCInv` has, for each agent process, `LineState` (what a line covers and
was not granted since is still to be asked), `NotGranted` (what was dead when the line was
read is dead still, and was not granted) and `UnderPinned` (what was granted was granted
under the pinned document), and for the queues `OneConnection`: a connection of an agent
process that still waits is the only one of its in the queue and asks what the process
waits for. Without the last one, a late answer to an abandoned request could be
taken for the answer to the present one. `DeathStopsNextLine` follows from the three at
the moment of ALLOWED.

*Several processes.* `ProcessesInv` needs nothing about who runs when. Records and lines
are never taken back, so what a job was told to exist exists when it writes (`JobsOK`);
what was derived from has the line of its issuance (`LoggedParents`), which the
examination of the parent looks for; a check under way that found its instance live found
it so in a log that named it nowhere (`LoadedInOrder`), and a decision is compared with the
two prefixes of the log it read (`EvaluatedInv`). Nothing stronger survives an overlap: a
decision may miss the kill of a parent that came between the two, two processes may spend
one proof, and a spawn may follow a kill (section 5). So `AloneInv` says what holds until two
operations first overlap: at most one job is under way, and what it has read is still so
(`JobAlone`). What it derives from is not killed; its proof is unspent until it spends it,
and its spent line is the last of the log thereafter, so that the act's line comes right
behind it; the first line of a cascade names everything the later ones name. A crash in
any of these states leaves the log as it is and the job to nobody: `DeathInv` and
`ProofInv` of the kernel say nothing of jobs, and that is why they survive.

*Issuer keys.* `FileIsAhead`: what the log says of thresholds and dates is already in
`issuer.json`, so the overlays of `load_issuer` change neither and only the member list
depends on the log. `JobInv` says the same of a rotation under way, whose issuer record
was prepared before the secret was written. A planted record stays untrusted for one
of three reasons that pass into one another but never end (`Untrusted`): nobody's key,
a previous key past its date, or fewer signatures than the threshold. For the log,
`LinesCount` says that each line has signatures enough and that every key that signed
one stays current, member or previous; `SecretInFile` is what the crash would break.
`TrustedInv` follows a rotation through the records: what it found trusted is
signed by members below the counter, and is trusted yet above it, for the old key has time
left or the rotation dies.

*Backup.* The copy reads only, so every theorem about `IssuerKeys` holds beside it. A
copy of a store at rest equals the store file by file (`QuietInv`), and the restored
store is an instance of the same module with the copied files in place of its own. A copy
beside the work of the store is followed from the moment `issuer.json` is copied
(`FollowInv`), as long as no rotation saves another: previous keys then stay what was
copied, so source and copy can only differ in members and threshold. The copied log may ask for
a higher threshold than the copied record, and a record may carry the signature of a member
the copy does not know. But a threshold is only ever raised within the reach of the
members (`EnoughMembers`), a key signs nothing before its file or line is saved
(`FreshUnsigned`), and a command is given every member's secret or none (`GivenAll`), so a
signature of an unknown member stands beside those of all that the copy knows (`Covered`),
and these are enough: the copied record says so, or a line of the copied log that verifies.

*The verifier store.* `InForce` names the reason for which each acknowledged death still
stands: its line in the log, for seals, previous keys and logged raises, which no save
can remove because `load_issuer` lays the log over the file; the file itself for a kill or
an unlogged raise, which is why those two hold only until a save lands on a file that had
changed (`overwritten`). `JobFits` says the same of what is on its way: the entry a
job will append is that of its death, and what a save has compared it contains. A
challenge in memory that is not spent was never answered with allow (`ChallengeInv`); a
restart empties the memory, and a challenge that is not there is no answer.

*Wraps.* A document whose signature verifies names the envelope key of the store that
issued it; a piece under that key is one that store emitted, and binds the document it was
emitted for. The equality of lifetimes is the minimum in `NotAfter`.

Only model-checked, for the reasons given:

* The liveness half of `ImplementsToolGate` and `HostComesBack`: fairness and ENABLED.

Every other property that a passing run checks, every safety invariant among them, is
stated by a theorem. No leaf of a proof needs more than a fifth of the time its prover is
given.

## 5. What the runs found

Five statements of the repository do not hold of the code.

1. `processes_nonce`: "Re-use of a spent nonce fails" (README.md:55). The nonce is
   found unspent at `kernel.rs:2444` and spent at `kernel.rs:2417`, two separate
   accesses to the log; two processes can both pass.
2. `processes_kill`: "A parent kill stops the parent, all child instances, and all
   capabilities in those chains" (README.md:372). The tree is listed once
   (`kernel.rs:1499`); a spawn that was examined before and saves after leaves a
   child that lives. It can be named and killed, and its chain of capabilities is
   refused through its dead ancestor (`ActsRespectDeath`), but a mint for it is not.
3. `kernel_outlive`: "The capability must not outlive the mint" (`kernel.rs:4494`).
   `attenuate_capability` compares expiries, `spawn_child` does not
   (`kernel.rs:2285`): a child spawned late outlives its parent.
4. `issuance_log_fork`: "The check fails closed when [...] broken issuance-log hash
   chain" (README.md:258). A check reads the log and verifies no hash
   (`kernel.rs:2058`). The model reaches the broken chain by two appends that
   chained to the same line.
5. `issuer_keys_rotate`: "Old capabilities verify until capability expiry"
   (README.md:289). A crash between `issuer.secret` (`kernel.rs:491`) and
   `issuer.json` (`kernel.rs:492`) leaves the old key on no list.

1 and 2 are why `KernelProcesses` does not implement `Kernel`'s specification: a
refinement holds for a single process, not for several.

What modelling showed besides, and where a property says less than one might expect:

* `evaluate_check` loads the instance before its proof is spent (`kernel.rs:1945`); of the
  log it reads afterwards (`kernel.rs:2058`) it asks only for a kill line of the instance's
  own (`kernel.rs:2064-2068`), not for the list of what died with a parent, which
  `load_instance` looks at. A capability minted for a child while the kill of its parent
  was listing what dies is named nowhere, and a check of it that loaded the child before
  the first kill line and reads the log behind it allows. So `ActsRespectDeath` speaks of
  every kill line in the log the instance was loaded from, and of the later lines only
  where they name the capability, an ancestor of it, or the instance by itself; the
  same formula without that difference is violated within the bounds of `processes`, after
  22 steps.

* An accepted kill has no line of its own, so a save that raced it, having compared
  before, loses it; `AcceptedKillStays` and `RaisedThresholdHolds` (for a raise repeated
  after a crash, which is acknowledged without a line) hold up to such a save. Seals,
  previous keys and raises that were logged survive it.
* Acceptance of a seal is per key: acts that a sealed store had signed with an older,
  rotated key are accepted until that key is accepted as previous too.
* README.md:295, 313, 380 and 381 say that a sealed store refuses `log sign-root` and the
  export of acts; `sign_issuance_log_tree_head` and `build_act_bundle` do not look at the
  seal. The model has them as the code does.
* A tree head with a list of signatures, one of a previous key, stops counting after the
  kill date of that key, whatever time it carries (`kernel.rs:2883` speaks of a
  historical pin).
* `check_inclusion_proof` looks neither at the index nor at the count of a proof, and
  accepts one that starts at an inner node. Bundles are safe because the line's hash is
  computed again (`AcceptedBundleIsWhole`, whose mutant believes the recorded hash); the
  theorem `OnlyLeavesCheck` says how far the check goes by itself.
* A backup that overlaps a rotation which saves its `issuer.json` after the old one was
  copied, and signs records anew before they were, passes the diagnostics and leaves
  those records untrusted; `NormalRestoreKeepsRecords` excludes exactly this case.
* A restore that is refused leaves the files it copied, so that a second one is refused
  for another reason; a restore of an older backup brings killed things back, and no code
  could notice.
* A raise of the verify threshold that fails between the file and the line is in force
  and unlogged.
* `AcceptedKeyDeathStays` says that an accepted date is never replaced by a later one. For
  seals that is a real comparison; a previous key has one date in the model, that of its
  rotation, so for those the property says that the key stays previous.
* The model of a check of a wrap leaves out the comparison a store makes with its own
  envelope key when it issued the presentation itself (`kernel.rs:4119-4135`). It could
  only refuse more, and rotation keeps the envelope key.

## 6. Not modelled, and why

* Cryptography and encodings: a signature is its key and what it signs, a token its
  blocks, a digest its text; JSON, Biscuit, JWS, DER and structured fields have no
  parsing here. The models start where the primitives end.
* The checks on edited files: the freezes of `save_agent_type`, `save_instance`,
  `save_capability`, `save_chain` (`store.rs:1285-1323`, `1538-1588`, `1745-1793`), and the
  commands that exist to be refused by them (raise or add-intent of a type, rebind of an
  instance, extend of a capability, `main.rs:1516-1680`). No operation that succeeds
  changes what they freeze; a kill passes them. The freezes of `save_issuer` are
  modelled, for there two writers do meet.
* `public_keys` of `issuer.json` that a racing save may drop, and the host's own
  condition that a second member exists before a raise to 2.
* Of the host: the list of paths it serves without a secret, the confirm words, the
  paths of registered member agents, the operator page and the JSON of the interface.
  `POST /well-known-follow` and `POST /operator-pin` (`host.rs:2371-2390`) make the host a
  client, as a runtime check does, with the same timeouts: of the document alone, and of
  the document and one request more. Its other requests are single calls of the kernel.
* Of the runtime client: HTTPS, host names, certificates.
* Argument parsing, HTML, logging, wording of errors.
* Tests. About 34,000 of the 56,800 lines of `src/src/` are tests that stand in the same
  files as the code (most of `host.rs`, half of `kernel.rs` and `runtime_check.rs`); they
  were read for what they claim and are mapped to nothing. Counted against the code alone,
  the map covers about a third.

## 7. What could come next

* `save_capability` and `save_chain` as two steps of `KernelProcesses`, and rotation as
  one of its jobs, so that keys and records meet under races.
* An issuing store that signs at threshold 2, so that the lists of `Thresholds` travel in
  the documents of `VerifierStore`.
