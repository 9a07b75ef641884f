---------------------------- MODULE VerifierStore ----------------------------
(***************************************************************************)
(* Two stores.  The issuing store kills, rotates and seals; what travels   *)
(* from it are signed documents: presentations, act bundles, kill and seal *)
(* bundles, and the news that a key was replaced.  The verifier store      *)
(* holds no instance of the other: it keeps what it accepted in its own    *)
(* issuer.json and log, and allows from a presentation alone.              *)
(*                                                                         *)
(* A document can be copied, kept and handed in at any time, so what may   *)
(* arrive is whatever the issuing store could have signed at any time so   *)
(* far (Presentations, Acts, KillBundles, SealBundles): lost, late,        *)
(* repeated and reordered delivery are all there.                          *)
(*                                                                         *)
(* On the verifier store the host and a command work side by side, and     *)
(* nothing locks issuer.json: to accept is to load it, to compare what is  *)
(* about to be written with what is stored (save_issuer), to write, and    *)
(* for a seal or a previous key to append a line; so is the number of      *)
(* signatures raised that a document must carry.  Either may die between   *)
(* two steps; the host takes its verifier challenges with it.              *)
(* The issuing store signs at threshold 1, with no list of signatures.     *)
(***************************************************************************)
EXTENDS Thresholds, FiniteSetsExt

CONSTANTS
    Agents, Parent,    \* instances, one capability each; 0 has no parent
    Keys,              \* the keys of the issuing store are 1..Keys, in turn
    Host, Command,     \* the processes of the verifier store
    Delays,            \* values of --kill-after-seconds and --after-seconds
    VerifyThresholds,  \* values verify_threshold_n is raised to
    PresentWindow,     \* LABORATORY_PRESENTATION_WINDOW_SECONDS
    ChallengeWindow,   \* CHALLENGE_WINDOW_SECONDS
    \* bounds on the kills, rotations and seals of the issuing store, on the accepts,
    \* raises and challenges begun at the verifier store, and on the clock
    MaxEvents, MaxBegun, MaxTime

Processes == {Host, Command}

ASSUME VerifierStoreAssumption ==
    /\ Agents \subseteq Nat \ {0}
    /\ Parent \in [Agents -> Nat]
    /\ \A a \in Agents : Parent[a] = 0 \/ (Parent[a] \in Agents /\ Parent[a] < a)
    /\ Keys \in Nat \ {0} /\ Host # Command
    /\ Delays \subseteq Nat /\ VerifyThresholds \subseteq Nat \ {0, 1}
    /\ PresentWindow \in Nat /\ ChallengeWindow \in Nat

VARIABLES
    now,             \* one clock for both stores
    rotated,         \* issuing store: when key k + 1 replaced k, and k's kill date
    kills,           \* issuing store: its kills, each with the lines it appended
    sealLines,       \* issuing store: its issuer_seal lines
    file,            \* verifier store: issuer.json
    lines,           \* verifier store: the lines its issuer.json is compared with
    job,             \* verifier store: what each process is doing
    slots,           \* the verifier challenges the host has in memory
    challenges,      \* verifier challenges ever issued
    begun,           \* accepts, raises and challenges ever begun
    \* history
    acknowledged,    \* the deaths and raises whose acceptance was reported
    overwritten,     \* did a save land on a file changed since it was compared?
    uses             \* how often each verifier challenge was answered with allow

issuing == <<rotated, kills, sealLines>>
stored == <<file, lines>>
host == <<slots, challenges>>
history == <<acknowledged, overwritten, uses>>
vsVars == <<now, issuing, stored, job, host, begun, history>>

Idle == [step |-> "idle"]
None == [kind |-> "none"]

------------------------------------------------------------------------------
(* The issuing store.                                                        *)

Instance(a) == <<"instance", a>>
Capability(a) == <<"capability", a>>

\* The chain from an agent to its root, and the tree below one.
Ancestors[a \in Agents] ==
    {a} \union (IF Parent[a] = 0 THEN {} ELSE Ancestors[Parent[a]])
Descendants(a) == {b \in Agents : a \in Ancestors[b]}

\* The identifiers a presentation or a receipt carries: the agent's own and
\* the signed ancestor lists.
Named == [a \in Agents |-> {Instance(b) : b \in Ancestors[a]}
                               \union {Capability(b) : b \in Ancestors[a]}]

CurrentKey == Len(rotated) + 1

\* What key may have signed when: on the day of a rotation both did.
Signings ==
    {s \in [key : 1..CurrentKey, at : 0..now] :
        /\ s.key > 1 => rotated[s.key - 1].at <= s.at
        /\ s.key < CurrentKey => s.at <= rotated[s.key].at}

KillDate == Min({line.date : line \in sealLines})
SealedAt(t) == sealLines # {} /\ t >= KillDate

\* A kill stops every agent whose identifiers or ancestors it names.
Reaches(kill, a) == Named[a] \intersect UNION kill.lines # {}
\* Who had not been killed before the day t, and so could act on that day.
LiveAt(t) == {a \in Agents : \A n \in DOMAIN kills : kills[n].at < t => ~Reaches(kills[n], a)}

\* By a live agent of a store that is not sealed: what present_capability and
\* the check of an act need.
ActsSigned ==
    UNION {[agent : LiveAt(s.at), key : {s.key}, at : {s.at}] : s \in
              {s \in Signings : ~SealedAt(s.at)}}

\* present_capability: with the current key, for the length of the window.
Presentations ==
    {[agent |-> s.agent, key |-> s.key, expires |-> s.at + PresentWindow] : s \in ActsSigned}

\* build_act_bundle: a receipt that allowed, under the tree head of that time or
\* of any later one.  A store signs a tree head after its seal too.
Acts ==
    {[agent |-> x[1].agent, key |-> x[1].key, head |-> x[2]] :
        x \in {x \in ActsSigned \X Signings : x[1].at <= x[2].at /\ x[1].key <= x[2].key}}

\* build_kill_bundle
KillBundles ==
    UNION {[names : kills[n].lines, head : {s \in Signings : kills[n].at <= s.at}] :
              n \in DOMAIN kills}

\* build_seal_bundle: the line names the date that is in force when it is built.
SealBundles ==
    UNION {[key : {line.key}, date : {line.date},
            head : {s \in Signings : s.key = line.key /\ line.at <= s.at}] : line \in sealLines}

Room == Len(kills) + Len(rotated) + Cardinality(sealLines) < MaxEvents
Killed(id) == \E n \in DOMAIN kills : id \in UNION kills[n].lines

\* kill_instance: the line of the named instance lists the whole tree, and each
\* instance and capability in it has a line of its own.
KillInstance(a) ==
    LET killed == {Instance(b) : b \in Descendants(a)}
        derived == {Capability(b) : b \in Descendants(a)}
    IN  /\ Room /\ ~Killed(Instance(a))
        /\ kills' = Append(kills, [at |-> now, lines |-> {killed \union derived} \union
               {{id} : id \in (killed \ {Instance(a)}) \union derived}])
        /\ UNCHANGED <<now, rotated, sealLines, stored, job, host, begun, history>>

KillCapability(a) ==
    /\ Room /\ ~Killed(Capability(a))
    /\ kills' = Append(kills, [at |-> now, lines |-> {{Capability(b) : b \in Descendants(a)}}])
    /\ UNCHANGED <<now, rotated, sealLines, stored, job, host, begun, history>>

\* rotate_issuer_key: refused once a seal is set.
Rotate(after) ==
    /\ Room
    /\ sealLines = {}
    /\ CurrentKey < Keys
    /\ rotated' = Append(rotated, [at |-> now, kill |-> now + after])
    /\ UNCHANGED <<now, kills, sealLines, stored, job, host, begun, history>>

\* seal_issuer: a later seal only shortens.
Seal(after) ==
    /\ after > 0
    /\ Room
    /\ sealLines # {} => now + after < KillDate
    /\ sealLines' = sealLines \union
           {[key |-> CurrentKey, date |-> now + after, at |-> now]}
    /\ UNCHANGED <<now, rotated, kills, stored, job, host, begun, history>>

------------------------------------------------------------------------------
(* The verifier store: reading and comparing issuer.json.                    *)

\* The entry of a key in a list of keys with dates, under the earliest date
\* that was logged for it.
LoggedKeys(op) == {line.key : line \in {l \in lines : l.op = op}}
LoggedDate(op, key) == Min({line.date : line \in {l \in lines : l.op = op /\ l.key = key}})
DateOf(list, op, key) ==
    IF key \in DOMAIN list THEN Min({list[key], LoggedDate(op, key)}) ELSE LoggedDate(op, key)

\* Mutant of Signed: the list is taken from the file as it is.
AsOnFile(list, op) == list

\* What load_issuer makes of such a list: the keys with a signed line, no others.
Signed(list, op) == [key \in LoggedKeys(op) |-> DateOf(list, op, key)]

\* highest_log_verify_threshold_n
LoggedThreshold ==
    Max({1} \union {line.n : line \in {l \in lines : l.op = "issuer_verify_threshold"}})

\* Mutant of RaisedThreshold: the threshold is taken from the file as it is.
ThresholdOnFile == file.threshold

RaisedThreshold == Max({file.threshold, LoggedThreshold})

LoadIssuer == [file EXCEPT !.previous = Signed(@, "previous_key_accept"),
                           !.sealed = Signed(@, "seal_accept"),
                           !.threshold = RaisedThreshold]

\* require_accepted_previous_keys_not_raised, require_accepted_sealed_keys_not_raised
NotRaised(list, op, next) ==
    \A key \in LoggedKeys(op) : key \in DOMAIN next /\ next[key] <= DateOf(list, op, key)

\* Mutant of MaySaveIssuer: accepted kills are not compared.
MaySaveAnyKills(issuer) ==
    /\ NotRaised(file.previous, "previous_key_accept", issuer.previous)
    /\ NotRaised(file.sealed, "seal_accept", issuer.sealed)
    /\ issuer.threshold >= Max({file.threshold, LoggedThreshold})

\* The comparison of save_issuer.
MaySaveIssuer(issuer) ==
    /\ NotRaised(file.previous, "previous_key_accept", issuer.previous)
    /\ NotRaised(file.sealed, "seal_accept", issuer.sealed)
    /\ issuer.threshold >= Max({file.threshold, LoggedThreshold})
    /\ file.kills \subseteq issuer.kills

PastKillDate(issuer, key) == key \in DOMAIN issuer.previous /\ now >= issuer.previous[key]

\* accepted_issuer_public_keys_for_verify_at
AcceptedKey(issuer, key) == key \in issuer.accepted /\ ~PastKillDate(issuer, key)

\* The keys that count; the verifier store's own is always one of them.
OwnKey == 0
AcceptedKeys(issuer) == {OwnKey} \union {key \in issuer.accepted : AcceptedKey(issuer, key)}

\* require_accepted_artifact_signatures
ArtifactSigned(issuer, list, message) ==
    EnoughSignatures(list, message, AcceptedKeys(issuer), issuer.threshold)

\* check_issuance_log_tree_head, of a foreign tree head.
TreeHeadAccepted(issuer, head) ==
    /\ ArtifactSigned(issuer, <<>>, head)
    /\ head.key \in issuer.accepted \union DOMAIN issuer.previous
    /\ head.key \in DOMAIN issuer.previous => head.at < issuer.previous[head.key]

------------------------------------------------------------------------------
(* The verifier store: accepting.                                            *)

Goto(p, next) == job' = [job EXCEPT ![p] = next]
At(p, step) == job[p].step = step

\* death is what is acknowledged at the end; entry is the line to append, None
\* if there is none; then is what follows the save, None if that ends it.
Accept(step, issuer, death, entry) ==
    [step |-> step, issuer |-> issuer, death |-> death, entry |-> entry, compared |-> file]

Begin(p, next) ==
    /\ At(p, "idle")
    /\ begun < MaxBegun
    /\ begun' = begun + 1
    /\ Goto(p, next)
    /\ UNCHANGED <<now, issuing, stored, host, history>>

\* accept_issuer_public_key, for a key the issuing store has by now.
BeginAcceptIssuer(p, key) ==
    Begin(p, Accept("compare", [LoadIssuer EXCEPT !.accepted = @ \union {key}], None, None))

\* accept_previous_issuer_key, its first half: the key goes on the accept list.
BeginAcceptPrevious(p, key) ==
    Begin(p, Accept("compare", [LoadIssuer EXCEPT !.accepted = @ \union {key}],
                    [kind |-> "previous", key |-> key, date |-> rotated[key].kill],
                    [op |-> "pin", key |-> key, date |-> rotated[key].kill]))

\* Its second half: a date that is on the list may only come forward.
PinPrevious(p) ==
    LET key == job[p].entry.key
        date == job[p].entry.date
        issuer == LoadIssuer
    IN  /\ At(p, "pin")
        /\ IF key \in DOMAIN issuer.previous /\ date > issuer.previous[key]
           THEN Goto(p, Idle)
           ELSE Goto(p, Accept("compare",
                   [issuer EXCEPT !.previous = [k \in DOMAIN @ \union {key} |->
                       IF k = key THEN date ELSE @[k]]],
                   job[p].death,
                   [job[p].entry EXCEPT !.op = "previous_key_accept"]))
        /\ UNCHANGED <<now, issuing, stored, host, begun, history>>

\* accept_kill_bundle_artifacts
BeginAcceptKill(p, bundle) ==
    /\ TreeHeadAccepted(LoadIssuer, bundle.head)
    /\ Begin(p, Accept("compare", [LoadIssuer EXCEPT !.kills = @ \union bundle.names],
                       [kind |-> "kill", names |-> bundle.names], None))

\* accept_seal_bundle_artifacts
BeginAcceptSeal(p, bundle) ==
    LET issuer == LoadIssuer
        key == bundle.key
    IN  /\ TreeHeadAccepted(issuer, bundle.head)
        /\ key \in DOMAIN issuer.sealed => bundle.date <= issuer.sealed[key]
        /\ Begin(p, Accept("compare",
                    [issuer EXCEPT !.sealed = [k \in DOMAIN @ \union {key} |->
                        IF k = key THEN bundle.date ELSE @[k]]],
                    [kind |-> "seal", key |-> key],
                    [op |-> "seal_accept", key |-> key, date |-> bundle.date]))

\* set_verify_threshold, n no lower than what is in force.
BeginRaiseThreshold(p, n) ==
    /\ n > LoadIssuer.threshold
    /\ Begin(p, Accept("compare", [LoadIssuer EXCEPT !.threshold = n],
                       [kind |-> "threshold", n |-> n, logged |-> TRUE],
                       [op |-> "issuer_verify_threshold", n |-> n]))

\* What is in force already is not written and not logged again.
RaiseAgain(p, n) ==
    /\ At(p, "idle")
    /\ n = LoadIssuer.threshold
    /\ begun < MaxBegun
    /\ begun' = begun + 1
    /\ acknowledged' = acknowledged \union {[kind |-> "threshold", n |-> n, logged |-> FALSE]}
    /\ UNCHANGED <<now, issuing, stored, job, host, overwritten, uses>>

\* save_issuer up to the write: a refusal ends the acceptance.
CompareIssuer(p) ==
    /\ At(p, "compare")
    /\ IF MaySaveIssuer(job[p].issuer)
       THEN Goto(p, [job[p] EXCEPT !.step = "write", !.compared = file])
       ELSE Goto(p, Idle)
    /\ UNCHANGED <<now, issuing, stored, host, begun, history>>

Acknowledge(death) ==
    acknowledged' = IF death = None THEN acknowledged ELSE acknowledged \union {death}

\* The write replaces the whole file (a temporary file, renamed).
WriteIssuer(p) ==
    LET j == job[p] IN
    /\ At(p, "write")
    /\ file' = j.issuer
    /\ overwritten' = (overwritten \/ file # j.compared)
    /\ IF j.entry = None THEN Goto(p, Idle) /\ Acknowledge(j.death)
       ELSE /\ Goto(p, [step |-> IF j.entry.op = "pin" THEN "pin" ELSE "line",
                        death |-> j.death, entry |-> j.entry])
            /\ UNCHANGED acknowledged
    /\ UNCHANGED <<now, issuing, lines, host, begun, uses>>

AppendAcceptLine(p) ==
    /\ At(p, "line")
    /\ lines' = lines \union {job[p].entry}
    /\ Goto(p, Idle)
    /\ Acknowledge(job[p].death)
    /\ UNCHANGED <<now, issuing, file, host, begun, overwritten, uses>>

------------------------------------------------------------------------------
(* The verifier store: deciding.                                             *)

\* refuse_if_accepted_seal_for_presentation, refuse_if_accepted_seal_for_act
AcceptedAsSealed(issuer, key) == key \in DOMAIN issuer.sealed

\* refuse_if_accepted_kill_for_presentation, refuse_if_accepted_kill_for_act: the
\* agent and all that was signed as its ancestors.
AcceptedAsKilled(issuer, agent) == Named[agent] \intersect issuer.kills # {}

\* Mutant of VerifyPresentation: only the agent's own death counts.
VerifyOwnNames(issuer, m) ==
    /\ ArtifactSigned(issuer, <<>>, m)
    /\ ~AcceptedAsSealed(issuer, m.key)
    /\ AcceptedKey(issuer, m.key)
    /\ now < m.expires
    /\ {Instance(m.agent), Capability(m.agent)} \intersect issuer.kills = {}

\* Mutant of VerifyPresentation: a presentation is good for its last moment too.
VerifyLate(issuer, m) ==
    /\ ArtifactSigned(issuer, <<>>, m)
    /\ ~AcceptedAsSealed(issuer, m.key)
    /\ AcceptedKey(issuer, m.key)
    /\ now <= m.expires
    /\ ~AcceptedAsKilled(issuer, m.agent)

\* verify_presentation
VerifyPresentation(issuer, m) ==
    /\ ArtifactSigned(issuer, <<>>, m)
    /\ ~AcceptedAsSealed(issuer, m.key)
    /\ AcceptedKey(issuer, m.key)
    /\ now < m.expires
    /\ ~AcceptedAsKilled(issuer, m.agent)

\* accept_act_bundle_artifacts: an act has no window.
VerifyAct(issuer, m) ==
    /\ TreeHeadAccepted(issuer, m.head)
    /\ ArtifactSigned(issuer, <<>>, m)
    /\ AcceptedKey(issuer, m.key)
    /\ ~AcceptedAsSealed(issuer, m.key)
    /\ ~AcceptedAsKilled(issuer, m.agent)

\* issue_verifier_challenge.  Whoever has the secret of a holder can sign the
\* nonce, dead or alive: the holder signs without asking any store.
IssueVerifierChallenge ==
    /\ At(Host, "idle")
    /\ begun < MaxBegun
    /\ begun' = begun + 1
    /\ challenges' = challenges + 1
    /\ uses' = Append(uses, 0)
    /\ slots' = [n \in DOMAIN slots \union {challenges + 1} |->
           IF n \in DOMAIN slots THEN slots[n]
           ELSE [issued |-> now, spent |-> FALSE]]
    /\ UNCHANGED <<now, issuing, stored, job, acknowledged, overwritten>>

\* check-wimse and check-svid, up to the verified presentation.
BeginCheck(m) ==
    /\ At(Host, "idle")
    /\ VerifyPresentation(LoadIssuer, m)
    /\ Goto(Host, [step |-> "decide", holder |-> m.agent])
    /\ UNCHANGED <<now, issuing, stored, host, begun, history>>

\* Mutant of ProofAccepted: a challenge that was spent is as good as new.
ProofAcceptedTwice(nonce, signer, holder) ==
    /\ nonce \in DOMAIN slots
    /\ now <= slots[nonce].issued + ChallengeWindow
    /\ signer = holder

\* require_holder_proof_from_present
ProofAccepted(nonce, signer, holder) ==
    /\ nonce \in DOMAIN slots
    /\ ~slots[nonce].spent
    /\ now <= slots[nonce].issued + ChallengeWindow
    /\ signer = holder

\* decide_tool_action_after_verified_wimse on a store without the instance.
\* The proof is spent before the act authority that was asked for is looked at.
DecideCheck(nonce, signer, authorityMatches) ==
    /\ At(Host, "decide")
    /\ IF ProofAccepted(nonce, signer, job[Host].holder)
       THEN /\ slots' = [slots EXCEPT ![nonce].spent = TRUE]
            /\ uses' = IF authorityMatches THEN [uses EXCEPT ![nonce] = @ + 1] ELSE uses
       ELSE UNCHANGED <<slots, uses>>
    /\ Goto(Host, Idle)
    /\ UNCHANGED <<now, issuing, stored, challenges, begun, acknowledged, overwritten>>

------------------------------------------------------------------------------

Crash(p) ==
    /\ IF p = Host THEN slots' = << >> ELSE ~At(p, "idle") /\ UNCHANGED slots
    /\ Goto(p, Idle)
    /\ UNCHANGED <<now, issuing, stored, challenges, begun, history>>

Tick ==
    /\ now < MaxTime
    /\ now' = now + 1
    /\ UNCHANGED <<issuing, stored, job, host, begun, history>>

VSInit ==
    /\ now = 0
    /\ rotated = <<>> /\ kills = <<>> /\ sealLines = {}
    /\ file = [accepted |-> {1}, kills |-> {}, previous |-> << >>, sealed |-> << >>,
               threshold |-> 1]
    /\ lines = {}
    /\ job = [p \in Processes |-> Idle]
    /\ slots = << >> /\ challenges = 0 /\ begun = 0
    /\ acknowledged = {} /\ overwritten = FALSE /\ uses = <<>>

IssuingNext ==
    \/ \E a \in Agents : KillInstance(a) \/ KillCapability(a)
    \/ \E after \in Delays : Rotate(after) \/ Seal(after)

AcceptNext(p) ==
    \/ \E key \in 1..CurrentKey : BeginAcceptIssuer(p, key)
    \/ \E key \in DOMAIN rotated : BeginAcceptPrevious(p, key)
    \/ \E bundle \in KillBundles : BeginAcceptKill(p, bundle)
    \/ \E bundle \in SealBundles : BeginAcceptSeal(p, bundle)
    \/ \E n \in VerifyThresholds : BeginRaiseThreshold(p, n) \/ RaiseAgain(p, n)
    \/ PinPrevious(p) \/ CompareIssuer(p) \/ WriteIssuer(p) \/ AppendAcceptLine(p)

DecideNext ==
    \/ IssueVerifierChallenge
    \/ \E m \in Presentations : BeginCheck(m)
    \/ \E nonce \in 1..challenges, signer \in Agents, authorityMatches \in BOOLEAN :
          DecideCheck(nonce, signer, authorityMatches)

VSNext ==
    \/ IssuingNext
    \/ \E p \in Processes : AcceptNext(p) \/ Crash(p)
    \/ DecideNext
    \/ Tick

VSSpec == VSInit /\ [][VSNext]_vsVars

------------------------------------------------------------------------------
(* Properties.                                                               *)

\* An acknowledged seal or previous key is in force from then on, with a date no
\* later, whatever else is accepted beside it or dies half way: its line brings
\* back what another save has overwritten (load_issuer, save_issuer).
AcceptedKeyDeathStays ==
    \A death \in acknowledged :
        /\ death.kind = "seal" => death.key \in DOMAIN LoadIssuer.sealed
        /\ death.kind = "previous" =>
               /\ death.key \in DOMAIN LoadIssuer.previous
               /\ LoadIssuer.previous[death.key] <= death.date

\* An acknowledged kill is in force from then on, through crashes and later
\* accepts, unless a save landed on a file that had changed since it was
\* compared: accepted kills have no line (require_accepted_kills_not_cleared).
AcceptedKillStays ==
    overwritten \/ \A death \in acknowledged : death.kind = "kill" => death.names \subseteq file.kills

\* What was acknowledged names the agent of a document or an ancestor of it, its
\* key as sealed, or its key as one whose date has come.
DiesBy(m, death) ==
    \/ death.kind = "kill" /\ ~overwritten /\ Named[m.agent] \intersect death.names # {}
    \/ death.kind = "seal" /\ m.key = death.key
    \/ death.kind = "previous" /\ m.key = death.key /\ now >= death.date

\* Whatever presentation or act bundle of whatever age is handed in, it is
\* refused if a death that was acknowledged stops it (verify_presentation,
\* accept_act_bundle_artifacts).
AcceptedDeathStopsActs ==
    LET issuer == LoadIssuer
        dead(m) == \E death \in acknowledged : DiesBy(m, death)
    IN  acknowledged # {} =>
            /\ \A m \in Presentations : dead(m) => ~VerifyPresentation(issuer, m)
            /\ \A m \in Acts : dead(m) => ~VerifyAct(issuer, m)

\* A verifier challenge is answered with allow at most once, through restarts of
\* the host and repeated requests (require_holder_proof_from_present).
VerifierChallengeAllowsOnce == \A n \in DOMAIN uses : uses[n] <= 1

\* A death the verifier store has not heard of is not obeyed, but not for long:
\* from the end of the presentation window on, no presentation of a dead agent
\* or of a sealed store is accepted (present_capability).
UnheardDeathIsShort ==
    LET issuer == LoadIssuer IN
    \A m \in Presentations : VerifyPresentation(issuer, m) =>
        /\ \A n \in DOMAIN kills : Reaches(kills[n], m.agent) =>
               now < kills[n].at + PresentWindow
        /\ sealLines # {} => now < KillDate + PresentWindow

\* The lists of at most two signatures that may come with a document.
SignatureLists ==
    UNION {[1..k -> [key : OwnKey..Keys, of : {"this", "another"}]] : k \in 0..2}
SignersOf(list, message) == {list[k].key : k \in {n \in DOMAIN list : list[n].of = message}}

\* A raise of verify_threshold_n that was acknowledged is in force from then on,
\* beside the acceptances of another process and through crashes: with a line of
\* its own whatever save came between, without one unless a save landed on a
\* file that had changed.  And then nothing counts that fewer accepted keys
\* signed, however often each of them (set_verify_threshold, save_issuer,
\* require_accepted_artifact_signatures).
RaisedThresholdHolds ==
    LET issuer == LoadIssuer
        keys == AcceptedKeys(issuer)
    IN  \A raise \in acknowledged :
            raise.kind = "threshold" /\ (raise.logged \/ ~overwritten) =>
                \A list \in SignatureLists :
                    Cardinality(SignersOf(list, "this") \intersect keys) < raise.n =>
                        ~ArtifactSigned(issuer, list, "this")
==============================================================================
