------------------------- MODULE VerifierStoreProofs --------------------------
(***************************************************************************)
(* Theorems about VerifierStore and Wraps, for every value of their        *)
(* constants.                                                              *)
(***************************************************************************)
EXTENDS Wraps, FiniteSetTheorems, WellFoundedInduction, TLAPS

------------------------------------------------------------------------------
(* The least and the greatest of a set of numbers.                           *)

LEMMA MinFacts ==
    ASSUME NEW S \in SUBSET Nat, S # {}
    PROVE  Min(S) \in S /\ \A x \in S : Min(S) <= x
  <1>1. PICK least \in S : \A x \in S : ~(<<x, least>> \in OpToRel(<, Nat))
    BY NatLessThanWellFounded, WFMin
  <1>2. ASSUME NEW x \in S PROVE least <= x
    <2>1. <<x, least>> \in Nat \X Nat => ~(x < least)
      BY <1>1 DEF OpToRel
    <2> QED  BY <2>1
  <1> QED  BY <1>2 DEF Min

LEMMA MaxFacts ==
    ASSUME NEW S \in SUBSET Nat, S # {}, NEW bound \in Nat, \A x \in S : x <= bound
    PROVE  Max(S) \in S /\ \A x \in S : x <= Max(S)
  <1> DEFINE T == {bound - x : x \in S}
  <1>1. T \in SUBSET Nat /\ T # {}
    <2>1. \A x \in S : x \in Nat /\ x <= bound
      OBVIOUS
    <2>2. \A x \in S : bound - x \in Nat
      BY <2>1
    <2>3. PICK x : x \in S
      OBVIOUS
    <2>4. bound - x \in T
      BY <2>3
    <2> QED  BY <2>2, <2>4
  <1>2. Min(T) \in T /\ \A y \in T : Min(T) <= y
    BY <1>1, MinFacts
  <1>3. PICK most \in S : Min(T) = bound - most
    BY <1>2
  <1>4. ASSUME NEW x \in S PROVE most >= x
    <2>1. bound - most <= bound - x
      BY <1>2, <1>3
    <2> QED  BY <2>1
  <1> QED  BY <1>4 DEF Max

------------------------------------------------------------------------------
(* The inductive invariant.  What is on its way is as important as what is   *)
(* stored: an acceptance carries what it will acknowledge from its first     *)
(* step to its last, and the line it will append must be the one that keeps  *)
(* that in force (EntryFits).                                                *)

Identifiers == {"instance", "capability"} \X Agents
DatedKeys == UNION {[S -> Nat] : S \in SUBSET Nat}
Issuers == [accepted : SUBSET Nat, kills : SUBSET Identifiers, previous : DatedKeys,
            sealed : DatedKeys, threshold : Nat]

Rotations == [at : Nat, kill : Nat]
KillEvents == [at : Nat, lines : SUBSET SUBSET Identifiers]

PreviousDeaths == [kind : {"previous"}, key : Nat, date : Nat]
KillDeaths == [kind : {"kill"}, names : SUBSET Identifiers]
SealDeaths == [kind : {"seal"}, key : Nat]
Raises == [kind : {"threshold"}, n : Nat \ {0, 1}, logged : BOOLEAN]
Deaths == PreviousDeaths \union KillDeaths \union SealDeaths \union Raises

KeyEntries == [op : {"previous_key_accept", "seal_accept"}, key : Nat, date : Nat]
PinEntries == [op : {"pin"}, key : Nat, date : Nat]
RaiseEntries == [op : {"issuer_verify_threshold"}, n : Nat]
Entries == KeyEntries \union RaiseEntries

Saving == [step : {"compare", "write"}, issuer : Issuers, death : Deaths \union {None},
           entry : Entries \union PinEntries \union {None}, compared : Issuers]
Saved == [step : {"pin", "line"}, death : Deaths, entry : Entries \union PinEntries]
Deciding == [step : {"decide"}, holder : Agents]
Jobs == Saving \union Saved \union Deciding \union {Idle}

VSTypeOK ==
    /\ now \in Nat
    /\ rotated \in Seq(Rotations)
    /\ kills \in Seq(KillEvents)
    /\ sealLines \subseteq [key : Nat, date : Nat, at : Nat]
    /\ file \in Issuers
    /\ lines \subseteq Entries
    /\ job \in [Processes -> Jobs]
    /\ acknowledged \subseteq Deaths
    /\ overwritten \in BOOLEAN

\* There are lines enough to name the greatest logged threshold.
RaisesBounded ==
    \E bound \in Nat : \A line \in lines \intersect RaiseEntries : line.n <= bound

\* The entry that will keep a death in force.
EntryFits(death, entry) ==
    \/ entry = None /\ death \in KillDeaths \union {None}
    \/ death \in SealDeaths /\ entry \in KeyEntries /\ entry.op = "seal_accept"
          /\ entry.key = death.key
    \/ death \in PreviousDeaths /\ entry \in KeyEntries \union PinEntries
          /\ entry.op # "seal_accept" /\ entry.key = death.key /\ entry.date = death.date
    \/ death \in Raises /\ entry \in RaiseEntries /\ entry.n = death.n

JobFits(j) ==
    /\ j \in Saving \union Saved => EntryFits(j.death, j.entry)
    /\ j \in Saving /\ j.death \in KillDeaths => j.death.names \subseteq j.issuer.kills
    /\ j \in Saving /\ j.step = "write" =>
          /\ j.compared.kills \subseteq j.issuer.kills
          /\ j.compared.threshold <= j.issuer.threshold
    /\ j \in Saved => (j.step = "pin" <=> j.entry \in PinEntries)

\* What keeps an acknowledged death in force.
InForce(death) ==
    /\ death \in SealDeaths =>
          \E line \in lines : line.op = "seal_accept" /\ line.key = death.key
    /\ death \in PreviousDeaths =>
          \E line \in lines : /\ line.op = "previous_key_accept"
                              /\ line.key = death.key /\ line.date = death.date
    /\ death \in KillDeaths => overwritten \/ death.names \subseteq file.kills
    /\ death \in Raises =>
          \/ \E line \in lines : line.op = "issuer_verify_threshold" /\ line.n >= death.n
          \/ ~death.logged /\ (overwritten \/ file.threshold >= death.n)

AcceptInv ==
    /\ RaisesBounded
    /\ \A p \in Processes : JobFits(job[p])
    /\ \A death \in acknowledged : InForce(death)

Slots == [issued : Nat, spent : BOOLEAN]

\* A challenge in memory that was not spent was not answered with allow.
ChallengeInv ==
    /\ uses \in Seq(0..1) /\ challenges = Len(uses)
    /\ DOMAIN slots \subseteq DOMAIN uses
    /\ slots \in [DOMAIN slots -> Slots]
    /\ \A n \in DOMAIN slots : ~slots[n].spent => uses[n] = 0

------------------------------------------------------------------------------
(* What load_issuer makes of the file and the lines.                         *)

LEMMA DatedFacts ==
    ASSUME NEW dates \in DatedKeys
    PROVE  DOMAIN dates \in SUBSET Nat /\ \A key \in DOMAIN dates : dates[key] \in Nat
  BY DEF DatedKeys

LEMMA DatedAre ==
    ASSUME NEW S \in SUBSET Nat, NEW dates \in [S -> Nat]
    PROVE  dates \in DatedKeys
  BY DEF DatedKeys

LEMMA NoDates == << >> \in DatedKeys
  <1>1. << >> \in [{} -> Nat]
    <2>1. << >> \in Seq(Nat) /\ Len(<< >>) = 0 /\ DOMAIN << >> = {}
      OBVIOUS
    <2> QED  BY <2>1
  <1> QED  BY <1>1, DatedAre

LEMMA PinnedDates ==
    ASSUME NEW dates \in DatedKeys, NEW key \in Nat, NEW date \in Nat
    PROVE  [k \in DOMAIN dates \union {key} |-> IF k = key THEN date ELSE dates[k]]
               \in DatedKeys
  <1>1. DOMAIN dates \union {key} \in SUBSET Nat
    BY DatedFacts
  <1>2. [k \in DOMAIN dates \union {key} |-> IF k = key THEN date ELSE dates[k]]
            \in [DOMAIN dates \union {key} -> Nat]
    BY DatedFacts
  <1> QED  BY <1>1, <1>2, DatedAre

LEMMA LoggedFacts ==
    ASSUME VSTypeOK, NEW op \in {"previous_key_accept", "seal_accept"}
    PROVE  /\ LoggedKeys(op) \in SUBSET Nat
           /\ \A key : key \in LoggedKeys(op) <=>
                           \E line \in lines : line.op = op /\ line.key = key
           /\ \A key \in LoggedKeys(op) : LoggedDate(op, key) \in Nat
           /\ \A line \in lines : line.op = op => LoggedDate(op, line.key) <= line.date
  <1>1. \A line \in lines : line.op = op => line.key \in Nat /\ line.date \in Nat
    BY DEF VSTypeOK, Entries, KeyEntries, RaiseEntries
  <1>2. \A key : key \in LoggedKeys(op) <=>
                     \E line \in lines : line.op = op /\ line.key = key
    BY DEF LoggedKeys
  <1>3. ASSUME NEW key \in LoggedKeys(op)
        PROVE  /\ LoggedDate(op, key) \in Nat
               /\ \A line \in lines : line.op = op /\ line.key = key =>
                      LoggedDate(op, key) <= line.date
    <2> DEFINE dates == {line.date : line \in {l \in lines : l.op = op /\ l.key = key}}
    <2>1. dates \in SUBSET Nat /\ dates # {}
      BY <1>1, <1>2
    <2>2. Min(dates) \in dates /\ \A x \in dates : Min(dates) <= x
      BY <2>1, MinFacts
    <2> QED  BY <2>1, <2>2 DEF LoggedDate
  <1>4. ASSUME NEW line \in lines, line.op = op
        PROVE  LoggedDate(op, line.key) <= line.date
    <2>1. line.key \in LoggedKeys(op)
      BY <1>2, <1>4
    <2> QED  BY <1>3, <1>4, <2>1
  <1> QED  BY <1>1, <1>2, <1>3, <1>4

LEMMA SignedFacts ==
    ASSUME VSTypeOK, NEW op \in {"previous_key_accept", "seal_accept"},
           NEW dates \in DatedKeys
    PROVE  /\ Signed(dates, op) \in DatedKeys
           /\ DOMAIN Signed(dates, op) = LoggedKeys(op)
           /\ \A line \in lines : line.op = op => Signed(dates, op)[line.key] <= line.date
  <1>1. ASSUME NEW key \in LoggedKeys(op)
        PROVE  DateOf(dates, op, key) \in Nat /\ DateOf(dates, op, key) <= LoggedDate(op, key)
    <2>1. LoggedDate(op, key) \in Nat
      BY LoggedFacts
    <2>2. CASE key \in DOMAIN dates
      <3> DEFINE both == {dates[key], LoggedDate(op, key)}
      <3>1. both \in SUBSET Nat /\ both # {}
        BY <2>1, <2>2, DatedFacts
      <3>2. Min(both) \in both /\ \A x \in both : Min(both) <= x
        BY <3>1, MinFacts
      <3> QED  BY <2>2, <3>1, <3>2 DEF DateOf
    <2>3. CASE key \notin DOMAIN dates
      BY <2>1, <2>3 DEF DateOf
    <2> QED  BY <2>2, <2>3
  <1>2. Signed(dates, op) \in [LoggedKeys(op) -> Nat]
    BY <1>1 DEF Signed
  <1>3. ASSUME NEW line \in lines, line.op = op
        PROVE  Signed(dates, op)[line.key] <= line.date
    <2>1. line.key \in LoggedKeys(op) /\ LoggedDate(op, line.key) <= line.date
      BY <1>3, LoggedFacts
    <2>2. Signed(dates, op)[line.key] = DateOf(dates, op, line.key)
      BY <2>1 DEF Signed
    <2>3. LoggedDate(op, line.key) \in Nat /\ line.date \in Nat
      BY <1>3, <2>1, LoggedFacts DEF VSTypeOK, Entries, KeyEntries, RaiseEntries
    <2> QED  BY <1>1, <2>1, <2>2, <2>3
  <1>4. LoggedKeys(op) \in SUBSET Nat
    BY LoggedFacts
  <1> QED  BY <1>2, <1>3, <1>4, DatedAre

Logs(op, key) == \E line \in lines : line.op = op /\ line.key = key
RaiseLines == {line \in lines : line.op = "issuer_verify_threshold"}

LEMMA ThresholdFacts ==
    ASSUME VSTypeOK, RaisesBounded
    PROVE  /\ LoggedThreshold \in Nat /\ RaisedThreshold \in Nat
           /\ RaisedThreshold >= file.threshold /\ RaisedThreshold >= LoggedThreshold
           /\ Max({file.threshold, LoggedThreshold}) = RaisedThreshold
           /\ \A line \in RaiseLines : RaisedThreshold >= line.n
           /\ \/ RaisedThreshold <= 1 \/ RaisedThreshold = file.threshold
              \/ \E line \in RaiseLines : RaisedThreshold = line.n
  <1> DEFINE logged == {1} \union {line.n : line \in RaiseLines}
             both == {file.threshold, LoggedThreshold}
  <1>1. RaiseLines = lines \intersect RaiseEntries
    BY DEF VSTypeOK, RaiseLines, Entries, KeyEntries, RaiseEntries
  <1>2. \A line \in RaiseLines : line.n \in Nat
    BY <1>1 DEF RaiseEntries
  <1>3. PICK bound \in Nat : \A line \in RaiseLines : line.n <= bound
    BY <1>1 DEF RaisesBounded
  <1>4. logged \in SUBSET Nat /\ logged # {} /\ \A x \in logged : x <= bound + 1
    BY <1>2, <1>3
  <1>5. Max(logged) \in logged /\ \A x \in logged : x <= Max(logged)
    <2> HIDE DEF logged
    <2>1. bound + 1 \in Nat
      OBVIOUS
    <2> QED  BY <1>4, <2>1, MaxFacts
  <1>6. LoggedThreshold = Max(logged)
    BY DEF LoggedThreshold, RaiseLines
  <1>7. file.threshold \in Nat
    BY DEF VSTypeOK, Issuers
  <1>8. both \in SUBSET Nat /\ both # {} /\ \A x \in both : x <= file.threshold + LoggedThreshold
    BY <1>4, <1>5, <1>6, <1>7
  <1>9. Max(both) \in both /\ \A x \in both : x <= Max(both)
    <2>1. file.threshold + LoggedThreshold \in Nat
      BY <1>8
    <2> HIDE DEF both
    <2> QED  BY <1>8, <2>1, MaxFacts
  <1>10. LoggedThreshold \in Nat /\ \A line \in RaiseLines : line.n <= LoggedThreshold
    BY <1>2, <1>4, <1>5, <1>6
  <1>11. LoggedThreshold = 1 \/ \E line \in RaiseLines : LoggedThreshold = line.n
    BY <1>5, <1>6
  <1>12. RaisedThreshold = Max(both)
    BY DEF RaisedThreshold
  <1>13. /\ RaisedThreshold = file.threshold \/ RaisedThreshold = LoggedThreshold
         /\ file.threshold <= RaisedThreshold /\ LoggedThreshold <= RaisedThreshold
    BY <1>9, <1>12
  <1>14. RaisedThreshold \in Nat
    BY <1>7, <1>10, <1>13
  <1>15. \A line \in RaiseLines : line.n <= RaisedThreshold
    <2> TAKE line \in RaiseLines
    <2>1. line.n <= LoggedThreshold /\ line.n \in Nat
      BY <1>2, <1>10
    <2> QED  BY <2>1, <1>10, <1>13, <1>14
  <1>16. \/ RaisedThreshold <= 1 \/ RaisedThreshold = file.threshold
         \/ \E line \in RaiseLines : RaisedThreshold = line.n
    BY <1>11, <1>13
  <1>17. Max({file.threshold, LoggedThreshold}) = RaisedThreshold
    BY <1>12
  <1> HIDE DEF logged, both
  <1> QED  BY <1>2, <1>7, <1>10, <1>13, <1>14, <1>15, <1>16, <1>17

LEMMA LoadFacts ==
    ASSUME VSTypeOK, RaisesBounded
    PROVE  /\ LoadIssuer \in Issuers
           /\ LoadIssuer.accepted = file.accepted /\ LoadIssuer.kills = file.kills
           /\ LoadIssuer.previous = Signed(file.previous, "previous_key_accept")
           /\ LoadIssuer.sealed = Signed(file.sealed, "seal_accept")
           /\ LoadIssuer.threshold = RaisedThreshold
           /\ \A key : key \in DOMAIN LoadIssuer.previous <=> Logs("previous_key_accept", key)
           /\ \A key : key \in DOMAIN LoadIssuer.sealed <=> Logs("seal_accept", key)
           /\ \A line \in lines : line.op = "previous_key_accept" =>
                  LoadIssuer.previous[line.key] <= line.date
  <1>1. file \in Issuers /\ file.previous \in DatedKeys /\ file.sealed \in DatedKeys
    BY DEF VSTypeOK, Issuers
  <1>2. /\ Signed(file.previous, "previous_key_accept") \in DatedKeys
        /\ Signed(file.sealed, "seal_accept") \in DatedKeys
    BY <1>1, SignedFacts
  <1>3. RaisedThreshold \in Nat
    BY ThresholdFacts
  <1>4. /\ LoadIssuer \in Issuers
        /\ LoadIssuer.accepted = file.accepted /\ LoadIssuer.kills = file.kills
        /\ LoadIssuer.previous = Signed(file.previous, "previous_key_accept")
        /\ LoadIssuer.sealed = Signed(file.sealed, "seal_accept")
        /\ LoadIssuer.threshold = RaisedThreshold
    BY <1>1, <1>2, <1>3 DEF LoadIssuer, Issuers
  <1> QED  BY <1>1, <1>4, SignedFacts, LoggedFacts DEF Logs

------------------------------------------------------------------------------
(* What is on its way.                                                       *)

LEMMA NoEntry == None \notin Entries \union PinEntries /\ None \notin Deaths
  BY DEF None, Entries, KeyEntries, RaiseEntries, PinEntries, Deaths, PreviousDeaths,
     KillDeaths, SealDeaths, Raises

LEMMA EntryOps ==
    /\ \A entry \in Entries : entry.op # "pin"
    /\ \A entry \in PinEntries : entry.op = "pin" /\ entry \notin Entries
  BY DEF Entries, KeyEntries, RaiseEntries, PinEntries

LEMMA JobSteps ==
    ASSUME NEW j \in Jobs
    PROVE  /\ j.step \in {"compare", "write"} => j \in Saving
           /\ j.step \in {"pin", "line"} => j \in Saved
           /\ j \in Saving => j.step \in {"compare", "write"}
           /\ j \in Saved => j.step \in {"pin", "line"}
           /\ j \in Deciding => j.step = "decide"
           /\ j = Idle => j.step = "idle"
  BY DEF Jobs, Saving, Saved, Deciding, Idle

LEMMA SavingFields ==
    ASSUME NEW j \in Saving
    PROVE  /\ j.issuer \in Issuers /\ j.compared \in Issuers
           /\ j.death \in Deaths \union {None}
           /\ j.entry \in Entries \union PinEntries \union {None}
  BY DEF Saving

LEMMA SavedFields ==
    ASSUME NEW j \in Saved
    PROVE  j.death \in Deaths /\ j.entry \in Entries \union PinEntries
  BY DEF Saved

LEMMA IdleFits == Idle \in Jobs /\ JobFits(Idle)
  <1>1. Idle \in Jobs
    BY DEF Jobs
  <1>2. Idle \notin Saving \union Saved
    BY <1>1, JobSteps DEF Idle
  <1> QED  BY <1>1, <1>2 DEF JobFits

LEMMA DecidingFits ==
    ASSUME NEW j \in Deciding
    PROVE  j \in Jobs /\ JobFits(j)
  <1>1. j \in Jobs
    BY DEF Jobs
  <1>2. j \notin Saving \union Saved
    BY <1>1, JobSteps
  <1> QED  BY <1>1, <1>2 DEF JobFits

LEMMA SavingFits ==
    ASSUME NEW issuer \in Issuers, NEW compared \in Issuers, NEW step \in {"compare", "write"},
           NEW death \in Deaths \union {None},
           NEW entry \in Entries \union PinEntries \union {None},
           EntryFits(death, entry),
           death \in KillDeaths => death.names \subseteq issuer.kills,
           step = "write" => /\ compared.kills \subseteq issuer.kills
                             /\ compared.threshold <= issuer.threshold
    PROVE  LET j == [step |-> step, issuer |-> issuer, death |-> death, entry |-> entry,
                     compared |-> compared]
           IN  j \in Jobs /\ JobFits(j)
  <1> DEFINE j == [step |-> step, issuer |-> issuer, death |-> death, entry |-> entry,
                   compared |-> compared]
  <1>1. j \in Saving
    BY DEF Saving
  <1>2. j \in Jobs /\ j \notin Saved
    <2>1. j \in Jobs
      BY <1>1 DEF Jobs
    <2> QED  BY <2>1, JobSteps
  <1>3. j.issuer = issuer /\ j.compared = compared /\ j.death = death /\ j.entry = entry
        /\ j.step = step
    OBVIOUS
  <1> HIDE DEF j
  <1>4. JobFits(j)
    BY <1>1, <1>2, <1>3 DEF JobFits
  <1>5. j \in Jobs /\ JobFits(j)
    BY <1>2, <1>4
  <1> QED  BY <1>5 DEF j

LEMMA SavedFits ==
    ASSUME NEW death \in Deaths, NEW entry \in Entries \union PinEntries,
           NEW step \in {"pin", "line"}, step = "pin" <=> entry \in PinEntries,
           EntryFits(death, entry)
    PROVE  LET j == [step |-> step, death |-> death, entry |-> entry]
           IN  j \in Jobs /\ JobFits(j)
  <1> DEFINE j == [step |-> step, death |-> death, entry |-> entry]
  <1>1. j \in Saved
    BY DEF Saved
  <1>2. j \in Jobs /\ j \notin Saving
    <2>1. j \in Jobs
      BY <1>1 DEF Jobs
    <2> QED  BY <2>1, JobSteps
  <1>3. j.death = death /\ j.entry = entry /\ j.step = step
    OBVIOUS
  <1> HIDE DEF j
  <1>4. JobFits(j)
    BY <1>1, <1>2, <1>3 DEF JobFits
  <1>5. j \in Jobs /\ JobFits(j)
    BY <1>2, <1>4
  <1> QED  BY <1>5 DEF j

LEMMA GotoFacts ==
    ASSUME job \in [Processes -> Jobs], \A p \in Processes : JobFits(job[p]),
           NEW p \in Processes, NEW next \in Jobs, JobFits(next), Goto(p, next)
    PROVE  job' \in [Processes -> Jobs] /\ \A q \in Processes : JobFits(job'[q])
  BY DEF Goto

AcceptVars == <<rotated, kills, sealLines, file, lines, acknowledged, overwritten>>

\* A step that only turns one process to something that fits.
LEMMA OnlyAJob ==
    ASSUME VSTypeOK, AcceptInv, NEW p \in Processes, NEW next \in Jobs, JobFits(next),
           Goto(p, next), UNCHANGED <<now, AcceptVars>>
    PROVE  VSTypeOK' /\ AcceptInv'
  <1>1. job \in [Processes -> Jobs] /\ \A q \in Processes : JobFits(job[q])
    BY DEF VSTypeOK, AcceptInv
  <1>2. job' \in [Processes -> Jobs] /\ \A q \in Processes : JobFits(job'[q])
    BY <1>1, GotoFacts
  <1>3. VSTypeOK'
    BY <1>2 DEF VSTypeOK, AcceptVars
  <1>4. RaisesBounded'
    BY DEF AcceptInv, RaisesBounded, AcceptVars
  <1>5. \A death \in acknowledged' : InForce(death)'
    BY DEF AcceptInv, InForce, AcceptVars
  <1> QED  BY <1>2, <1>3, <1>4, <1>5 DEF AcceptInv

\* A step of the issuing store, of the clock or of the challenges.
LEMMA NothingAccepted ==
    ASSUME VSTypeOK, AcceptInv, UNCHANGED <<file, lines, job, acknowledged, overwritten>>
    PROVE  AcceptInv'
  <1>1. RaisesBounded'
    BY DEF AcceptInv, RaisesBounded
  <1>2. \A death \in acknowledged' : InForce(death)'
    BY DEF AcceptInv, InForce
  <1>3. \A q \in Processes : JobFits(job'[q])
    BY DEF AcceptInv
  <1> QED  BY <1>1, <1>2, <1>3 DEF AcceptInv

------------------------------------------------------------------------------
(* The steps.                                                                *)

LEMMA AcceptInit == VSInit => VSTypeOK /\ AcceptInv
  <1> SUFFICES ASSUME VSInit PROVE VSTypeOK /\ AcceptInv
    OBVIOUS
  <1>1. file \in Issuers
    BY NoDates DEF VSInit, Issuers
  <1>2. job \in [Processes -> Jobs] /\ \A p \in Processes : JobFits(job[p])
    BY IdleFits DEF VSInit
  <1>3. VSTypeOK
    <2>1. /\ <<>> \in Seq(Rotations)
          /\ <<>> \in Seq(KillEvents)
      OBVIOUS
    <2>2. /\ now \in Nat /\ rotated = <<>> /\ kills = <<>> /\ sealLines = {}
          /\ lines = {} /\ acknowledged = {} /\ overwritten = FALSE
      BY DEF VSInit
    <2> QED  BY <1>1, <1>2, <2>1, <2>2 DEF VSTypeOK
  <1>4. RaisesBounded
    BY DEF VSInit, RaisesBounded
  <1> QED  BY <1>2, <1>3, <1>4 DEF VSInit, AcceptInv

LEMMA TreeNames ==
    ASSUME NEW a \in Agents
    PROVE  Descendants(a) \subseteq Agents
  BY DEF Descendants

LEMMA IssuingSteps ==
    ASSUME VSTypeOK, AcceptInv, IssuingNext
    PROVE  VSTypeOK' /\ AcceptInv'
  <1>1. /\ UNCHANGED <<now, file, lines, job, acknowledged, overwritten>>
        /\ rotated' \in Seq(Rotations)
        /\ kills' \in Seq(KillEvents)
        /\ sealLines' \subseteq [key : Nat, date : Nat, at : Nat]
    <2>1. ASSUME NEW a \in Agents, KillInstance(a) PROVE <1>1!:
      <3> DEFINE killed == {Instance(b) : b \in Descendants(a)}
                 derived == {Capability(b) : b \in Descendants(a)}
                 named == {killed \union derived} \union
                             {{id} : id \in (killed \ {Instance(a)}) \union derived}
      <3>1. killed \subseteq Identifiers /\ derived \subseteq Identifiers
        BY TreeNames DEF Identifiers, Instance, Capability
      <3>2. named \subseteq SUBSET Identifiers
        BY <3>1
      <3>3. kills' = Append(kills, [at |-> now, lines |-> named])
        BY <2>1 DEF KillInstance
      <3> HIDE DEF named
      <3>4. kills' \in Seq(KillEvents)
        <4>1. [at |-> now, lines |-> named] \in KillEvents
          BY <3>2 DEF VSTypeOK, KillEvents
        <4> QED  BY <3>3, <4>1 DEF VSTypeOK
      <3> QED  BY <2>1, <3>4 DEF KillInstance, VSTypeOK, stored, history
    <2>2. ASSUME NEW a \in Agents, KillCapability(a) PROVE <1>1!:
      <3> DEFINE named == {{Capability(b) : b \in Descendants(a)}}
      <3>1. named \subseteq SUBSET Identifiers
        BY TreeNames DEF Identifiers, Capability
      <3>2. kills' = Append(kills, [at |-> now, lines |-> named])
        BY <2>2 DEF KillCapability
      <3> HIDE DEF named
      <3>3. kills' \in Seq(KillEvents)
        <4>1. [at |-> now, lines |-> named] \in KillEvents
          BY <3>1 DEF VSTypeOK, KillEvents
        <4> QED  BY <3>2, <4>1 DEF VSTypeOK
      <3> QED  BY <2>2, <3>3 DEF KillCapability, VSTypeOK, stored, history
    <2>3. ASSUME NEW after \in Delays, Rotate(after) PROVE <1>1!:
      <3>1. [at |-> now, kill |-> now + after] \in Rotations
        BY VerifierStoreAssumption DEF VSTypeOK, Rotations
      <3> QED  BY <2>3, <3>1 DEF Rotate, VSTypeOK, stored, history
    <2>4. ASSUME NEW after \in Delays, Seal(after) PROVE <1>1!:
      <3>1. now + after \in Nat /\ CurrentKey \in Nat
        BY VerifierStoreAssumption DEF VSTypeOK, CurrentKey
      <3> QED  BY <2>4, <3>1 DEF Seal, VSTypeOK, stored, history
    <2> QED  BY <2>1, <2>2, <2>3, <2>4 DEF IssuingNext
  <1>2. VSTypeOK'
    BY <1>1 DEF VSTypeOK
  <1> QED  BY <1>1, <1>2, NothingAccepted

\* The first step of an acceptance.
LEMMA Begins ==
    ASSUME VSTypeOK, AcceptInv, NEW p \in Processes, NEW issuer \in Issuers,
           NEW death \in Deaths \union {None},
           NEW entry \in Entries \union PinEntries \union {None},
           EntryFits(death, entry),
           death \in KillDeaths => death.names \subseteq issuer.kills,
           Goto(p, Accept("compare", issuer, death, entry)),
           UNCHANGED <<now, AcceptVars>>
    PROVE  VSTypeOK' /\ AcceptInv'
  <1> DEFINE next == Accept("compare", issuer, death, entry)
  <1>1. next \in Jobs /\ JobFits(next)
    BY SavingFits DEF Accept, VSTypeOK
  <1>2. Goto(p, next)
    OBVIOUS
  <1> HIDE DEF next
  <1> QED  BY <1>1, <1>2, OnlyAJob

LEMMA AcceptIssuerStep ==
    ASSUME VSTypeOK, AcceptInv, NEW p \in Processes, NEW key \in 1..CurrentKey,
           BeginAcceptIssuer(p, key)
    PROVE  VSTypeOK' /\ AcceptInv'
  <1> DEFINE issuer == [LoadIssuer EXCEPT !.accepted = @ \union {key}]
  <1>1. LoadIssuer \in Issuers /\ key \in Nat
    BY LoadFacts DEF AcceptInv, VSTypeOK, CurrentKey
  <1>2. issuer \in Issuers
    BY <1>1 DEF Issuers
  <1>3. EntryFits(None, None) /\ None \notin KillDeaths
    BY NoEntry DEF EntryFits, Deaths
  <1>4. /\ Goto(p, Accept("compare", issuer, None, None))
        /\ UNCHANGED <<now, AcceptVars>>
    BY DEF BeginAcceptIssuer, Begin, AcceptVars, issuing, stored, history
  <1> HIDE DEF issuer
  <1> QED  BY <1>2, <1>3, <1>4, Begins

LEMMA AcceptPreviousStep ==
    ASSUME VSTypeOK, AcceptInv, NEW p \in Processes, NEW key \in DOMAIN rotated,
           BeginAcceptPrevious(p, key)
    PROVE  VSTypeOK' /\ AcceptInv'
  <1> DEFINE issuer == [LoadIssuer EXCEPT !.accepted = @ \union {key}]
             death == [kind |-> "previous", key |-> key, date |-> rotated[key].kill]
             entry == [op |-> "pin", key |-> key, date |-> rotated[key].kill]
  <1>1. LoadIssuer \in Issuers /\ key \in Nat /\ rotated[key].kill \in Nat
    <2>1. LoadIssuer \in Issuers
      BY LoadFacts DEF AcceptInv
    <2>2. rotated \in Seq(Rotations)
      BY DEF VSTypeOK
    <2>3. key \in Nat /\ rotated[key] \in Rotations
      BY <2>2
    <2> QED  BY <2>1, <2>3 DEF Rotations
  <1>2. issuer \in Issuers
    BY <1>1 DEF Issuers
  <1>3. death \in PreviousDeaths /\ entry \in PinEntries
    BY <1>1 DEF PreviousDeaths, PinEntries
  <1>4. EntryFits(death, entry) /\ death \notin KillDeaths /\ death \in Deaths
    BY <1>3 DEF EntryFits, KillDeaths, Deaths
  <1>5. /\ Goto(p, Accept("compare", issuer, death, entry))
        /\ UNCHANGED <<now, AcceptVars>>
    BY DEF BeginAcceptPrevious, Begin, AcceptVars, issuing, stored, history
  <1> HIDE DEF issuer, death, entry
  <1> QED  BY <1>2, <1>3, <1>4, <1>5, Begins

LEMMA PinStep ==
    ASSUME VSTypeOK, AcceptInv, NEW p \in Processes, PinPrevious(p)
    PROVE  VSTypeOK' /\ AcceptInv'
  <1> DEFINE key == job[p].entry.key
             date == job[p].entry.date
             death == job[p].death
             entry == [job[p].entry EXCEPT !.op = "previous_key_accept"]
             issuer == [LoadIssuer EXCEPT !.previous = [k \in DOMAIN @ \union {key} |->
                           IF k = key THEN date ELSE @[k]]]
  <1>1. job[p] \in Saved /\ job[p].entry \in PinEntries
    <2>1. job[p] \in Jobs /\ JobFits(job[p]) /\ job[p].step = "pin"
      BY DEF VSTypeOK, AcceptInv, PinPrevious, At
    <2> QED  BY <2>1, JobSteps DEF JobFits
  <1>2. death \in PreviousDeaths /\ death.key = key /\ death.date = date
    <2>1. EntryFits(death, job[p].entry)
      BY <1>1 DEF AcceptInv, JobFits
    <2> QED  BY <1>1, <2>1, NoEntry, EntryOps DEF EntryFits, Entries
  <1>3. key \in Nat /\ date \in Nat
    BY <1>1 DEF PinEntries
  <1>4. issuer \in Issuers
    <2>1. LoadIssuer \in Issuers /\ LoadIssuer.previous \in DatedKeys
      BY LoadFacts DEF AcceptInv, Issuers
    <2>2. [k \in DOMAIN LoadIssuer.previous \union {key} |->
              IF k = key THEN date ELSE LoadIssuer.previous[k]] \in DatedKeys
      BY <1>3, <2>1, PinnedDates
    <2> QED  BY <2>1, <2>2 DEF Issuers
  <1>5. entry \in KeyEntries /\ entry.op = "previous_key_accept"
        /\ entry.key = key /\ entry.date = date
    BY <1>1, <1>3 DEF PinEntries, KeyEntries
  <1>6. EntryFits(death, entry) /\ death \notin KillDeaths /\ death \in Deaths
    BY <1>2, <1>5 DEF EntryFits, PreviousDeaths, KillDeaths, Deaths
  <1>7. UNCHANGED <<now, AcceptVars>>
    BY DEF PinPrevious, AcceptVars, issuing, stored, history
  <1>8. Goto(p, Idle) \/ Goto(p, Accept("compare", issuer, death, entry))
    BY DEF PinPrevious
  <1>9. CASE Goto(p, Idle)
    BY <1>7, <1>9, IdleFits, OnlyAJob
  <1>10. CASE Goto(p, Accept("compare", issuer, death, entry))
    <2>1. entry \in Entries
      BY <1>5 DEF Entries
    <2> HIDE DEF issuer, death, entry
    <2> QED  BY <1>4, <1>6, <1>7, <1>10, <2>1, Begins
  <1> QED  BY <1>8, <1>9, <1>10

LEMMA AcceptKillStep ==
    ASSUME VSTypeOK, AcceptInv, NEW p \in Processes, NEW bundle \in KillBundles,
           BeginAcceptKill(p, bundle)
    PROVE  VSTypeOK' /\ AcceptInv'
  <1> DEFINE issuer == [LoadIssuer EXCEPT !.kills = @ \union bundle.names]
             death == [kind |-> "kill", names |-> bundle.names]
  <1>1. bundle.names \in SUBSET Identifiers
    <2>1. PICK n \in DOMAIN kills : bundle.names \in kills[n].lines
      BY DEF KillBundles
    <2>2. kills[n].lines \in SUBSET SUBSET Identifiers
      <3>1. kills \in Seq(KillEvents)
        BY DEF VSTypeOK
      <3>2. kills[n] \in KillEvents
        BY <3>1
      <3> QED  BY <3>2 DEF KillEvents
    <2> QED  BY <2>1, <2>2
  <1>2. LoadIssuer \in Issuers
    BY LoadFacts DEF AcceptInv
  <1>3. issuer \in Issuers /\ bundle.names \subseteq issuer.kills
    BY <1>1, <1>2 DEF Issuers
  <1>4. death \in KillDeaths /\ death.names = bundle.names
    BY <1>1 DEF KillDeaths
  <1>5. EntryFits(death, None) /\ death \in Deaths
    BY <1>4 DEF EntryFits, Deaths
  <1>6. /\ Goto(p, Accept("compare", issuer, death, None))
        /\ UNCHANGED <<now, AcceptVars>>
    BY DEF BeginAcceptKill, Begin, AcceptVars, issuing, stored, history
  <1> HIDE DEF issuer, death
  <1> QED  BY <1>3, <1>4, <1>5, <1>6, Begins

LEMMA AcceptSealStep ==
    ASSUME VSTypeOK, AcceptInv, NEW p \in Processes, NEW bundle \in SealBundles,
           BeginAcceptSeal(p, bundle)
    PROVE  VSTypeOK' /\ AcceptInv'
  <1> DEFINE key == bundle.key
             issuer == [LoadIssuer EXCEPT !.sealed = [k \in DOMAIN @ \union {key} |->
                           IF k = key THEN bundle.date ELSE @[k]]]
             death == [kind |-> "seal", key |-> key]
             entry == [op |-> "seal_accept", key |-> key, date |-> bundle.date]
  <1>1. key \in Nat /\ bundle.date \in Nat
    <2>1. PICK line \in sealLines : bundle.key = line.key /\ bundle.date = line.date
      BY DEF SealBundles
    <2> QED  BY <2>1 DEF VSTypeOK
  <1>2. issuer \in Issuers
    <2>1. LoadIssuer \in Issuers /\ LoadIssuer.sealed \in DatedKeys
      BY LoadFacts DEF AcceptInv, Issuers
    <2>2. [k \in DOMAIN LoadIssuer.sealed \union {key} |->
              IF k = key THEN bundle.date ELSE LoadIssuer.sealed[k]] \in DatedKeys
      BY <1>1, <2>1, PinnedDates
    <2> QED  BY <2>1, <2>2 DEF Issuers
  <1>3. death \in SealDeaths /\ entry \in KeyEntries
    BY <1>1 DEF SealDeaths, KeyEntries
  <1>4. EntryFits(death, entry) /\ death \notin KillDeaths /\ death \in Deaths
        /\ entry \in Entries
    BY <1>3 DEF EntryFits, KillDeaths, Deaths, Entries
  <1>5. /\ Goto(p, Accept("compare", issuer, death, entry))
        /\ UNCHANGED <<now, AcceptVars>>
    BY DEF BeginAcceptSeal, Begin, AcceptVars, issuing, stored, history
  <1> HIDE DEF issuer, death, entry
  <1> QED  BY <1>2, <1>4, <1>5, Begins

LEMMA RaiseStep ==
    ASSUME VSTypeOK, AcceptInv, NEW p \in Processes, NEW n \in VerifyThresholds,
           BeginRaiseThreshold(p, n)
    PROVE  VSTypeOK' /\ AcceptInv'
  <1> DEFINE issuer == [LoadIssuer EXCEPT !.threshold = n]
             death == [kind |-> "threshold", n |-> n, logged |-> TRUE]
             entry == [op |-> "issuer_verify_threshold", n |-> n]
  <1>1. LoadIssuer \in Issuers /\ n \in Nat \ {0, 1}
    BY LoadFacts, VerifierStoreAssumption DEF AcceptInv
  <1>2. issuer \in Issuers
    BY <1>1 DEF Issuers
  <1>3. death \in Raises /\ entry \in RaiseEntries
    BY <1>1 DEF Raises, RaiseEntries
  <1>4. EntryFits(death, entry) /\ death \notin KillDeaths /\ death \in Deaths
        /\ entry \in Entries
    BY <1>3 DEF EntryFits, KillDeaths, Deaths, Entries
  <1>5. /\ Goto(p, Accept("compare", issuer, death, entry))
        /\ UNCHANGED <<now, AcceptVars>>
    BY DEF BeginRaiseThreshold, Begin, AcceptVars, issuing, stored, history
  <1> HIDE DEF issuer, death, entry
  <1> QED  BY <1>2, <1>4, <1>5, Begins

LEMMA CompareStep ==
    ASSUME VSTypeOK, AcceptInv, NEW p \in Processes, CompareIssuer(p)
    PROVE  VSTypeOK' /\ AcceptInv'
  <1> DEFINE j == job[p]
             next == [step |-> "write", issuer |-> j.issuer, death |-> j.death,
                      entry |-> j.entry, compared |-> file]
  <1>1. j \in Saving /\ JobFits(j)
    BY JobSteps DEF VSTypeOK, AcceptInv, CompareIssuer, At
  <1>2. UNCHANGED <<now, AcceptVars>>
    BY DEF CompareIssuer, AcceptVars, issuing, stored, history
  <1>3. CASE MaySaveIssuer(j.issuer)
    <2>1. /\ file.kills \subseteq j.issuer.kills
          /\ file.threshold <= j.issuer.threshold
      <3>1. j.issuer \in Issuers /\ j.issuer.threshold \in Nat /\ file.threshold \in Nat
        BY <1>1, SavingFields DEF VSTypeOK, Issuers
      <3>2. j.issuer.threshold >= RaisedThreshold /\ RaisedThreshold >= file.threshold
            /\ RaisedThreshold \in Nat
        BY <1>3, ThresholdFacts DEF MaySaveIssuer, AcceptInv
      <3> QED  BY <1>3, <3>1, <3>2 DEF MaySaveIssuer
    <2>2. /\ j.issuer \in Issuers /\ j.death \in Deaths \union {None}
          /\ j.entry \in Entries \union PinEntries \union {None}
          /\ EntryFits(j.death, j.entry)
          /\ j.death \in KillDeaths => j.death.names \subseteq j.issuer.kills
      BY <1>1, SavingFields DEF JobFits
    <2>3. file \in Issuers
      BY DEF VSTypeOK
    <2>4. next \in Jobs /\ JobFits(next)
      BY <2>1, <2>2, <2>3, SavingFits
    <2>5. [j EXCEPT !.step = "write", !.compared = file] = next
      <3> HIDE DEF j
      <3>1. j = [step |-> j.step, issuer |-> j.issuer, death |-> j.death,
                 entry |-> j.entry, compared |-> j.compared]
        BY <1>1 DEF Saving
      <3> DEFINE writing == [j EXCEPT !.step = "write"]
      <3>2. writing = [step |-> "write", issuer |-> j.issuer, death |-> j.death,
                       entry |-> j.entry, compared |-> j.compared]
        BY <3>1
      <3>3. [writing EXCEPT !.compared = file] = next
        <4> HIDE DEF writing
        <4> QED  BY <3>2
      <3> QED  BY <3>3
    <2>6. Goto(p, next)
      BY <1>3, <2>5 DEF CompareIssuer
    <2> HIDE DEF next
    <2> QED  BY <1>2, <2>4, <2>6, OnlyAJob
  <1>4. CASE ~MaySaveIssuer(j.issuer)
    <2>1. Goto(p, Idle)
      BY <1>4 DEF CompareIssuer
    <2> QED  BY <1>2, <2>1, IdleFits, OnlyAJob
  <1> QED  BY <1>3, <1>4

\* The write keeps what the comparison promised, unless the file has changed since.
LEMMA WriteStep ==
    ASSUME VSTypeOK, AcceptInv, NEW p \in Processes, WriteIssuer(p)
    PROVE  VSTypeOK' /\ AcceptInv'
  <1> DEFINE j == job[p]
  <1>1. /\ j \in Saving /\ j \in Jobs /\ JobFits(j) /\ j.step = "write"
        /\ j.issuer \in Issuers /\ j.death \in Deaths \union {None}
        /\ j.entry \in Entries \union PinEntries \union {None}
        /\ EntryFits(j.death, j.entry)
        /\ j.death \in KillDeaths => j.death.names \subseteq j.issuer.kills
        /\ j.compared.kills \subseteq j.issuer.kills
        /\ j.compared.threshold <= j.issuer.threshold
        /\ j.compared.threshold \in Nat /\ j.issuer.threshold \in Nat
    <2>1. j \in Jobs /\ JobFits(j) /\ j.step = "write"
      BY DEF VSTypeOK, AcceptInv, WriteIssuer, At
    <2>2. j \in Saving
      BY <2>1, JobSteps
    <2>3. j.issuer \in Issuers /\ j.compared \in Issuers
      BY <2>2, SavingFields
    <2>4. j.compared.threshold \in Nat /\ j.issuer.threshold \in Nat
      BY <2>3 DEF Issuers
    <2> HIDE DEF j
    <2> QED  BY <2>1, <2>2, <2>3, <2>4, SavingFields DEF JobFits
  <1>2. /\ file' = j.issuer /\ overwritten' = (overwritten \/ file # j.compared)
        /\ UNCHANGED <<now, rotated, kills, sealLines, lines>>
    BY DEF WriteIssuer, issuing
  <1>3. ASSUME NEW death \in Deaths, InForce(death)
        PROVE  InForce(death)'
    <2>1. death \in KillDeaths => overwritten' \/ death.names \subseteq file'.kills
      BY <1>1, <1>2, <1>3 DEF InForce
    <2>2. death \in Raises =>
              \/ \E line \in lines' : line.op = "issuer_verify_threshold" /\ line.n >= death.n
              \/ ~death.logged /\ (overwritten' \/ file'.threshold >= death.n)
      <3>1. file.threshold \in Nat /\ (death \in Raises => death.n \in Nat)
        BY DEF VSTypeOK, Issuers, Raises
      <3>2. overwritten' \/ file'.threshold >= file.threshold
        BY <1>1, <1>2
      <3>3. file'.threshold \in Nat
        BY <1>1, <1>2
      <3>4. (overwritten => overwritten') /\ lines' = lines
        BY <1>2
      <3>5. death \in Raises /\ ~overwritten' /\ file.threshold >= death.n =>
                file'.threshold >= death.n
        BY <3>1, <3>2, <3>3
      <3>6. death \in Raises =>
                \/ \E line \in lines : line.op = "issuer_verify_threshold" /\ line.n >= death.n
                \/ ~death.logged /\ (overwritten \/ file.threshold >= death.n)
        BY <1>3 DEF InForce
      <3> QED  BY <3>4, <3>5, <3>6, Zenon
    <2>3. /\ death \in SealDeaths =>
                \E line \in lines' : line.op = "seal_accept" /\ line.key = death.key
          /\ death \in PreviousDeaths =>
                \E line \in lines' : /\ line.op = "previous_key_accept"
                                     /\ line.key = death.key /\ line.date = death.date
      BY <1>2, <1>3 DEF InForce
    <2> QED  BY <2>1, <2>2, <2>3 DEF InForce
  <1>4. ASSUME NEW next \in Jobs, JobFits(next), Goto(p, next),
               acknowledged' \subseteq Deaths,
               \A death \in acknowledged' : death \in acknowledged \/ InForce(death)'
        PROVE  VSTypeOK' /\ AcceptInv'
    <2>1. job' \in [Processes -> Jobs] /\ \A q \in Processes : JobFits(job'[q])
      BY <1>4, GotoFacts DEF VSTypeOK, AcceptInv
    <2>2. overwritten' \in BOOLEAN /\ file' \in Issuers
      BY <1>1, <1>2 DEF VSTypeOK
    <2>3. \A death \in acknowledged' : InForce(death)'
      BY <1>3, <1>4 DEF VSTypeOK, AcceptInv
    <2>4. RaisesBounded'
      BY <1>2 DEF AcceptInv, RaisesBounded
    <2>5. VSTypeOK'
      BY <1>2, <1>4, <2>1, <2>2 DEF VSTypeOK
    <2> QED  BY <2>1, <2>3, <2>4, <2>5 DEF AcceptInv
  <1>5. CASE j.entry = None
    <2>1. Goto(p, Idle) /\ Acknowledge(j.death)
      BY <1>5 DEF WriteIssuer
    <2>2. j.death \in KillDeaths \union {None}
      BY <1>1, <1>5, NoEntry DEF EntryFits, Entries
    <2>3. acknowledged \subseteq Deaths
      BY DEF VSTypeOK
    <2>4. CASE j.death = None
      <3>1. acknowledged' = acknowledged
        BY <2>1, <2>4 DEF Acknowledge
      <3> QED  BY <1>4, <2>1, <2>3, <3>1, IdleFits
    <2>5. CASE j.death \in KillDeaths
      <3>1. PICK kill \in KillDeaths : kill = j.death
        BY <2>5
      <3>2. kill \in Deaths /\ kill # None
        BY NoEntry DEF Deaths
      <3>3. InForce(kill)'
        <4>1. kill \notin SealDeaths \union PreviousDeaths \union Raises
          BY DEF KillDeaths, SealDeaths, PreviousDeaths, Raises
        <4>2. kill.names \subseteq file'.kills
          BY <1>1, <1>2, <3>1
        <4> QED  BY <4>1, <4>2 DEF InForce
      <3>4. acknowledged' = acknowledged \union {kill}
        BY <2>1, <3>1, <3>2 DEF Acknowledge
      <3> QED  BY <1>4, <2>1, <2>3, <3>2, <3>3, <3>4, IdleFits
    <2> QED  BY <2>2, <2>4, <2>5
  <1>6. CASE j.entry # None
    <2> DEFINE step == IF j.entry.op = "pin" THEN "pin" ELSE "line"
    <2>1. /\ Goto(p, [step |-> step, death |-> j.death, entry |-> j.entry])
          /\ acknowledged' = acknowledged
      BY <1>6 DEF WriteIssuer
    <2>2. j.entry \in Entries \union PinEntries /\ j.death \in Deaths
      <3>1. j.entry \in Entries \union PinEntries
        BY <1>1, <1>6
      <3>2. j.death \in SealDeaths \union PreviousDeaths \union Raises
        BY <1>1, <1>6 DEF EntryFits
      <3> QED  BY <3>1, <3>2 DEF Deaths
    <2>3. step \in {"pin", "line"} /\ (step = "pin" <=> j.entry \in PinEntries)
      BY <2>2, EntryOps
    <2> HIDE DEF step
    <2>4. LET next == [step |-> step, death |-> j.death, entry |-> j.entry]
          IN  next \in Jobs /\ JobFits(next)
      BY <1>1, <2>2, <2>3, SavedFits
    <2>5. acknowledged \subseteq Deaths
      BY DEF VSTypeOK
    <2> QED  BY <1>4, <2>1, <2>4, <2>5
  <1> QED  BY <1>5, <1>6

LEMMA LineStep ==
    ASSUME VSTypeOK, AcceptInv, NEW p \in Processes, AppendAcceptLine(p)
    PROVE  VSTypeOK' /\ AcceptInv'
  <1>1. job[p] \in Saved /\ JobFits(job[p]) /\ job[p].step = "line"
    BY JobSteps DEF VSTypeOK, AcceptInv, AppendAcceptLine, At
  <1>2. PICK death \in Deaths, entry \in Entries :
            death = job[p].death /\ entry = job[p].entry /\ EntryFits(death, entry)
    <2>1. job[p].death \in Deaths /\ job[p].entry \in Entries
      BY <1>1, SavedFields DEF JobFits
    <2> QED  BY <1>1, <2>1 DEF JobFits
  <1>3. /\ lines' = lines \union {entry} /\ acknowledged' = acknowledged \union {death}
        /\ Goto(p, Idle)
        /\ UNCHANGED <<now, rotated, kills, sealLines, file, overwritten>>
    BY <1>2, NoEntry DEF AppendAcceptLine, Acknowledge, issuing
  <1>4. job' \in [Processes -> Jobs] /\ \A q \in Processes : JobFits(job'[q])
    BY <1>3, IdleFits, GotoFacts DEF VSTypeOK, AcceptInv
  <1>5. VSTypeOK'
    BY <1>2, <1>3, <1>4 DEF VSTypeOK
  <1>6. ASSUME NEW d \in acknowledged, InForce(d)
        PROVE  InForce(d)'
    BY <1>3, <1>6, Zenon DEF InForce
  <1>7. InForce(death)'
    <2>1. entry \in lines'
      BY <1>3
    <2>2. CASE death \in SealDeaths /\ entry.op = "seal_accept" /\ entry.key = death.key
      <3>1. death \notin PreviousDeaths \union KillDeaths \union Raises
        BY <2>2 DEF KillDeaths, SealDeaths, PreviousDeaths, Raises
      <3> QED  BY <2>1, <2>2, <3>1 DEF InForce
    <2>3. CASE /\ death \in PreviousDeaths /\ entry.op = "previous_key_accept"
               /\ entry.key = death.key /\ entry.date = death.date
      <3>1. death \notin SealDeaths \union KillDeaths \union Raises
        BY <2>3 DEF KillDeaths, SealDeaths, PreviousDeaths, Raises
      <3> QED  BY <2>1, <2>3, <3>1 DEF InForce
    <2>4. CASE /\ death \in Raises /\ entry.op = "issuer_verify_threshold"
               /\ entry.n = death.n
      <3>1. death \notin SealDeaths \union KillDeaths \union PreviousDeaths
        BY <2>4 DEF KillDeaths, SealDeaths, PreviousDeaths, Raises
      <3>2. entry.n >= death.n
        BY <2>4 DEF Raises
      <3> QED  BY <2>1, <2>4, <3>1, <3>2 DEF InForce
    <2>5. entry # None /\ entry \notin PinEntries
      BY NoEntry, EntryOps
    <2> QED  BY <1>2, <2>2, <2>3, <2>4, <2>5 DEF EntryFits, KeyEntries, RaiseEntries
  <1>8. RaisesBounded'
    <2>1. PICK bound \in Nat : \A line \in lines \intersect RaiseEntries : line.n <= bound
      BY DEF AcceptInv, RaisesBounded
    <2>2. CASE entry \in RaiseEntries
      <3>1. \A line \in RaiseEntries : line.n \in Nat
        BY DEF RaiseEntries
      <3>2. \A line \in lines' \intersect RaiseEntries : line.n <= bound + entry.n
        BY <1>3, <2>1, <2>2, <3>1
      <3>3. bound + entry.n \in Nat
        BY <2>2, <3>1
      <3> QED  BY <3>2, <3>3 DEF RaisesBounded
    <2>3. CASE entry \notin RaiseEntries
      <3>1. lines' \intersect RaiseEntries = lines \intersect RaiseEntries
        BY <1>3, <2>3
      <3> QED  BY <2>1, <3>1 DEF RaisesBounded
    <2> QED  BY <2>2, <2>3
  <1>9. \A d \in acknowledged' : InForce(d)'
    BY <1>3, <1>6, <1>7 DEF AcceptInv
  <1> QED  BY <1>4, <1>5, <1>8, <1>9 DEF AcceptInv

\* What a raise that finds its threshold in force rests on: the file or a line.
LEMMA RaiseAgainStep ==
    ASSUME VSTypeOK, AcceptInv, NEW p \in Processes, NEW n \in VerifyThresholds,
           RaiseAgain(p, n)
    PROVE  VSTypeOK' /\ AcceptInv'
  <1> DEFINE death == [kind |-> "threshold", n |-> n, logged |-> FALSE]
  <1>1. n \in Nat \ {0, 1} /\ n = RaisedThreshold
    BY LoadFacts, VerifierStoreAssumption DEF RaiseAgain, AcceptInv
  <1>2. death \in Raises /\ death.n = n /\ ~death.logged
    BY <1>1 DEF Raises
  <1>3. /\ acknowledged' = acknowledged \union {death}
        /\ UNCHANGED <<now, rotated, kills, sealLines, file, lines, job, overwritten>>
    BY DEF RaiseAgain, issuing, stored
  <1> HIDE DEF death
  <1>4. VSTypeOK'
    BY <1>2, <1>3 DEF VSTypeOK, Deaths
  <1>5. InForce(death)'
    <2>1. death \notin SealDeaths \union KillDeaths \union PreviousDeaths
      BY <1>2 DEF KillDeaths, SealDeaths, PreviousDeaths, Raises
    <2>2. file.threshold >= death.n \/ \E line \in RaiseLines : line.n >= death.n
      <3>1. \/ n <= 1 \/ n = file.threshold
            \/ \E line \in RaiseLines : n = line.n
        BY <1>1, ThresholdFacts DEF AcceptInv
      <3>2. n >= n /\ ~(n <= 1)
        BY <1>1
      <3> QED  BY <1>2, <3>1, <3>2
    <2>3. \/ \E line \in lines' : line.op = "issuer_verify_threshold" /\ line.n >= death.n
          \/ ~death.logged /\ (overwritten' \/ file'.threshold >= death.n)
      BY <1>2, <1>3, <2>2 DEF RaiseLines
    <2> QED  BY <2>1, <2>3 DEF InForce
  <1>6. ASSUME NEW d \in acknowledged
        PROVE  InForce(d)'
    BY <1>3, <1>6 DEF AcceptInv, InForce
  <1>7. RaisesBounded'
    BY <1>3 DEF AcceptInv, RaisesBounded
  <1>8. \A q \in Processes : JobFits(job'[q])
    BY <1>3 DEF AcceptInv
  <1> QED  BY <1>3, <1>4, <1>5, <1>6, <1>7, <1>8 DEF AcceptInv

LEMMA DecideSteps ==
    ASSUME VSTypeOK, AcceptInv, DecideNext
    PROVE  VSTypeOK' /\ AcceptInv'
  <1>0. Host \in Processes
    BY DEF Processes
  <1>1. CASE IssueVerifierChallenge
    <2>1. UNCHANGED <<now, rotated, kills, sealLines, file, lines, job, acknowledged, overwritten>>
      BY <1>1 DEF IssueVerifierChallenge, issuing, stored
    <2>2. VSTypeOK'
      BY <2>1 DEF VSTypeOK
    <2> QED  BY <2>1, <2>2, NothingAccepted
  <1>2. ASSUME NEW m \in Presentations, BeginCheck(m)
        PROVE  VSTypeOK' /\ AcceptInv'
    <2>1. m.agent \in Agents
      BY DEF Presentations, ActsSigned, LiveAt
    <2>2. [step |-> "decide", holder |-> m.agent] \in Deciding
      BY <2>1 DEF Deciding
    <2>3. /\ Goto(Host, [step |-> "decide", holder |-> m.agent])
          /\ UNCHANGED <<now, AcceptVars>>
      BY <1>2 DEF BeginCheck, AcceptVars, issuing, stored, history
    <2> QED  BY <1>0, <2>2, <2>3, DecidingFits, OnlyAJob
  <1>3. ASSUME NEW nonce, NEW signer, NEW matches, DecideCheck(nonce, signer, matches)
        PROVE  VSTypeOK' /\ AcceptInv'
    <2>1. Goto(Host, Idle) /\ UNCHANGED <<now, AcceptVars>>
      BY <1>3 DEF DecideCheck, AcceptVars, issuing, stored
    <2> QED  BY <1>0, <2>1, IdleFits, OnlyAJob
  <1> QED  BY <1>1, <1>2, <1>3 DEF DecideNext

LEMMA AcceptNextStep ==
    ASSUME VSTypeOK, AcceptInv, [VSNext]_vsVars
    PROVE  VSTypeOK' /\ AcceptInv'
  <1>1. ASSUME NEW p \in Processes, AcceptNext(p)
        PROVE  VSTypeOK' /\ AcceptInv'
    BY <1>1, AcceptIssuerStep, AcceptPreviousStep, PinStep, AcceptKillStep, AcceptSealStep,
       RaiseStep, RaiseAgainStep, CompareStep, WriteStep, LineStep DEF AcceptNext
  <1>2. ASSUME NEW p \in Processes, Crash(p)
        PROVE  VSTypeOK' /\ AcceptInv'
    <2>1. Goto(p, Idle) /\ UNCHANGED <<now, AcceptVars>>
      BY <1>2 DEF Crash, AcceptVars, issuing, stored, history
    <2> QED  BY <2>1, IdleFits, OnlyAJob
  <1>3. CASE Tick
    <2>1. /\ UNCHANGED <<rotated, kills, sealLines, file, lines, job, acknowledged, overwritten>>
          /\ now' = now + 1
      BY <1>3 DEF Tick, issuing, stored, history
    <2>2. VSTypeOK'
      BY <2>1 DEF VSTypeOK
    <2> QED  BY <2>1, <2>2, NothingAccepted
  <1>4. CASE UNCHANGED vsVars
    <2>1. UNCHANGED <<now, rotated, kills, sealLines, file, lines, job, acknowledged, overwritten>>
      BY <1>4 DEF vsVars, issuing, stored, history
    <2>2. VSTypeOK'
      BY <2>1 DEF VSTypeOK
    <2> QED  BY <2>1, <2>2, NothingAccepted
  <1> QED  BY <1>1, <1>2, <1>3, <1>4, IssuingSteps, DecideSteps DEF VSNext

\* The invariant of what is stored, on its way and acknowledged.
THEOREM VerifierStoreSafe == VSSpec => [](VSTypeOK /\ AcceptInv)
  <1>1. VSInit => VSTypeOK /\ AcceptInv
    BY AcceptInit
  <1>2. (VSTypeOK /\ AcceptInv) /\ [VSNext]_vsVars => (VSTypeOK /\ AcceptInv)'
    BY AcceptNextStep
  <1> QED  BY <1>1, <1>2, PTL DEF VSSpec

------------------------------------------------------------------------------
(* What follows of accepted deaths.                                          *)

LEMMA DeathKinds ==
    ASSUME NEW death \in Deaths
    PROVE  /\ death.kind = "seal" => death \in SealDeaths
           /\ death.kind = "previous" => death \in PreviousDeaths /\ death.date \in Nat
           /\ death.kind = "kill" => death \in KillDeaths
           /\ death.kind = "threshold" => death \in Raises /\ death.n \in Nat \ {0, 1}
  BY DEF Deaths, SealDeaths, PreviousDeaths, KillDeaths, Raises

LEMMA KeyDeathStays ==
    ASSUME VSTypeOK, AcceptInv, NEW death \in acknowledged
    PROVE  /\ death.kind = "seal" => death.key \in DOMAIN LoadIssuer.sealed
           /\ death.kind = "previous" =>
                 /\ death.key \in DOMAIN LoadIssuer.previous
                 /\ LoadIssuer.previous[death.key] <= death.date
  <1>1. death \in Deaths /\ InForce(death)
    BY DEF VSTypeOK, AcceptInv
  <1>2. CASE death.kind = "seal"
    BY <1>1, <1>2, DeathKinds, LoadFacts DEF AcceptInv, InForce, Logs
  <1>3. CASE death.kind = "previous"
    <2>1. PICK line \in lines : /\ line.op = "previous_key_accept"
                                /\ line.key = death.key /\ line.date = death.date
      BY <1>1, <1>3, DeathKinds DEF InForce
    <2>2. LoadIssuer.previous[line.key] <= line.date /\ line.key \in DOMAIN LoadIssuer.previous
      BY <2>1, LoadFacts DEF AcceptInv, Logs
    <2> QED  BY <1>3, <2>1, <2>2
  <1> QED  BY <1>2, <1>3

\* A seal or a previous key that was acknowledged is in force in every later
\* state, for any number of agents, keys, acceptances and crashes.
THEOREM KeyDeathsStay == VSSpec => []AcceptedKeyDeathStays
  <1>1. VSTypeOK /\ AcceptInv => AcceptedKeyDeathStays
    BY KeyDeathStays DEF AcceptedKeyDeathStays
  <1> QED  BY <1>1, VerifierStoreSafe, PTL

LEMMA KillStays == VSTypeOK /\ AcceptInv => AcceptedKillStays
  <1> SUFFICES ASSUME VSTypeOK, AcceptInv, ~overwritten,
                      NEW death \in acknowledged, death.kind = "kill"
               PROVE  death.names \subseteq file.kills
    BY DEF AcceptedKillStays
  <1>1. death \in KillDeaths /\ InForce(death)
    BY DeathKinds DEF VSTypeOK, AcceptInv
  <1> QED  BY <1>1 DEF InForce

\* A kill that was acknowledged is in force in every later state unless a save
\* landed on a file that had changed.
THEOREM KillsStay == VSSpec => []AcceptedKillStays
  <1> QED  BY KillStays, VerifierStoreSafe, PTL

LEMMA DeathRefuses ==
    ASSUME VSTypeOK, AcceptInv, NEW m, NEW death \in acknowledged, DiesBy(m, death)
    PROVE  \/ AcceptedAsSealed(LoadIssuer, m.key)
           \/ ~AcceptedKey(LoadIssuer, m.key)
           \/ AcceptedAsKilled(LoadIssuer, m.agent)
  <1>0. death \in Deaths
    BY DEF VSTypeOK
  <1>1. CASE death.kind = "kill" /\ ~overwritten /\ Named[m.agent] \intersect death.names # {}
    <2>1. death.names \subseteq file.kills
      BY <1>1, KillStays DEF AcceptedKillStays
    <2>2. LoadIssuer.kills = file.kills
      BY LoadFacts DEF AcceptInv
    <2> QED  BY <1>1, <2>1, <2>2 DEF AcceptedAsKilled
  <1>2. CASE death.kind = "seal" /\ m.key = death.key
    BY <1>2, KeyDeathStays DEF AcceptedAsSealed
  <1>3. CASE death.kind = "previous" /\ m.key = death.key /\ now >= death.date
    <2>1. /\ m.key \in DOMAIN LoadIssuer.previous
          /\ LoadIssuer.previous[m.key] <= death.date
      BY <1>3, KeyDeathStays
    <2>2. LoadIssuer.previous \in DatedKeys
      BY LoadFacts DEF AcceptInv, Issuers
    <2>3. LoadIssuer.previous[m.key] \in Nat
      BY <2>1, <2>2, DatedFacts
    <2>4. now >= LoadIssuer.previous[m.key]
      BY <1>0, <1>3, <2>1, <2>3, DeathKinds DEF VSTypeOK
    <2> QED  BY <2>1, <2>4 DEF AcceptedKey, PastKillDate
  <1> QED  BY <1>1, <1>2, <1>3 DEF DiesBy

\* No presentation and no act, of whatever age, passes once a death that stops it
\* was acknowledged.
THEOREM DeathsStopActs == VSSpec => []AcceptedDeathStopsActs
  <1>1. VSTypeOK /\ AcceptInv => AcceptedDeathStopsActs
    <2> SUFFICES ASSUME VSTypeOK, AcceptInv, NEW m, NEW death \in acknowledged,
                        DiesBy(m, death)
                 PROVE  ~VerifyPresentation(LoadIssuer, m) /\ ~VerifyAct(LoadIssuer, m)
      BY DEF AcceptedDeathStopsActs
    <2> QED  BY DeathRefuses DEF VerifyPresentation, VerifyAct
  <1> QED  BY <1>1, VerifierStoreSafe, PTL

\* A presentation is signed while its agent lives and its store is not sealed, so
\* that no death outside the window is missed.
THEOREM UnheardDeathsAreShort == VSSpec => []UnheardDeathIsShort
  <1>1. VSTypeOK => UnheardDeathIsShort
    <2> SUFFICES ASSUME VSTypeOK, NEW m \in Presentations, now < m.expires
                 PROVE  /\ \A n \in DOMAIN kills : Reaches(kills[n], m.agent) =>
                               now < kills[n].at + PresentWindow
                        /\ sealLines # {} => now < KillDate + PresentWindow
      BY DEF UnheardDeathIsShort, VerifyPresentation
    <2>1. PICK s \in Signings : /\ ~SealedAt(s.at) /\ m.agent \in LiveAt(s.at)
                                /\ m.expires = s.at + PresentWindow
      BY DEF Presentations, ActsSigned
    <2>2. s.at \in Nat /\ now \in Nat /\ PresentWindow \in Nat
      BY VerifierStoreAssumption DEF Signings, VSTypeOK
    <2>3. ASSUME NEW n \in DOMAIN kills, Reaches(kills[n], m.agent)
          PROVE  now < kills[n].at + PresentWindow
      <3>1. kills[n].at \in Nat
        <4>1. kills \in Seq(KillEvents)
          BY DEF VSTypeOK
        <4>2. kills[n] \in KillEvents
          BY <4>1
        <4> QED  BY <4>2 DEF KillEvents
      <3>2. ~(kills[n].at < s.at)
        BY <2>1, <2>3 DEF LiveAt
      <3> QED  BY <2>1, <2>2, <3>1, <3>2
    <2>4. ASSUME sealLines # {}
          PROVE  now < KillDate + PresentWindow
      <3> DEFINE dates == {line.date : line \in sealLines}
      <3>1. dates \in SUBSET Nat /\ dates # {}
        BY <2>4 DEF VSTypeOK
      <3> HIDE DEF dates
      <3>2. Min(dates) \in Nat
        BY <3>1, MinFacts
      <3>3. KillDate \in Nat
        BY <3>2 DEF KillDate, dates
      <3>4. ~(s.at >= KillDate)
        BY <2>1, <2>4 DEF SealedAt
      <3> QED  BY <2>1, <2>2, <3>3, <3>4
    <2> QED  BY <2>3, <2>4
  <1> QED  BY <1>1, VerifierStoreSafe, PTL

LEMMA Signers ==
    ASSUME NEW list \in SignatureLists, NEW message
    PROVE  SignersOf(list, message) \subseteq 0..Keys
  BY DEF SignatureLists, SignersOf, OwnKey

LEMMA RaiseInForce ==
    ASSUME VSTypeOK, AcceptInv, NEW raise \in acknowledged, raise.kind = "threshold",
           raise.logged \/ ~overwritten
    PROVE  raise.n \in Nat \ {0, 1} /\ LoadIssuer.threshold \in Nat
           /\ LoadIssuer.threshold >= raise.n
  <1>1. raise \in Raises /\ raise.n \in Nat \ {0, 1} /\ InForce(raise)
    BY DeathKinds DEF VSTypeOK, AcceptInv
  <1>2. LoadIssuer.threshold = RaisedThreshold /\ RaisedThreshold \in Nat
    BY LoadFacts, ThresholdFacts DEF AcceptInv
  <1>3. CASE \E line \in RaiseLines : line.n >= raise.n
    <2>1. PICK line \in RaiseLines : line.n >= raise.n
      BY <1>3
    <2>2. RaisedThreshold >= line.n /\ line.n \in Nat
      BY ThresholdFacts DEF AcceptInv, RaiseLines, VSTypeOK, Entries, KeyEntries, RaiseEntries
    <2> QED  BY <1>1, <1>2, <2>1, <2>2
  <1>4. CASE file.threshold >= raise.n
    <2>1. RaisedThreshold >= file.threshold /\ file.threshold \in Nat
      BY ThresholdFacts DEF AcceptInv, VSTypeOK, Issuers
    <2> QED  BY <1>1, <1>2, <1>4, <2>1
  <1>5. (\E line \in RaiseLines : line.n >= raise.n) \/ file.threshold >= raise.n
    BY <1>1, Zenon DEF InForce, RaiseLines
  <1> QED  BY <1>3, <1>4, <1>5

\* A raise that was acknowledged is in force in every later state: what fewer
\* accepted keys signed than it asks for does not count.
THEOREM RaisedThresholdsHold == VSSpec => []RaisedThresholdHolds
  <1>1. VSTypeOK /\ AcceptInv => RaisedThresholdHolds
    <2> SUFFICES ASSUME VSTypeOK, AcceptInv,
                        NEW raise \in acknowledged, raise.kind = "threshold",
                        raise.logged \/ ~overwritten, NEW list \in SignatureLists,
                        Cardinality(SignersOf(list, "this") \intersect AcceptedKeys(LoadIssuer))
                            < raise.n
                 PROVE  ~ArtifactSigned(LoadIssuer, list, "this")
      BY DEF RaisedThresholdHolds
    <2> DEFINE keys == AcceptedKeys(LoadIssuer)
               counted == SignersOf(list, "this") \intersect keys
    <2>1. /\ raise.n \in Nat \ {0, 1} /\ LoadIssuer.threshold \in Nat
          /\ LoadIssuer.threshold >= raise.n
      BY RaiseInForce
    <2>2. Cardinality(counted) \in Nat
      <3>1. IsFiniteSet(0..Keys)
        BY FS_Interval, VerifierStoreAssumption
      <3>2. counted \in SUBSET (0..Keys)
        BY Signers
      <3> HIDE DEF counted
      <3>3. IsFiniteSet(counted)
        BY <3>1, <3>2, FS_Subset
      <3> QED  BY <3>3, FS_CardinalityType
    <2>3. CountValidSignatures(list, "this", keys) = Cardinality(counted)
      <3>1. {list[k].key : k \in {n \in DOMAIN list : Counts(list[n], "this", keys)}} = counted
        BY DEF Counts, SignersOf
      <3> QED  BY <3>1 DEF CountValidSignatures
    <2> HIDE DEF keys, counted
    <2>4. ~EnoughSignatures(list, "this", keys, LoadIssuer.threshold)
      BY <2>1, <2>2, <2>3 DEF EnoughSignatures, RequireThreshold, counted, keys
    <2> QED  BY <2>4 DEF ArtifactSigned, keys
  <1> QED  BY <1>1, VerifierStoreSafe, PTL

------------------------------------------------------------------------------
(* The challenges.                                                           *)

LEMMA ChallengeStep ==
    ASSUME VSTypeOK, ChallengeInv, [VSNext]_vsVars
    PROVE  ChallengeInv'
  <1>1. ASSUME UNCHANGED <<slots, challenges, uses>>
        PROVE  ChallengeInv'
    BY <1>1 DEF ChallengeInv
  <1>2. CASE IssueVerifierChallenge
    <2> DEFINE slot == [issued |-> now, spent |-> FALSE]
    <2>1. /\ challenges' = challenges + 1 /\ uses' = Append(uses, 0)
          /\ slots' = [n \in DOMAIN slots \union {challenges + 1} |->
                          IF n \in DOMAIN slots THEN slots[n] ELSE slot]
      BY <1>2 DEF IssueVerifierChallenge
    <2>2. slot \in Slots
      BY DEF Slots, VSTypeOK
    <2> HIDE DEF slot
    <2>3. /\ uses' \in Seq(0..1) /\ challenges' = Len(uses')
          /\ DOMAIN uses' = DOMAIN uses \union {challenges + 1}
          /\ \A n \in DOMAIN uses : uses'[n] = uses[n]
          /\ uses'[challenges + 1] = 0
      BY <2>1 DEF ChallengeInv
    <2>4. slots' \in [DOMAIN slots' -> Slots] /\ DOMAIN slots' \subseteq DOMAIN uses'
      BY <2>1, <2>2, <2>3 DEF ChallengeInv
    <2>5. \A n \in DOMAIN slots' : ~slots'[n].spent => uses'[n] = 0
      BY <2>1, <2>3 DEF ChallengeInv
    <2> QED  BY <2>3, <2>4, <2>5 DEF ChallengeInv
  <1>3. ASSUME NEW nonce \in 1..challenges, NEW signer, NEW matches,
               DecideCheck(nonce, signer, matches)
        PROVE  ChallengeInv'
    <2>1. CASE ~ProofAccepted(nonce, signer, job[Host].holder)
      BY <1>1, <1>3, <2>1 DEF DecideCheck
    <2>2. CASE ProofAccepted(nonce, signer, job[Host].holder)
      <3>1. /\ nonce \in DOMAIN slots /\ ~slots[nonce].spent /\ challenges' = challenges
            /\ slots' = [slots EXCEPT ![nonce].spent = TRUE]
            /\ uses' = uses \/ uses' = [uses EXCEPT ![nonce] = @ + 1]
        BY <1>3, <2>2 DEF DecideCheck, ProofAccepted
      <3>2. nonce \in DOMAIN uses /\ uses[nonce] = 0
        BY <3>1 DEF ChallengeInv
      <3>3. slots[nonce] \in Slots /\ slots'[nonce] = [slots[nonce] EXCEPT !.spent = TRUE]
            /\ DOMAIN slots' = DOMAIN slots
            /\ \A n \in DOMAIN slots : n # nonce => slots'[n] = slots[n]
        BY <3>1 DEF ChallengeInv
      <3>4. slots'[nonce] \in Slots /\ slots'[nonce].spent
        BY <3>3 DEF Slots
      <3>5. slots' \in [DOMAIN slots' -> Slots]
        BY <3>1, <3>3, <3>4 DEF ChallengeInv
      <3>6. /\ uses' \in Seq(0..1) /\ Len(uses') = Len(uses) /\ DOMAIN uses' = DOMAIN uses
            /\ \A n \in DOMAIN uses : n # nonce => uses'[n] = uses[n]
        <4>1. uses \in Seq(0..1)
          BY DEF ChallengeInv
        <4>2. CASE uses' = uses
          BY <4>1, <4>2
        <4>3. CASE uses' = [uses EXCEPT ![nonce] = @ + 1]
          <5>1. uses[nonce] + 1 \in 0..1
            BY <3>2
          <5> QED  BY <3>2, <4>1, <4>3, <5>1
        <4> QED  BY <3>1, <4>2, <4>3
      <3> QED  BY <3>1, <3>3, <3>4, <3>5, <3>6 DEF ChallengeInv
    <2> QED  BY <2>1, <2>2
  <1>4. ASSUME NEW p, Crash(p)
        PROVE  ChallengeInv'
    <2>1. CASE p = Host
      <3>1. slots' = << >> /\ UNCHANGED <<challenges, uses>>
        BY <1>4, <2>1 DEF Crash, history
      <3>2. DOMAIN slots' = {} /\ slots' \in [{} -> Slots]
        BY <3>1
      <3> QED  BY <3>1, <3>2 DEF ChallengeInv
    <2>2. CASE p # Host
      BY <1>1, <1>4, <2>2 DEF Crash, history
    <2> QED  BY <2>1, <2>2
  <1>5. CASE IssuingNext
    BY <1>1, <1>5 DEF IssuingNext, KillInstance, KillCapability, Rotate, Seal, host, history
  <1>6. ASSUME NEW p, AcceptNext(p)
        PROVE  UNCHANGED <<slots, challenges, uses>>
    BY <1>6 DEF AcceptNext, BeginAcceptIssuer, BeginAcceptPrevious, BeginAcceptKill,
       BeginAcceptSeal, BeginRaiseThreshold, Begin, RaiseAgain, PinPrevious, CompareIssuer,
       WriteIssuer, AppendAcceptLine, host, history
  <1>7. ASSUME NEW m, BeginCheck(m)
        PROVE  ChallengeInv'
    BY <1>1, <1>7 DEF BeginCheck, host, history
  <1>8. CASE Tick \/ UNCHANGED vsVars
    BY <1>1, <1>8 DEF Tick, vsVars, host, history
  <1> QED  BY <1>1, <1>2, <1>3, <1>4, <1>5, <1>6, <1>7, <1>8 DEF VSNext, DecideNext

\* However often the host restarts and a request is repeated, no challenge is
\* answered with allow a second time: one in memory that is not spent was never
\* answered so, and one that is not in memory is no answer.
THEOREM ChallengesAllowOnce == VSSpec => []VerifierChallengeAllowsOnce
  <1>1. VSInit => ChallengeInv
    <2>1. << >> \in [{} -> Slots] /\ DOMAIN << >> = {} /\ << >> \in Seq(0..1)
      OBVIOUS
    <2> QED  BY <2>1 DEF VSInit, ChallengeInv
  <1>2. VSTypeOK /\ ChallengeInv /\ [VSNext]_vsVars => ChallengeInv'
    BY ChallengeStep
  <1>3. ChallengeInv => VerifierChallengeAllowsOnce
    BY DEF ChallengeInv, VerifierChallengeAllowsOnce
  <1> QED  BY <1>1, <1>2, <1>3, VerifierStoreSafe, PTL DEF VSSpec

------------------------------------------------------------------------------
(* Wraps.  A document whose signature verifies names the envelope key of the *)
(* store that issued it, so a piece under that key is one that store         *)
(* emitted; and what it emitted binds documents as issued.                   *)

LEMMA VerifiedKey ==
    ASSUME NEW document \in Documents, NEW time, VerifyDocument(document, time)
    PROVE  document.message.envelope # OtherKey
  <1>1. document.message \in Messages
    BY DEF Documents, VerifyDocument
  <1>2. document.message.envelope \in Envelopes
    BY <1>1 DEF Messages, Signable
  <1> QED  BY <1>2, WrapsAssumption

LEMMA TokenOrigin ==
    ASSUME NEW token \in Tokens, token.signer # OtherKey
    PROVE  \E m \in Messages : token = Wit(m) /\ token.sub = Issued(m)
  <1>1. PICK m \in Messages : token = Wit(m)
    BY DEF Tokens, OtherClaims
  <1> QED  BY <1>1 DEF Wit

LEMMA CertificateOrigin ==
    ASSUME NEW certificate \in Certificates, certificate.signer # OtherKey
    PROVE  \E m \in Messages : certificate = Svid(m) /\ certificate.uri = Issued(m)
  <1>1. PICK m \in Messages : certificate = Svid(m)
    BY DEF Certificates, OtherClaims
  <1> QED  BY <1>1 DEF Svid

LEMMA SignatureOrigin ==
    ASSUME NEW signature \in HttpSignatures, signature.signer # OtherKey
    PROVE  \E m \in Messages : signature = HttpSignature(m) /\ signature.digest = Issued(m)
  <1>1. PICK m \in Messages : signature = HttpSignature(m)
    BY DEF HttpSignatures
  <1> QED  BY <1>1 DEF HttpSignature

LEMMA WimseIsWhole ==
    ASSUME NEW document \in Documents, NEW token \in Tokens, NEW signature \in HttpSignatures,
           NEW digest, NEW time, CheckWimse(signature, token, digest, document, time)
    PROVE  \E m \in Messages :
               /\ document = Issued(m) /\ digest = Issued(m)
               /\ token = Wit(m) /\ signature = HttpSignature(m)
  <1>1. /\ token.sub = document /\ token.signer = document.message.envelope
        /\ signature.digest = digest /\ signature.signer = document.message.envelope
        /\ digest = document /\ VerifyDocument(document, time)
    BY DEF CheckWimse, VerifyWimse, RequireWimse, RequireToken, RequireHttpSignature
  <1>2. PICK m \in Messages : token = Wit(m) /\ document = Issued(m)
    BY <1>1, VerifiedKey, TokenOrigin
  <1>3. PICK n \in Messages : signature = HttpSignature(n) /\ document = Issued(n)
    BY <1>1, VerifiedKey, SignatureOrigin
  <1>4. m = n
    BY <1>2, <1>3 DEF Issued
  <1> QED  BY <1>1, <1>2, <1>3, <1>4

LEMMA SvidIsWhole ==
    ASSUME NEW document \in Documents, NEW certificate \in Certificates, NEW time,
           CheckSvid(certificate, document, time)
    PROVE  \E m \in Messages : document = Issued(m) /\ certificate = Svid(m)
  <1>1. /\ certificate.uri = document
        /\ certificate.signer = document.message.envelope
        /\ VerifyDocument(document, time)
    BY DEF CheckSvid, RequireSvid, SelfSigned
  <1> QED  BY <1>1, VerifiedKey, CertificateOrigin

\* Whatever is handed in together, at whatever time: what passes the checks is
\* one wrap, whole and unchanged.
THEOREM WrapIsWhole == VSSpec => []AcceptedWrapIsWhole
  <1>1. AcceptedWrapIsWhole
    <2>1. ASSUME NEW w \in AcceptedWimse
          PROVE  \E m \in Messages :
                     /\ w.document = Issued(m) /\ w.digest = Issued(m)
                     /\ w.token = Wit(m) /\ w.signature = HttpSignature(m)
      <3>1. PICK document \in Documents, time \in 0..MaxTime : w \in Wimse(document, time)
        BY DEF AcceptedWimse
      <3>2. PICK p \in HttpSignatures \X Tokens \X {Issued(m) : m \in Messages} :
               /\ CheckWimse(p[1], p[2], p[3], document, time)
               /\ w = [time |-> time, document |-> document, signature |-> p[1],
                       token |-> p[2], digest |-> p[3]]
        BY <3>1 DEF Wimse
      <3>3. p[1] \in HttpSignatures /\ p[2] \in Tokens
        OBVIOUS
      <3>4. \E m \in Messages :
               /\ document = Issued(m) /\ p[3] = Issued(m)
               /\ p[2] = Wit(m) /\ p[1] = HttpSignature(m)
        BY <3>2, <3>3, WimseIsWhole
      <3> QED  BY <3>2, <3>4
    <2>2. ASSUME NEW w \in AcceptedSvid
          PROVE  \E m \in Messages : w.document = Issued(m) /\ w.certificate = Svid(m)
      <3>1. PICK document \in Documents, time \in 0..MaxTime : w \in Svids(document, time)
        BY DEF AcceptedSvid
      <3>2. PICK c \in Certificates :
               /\ CheckSvid(c, document, time)
               /\ w = [time |-> time, document |-> document, certificate |-> c]
        BY <3>1 DEF Svids
      <3> QED  BY <3>2, SvidIsWhole
    <2> QED  BY <2>1, <2>2 DEF AcceptedWrapIsWhole
  <1> QED  BY <1>1, PTL

\* For any two lifetimes of which the wrap's is the longer, a wrap as it was
\* issued is accepted exactly as long as its presentation.
THEOREM WrapLives == VSSpec => []WrapLivesAsPresented
  <1>1. ASSUME NEW m \in Messages, NEW time
        PROVE  /\ CheckWimse(HttpSignature(m), Wit(m), Issued(m), Issued(m), time) <=>
                      VerifyDocument(Issued(m), time)
               /\ CheckSvid(Svid(m), Issued(m), time) <=> VerifyDocument(Issued(m), time)
    <2>1. PICK a \in Agents, e \in Envelopes, t \in 0..MaxTime, w \in 1..PresentWindow :
             m = [agent |-> a, envelope |-> e, at |-> t, expires |-> t + w]
      BY DEF Messages, Signable
    <2>2. m.expires <= m.at + WrapLife /\ m.expires \in Nat
      BY <2>1, WrapsAssumption, VerifierStoreAssumption
    <2>3. NotAfter(m) = m.expires
      BY <2>2 DEF NotAfter
    <2>4. Issued(m).message = m
      BY DEF Issued
    <2>5. CheckWimse(HttpSignature(m), Wit(m), Issued(m), Issued(m), time) <=>
             VerifyDocument(Issued(m), time)
      BY <2>2, <2>3, <2>4 DEF CheckWimse, VerifyWimse, RequireHttpSignature, RequireWimse,
         RequireToken, RequireTime, HttpSignature, Wit, VerifyDocument
    <2>6. CheckSvid(Svid(m), Issued(m), time) <=> VerifyDocument(Issued(m), time)
      BY <2>2, <2>3, <2>4 DEF CheckSvid, RequireSvid, RequireTime, SelfSigned, Svid,
         VerifyDocument
    <2> QED  BY <2>5, <2>6
  <1>2. WrapLivesAsPresented
    BY <1>1 DEF WrapLivesAsPresented
  <1> QED  BY <1>2, PTL
==============================================================================
