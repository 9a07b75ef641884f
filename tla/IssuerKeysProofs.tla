--------------------------- MODULE IssuerKeysProofs ---------------------------
(***************************************************************************)
(* Theorems about IssuerKeys and Backup, for every value of their          *)
(* constants.                                                              *)
(***************************************************************************)
EXTENDS Backup, FiniteSetTheorems, WellFoundedInduction, TLAPS

------------------------------------------------------------------------------
(* The least and the greatest of a set of numbers.                           *)

LEMMA MinFacts ==
    ASSUME NEW S \in SUBSET Nat, S # {}
    PROVE  Min(S) \in S /\ \A x \in S : Min(S) <= x
  <1>1. PICK least \in S : \A x \in S : ~(<<x, least>> \in OpToRel(<, Nat))
    BY NatLessThanWellFounded, WFMin
  <1>2. ASSUME NEW x \in S PROVE least <= x
    <2>1. <<x, least>> \in Nat \X Nat => ~(x < least)
      BY <1>1 DEF OpToRel
    <2> QED  BY <2>1
  <1> QED  BY <1>2 DEF Min

LEMMA MaxFacts ==
    ASSUME NEW S \in SUBSET Nat, S # {}, NEW bound \in Nat, \A x \in S : x <= bound
    PROVE  Max(S) \in S /\ \A x \in S : x <= Max(S)
  <1> DEFINE T == {bound - x : x \in S}
  <1>1. T \in SUBSET Nat /\ T # {}
    <2>1. \A x \in S : x \in Nat /\ x <= bound
      OBVIOUS
    <2>2. \A x \in S : bound - x \in Nat
      BY <2>1
    <2>3. PICK x : x \in S
      OBVIOUS
    <2>4. bound - x \in T
      BY <2>3
    <2> QED  BY <2>2, <2>4
  <1>2. Min(T) \in T /\ \A y \in T : Min(T) <= y
    BY <1>1, MinFacts
  <1>3. PICK most \in S : Min(T) = bound - most
    BY <1>2
  <1>4. ASSUME NEW x \in S PROVE most >= x
    <2>1. bound - most <= bound - x
      BY <1>2, <1>3
    <2> QED  BY <2>1
  <1> QED  BY <1>4 DEF Max

------------------------------------------------------------------------------
(* The inductive invariant.  The log never says more than the file: a line   *)
(* is appended after the file that it repeats was saved, so load_issuer      *)
(* takes nothing from the log but which members count (OverlayIsIdle).       *)

DatedKeys == UNION {[S -> Nat] : S \in SUBSET Nat}
Issuers == [current : Nat, members : SUBSET Nat, previous : DatedKeys, threshold : Nat \ {0}]
Ops == {"issue", "kill", "issuer_rotate", "issuer_member_add", "issuer_threshold"}
Lines == [op : Ops, key : Nat, kill : Nat, n : Nat \ {0}, signers : SUBSET Nat]
Records == [planted : BOOLEAN, signers : SUBSET Nat]

Rotating == [step : {"issuer", "resign", "line"}, op : {"issuer_rotate"}, key : Nat,
             kill : Nat, given : SUBSET Nat, next : Nat, trusted : SUBSET Nat,
             issuer : Issuers]
Changing == [step : {"line"}, op : {"issuer_member_add", "issuer_threshold"}, key : Nat,
             kill : Nat, given : SUBSET Nat]

KeysTypeOK ==
    /\ now \in Nat /\ made \in Nat
    /\ secret \in 1..made
    /\ file \in Issuers
    /\ file.members \subseteq 1..made /\ DOMAIN file.previous \subseteq 1..made
    /\ lines \in Seq(Lines)
    /\ \A k \in DOMAIN lines : lines[k].signers \subseteq 0..made
    /\ records \in Seq(Records)
    /\ \A r \in DOMAIN records : records[r].signers \subseteq 0..made
    /\ job \in Rotating \union Changing \union {Idle}

\* What the log says of the threshold and of the dates is in the file.
FileIsAhead ==
    \A k \in DOMAIN lines :
        /\ lines[k].n <= file.threshold
        /\ lines[k].op = "issuer_rotate" =>
              /\ lines[k].key \in DOMAIN file.previous
              /\ file.previous[lines[k].key] <= lines[k].kill

\* The members a signature of whom counts, whichever key is the current one.
Members == file.members \intersect LoggedMembers

\* The issuer record a rotation is about to save.
RotatedIssuer ==
    [current   |-> secret,
     members   |-> ((file.members \intersect (LoggedMembers \union {job.key})) \ {job.key})
                       \union {secret},
     previous  |-> [key \in DOMAIN file.previous \union {job.key} |->
                       IF key = job.key THEN job.kill ELSE file.previous[key]],
     threshold |-> file.threshold]

JobInv ==
    /\ job \in Rotating /\ job.step = "issuer" =>
          /\ job.issuer = RotatedIssuer
          /\ job.key \in 1..made /\ job.key # secret
          /\ job.key \notin DOMAIN file.previous /\ secret \notin file.members
          /\ Cardinality(Signers(job.issuer, file.threshold, job.given)) >= file.threshold
    /\ job \in Rotating /\ job.step # "issuer" =>
          job.key \in DOMAIN file.previous /\ file.previous[job.key] <= job.kill
    /\ job # Idle /\ job.step # "issuer" => CanSign(file.threshold, job.given)

KeysInv ==
    /\ FileIsAhead
    /\ DOMAIN file.previous \intersect (file.members \union {secret}) = {}
    /\ JobInv

\* Why a planted record is not trusted, and never will be.
Untrusted(signers) ==
    \/ signers \subseteq {Foreign}
    \/ \E key \in DOMAIN file.previous : signers = {key} /\ now >= file.previous[key]
    \/ file.threshold > 1 /\ \E key \in 1..made : signers = {key}

PlantedInv == \A r \in DOMAIN records : records[r].planted => Untrusted(records[r].signers)

\* Where a rotation is with what it found trusted.
RotatedKeys ==
    {job.issuer.current} \union job.issuer.members
        \union {key \in DOMAIN job.issuer.previous : now < job.issuer.previous[key]}
ByMembers(r) == Signed(records[r].signers, SigningMembers(LoadIssuer), file.threshold)

TrustedInv ==
    job \in Rotating =>
        /\ job.trusted \subseteq DOMAIN records /\ job.next >= 1
        /\ job.step = "issuer" => job.next = 1
        /\ job.step = "issuer" =>
              \A r \in job.trusted : Signed(records[r].signers, RotatedKeys, file.threshold)
        /\ job.step = "resign" =>
              \A r \in job.trusted : IF r < job.next THEN ByMembers(r) ELSE TrustedRecord(r)
        /\ job.step = "line" => \A r \in job.trusted : ByMembers(r)

\* Without a crash between the new secret and the issuer record that names it:
\* the two agree but for that step, and no signature goes from under a line.
SecretInFile ==
    IF job \in Rotating /\ job.step = "issuer" THEN job.key = file.current
    ELSE secret = file.current

SignedKeys == DOMAIN file.previous \union {file.current} \union Members

\* What is signed counts, and stays on record.
LinesCount ==
    \A k \in DOMAIN lines : /\ Cardinality(lines[k].signers) >= lines[k].n
                            /\ lines[k].signers \subseteq SignedKeys

\* A copy of a store at rest is the store.
QuietInv ==
    copy.quiet /\ copy.step # "none" =>
        /\ job = Idle /\ copy.secret = secret
        /\ copy.step # "issuer" => copy.file = file
        /\ copy.step \in {"list", "records", "done"} => copy.lines = lines

------------------------------------------------------------------------------
(* What load_issuer makes of the file and the log.                           *)

LEMMA DatedFacts ==
    ASSUME NEW dates \in DatedKeys
    PROVE  /\ dates = [key \in DOMAIN dates |-> dates[key]]
           /\ DOMAIN dates \in SUBSET Nat /\ \A key \in DOMAIN dates : dates[key] \in Nat
  BY DEF DatedKeys

LEMMA DatedAre ==
    ASSUME NEW S \in SUBSET Nat, NEW dates \in [S -> Nat]
    PROVE  dates \in DatedKeys
  BY DEF DatedKeys

LEMMA IssuerFields ==
    ASSUME NEW issuer \in Issuers
    PROVE  /\ issuer = [current |-> issuer.current, members |-> issuer.members,
                        previous |-> issuer.previous, threshold |-> issuer.threshold]
           /\ issuer.current \in Nat /\ issuer.members \in SUBSET Nat
           /\ issuer.previous \in DatedKeys /\ issuer.threshold \in Nat \ {0}
  BY DEF Issuers

LEMMA ChangedIssuer ==
    ASSUME NEW c, NEW m, NEW p, NEW t, NEW current, NEW members, NEW previous
    PROVE  [[current |-> c, members |-> m, previous |-> p, threshold |-> t] EXCEPT
               !.current = current, !.members = members, !.previous = previous] =
           [current |-> current, members |-> members, previous |-> previous, threshold |-> t]
  <1> DEFINE first == [[current |-> c, members |-> m, previous |-> p, threshold |-> t] EXCEPT
                          !.current = current]
             second == [first EXCEPT !.members = members]
  <1>1. first = [current |-> current, members |-> m, previous |-> p, threshold |-> t]
    OBVIOUS
  <1>2. second = [current |-> current, members |-> members, previous |-> p, threshold |-> t]
    <2> HIDE DEF first
    <2> QED  BY <1>1
  <1>3. [second EXCEPT !.previous = previous] =
            [current |-> current, members |-> members, previous |-> previous, threshold |-> t]
    <2> HIDE DEF second
    <2> QED  BY <1>2
  <1> QED  BY <1>3

LEMMA LineFields ==
    ASSUME KeysTypeOK, NEW k \in DOMAIN lines
    PROVE  /\ lines[k] \in Lines /\ lines[k].op \in Ops /\ lines[k].key \in Nat
           /\ lines[k].kill \in Nat /\ lines[k].n \in Nat \ {0}
           /\ lines[k].signers \in SUBSET (0..made)
  <1>1. lines \in Seq(Lines) /\ lines[k].signers \in SUBSET (0..made)
    BY DEF KeysTypeOK
  <1>2. lines[k] \in Lines
    BY <1>1
  <1> QED  BY <1>1, <1>2 DEF Lines

LEMMA LoggedFacts == KeysTypeOK => LoggedMembers \in SUBSET Nat /\ LoggedPrevious \in SUBSET Nat
  BY LineFields DEF LoggedMembers, LoggedPrevious, LinesOf

\* load_issuer gives the file, with the members whose line is in the log.
Overlay ==
    /\ LoadIssuer \in Issuers
    /\ LoadIssuer.current = secret
    /\ LoadIssuer.members = file.members \intersect (LoggedMembers \union {secret})
    /\ LoadIssuer.previous = file.previous
    /\ LoadIssuer.threshold = file.threshold
    /\ Max({file.threshold, LoggedThreshold}) = file.threshold
    /\ LoggedPrevious \subseteq DOMAIN file.previous
    /\ \A key \in DOMAIN file.previous : KillDate(file.previous, key) = file.previous[key]

LEMMA OverlayIsIdle == KeysTypeOK /\ FileIsAhead => Overlay
  <1> SUFFICES ASSUME KeysTypeOK, FileIsAhead PROVE Overlay
    OBVIOUS
  <1>1. /\ file \in Issuers /\ file.threshold \in Nat \ {0} /\ file.previous \in DatedKeys
        /\ file.members \in SUBSET Nat /\ secret \in Nat
    BY IssuerFields DEF KeysTypeOK
  <1>2. LoggedThreshold <= file.threshold /\ LoggedThreshold \in Nat
    <2> DEFINE logged == {1} \union {lines[k].n : k \in DOMAIN lines}
    <2>1. \A x \in logged : x \in Nat /\ x <= file.threshold
      BY <1>1, LineFields DEF FileIsAhead
    <2>2. logged \in SUBSET Nat /\ logged # {}
      BY <2>1
    <2> HIDE DEF logged
    <2>3. Max(logged) \in logged
      BY <1>1, <2>1, <2>2, MaxFacts
    <2> QED  BY <2>1, <2>3 DEF LoggedThreshold, logged
  <1>3. Max({file.threshold, LoggedThreshold}) = file.threshold
    <2> DEFINE both == {file.threshold, LoggedThreshold}
    <2>1. both \in SUBSET Nat /\ both # {} /\ \A x \in both : x <= file.threshold
      BY <1>1, <1>2
    <2>2. file.threshold \in both
      OBVIOUS
    <2> HIDE DEF both
    <2>3. Max(both) \in both /\ \A x \in both : x <= Max(both)
      BY <1>1, <2>1, MaxFacts
    <2>4. Max(both) \in Nat /\ Max(both) <= file.threshold /\ file.threshold <= Max(both)
      BY <2>1, <2>2, <2>3
    <2>5. Max(both) = file.threshold
      BY <1>1, <2>4
    <2> QED  BY <2>5 DEF both
  <1>4. LoggedPrevious \subseteq DOMAIN file.previous
    BY DEF LoggedPrevious, LinesOf, FileIsAhead
  <1>5. ASSUME NEW key \in DOMAIN file.previous
        PROVE  KillDate(file.previous, key) = file.previous[key]
    <2>1. CASE key \notin LoggedPrevious
      BY <2>1 DEF KillDate
    <2>2. CASE key \in LoggedPrevious
      <3> DEFINE dates == {line.kill : line \in {l \in LinesOf("issuer_rotate") : l.key = key}}
                 both == {file.previous[key], LoggedKillDate(key)}
      <3>1. \A x \in dates : x \in Nat /\ file.previous[key] <= x
        BY LineFields DEF LinesOf, FileIsAhead
      <3>2. dates \in SUBSET Nat /\ dates # {}
        BY <2>2, <3>1 DEF LoggedPrevious
      <3> HIDE DEF dates
      <3>3. Min(dates) \in dates
        BY <3>2, MinFacts
      <3>4. LoggedKillDate(key) \in Nat /\ file.previous[key] <= LoggedKillDate(key)
        BY <3>1, <3>3 DEF LoggedKillDate, dates
      <3>5. file.previous[key] \in Nat
        BY <1>1, DatedFacts
      <3>6. both \in SUBSET Nat /\ both # {} /\ \A x \in both : file.previous[key] <= x
        BY <3>4, <3>5
      <3>7. file.previous[key] \in both
        OBVIOUS
      <3>8. KillDate(file.previous, key) = Min(both)
        BY <2>2 DEF KillDate
      <3> HIDE DEF both
      <3>9. Min(both) \in both /\ \A x \in both : Min(both) <= x
        BY <3>6, MinFacts
      <3>10. /\ Min(both) \in Nat /\ Min(both) <= file.previous[key]
             /\ file.previous[key] <= Min(both)
        BY <3>6, <3>7, <3>9
      <3> QED  BY <3>5, <3>8, <3>10
    <2> QED  BY <2>1, <2>2
  <1>6. [key \in DOMAIN file.previous \union LoggedPrevious |-> KillDate(file.previous, key)]
            = file.previous
    <2>1. DOMAIN file.previous \union LoggedPrevious = DOMAIN file.previous
      BY <1>4
    <2>2. file.previous = [key \in DOMAIN file.previous |-> file.previous[key]]
      BY <1>1, DatedFacts
    <2> QED  BY <1>5, <2>1, <2>2
  <1>7. LoadIssuer = [current |-> secret,
                      members |-> file.members \intersect (LoggedMembers \union {secret}),
                      previous |-> file.previous, threshold |-> file.threshold]
    BY <1>3, <1>6 DEF LoadIssuer
  <1>8. file.members \intersect (LoggedMembers \union {secret}) \in SUBSET Nat
    BY <1>1
  <1>9. LoadIssuer \in Issuers
    BY <1>1, <1>7, <1>8 DEF Issuers
  <1> QED  BY <1>3, <1>4, <1>5, <1>7, <1>9 DEF Overlay

------------------------------------------------------------------------------
(* Signing.                                                                  *)

LEMMA JobKinds ==
    /\ Idle \notin Rotating \union Changing
    /\ \A j \in Rotating : j.op = "issuer_rotate" /\ j \notin Changing
          /\ j.step \in {"issuer", "resign", "line"}
          /\ j.key \in Nat /\ j.kill \in Nat /\ j.given \in SUBSET Nat /\ j.next \in Nat
          /\ j.trusted \in SUBSET Nat /\ j.issuer \in Issuers
    /\ \A j \in Changing : j.step = "line" /\ j.key \in Nat /\ j.kill \in Nat
          /\ j.op \in {"issuer_member_add", "issuer_threshold"} /\ j.given \in SUBSET Nat
    /\ Idle.step = "idle"
  BY DEF Idle, Rotating, Changing

LEMMA SigningFacts ==
    ASSUME KeysTypeOK, KeysInv, NEW t, NEW given
    PROVE  /\ SigningMembers(LoadIssuer) = {secret} \union Members
           /\ Signers(LoadIssuer, t, given) \subseteq {secret} \union Members
           /\ {secret} \union Members \subseteq 1..made
           /\ IsFiniteSet({secret} \union Members)
           /\ IsFiniteSet(Signers(LoadIssuer, t, given))
  <1>1. Overlay
    BY OverlayIsIdle DEF KeysInv
  <1>2. SigningMembers(LoadIssuer) = {secret} \union Members
    BY <1>1 DEF Overlay, SigningMembers, Members
  <1>3. Signers(LoadIssuer, t, given) \subseteq SigningMembers(LoadIssuer)
    BY DEF Signers, SigningMembers
  <1>4. {secret} \union Members \subseteq 1..made /\ made \in Nat
    BY DEF KeysTypeOK, Members
  <1>5. IsFiniteSet(1..made)
    BY <1>4, FS_Interval
  <1>6. IsFiniteSet({secret} \union Members)
    BY <1>4, <1>5, FS_Subset
  <1>7. IsFiniteSet(Signers(LoadIssuer, t, given))
    BY <1>2, <1>3, <1>6, FS_Subset
  <1> QED  BY <1>2, <1>3, <1>4, <1>6, <1>7

LEMMA SignedNowFacts ==
    ASSUME KeysTypeOK, KeysInv, NEW given
    PROVE  /\ SignedNow(given) \subseteq 0..made /\ SignedNow(given) \in SUBSET Nat
           /\ SignedNow(given) = Signers(LoadIssuer, file.threshold, given)
  <1>1. SignedNow(given) = Signers(LoadIssuer, file.threshold, given)
    BY OverlayIsIdle DEF KeysInv, Overlay, SignedNow
  <1>2. SignedNow(given) \subseteq 1..made
    BY <1>1, SigningFacts
  <1> QED  BY <1>1, <1>2 DEF KeysTypeOK

LEMMA AppendElement ==
    ASSUME NEW S, NEW s \in Seq(S), NEW x \in S
    PROVE  /\ Append(s, x) \in Seq(S)
           /\ DOMAIN Append(s, x) = DOMAIN s \union {Len(s) + 1}
           /\ \A k \in DOMAIN s : Append(s, x)[k] = s[k]
           /\ Append(s, x)[Len(s) + 1] = x
  OBVIOUS

Appends(line, op, key, kill, given) ==
    /\ line.op = op /\ line.key = key /\ line.kill = kill
    /\ line.n = file.threshold /\ line.signers = SignedNow(given)
    /\ lines' \in Seq(Lines) /\ DOMAIN lines' = DOMAIN lines \union {Len(lines) + 1}
    /\ \A k \in DOMAIN lines : lines'[k] = lines[k]
    /\ lines'[Len(lines) + 1] = line

LEMMA AppendedFacts ==
    ASSUME KeysTypeOK, KeysInv, NEW op \in Ops, NEW key \in Nat, NEW kill \in Nat, NEW given,
           Append1(op, key, kill, given)
    PROVE  \E line \in Lines : Appends(line, op, key, kill, given)
  <1> DEFINE line == [op |-> op, key |-> key, kill |-> kill, n |-> LoadIssuer.threshold,
                      signers |-> SignedNow(given)]
  <1>1. LoadIssuer.threshold = file.threshold /\ file.threshold \in Nat \ {0}
    BY OverlayIsIdle, IssuerFields DEF KeysInv, Overlay, KeysTypeOK
  <1>2. line \in Lines
    BY <1>1, SignedNowFacts DEF Lines
  <1>3. lines \in Seq(Lines) /\ lines' = Append(lines, line)
    BY DEF KeysTypeOK, Append1
  <1>4. /\ line.op = op /\ line.key = key /\ line.kill = kill
        /\ line.n = file.threshold /\ line.signers = SignedNow(given)
    BY <1>1
  <1> HIDE DEF line
  <1>5. Appends(line, op, key, kill, given)
    BY <1>2, <1>3, <1>4, AppendElement DEF Appends
  <1> QED  BY <1>2, <1>5

\* A line that says no more than the file keeps the file ahead.
LEMMA AppendedAhead ==
    ASSUME KeysTypeOK, KeysInv, NEW op \in Ops, NEW key \in Nat, NEW kill \in Nat, NEW given,
           Append1(op, key, kill, given), file' = file, made' = made,
           op = "issuer_rotate" => key \in DOMAIN file.previous /\ file.previous[key] <= kill
    PROVE  /\ lines' \in Seq(Lines) /\ FileIsAhead'
           /\ \A k \in DOMAIN lines' : lines'[k].signers \subseteq 0..made'
  <1>0. PICK line \in Lines : Appends(line, op, key, kill, given)
    BY AppendedFacts
  <1>1. /\ line.op = op /\ line.key = key /\ line.kill = kill
        /\ line.n = file.threshold /\ line.signers = SignedNow(given)
        /\ lines' \in Seq(Lines) /\ DOMAIN lines' = DOMAIN lines \union {Len(lines) + 1}
        /\ \A k \in DOMAIN lines : lines'[k] = lines[k]
        /\ lines'[Len(lines) + 1] = line
    BY <1>0 DEF Appends
  <1>2. file.threshold \in Nat /\ SignedNow(given) \subseteq 0..made
    BY IssuerFields, SignedNowFacts DEF KeysTypeOK
  <1>3. FileIsAhead'
    <2> SUFFICES ASSUME NEW k \in DOMAIN lines'
                 PROVE  /\ lines'[k].n <= file.threshold
                        /\ lines'[k].op = "issuer_rotate" =>
                              /\ lines'[k].key \in DOMAIN file.previous
                              /\ file.previous[lines'[k].key] <= lines'[k].kill
      BY DEF FileIsAhead
    <2>1. CASE k \in DOMAIN lines
      BY <1>1, <2>1 DEF KeysInv, FileIsAhead
    <2>2. CASE k = Len(lines) + 1
      <3>1. lines'[k] = line /\ file.threshold <= file.threshold
        BY <1>1, <1>2, <2>2
      <3> QED  BY <1>1, <3>1
    <2> QED  BY <1>1, <2>1, <2>2
  <1>4. \A k \in DOMAIN lines' : lines'[k].signers \subseteq 0..made'
    BY <1>1, <1>2 DEF KeysTypeOK
  <1> QED  BY <1>1, <1>3, <1>4

------------------------------------------------------------------------------
(* The steps: types, and the file ahead of the log.                          *)

LEMMA IdleJob == job' = Idle => JobInv'
  BY JobKinds DEF JobInv

LEMMA NewRecord ==
    ASSUME KeysTypeOK, NEW record \in Records, record.signers \subseteq 0..made,
           records' = Append(records, record), made' = made
    PROVE  /\ records' \in Seq(Records)
           /\ \A r \in DOMAIN records' : records'[r].signers \subseteq 0..made'
  <1>1. records \in Seq(Records)
    BY DEF KeysTypeOK
  <1>2. /\ records' \in Seq(Records) /\ DOMAIN records' = DOMAIN records \union {Len(records) + 1}
        /\ \A r \in DOMAIN records : records'[r] = records[r]
        /\ records'[Len(records) + 1] = record
    BY <1>1, AppendElement
  <1> QED  BY <1>2 DEF KeysTypeOK

\* A record that is signed again is the record it was.
LEMMA SignedAgain ==
    ASSUME KeysTypeOK, NEW r \in DOMAIN records, NEW signers \in SUBSET (0..made),
           records' = [records EXCEPT ![r].signers = signers], made' = made
    PROVE  /\ records' \in Seq(Records) /\ DOMAIN records' = DOMAIN records
           /\ \A s \in DOMAIN records : records'[s].planted = records[s].planted
           /\ \A s \in DOMAIN records : s # r => records'[s] = records[s]
           /\ records'[r].signers = signers
           /\ \A s \in DOMAIN records' : records'[s].signers \subseteq 0..made'
  <1>1. records \in Seq(Records) /\ made \in Nat
    BY DEF KeysTypeOK
  <1>2. records[r] \in Records
    BY <1>1
  <1>3. [records[r] EXCEPT !.signers = signers] \in Records
    BY <1>1, <1>2 DEF Records
  <1>4. records' \in Seq(Records)
    BY <1>1, <1>3
  <1>5. /\ DOMAIN records' = DOMAIN records
        /\ \A s \in DOMAIN records : s # r => records'[s] = records[s]
        /\ records'[r] = [records[r] EXCEPT !.signers = signers]
    BY <1>1
  <1>6. records'[r].signers = signers /\ records'[r].planted = records[r].planted
    BY <1>2, <1>5 DEF Records
  <1> QED  BY <1>4, <1>5, <1>6 DEF KeysTypeOK

LEMMA RecordSteps ==
    ASSUME KeysTypeOK, KeysInv, NEW given \in SUBSET Nat,
           \/ IssueRecord(given)
           \/ \E r \in DOMAIN records : KillRecord(r, given)
    PROVE  KeysTypeOK' /\ KeysInv'
  <1>1. /\ job = Idle /\ UNCHANGED <<now, made, secret, file, job>>
        /\ \E op \in {"issue", "kill"} : Append1(op, 0, 0, given)
    BY DEF IssueRecord, KillRecord
  <1>2. /\ lines' \in Seq(Lines) /\ FileIsAhead'
        /\ \A k \in DOMAIN lines' : lines'[k].signers \subseteq 0..made'
    <2>1. PICK op \in {"issue", "kill"} : Append1(op, 0, 0, given)
      BY <1>1
    <2>2. op \in Ops /\ op # "issuer_rotate"
      BY DEF Ops
    <2> QED  BY <1>1, <2>1, <2>2, AppendedAhead
  <1>3. /\ records' \in Seq(Records)
        /\ \A r \in DOMAIN records' : records'[r].signers \subseteq 0..made'
    <2>1. CASE IssueRecord(given)
      <3> DEFINE record == [planted |-> FALSE, signers |-> SignedNow(given)]
      <3>1. records' = Append(records, record)
        BY <2>1 DEF IssueRecord
      <3>2. record \in Records /\ record.signers \subseteq 0..made
        BY SignedNowFacts DEF Records
      <3> HIDE DEF record
      <3> QED  BY <1>1, <3>1, <3>2, NewRecord
    <2>2. ASSUME NEW r \in DOMAIN records, KillRecord(r, given)
          PROVE  <1>3!:
      <3>1. records' = [records EXCEPT ![r].signers = SignedNow(given)]
        BY <2>2 DEF KillRecord
      <3> QED  BY <1>1, <3>1, SignedNowFacts, SignedAgain
    <2> QED  BY <2>1, <2>2
  <1>4. KeysTypeOK'
    BY <1>1, <1>2, <1>3 DEF KeysTypeOK
  <1>5. (DOMAIN file.previous \intersect (file.members \union {secret}) = {})'
    BY <1>1 DEF KeysInv
  <1> QED  BY <1>1, <1>2, <1>4, <1>5, IdleJob DEF KeysInv

\* The old key and its members, and the new key in its place.
LEMMA RotatedCount ==
    ASSUME NEW M \in SUBSET Nat, IsFiniteSet(M), NEW G, NEW old, NEW new, new \notin M, old # new,
           NEW n \in Nat, Cardinality({old} \union (M \intersect G)) >= n
    PROVE  Cardinality({new} \union (((M \ {old}) \union {new}) \intersect G)) >= n
  <1> DEFINE X == (M \ {old}) \intersect G
  <1>1. IsFiniteSet(X) /\ Cardinality(X) \in Nat
    <2>1. X \in SUBSET M
      OBVIOUS
    <2> QED  BY <2>1, FS_Subset, FS_CardinalityType
  <1>2. /\ {old} \union (M \intersect G) = X \union {old}
        /\ {new} \union (((M \ {old}) \union {new}) \intersect G) = X \union {new}
    OBVIOUS
  <1>3. new \notin X /\ old \notin X
    OBVIOUS
  <1> HIDE DEF X
  <1>4. /\ Cardinality(X \union {old}) = Cardinality(X) + 1
        /\ Cardinality(X \union {new}) = Cardinality(X) + 1
    BY <1>1, <1>3, FS_AddElement
  <1> QED  BY <1>2, <1>4

\* What rotate_issuer_key sets out with.
LEMMA BeginsRotation ==
    ASSUME KeysTypeOK, KeysInv, NEW after \in Nat, NEW given \in SUBSET Nat,
           BeginRotate(after, given)
    PROVE  /\ job = Idle /\ UNCHANGED <<now, file, lines, records>>
           /\ made' = made + 1 /\ secret' = made + 1 /\ CanSign(file.threshold, given)
           /\ job' \in Rotating /\ job'.step = "issuer" /\ job'.key = secret
           /\ job'.kill = now + after /\ job'.given = given
           /\ job'.trusted = {r \in DOMAIN records : TrustedRecord(r)}
           /\ job'.issuer = RotatedIssuer'
  <1> DEFINE issuer == LoadIssuer
             next == [issuer EXCEPT
                         !.current = made + 1,
                         !.members = (@ \ {issuer.current}) \union {made + 1},
                         !.previous = [key \in DOMAIN @ \union {issuer.current} |->
                             IF key = issuer.current THEN now + after ELSE @[key]]]
             trusted == {r \in DOMAIN records : TrustedRecord(r)}
  <1>1. /\ job = Idle /\ UNCHANGED <<now, file, lines, records>>
        /\ made' = made + 1 /\ secret' = made + 1 /\ CanSign(issuer.threshold, given)
        /\ job' = [step |-> "issuer", op |-> "issuer_rotate", key |-> issuer.current,
                   kill |-> now + after, given |-> given, next |-> 1,
                   trusted |-> trusted, issuer |-> next]
    BY DEF BeginRotate
  <1>2. Overlay
    BY OverlayIsIdle DEF KeysInv
  <1>3. /\ file \in Issuers /\ secret \in Nat /\ now + after \in Nat /\ made + 1 \in Nat
        /\ file.members \in SUBSET Nat /\ file.previous \in DatedKeys
        /\ file.threshold \in Nat \ {0} /\ DOMAIN file.previous \in SUBSET Nat
    BY IssuerFields, DatedFacts DEF KeysTypeOK
  <1> DEFINE members == ((file.members \intersect (LoggedMembers \union {secret})) \ {secret})
                            \union {made + 1}
             previous == [key \in DOMAIN file.previous \union {secret} |->
                             IF key = secret THEN now + after ELSE file.previous[key]]
  <1>4. next = [current |-> made + 1, members |-> members, previous |-> previous,
                threshold |-> file.threshold]
    <2>1. issuer = [current |-> secret,
                    members |-> file.members \intersect (LoggedMembers \union {secret}),
                    previous |-> file.previous, threshold |-> file.threshold]
      BY <1>2, IssuerFields DEF Overlay
    <2> HIDE DEF issuer
    <2> DEFINE m == (issuer.members \ {issuer.current}) \union {made + 1}
               p == [key \in DOMAIN issuer.previous \union {issuer.current} |->
                        IF key = issuer.current THEN now + after ELSE issuer.previous[key]]
    <2>2. m = members /\ p = previous
      BY <2>1
    <2>3. next = [issuer EXCEPT !.current = made + 1, !.members = m, !.previous = p]
      OBVIOUS
    <2> HIDE DEF members, previous, m, p, next
    <2> QED  BY <2>1, <2>2, <2>3, ChangedIssuer
  <1>5. next \in Issuers
    <2>1. previous \in DatedKeys
      <3>1. DOMAIN file.previous \union {secret} \in SUBSET Nat
        BY <1>3
      <3>2. previous \in [DOMAIN file.previous \union {secret} -> Nat]
        BY <1>3, DatedFacts
      <3> QED  BY <3>1, <3>2, DatedAre
    <2>2. members \in SUBSET Nat
      BY <1>3
    <2> HIDE DEF next, members, previous
    <2> QED  BY <1>3, <1>4, <2>1, <2>2 DEF Issuers
  <1>6. issuer.current = secret /\ issuer.threshold = file.threshold
    BY <1>2 DEF Overlay
  <1>7. trusted \in SUBSET Nat
    BY DEF KeysTypeOK
  <1>8. next = RotatedIssuer'
    <2>1. job'.key = secret /\ job'.kill = now + after
      BY <1>1, <1>6
    <2> HIDE DEF next
    <2> QED  BY <1>1, <1>4, <2>1 DEF RotatedIssuer, LoggedMembers, LinesOf
  <1> HIDE DEF next, trusted, issuer
  <1>9. job' \in Rotating
    BY <1>1, <1>3, <1>5, <1>6, <1>7 DEF Rotating
  <1>10. /\ job'.step = "issuer" /\ job'.key = secret
         /\ job'.kill = now + after /\ job'.given = given
         /\ job'.trusted = trusted /\ job'.issuer = next
    BY <1>1, <1>6
  <1> QED  BY <1>1, <1>6, <1>8, <1>9, <1>10 DEF trusted, issuer

LEMMA BeginRotateStep ==
    ASSUME KeysTypeOK, KeysInv, NEW after \in Nat, NEW given \in SUBSET Nat,
           BeginRotate(after, given)
    PROVE  KeysTypeOK' /\ KeysInv'
  <1>1. /\ job = Idle /\ UNCHANGED <<now, file, lines, records>>
        /\ made' = made + 1 /\ secret' = made + 1 /\ CanSign(file.threshold, given)
        /\ job' \in Rotating /\ job'.step = "issuer" /\ job'.key = secret
        /\ job'.given = given /\ job'.issuer = RotatedIssuer'
    BY BeginsRotation
  <1>2. /\ made \in Nat /\ secret \in 1..made /\ file.members \subseteq 1..made
        /\ DOMAIN file.previous \subseteq 1..made
    BY DEF KeysTypeOK
  <1>3. KeysTypeOK'
    <2>1. 0..made \subseteq 0..(made + 1) /\ 1..made \subseteq 1..(made + 1)
          /\ made + 1 \in 1..(made + 1)
      BY <1>2
    <2> QED  BY <1>1, <2>1 DEF KeysTypeOK
  <1>4. FileIsAhead'
    BY <1>1 DEF KeysInv, FileIsAhead
  <1>5. /\ secret # made + 1 /\ made + 1 \notin file.members
        /\ made + 1 \notin DOMAIN file.previous /\ secret \in 1..(made + 1)
    BY <1>2
  <1>6. (DOMAIN file.previous \intersect (file.members \union {secret}) = {})'
    BY <1>1, <1>5 DEF KeysInv
  <1>7. secret \notin DOMAIN file.previous
    BY DEF KeysInv
  <1>8. (Cardinality(Signers(job.issuer, file.threshold, job.given)) >= file.threshold)'
    <2> DEFINE M == file.members \intersect (LoggedMembers \union {secret})
    <2>1. file.threshold \in Nat
      BY IssuerFields DEF KeysTypeOK
    <2>2. /\ LoadIssuer.current = secret /\ LoadIssuer.members = M
      BY OverlayIsIdle DEF KeysInv, Overlay
    <2>3. /\ job'.issuer.current = made + 1
          /\ job'.issuer.members = (M \ {secret}) \union {made + 1}
      BY <1>1 DEF RotatedIssuer, LoggedMembers, LinesOf
    <2>4. CASE file.threshold = 1
      <3>1. Signers(job'.issuer, file.threshold, given) = {made + 1}
        BY <2>3, <2>4 DEF Signers
      <3>2. Cardinality({made + 1}) = 1
        BY FS_Singleton
      <3> QED  BY <1>1, <2>4, <3>1, <3>2
    <2>5. CASE file.threshold # 1
      <3>1. /\ Signers(job'.issuer, file.threshold, given) =
                  {made + 1} \union (((M \ {secret}) \union {made + 1}) \intersect given)
            /\ Signers(LoadIssuer, file.threshold, given) = {secret} \union (M \intersect given)
        BY <2>2, <2>3, <2>5 DEF Signers
      <3>2. Cardinality({secret} \union (M \intersect given)) >= file.threshold
        BY <1>1, <3>1 DEF CanSign
      <3>3. M \in SUBSET Nat /\ IsFiniteSet(M) /\ made + 1 \notin M
        <4>1. M \in SUBSET (1..made) /\ IsFiniteSet(1..made)
          BY <1>2, FS_Interval
        <4> HIDE DEF M
        <4>2. IsFiniteSet(M)
          BY <4>1, FS_Subset
        <4> QED  BY <1>2, <4>1, <4>2
      <3> HIDE DEF M
      <3>4. Cardinality({made + 1} \union (((M \ {secret}) \union {made + 1}) \intersect given))
                >= file.threshold
        BY <1>5, <2>1, <3>2, <3>3, RotatedCount
      <3> QED  BY <1>1, <3>1, <3>4
    <2> QED  BY <2>4, <2>5
  <1>9. JobInv'
    BY <1>1, <1>5, <1>7, <1>8, JobKinds DEF JobInv
  <1> QED  BY <1>3, <1>4, <1>6, <1>9 DEF KeysInv

LEMMA NextOverlay ==
    ASSUME (KeysTypeOK /\ FileIsAhead)'
    PROVE  Overlay'
  <1>1. (KeysTypeOK /\ FileIsAhead => Overlay)'
    BY OverlayIsIdle, PTL
  <1> QED  BY <1>1

LEMMA JobStep ==
    ASSUME NEW j \in Rotating, NEW step \in {"issuer", "resign", "line"}
    PROVE  LET next == [j EXCEPT !.step = step]
           IN  /\ next \in Rotating /\ next.step = step
               /\ next.key = j.key /\ next.kill = j.kill /\ next.given = j.given
               /\ next.next = j.next /\ next.trusted = j.trusted /\ next.issuer = j.issuer
  BY DEF Rotating

\* What the issuer record of a rotation says once it is saved.
LEMMA SavesRotated ==
    ASSUME KeysTypeOK, KeysInv, job.step = "issuer",
           file' = job.issuer, UNCHANGED <<made, secret, lines>>
    PROVE  /\ job \in Rotating /\ job.key \notin DOMAIN file.previous
           /\ file' \in Issuers /\ file'.current = secret /\ file'.threshold = file.threshold
           /\ file'.members \subseteq 1..made
           /\ file'.members = (Members \ {job.key}) \union {secret}
           /\ DOMAIN file'.previous = DOMAIN file.previous \union {job.key}
           /\ file'.previous[job.key] = job.kill
           /\ \A key \in DOMAIN file.previous : file'.previous[key] = file.previous[key]
           /\ DOMAIN file'.previous \subseteq 1..made
           /\ DOMAIN file'.previous \intersect (file'.members \union {secret}) = {}
           /\ FileIsAhead'
           /\ (file.members \intersect (LoggedMembers \union {secret}))' = file'.members
  <1>1. /\ job \in Rotating /\ job.issuer = RotatedIssuer /\ job.issuer \in Issuers
        /\ job.key \in 1..made /\ job.key # secret
        /\ job.key \notin DOMAIN file.previous /\ secret \notin file.members
    BY JobKinds DEF KeysTypeOK, KeysInv, JobInv
  <1>2. /\ file'.current = secret /\ file'.threshold = file.threshold
        /\ file'.members = (Members \ {job.key}) \union {secret}
        /\ DOMAIN file'.previous = DOMAIN file.previous \union {job.key}
        /\ file'.previous[job.key] = job.kill
        /\ \A key \in DOMAIN file.previous : file'.previous[key] = file.previous[key]
    BY <1>1 DEF RotatedIssuer, Members
  <1>3. DOMAIN file'.previous \subseteq 1..made /\ file'.members \subseteq 1..made
    BY <1>1, <1>2 DEF KeysTypeOK, Members
  <1>4. DOMAIN file'.previous \intersect (file'.members \union {secret}) = {}
    BY <1>1, <1>2 DEF KeysInv, Members
  <1>5. FileIsAhead'
    BY <1>2 DEF KeysInv, FileIsAhead
  <1>6. LoggedMembers' = LoggedMembers
    BY DEF LoggedMembers, LinesOf
  <1>7. (file.members \intersect (LoggedMembers \union {secret}))' = file'.members
    BY <1>2, <1>6 DEF Members
  <1> QED  BY <1>1, <1>2, <1>3, <1>4, <1>5, <1>7

LEMMA SaveRotatedStep ==
    ASSUME KeysTypeOK, KeysInv, SaveRotatedIssuer
    PROVE  KeysTypeOK' /\ KeysInv'
  <1>1. job.step = "issuer" /\ UNCHANGED <<now, made, secret, lines, records>>
    BY DEF SaveRotatedIssuer
  <1>2. CASE MaySaveIssuer(job.issuer, job.given)
    <2>1. file' = job.issuer /\ job' = [job EXCEPT !.step = "resign"]
      BY <1>2 DEF SaveRotatedIssuer
    <2>2. /\ job \in Rotating
          /\ file' \in Issuers /\ file'.current = secret /\ file'.threshold = file.threshold
          /\ file'.members \subseteq 1..made
          /\ DOMAIN file'.previous = DOMAIN file.previous \union {job.key}
          /\ file'.previous[job.key] = job.kill
          /\ DOMAIN file'.previous \subseteq 1..made
          /\ DOMAIN file'.previous \intersect (file'.members \union {secret}) = {}
          /\ FileIsAhead'
          /\ (file.members \intersect (LoggedMembers \union {secret}))' = file'.members
      BY <1>1, <2>1, SavesRotated
    <2>3. /\ job' \in Rotating /\ job'.step = "resign" /\ job'.key = job.key
          /\ job'.kill = job.kill /\ job'.given = job.given
      BY <2>1, <2>2, JobStep
    <2>4. KeysTypeOK'
      BY <1>1, <2>2, <2>3 DEF KeysTypeOK
    <2>5. LoadIssuer'.current = job.issuer.current /\ LoadIssuer'.members = job.issuer.members
      BY <1>1, <2>1, <2>2, <2>4, NextOverlay DEF Overlay
    <2>6. CanSign(file.threshold, job.given)'
      <3>1. Cardinality(Signers(job.issuer, file.threshold, job.given)) >= file.threshold
        BY <1>1, <2>2 DEF KeysInv, JobInv
      <3>2. Signers(LoadIssuer', file'.threshold, job'.given) =
                Signers(job.issuer, file.threshold, job.given)
        BY <2>2, <2>3, <2>5 DEF Signers
      <3> QED  BY <2>2, <3>1, <3>2 DEF CanSign
    <2>7. file'.previous[job'.key] <= job'.kill
      BY <2>2, <2>3, JobKinds
    <2>8. JobInv'
      BY <2>2, <2>3, <2>6, <2>7, JobKinds DEF JobInv
    <2> QED  BY <1>1, <2>2, <2>4, <2>8 DEF KeysInv
  <1>3. CASE ~MaySaveIssuer(job.issuer, job.given)
    <2>1. file' = file /\ job' = Idle
      BY <1>3 DEF SaveRotatedIssuer
    <2>2. KeysTypeOK'
      BY <1>1, <2>1 DEF KeysTypeOK
    <2> QED  BY <1>1, <2>1, <2>2, IdleJob DEF KeysInv, FileIsAhead
  <1> QED  BY <1>2, <1>3

\* Nothing of what JobInv looks at is touched.
LEMMA SameSigning ==
    ASSUME UNCHANGED <<secret, file, lines>>
    PROVE  LoadIssuer' = LoadIssuer /\ Members' = Members /\ (FileIsAhead => FileIsAhead')
  BY DEF LoadIssuer, LoggedMembers, LoggedPrevious, LoggedThreshold, LinesOf, KillDate,
     LoggedKillDate, Members, FileIsAhead

LEMMA ResignStep ==
    ASSUME KeysTypeOK, KeysInv, ResignRecord \/ EndResign
    PROVE  KeysTypeOK' /\ KeysInv'
  <1>1. /\ job.step = "resign" /\ job \in Rotating /\ JobInv
        /\ UNCHANGED <<now, made, secret, file, lines>>
    BY JobKinds DEF ResignRecord, EndResign, KeysTypeOK, KeysInv
  <1>2. /\ job' \in Rotating /\ job'.step # "issuer" /\ job'.key = job.key
        /\ job'.kill = job.kill /\ job'.given = job.given
    <2>1. CASE ResignRecord
      <3>1. job' = [job EXCEPT !.next = @ + 1]
        BY <2>1 DEF ResignRecord
      <3> QED  BY <1>1, <3>1 DEF Rotating
    <2>2. CASE EndResign
      <3>1. job' = [job EXCEPT !.step = "line"]
        BY <2>2 DEF EndResign
      <3> QED  BY <1>1, <3>1, JobStep
    <2> QED  BY <2>1, <2>2
  <1>3. /\ records' \in Seq(Records)
        /\ \A r \in DOMAIN records' : records'[r].signers \subseteq 0..made'
    <2>1. CASE ResignRecord
      <3> DEFINE signers == IF TrustedRecord(job.next) THEN SignedNow(job.given)
                            ELSE records[job.next].signers
      <3>1. /\ job.next \in DOMAIN records
            /\ records' = [records EXCEPT ![job.next].signers = signers]
        BY <2>1 DEF ResignRecord
      <3>2. signers \in SUBSET (0..made)
        BY <3>1, SignedNowFacts DEF KeysTypeOK
      <3> HIDE DEF signers
      <3> QED  BY <1>1, <3>1, <3>2, SignedAgain
    <2>2. CASE EndResign
      BY <1>1, <2>2 DEF EndResign, KeysTypeOK
    <2> QED  BY <2>1, <2>2
  <1>4. KeysTypeOK'
    BY <1>1, <1>2, <1>3 DEF KeysTypeOK
  <1>5. CanSign(file.threshold, job.given)'
    <2>1. CanSign(file.threshold, job.given)
      BY <1>1, JobKinds DEF JobInv
    <2>2. LoadIssuer' = LoadIssuer
      BY <1>1, SameSigning
    <2> QED  BY <1>1, <1>2, <2>1, <2>2 DEF CanSign, Signers
  <1>6. JobInv'
    BY <1>1, <1>2, <1>5, JobKinds DEF JobInv
  <1> QED  BY <1>1, <1>4, <1>6, SameSigning DEF KeysInv

LEMMA LoadedIssuer ==
    ASSUME Overlay
    PROVE  LoadIssuer = [current |-> secret,
                         members |-> file.members \intersect (LoggedMembers \union {secret}),
                         previous |-> file.previous, threshold |-> file.threshold]
  BY IssuerFields DEF Overlay

\* What a new member or a new threshold saves.
LEMMA SavesChanged ==
    ASSUME KeysTypeOK, KeysInv, UNCHANGED <<now, secret, lines, records>>,
           NEW given \in SUBSET Nat, made' \in Nat, made' >= made,
           NEW members \in SUBSET (1..made'), NEW t \in Nat,
           file.members \intersect (LoggedMembers \union {secret}) \subseteq members,
           members \intersect DOMAIN file.previous = {},
           t >= file.threshold,
           file' = [current |-> secret, members |-> members, previous |-> file.previous,
                    threshold |-> t],
           job' \in Changing, job'.given = given, CanSign(t, given)
    PROVE  KeysTypeOK' /\ KeysInv'
  <1>1. /\ file.previous \in DatedKeys /\ file.threshold \in Nat \ {0} /\ secret \in Nat
        /\ members \in SUBSET Nat /\ t \in Nat \ {0}
    BY IssuerFields DEF KeysTypeOK
  <1>2. file' \in Issuers
    BY <1>1 DEF Issuers
  <1>3. 1..made \subseteq 1..made' /\ 0..made \subseteq 0..made'
    BY DEF KeysTypeOK
  <1>4. KeysTypeOK'
    BY <1>2, <1>3 DEF KeysTypeOK
  <1>5. FileIsAhead'
    <2> SUFFICES ASSUME NEW k \in DOMAIN lines
                 PROVE  /\ lines[k].n <= t
                        /\ lines[k].op = "issuer_rotate" =>
                              /\ lines[k].key \in DOMAIN file.previous
                              /\ file.previous[lines[k].key] <= lines[k].kill
      BY DEF FileIsAhead
    <2>1. lines[k].n \in Nat /\ lines[k].n <= file.threshold
      BY LineFields DEF KeysInv, FileIsAhead
    <2>2. lines[k].n <= t
      BY <1>1, <2>1
    <2> QED  BY <2>2 DEF KeysInv, FileIsAhead
  <1>6. (DOMAIN file.previous \intersect (file.members \union {secret}) = {})'
    BY DEF KeysInv
  <1>7. /\ LoadIssuer.current = secret
        /\ LoadIssuer.members = file.members \intersect (LoggedMembers \union {secret})
    BY OverlayIsIdle DEF KeysInv, Overlay
  <1>8. /\ LoadIssuer'.current = secret
        /\ LoadIssuer'.members = members \intersect (LoggedMembers \union {secret})
    <2>1. LoggedMembers' = LoggedMembers
      BY DEF LoggedMembers, LinesOf
    <2> QED  BY <1>4, <1>5, <2>1, NextOverlay DEF Overlay
  <1>9. CanSign(file.threshold, job.given)'
    <2> DEFINE S == Signers(LoadIssuer, t, given)
               T == Signers(LoadIssuer', t, given)
    <2>1. S \subseteq T
      BY <1>7, <1>8 DEF Signers
    <2>2. IsFiniteSet(T)
      <3>1. T \subseteq {secret} \union members
        BY <1>8 DEF Signers
      <3>2. secret \in 1..made'
        BY <1>3 DEF KeysTypeOK
      <3>3. IsFiniteSet(1..made')
        BY FS_Interval
      <3> HIDE DEF T
      <3>4. T \in SUBSET (1..made')
        BY <3>1, <3>2
      <3> QED  BY <3>3, <3>4, FS_Subset
    <2>3. Cardinality(S) >= t
      BY DEF CanSign
    <2> HIDE DEF S, T
    <2>4. Cardinality(T) \in Nat /\ Cardinality(S) \in Nat /\ Cardinality(S) <= Cardinality(T)
      BY <2>1, <2>2, FS_Subset, FS_CardinalityType
    <2>5. Cardinality(T) >= t
      BY <2>3, <2>4
    <2> QED  BY <2>5 DEF CanSign, T
  <1>10. JobInv'
    BY <1>9, JobKinds DEF JobInv
  <1> QED  BY <1>4, <1>5, <1>6, <1>10 DEF KeysInv

LEMMA AddMemberStep ==
    ASSUME KeysTypeOK, KeysInv, NEW given \in SUBSET Nat, AddIssuerMember(given)
    PROVE  KeysTypeOK' /\ KeysInv'
  <1> DEFINE M == file.members \intersect (LoggedMembers \union {secret})
             members == M \union {made + 1}
  <1>1. Overlay
    BY OverlayIsIdle DEF KeysInv
  <1>2. /\ made' = made + 1 /\ UNCHANGED <<now, secret, lines, records>>
        /\ file' = [LoadIssuer EXCEPT !.members = @ \union {made + 1}]
        /\ job' = [step |-> "line", op |-> "issuer_member_add", key |-> made + 1,
                   kill |-> 0, given |-> given]
        /\ CanSign(LoadIssuer.threshold, given)
    BY DEF AddIssuerMember
  <1>3. file' = [current |-> secret, members |-> members, previous |-> file.previous,
                 threshold |-> file.threshold]
    BY <1>1, <1>2, LoadedIssuer
  <1>4. /\ made \in Nat /\ members \in SUBSET (1..(made + 1))
        /\ members \intersect DOMAIN file.previous = {} /\ M \subseteq members
    BY DEF KeysTypeOK, KeysInv
  <1>5. CanSign(file.threshold, given) /\ file.threshold \in Nat
    BY <1>1, <1>2, IssuerFields DEF Overlay, KeysTypeOK
  <1>6. job' \in Changing /\ job'.given = given
    BY <1>2, <1>4 DEF Changing
  <1>7. made' \in Nat /\ made' >= made /\ file.threshold >= file.threshold
    BY <1>2, <1>4, <1>5
  <1> HIDE DEF members
  <1> QED  BY <1>2, <1>3, <1>4, <1>5, <1>6, <1>7, SavesChanged

LEMMA SetThresholdStep ==
    ASSUME KeysTypeOK, KeysInv, NEW given \in SUBSET Nat, NEW threshold \in Thresholds,
           SetIssuerThreshold(threshold, given)
    PROVE  KeysTypeOK' /\ KeysInv'
  <1> DEFINE members == file.members \intersect (LoggedMembers \union {secret})
  <1>1. Overlay
    BY OverlayIsIdle DEF KeysInv
  <1>2. /\ made' = made /\ UNCHANGED <<now, secret, lines, records>>
        /\ file' = [LoadIssuer EXCEPT !.threshold = threshold]
        /\ job' = [step |-> "line", op |-> "issuer_threshold", key |-> 0, kill |-> 0,
                   given |-> given]
        /\ CanSign(threshold, given) /\ threshold > LoadIssuer.threshold
    BY DEF SetIssuerThreshold
  <1>3. file' = [current |-> secret, members |-> members, previous |-> file.previous,
                 threshold |-> threshold]
    BY <1>1, <1>2, LoadedIssuer
  <1>4. /\ made \in Nat /\ members \in SUBSET (1..made)
        /\ members \intersect DOMAIN file.previous = {}
    BY DEF KeysTypeOK, KeysInv
  <1>5. file.threshold \in Nat /\ threshold \in Nat /\ threshold >= file.threshold
    BY <1>1, <1>2, IssuerFields, IssuerKeysAssumption DEF Overlay, KeysTypeOK
  <1>6. job' \in Changing /\ job'.given = given
    BY <1>2 DEF Changing
  <1>7. made' \in Nat /\ made' >= made
    BY <1>2, <1>4
  <1> HIDE DEF members
  <1>8. members \subseteq members
    OBVIOUS
  <1> QED  BY <1>2, <1>3, <1>4, <1>5, <1>6, <1>7, <1>8, SavesChanged DEF members

LEMMA JobLineStep ==
    ASSUME KeysTypeOK, KeysInv, AppendJobLine
    PROVE  KeysTypeOK' /\ KeysInv'
  <1>1. /\ job.step = "line" /\ Append1(job.op, job.key, job.kill, job.given) /\ job' = Idle
        /\ UNCHANGED <<now, made, secret, file, records>>
    BY DEF AppendJobLine
  <1>2. /\ job \in Rotating \union Changing /\ job.op \in Ops
        /\ job.key \in Nat /\ job.kill \in Nat
        /\ job.op = "issuer_rotate" =>
              job.key \in DOMAIN file.previous /\ file.previous[job.key] <= job.kill
    BY <1>1, JobKinds DEF KeysTypeOK, KeysInv, JobInv, Ops
  <1>3. /\ lines' \in Seq(Lines) /\ FileIsAhead'
        /\ \A k \in DOMAIN lines' : lines'[k].signers \subseteq 0..made'
    BY <1>1, <1>2, AppendedAhead
  <1>4. KeysTypeOK'
    BY <1>1, <1>3 DEF KeysTypeOK
  <1> QED  BY <1>1, <1>3, <1>4, IdleJob DEF KeysInv

LEMMA PlantStep ==
    ASSUME KeysTypeOK, KeysInv, NEW signers \in PlantedSigners, Plant(signers)
    PROVE  KeysTypeOK' /\ KeysInv'
  <1> DEFINE record == [planted |-> TRUE, signers |-> signers]
  <1>1. signers \subseteq 0..made
    <2>1. LoadIssuer.previous = file.previous
      BY OverlayIsIdle DEF KeysInv, Overlay
    <2>2. 0 \in 0..made /\ 1..made \subseteq 0..made
      BY DEF KeysTypeOK
    <2> QED  BY <2>1, <2>2 DEF PlantedSigners, Foreign, KeysTypeOK
  <1>2. /\ records' = Append(records, record)
        /\ UNCHANGED <<now, made, secret, file, lines, job>> /\ job' = Idle
    BY DEF Plant
  <1>3. record \in Records /\ record.signers \subseteq 0..made
    <2>1. signers \in SUBSET Nat
      BY <1>1 DEF KeysTypeOK
    <2> QED  BY <1>1, <2>1 DEF Records
  <1> HIDE DEF record
  <1>4. /\ records' \in Seq(Records)
        /\ \A r \in DOMAIN records' : records'[r].signers \subseteq 0..made'
    BY <1>2, <1>3, NewRecord
  <1>5. KeysTypeOK'
    BY <1>2, <1>4 DEF KeysTypeOK
  <1> QED  BY <1>2, <1>5, IdleJob, SameSigning DEF KeysInv

LEMMA KeysStep ==
    ASSUME KeysTypeOK, KeysInv, [KeysNext]_keyVars
    PROVE  KeysTypeOK' /\ KeysInv'
  <1>1. ASSUME NEW given \in {{}, LoadIssuer.members}, Operation(given)
        PROVE  KeysTypeOK' /\ KeysInv'
    <2>1. given \in SUBSET Nat
      BY OverlayIsIdle, IssuerFields DEF KeysInv, Overlay
    <2>2. \A after \in KillDelays : after \in Nat
      BY IssuerKeysAssumption
    <2> QED  BY <1>1, <2>1, <2>2, RecordSteps, BeginRotateStep, AddMemberStep,
                SetThresholdStep DEF Operation
  <1>2. CASE Crash
    <2>1. job' = Idle /\ UNCHANGED <<now, made, secret, file, lines, records>>
      BY <1>2 DEF Crash
    <2>2. KeysTypeOK'
      BY <2>1 DEF KeysTypeOK
    <2> QED  BY <2>1, <2>2, IdleJob, SameSigning DEF KeysInv
  <1>3. CASE Tick
    <2>1. job' = Idle /\ now' = now + 1 /\ UNCHANGED <<made, secret, file, lines, records>>
      BY <1>3 DEF Tick
    <2>2. KeysTypeOK'
      BY <2>1 DEF KeysTypeOK
    <2> QED  BY <2>1, <2>2, IdleJob, SameSigning DEF KeysInv
  <1>4. CASE UNCHANGED keyVars
    <2>1. UNCHANGED <<now, made, secret, file, lines, records, job>>
      BY <1>4 DEF keyVars
    <2>2. KeysTypeOK'
      BY <2>1 DEF KeysTypeOK
    <2>3. LoadIssuer' = LoadIssuer /\ FileIsAhead'
      BY <2>1, SameSigning DEF KeysInv
    <2>4. JobInv'
      BY <2>1, <2>3 DEF KeysInv, JobInv, RotatedIssuer, LoggedMembers, LinesOf, CanSign, Signers
    <2> QED  BY <2>1, <2>2, <2>3, <2>4 DEF KeysInv
  <1> QED  BY <1>1, <1>2, <1>3, <1>4, SaveRotatedStep, ResignStep, JobLineStep, PlantStep
           DEF KeysNext

LEMMA KeysStart == KeysInit => KeysTypeOK /\ KeysInv
  <1> SUFFICES ASSUME KeysInit PROVE KeysTypeOK /\ KeysInv
    OBVIOUS
  <1>1. << >> \in [{} -> Nat] /\ DOMAIN << >> = {} /\ << >> \in DatedKeys
    <2>1. << >> \in Seq(Nat) /\ Len(<< >>) = 0 /\ DOMAIN << >> = {}
      OBVIOUS
    <2>2. << >> \in [{} -> Nat]
      BY <2>1
    <2> QED  BY <2>1, <2>2, DatedAre
  <1>2. file \in Issuers
    BY <1>1 DEF KeysInit, Issuers
  <1>3. /\ now = 0 /\ made = 1 /\ secret = 1 /\ file.members = {1} /\ file.previous = << >>
        /\ lines = <<>> /\ records = <<>> /\ job = Idle
    BY DEF KeysInit
  <1>4. <<>> \in Seq(Lines) /\ <<>> \in Seq(Records)
    OBVIOUS
  <1>5. KeysTypeOK
    BY <1>1, <1>2, <1>3, <1>4 DEF KeysTypeOK
  <1>6. JobInv
    BY <1>3, JobKinds DEF JobInv
  <1> QED  BY <1>1, <1>3, <1>5, <1>6 DEF KeysInv, FileIsAhead

\* The invariant of keys, files, lines and jobs.
THEOREM KeysSafe == KeysSpec => [](KeysTypeOK /\ KeysInv)
  <1>1. (KeysTypeOK /\ KeysInv) /\ [KeysNext]_keyVars => (KeysTypeOK /\ KeysInv)'
    BY KeysStep
  <1> QED  BY <1>1, KeysStart, PTL DEF KeysSpec

------------------------------------------------------------------------------
(* Planted records.                                                          *)

LEMMA NoTrust ==
    ASSUME KeysTypeOK, KeysInv, NEW signers, Untrusted(signers)
    PROVE  ~Signed(signers, RecordKeys, LoadIssuer.threshold)
  <1> DEFINE counted == signers \intersect RecordKeys
  <1>1. Overlay
    BY OverlayIsIdle DEF KeysInv
  <1>2. LoadIssuer.threshold = file.threshold /\ file.threshold \in Nat \ {0}
    BY <1>1, IssuerFields DEF Overlay, KeysTypeOK
  <1>3. RecordKeys = {secret} \union Members
            \union {key \in DOMAIN file.previous : now < file.previous[key]}
    BY <1>1, SigningFacts DEF Overlay, RecordKeys
  <1>4. Cardinality({}) = 0 /\ \A x : Cardinality({x}) = 1
    BY FS_EmptySet, FS_Singleton
  <1>5. CASE signers \subseteq {Foreign}
    <2>1. RecordKeys \subseteq 1..made
      BY <1>3, SigningFacts DEF KeysTypeOK
    <2>2. counted = {}
      BY <1>5, <2>1 DEF Foreign, KeysTypeOK
    <2> QED  BY <1>2, <1>4, <2>2 DEF Signed
  <1>6. ASSUME NEW key \in DOMAIN file.previous, signers = {key}, now >= file.previous[key]
        PROVE  ~Signed(signers, RecordKeys, LoadIssuer.threshold)
    <2>1. key \notin {secret} \union Members
      BY DEF KeysInv, Members
    <2>2. ~(now < file.previous[key])
      <3>1. file.previous[key] \in Nat
        BY IssuerFields, DatedFacts DEF KeysTypeOK
      <3> QED  BY <1>6, <3>1 DEF KeysTypeOK
    <2>3. counted = {}
      BY <1>3, <1>6, <2>1, <2>2
    <2> QED  BY <1>2, <1>4, <2>3 DEF Signed
  <1>7. ASSUME NEW key, signers = {key}, file.threshold > 1
        PROVE  ~Signed(signers, RecordKeys, LoadIssuer.threshold)
    <2>1. counted = {} \/ counted = {key}
      BY <1>7
    <2>2. Cardinality(counted) \in {0, 1}
      BY <1>4, <2>1
    <2> HIDE DEF counted
    <2>3. ~(Cardinality(counted) >= file.threshold)
      BY <1>2, <1>7, <2>2
    <2> QED  BY <1>2, <2>3 DEF Signed, counted
  <1> QED  BY <1>5, <1>6, <1>7 DEF Untrusted

\* Time, keys and threshold only grow, and a previous key keeps its date.
LEMMA FileMoves ==
    ASSUME KeysTypeOK, KeysInv, [KeysNext]_keyVars
    PROVE  /\ now' >= now /\ made' >= made /\ file'.threshold >= file.threshold
           /\ \A key \in DOMAIN file.previous :
                 key \in DOMAIN file'.previous /\ file'.previous[key] = file.previous[key]
  <1>0. now \in Nat /\ made \in Nat /\ file.threshold \in Nat
    BY IssuerFields DEF KeysTypeOK
  <1>1. ASSUME NEW given, IssueRecord(given) \/ \E r \in DOMAIN records : KillRecord(r, given)
        PROVE  UNCHANGED <<now, made, file>>
    BY <1>1 DEF IssueRecord, KillRecord
  <1>2. ASSUME NEW given, NEW after, BeginRotate(after, given)
        PROVE  now' = now /\ made' = made + 1 /\ file' = file
    BY <1>2 DEF BeginRotate
  <1>3. CASE SaveRotatedIssuer
    <2>1. job.step = "issuer" /\ UNCHANGED <<now, made, secret, lines>>
          /\ (file' = job.issuer \/ file' = file)
      BY <1>3 DEF SaveRotatedIssuer
    <2>2. CASE file' = job.issuer
      BY <1>0, <2>1, <2>2, SavesRotated
    <2> QED  BY <1>0, <2>1, <2>2
  <1>4. ASSUME NEW given, AddIssuerMember(given)
        PROVE  /\ now' = now /\ made' = made + 1 /\ file'.threshold = file.threshold
               /\ file'.previous = file.previous
    <2>1. /\ now' = now /\ made' = made + 1
          /\ file' = [LoadIssuer EXCEPT !.members = @ \union {made + 1}]
      BY <1>4 DEF AddIssuerMember
    <2> QED  BY <2>1, OverlayIsIdle, LoadedIssuer DEF KeysInv
  <1>5. ASSUME NEW given, NEW threshold \in Thresholds, SetIssuerThreshold(threshold, given)
        PROVE  /\ UNCHANGED <<now, made>> /\ file'.threshold >= file.threshold
               /\ file'.previous = file.previous
    <2>1. /\ UNCHANGED <<now, made>> /\ threshold > LoadIssuer.threshold
          /\ file' = [LoadIssuer EXCEPT !.threshold = threshold] /\ threshold \in Nat
      BY <1>5, IssuerKeysAssumption DEF SetIssuerThreshold
    <2>2. Overlay
      BY OverlayIsIdle DEF KeysInv
    <2>3. file'.threshold = threshold /\ file'.previous = file.previous
      BY <2>1, <2>2, LoadedIssuer
    <2> QED  BY <1>0, <2>1, <2>2, <2>3 DEF Overlay
  <1>6. CASE ResignRecord \/ EndResign \/ AppendJobLine \/ Crash \/ UNCHANGED keyVars
    BY <1>0, <1>6 DEF ResignRecord, EndResign, AppendJobLine, Crash, keyVars
  <1>7. ASSUME NEW signers, Plant(signers)
        PROVE  UNCHANGED <<now, made, file>>
    BY <1>7 DEF Plant
  <1>8. CASE Tick
    BY <1>0, <1>8 DEF Tick
  <1>9. ASSUME NEW given, Operation(given)
        PROVE  /\ now' >= now /\ made' >= made /\ file'.threshold >= file.threshold
               /\ \A key \in DOMAIN file.previous :
                     key \in DOMAIN file'.previous /\ file'.previous[key] = file.previous[key]
    BY <1>0, <1>1, <1>2, <1>4, <1>5, <1>9 DEF Operation
  <1> QED  BY <1>0, <1>3, <1>6, <1>7, <1>8, <1>9 DEF KeysNext

LEMMA UntrustedStays ==
    ASSUME KeysTypeOK, KeysInv, [KeysNext]_keyVars, NEW signers, Untrusted(signers)
    PROVE  Untrusted(signers)'
  <1>1. /\ now' >= now /\ made' >= made /\ file'.threshold >= file.threshold
        /\ \A key \in DOMAIN file.previous :
              key \in DOMAIN file'.previous /\ file'.previous[key] = file.previous[key]
    BY FileMoves
  <1>2. /\ now \in Nat /\ made \in Nat /\ file.threshold \in Nat
        /\ now' \in Nat /\ made' \in Nat /\ file'.threshold \in Nat
        /\ \A key \in DOMAIN file.previous : file.previous[key] \in Nat
    BY KeysStep, IssuerFields, DatedFacts DEF KeysTypeOK
  <1>3. CASE signers \subseteq {Foreign}
    BY <1>3 DEF Untrusted
  <1>4. ASSUME NEW key \in DOMAIN file.previous, signers = {key}, now >= file.previous[key]
        PROVE  Untrusted(signers)'
    <2>1. key \in DOMAIN file'.previous /\ now' >= file'.previous[key]
      BY <1>1, <1>2, <1>4
    <2> QED  BY <1>4, <2>1 DEF Untrusted
  <1>5. ASSUME NEW key \in 1..made, signers = {key}, file.threshold > 1
        PROVE  Untrusted(signers)'
    <2>1. key \in 1..made' /\ file'.threshold > 1
      BY <1>1, <1>2, <1>5
    <2> QED  BY <1>5, <2>1 DEF Untrusted
  <1> QED  BY <1>3, <1>4, <1>5 DEF Untrusted

\* Only what is trusted is signed again.
LEMMA NotLaundered ==
    ASSUME KeysTypeOK, KeysInv, PlantedInv, NEW r \in DOMAIN records, TrustedRecord(r)
    PROVE  ~records[r].planted
  BY NoTrust DEF PlantedInv, TrustedRecord

LEMMA PlantedMoves ==
    ASSUME KeysTypeOK, KeysInv, PlantedInv, [KeysNext]_keyVars,
           NEW r \in DOMAIN records', records'[r].planted
    PROVE  \/ /\ r \in DOMAIN records /\ records[r].planted
              /\ records'[r].signers = records[r].signers
           \/ Untrusted(records'[r].signers)
  <1>1. CASE records' = records
    BY <1>1
  <1>2. ASSUME NEW given, IssueRecord(given)
        PROVE  /\ r \in DOMAIN records /\ records[r].planted
               /\ records'[r].signers = records[r].signers
    <2> DEFINE record == [planted |-> FALSE, signers |-> SignedNow(given)]
    <2>1. records' = Append(records, record) /\ ~record.planted
      BY <1>2 DEF IssueRecord
    <2>2. record \in Records /\ records \in Seq(Records)
      BY SignedNowFacts DEF Records, KeysTypeOK
    <2> HIDE DEF record
    <2>3. /\ DOMAIN records' = DOMAIN records \union {Len(records) + 1}
          /\ \A s \in DOMAIN records : records'[s] = records[s]
          /\ records'[Len(records) + 1] = record
      BY <2>1, <2>2, AppendElement
    <2> QED  BY <2>1, <2>3
  <1>3. ASSUME NEW s \in DOMAIN records, TrustedRecord(s), NEW signers \in SUBSET (0..made),
               records' = [records EXCEPT ![s].signers = signers], made' = made
        PROVE  /\ r \in DOMAIN records /\ records[r].planted
               /\ records'[r].signers = records[r].signers
    <2>1. /\ DOMAIN records' = DOMAIN records
          /\ \A x \in DOMAIN records : records'[x].planted = records[x].planted
          /\ \A x \in DOMAIN records : x # s => records'[x] = records[x]
      BY <1>3, SignedAgain
    <2>2. ~records[s].planted
      BY <1>3, NotLaundered
    <2> QED  BY <2>1, <2>2
  <1>4. ASSUME NEW given, NEW s \in DOMAIN records, KillRecord(s, given)
        PROVE  /\ r \in DOMAIN records /\ records[r].planted
               /\ records'[r].signers = records[r].signers
    <2>1. /\ TrustedRecord(s) /\ made' = made
          /\ records' = [records EXCEPT ![s].signers = SignedNow(given)]
      BY <1>4 DEF KillRecord
    <2> QED  BY <1>3, <2>1, SignedNowFacts
  <1>5. CASE ResignRecord
    <2>1. /\ job.next \in DOMAIN records /\ made' = made
          /\ records' = [records EXCEPT ![job.next].signers =
                            IF TrustedRecord(job.next) THEN SignedNow(job.given) ELSE @]
      BY <1>5 DEF ResignRecord
    <2>2. CASE TrustedRecord(job.next)
      <3>1. records' = [records EXCEPT ![job.next].signers = SignedNow(job.given)]
        BY <2>1, <2>2
      <3> QED  BY <1>3, <2>1, <2>2, <3>1, SignedNowFacts
    <2>3. CASE ~TrustedRecord(job.next)
      <3> DEFINE signers == records[job.next].signers
      <3>1. records' = [records EXCEPT ![job.next].signers = signers]
        BY <2>1, <2>3
      <3>2. signers \in SUBSET (0..made)
        BY <2>1 DEF KeysTypeOK
      <3> HIDE DEF signers
      <3>3. /\ DOMAIN records' = DOMAIN records
            /\ \A x \in DOMAIN records : records'[x].planted = records[x].planted
            /\ \A x \in DOMAIN records : x # job.next => records'[x] = records[x]
            /\ records'[job.next].signers = signers
        BY <2>1, <3>1, <3>2, SignedAgain
      <3> QED  BY <3>3 DEF signers
    <2> QED  BY <2>2, <2>3
  <1>6. ASSUME NEW signers \in PlantedSigners, Plant(signers)
        PROVE  \/ /\ r \in DOMAIN records /\ records[r].planted
                  /\ records'[r].signers = records[r].signers
               \/ Untrusted(records'[r].signers)
    <2> DEFINE record == [planted |-> TRUE, signers |-> signers]
    <2>1. Untrusted(signers)
      <3>1. Overlay /\ secret \in 1..made
        BY OverlayIsIdle DEF KeysInv, KeysTypeOK
      <3> QED  BY <3>1 DEF Overlay, PlantedSigners, Untrusted
    <2>2. records' = Append(records, record) /\ record.signers = signers
      BY <1>6 DEF Plant
    <2>3. record \in Records /\ records \in Seq(Records)
      <3>1. signers \in SUBSET Nat
        BY <2>1 DEF Untrusted, Foreign, KeysTypeOK
      <3> QED  BY <3>1 DEF Records, KeysTypeOK
    <2> HIDE DEF record
    <2>4. /\ DOMAIN records' = DOMAIN records \union {Len(records) + 1}
          /\ \A s \in DOMAIN records : records'[s] = records[s]
          /\ records'[Len(records) + 1] = record
      BY <2>2, <2>3, AppendElement
    <2> QED  BY <2>1, <2>2, <2>4
  <1>7. ASSUME NEW given, Operation(given)
        PROVE  \/ /\ r \in DOMAIN records /\ records[r].planted
                  /\ records'[r].signers = records[r].signers
               \/ Untrusted(records'[r].signers)
    BY <1>1, <1>2, <1>4, <1>7 DEF Operation, BeginRotate, AddIssuerMember, SetIssuerThreshold
  <1>8. CASE SaveRotatedIssuer \/ EndResign \/ AppendJobLine \/ Crash \/ Tick \/ UNCHANGED keyVars
    BY <1>1, <1>8 DEF SaveRotatedIssuer, EndResign, AppendJobLine, Crash, Tick, keyVars
  <1> QED  BY <1>5, <1>6, <1>7, <1>8 DEF KeysNext

\* A planted record is never trusted, whatever was rotated, raised or cut short:
\* an old key past its date stays so, and a signature too few stays too few.
THEOREM PlantedStaysUntrusted == KeysSpec => []PlantedNeverTrusted
  <1>1. KeysInit => PlantedInv
    BY DEF KeysInit, PlantedInv
  <1>2. (KeysTypeOK /\ KeysInv) /\ PlantedInv /\ [KeysNext]_keyVars => PlantedInv'
    <2> SUFFICES ASSUME KeysTypeOK, KeysInv, PlantedInv, [KeysNext]_keyVars
                 PROVE  PlantedInv'
      OBVIOUS
    <2>1. ASSUME NEW r \in DOMAIN records', records'[r].planted,
                 NEW signers, signers = records'[r].signers
          PROVE  Untrusted(signers)'
      <3>1. Untrusted(signers)
        BY <2>1, PlantedMoves DEF PlantedInv
      <3> QED  BY <3>1, UntrustedStays
    <2>2. \A r \in DOMAIN records' : records'[r].planted =>
              \A signers : signers = records'[r].signers =>
                 \/ signers \subseteq {Foreign}
                 \/ \E key \in DOMAIN file'.previous :
                       signers = {key} /\ now' >= file'.previous[key]
                 \/ file'.threshold > 1 /\ \E key \in 1..made' : signers = {key}
      BY <2>1 DEF Untrusted
    <2> QED  BY <2>2 DEF PlantedInv, Untrusted
  <1>3. (KeysTypeOK /\ KeysInv) /\ PlantedInv => PlantedNeverTrusted
    BY NotLaundered DEF PlantedNeverTrusted
  <1> QED  BY <1>1, <1>2, <1>3, KeysSafe, PTL DEF KeysSpec

------------------------------------------------------------------------------
(* The log.                                                                  *)

LEMMA SameLines ==
    ASSUME LinesCount, lines' = lines, SignedKeys \subseteq SignedKeys'
    PROVE  LinesCount'
  <1>1. \A k \in DOMAIN lines : /\ Cardinality(lines[k].signers) >= lines[k].n
                                /\ lines[k].signers \subseteq SignedKeys'
    BY DEF LinesCount
  <1> QED  BY <1>1 DEF LinesCount

\* What is signed now counts, now and later.
LEMMA NewLine ==
    ASSUME KeysTypeOK, KeysInv, LinesCount, secret = file.current,
           NEW op \in Ops, NEW key \in Nat, NEW kill \in Nat, NEW given,
           Append1(op, key, kill, given), CanSign(file.threshold, given), file' = file
    PROVE  LinesCount'
  <1>0. PICK line \in Lines : Appends(line, op, key, kill, given)
    BY AppendedFacts
  <1>1. /\ line.op = op /\ line.key = key
        /\ line.n = file.threshold /\ line.signers = SignedNow(given)
        /\ DOMAIN lines' = DOMAIN lines \union {Len(lines) + 1}
        /\ \A k \in DOMAIN lines : lines'[k] = lines[k]
        /\ lines'[Len(lines) + 1] = line
    BY <1>0 DEF Appends
  <1>2. SignedKeys \subseteq SignedKeys'
    <2>1. LoggedMembers \subseteq LoggedMembers'
      BY <1>1 DEF LoggedMembers, LinesOf
    <2> QED  BY <2>1 DEF SignedKeys, Members
  <1>3. /\ SignedNow(given) \subseteq SignedKeys
        /\ Cardinality(SignedNow(given)) >= file.threshold
    <2>1. /\ SignedNow(given) = Signers(LoadIssuer, file.threshold, given)
          /\ Signers(LoadIssuer, file.threshold, given) \subseteq {secret} \union Members
      BY SignedNowFacts, SigningFacts
    <2> QED  BY <2>1 DEF CanSign, SignedKeys
  <1>4. SignedNow(given) \subseteq SignedKeys'
        /\ \A k \in DOMAIN lines : lines[k].signers \subseteq SignedKeys'
    BY <1>2, <1>3 DEF LinesCount
  <1>5. ASSUME NEW k \in DOMAIN lines'
        PROVE  /\ Cardinality(lines'[k].signers) >= lines'[k].n
               /\ lines'[k].signers \subseteq SignedKeys'
    <2>1. CASE k \in DOMAIN lines
      BY <1>1, <1>4, <2>1 DEF LinesCount
    <2>2. CASE k = Len(lines) + 1
      BY <1>1, <1>3, <1>4, <2>2
    <2> QED  BY <1>1, <2>1, <2>2
  <1> QED  BY <1>5 DEF LinesCount

\* The record that a rotation saves is never refused.
LEMMA NotRefused ==
    ASSUME KeysTypeOK, KeysInv, SecretInFile, job.step = "issuer"
    PROVE  MaySaveIssuer(job.issuer, job.given)
  <1> DEFINE issuer == job.issuer
  <1>1. /\ job \in Rotating /\ issuer = RotatedIssuer /\ job.key = file.current
        /\ job.key \notin DOMAIN file.previous
    BY JobKinds DEF KeysTypeOK, KeysInv, JobInv, SecretInFile
  <1>2. Overlay /\ file.threshold \in Nat
    BY OverlayIsIdle, IssuerFields DEF KeysInv, KeysTypeOK
  <1>3. /\ issuer.current = secret /\ issuer.threshold = file.threshold
        /\ issuer.members \subseteq file.members \union {secret}
        /\ DOMAIN issuer.previous = DOMAIN file.previous \union {job.key}
        /\ \A key \in DOMAIN file.previous : issuer.previous[key] = file.previous[key]
    BY <1>1 DEF RotatedIssuer
  <1> HIDE DEF issuer
  <1>4. \A key \in DOMAIN file.previous \union LoggedPrevious :
           /\ key \in DOMAIN issuer.previous
           /\ issuer.previous[key] <= KillDate(file.previous, key)
    <2>1. \A key \in DOMAIN file.previous : file.previous[key] \in Nat
      BY IssuerFields, DatedFacts DEF KeysTypeOK
    <2> QED  BY <1>2, <1>3, <2>1 DEF Overlay
  <1>5. issuer.threshold >= Max({file.threshold, LoggedThreshold})
    BY <1>2, <1>3 DEF Overlay
  <1>6. issuer.members \subseteq file.members \union {file.current, issuer.current} \union job.given
    BY <1>3
  <1>7. DOMAIN issuer.previous \subseteq DOMAIN file.previous \union {file.current}
    BY <1>1, <1>3
  <1>8. issuer.current = secret /\ file.current \in DOMAIN issuer.previous
    BY <1>1, <1>3
  <1> QED  BY <1>4, <1>5, <1>6, <1>7, <1>8 DEF MaySaveIssuer, issuer

LEMMA LogStep ==
    ASSUME KeysTypeOK, KeysInv, SecretInFile, LinesCount, "issuer" \notin CrashSteps,
           [KeysNext]_keyVars
    PROVE  SecretInFile' /\ LinesCount'
  <1>0. Idle.step = "idle" /\ Idle \notin Rotating /\ Overlay /\ job \in Rotating \union Changing \union {Idle}
    BY JobKinds, OverlayIsIdle DEF KeysInv, KeysTypeOK
  <1>1. ASSUME NEW given, NEW op \in {"issue", "kill"}, job = Idle, Append1(op, 0, 0, given),
               CanSign(LoadIssuer.threshold, given), UNCHANGED <<secret, file, job>>
        PROVE  SecretInFile' /\ LinesCount'
    <2>1. op \in Ops /\ secret = file.current /\ LoadIssuer.threshold = file.threshold
      BY <1>0, <1>1 DEF Ops, SecretInFile, Overlay
    <2>2. LinesCount'
      BY <1>1, <2>1, NewLine
    <2> QED  BY <1>1, <2>2 DEF SecretInFile
  <1>2. ASSUME NEW given \in SUBSET Nat, NEW after \in Nat, BeginRotate(after, given)
        PROVE  SecretInFile' /\ LinesCount'
    <2>1. /\ job = Idle /\ UNCHANGED <<file, lines>> /\ job' \in Rotating
          /\ job'.step = "issuer" /\ job'.key = secret
      BY <1>2, BeginsRotation
    <2>2. SignedKeys' = SignedKeys
      BY <2>1 DEF SignedKeys, Members, LoggedMembers, LinesOf
    <2> QED  BY <1>0, <2>1, <2>2, SameLines DEF SecretInFile
  <1>3. CASE SaveRotatedIssuer
    <2>1. /\ job.step = "issuer" /\ UNCHANGED <<made, secret, lines>>
          /\ file' = job.issuer /\ job' = [job EXCEPT !.step = "resign"]
      BY <1>3, NotRefused DEF SaveRotatedIssuer
    <2>2. /\ job \in Rotating /\ file'.current = secret
          /\ file'.members = (Members \ {job.key}) \union {secret}
          /\ DOMAIN file'.previous = DOMAIN file.previous \union {job.key}
      BY <2>1, SavesRotated
    <2>3. job' \in Rotating /\ job'.step = "resign"
      BY <2>1, <2>2, JobStep
    <2>4. SignedKeys \subseteq SignedKeys'
      <3>1. job.key = file.current
        BY <2>1, <2>2 DEF SecretInFile
      <3>2. LoggedMembers' = LoggedMembers
        BY <2>1 DEF LoggedMembers, LinesOf
      <3> QED  BY <2>2, <3>1, <3>2 DEF SignedKeys, Members
    <2> QED  BY <2>1, <2>2, <2>3, <2>4, SameLines DEF SecretInFile
  <1>4. ASSUME UNCHANGED <<secret, lines>>, job = Idle, job'.step # "issuer",
               file'.current = secret, file'.previous = file.previous,
               file.members \intersect (LoggedMembers \union {secret}) \subseteq file'.members
        PROVE  SecretInFile' /\ LinesCount'
    <2>1. secret = file.current
      BY <1>0, <1>4 DEF SecretInFile
    <2>2. LoggedMembers' = LoggedMembers
      BY <1>4 DEF LoggedMembers, LinesOf
    <2>3. SignedKeys \subseteq SignedKeys'
      BY <1>4, <2>1, <2>2 DEF SignedKeys, Members
    <2> QED  BY <1>4, <2>3, SameLines DEF SecretInFile
  <1>5. ASSUME NEW given, AddIssuerMember(given)
        PROVE  SecretInFile' /\ LinesCount'
    <2>1. /\ job = Idle /\ UNCHANGED <<secret, lines>> /\ job'.step = "line"
          /\ file' = [LoadIssuer EXCEPT !.members = @ \union {made + 1}]
      BY <1>5 DEF AddIssuerMember
    <2>2. /\ file'.current = secret /\ file'.previous = file.previous
          /\ file.members \intersect (LoggedMembers \union {secret}) \subseteq file'.members
      BY <1>0, <2>1, LoadedIssuer
    <2> QED  BY <1>4, <2>1, <2>2
  <1>6. ASSUME NEW given, NEW threshold, SetIssuerThreshold(threshold, given)
        PROVE  SecretInFile' /\ LinesCount'
    <2>1. /\ job = Idle /\ UNCHANGED <<secret, lines>> /\ job'.step = "line"
          /\ file' = [LoadIssuer EXCEPT !.threshold = threshold]
      BY <1>6 DEF SetIssuerThreshold
    <2>2. /\ file'.current = secret /\ file'.previous = file.previous
          /\ file'.members = file.members \intersect (LoggedMembers \union {secret})
      BY <1>0, <2>1, LoadedIssuer
    <2> QED  BY <1>4, <2>1, <2>2
  <1>7. CASE AppendJobLine
    <2>1. /\ job.step = "line" /\ Append1(job.op, job.key, job.kill, job.given)
          /\ job' = Idle /\ UNCHANGED <<secret, file>>
      BY <1>7 DEF AppendJobLine
    <2>2. /\ job.op \in Ops /\ job.key \in Nat /\ job.kill \in Nat
          /\ CanSign(file.threshold, job.given) /\ secret = file.current
      BY <1>0, <2>1, JobKinds DEF KeysInv, JobInv, Ops, SecretInFile
    <2>3. LinesCount'
      BY <2>1, <2>2, NewLine
    <2> QED  BY <1>0, <2>1, <2>2, <2>3 DEF SecretInFile
  <1>8. ASSUME UNCHANGED <<secret, file, lines>>,
               job' = job \/ (job.step # "issuer" /\ job'.step # "issuer")
        PROVE  SecretInFile' /\ LinesCount'
    <2>1. SignedKeys' = SignedKeys
      BY <1>8 DEF SignedKeys, Members, LoggedMembers, LinesOf
    <2> QED  BY <1>8, <2>1, SameLines DEF SecretInFile
  <1>9. CASE ResignRecord \/ EndResign
    <2>1. /\ UNCHANGED <<secret, file, lines>> /\ job.step = "resign"
          /\ job' = [job EXCEPT !.next = @ + 1] \/ job' = [job EXCEPT !.step = "line"]
      BY <1>9 DEF ResignRecord, EndResign
    <2>2. job \in Rotating
      BY <1>0, <2>1, JobKinds
    <2>3. job'.step # "issuer"
      BY <2>1, <2>2 DEF Rotating
    <2> QED  BY <1>8, <2>1, <2>3
  <1>10. CASE Crash
    <2>1. job.step # "issuer" /\ job' = Idle /\ UNCHANGED <<secret, file, lines>>
      BY <1>10 DEF Crash
    <2> QED  BY <1>0, <1>8, <2>1
  <1>11. ASSUME UNCHANGED <<secret, file, lines, job>>
         PROVE  SecretInFile' /\ LinesCount'
    BY <1>8, <1>11
  <1>12. ASSUME NEW given \in SUBSET Nat, Operation(given)
         PROVE  SecretInFile' /\ LinesCount'
    <2>1. \A after \in KillDelays : after \in Nat
      BY IssuerKeysAssumption
    <2>2. ASSUME NEW r \in DOMAIN records, KillRecord(r, given)
          PROVE  SecretInFile' /\ LinesCount'
      BY <1>1, <2>2 DEF KillRecord
    <2>3. CASE IssueRecord(given)
      BY <1>1, <2>3 DEF IssueRecord
    <2> QED  BY <1>2, <1>5, <1>6, <1>12, <2>1, <2>2, <2>3 DEF Operation
  <1>13. \A given \in {{}, LoadIssuer.members} : given \in SUBSET Nat
    BY <1>0, IssuerFields DEF Overlay
  <1>14. ASSUME NEW signers, Plant(signers)
         PROVE  SecretInFile' /\ LinesCount'
    BY <1>11, <1>14 DEF Plant
  <1>15. CASE Tick \/ UNCHANGED keyVars
    BY <1>11, <1>15 DEF Tick, keyVars
  <1> QED  BY <1>3, <1>7, <1>9, <1>10, <1>12, <1>13, <1>14, <1>15 DEF KeysNext

LEMMA LogStart == KeysInit => SecretInFile /\ LinesCount
  BY JobKinds DEF KeysInit, SecretInFile, LinesCount

LEMMA AllVerify ==
    ASSUME KeysTypeOK, KeysInv, LinesCount, secret = file.current, NEW k \in DOMAIN lines
    PROVE  LineVerifies(lines[k])
  <1>1. LogKeys = {secret} \union Members \union DOMAIN file.previous
    BY OverlayIsIdle, SigningFacts DEF KeysInv, Overlay, LogKeys
  <1>2. lines[k].signers \intersect LogKeys = lines[k].signers
    BY <1>1 DEF LinesCount, SignedKeys
  <1> QED  BY <1>2 DEF LinesCount, LineVerifies, Signed

\* Where the process does not die between the new secret and the issuer record
\* that names it, the log verifies between any two operations: the keys that
\* signed a line stay in the issuer record, as members or as previous keys.
THEOREM LogVerifies ==
    ASSUME "issuer" \notin CrashSteps
    PROVE  KeysSpec => []LogStaysVerifiable
  <1>1. (KeysTypeOK /\ KeysInv) /\ (SecretInFile /\ LinesCount) /\ [KeysNext]_keyVars =>
            (SecretInFile /\ LinesCount)'
    BY LogStep
  <1>2. (KeysTypeOK /\ KeysInv) /\ (SecretInFile /\ LinesCount) => LogStaysVerifiable
    <2> SUFFICES ASSUME KeysTypeOK, KeysInv, SecretInFile, LinesCount, job = Idle,
                        NEW k \in DOMAIN lines
                 PROVE  LineVerifies(lines[k])
      BY DEF LogStaysVerifiable
    <2>1. secret = file.current
      BY JobKinds DEF SecretInFile
    <2> QED  BY <2>1, AllVerify
  <1> QED  BY <1>1, <1>2, LogStart, KeysSafe, PTL DEF KeysSpec

------------------------------------------------------------------------------
(* What a rotation found trusted.                                            *)

LEMMA MoreKeys ==
    ASSUME NEW signers, IsFiniteSet(signers), NEW K, NEW L, K \subseteq L, NEW n \in Nat,
           Signed(signers, K, n)
    PROVE  Signed(signers, L, n)
  <1> DEFINE few == signers \intersect K
             more == signers \intersect L
  <1>1. IsFiniteSet(more) /\ few \subseteq more
    <2>1. more \in SUBSET signers
      OBVIOUS
    <2> HIDE DEF more
    <2>2. IsFiniteSet(more)
      BY <2>1, FS_Subset
    <2> QED  BY <2>2 DEF more
  <1>2. Cardinality(few) >= n
    BY DEF Signed
  <1> HIDE DEF few, more
  <1>3. IsFiniteSet(few) /\ Cardinality(few) <= Cardinality(more)
    BY <1>1, FS_Subset
  <1>4. Cardinality(few) \in Nat /\ Cardinality(more) \in Nat
    BY <1>1, <1>3, FS_CardinalityType
  <1>5. Cardinality(more) >= n
    BY <1>2, <1>3, <1>4
  <1> QED  BY <1>5 DEF Signed, more

LEMMA FewSigners ==
    ASSUME KeysTypeOK, NEW r \in DOMAIN records
    PROVE  IsFiniteSet(records[r].signers)
  <1>1. records[r].signers \in SUBSET (0..made) /\ IsFiniteSet(0..made)
    BY FS_Interval DEF KeysTypeOK
  <1> QED  BY <1>1, FS_Subset

\* The old key counts until its date, so all that was trusted still is.
LEMMA BeginTrusted ==
    ASSUME KeysTypeOK, KeysInv, NEW after \in Nat \ {0}, NEW given \in SUBSET Nat,
           BeginRotate(after, given)
    PROVE  TrustedInv'
  <1>1. /\ UNCHANGED <<now, file, lines, records>> /\ secret' = made + 1
        /\ job' \in Rotating /\ job'.step = "issuer" /\ job'.key = secret
        /\ job'.kill = now + after /\ job'.issuer = RotatedIssuer'
        /\ job'.trusted = {r \in DOMAIN records : TrustedRecord(r)}
    BY BeginsRotation
  <1>2. job'.next = 1
    BY DEF BeginRotate
  <1>3. Overlay /\ file.threshold \in Nat /\ now \in Nat
    BY OverlayIsIdle, IssuerFields DEF KeysInv, KeysTypeOK
  <1>4. RecordKeys = {secret} \union (file.members \intersect (LoggedMembers \union {secret}))
            \union {key \in DOMAIN file.previous : now < file.previous[key]}
    BY <1>3 DEF Overlay, RecordKeys, SigningMembers
  <1>5. /\ job'.issuer.members =
              ((file.members \intersect (LoggedMembers \union {secret})) \ {secret})
                  \union {made + 1}
        /\ DOMAIN job'.issuer.previous = DOMAIN file.previous \union {secret}
        /\ job'.issuer.previous[secret] = now + after
        /\ \A key \in DOMAIN file.previous : key # secret =>
              job'.issuer.previous[key] = file.previous[key]
    BY <1>1 DEF RotatedIssuer, LoggedMembers, LinesOf
  <1>6. RecordKeys \subseteq RotatedKeys'
    <2>1. now < now + after
      BY <1>3
    <2> QED  BY <1>1, <1>4, <1>5, <2>1 DEF RotatedKeys
  <1>7. ASSUME NEW r \in job'.trusted
        PROVE  Signed(records[r].signers, RotatedKeys', file.threshold)
    <2>1. r \in DOMAIN records /\ Signed(records[r].signers, RecordKeys, file.threshold)
      BY <1>1, <1>3 DEF Overlay, TrustedRecord
    <2> QED  BY <1>3, <1>6, <2>1, FewSigners, MoreKeys
  <1>8. \A r \in job'.trusted : Signed(records'[r].signers, RotatedKeys', file'.threshold)
    BY <1>1, <1>7
  <1> QED  BY <1>1, <1>2, <1>8 DEF TrustedInv, Signed

LEMMA SaveTrusted ==
    ASSUME KeysTypeOK, KeysInv, TrustedInv, SaveRotatedIssuer
    PROVE  TrustedInv'
  <1>1. job.step = "issuer" /\ UNCHANGED <<now, made, secret, lines, records>>
    BY DEF SaveRotatedIssuer
  <1>2. CASE MaySaveIssuer(job.issuer, job.given)
    <2>1. file' = job.issuer /\ job' = [job EXCEPT !.step = "resign"]
      BY <1>2 DEF SaveRotatedIssuer
    <2>2. /\ job \in Rotating /\ file' \in Issuers /\ file'.current = secret
          /\ file'.threshold = file.threshold
          /\ (file.members \intersect (LoggedMembers \union {secret}))' = file'.members
      BY <1>1, <2>1, SavesRotated
    <2>3. /\ job' \in Rotating /\ job'.step = "resign" /\ job'.next = job.next
          /\ job'.trusted = job.trusted
      BY <2>1, <2>2, JobStep
    <2>4. Overlay'
      BY SaveRotatedStep, NextOverlay DEF KeysInv
    <2>5. RecordKeys' = RotatedKeys
      BY <1>1, <2>1, <2>2, <2>4 DEF Overlay, RecordKeys, SigningMembers, RotatedKeys
    <2>6. /\ job.trusted \subseteq DOMAIN records /\ job.next = 1
          /\ \A r \in job.trusted : Signed(records[r].signers, RotatedKeys, file.threshold)
      BY <1>1, <2>2 DEF TrustedInv
    <2>7. \A r \in DOMAIN records : ~(r < 1)
      BY DEF KeysTypeOK
    <2>8. \A r \in job.trusted : TrustedRecord(r)'
      BY <1>1, <2>2, <2>4, <2>5, <2>6 DEF TrustedRecord, Signed, Overlay
    <2>9. \A r \in job'.trusted : ~(r < job'.next)
      BY <2>3, <2>6, <2>7
    <2> QED  BY <1>1, <2>3, <2>6, <2>8, <2>9 DEF TrustedInv
  <1>3. CASE ~MaySaveIssuer(job.issuer, job.given)
    BY <1>3, JobKinds DEF SaveRotatedIssuer, TrustedInv
  <1> QED  BY <1>2, <1>3

\* Nothing but the records changes: who counts stays.
LEMMA SameCounts ==
    ASSUME UNCHANGED <<now, secret, file, lines>>
    PROVE  RecordKeys' = RecordKeys /\ LoadIssuer' = LoadIssuer
  BY SameSigning DEF RecordKeys, SigningMembers

LEMMA ResignTrusted ==
    ASSUME KeysTypeOK, KeysInv, TrustedInv, ResignRecord
    PROVE  TrustedInv'
  <1>1. /\ job.step = "resign" /\ job.next \in DOMAIN records
        /\ records' = [records EXCEPT ![job.next].signers =
                          IF TrustedRecord(job.next) THEN SignedNow(job.given) ELSE @]
        /\ job' = [job EXCEPT !.next = @ + 1] /\ UNCHANGED <<now, made, secret, file, lines>>
    BY DEF ResignRecord
  <1>2. job \in Rotating /\ CanSign(file.threshold, job.given)
    BY <1>1, JobKinds DEF KeysTypeOK, KeysInv, JobInv
  <1>3. /\ job' \in Rotating /\ job'.step = "resign" /\ job'.next = job.next + 1
        /\ job'.trusted = job.trusted
    BY <1>1, <1>2 DEF Rotating
  <1> DEFINE signers == IF TrustedRecord(job.next) THEN SignedNow(job.given)
                        ELSE records[job.next].signers
  <1>4. /\ DOMAIN records' = DOMAIN records
        /\ \A r \in DOMAIN records : r # job.next => records'[r] = records[r]
        /\ records'[job.next].signers = signers
    <2>1. records' = [records EXCEPT ![job.next].signers = signers]
      BY <1>1
    <2>2. signers \in SUBSET (0..made)
      BY <1>1, SignedNowFacts DEF KeysTypeOK
    <2> HIDE DEF signers
    <2> QED  BY <1>1, <2>1, <2>2, SignedAgain
  <1>5. /\ job.trusted \subseteq DOMAIN records /\ job.next >= 1 /\ job.next \in Nat
        /\ \A r \in job.trusted : IF r < job.next THEN ByMembers(r) ELSE TrustedRecord(r)
    BY <1>1, <1>2, JobKinds DEF TrustedInv
  <1>6. LoadIssuer' = LoadIssuer /\ RecordKeys' = RecordKeys
    BY <1>1, SameCounts
  <1>7. ASSUME NEW r \in job.trusted
        PROVE  IF r < job.next + 1 THEN ByMembers(r)' ELSE TrustedRecord(r)'
    <2>1. r \in Nat /\ r \in DOMAIN records
      BY <1>5 DEF KeysTypeOK
    <2>2. CASE r = job.next
      <3>1. ~(r < job.next) /\ r < job.next + 1
        BY <1>5, <2>2
      <3>2. records'[r].signers = SignedNow(job.given)
        BY <1>4, <1>5, <2>2, <3>1
      <3>3. /\ SignedNow(job.given) = Signers(LoadIssuer, file.threshold, job.given)
            /\ Signers(LoadIssuer, file.threshold, job.given) \subseteq SigningMembers(LoadIssuer)
        BY SignedNowFacts, SigningFacts
      <3>4. SignedNow(job.given) \intersect SigningMembers(LoadIssuer) =
                Signers(LoadIssuer, file.threshold, job.given)
        BY <3>3
      <3>5. Signed(SignedNow(job.given), SigningMembers(LoadIssuer), file.threshold)
        BY <1>2, <3>4 DEF Signed, CanSign
      <3>6. ByMembers(r)'
        BY <1>1, <1>6, <3>2, <3>5 DEF ByMembers, Signed, SigningMembers
      <3> QED  BY <3>1, <3>6
    <2>3. CASE r # job.next
      <3>1. records'[r] = records[r] /\ (r < job.next + 1 <=> r < job.next)
        BY <1>4, <1>5, <2>1, <2>3
      <3>2. (ByMembers(r) => ByMembers(r)') /\ (TrustedRecord(r) => TrustedRecord(r)')
        BY <1>1, <1>6, <3>1 DEF ByMembers, TrustedRecord, Signed, SigningMembers
      <3> QED  BY <1>5, <3>1, <3>2
    <2> QED  BY <2>2, <2>3
  <1>8. job'.next >= 1 /\ job'.trusted \subseteq DOMAIN records'
    BY <1>3, <1>4, <1>5
  <1> QED  BY <1>3, <1>7, <1>8 DEF TrustedInv

LEMMA EndTrusted ==
    ASSUME KeysTypeOK, KeysInv, TrustedInv, EndResign
    PROVE  TrustedInv'
  <1>1. /\ job.step = "resign" /\ job.next \notin DOMAIN records
        /\ job' = [job EXCEPT !.step = "line"] /\ UNCHANGED <<now, made, secret, file, lines, records>>
    BY DEF EndResign
  <1>2. job \in Rotating
    BY <1>1, JobKinds DEF KeysTypeOK
  <1>3. /\ job' \in Rotating /\ job'.step = "line" /\ job'.next = job.next
        /\ job'.trusted = job.trusted
    BY <1>1, <1>2, JobStep
  <1>4. /\ job.trusted \subseteq DOMAIN records /\ job.next >= 1 /\ job.next \in Nat
        /\ \A r \in job.trusted : IF r < job.next THEN ByMembers(r) ELSE TrustedRecord(r)
    BY <1>1, <1>2, JobKinds DEF TrustedInv
  <1>5. \A r \in DOMAIN records : r < job.next
    <2>1. DOMAIN records = 1..Len(records) /\ Len(records) \in Nat
      BY DEF KeysTypeOK
    <2> QED  BY <1>1, <1>4, <2>1
  <1>6. \A r \in job.trusted : ByMembers(r)'
    <2>1. LoadIssuer' = LoadIssuer
      BY <1>1, SameCounts
    <2> QED  BY <1>1, <1>4, <1>5, <2>1 DEF ByMembers, Signed, SigningMembers
  <1> QED  BY <1>1, <1>3, <1>4, <1>6 DEF TrustedInv

LEMMA TrustedStep ==
    ASSUME KeysTypeOK, KeysInv, TrustedInv, 0 \notin KillDelays, [KeysNext]_keyVars
    PROVE  TrustedInv'
  <1>1. ASSUME job' \notin Rotating PROVE TrustedInv'
    BY <1>1 DEF TrustedInv
  <1>2. Idle \notin Rotating /\ Changing \intersect Rotating = {}
    BY JobKinds
  <1>3. ASSUME job = Idle, job' = job PROVE TrustedInv'
    BY <1>1, <1>2, <1>3
  <1>4. ASSUME NEW given \in {{}, LoadIssuer.members}, Operation(given)
        PROVE  TrustedInv'
    <2>1. given \in SUBSET Nat
      BY OverlayIsIdle, IssuerFields DEF KeysInv, Overlay
    <2>2. CASE IssueRecord(given) \/ \E r \in DOMAIN records : KillRecord(r, given)
      BY <1>3, <2>2 DEF IssueRecord, KillRecord
    <2>3. ASSUME NEW after \in KillDelays, BeginRotate(after, given)
          PROVE  TrustedInv'
      <3>1. after \in Nat \ {0}
        BY IssuerKeysAssumption
      <3> QED  BY <2>1, <2>3, <3>1, BeginTrusted
    <2>4. CASE AddIssuerMember(given) \/ \E threshold \in Thresholds :
                                             SetIssuerThreshold(threshold, given)
      <3>1. \E op \in {"issuer_member_add", "issuer_threshold"} : \E key, kill :
               job' = [step |-> "line", op |-> op, key |-> key, kill |-> kill, given |-> given]
        BY <2>4, Zenon DEF AddIssuerMember, SetIssuerThreshold
      <3>2. job'.op # "issuer_rotate"
        BY <3>1
      <3> QED  BY <1>1, <3>2, JobKinds
    <2> QED  BY <1>4, <2>2, <2>3, <2>4 DEF Operation
  <1>5. CASE AppendJobLine \/ Crash
    BY <1>1, <1>2, <1>5 DEF AppendJobLine, Crash
  <1>6. ASSUME NEW signers, Plant(signers) PROVE TrustedInv'
    BY <1>3, <1>6 DEF Plant
  <1>7. CASE Tick
    BY <1>3, <1>7 DEF Tick
  <1>8. CASE UNCHANGED keyVars
    <2>1. UNCHANGED <<now, made, secret, file, lines, records, job>>
      BY <1>8 DEF keyVars
    <2>2. LoadIssuer' = LoadIssuer /\ RecordKeys' = RecordKeys
      BY <2>1, SameCounts
    <2> QED  BY <2>1, <2>2 DEF TrustedInv, RotatedKeys, ByMembers, TrustedRecord, Signed,
                SigningMembers
  <1> QED  BY <1>4, <1>5, <1>6, <1>7, <1>8, SaveTrusted, ResignTrusted, EndTrusted
           DEF KeysNext

\* Where every old key is given a time, a rotation that comes to its line has
\* signed anew all that it found trusted: the old key is needed for none of it.
THEOREM RotationSignsAllAnew ==
    ASSUME 0 \notin KillDelays
    PROVE  KeysSpec => []RotatedRecordsNeedNoOldKey
  <1>1. KeysInit => TrustedInv
    BY JobKinds DEF KeysInit, TrustedInv
  <1>2. (KeysTypeOK /\ KeysInv) /\ TrustedInv /\ [KeysNext]_keyVars => TrustedInv'
    BY TrustedStep
  <1>3. (KeysTypeOK /\ KeysInv) /\ TrustedInv => RotatedRecordsNeedNoOldKey
    <2> SUFFICES ASSUME KeysTypeOK, KeysInv, TrustedInv, job.step = "line",
                        job.op = "issuer_rotate", NEW r \in job.trusted
                 PROVE  Signed(records[r].signers, SigningMembers(LoadIssuer),
                               LoadIssuer.threshold)
      BY DEF RotatedRecordsNeedNoOldKey
    <2>1. job \in Rotating
      BY JobKinds DEF KeysTypeOK
    <2>2. LoadIssuer.threshold = file.threshold
      BY OverlayIsIdle DEF KeysInv, Overlay
    <2> QED  BY <2>1, <2>2 DEF TrustedInv, ByMembers
  <1> QED  BY <1>1, <1>2, <1>3, KeysSafe, PTL DEF KeysSpec

------------------------------------------------------------------------------
(* The backup.                                                               *)

\* A store that is copied is a store: what holds of IssuerKeys holds beside a
\* copy, and until the restore.
THEOREM CopyLeavesStore == BackupSpec => KeysSpec
  <1>1. BackupInit => KeysInit
    BY DEF BackupInit
  <1>2. [BackupNext]_backupVars => [KeysNext]_keyVars
    <2>1. StoreStep => KeysNext
      BY DEF StoreStep
    <2>2. CopyStep => UNCHANGED keyVars
      BY DEF CopyStep, keyVars
    <2>3. LaterRestore => KeysNext
      BY DEF LaterRestore, KeysNext
    <2>4. UNCHANGED backupVars => UNCHANGED keyVars
      BY DEF backupVars, keyVars
    <2> QED  BY <2>1, <2>2, <2>3, <2>4 DEF BackupNext
  <1> QED  BY <1>1, <1>2, PTL DEF BackupSpec, KeysSpec

CopyFields ==
    /\ DOMAIN copy = {"step", "secret", "file", "lines", "records", "listed", "rotated", "quiet"}
    /\ copy.step \in {"none", "issuer", "log", "list", "records", "done"}

LEMMA CopyStart == BackupInit => CopyFields /\ QuietInv
  BY DEF BackupInit, NoCopy, CopyFields, QuietInv

\* Only a store at rest is copied quietly, and whatever it does beside the copy
\* is noted.
LEMMA CopyMoves ==
    ASSUME CopyFields, QuietInv, [BackupNext]_backupVars
    PROVE  CopyFields' /\ QuietInv'
  <1>1. CASE CopySecret /\ CopyStep
    <2>1. /\ copy' = [copy EXCEPT !.step = "issuer", !.secret = secret, !.quiet = job = Idle]
          /\ UNCHANGED <<secret, file, lines, job>>
      BY <1>1 DEF CopySecret, CopyStep
    <2>2. /\ DOMAIN copy' = DOMAIN copy /\ copy'.step = "issuer" /\ copy'.secret = secret
          /\ copy'.quiet = (job = Idle)
      BY <2>1 DEF CopyFields
    <2> QED  BY <2>1, <2>2 DEF CopyFields, QuietInv
  <1>2. ASSUME UNCHANGED <<secret, file, lines, job>>, DOMAIN copy' = DOMAIN copy,
               copy'.quiet = copy.quiet, copy'.secret = copy.secret, copy.step # "none",
               copy'.step \in {"log", "list", "records", "done"},
               \/ copy.step = "issuer" /\ copy'.step = "log" /\ copy'.file = file
               \/ copy.step # "issuer" /\ copy'.file = copy.file,
               \/ copy.step = "log" /\ copy'.step = "list" /\ copy'.lines = lines
               \/ copy.step # "log" /\ copy'.lines = copy.lines,
               copy'.step \in {"list", "records", "done"} =>
                   copy.step \in {"log", "list", "records", "done"}
        PROVE  CopyFields' /\ QuietInv'
    BY <1>2 DEF CopyFields, QuietInv
  <1>3. CASE CopyStep /\ ~CopySecret
    <2>1. /\ UNCHANGED <<secret, file, lines, job>>
          /\ CopyIssuer \/ CopyLog \/ ListRecords \/ CopyRecord \/ EndCopy
      BY <1>3 DEF CopyStep
    <2>2. CASE CopyIssuer
      BY <1>2, <2>1, <2>2 DEF CopyIssuer, CopyFields
    <2>3. CASE CopyLog
      BY <1>2, <2>1, <2>3 DEF CopyLog, CopyFields
    <2>4. CASE ListRecords
      BY <1>2, <2>1, <2>4 DEF ListRecords, CopyFields
    <2>5. CASE CopyRecord
      <3>1. copy.step = "records" /\ \E copied : copy' = [copy EXCEPT !.records = copied]
        BY <2>5 DEF CopyRecord
      <3> QED  BY <1>2, <2>1, <3>1 DEF CopyFields
    <2>6. CASE EndCopy
      BY <1>2, <2>1, <2>6 DEF EndCopy, CopyFields
    <2> QED  BY <2>1, <2>2, <2>3, <2>4, <2>5, <2>6
  <1>4. CASE StoreStep
    <2>1. CASE ~Copying
      <3>1. copy' = copy /\ copy.step # "done"
        BY <1>4, <2>1 DEF StoreStep
      <3>2. copy.step = "none"
        BY <2>1, <3>1 DEF CopyFields, Copying
      <3> QED  BY <3>1, <3>2 DEF CopyFields, QuietInv
    <2>2. CASE Copying
      <3>1. \E rotated : copy' = [copy EXCEPT !.quiet = FALSE, !.rotated = rotated]
        BY <1>4, <2>2 DEF StoreStep
      <3>2. DOMAIN copy' = DOMAIN copy /\ ~copy'.quiet /\ copy'.step = copy.step
        BY <3>1 DEF CopyFields
      <3> QED  BY <3>2 DEF CopyFields, QuietInv
    <2> QED  BY <2>1, <2>2
  <1>5. CASE LaterRestore \/ UNCHANGED backupVars
    BY <1>5 DEF LaterRestore, Tick, backupVars, CopyFields, QuietInv
  <1> QED  BY <1>1, <1>3, <1>4, <1>5 DEF BackupNext

\* What the restored store reads is what the store reads.
LEMMA RestoredReads ==
    ASSUME copy.secret = secret, copy.file = file, copy.lines = lines
    PROVE  /\ Restored!LoadIssuer = LoadIssuer
           /\ Restored!LogKeys = LogKeys
           /\ \A line : Restored!LineVerifies(line) <=> LineVerifies(line)
  <1>0. /\ \A S : Restored!Max(S) = Max(S) /\ Restored!Min(S) = Min(S)
        /\ \A S : Restored!Cardinality(S) = Cardinality(S)
    BY DEF Restored!Max, Restored!Min, Restored!Cardinality, Max, Min, Cardinality
  <1>1. /\ \A op : Restored!LinesOf(op) = LinesOf(op)
        /\ Restored!LoggedThreshold = LoggedThreshold
    BY <1>0 DEF Restored!LoggedThreshold, Restored!LinesOf, LoggedThreshold, LinesOf
  <1>2. Restored!LoadIssuer = LoadIssuer
    <2>1. /\ Restored!LoggedMembers = LoggedMembers
          /\ Restored!LoggedPrevious = LoggedPrevious
          /\ \A key : Restored!LoggedKillDate(key) = LoggedKillDate(key)
      BY <1>0, <1>1 DEF Restored!LoggedMembers, Restored!LoggedPrevious,
             Restored!LoggedKillDate, LoggedMembers, LoggedPrevious, LoggedKillDate
    <2>2. \A previous, key : Restored!KillDate(previous, key) = KillDate(previous, key)
      BY <1>0, <2>1 DEF Restored!KillDate, KillDate
    <2> QED  BY <1>0, <1>1, <2>1, <2>2 DEF Restored!LoadIssuer, LoadIssuer
  <1>3. Restored!LogKeys = LogKeys
    BY <1>2 DEF Restored!LogKeys, Restored!SigningMembers, LogKeys, SigningMembers
  <1>4. \A line : Restored!LineVerifies(line) <=> LineVerifies(line)
    BY <1>0, <1>3 DEF Restored!LineVerifies, Restored!Signed, LineVerifies, Signed
  <1> QED  BY <1>2, <1>3, <1>4

\* Where the process does not die between the new secret and the issuer record
\* that names it, the copy of a store at rest restores to normal operation: it
\* names the key whose secret it holds, and its log verifies.
THEOREM QuietCopyRestores ==
    ASSUME "issuer" \notin CrashSteps
    PROVE  BackupSpec => []QuietBackupRestores
  <1>1. (SecretInFile /\ LinesCount) /\ (KeysTypeOK /\ KeysInv) /\ [KeysNext]_keyVars =>
            (SecretInFile /\ LinesCount)'
    BY LogStep
  <1>2. (CopyFields /\ QuietInv) /\ [BackupNext]_backupVars => (CopyFields /\ QuietInv)'
    BY CopyMoves
  <1>3. (KeysTypeOK /\ KeysInv) /\ (SecretInFile /\ LinesCount) /\ (CopyFields /\ QuietInv)
            => QuietBackupRestores
    <2> SUFFICES ASSUME KeysTypeOK, KeysInv, SecretInFile, LinesCount, QuietInv,
                        copy.step = "done", copy.quiet
                 PROVE  OperationNormal
      BY DEF QuietBackupRestores
    <2>1. /\ job = Idle /\ copy.secret = secret /\ copy.file = file /\ copy.lines = lines
          /\ secret = file.current
      BY JobKinds DEF QuietInv, SecretInFile
    <2>2. SameKey
      BY <2>1, RestoredReads, OverlayIsIdle DEF SameKey, KeysInv, Overlay
    <2>3. LogChainOk
      BY <2>1, RestoredReads, AllVerify DEF LogChainOk
    <2> QED  BY <2>2, <2>3 DEF OperationNormal
  <1>4. BackupSpec => KeysSpec
    BY CopyLeavesStore
  <1> QED  BY <1>1, <1>2, <1>3, <1>4, CopyStart, LogStart, KeysSafe, PTL
           DEF BackupSpec, KeysSpec

------------------------------------------------------------------------------
(* A copy beside the work of the store.  What the restored store trusts, the *)
(* source trusted too; for the converse a record must not lean on a member   *)
(* that came after the copied issuer record or its copied log.  It may name  *)
(* one, but then it was signed after the copy began, and so by every member  *)
(* that the copy knows.                                                      *)

SignerSets == {records[r].signers : r \in DOMAIN records}
CopiedSets == {copy.records[r].signers : r \in DOMAIN copy.records}

\* A key that nothing is signed with yet: the secret of a rotation whose issuer
\* record is not saved, a member whose line is not appended.
FreshKeys ==
    IF job \in Rotating /\ job.step = "issuer" THEN {secret}
    ELSE IF job \in Changing /\ job.op = "issuer_member_add" THEN {job.key} ELSE {}

FreshUnsigned ==
    \A S \in SignerSets \union CopiedSets : S \subseteq 0..made /\ S \intersect FreshKeys = {}

\* A rotation is given the secret of every member or of none.
GivenAll == job \in Rotating => job.given = {} \/ Members \subseteq job.given \union {secret}

\* A threshold is one that the members can reach.
EnoughMembers == file.threshold <= Cardinality({file.current} \union Members)

LoggedAdds(log) == {log[k].key : k \in {k \in DOMAIN log : log[k].op = "issuer_member_add"}}
LinesKept == DOMAIN lines \subseteq DOMAIN lines' /\ \A k \in DOMAIN lines : lines'[k] = lines[k]
NewLines == DOMAIN lines' \ DOMAIN lines

LEMMA MembersAre == Members = file.members \intersect LoggedAdds(lines)
  BY DEF Members, LoggedMembers, LinesOf, LoggedAdds

\* What is signed now is signed by the current key alone or by every member.
AllSign(S) ==
    /\ S \subseteq 0..made
    /\ S \intersect DOMAIN file.previous = {}
    /\ S = {secret} \/ {secret} \union Members \subseteq S

LEMMA SignedAll ==
    ASSUME KeysTypeOK, KeysInv, NEW given, given = {} \/ Members \subseteq given \union {secret}
    PROVE  AllSign(SignedNow(given))
  <1>1. /\ SignedNow(given) = Signers(LoadIssuer, file.threshold, given)
        /\ SignedNow(given) \subseteq {secret} \union Members /\ SignedNow(given) \subseteq 0..made
    BY SignedNowFacts, SigningFacts
  <1>2. ({secret} \union Members) \intersect DOMAIN file.previous = {}
    BY DEF KeysInv, Members
  <1>3. LoadIssuer.current = secret /\ Members \subseteq LoadIssuer.members
    BY OverlayIsIdle DEF KeysInv, Overlay, Members
  <1>4. SignedNow(given) = {secret} \/ {secret} \union Members \subseteq SignedNow(given)
    BY <1>1, <1>3 DEF Signers
  <1> QED  BY <1>1, <1>2, <1>4 DEF AllSign

LEMMA LineAdds ==
    ASSUME KeysTypeOK, KeysInv, NEW op \in Ops, NEW key \in Nat, NEW kill \in Nat, NEW given,
           Append1(op, key, kill, given)
    PROVE  /\ LinesKept
           /\ \A k \in NewLines : lines'[k].signers = SignedNow(given)
           /\ LoggedAdds(lines') = LoggedAdds(lines) \union
                  (IF op = "issuer_member_add" THEN {key} ELSE {})
  <1>0. PICK line \in Lines : Appends(line, op, key, kill, given)
    BY AppendedFacts
  <1>1. /\ line.op = op /\ line.key = key /\ line.signers = SignedNow(given)
        /\ DOMAIN lines' = DOMAIN lines \union {Len(lines) + 1}
        /\ \A k \in DOMAIN lines : lines'[k] = lines[k]
        /\ lines'[Len(lines) + 1] = line
    BY <1>0 DEF Appends
  <1>2. LinesKept /\ \A k \in NewLines : lines'[k] = line
    BY <1>1 DEF LinesKept, NewLines
  <1>3. DOMAIN lines = 1..Len(lines) /\ Len(lines) \in Nat
    BY DEF KeysTypeOK
  <1>4. LoggedAdds(lines') = LoggedAdds(lines) \union
            (IF op = "issuer_member_add" THEN {key} ELSE {})
    BY <1>1, <1>3 DEF LoggedAdds
  <1> QED  BY <1>1, <1>2, <1>4

\* What a step does to the keys, the members and what is signed.
Begins ==
    /\ UNCHANGED <<file, lines, records>> /\ Members' = Members
    /\ made' = made + 1 /\ FreshKeys' = {made + 1}
Rests ==
    /\ UNCHANGED <<made, file, lines, records>> /\ Members' = Members
    /\ FreshKeys' \subseteq FreshKeys
Signs ==
    /\ UNCHANGED <<made, file>> /\ secret = file.current /\ Members' = Members
    /\ FreshKeys' = {} /\ LoggedAdds(lines') = LoggedAdds(lines)
    /\ \A S \in SignerSets' \ SignerSets : AllSign(S) \/ S \intersect Members = {}
    /\ \A S \in SignerSets' : S \in SignerSets \/ S \subseteq 0..made
    /\ \A k \in NewLines : lines'[k].signers \intersect DOMAIN file.previous = {}
Changes ==
    /\ UNCHANGED <<lines, records>> /\ made <= made' /\ made' \in Nat
    /\ file'.current = file.current /\ file'.previous = file.previous
    /\ file.threshold <= file'.threshold
    /\ Members \subseteq Members' /\ Members' \subseteq Members \union FreshKeys'
    /\ FreshKeys' \subseteq {made + 1}
    /\ EnoughMembers => EnoughMembers'
Logs ==
    /\ UNCHANGED <<made, file, records>>
    /\ FreshKeys' = {}
    /\ Members \subseteq Members' /\ Members' \subseteq Members \union FreshKeys
    /\ LoggedAdds(lines) \subseteq LoggedAdds(lines')
    /\ LoggedAdds(lines') \subseteq LoggedAdds(lines) \union FreshKeys
    /\ \A k \in NewLines : lines'[k].signers \intersect DOMAIN file.previous = {}
Rotates ==
    /\ UNCHANGED <<made, lines, records>>
    /\ file'.current # file.current /\ FreshKeys' = {} /\ EnoughMembers'

StepKind == Begins \/ Rests \/ Signs \/ Changes \/ Logs \/ Rotates

LEMMA SameMembers ==
    ASSUME UNCHANGED <<file, lines>>
    PROVE  Members' = Members
  BY DEF Members, LoggedMembers, LinesOf

\* More members are as many at least.
LEMMA EnoughGrows ==
    ASSUME KeysTypeOK, KeysTypeOK', EnoughMembers,
           file'.threshold = file.threshold, file'.current = file.current,
           Members \subseteq Members'
    PROVE  EnoughMembers'
  <1> DEFINE X == {file.current} \union Members
             Y == {file.current} \union Members'
  <1>1. Members' \subseteq 1..made' /\ made' \in Nat
    BY DEF KeysTypeOK, Members
  <1>2. IsFiniteSet(Y) /\ X \subseteq Y
    <2>1. IsFiniteSet(1..made')
      BY <1>1, FS_Interval
    <2>2. IsFiniteSet(Members')
      BY <1>1, <2>1, FS_Subset
    <2> QED  BY <2>2, FS_AddElement
  <1>3. Cardinality(X) <= Cardinality(Y) /\ Cardinality(X) \in Nat /\ Cardinality(Y) \in Nat
    BY <1>2, FS_Subset, FS_CardinalityType
  <1>4. file.threshold <= Cardinality(X) /\ file.threshold \in Nat
    BY IssuerFields DEF EnoughMembers, KeysTypeOK
  <1> HIDE DEF X
  <1>5. file'.threshold <= Cardinality(Y)
    BY <1>3, <1>4
  <1> QED  BY <1>5 DEF EnoughMembers

LEMMA BeginKind ==
    ASSUME KeysTypeOK, KeysInv, NEW after \in Nat, NEW given \in {{}, LoadIssuer.members},
           BeginRotate(after, given)
    PROVE  Begins /\ GivenAll'
  <1>1. Overlay
    BY OverlayIsIdle DEF KeysInv
  <1>2. given \in SUBSET Nat
    BY <1>1, IssuerFields DEF Overlay
  <1>3. /\ UNCHANGED <<file, lines, records>> /\ made' = made + 1 /\ secret' = made + 1
        /\ job' \in Rotating /\ job'.step = "issuer" /\ job'.given = given
    BY <1>2, BeginsRotation
  <1>4. Members' = Members
    BY <1>3, SameMembers
  <1>5. FreshKeys' = {made + 1}
    BY <1>3 DEF FreshKeys
  <1>6. given = {} \/ Members \subseteq given
    BY <1>1 DEF Overlay, Members
  <1> QED  BY <1>3, <1>4, <1>5, <1>6 DEF Begins, GivenAll

LEMMA RotateKind ==
    ASSUME KeysTypeOK, KeysInv, SecretInFile, GivenAll, SaveRotatedIssuer
    PROVE  Rotates /\ GivenAll' /\ LinesKept
  <1>1. /\ job.step = "issuer" /\ UNCHANGED <<made, secret, lines, records>>
        /\ file' = job.issuer /\ job' = [job EXCEPT !.step = "resign"]
    BY NotRefused DEF SaveRotatedIssuer
  <1>2. /\ job \in Rotating /\ file'.current = secret
        /\ file'.members = (Members \ {job.key}) \union {secret}
    BY <1>1, SavesRotated
  <1>3. job' \in Rotating /\ job'.step = "resign" /\ job'.given = job.given /\ job' \notin Changing
    BY <1>1, <1>2, JobStep, JobKinds
  <1>4. job.key # secret /\ job.key = file.current
    BY <1>1, <1>2 DEF KeysInv, JobInv, SecretInFile
  <1>5. Members' \subseteq Members \union {secret}
    BY <1>2 DEF Members
  <1>6. FreshKeys' = {}
    BY <1>3 DEF FreshKeys
  <1>7. GivenAll'
    BY <1>1, <1>2, <1>3, <1>5 DEF GivenAll
  <1>8. EnoughMembers'
    <2> DEFINE S == Signers(job.issuer, file.threshold, job.given)
               all == {file'.current} \union Members'
    <2>1. /\ job.issuer = RotatedIssuer /\ Cardinality(S) >= file.threshold
          /\ file'.threshold = file.threshold /\ file.threshold \in Nat
      BY <1>1, <1>2, SavesRotated, IssuerFields DEF KeysInv, JobInv, KeysTypeOK
    <2>2. /\ job.issuer.current = secret
          /\ job.issuer.members = (Members \ {job.key}) \union {secret}
      BY <1>1, <1>2
    <2>3. S \subseteq {secret} \union (Members \ {job.key})
      BY <2>2 DEF Signers
    <2>4. Members \ {job.key} \subseteq Members'
      <3>1. LoggedMembers' = LoggedMembers
        BY <1>1 DEF LoggedMembers, LinesOf
      <3> QED  BY <1>2, <3>1 DEF Members
    <2>5. IsFiniteSet(all)
      <3>1. Members' \subseteq 1..made /\ made \in Nat
        BY <1>1, SavesRotated DEF Members, KeysTypeOK
      <3>2. IsFiniteSet(1..made)
        BY <3>1, FS_Interval
      <3>3. IsFiniteSet(Members')
        BY <3>1, <3>2, FS_Subset
      <3> QED  BY <3>3, FS_AddElement
    <2>6. S \subseteq all
      BY <1>2, <2>3, <2>4
    <2> HIDE DEF S, all
    <2>7. Cardinality(S) <= Cardinality(all) /\ Cardinality(S) \in Nat /\ Cardinality(all) \in Nat
      BY <2>5, <2>6, FS_Subset, FS_CardinalityType
    <2>8. file'.threshold <= Cardinality(all)
      BY <2>1, <2>7
    <2> QED  BY <2>8 DEF EnoughMembers, all
  <1> QED  BY <1>1, <1>2, <1>4, <1>6, <1>7, <1>8 DEF Rotates, LinesKept

LEMMA ChangeKind ==
    ASSUME KeysTypeOK, KeysInv, SecretInFile, NEW given \in SUBSET Nat,
           AddIssuerMember(given) \/ \E threshold \in Thresholds : SetIssuerThreshold(threshold, given)
    PROVE  Changes /\ GivenAll' /\ LinesKept
  <1>1. Overlay /\ job = Idle /\ secret = file.current /\ made \in Nat /\ file.threshold \in Nat
    BY OverlayIsIdle, JobKinds, IssuerFields
       DEF KeysInv, KeysTypeOK, AddIssuerMember, SetIssuerThreshold, SecretInFile
  <1>2. CASE AddIssuerMember(given)
    <2>1. /\ UNCHANGED <<secret, lines, records>> /\ made' = made + 1
          /\ file' = [LoadIssuer EXCEPT !.members = @ \union {made + 1}]
          /\ job'.step = "line" /\ job'.op = "issuer_member_add" /\ job'.key = made + 1
      BY <1>2 DEF AddIssuerMember
    <2>2. /\ file'.current = file.current /\ file'.previous = file.previous
          /\ file'.threshold = file.threshold
          /\ file'.members =
                (file.members \intersect (LoggedMembers \union {secret})) \union {made + 1}
      BY <1>1, <2>1, LoadedIssuer
    <2>3. LoggedMembers' = LoggedMembers
      BY <2>1 DEF LoggedMembers, LinesOf
    <2>4. Members \subseteq Members' /\ Members' \subseteq Members \union {made + 1}
      BY <2>2, <2>3 DEF Members
    <2>5. job' \in Changing /\ job' \notin Rotating
      <3>1. job' = [step |-> "line", op |-> "issuer_member_add", key |-> made + 1,
                    kill |-> 0, given |-> given]
        BY <1>2 DEF AddIssuerMember
      <3>2. job' \in Changing
        BY <1>1, <3>1 DEF Changing
      <3> QED  BY <3>2, JobKinds
    <2>6. FreshKeys' = {made + 1}
      BY <2>1, <2>5 DEF FreshKeys
    <2>7. EnoughMembers => EnoughMembers'
      <3>1. KeysTypeOK'
        BY <1>2, AddMemberStep
      <3> QED  BY <2>2, <2>4, <3>1, EnoughGrows
    <2> QED  BY <1>1, <2>1, <2>2, <2>4, <2>5, <2>6, <2>7 DEF Changes, GivenAll, LinesKept
  <1>3. ASSUME NEW threshold \in Thresholds, SetIssuerThreshold(threshold, given)
        PROVE  Changes /\ GivenAll' /\ LinesKept
    <2>1. /\ UNCHANGED <<made, secret, lines, records>> /\ threshold > LoadIssuer.threshold
          /\ file' = [LoadIssuer EXCEPT !.threshold = threshold]
          /\ job'.step = "line" /\ job'.op = "issuer_threshold"
      BY <1>3 DEF SetIssuerThreshold
    <2>2. /\ file'.current = file.current /\ file'.previous = file.previous
          /\ file'.threshold = threshold
          /\ file'.members = file.members \intersect (LoggedMembers \union {secret})
      BY <1>1, <2>1, LoadedIssuer
    <2>3. LoggedMembers' = LoggedMembers
      BY <2>1 DEF LoggedMembers, LinesOf
    <2>4. Members' = Members
      BY <2>2, <2>3 DEF Members
    <2>5. job' \notin Rotating /\ FreshKeys' = {}
      BY <2>1, JobKinds DEF FreshKeys
    <2>6. threshold \in Nat /\ file.threshold <= threshold
      BY <1>1, <2>1, IssuerKeysAssumption DEF Overlay
    <2>7. EnoughMembers'
      <3>1. threshold <= Cardinality(SigningMembers(LoadIssuer))
        BY <1>3 DEF SetIssuerThreshold
      <3>2. SigningMembers(LoadIssuer) = {secret} \union Members
        BY SigningFacts
      <3> QED  BY <1>1, <2>2, <2>4, <3>1, <3>2 DEF EnoughMembers
    <2> QED  BY <1>1, <2>1, <2>2, <2>4, <2>5, <2>6, <2>7 DEF Changes, GivenAll, LinesKept
  <1> QED  BY <1>2, <1>3

\* One record is signed, and what else is signed stays.
LEMMA OneSigned ==
    ASSUME KeysTypeOK, NEW S, NEW planted,
           \/ records' = Append(records, [planted |-> planted, signers |-> S])
           \/ \E r \in DOMAIN records : records' = [records EXCEPT ![r].signers = S]
    PROVE  SignerSets' \subseteq SignerSets \union {S} /\ DOMAIN records \subseteq DOMAIN records'
  <1>0. records \in Seq(Records)
    BY DEF KeysTypeOK
  <1>1. CASE records' = Append(records, [planted |-> planted, signers |-> S])
    <2>1. /\ DOMAIN records' = DOMAIN records \union {Len(records) + 1}
          /\ \A r \in DOMAIN records : records'[r] = records[r]
          /\ records'[Len(records) + 1].signers = S
      BY <1>0, <1>1
    <2> QED  BY <2>1 DEF SignerSets
  <1>2. ASSUME NEW r \in DOMAIN records, records' = [records EXCEPT ![r].signers = S]
        PROVE  SignerSets' \subseteq SignerSets \union {S} /\ DOMAIN records \subseteq DOMAIN records'
    <2>1. /\ DOMAIN records' = DOMAIN records
          /\ \A q \in DOMAIN records : q # r => records'[q] = records[q]
          /\ records'[r] = [records[r] EXCEPT !.signers = S]
      BY <1>0, <1>2
    <2>2. records[r] \in Records
      BY <1>0
    <2>3. records'[r].signers = S
      BY <2>1, <2>2 DEF Records
    <2>4. \A q \in DOMAIN records' : records'[q].signers = S \/ records'[q].signers = records[q].signers
      BY <2>1, <2>3
    <2>5. \A q \in DOMAIN records' : records'[q].signers \in SignerSets \union {S}
      BY <2>1, <2>4 DEF SignerSets
    <2> QED  BY <2>1, <2>5 DEF SignerSets
  <1> QED  BY <1>1, <1>2

\* A record that is signed now, logged or not.
LEMMA SignKind ==
    ASSUME KeysTypeOK, KeysInv, secret = file.current, UNCHANGED <<made, secret, file>>,
           FreshKeys' = {}, NEW S, SignerSets' \subseteq SignerSets \union {S},
           S \subseteq 0..made, AllSign(S) \/ S \intersect Members = {},
           LinesKept, LoggedAdds(lines') = LoggedAdds(lines),
           \A k \in NewLines : AllSign(lines'[k].signers)
    PROVE  Signs
  <1>1. Members' = Members
    BY MembersAre DEF Members, LoggedMembers, LinesOf, LoggedAdds
  <1>2. \A k \in NewLines : lines'[k].signers \intersect DOMAIN file.previous = {}
    BY DEF AllSign
  <1>3. \A T \in SignerSets' \ SignerSets : T = S
    OBVIOUS
  <1> QED  BY <1>1, <1>2, <1>3 DEF Signs

LEMMA RecordKind ==
    ASSUME KeysTypeOK, KeysInv, SecretInFile, NEW given \in {{}, LoadIssuer.members},
           \/ IssueRecord(given)
           \/ \E r \in DOMAIN records : KillRecord(r, given)
    PROVE  Signs /\ GivenAll' /\ LinesKept /\ DOMAIN records \subseteq DOMAIN records'
  <1> DEFINE S == SignedNow(given)
  <1>1. /\ job = Idle /\ UNCHANGED <<made, secret, file, job>>
        /\ \E op \in {"issue", "kill"} : Append1(op, 0, 0, given)
        /\ \/ records' = Append(records, [planted |-> FALSE, signers |-> S])
           \/ \E r \in DOMAIN records : records' = [records EXCEPT ![r].signers = S]
    BY DEF IssueRecord, KillRecord
  <1>2. Members \subseteq LoadIssuer.members
    BY OverlayIsIdle DEF KeysInv, Overlay, Members
  <1>3. AllSign(S)
    BY <1>2, SignedAll
  <1>4. PICK op \in {"issue", "kill"} : Append1(op, 0, 0, given)
    BY <1>1
  <1>5. op \in Ops /\ op # "issuer_member_add"
    BY DEF Ops
  <1>6. /\ LinesKept /\ LoggedAdds(lines') = LoggedAdds(lines)
        /\ \A k \in NewLines : AllSign(lines'[k].signers)
    BY <1>3, <1>4, <1>5, LineAdds
  <1>7. /\ FreshKeys' = {} /\ GivenAll' /\ secret = file.current
    BY <1>1, JobKinds DEF FreshKeys, GivenAll, SecretInFile
  <1> HIDE DEF S
  <1>8. SignerSets' \subseteq SignerSets \union {S} /\ DOMAIN records \subseteq DOMAIN records'
    BY <1>1, OneSigned
  <1>9. S \subseteq 0..made
    BY <1>3 DEF AllSign
  <1>10. Signs
    BY <1>1, <1>3, <1>6, <1>7, <1>8, <1>9, SignKind
  <1> QED  BY <1>6, <1>7, <1>8, <1>10

LEMMA SameLog ==
    ASSUME lines' = lines
    PROVE  LinesKept /\ LoggedAdds(lines') = LoggedAdds(lines) /\ NewLines = {}
  BY DEF LinesKept, LoggedAdds, NewLines

LEMMA PlantKind ==
    ASSUME KeysTypeOK, KeysInv, SecretInFile, NEW signers \in PlantedSigners, Plant(signers)
    PROVE  Signs /\ GivenAll' /\ LinesKept /\ DOMAIN records \subseteq DOMAIN records'
  <1>1. /\ job = Idle /\ UNCHANGED <<now, made, secret, file, lines, job>>
        /\ records' = Append(records, [planted |-> TRUE, signers |-> signers])
    BY DEF Plant
  <1>2. /\ FreshKeys' = {} /\ GivenAll' /\ secret = file.current
    BY <1>1, JobKinds DEF FreshKeys, GivenAll, SecretInFile
  <1>3. /\ SignerSets' \subseteq SignerSets \union {signers}
        /\ DOMAIN records \subseteq DOMAIN records'
    BY <1>1, OneSigned
  <1>4. /\ LoadIssuer.previous = file.previous /\ secret \in 1..made /\ made \in Nat
        /\ file.members \subseteq 1..made /\ DOMAIN file.previous \subseteq 1..made
        /\ DOMAIN file.previous \intersect (file.members \union {secret}) = {}
    BY OverlayIsIdle DEF KeysInv, Overlay, KeysTypeOK
  <1>5. signers \subseteq 0..made /\ (AllSign(signers) \/ signers \intersect Members = {})
    <2>1. CASE signers \in {{}, {Foreign}}
      <3>1. Foreign \notin Members /\ Foreign \in 0..made
        BY <1>4 DEF Members, Foreign
      <3> QED  BY <2>1, <3>1
    <2>2. ASSUME NEW key \in DOMAIN file.previous, signers = {key}
          PROVE  signers \subseteq 0..made /\ signers \intersect Members = {}
      BY <1>4, <2>2 DEF Members
    <2>3. CASE signers = {secret}
      BY <1>4, <2>3 DEF AllSign
    <2> QED  BY <1>4, <2>1, <2>2, <2>3 DEF PlantedSigners
  <1>6. Signs
    BY <1>1, <1>2, <1>3, <1>5, SameLog, SignKind
  <1> QED  BY <1>1, <1>2, <1>3, <1>6, SameLog

LEMMA ResignKind ==
    ASSUME KeysTypeOK, KeysInv, SecretInFile, GivenAll, ResignRecord
    PROVE  Signs /\ GivenAll' /\ LinesKept /\ DOMAIN records \subseteq DOMAIN records'
  <1>1. /\ job.step = "resign" /\ job.next \in DOMAIN records
        /\ job' = [job EXCEPT !.next = @ + 1]
        /\ UNCHANGED <<now, made, secret, file, lines>>
        /\ records' = [records EXCEPT ![job.next].signers =
                          IF TrustedRecord(job.next) THEN SignedNow(job.given) ELSE @]
    BY DEF ResignRecord
  <1>2. job \in Rotating
    BY <1>1, JobKinds DEF KeysTypeOK
  <1>3. /\ job' \in Rotating /\ job'.step = "resign" /\ job'.given = job.given
        /\ job' \notin Changing
    <2>1. job' \in Rotating /\ job'.step = "resign" /\ job'.given = job.given
      BY <1>1, <1>2 DEF Rotating
    <2> QED  BY <2>1, JobKinds
  <1>4. secret = file.current /\ FreshKeys' = {}
    BY <1>1, <1>2, <1>3 DEF SecretInFile, FreshKeys
  <1>5. AllSign(SignedNow(job.given))
    BY <1>2, SignedAll DEF GivenAll
  <1>6. Members' = Members
    BY <1>1, SameMembers
  <1>7. GivenAll'
    BY <1>1, <1>2, <1>3, <1>6 DEF GivenAll
  <1> DEFINE r == job.next
             S == SignedNow(job.given)
  <1>8. SignerSets' \subseteq SignerSets \union {S} /\ DOMAIN records \subseteq DOMAIN records'
    <2> HIDE DEF S, r
    <2>1. CASE TrustedRecord(r)
      <3>1. r \in DOMAIN records /\ records' = [records EXCEPT ![r].signers = S]
        BY <1>1, <2>1 DEF r, S
      <3> QED  BY <3>1, OneSigned
    <2>2. CASE ~TrustedRecord(r)
      <3>1. records' = [records EXCEPT ![r].signers = @]
        BY <1>1, <2>2 DEF r
      <3>2. records' = records
        <4>1. records \in Seq(Records) /\ r \in DOMAIN records
          BY <1>1 DEF r, KeysTypeOK
        <4>2. records[r] \in Records
          BY <4>1
        <4>3. [records[r] EXCEPT !.signers = @] = records[r]
          BY <4>2 DEF Records
        <4> QED  BY <3>1, <4>1, <4>3
      <3> QED  BY <3>2 DEF SignerSets
    <2> QED  BY <2>1, <2>2
  <1>9. S \subseteq 0..made
    BY <1>5 DEF AllSign
  <1>10. Signs
    BY <1>1, <1>4, <1>5, <1>8, <1>9, SameLog, SignKind
  <1> QED  BY <1>1, <1>7, <1>8, <1>10, SameLog

LEMMA LogKind ==
    ASSUME KeysTypeOK, KeysInv, SecretInFile, GivenAll, AppendJobLine
    PROVE  Logs /\ GivenAll' /\ LinesKept
  <1>1. /\ job.step = "line" /\ Append1(job.op, job.key, job.kill, job.given) /\ job' = Idle
        /\ UNCHANGED <<made, secret, file, records>>
    BY DEF AppendJobLine
  <1>2. /\ job.op \in Ops /\ job.key \in Nat /\ job.kill \in Nat
        /\ CanSign(file.threshold, job.given)
        /\ job \in Changing => job \notin Rotating
        /\ job \in Rotating \union Changing
        /\ job.op = "issuer_member_add" => job \in Changing
    BY <1>1, JobKinds DEF KeysTypeOK, KeysInv, JobInv, Ops
  <1>3. FreshKeys' = {} /\ GivenAll'
    BY <1>1, JobKinds DEF FreshKeys, GivenAll
  <1>4. FreshKeys = IF job.op = "issuer_member_add" THEN {job.key} ELSE {}
    BY <1>1, <1>2 DEF FreshKeys
  <1>5. /\ LinesKept /\ LoggedAdds(lines') = LoggedAdds(lines) \union FreshKeys
        /\ \A k \in NewLines : lines'[k].signers = SignedNow(job.given)
    BY <1>1, <1>2, <1>4, LineAdds
  <1>6. SignedNow(job.given) \intersect DOMAIN file.previous = {}
    <2>1. SignedNow(job.given) \subseteq {secret} \union Members
      BY SignedNowFacts, SigningFacts
    <2> QED  BY <2>1 DEF KeysInv, Members
  <1>7. Members' = file.members \intersect LoggedAdds(lines')
    BY <1>1 DEF Members, LoggedMembers, LinesOf, LoggedAdds
  <1>8. Members \subseteq Members' /\ Members' \subseteq Members \union FreshKeys
    BY <1>5, <1>7, MembersAre
  <1> QED  BY <1>1, <1>3, <1>5, <1>6, <1>8 DEF Logs

LEMMA RestKind ==
    ASSUME KeysTypeOK, KeysInv, GivenAll, "issuer" \notin CrashSteps,
           EndResign \/ Crash \/ Tick \/ UNCHANGED keyVars
    PROVE  Rests /\ GivenAll' /\ LinesKept
  <1>1. UNCHANGED <<made, secret, file, lines, records>>
    BY DEF EndResign, Crash, Tick, keyVars
  <1>2. Members' = Members
    BY <1>1, SameMembers
  <1>3. FreshKeys' \subseteq FreshKeys /\ GivenAll'
    <2>1. CASE EndResign
      <3>1. job \in Rotating /\ job' = [job EXCEPT !.step = "line"]
        BY <2>1, JobKinds DEF EndResign, KeysTypeOK
      <3>2. /\ job' \in Rotating /\ job'.step = "line" /\ job'.given = job.given
            /\ job' \notin Changing
        BY <3>1, JobStep, JobKinds
      <3> QED  BY <1>1, <1>2, <3>1, <3>2 DEF FreshKeys, GivenAll
    <2>2. CASE Crash
      BY <2>2, JobKinds DEF Crash, FreshKeys, GivenAll
    <2>3. CASE Tick \/ UNCHANGED keyVars
      <3>1. job' = job
        BY <2>3 DEF Tick, keyVars
      <3> QED  BY <1>1, <1>2, <3>1 DEF FreshKeys, GivenAll
    <2> QED  BY <2>1, <2>2, <2>3
  <1> QED  BY <1>1, <1>2, <1>3, SameLog DEF Rests

LEMMA StepKinds ==
    ASSUME KeysTypeOK, KeysInv, SecretInFile, GivenAll, "issuer" \notin CrashSteps,
           [KeysNext]_keyVars
    PROVE  StepKind /\ GivenAll' /\ LinesKept /\ DOMAIN records \subseteq DOMAIN records'
  <1>1. ASSUME NEW given \in {{}, LoadIssuer.members}, Operation(given)
        PROVE  StepKind /\ GivenAll' /\ LinesKept /\ DOMAIN records \subseteq DOMAIN records'
    <2>1. given \in SUBSET Nat
      BY OverlayIsIdle, IssuerFields DEF KeysInv, Overlay
    <2>2. CASE IssueRecord(given) \/ \E r \in DOMAIN records : KillRecord(r, given)
      BY <2>2, RecordKind DEF StepKind
    <2>3. ASSUME NEW after \in KillDelays, BeginRotate(after, given)
          PROVE  StepKind /\ GivenAll' /\ LinesKept /\ DOMAIN records \subseteq DOMAIN records'
      <3>1. after \in Nat
        BY IssuerKeysAssumption
      <3>2. Begins /\ GivenAll'
        BY <2>3, <3>1, BeginKind
      <3> QED  BY <3>2, SameLog DEF StepKind, Begins
    <2>4. CASE AddIssuerMember(given) \/ \E threshold \in Thresholds :
                                             SetIssuerThreshold(threshold, given)
      <3>1. Changes /\ GivenAll' /\ LinesKept
        BY <2>1, <2>4, ChangeKind
      <3> QED  BY <3>1 DEF StepKind, Changes
    <2> QED  BY <1>1, <2>2, <2>3, <2>4 DEF Operation
  <1>2. CASE SaveRotatedIssuer
    <2>1. Rotates /\ GivenAll' /\ LinesKept
      BY <1>2, RotateKind
    <2> QED  BY <2>1 DEF StepKind, Rotates
  <1>3. CASE ResignRecord
    BY <1>3, ResignKind DEF StepKind
  <1>4. CASE AppendJobLine
    <2>1. Logs /\ GivenAll' /\ LinesKept
      BY <1>4, LogKind
    <2> QED  BY <2>1 DEF StepKind, Logs
  <1>5. CASE EndResign \/ Crash \/ Tick \/ UNCHANGED keyVars
    <2>1. Rests /\ GivenAll' /\ LinesKept
      BY <1>5, RestKind
    <2> QED  BY <2>1 DEF StepKind, Rests
  <1>6. ASSUME NEW signers \in PlantedSigners, Plant(signers)
        PROVE  StepKind /\ GivenAll' /\ LinesKept /\ DOMAIN records \subseteq DOMAIN records'
    BY <1>6, PlantKind DEF StepKind
  <1> QED  BY <1>1, <1>2, <1>3, <1>4, <1>5, <1>6 DEF KeysNext

\* The threshold stays within the reach of the members.
LEMMA EnoughStep ==
    ASSUME KeysTypeOK, KeysInv, SecretInFile, GivenAll, EnoughMembers,
           "issuer" \notin CrashSteps, [KeysNext]_keyVars
    PROVE  EnoughMembers'
  <1>1. StepKind /\ KeysTypeOK'
    BY StepKinds, KeysStep
  <1>2. CASE Begins \/ Rests \/ Signs \/ Logs
    <2>1. file' = file /\ Members \subseteq Members'
      BY <1>2 DEF Begins, Rests, Signs, Logs
    <2> QED  BY <1>1, <2>1, EnoughGrows
  <1>3. CASE Changes \/ Rotates
    BY <1>3 DEF Changes, Rotates
  <1> QED  BY <1>1, <1>2, <1>3 DEF StepKind

------------------------------------------------------------------------------
(* The invariant of a copy, from the moment issuer.json is copied and as long *)
(* as no rotation saves another one.                                         *)

CopiedLines == IF copy.step = "log" THEN lines ELSE copy.lines
\* The members that the copy knows.
Kept == copy.file.members \intersect LoggedAdds(CopiedLines)
\* What is signed by a member that the copy does not know is signed by all that
\* it knows.
Covered(S) ==
    \/ S \intersect Members \subseteq Kept \union {file.current}
    \/ {file.current} \union Kept \subseteq S

Follows == copy.step \in {"log", "list", "records", "done"} /\ ~copy.rotated

CopiedRecords ==
    /\ copy.step \in {"none", "issuer", "log", "list"} => copy.records = << >>
    /\ copy.step \in {"records", "done"} => copy.listed \subseteq DOMAIN records
    /\ copy.step \in {"list", "records", "done"} =>
          /\ DOMAIN copy.lines \subseteq DOMAIN lines
          /\ \A k \in DOMAIN copy.lines : copy.lines[k] = lines[k]

SameFile ==
    /\ copy.file \in Issuers /\ copy.file.members \subseteq 1..made
    /\ file.current = copy.file.current /\ file.previous = copy.file.previous
    /\ copy.file.threshold <= file.threshold
    /\ FreshKeys \intersect copy.file.members # {} => file.members = copy.file.members

FollowInv ==
    Follows =>
        /\ SameFile
        /\ Kept \subseteq Members
        /\ \A S \in SignerSets \union CopiedSets : Covered(S)
        /\ copy.file.threshold <= Cardinality({file.current} \union Kept)
        /\ \A k \in DOMAIN lines : lines[k].n > copy.file.threshold =>
              lines[k].signers \intersect DOMAIN copy.file.previous = {}

CopyInv == FreshUnsigned /\ CopiedRecords /\ FollowInv

\* What the source does leaves what was copied.
CopyStays ==
    /\ copy'.step = copy.step /\ copy'.file = copy.file /\ copy'.lines = copy.lines
    /\ copy'.records = copy.records

LEMMA KeptMoves ==
    ASSUME StepKind, CopyStays
    PROVE  \/ Kept' = Kept
           \/ /\ Logs /\ copy.step = "log" /\ Kept \subseteq Kept'
              /\ Kept' \subseteq Kept \union (FreshKeys \intersect copy.file.members)
              /\ Kept' = copy.file.members \intersect LoggedAdds(lines')
              /\ Kept = copy.file.members \intersect LoggedAdds(lines)
  <1>1. CASE copy.step # "log" \/ LoggedAdds(lines') = LoggedAdds(lines)
    BY <1>1 DEF CopyStays, Kept, CopiedLines
  <1>2. CASE copy.step = "log" /\ LoggedAdds(lines') # LoggedAdds(lines)
    <2>1. Logs
      BY <1>2 DEF StepKind, Begins, Rests, Signs, Changes, Rotates
    <2>2. /\ Kept' = copy.file.members \intersect LoggedAdds(lines')
          /\ Kept = copy.file.members \intersect LoggedAdds(lines)
      BY <1>2 DEF CopyStays, Kept, CopiedLines
    <2> QED  BY <1>2, <2>1, <2>2 DEF Logs
  <1> QED  BY <1>1, <1>2

LEMMA FreshStep ==
    ASSUME KeysTypeOK, KeysTypeOK', StepKind, FreshUnsigned, CopiedSets' = CopiedSets
    PROVE  FreshUnsigned'
  <1>1. made \in Nat /\ made' \in Nat
    BY DEF KeysTypeOK
  <1>2. ASSUME made <= made', SignerSets' = SignerSets, FreshKeys' \subseteq FreshKeys \union {made + 1}
        PROVE  FreshUnsigned'
    <2>1. 0..made \subseteq 0..made' /\ made + 1 \notin 0..made
      BY <1>1, <1>2
    <2> QED  BY <1>2, <2>1 DEF FreshUnsigned
  <1>3. records' = records => SignerSets' = SignerSets
    BY DEF SignerSets
  <1>4. CASE Signs
    BY <1>4 DEF Signs, FreshUnsigned
  <1>5. CASE Begins \/ Rests \/ Changes \/ Logs \/ Rotates
    <2>1. records' = records /\ made <= made' /\ FreshKeys' \subseteq FreshKeys \union {made + 1}
      BY <1>1, <1>5 DEF Begins, Rests, Changes, Logs, Rotates
    <2> QED  BY <1>2, <1>3, <2>1
  <1> QED  BY <1>4, <1>5 DEF StepKind

\* A signature that was covered stays covered, and a new one is.
LEMMA CoveredStep ==
    ASSUME KeysTypeOK, StepKind, CopyStays, file'.current = file.current, SameFile,
           Kept \subseteq Members, FreshUnsigned,
           \A S \in SignerSets \union CopiedSets : Covered(S)
    PROVE  /\ Kept \subseteq Kept' /\ Kept' \subseteq Members'
           /\ \A S \in SignerSets' \union CopiedSets' :
                 \/ S \intersect Members' \subseteq Kept' \union {file.current}
                 \/ {file.current} \union Kept' \subseteq S
  <1>0. CopiedSets' = CopiedSets /\ made \in Nat
    BY DEF CopyStays, CopiedSets, KeysTypeOK
  <1>1. \A S \in SignerSets \union CopiedSets :
            /\ made + 1 \notin S /\ S \intersect FreshKeys = {}
            /\ \/ S \intersect Members \subseteq Kept \union {file.current}
               \/ {file.current} \union Kept \subseteq S
    <2>1. made + 1 \notin 0..made
      BY <1>0
    <2> QED  BY <2>1 DEF FreshUnsigned, Covered
  <1>2. records' = records => SignerSets' = SignerSets
    BY DEF SignerSets
  <1>3. CASE Logs
    <2>1. \A S \in SignerSets \union CopiedSets :
              S \intersect Members' \subseteq S \intersect Members
      BY <1>1, <1>3 DEF Logs
    <2>2. Members \subseteq Members' /\ SignerSets' = SignerSets
      BY <1>2, <1>3 DEF Logs
    <2>3. CASE Kept' = Kept
      BY <1>0, <1>1, <2>1, <2>2, <2>3
    <2>4. CASE Kept' # Kept
      <3>1. /\ Kept \subseteq Kept' /\ FreshKeys \intersect copy.file.members # {}
            /\ Kept' = copy.file.members \intersect LoggedAdds(lines')
            /\ Kept = copy.file.members \intersect LoggedAdds(lines)
        BY <2>4, KeptMoves
      <3>2. file.members = copy.file.members /\ file' = file
        BY <1>3, <3>1 DEF SameFile, Logs
      <3>3. Members' = file'.members \intersect LoggedAdds(lines')
        BY DEF Members, LoggedMembers, LinesOf, LoggedAdds
      <3>4. Kept' = Members' /\ Kept = Members
        BY <3>1, <3>2, <3>3, MembersAre
      <3> QED  BY <1>0, <2>1, <2>2, <3>1, <3>4
    <2> QED  BY <2>3, <2>4
  <1>4. CASE ~Logs
    <2>1. Kept' = Kept
      BY <1>4, KeptMoves
    <2>2. CASE Signs
      <3>1. Members' = Members /\ secret = file.current
        BY <2>2 DEF Signs
      <3>2. \A S \in SignerSets' \ SignerSets :
                \/ S = {file.current} \/ (Members \subseteq S /\ file.current \in S)
                \/ S \intersect Members = {}
        BY <2>2, <3>1 DEF Signs, AllSign
      <3> QED  BY <1>0, <1>1, <2>1, <3>1, <3>2
    <2>3. CASE Begins \/ Rests \/ Changes
      <3>1. /\ Members \subseteq Members' /\ Members' \subseteq Members \union {made + 1}
            /\ SignerSets' = SignerSets
        BY <1>2, <2>3 DEF Begins, Rests, Changes
      <3> QED  BY <1>0, <1>1, <2>1, <3>1
    <2>4. ~Rotates
      BY DEF Rotates
    <2> QED  BY <1>4, <2>2, <2>3, <2>4 DEF StepKind
  <1> QED  BY <1>3, <1>4

LEMMA FollowStep ==
    ASSUME KeysTypeOK, KeysTypeOK', StepKind, LinesKept, CopyStays, FreshUnsigned,
           Follows, FollowInv, file'.current = copy.file.current
    PROVE  /\ SameFile'
           /\ Kept' \subseteq Members'
           /\ \A S \in SignerSets' \union CopiedSets' :
                 \/ S \intersect Members' \subseteq Kept' \union {file'.current}
                 \/ {file'.current} \union Kept' \subseteq S
           /\ copy'.file.threshold <= Cardinality({file'.current} \union Kept')
           /\ \A k \in DOMAIN lines' : lines'[k].n > copy'.file.threshold =>
                 lines'[k].signers \intersect DOMAIN copy'.file.previous = {}
  <1>1. /\ SameFile /\ Kept \subseteq Members /\ copy'.file = copy.file
        /\ \A S \in SignerSets \union CopiedSets : Covered(S)
        /\ copy.file.threshold <= Cardinality({file.current} \union Kept)
        /\ \A k \in DOMAIN lines : lines[k].n > copy.file.threshold =>
              lines[k].signers \intersect DOMAIN copy.file.previous = {}
    BY DEF FollowInv, CopyStays
  <1>2. file'.current = file.current /\ ~Rotates
    BY <1>1 DEF SameFile, Rotates
  <1>3. /\ Kept \subseteq Kept' /\ Kept' \subseteq Members'
        /\ \A S \in SignerSets' \union CopiedSets' :
              \/ S \intersect Members' \subseteq Kept' \union {file.current}
              \/ {file.current} \union Kept' \subseteq S
    BY <1>1, <1>2, CoveredStep
  <1>4. SameFile'
    <2>1. /\ made \in Nat /\ made' \in Nat /\ made <= made'
          /\ copy.file.members \subseteq 1..made /\ copy.file.threshold \in Nat
          /\ file.threshold \in Nat /\ file'.threshold \in Nat
      <3>1. made <= made'
        BY <1>2 DEF KeysTypeOK, StepKind, Begins, Rests, Signs, Changes, Logs
      <3> QED  BY <1>1, <3>1, IssuerFields DEF KeysTypeOK, SameFile
    <2>2. copy.file.members \subseteq 1..made' /\ made + 1 \notin copy.file.members
      BY <2>1
    <2>3. file'.previous = file.previous /\ file.threshold <= file'.threshold
      BY <1>2, <2>1 DEF StepKind, Begins, Rests, Signs, Changes, Logs
    <2>4. copy.file.threshold <= file'.threshold
      BY <1>1, <2>1, <2>3 DEF SameFile
    <2>5. FreshKeys' \intersect copy.file.members # {} => file'.members = copy.file.members
      <3>1. CASE Changes
        BY <2>2, <3>1 DEF Changes
      <3>2. CASE Begins
        BY <2>2, <3>2 DEF Begins
      <3>3. CASE Rests \/ Signs \/ Logs
        <4>1. FreshKeys' \subseteq FreshKeys /\ file' = file
          BY <3>3 DEF Rests, Signs, Logs
        <4> QED  BY <1>1, <4>1 DEF SameFile
      <3> QED  BY <1>2, <3>1, <3>2, <3>3 DEF StepKind
    <2> QED  BY <1>1, <1>2, <2>2, <2>3, <2>4, <2>5 DEF SameFile
  <1>5. copy.file.threshold <= Cardinality({file.current} \union Kept')
    <2> DEFINE X == {file.current} \union Kept
               Y == {file.current} \union Kept'
    <2>1. X \subseteq Y /\ IsFiniteSet(Y)
      <3>1. Kept' \subseteq 1..made' /\ made' \in Nat
        BY <1>3 DEF KeysTypeOK, Members
      <3>2. IsFiniteSet(1..made')
        BY <3>1, FS_Interval
      <3>3. IsFiniteSet(Kept')
        BY <3>1, <3>2, FS_Subset
      <3>4. IsFiniteSet(Y)
        BY <3>3, FS_AddElement
      <3> QED  BY <1>3, <3>4
    <2>2. Cardinality(X) <= Cardinality(Y) /\ Cardinality(X) \in Nat /\ Cardinality(Y) \in Nat
      BY <2>1, FS_Subset, FS_CardinalityType
    <2>3. copy.file.threshold <= Cardinality(X) /\ copy.file.threshold \in Nat
      BY <1>1, IssuerFields DEF SameFile
    <2> HIDE DEF X, Y
    <2>4. copy.file.threshold <= Cardinality(Y)
      BY <2>2, <2>3
    <2> QED  BY <2>4 DEF Y
  <1>6. ASSUME NEW k \in DOMAIN lines', lines'[k].n > copy.file.threshold
        PROVE  lines'[k].signers \intersect DOMAIN copy.file.previous = {}
    <2>1. CASE k \in DOMAIN lines
      BY <1>1, <1>6, <2>1 DEF LinesKept
    <2>2. CASE k \in NewLines
      <3>1. Signs \/ Logs
        BY <1>2, <2>2 DEF NewLines, StepKind, Begins, Rests, Changes
      <3> QED  BY <1>1, <2>2, <3>1 DEF Signs, Logs, SameFile
    <2> QED  BY <1>6, <2>1, <2>2 DEF NewLines
  <1> QED  BY <1>1, <1>2, <1>3, <1>4, <1>5, <1>6

\* The store goes on, or the clock does, and the copy stays what it is.
LEMMA BesideStep ==
    ASSUME KeysTypeOK, KeysInv, SecretInFile, GivenAll, CopyInv, "issuer" \notin CrashSteps,
           [KeysNext]_keyVars, CopyStays, copy'.listed = copy.listed,
           Follows' => Follows /\ file'.current = copy.file.current
    PROVE  CopyInv'
  <1>1. KeysTypeOK' /\ StepKind /\ LinesKept /\ DOMAIN records \subseteq DOMAIN records'
    BY KeysStep, StepKinds
  <1>2. FreshUnsigned'
    <2>1. CopiedSets' = CopiedSets
      BY DEF CopyStays, CopiedSets
    <2> QED  BY <1>1, <2>1, FreshStep DEF CopyInv
  <1>3. CopiedRecords'
    BY <1>1 DEF CopyInv, CopiedRecords, CopyStays, LinesKept
  <1>4. FollowInv'
    <2> SUFFICES ASSUME Follows' PROVE FollowInv'
      BY DEF FollowInv
    <2> QED  BY <1>1, FollowStep DEF CopyInv, FollowInv, Covered
  <1> QED  BY <1>2, <1>3, <1>4 DEF CopyInv

LEMMA SameKeys ==
    ASSUME UNCHANGED keyVars
    PROVE  /\ UNCHANGED <<made, secret, file, lines, records, job>>
           /\ SignerSets' = SignerSets /\ Members' = Members /\ FreshKeys' = FreshKeys
  BY DEF keyVars, SignerSets, Members, LoggedMembers, LinesOf, FreshKeys

\* The moment from which the copy is followed.
LEMMA CopyIssuerStep ==
    ASSUME KeysTypeOK, KeysInv, EnoughMembers, CopyFields, CopyInv, CopyIssuer, UNCHANGED keyVars
    PROVE  CopyInv'
  <1>1. /\ copy.step = "issuer" /\ copy' = [copy EXCEPT !.step = "log", !.file = file]
        /\ UNCHANGED <<made, secret, file, lines, records, job>>
        /\ SignerSets' = SignerSets /\ Members' = Members /\ FreshKeys' = FreshKeys
    BY SameKeys DEF CopyIssuer
  <1>2. copy'.step = "log" /\ copy'.file = file /\ copy'.records = copy.records
    BY <1>1 DEF CopyFields
  <1>3. CopiedSets' = CopiedSets
    BY <1>2 DEF CopiedSets
  <1>4. FreshUnsigned' /\ CopiedRecords'
    BY <1>1, <1>2, <1>3 DEF CopyInv, FreshUnsigned, CopiedRecords
  <1>5. Kept' = Members
    BY <1>1, <1>2, MembersAre DEF Kept, CopiedLines
  <1>6. /\ file \in Issuers /\ file.members \subseteq 1..made /\ file.threshold \in Nat
        /\ \A k \in DOMAIN lines : lines[k].n \in Nat /\ lines[k].n <= file.threshold
    BY IssuerFields, LineFields DEF KeysTypeOK, KeysInv, FileIsAhead
  <1>7. SameFile'
    BY <1>1, <1>2, <1>6 DEF SameFile
  <1>8. \A S : S \intersect Members' \subseteq Kept' \union {file'.current}
    BY <1>1, <1>5
  <1>9. copy'.file.threshold <= Cardinality({file'.current} \union Kept')
    BY <1>1, <1>2, <1>5 DEF EnoughMembers
  <1>10. \A k \in DOMAIN lines' : ~(lines'[k].n > copy'.file.threshold)
    BY <1>1, <1>2, <1>6
  <1>11. FollowInv'
    BY <1>1, <1>5, <1>7, <1>8, <1>9, <1>10 DEF FollowInv, Covered
  <1> QED  BY <1>4, <1>11 DEF CopyInv

\* Every other copied file.
LEMMA CopyFileStep ==
    ASSUME KeysTypeOK, CopyFields, CopyInv, UNCHANGED keyVars,
           CopySecret \/ CopyLog \/ ListRecords \/ CopyRecord \/ EndCopy
    PROVE  CopyInv'
  <1>1. /\ UNCHANGED <<made, secret, file, lines, records, job>>
        /\ SignerSets' = SignerSets /\ Members' = Members /\ FreshKeys' = FreshKeys
    BY SameKeys
  <1>2. ASSUME copy'.file = copy.file, CopiedSets' \subseteq CopiedSets \union SignerSets,
               CopiedRecords', Follows' => Follows /\ CopiedLines' = CopiedLines
        PROVE  CopyInv'
    <2>1. FreshUnsigned'
      BY <1>1, <1>2 DEF CopyInv, FreshUnsigned
    <2>2. ASSUME Follows' PROVE FollowInv'
      <3>1. Kept' = Kept
        BY <1>2, <2>2 DEF Kept
      <3>2. \A S \in SignerSets' \union CopiedSets' : Covered(S)
        BY <1>1, <1>2, <2>2 DEF CopyInv, FollowInv
      <3>3. \A S \in SignerSets' \union CopiedSets' :
                 \/ S \intersect Members' \subseteq Kept' \union {file'.current}
                 \/ {file'.current} \union Kept' \subseteq S
        BY <1>1, <3>1, <3>2 DEF Covered
      <3>4. SameFile'
        BY <1>1, <1>2, <2>2 DEF CopyInv, FollowInv, SameFile
      <3> QED  BY <1>1, <1>2, <2>2, <3>1, <3>3, <3>4 DEF CopyInv, FollowInv, Covered
    <2>3. FollowInv'
      BY <2>2 DEF FollowInv
    <2> QED  BY <1>2, <2>1, <2>3 DEF CopyInv
  <1>3. CASE CopySecret
    <2>1. /\ copy.step = "none"
          /\ copy' = [copy EXCEPT !.step = "issuer", !.secret = secret, !.quiet = job = Idle]
      BY <1>3 DEF CopySecret
    <2>2. /\ copy'.step = "issuer" /\ copy'.file = copy.file /\ copy'.records = copy.records
      BY <2>1 DEF CopyFields
    <2>3. CopiedSets' = CopiedSets
      BY <2>2 DEF CopiedSets
    <2> QED  BY <1>1, <1>2, <2>1, <2>2, <2>3 DEF CopyInv, CopiedRecords, Follows
  <1>4. CASE CopyLog
    <2>1. /\ copy.step = "log" /\ copy' = [copy EXCEPT !.step = "list", !.lines = lines]
      BY <1>4 DEF CopyLog
    <2>2. /\ copy'.step = "list" /\ copy'.file = copy.file /\ copy'.records = copy.records
          /\ copy'.lines = lines /\ copy'.rotated = copy.rotated
      BY <2>1 DEF CopyFields
    <2>3. CopiedSets' = CopiedSets /\ CopiedLines' = CopiedLines
      BY <2>1, <2>2 DEF CopiedSets, CopiedLines
    <2>4. CopiedRecords'
      BY <1>1, <2>1, <2>2 DEF CopyInv, CopiedRecords
    <2> QED  BY <1>2, <2>1, <2>2, <2>3, <2>4 DEF Follows
  <1>5. CASE ListRecords
    <2>1. /\ copy.step = "list"
          /\ copy' = [copy EXCEPT !.step = "records", !.listed = DOMAIN records]
      BY <1>5 DEF ListRecords
    <2>2. /\ copy'.step = "records" /\ copy'.file = copy.file /\ copy'.records = copy.records
          /\ copy'.lines = copy.lines /\ copy'.rotated = copy.rotated
          /\ copy'.listed = DOMAIN records
      BY <2>1 DEF CopyFields
    <2>3. CopiedSets' = CopiedSets /\ CopiedLines' = CopiedLines
      BY <2>1, <2>2 DEF CopiedSets, CopiedLines
    <2>4. CopiedRecords'
      BY <1>1, <2>1, <2>2 DEF CopyInv, CopiedRecords
    <2> QED  BY <1>2, <2>1, <2>2, <2>3, <2>4 DEF Follows
  <1>6. CASE CopyRecord
    <2>1. copy.step = "records"
      BY <1>6 DEF CopyRecord
    <2>2. PICK r \in copy.listed \ DOMAIN copy.records :
              copy' = [copy EXCEPT !.records = [s \in DOMAIN @ \union {r} |->
                                                  IF s = r THEN records[r] ELSE @[s]]]
      BY <1>6 DEF CopyRecord
    <2>3. /\ copy'.step = "records" /\ copy'.file = copy.file
          /\ copy'.records = [s \in DOMAIN copy.records \union {r} |->
                                 IF s = r THEN records[r] ELSE copy.records[s]]
          /\ copy'.lines = copy.lines /\ copy'.rotated = copy.rotated
          /\ copy'.listed = copy.listed
      BY <2>1, <2>2 DEF CopyFields
    <2>4. r \in DOMAIN records
      BY <2>1 DEF CopyInv, CopiedRecords
    <2>5. CopiedSets' \subseteq CopiedSets \union SignerSets
      BY <2>3, <2>4 DEF CopiedSets, SignerSets
    <2>6. CopiedLines' = CopiedLines /\ CopiedRecords'
      BY <1>1, <2>1, <2>3 DEF CopiedLines, CopyInv, CopiedRecords
    <2> QED  BY <1>2, <2>1, <2>3, <2>5, <2>6 DEF Follows
  <1>7. CASE EndCopy
    <2>1. copy.step = "records" /\ copy' = [copy EXCEPT !.step = "done"]
      BY <1>7 DEF EndCopy
    <2>2. /\ copy'.step = "done" /\ copy'.file = copy.file /\ copy'.records = copy.records
          /\ copy'.lines = copy.lines /\ copy'.rotated = copy.rotated
          /\ copy'.listed = copy.listed
      BY <2>1 DEF CopyFields
    <2>3. CopiedSets' = CopiedSets /\ CopiedLines' = CopiedLines
      BY <2>1, <2>2 DEF CopiedSets, CopiedLines
    <2>4. CopiedRecords'
      BY <1>1, <2>1, <2>2 DEF CopyInv, CopiedRecords
    <2> QED  BY <1>2, <2>1, <2>2, <2>3, <2>4 DEF Follows
  <1> QED  BY <1>3, <1>4, <1>5, <1>6, <1>7

LEMMA CopyInvStep ==
    ASSUME KeysTypeOK, KeysInv, SecretInFile, GivenAll, EnoughMembers, CopyFields, CopyInv,
           "issuer" \notin CrashSteps, [BackupNext]_backupVars
    PROVE  CopyInv'
  <1>1. CASE StoreStep
    <2>1. KeysNext /\ copy.step # "done"
      BY <1>1 DEF StoreStep
    <2>2. CASE Copying
      <3>1. copy' = [copy EXCEPT !.quiet = FALSE, !.rotated =
                @ \/ (copy.step # "issuer" /\ file'.current # copy.file.current)]
        BY <1>1, <2>2 DEF StoreStep
      <3>2. /\ CopyStays /\ copy'.listed = copy.listed
            /\ copy'.rotated = (copy.rotated \/
                   (copy.step # "issuer" /\ file'.current # copy.file.current))
        BY <3>1 DEF CopyFields, CopyStays
      <3>3. Follows' => Follows /\ file'.current = copy.file.current
        BY <3>2 DEF Follows, CopyStays
      <3> QED  BY <2>1, <3>2, <3>3, BesideStep
    <2>3. CASE ~Copying
      <3>1. copy' = copy /\ copy.step = "none"
        BY <1>1, <2>1, <2>3 DEF StoreStep, CopyFields, Copying
      <3>2. CopyStays /\ copy'.listed = copy.listed /\ ~Follows'
        BY <3>1 DEF CopyStays, Follows
      <3> QED  BY <2>1, <3>2, BesideStep
    <2> QED  BY <2>2, <2>3
  <1>2. CASE LaterRestore \/ UNCHANGED backupVars
    <2>1. [KeysNext]_keyVars /\ copy' = copy /\ file' = file
      BY <1>2 DEF LaterRestore, KeysNext, Tick, backupVars, keyVars
    <2>2. CopyStays /\ copy'.listed = copy.listed
      BY <2>1 DEF CopyStays
    <2>3. Follows' => Follows /\ file'.current = copy.file.current
      BY <2>1 DEF Follows, CopyInv, FollowInv, SameFile
    <2> QED  BY <2>1, <2>2, <2>3, BesideStep
  <1>3. CASE CopyStep
    <2>1. UNCHANGED keyVars
      BY <1>3 DEF CopyStep, keyVars
    <2> QED  BY <1>3, <2>1, CopyIssuerStep, CopyFileStep DEF CopyStep
  <1> QED  BY <1>1, <1>2, <1>3 DEF BackupNext

------------------------------------------------------------------------------
(* What the restored store trusts.                                           *)

LEMMA RestoredMax ==
    /\ \A S : Restored!Max(S) = Max(S) /\ Restored!Min(S) = Min(S)
    /\ \A S : Restored!Cardinality(S) = Cardinality(S)
  BY DEF Restored!Max, Restored!Min, Restored!Cardinality, Max, Min, Cardinality

\* The copied log adds no previous key and takes no time from one.
LEMMA RestoredPrevious ==
    ASSUME KeysTypeOK, KeysInv, CopiedRecords, SameFile, copy.step = "done"
    PROVE  /\ DOMAIN Restored!LoadIssuer.previous = DOMAIN file.previous
           /\ \A key \in DOMAIN file.previous :
                 /\ Restored!LoadIssuer.previous[key] \in Nat
                 /\ file.previous[key] <= Restored!LoadIssuer.previous[key]
  <1> DEFINE rotations == Restored!LinesOf("issuer_rotate")
  <1>1. /\ file.previous = copy.file.previous
        /\ \A key \in DOMAIN file.previous : file.previous[key] \in Nat
    BY IssuerFields, DatedFacts DEF SameFile, KeysTypeOK
  <1>2. \A line \in rotations : /\ line.key \in DOMAIN file.previous /\ line.kill \in Nat
                                /\ file.previous[line.key] <= line.kill
    <2>1. \A k \in DOMAIN copy.lines : k \in DOMAIN lines /\ copy.lines[k] = lines[k]
      BY DEF CopiedRecords
    <2>2. \A k \in DOMAIN lines : lines[k].kill \in Nat
      BY LineFields
    <2> QED  BY <2>1, <2>2 DEF Restored!LinesOf, KeysInv, FileIsAhead
  <1>3. Restored!LoggedPrevious \subseteq DOMAIN file.previous
    BY <1>2 DEF Restored!LoggedPrevious
  <1>4. /\ DOMAIN Restored!LoadIssuer.previous = DOMAIN file.previous
        /\ \A key \in DOMAIN file.previous :
              Restored!LoadIssuer.previous[key] = Restored!KillDate(file.previous, key)
    BY <1>1, <1>3 DEF Restored!LoadIssuer
  <1>5. ASSUME NEW key \in DOMAIN file.previous
        PROVE  /\ Restored!KillDate(file.previous, key) \in Nat
               /\ file.previous[key] <= Restored!KillDate(file.previous, key)
    <2>1. CASE key \notin Restored!LoggedPrevious
      BY <1>1, <2>1 DEF Restored!KillDate
    <2>2. CASE key \in Restored!LoggedPrevious
      <3> DEFINE dates == {line.kill : line \in {l \in rotations : l.key = key}}
      <3>1. dates \in SUBSET Nat /\ dates # {} /\ \A x \in dates : file.previous[key] <= x
        BY <1>2, <2>2 DEF Restored!LoggedPrevious
      <3>2. Restored!LoggedKillDate(key) = Min(dates)
        BY RestoredMax DEF Restored!LoggedKillDate
      <3> DEFINE both == {file.previous[key], Restored!LoggedKillDate(key)}
      <3> HIDE DEF dates, rotations
      <3>3. Min(dates) \in dates
        BY <3>1, MinFacts
      <3>4. both \in SUBSET Nat /\ both # {} /\ \A x \in both : file.previous[key] <= x
        <4>1. Restored!LoggedKillDate(key) \in Nat
              /\ file.previous[key] <= Restored!LoggedKillDate(key)
          BY <3>1, <3>2, <3>3
        <4>2. file.previous[key] \in Nat /\ file.previous[key] <= file.previous[key]
          BY <1>1
        <4> QED  BY <4>1, <4>2
      <3>5. Restored!KillDate(file.previous, key) = Min(both)
        BY <2>2, RestoredMax DEF Restored!KillDate
      <3> HIDE DEF both
      <3>6. Min(both) \in both
        BY <3>4, MinFacts
      <3> QED  BY <3>4, <3>5, <3>6
    <2> QED  BY <2>1, <2>2
  <1> QED  BY <1>4, <1>5

\* The threshold of the restored store is on the copied record or on a line of
\* the copied log, and the source has come at least as far.
LEMMA RestoredThreshold ==
    ASSUME KeysTypeOK, KeysInv, CopiedRecords, SameFile, copy.step = "done"
    PROVE  LET n == Restored!LoadIssuer.threshold
           IN  /\ n \in Nat /\ n <= file.threshold
               /\ \/ n <= copy.file.threshold
                  \/ \E k \in DOMAIN copy.lines : /\ k \in DOMAIN lines /\ copy.lines[k] = lines[k]
                                                  /\ n = lines[k].n /\ n > copy.file.threshold
  <1> DEFINE logged == {1} \union {copy.lines[k].n : k \in DOMAIN copy.lines}
             both == {copy.file.threshold, Restored!LoggedThreshold}
  <1>1. /\ \A k \in DOMAIN copy.lines : k \in DOMAIN lines /\ copy.lines[k] = lines[k]
        /\ \A k \in DOMAIN lines : lines[k].n \in Nat /\ lines[k].n <= file.threshold
    BY LineFields DEF CopiedRecords, KeysInv, FileIsAhead
  <1>2. /\ file.threshold \in Nat \ {0} /\ copy.file.threshold \in Nat \ {0}
        /\ copy.file.threshold <= file.threshold
    BY IssuerFields DEF SameFile, KeysTypeOK
  <1>3. logged \in SUBSET Nat /\ logged # {} /\ \A x \in logged : x <= file.threshold
    BY <1>1, <1>2
  <1>4. Restored!LoggedThreshold = Max(logged)
    BY RestoredMax DEF Restored!LoggedThreshold
  <1>5. Max(logged) \in logged
    <2> HIDE DEF logged
    <2> QED  BY <1>2, <1>3, MaxFacts
  <1>6. Restored!LoadIssuer.threshold = Max(both)
    BY RestoredMax DEF Restored!LoadIssuer
  <1>7. both \in SUBSET Nat /\ both # {} /\ \A x \in both : x <= file.threshold
    <2> HIDE DEF logged
    <2> QED  BY <1>2, <1>3, <1>4, <1>5
  <1>8. Max(both) \in both
    <2> HIDE DEF both
    <2> QED  BY <1>2, <1>7, MaxFacts
  <1>9. \/ Max(both) <= copy.file.threshold
        \/ \E k \in DOMAIN copy.lines : Max(both) = copy.lines[k].n
    <2>1. CASE Max(both) = copy.file.threshold
      BY <1>2, <2>1
    <2>2. CASE Max(both) = Max(logged)
      BY <1>2, <1>5, <2>2
    <2> QED  BY <1>4, <1>8, <2>1, <2>2
  <1>10. Max(both) \in Nat /\ Max(both) <= file.threshold
    BY <1>7, <1>8
  <1> HIDE DEF both
  <1> QED  BY <1>1, <1>2, <1>6, <1>9, <1>10

LEMMA RestoredKeys ==
    ASSUME KeysTypeOK, KeysInv, CopiedRecords, SameFile, copy.step = "done",
           copy.secret = file.current
    PROVE  /\ {file.current} \union Kept \subseteq Restored!RecordKeys
           /\ {key \in DOMAIN file.previous : now < file.previous[key]}
                  \subseteq Restored!RecordKeys
           /\ Restored!LogKeys \subseteq {file.current} \union Kept \union DOMAIN file.previous
  <1>1. Restored!LoggedMembers = LoggedAdds(copy.lines) /\ Kept = copy.file.members \intersect LoggedAdds(copy.lines)
    BY DEF Restored!LoggedMembers, Restored!LinesOf, LoggedAdds, Kept, CopiedLines
  <1>2. /\ Restored!LoadIssuer.current = file.current
        /\ Restored!LoadIssuer.members =
               copy.file.members \intersect (LoggedAdds(copy.lines) \union {file.current})
    BY <1>1 DEF Restored!LoadIssuer
  <1>3. /\ {file.current} \union Kept \subseteq Restored!SigningMembers(Restored!LoadIssuer)
        /\ Restored!SigningMembers(Restored!LoadIssuer) \subseteq {file.current} \union Kept
    BY <1>1, <1>2 DEF Restored!SigningMembers
  <1>4. /\ DOMAIN Restored!LoadIssuer.previous = DOMAIN file.previous
        /\ \A key \in DOMAIN file.previous :
              /\ Restored!LoadIssuer.previous[key] \in Nat
              /\ file.previous[key] <= Restored!LoadIssuer.previous[key]
    BY RestoredPrevious
  <1>5. ASSUME NEW key \in DOMAIN file.previous, now < file.previous[key]
        PROVE  now < Restored!LoadIssuer.previous[key]
    <2>1. now \in Nat /\ file.previous[key] \in Nat
      BY IssuerFields, DatedFacts DEF KeysTypeOK
    <2> QED  BY <1>4, <1>5, <2>1
  <1> QED  BY <1>3, <1>4, <1>5 DEF Restored!RecordKeys, Restored!LogKeys

\* What a normal restore knows of members is as many as its threshold.
LEMMA RestoredEnough ==
    ASSUME KeysTypeOK, KeysInv, CopyInv, Follows, copy.step = "done", OperationNormal
    PROVE  /\ IsFiniteSet({file.current} \union Kept)
           /\ Restored!LoadIssuer.threshold <= Cardinality({file.current} \union Kept)
  <1> DEFINE n == Restored!LoadIssuer.threshold
             all == {file.current} \union Kept
  <1>1. /\ SameFile /\ Kept \subseteq Members /\ CopiedRecords
        /\ copy.file.threshold <= Cardinality(all)
        /\ \A k \in DOMAIN lines : lines[k].n > copy.file.threshold =>
              lines[k].signers \intersect DOMAIN copy.file.previous = {}
    BY DEF CopyInv, FollowInv
  <1>2. copy.secret = file.current
    BY <1>1 DEF OperationNormal, SameKey, Restored!LoadIssuer, SameFile
  <1>3. IsFiniteSet(all) /\ Cardinality(all) \in Nat
    <2>1. Kept \subseteq 1..made /\ made \in Nat
      BY <1>1 DEF KeysTypeOK, Members
    <2>2. IsFiniteSet(1..made)
      BY <2>1, FS_Interval
    <2>3. IsFiniteSet(Kept)
      BY <2>1, <2>2, FS_Subset
    <2>4. IsFiniteSet(all)
      BY <2>3, FS_AddElement
    <2> QED  BY <2>4, FS_CardinalityType
  <1>4. /\ n \in Nat
        /\ \/ n <= copy.file.threshold
           \/ \E k \in DOMAIN copy.lines : /\ k \in DOMAIN lines /\ copy.lines[k] = lines[k]
                                           /\ n = lines[k].n /\ n > copy.file.threshold
    BY <1>1, RestoredThreshold
  <1>5. ASSUME NEW k \in DOMAIN copy.lines, k \in DOMAIN lines, copy.lines[k] = lines[k],
               n = lines[k].n, n > copy.file.threshold
        PROVE  n <= Cardinality(all)
    <2> DEFINE counted == lines[k].signers \intersect Restored!LogKeys
    <2>1. Cardinality(counted) >= n
      BY <1>5, RestoredMax
         DEF OperationNormal, LogChainOk, Restored!LineVerifies, Restored!Signed
    <2>2. counted \subseteq all
      <3>1. Restored!LogKeys \subseteq all \union DOMAIN file.previous
        BY <1>1, <1>2, RestoredKeys
      <3>2. lines[k].signers \intersect DOMAIN file.previous = {}
        BY <1>1, <1>5 DEF SameFile
      <3> HIDE DEF all
      <3> QED  BY <3>1, <3>2
    <2> HIDE DEF counted, all, n
    <2>3. Cardinality(counted) <= Cardinality(all) /\ Cardinality(counted) \in Nat
      BY <1>3, <2>2, FS_Subset, FS_CardinalityType
    <2> QED  BY <1>3, <1>4, <2>1, <2>3
  <1>6. copy.file.threshold \in Nat
    BY <1>1, IssuerFields DEF SameFile
  <1> HIDE DEF n, all
  <1>7. n <= Cardinality(all)
    BY <1>1, <1>3, <1>4, <1>5, <1>6
  <1> QED  BY <1>3, <1>7 DEF n, all

LEMMA NormalKeeps ==
    ASSUME KeysTypeOK, KeysInv, SecretInFile, CopyInv, Follows, copy.step = "done",
           OperationNormal, NEW r \in DOMAIN copy.records,
           Signed(copy.records[r].signers, RecordKeys, LoadIssuer.threshold)
    PROVE  Restored!TrustedRecord(r)
  <1> DEFINE S == copy.records[r].signers
             n == Restored!LoadIssuer.threshold
             all == {file.current} \union Kept
             live == {key \in DOMAIN file.previous : now < file.previous[key]}
             trusted == S \intersect RecordKeys
             restored == S \intersect Restored!RecordKeys
  <1>1. /\ SameFile /\ CopiedRecords /\ Covered(S)
        /\ S \subseteq 0..made /\ S \intersect FreshKeys = {}
    BY DEF CopyInv, FollowInv, FreshUnsigned, CopiedSets
  <1>2. copy.secret = file.current
    BY <1>1 DEF OperationNormal, SameKey, Restored!LoadIssuer, SameFile
  <1>3. all \subseteq Restored!RecordKeys /\ live \subseteq Restored!RecordKeys
    BY <1>1, <1>2, RestoredKeys
  <1>4. n \in Nat /\ n <= file.threshold /\ file.threshold \in Nat
    BY <1>1, RestoredThreshold, IssuerFields DEF KeysTypeOK
  <1>5. RecordKeys = {secret} \union Members \union live /\ LoadIssuer.threshold = file.threshold
    BY OverlayIsIdle, SigningFacts DEF KeysInv, Overlay, RecordKeys
  <1>6. Cardinality(trusted) >= file.threshold
    BY <1>5 DEF Signed
  <1>7. secret = file.current \/ secret \notin S
    BY <1>1 DEF SecretInFile, FreshKeys
  <1>8. IsFiniteSet(restored)
    <2>1. made \in Nat
      BY DEF KeysTypeOK
    <2>2. IsFiniteSet(0..made)
      BY <2>1, FS_Interval
    <2> HIDE DEF S
    <2>3. restored \in SUBSET (0..made)
      BY <1>1
    <2> HIDE DEF restored
    <2> QED  BY <2>2, <2>3, FS_Subset
  <1>9. IsFiniteSet(all) /\ n <= Cardinality(all)
    BY RestoredEnough
  <1> HIDE DEF n, live
  <1>10. CASE S \intersect Members \subseteq all
    <2>1. trusted \subseteq restored
      <3> HIDE DEF S
      <3> QED  BY <1>3, <1>5, <1>7, <1>10
    <2> HIDE DEF trusted, restored
    <2>2. /\ Cardinality(trusted) <= Cardinality(restored)
          /\ Cardinality(trusted) \in Nat /\ Cardinality(restored) \in Nat
      BY <1>8, <2>1, FS_Subset, FS_CardinalityType
    <2>3. Cardinality(restored) >= n
      BY <1>4, <1>6, <2>2
    <2> QED  BY <2>3, RestoredMax DEF Restored!TrustedRecord, Restored!Signed, restored, n
  <1>11. CASE all \subseteq S
    <2>1. all \subseteq restored
      BY <1>3, <1>11
    <2> HIDE DEF restored, all
    <2>2. /\ Cardinality(all) <= Cardinality(restored)
          /\ Cardinality(all) \in Nat /\ Cardinality(restored) \in Nat
      BY <1>8, <2>1, FS_Subset, FS_CardinalityType
    <2>3. Cardinality(restored) >= n
      BY <1>4, <1>9, <2>2
    <2> QED  BY <2>3, RestoredMax DEF Restored!TrustedRecord, Restored!Signed, restored, n
  <1> QED  BY <1>1, <1>10, <1>11 DEF Covered

LEMMA FollowStart == BackupInit => GivenAll /\ EnoughMembers /\ CopyInv
  <1> SUFFICES ASSUME BackupInit PROVE GivenAll /\ EnoughMembers /\ CopyInv
    OBVIOUS
  <1>1. /\ copy.step = "none" /\ copy.records = << >> /\ records = << >> /\ lines = << >>
        /\ job = Idle /\ file.current = 1 /\ file.threshold = 1
    BY DEF BackupInit, KeysInit, NoCopy
  <1>2. DOMAIN copy.records = {} /\ DOMAIN records = {}
    BY <1>1
  <1>3. GivenAll
    BY <1>1, JobKinds DEF GivenAll
  <1>4. EnoughMembers
    <2>1. DOMAIN lines = {}
      BY <1>1
    <2>2. {file.current} \union Members = {1}
      BY <1>1, <2>1 DEF Members, LoggedMembers, LinesOf
    <2> DEFINE all == {file.current} \union Members
    <2>3. Cardinality({1}) = 1
      BY FS_Singleton
    <2>4. Cardinality(all) = 1
      BY <2>2, <2>3
    <2> HIDE DEF all
    <2>5. file.threshold <= Cardinality(all)
      BY <1>1, <2>4
    <2> QED  BY <2>5 DEF EnoughMembers, all
  <1>5. CopyInv
    BY <1>1, <1>2 DEF CopyInv, FreshUnsigned, SignerSets, CopiedSets, CopiedRecords, FollowInv, Follows
  <1> QED  BY <1>3, <1>4, <1>5

\* Where the process does not die between the new secret and the issuer record
\* that names it: however many operations fell between the copied files, a
\* restore that the diagnostics call normal trusts every record that the source
\* would, but for the one case that NormalRestoreKeepsRecords names.
THEOREM NormalRestoreKeeps ==
    ASSUME "issuer" \notin CrashSteps
    PROVE  BackupSpec => []NormalRestoreKeepsRecords
  <1>1. (KeysTypeOK /\ KeysInv) /\ (SecretInFile /\ LinesCount) /\ [KeysNext]_keyVars =>
            (SecretInFile /\ LinesCount)'
    BY LogStep
  <1>2. (CopyFields /\ QuietInv) /\ [BackupNext]_backupVars => (CopyFields /\ QuietInv)'
    BY CopyMoves
  <1>3. KeysTypeOK /\ KeysInv /\ SecretInFile /\ CopyFields /\ (GivenAll /\ EnoughMembers /\ CopyInv)
            /\ [KeysNext]_keyVars /\ [BackupNext]_backupVars
            => (GivenAll /\ EnoughMembers /\ CopyInv)'
    BY StepKinds, EnoughStep, CopyInvStep
  <1>4. KeysTypeOK /\ KeysInv /\ SecretInFile /\ CopyInv => NormalRestoreKeepsRecords
    BY NormalKeeps DEF NormalRestoreKeepsRecords, Follows
  <1>5. BackupSpec => KeysSpec
    BY CopyLeavesStore
  <1> QED  BY <1>1, <1>2, <1>3, <1>4, <1>5, CopyStart, LogStart, FollowStart, KeysSafe, PTL
           DEF BackupSpec, KeysSpec
==============================================================================
