------------------------------ MODULE IssuerKeys -----------------------------
(***************************************************************************)
(* The keys the issuer signs with: rotation of the current key, member     *)
(* keys, the issuance threshold, and what they make of the records and the *)
(* log lines that earlier keys signed.  Kernel takes every record of the   *)
(* store for trusted; here a record is no more than who signed it.         *)
(*                                                                         *)
(* One process works on the store.  An operation that writes more than one *)
(* file is a job of several steps, and the process may die between them.   *)
(* Keys are numbered as they are generated; Foreign is a key of nobody     *)
(* here.  The store is not sealed: a sealed store refuses every operation  *)
(* of this module but issuance, which Kernel stops.                        *)
(***************************************************************************)
EXTENDS Naturals, Sequences, FiniteSets, FiniteSetsExt

CONSTANTS
    KillDelays,      \* values of --kill-after-seconds
    Thresholds,      \* values of issuer threshold --n
    CrashSteps,      \* steps of a job before which the process may die
    \* bounds on the keys generated, on the records, on the lines, on the clock
    MaxKeys, MaxRecords, MaxLines, MaxTime

Foreign == 0

ASSUME IssuerKeysAssumption ==
    /\ KillDelays \subseteq Nat /\ Thresholds \subseteq Nat \ {0}
    /\ CrashSteps \subseteq {"issuer", "resign", "line"}

VARIABLES
    now,
    made,            \* the number of keys generated
    secret,          \* the key of issuer.secret
    file,            \* issuer.json
    lines,           \* issuance.log
    records,         \* every signed record of the store, of whatever kind
    job              \* the operation under way

keyVars == <<now, made, secret, file, lines, records, job>>

Idle == [step |-> "idle"]

------------------------------------------------------------------------------
(* issuer.json, as load_issuer reads it: the log overrides the file where    *)
(* the log says more, and issuer.secret names the current key.               *)

LinesOf(op) == {lines[k] : k \in {k \in DOMAIN lines : lines[k].op = op}}

LoggedThreshold == Max({1} \union {lines[k].n : k \in DOMAIN lines})
LoggedMembers == {line.key : line \in LinesOf("issuer_member_add")}
LoggedPrevious == {line.key : line \in LinesOf("issuer_rotate")}
LoggedKillDate(key) ==
    Min({line.kill : line \in {line \in LinesOf("issuer_rotate") : line.key = key}})

\* The earlier of the date on file and the dates that were logged.
KillDate(previous, key) ==
    IF key \notin LoggedPrevious THEN previous[key]
    ELSE IF key \notin DOMAIN previous THEN LoggedKillDate(key)
    ELSE Min({previous[key], LoggedKillDate(key)})

LoadIssuer ==
    [current   |-> secret,
     members   |-> file.members \intersect (LoggedMembers \union {secret}),
     previous  |-> [key \in DOMAIN file.previous \union LoggedPrevious |->
                       KillDate(file.previous, key)],
     threshold |-> Max({file.threshold, LoggedThreshold})]

\* trusted_signing_member_public_keys
SigningMembers(issuer) == {issuer.current} \union issuer.members

\* trusted_keys_for_record_threshold: a previous key until its kill date.
RecordKeys ==
    SigningMembers(LoadIssuer) \union
        {key \in DOMAIN LoadIssuer.previous : now < LoadIssuer.previous[key]}

\* Mutant of LogKeys: lines fall with the key that signed them.
LogKeysBeforeKillDate == RecordKeys

\* trusted_issuer_keys_for_issuance_log: a previous key for ever.
LogKeys == SigningMembers(LoadIssuer) \union DOMAIN LoadIssuer.previous

\* require_threshold_signatures
Signed(signers, keys, threshold) == Cardinality(signers \intersect keys) >= threshold

TrustedRecord(r) == Signed(records[r].signers, RecordKeys, LoadIssuer.threshold)
LineVerifies(line) == Signed(line.signers, LogKeys, line.n)

------------------------------------------------------------------------------
(* Signing and saving.                                                       *)

\* member_secrets_for_named_threshold, for a command that was given the
\* secrets of some members: at threshold 1 the current key signs alone.
Signers(issuer, threshold, given) ==
    IF threshold = 1 THEN {issuer.current}
    ELSE {issuer.current} \union (issuer.members \intersect given)

CanSign(threshold, given) ==
    Cardinality(Signers(LoadIssuer, threshold, given)) >= threshold

\* What the present key and threshold sign.
SignedNow(given) == Signers(LoadIssuer, LoadIssuer.threshold, given)

Append1(op, key, kill, given) ==
    lines' = Append(lines, [op |-> op, key |-> key, kill |-> kill,
                            n |-> LoadIssuer.threshold, signers |-> SignedNow(given)])

\* The freezes of save_issuer: a new current key must be the one of
\* issuer.secret and leave the old one on record; members come with their
\* secret; previous keys stay, with dates no later; the threshold stays.
MaySaveIssuer(issuer, given) ==
    /\ \/ issuer.current = file.current
       \/ issuer.current = secret /\ file.current \in DOMAIN issuer.previous
    /\ issuer.members \subseteq file.members \union {file.current, issuer.current} \union given
    /\ \A key \in DOMAIN file.previous \union LoggedPrevious :
          /\ key \in DOMAIN issuer.previous
          /\ issuer.previous[key] <= KillDate(file.previous, key)
    /\ DOMAIN issuer.previous \subseteq DOMAIN file.previous \union {file.current}
    /\ issuer.threshold >= Max({file.threshold, LoggedThreshold})

Room(n) == Len(lines) + n <= MaxLines

------------------------------------------------------------------------------
(* The operations.                                                           *)

\* A record is saved for the first time, and logged.
IssueRecord(given) ==
    /\ job = Idle
    /\ CanSign(LoadIssuer.threshold, given)
    /\ Len(records) < MaxRecords /\ Room(1)
    /\ records' = Append(records, [planted |-> FALSE, signers |-> SignedNow(given)])
    /\ Append1("issue", 0, 0, given)
    /\ UNCHANGED <<now, made, secret, file, job>>

\* A record is saved again, and the kill that changed it logged.  What is
\* stored must be trusted.
KillRecord(r, given) ==
    /\ job = Idle
    /\ CanSign(LoadIssuer.threshold, given)
    /\ TrustedRecord(r)
    /\ Room(1)
    /\ records' = [records EXCEPT ![r].signers = SignedNow(given)]
    /\ Append1("kill", 0, 0, given)
    /\ UNCHANGED <<now, made, secret, file, job>>

\* rotate_issuer_key up to its first write: the new secret.
BeginRotate(after, given) ==
    LET issuer == LoadIssuer
        new == made + 1
    IN  /\ job = Idle
        /\ CanSign(issuer.threshold, given)
        /\ made < MaxKeys /\ Room(1)
        /\ made' = new
        /\ secret' = new
        /\ job' = [step |-> "issuer", op |-> "issuer_rotate", key |-> issuer.current,
                   kill |-> now + after, given |-> given, next |-> 1,
                   trusted |-> {r \in DOMAIN records : TrustedRecord(r)},
                   issuer |-> [issuer EXCEPT
                       !.current = new,
                       !.members = (@ \ {issuer.current}) \union {new},
                       !.previous = [key \in DOMAIN @ \union {issuer.current} |->
                           IF key = issuer.current THEN now + after ELSE @[key]]]]
        /\ UNCHANGED <<now, file, lines, records>>

\* The issuer record that names the new key.  A save that is refused ends the
\* rotation with the new secret in place.
SaveRotatedIssuer ==
    /\ job.step = "issuer"
    /\ IF MaySaveIssuer(job.issuer, job.given)
       THEN /\ file' = job.issuer
            /\ job' = [job EXCEPT !.step = "resign"]
       ELSE file' = file /\ job' = Idle
    /\ UNCHANGED <<now, made, secret, lines, records>>

\* Mutant of ResignRecord: whatever the store holds is signed again.
ResignAnyRecord ==
    /\ job.step = "resign" /\ job.next \in DOMAIN records
    /\ records' = [records EXCEPT ![job.next].signers = SignedNow(job.given)]
    /\ job' = [job EXCEPT !.next = @ + 1]
    /\ UNCHANGED <<now, made, secret, file, lines>>

\* Mutant of ResignRecord: the last record is left out.
ResignAllButLast ==
    /\ job.step = "resign" /\ job.next \in DOMAIN records
    /\ records' = [records EXCEPT ![job.next].signers =
                      IF TrustedRecord(job.next) /\ job.next < Len(records)
                      THEN SignedNow(job.given) ELSE @]
    /\ job' = [job EXCEPT !.next = @ + 1]
    /\ UNCHANGED <<now, made, secret, file, lines>>

\* resign_store_records: the records one by one, those that are trusted.
ResignRecord ==
    /\ job.step = "resign" /\ job.next \in DOMAIN records
    /\ records' = [records EXCEPT ![job.next].signers =
                      IF TrustedRecord(job.next) THEN SignedNow(job.given) ELSE @]
    /\ job' = [job EXCEPT !.next = @ + 1]
    /\ UNCHANGED <<now, made, secret, file, lines>>

EndResign ==
    /\ job.step = "resign" /\ job.next \notin DOMAIN records
    /\ job' = [job EXCEPT !.step = "line"]
    /\ UNCHANGED <<now, made, secret, file, lines, records>>

\* add_issuer_member up to the saved issuer.
AddIssuerMember(given) ==
    LET issuer == [LoadIssuer EXCEPT !.members = @ \union {made + 1}] IN
    /\ job = Idle
    /\ CanSign(issuer.threshold, given)
    /\ made < MaxKeys /\ Room(1)
    /\ MaySaveIssuer(issuer, given \union {made + 1})
    /\ made' = made + 1
    /\ file' = issuer
    /\ job' = [step |-> "line", op |-> "issuer_member_add", key |-> made + 1,
               kill |-> 0, given |-> given]
    /\ UNCHANGED <<now, secret, lines, records>>

\* set_issuer_threshold up to the saved issuer.
SetIssuerThreshold(threshold, given) ==
    LET issuer == [LoadIssuer EXCEPT !.threshold = threshold] IN
    /\ job = Idle
    /\ threshold <= Cardinality(SigningMembers(LoadIssuer))
    /\ threshold > LoadIssuer.threshold
    /\ CanSign(threshold, given)
    /\ Room(1)
    /\ MaySaveIssuer(issuer, given)
    /\ file' = issuer
    /\ job' = [step |-> "line", op |-> "issuer_threshold", key |-> 0, kill |-> 0,
               given |-> given]
    /\ UNCHANGED <<now, made, secret, lines, records>>

\* The line that ends each of the three.
AppendJobLine ==
    /\ job.step = "line"
    /\ Append1(job.op, job.key, job.kill, job.given)
    /\ job' = Idle
    /\ UNCHANGED <<now, made, secret, file, records>>

Crash ==
    /\ job.step \in CrashSteps
    /\ job' = Idle
    /\ UNCHANGED <<now, made, secret, file, lines, records>>

\* Who may sign a record that no operation wrote: nobody, a foreign key, an old
\* key past its date, or, where one key is not enough, the current key.
PlantedSigners ==
    {{}, {Foreign}}
        \union {{key} : key \in {k \in DOMAIN LoadIssuer.previous :
                                    now >= LoadIssuer.previous[k]}}
        \union (IF LoadIssuer.threshold > 1 THEN {{secret}} ELSE {})

\* A file appears in the store.
Plant(signers) ==
    /\ job = Idle
    /\ Len(records) < MaxRecords
    /\ \A r \in DOMAIN records : ~records[r].planted
    /\ records' = Append(records, [planted |-> TRUE, signers |-> signers])
    /\ UNCHANGED <<now, made, secret, file, lines, job>>

\* An operation is short beside the delays the dates are set with.
Tick ==
    /\ job = Idle
    /\ now < MaxTime
    /\ now' = now + 1
    /\ UNCHANGED <<made, secret, file, lines, records, job>>

------------------------------------------------------------------------------

KeysInit ==
    /\ now = 0
    /\ made = 1
    /\ secret = 1
    /\ file = [current |-> 1, members |-> {1}, previous |-> << >>, threshold |-> 1]
    /\ lines = <<>>
    /\ records = <<>>
    /\ job = Idle

\* A command is given the secret of every member or of none.
Operation(given) ==
    \/ IssueRecord(given)
    \/ \E r \in DOMAIN records : KillRecord(r, given)
    \/ \E after \in KillDelays : BeginRotate(after, given)
    \/ AddIssuerMember(given)
    \/ \E threshold \in Thresholds : SetIssuerThreshold(threshold, given)

KeysNext ==
    \/ \E given \in {{}, LoadIssuer.members} : Operation(given)
    \/ SaveRotatedIssuer \/ ResignRecord \/ EndResign \/ AppendJobLine
    \/ Crash
    \/ \E signers \in PlantedSigners : Plant(signers)
    \/ Tick

KeysSpec == KeysInit /\ [][KeysNext]_keyVars

------------------------------------------------------------------------------
(* Properties.                                                               *)

\* Between operations the whole log verifies, whatever keys and thresholds came
\* and went since a line was signed: no rotation, new member or raise, finished
\* or cut short, takes a signature from under an old line
\* (trusted_issuer_keys_for_issuance_log).
LogStaysVerifiable == job = Idle => \A k \in DOMAIN lines : LineVerifies(lines[k])

\* A planted record is never trusted, and no operation launders it: "Rotate
\* must not launder a planted record" (require_stored_record_trusted,
\* resign_store_records).
PlantedNeverTrusted == \A r \in DOMAIN records : records[r].planted => ~TrustedRecord(r)

\* When a rotation comes to its line, every record that was trusted when it
\* began is signed without the old key, whose date may come (resign_store_records).
RotatedRecordsNeedNoOldKey ==
    job.step = "line" /\ job.op = "issuer_rotate" =>
        \A r \in job.trusted :
            Signed(records[r].signers, SigningMembers(LoadIssuer), LoadIssuer.threshold)

\* README: "Old capabilities verify until capability expiry.  Rotate does not
\* revoke already-issued capabilities."
OldCapabilitiesVerify ==
    job = Idle => \A r \in DOMAIN records : records[r].planted \/ TrustedRecord(r)
==============================================================================
