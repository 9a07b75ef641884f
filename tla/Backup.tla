------------------------------- MODULE Backup --------------------------------
(***************************************************************************)
(* A copy of the store and what comes back from it.  The backup takes no   *)
(* lock: one process copies the files of the store one after the other     *)
(* while another, the process of IssuerKeys, goes on with its operations.  *)
(* What the restored store makes of the copy is IssuerKeys itself, read    *)
(* over the copied files.                                                  *)
(*                                                                         *)
(* The copy of one file is one step: a copy torn within a file is not      *)
(* parsed, which is a refused restore, and the torn log is IssuanceLog's.  *)
(* When the copy is done the source stops ("The old mint must already be   *)
(* dead"), and the clock goes on to any restore.                           *)
(***************************************************************************)
EXTENDS IssuerKeys

CONSTANTS
    CopyFrom,        \* numbers of log lines at which a copy may begin
    MaxBeside        \* bound on the operations that begin beside a copy

ASSUME BackupAssumption == CopyFrom \subseteq Nat /\ MaxBeside \in Nat

VARIABLES
    copy,            \* the copied files, and the file that comes next
    beside           \* the operations that began beside the copy

backupVars == <<now, made, secret, file, lines, records, job, copy, beside>>

\* "rotated" notes a rotation whose issuer.json came after the copy of the old.
NoCopy == [step |-> "none", secret |-> 0, file |-> file, lines |-> <<>>,
           records |-> << >>, listed |-> {}, rotated |-> FALSE, quiet |-> TRUE]

Copying == copy.step \in {"issuer", "log", "list", "records"}

\* The store that restore_issuer_backup makes of the copy.
Restored == INSTANCE IssuerKeys WITH
    secret <- copy.secret, file <- copy.file, lines <- copy.lines,
    records <- copy.records, job <- Idle

------------------------------------------------------------------------------
(* copy_backup_allow_list: issuer.secret, issuer.json, issuance.log, and then *)
(* the directories, each as read_dir lists it.                                *)

CopySecret ==
    /\ copy.step = "none" /\ Len(lines) \in CopyFrom
    /\ copy' = [copy EXCEPT !.step = "issuer", !.secret = secret,
                            !.quiet = job = Idle]

CopyIssuer ==
    /\ copy.step = "issuer"
    /\ copy' = [copy EXCEPT !.step = "log", !.file = file]

CopyLog ==
    /\ copy.step = "log"
    /\ copy' = [copy EXCEPT !.step = "list", !.lines = lines]

ListRecords ==
    /\ copy.step = "list"
    /\ copy' = [copy EXCEPT !.step = "records", !.listed = DOMAIN records]

CopyRecord ==
    /\ copy.step = "records"
    /\ \E r \in copy.listed \ DOMAIN copy.records :
          copy' = [copy EXCEPT !.records = [s \in DOMAIN @ \union {r} |->
                                              IF s = r THEN records[r] ELSE @[s]]]

EndCopy ==
    /\ copy.step = "records" /\ DOMAIN copy.records = copy.listed
    /\ copy' = [copy EXCEPT !.step = "done"]

CopyStep ==
    /\ \/ CopySecret \/ CopyIssuer \/ CopyLog
       \/ ListRecords \/ CopyRecord \/ EndCopy
    /\ UNCHANGED <<now, made, secret, file, lines, records, job, beside>>

------------------------------------------------------------------------------
(* restore_diagnostics, as far as the copied files can differ: no member      *)
(* secret is ever copied, and the copied secret is the key that load_issuer   *)
(* takes for current.                                                         *)

SameKey == Restored!LoadIssuer.current = copy.file.current

LogChainOk == \A k \in DOMAIN copy.lines : Restored!LineVerifies(copy.lines[k])

\* Mutant of OperationNormal: the keys are not compared.
NormalWhateverTheKey == LogChainOk

OperationNormal == SameKey /\ LogChainOk

------------------------------------------------------------------------------

BackupInit == KeysInit /\ copy = NoCopy /\ beside = 0

\* The store goes on.  An operation is short beside the copy, and a copy
\* beside the delays of the kill dates.
StoreStep ==
    /\ copy.step # "done"
    /\ KeysNext
    /\ Copying => now' = now
    /\ IF Copying /\ job = Idle THEN beside < MaxBeside /\ beside' = beside + 1
       ELSE beside' = beside
    /\ copy' = IF ~Copying THEN copy
               ELSE [copy EXCEPT !.quiet = FALSE, !.rotated =
                  @ \/ (copy.step # "issuer" /\ file'.current # copy.file.current)]

LaterRestore ==
    /\ copy.step = "done"
    /\ Tick
    /\ UNCHANGED <<copy, beside>>

BackupNext == StoreStep \/ CopyStep \/ LaterRestore

BackupSpec == BackupInit /\ [][BackupNext]_backupVars

------------------------------------------------------------------------------
(* Properties.                                                               *)

\* What restore_diagnostics calls normal operation is one: what the source would
\* make of a copied record, the restored store makes of it too, however the
\* operations fell between the copied files.  But for one case that the
\* diagnostics cannot see: a rotation that saved its issuer.json after the old
\* one was copied, and signed records anew before they were.
NormalRestoreKeepsRecords ==
    copy.step = "done" /\ OperationNormal /\ ~copy.rotated =>
        \A r \in DOMAIN copy.records :
            Signed(copy.records[r].signers, RecordKeys, LoadIssuer.threshold) =>
                Restored!TrustedRecord(r)

\* A copy of a store at rest always restores: the diagnostics find the same key
\* and a log that verifies, whatever was rotated, raised or cut short before
\* (export_issuer_backup, restore_from_backup).
QuietBackupRestores ==
    copy.step = "done" /\ copy.quiet => OperationNormal
==============================================================================
