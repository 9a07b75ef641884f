----------------------------- MODULE AppendOnlyLog -----------------------------
(***************************************************************************)
(* What Kernel and KernelProcesses take the issuance log for: a sequence   *)
(* of lines that grows at its end by one line at a time, and is read as a  *)
(* whole.  The one thing that can happen to it is damage, and a damaged    *)
(* log is never read again.                                                *)
(***************************************************************************)
EXTENDS Sequences

CONSTANT Lines     \* the lines there can be

VARIABLES
    entries,     \* the lines, while the log can be read
    damaged,     \* can it not be read?
    returned,    \* lines whose append has returned
    reading      \* what the latest decision read, and what had returned by then

aolVars == <<entries, damaged, returned, reading>>

InLog == {entries[k] : k \in DOMAIN entries}

AOLInit ==
    /\ entries = <<>> /\ damaged = FALSE
    /\ returned = {}
    /\ reading = [read |-> {}, acknowledged |-> {}]

AppendEntry ==
    /\ ~damaged
    /\ \E line \in Lines \ InLog : entries' = Append(entries, line)
    /\ UNCHANGED <<damaged, returned, reading>>

Damage ==
    /\ damaged' = TRUE /\ entries' = <<>>
    /\ UNCHANGED <<returned, reading>>

\* An append returns with its line in the log, or with the log beyond reading.
Return ==
    /\ \E line \in Lines : (damaged \/ line \in InLog) /\ returned' = returned \union {line}
    /\ UNCHANGED <<entries, damaged, reading>>

Read ==
    /\ ~damaged
    /\ reading' = [read |-> InLog, acknowledged |-> returned]
    /\ UNCHANGED <<entries, damaged, returned>>

AOLNext == AppendEntry \/ Damage \/ Return \/ Read

AOLSpec == AOLInit /\ [][AOLNext]_aolVars
================================================================================
