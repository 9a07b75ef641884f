----------------------------- MODULE IssuanceLog -----------------------------
(***************************************************************************)
(* issuance.log as a file: what append_log does to it byte by byte, as far *)
(* as a reader can tell, and what the two ways to read it make of it.      *)
(* Kernel and KernelProcesses take an append for one step; here it is the  *)
(* reads, the two writes and the crashes it consists of.  Several          *)
(* processes share the file and nothing locks it; O_APPEND makes each      *)
(* write land at its end.                                                  *)
(*                                                                         *)
(* The file is a sequence of raw lines.  A raw line is the sequence of the *)
(* pieces that were written to it: one whole line as a rule, but several   *)
(* when a newline came late, and a torn one when a write was cut short.    *)
(* A SHA-256 digest is taken for the text it is a digest of.               *)
(***************************************************************************)
EXTENDS Naturals, Sequences

CONSTANTS
    Processes,
    MaxLines        \* bound: lines ever sealed

ASSUME IssuanceLogAssumption == MaxLines \in Nat

VARIABLES
    text,           \* the raw lines of the file
    open,           \* does the last raw line lack its newline?
    sealed,         \* the lines that were sealed, in order; a line is its index
    job,            \* what each process is doing
    acknowledged,   \* history: lines whose append_log_line returned
    decision        \* history: the latest decision, and what it had read

logVars == <<text, open, sealed, job, acknowledged, decision>>

Idle == [step |-> "idle"]

------------------------------------------------------------------------------
(* Reading.                                                                  *)

\* serde_json parses a raw line that is one whole line and nothing more.
Parses(raw) == Len(raw) = 1 /\ raw[1].whole

\* Mutant of Readable: read_log passes over a line that does not parse.
ReadableLeniently == TRUE

\* read_log: one line that does not parse fails the whole reading.
Readable == \A k \in DOMAIN text : Parses(text[k])

\* The lines read_log returns.
LinesRead == {raw[1].line : raw \in {text[k] : k \in {j \in DOMAIN text : Parses(text[j])}}}

\* The digest input of previous_line_hash: nothing for the first line.
Previous(k) == IF k = 1 THEN <<>> ELSE text[k - 1]

\* last_nonempty_log_line does not parse what it returns.
LastLine == Previous(Len(text) + 1)

\* Mutant of Chained: only the last link is compared.
LastChained ==
    text # <<>> => sealed[text[Len(text)][1].line].previous = Previous(Len(text))

\* Each line names the raw line in front of it.
Chained ==
    \A k \in DOMAIN text : sealed[text[k][1].line].previous = Previous(k)

\* verify_issuance_log_text: the hash chain and, which never fails here, the
\* line's own hash and signature.
VerifyLogChain == Readable /\ Chained

------------------------------------------------------------------------------
(* Writing.                                                                  *)

Step(p, next) == job' = [job EXCEPT ![p] = next]
At(p, step) == job[p].step = step

\* Mutant of Write: no O_APPEND; a write lands where the last whole line ended.
WriteOver(piece) ==
    /\ text' = IF open THEN [text EXCEPT ![Len(text)] = <<piece>>]
               ELSE Append(text, <<piece>>)
    /\ open' = TRUE

\* A write lands at the end of the file, in the last raw line while that has
\* no newline.
Write(piece) ==
    /\ text' = IF open
               THEN [text EXCEPT ![Len(text)] = Append(@, piece)]
               ELSE Append(text, <<piece>>)
    /\ open' = TRUE

\* An operation reads the log and decides.  A log that does not read is an
\* error: the operation is refused and writes nothing.
Decide(p) ==
    /\ At(p, "idle")
    /\ Readable
    /\ decision' = [read |-> LinesRead, acknowledged |-> acknowledged,
                    verified |-> VerifyLogChain]
    /\ Step(p, [step |-> "seal"])
    /\ UNCHANGED <<text, open, sealed, acknowledged>>

\* sealed_log_line: the last raw line, then load_issuer, which reads the log.
\* They are one step: a log that does not read any more at the second reading
\* refuses the operation, and so does Crash in the step after this one.
Seal(p) ==
    /\ At(p, "seal")
    /\ Readable
    /\ Len(sealed) < MaxLines
    /\ sealed' = Append(sealed, [previous |-> LastLine, after |-> LinesRead])
    /\ Step(p, [step |-> "write", line |-> Len(sealed) + 1])
    /\ UNCHANGED <<text, open, acknowledged, decision>>

\* The log stopped reading in the meantime: sealed_log_line returns the error.
Refuse(p) ==
    /\ At(p, "seal")
    /\ ~Readable
    /\ Step(p, Idle)
    /\ UNCHANGED <<text, open, sealed, acknowledged, decision>>

\* append_log_line, the line itself.
WriteLine(p) ==
    /\ At(p, "write")
    /\ Write([line |-> job[p].line, whole |-> TRUE])
    /\ Step(p, [job[p] EXCEPT !.step = "newline"])
    /\ UNCHANGED <<sealed, acknowledged, decision>>

\* append_log_line, the newline.  A second one makes an empty line, which
\* every reader skips.
WriteNewline(p) ==
    /\ At(p, "newline")
    /\ open' = FALSE
    /\ acknowledged' = acknowledged \union {job[p].line}
    /\ Step(p, Idle)
    /\ UNCHANGED <<text, sealed, decision>>

\* A process dies between two of its writes,
Crash(p) ==
    /\ ~At(p, "idle")
    /\ Step(p, Idle)
    /\ UNCHANGED <<text, open, sealed, acknowledged, decision>>

\* or the write is cut short.
TornWrite(p) ==
    /\ At(p, "write")
    /\ Write([line |-> job[p].line, whole |-> FALSE])
    /\ Step(p, Idle)
    /\ UNCHANGED <<sealed, acknowledged, decision>>

------------------------------------------------------------------------------

LogInit ==
    /\ text = <<>>
    /\ open = FALSE
    /\ sealed = <<>>
    /\ job = [p \in Processes |-> Idle]
    /\ acknowledged = {}
    /\ decision = [read |-> {}, acknowledged |-> {}, verified |-> TRUE]

LogNext ==
    \E p \in Processes :
        \/ Decide(p) \/ Seal(p) \/ Refuse(p)
        \/ WriteLine(p) \/ WriteNewline(p)
        \/ Crash(p) \/ TornWrite(p)

LogSpec == LogInit /\ [][LogNext]_logVars

------------------------------------------------------------------------------
(* Properties.                                                               *)

\* A decision rests on every line whose append had returned, a kill among them,
\* whatever other processes and crashes have done to the file: a line that was
\* glued to another or torn makes the reading fail, never disappear (read_log).
NothingAcknowledgedIsOverlooked == decision.acknowledged \subseteq decision.read

\* A log that verifies was written in the order it is read: each line was
\* sealed by a process that had the lines in front of it in view, and no others
\* (sealed_log_line, verify_issuance_log_text).
ChainWitnessesOrder ==
    VerifyLogChain =>
        \A k \in DOMAIN text :
            sealed[text[k][1].line].after = {text[j][1].line : j \in 1..(k - 1)}

\* A chain that is broken stays broken: no later append mends it.
BreakIsForever == [][~VerifyLogChain => ~VerifyLogChain']_logVars

\* The file with its pieces and crashes is, to whoever reads it, the log that the
\* other modules take it for: lines come at the end, whole and one at a time, or
\* no reading succeeds any more (append_log_line, read_log).
AsLog == INSTANCE AppendOnlyLog WITH
    Lines <- 1..MaxLines,
    entries <- IF Readable THEN [k \in DOMAIN text |-> text[k][1].line] ELSE <<>>,
    damaged <- ~Readable,
    returned <- acknowledged,
    reading <- [read |-> decision.read, acknowledged |-> decision.acknowledged]

ImplementsAppendOnlyLog == AsLog!AOLSpec

\* README: "The check fails closed when any of these is true: [...] broken
\* issuance-log hash chain".
CheckNeedsUnbrokenChain == decision.verified
==============================================================================
