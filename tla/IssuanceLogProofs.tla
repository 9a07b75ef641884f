------------------------- MODULE IssuanceLogProofs ---------------------------
(***************************************************************************)
(* Theorems about the issuance log, for any number of processes and lines: *)
(* the file (IssuanceLog), the tree over it (LogProof), what is exported   *)
(* of it (LogExports) and what is accepted elsewhere (Bundles).            *)
(***************************************************************************)
EXTENDS Bundles, SequenceTheorems, WellFoundedInduction, TLAPS

------------------------------------------------------------------------------
(* The inductive invariant.                                                  *)

Piece == [line : Nat, whole : BOOLEAN]
Job == [step : {"idle", "seal"}] \union [step : {"write", "newline"}, line : Nat]

\* The types.  A raw line has at least one piece, and an open one exists.
LogTypeOK ==
    /\ text \in Seq(Seq(Piece))
    /\ \A k \in DOMAIN text : Len(text[k]) >= 1
    /\ open \in BOOLEAN /\ (open => Len(text) >= 1)
    /\ sealed \in Seq([previous : Seq(Piece), after : SUBSET Nat])
    /\ job \in [Processes -> Job]

\* A piece of the line is in the file; the whole line is.
Begun(line) == \E k \in DOMAIN text : \E j \in DOMAIN text[k] : text[k][j].line = line
Kept(line) ==
    \E k \in DOMAIN text : \E j \in DOMAIN text[k] :
        text[k][j] = [line |-> line, whole |-> TRUE]

\* Only sealed lines are written, and each by one process, once.
WrittenOnce ==
    /\ \A k \in DOMAIN text : \A j \in DOMAIN text[k] : text[k][j].line \in DOMAIN sealed
    /\ \A p \in Processes :
          At(p, "write") => job[p].line \in DOMAIN sealed /\ ~Begun(job[p].line)
    /\ \A p, q \in Processes :
          At(p, "write") /\ At(q, "write") /\ job[p].line = job[q].line => p = q
    /\ Readable => \A k, j \in DOMAIN text : text[k][1].line = text[j][1].line => k = j

\* What was acknowledged is there whole, and so is what soon will be.
AcknowledgedKept ==
    /\ \A line \in acknowledged : Kept(line)
    /\ \A p \in Processes : At(p, "newline") => Kept(job[p].line)

\* As long as the log reads, a sealed line saw the first n of its present
\* lines and chained to the last of them.
SawPrefix ==
    Readable =>
        \A line \in DOMAIN sealed : \E n \in 0..Len(text) :
            /\ sealed[line].after = {text[j][1].line : j \in 1..n}
            /\ sealed[line].previous = IF n = 0 THEN <<>> ELSE text[n]

LogInv == LogTypeOK /\ WrittenOnce /\ AcknowledgedKept /\ SawPrefix

------------------------------------------------------------------------------
(* What a write does to the file.                                            *)

\* All old pieces stay where they are, the new one is somewhere, and a file
\* that still reads has gained a line of its own.
WriteKeeps(piece) ==
    /\ Len(text') >= Len(text) /\ Len(text') >= 1
    /\ \A k \in DOMAIN text : \A j \in DOMAIN text[k] :
          k \in DOMAIN text' /\ j \in DOMAIN text'[k] /\ text'[k][j] = text[k][j]
    /\ \A k \in DOMAIN text' : \A j \in DOMAIN text'[k] :
          \/ text'[k][j] = piece
          \/ k \in DOMAIN text /\ j \in DOMAIN text[k] /\ text'[k][j] = text[k][j]
    /\ \E k \in DOMAIN text' : \E j \in DOMAIN text'[k] : text'[k][j] = piece
    /\ Readable' => Readable /\ text' = Append(text, <<piece>>)

LEMMA AppendFacts ==
    ASSUME NEW S, NEW s \in Seq(S), NEW e \in S
    PROVE  /\ Append(s, e) \in Seq(S)
           /\ Len(Append(s, e)) = Len(s) + 1
           /\ DOMAIN s = 1..Len(s)
           /\ DOMAIN Append(s, e) = 1..(Len(s) + 1)
           /\ \A k \in DOMAIN s : Append(s, e)[k] = s[k]
           /\ Append(s, e)[Len(s) + 1] = e
  OBVIOUS

LEMMA OnePiece ==
    ASSUME NEW piece \in Piece
    PROVE  /\ <<piece>> \in Seq(Piece) /\ Len(<<piece>>) = 1
           /\ DOMAIN <<piece>> = {1} /\ <<piece>>[1] = piece
  OBVIOUS

LEMMA RawLines ==
    ASSUME LogTypeOK
    PROVE  /\ Len(text) \in Nat /\ DOMAIN text = 1..Len(text)
           /\ \A k \in DOMAIN text :
                 /\ text[k] \in Seq(Piece) /\ Len(text[k]) \in Nat /\ Len(text[k]) >= 1
                 /\ DOMAIN text[k] = 1..Len(text[k])
  <1>1. /\ text \in Seq(Seq(Piece)) /\ Len(text) \in Nat /\ DOMAIN text = 1..Len(text)
        /\ \A k \in DOMAIN text : Len(text[k]) >= 1
    BY DEF LogTypeOK
  <1>2. \A k \in DOMAIN text : text[k] \in Seq(Piece)
    BY <1>1
  <1>3. \A s \in Seq(Piece) : Len(s) \in Nat /\ DOMAIN s = 1..Len(s)
    OBVIOUS
  <1> QED  BY <1>1, <1>2, <1>3

\* The new piece ends the last raw line, which is one line no more.
LEMMA WriteOpen ==
    ASSUME LogTypeOK, NEW piece \in Piece, Write(piece), open
    PROVE  /\ WriteKeeps(piece)
           /\ text' \in Seq(Seq(Piece)) /\ (\A k \in DOMAIN text' : Len(text'[k]) >= 1)
  <1> DEFINE n == Len(text)
             last == Append(text[n], piece)
  <1>1. /\ n \in Nat /\ n >= 1 /\ n \in DOMAIN text /\ text \in Seq(Seq(Piece))
        /\ Len(text[n]) \in Nat /\ Len(text[n]) >= 1
    BY RawLines DEF LogTypeOK
  <1>2. text' = [text EXCEPT ![n] = last]
    BY DEF Write
  <1>3. /\ last \in Seq(Piece) /\ Len(last) = Len(text[n]) + 1
        /\ DOMAIN last = 1..(Len(text[n]) + 1)
        /\ \A j \in DOMAIN text[n] : j \in DOMAIN last /\ last[j] = text[n][j]
        /\ Len(text[n]) + 1 \in DOMAIN last
        /\ last[Len(text[n]) + 1] = piece
        /\ \A j \in DOMAIN last : j \in DOMAIN text[n] \/ j = Len(text[n]) + 1
    BY <1>1, AppendFacts, RawLines
  <1> HIDE DEF last
  <1>4. /\ text' \in Seq(Seq(Piece)) /\ Len(text') = n /\ DOMAIN text' = DOMAIN text
        /\ text'[n] = last
        /\ \A k \in DOMAIN text : k # n => text'[k] = text[k]
    BY <1>1, <1>2, <1>3
  <1>5. Len(last) # 1 /\ Len(last) >= 1
    BY <1>1, <1>3
  <1> HIDE DEF n
  <1>6. \A k \in DOMAIN text' : Len(text'[k]) >= 1
    BY <1>4, <1>5, RawLines
  <1>7. ~Readable'
    BY <1>1, <1>4, <1>5 DEF Readable, Parses
  <1>8. \A k \in DOMAIN text : \A j \in DOMAIN text[k] :
           k \in DOMAIN text' /\ j \in DOMAIN text'[k] /\ text'[k][j] = text[k][j]
    <2> TAKE k \in DOMAIN text
    <2> QED  BY <1>3, <1>4
  <1>9. \A k \in DOMAIN text' : \A j \in DOMAIN text'[k] :
           \/ text'[k][j] = piece
           \/ k \in DOMAIN text /\ j \in DOMAIN text[k] /\ text'[k][j] = text[k][j]
    <2> TAKE k \in DOMAIN text'
    <2>1. CASE k = n
      BY <1>1, <1>3, <1>4, <2>1
    <2>2. CASE k # n
      BY <1>4, <2>2
    <2> QED  BY <2>1, <2>2
  <1>10. \E k \in DOMAIN text' : \E j \in DOMAIN text'[k] : text'[k][j] = piece
    BY <1>1, <1>3, <1>4
  <1>11. Len(text') >= Len(text) /\ Len(text') >= 1
    BY <1>1, <1>4 DEF n
  <1> QED  BY <1>4, <1>6, <1>7, <1>8, <1>9, <1>10, <1>11 DEF WriteKeeps

\* The new piece begins a raw line.
LEMMA WriteClosed ==
    ASSUME LogTypeOK, NEW piece \in Piece, Write(piece), ~open
    PROVE  /\ WriteKeeps(piece)
           /\ text' \in Seq(Seq(Piece)) /\ (\A k \in DOMAIN text' : Len(text'[k]) >= 1)
  <1> DEFINE n == Len(text)
             raw == <<piece>>
  <1>1. text' = Append(text, raw) /\ n \in Nat /\ text \in Seq(Seq(Piece))
    BY DEF Write, LogTypeOK
  <1>2. raw \in Seq(Piece) /\ Len(raw) = 1 /\ DOMAIN raw = {1} /\ raw[1] = piece
    BY OnePiece
  <1> HIDE DEF raw
  <1>3. /\ text' \in Seq(Seq(Piece)) /\ Len(text') = n + 1
        /\ DOMAIN text = 1..n /\ DOMAIN text' = 1..(n + 1)
        /\ \A k \in DOMAIN text : k \in DOMAIN text' /\ text'[k] = text[k]
        /\ n + 1 \in DOMAIN text' /\ text'[n + 1] = raw
        /\ \A k \in DOMAIN text' : k \in DOMAIN text \/ k = n + 1
        /\ Len(text') >= Len(text) /\ Len(text') >= 1
    BY <1>1, <1>2, AppendFacts
  <1> HIDE DEF n
  <1>4. \A k \in DOMAIN text' : Len(text'[k]) >= 1
    <2> TAKE k \in DOMAIN text'
    <2>1. CASE k \in DOMAIN text
      BY <1>3, <2>1, RawLines
    <2>2. CASE k = n + 1
      <3>1. text'[k] = raw
        BY <1>3, <2>2
      <3> QED  BY <1>2, <3>1
    <2> QED  BY <1>3, <2>1, <2>2
  <1>5. Readable' => Readable
    BY <1>3 DEF Readable, Parses
  <1>6. \A k \in DOMAIN text : \A j \in DOMAIN text[k] :
           k \in DOMAIN text' /\ j \in DOMAIN text'[k] /\ text'[k][j] = text[k][j]
    BY <1>3
  <1>7. \A k \in DOMAIN text' : \A j \in DOMAIN text'[k] :
           \/ text'[k][j] = piece
           \/ k \in DOMAIN text /\ j \in DOMAIN text[k] /\ text'[k][j] = text[k][j]
    <2> TAKE k \in DOMAIN text'
    <2>1. CASE k \in DOMAIN text
      BY <1>3, <2>1
    <2>2. CASE k = n + 1
      BY <1>2, <1>3, <2>2
    <2> QED  BY <1>3, <2>1, <2>2
  <1>8. \E k \in DOMAIN text' : \E j \in DOMAIN text'[k] : text'[k][j] = piece
    <2>1. n + 1 \in DOMAIN text' /\ 1 \in DOMAIN text'[n + 1] /\ text'[n + 1][1] = piece
      BY <1>2, <1>3
    <2> QED  BY <2>1
  <1>9. text' = Append(text, <<piece>>)
    BY <1>1 DEF raw
  <1> QED  BY <1>3, <1>4, <1>5, <1>6, <1>7, <1>8, <1>9 DEF WriteKeeps

LEMMA WriteFacts ==
    ASSUME LogTypeOK, NEW piece \in Piece, Write(piece)
    PROVE  /\ WriteKeeps(piece)
           /\ text' \in Seq(Seq(Piece)) /\ (\A k \in DOMAIN text' : Len(text'[k]) >= 1)
  BY WriteOpen, WriteClosed

------------------------------------------------------------------------------
(* Jobs, and the steps that write no line.                                   *)

LEMMA JobStep ==
    ASSUME job \in [Processes -> Job], NEW p \in Processes, NEW next \in Job, Step(p, next)
    PROVE  /\ job' \in [Processes -> Job] /\ job'[p] = next
           /\ \A q \in Processes : q # p => job'[q] = job[q]
  BY DEF Step

LEMMA JobLine ==
    ASSUME NEW j \in Job, j.step = "write"
    PROVE  /\ j.line \in Nat
           /\ [j EXCEPT !.step = "newline"] \in Job
           /\ [j EXCEPT !.step = "newline"].step = "newline"
           /\ [j EXCEPT !.step = "newline"].line = j.line
  <1>1. j \in [step : {"write", "newline"}, line : Nat]
    BY DEF Job
  <1> QED  BY <1>1 DEF Job

\* The file and the sealed lines are as they were, and the process has no line.
LEMMA QuietStep ==
    ASSUME LogInv, NEW p \in Processes, NEW next \in Job, next.step \in {"idle", "seal"},
           Step(p, next), UNCHANGED <<text, sealed>>, open' \in BOOLEAN, open' => open,
           \A line \in acknowledged' : Kept(line)
    PROVE  LogInv'
  <1>1. /\ job' \in [Processes -> Job] /\ job'[p] = next
        /\ \A q \in Processes : q # p => job'[q] = job[q]
    BY JobStep DEF LogInv, LogTypeOK
  <1>2. \A q \in Processes : job'[q].step \in {"write", "newline"} =>
           q # p /\ job'[q] = job[q]
    BY <1>1
  <1>3. LogTypeOK'
    BY <1>1 DEF LogInv, LogTypeOK
  <1>4. WrittenOnce'
    BY <1>2 DEF LogInv, WrittenOnce, At, Begun, Readable
  <1>5. AcknowledgedKept'
    BY <1>2 DEF LogInv, AcknowledgedKept, At, Kept
  <1>6. SawPrefix'
    BY DEF LogInv, SawPrefix, Readable
  <1> QED  BY <1>3, <1>4, <1>5, <1>6 DEF LogInv

------------------------------------------------------------------------------
(* Sealing.                                                                  *)

\* A log that reads is one whole line after another.
LEMMA ReadableLines ==
    ASSUME LogTypeOK, Readable
    PROVE  /\ \A k \in DOMAIN text : /\ Len(text[k]) = 1 /\ DOMAIN text[k] = {1}
                                     /\ text[k][1] \in Piece /\ text[k][1].whole
           /\ LinesRead = {text[k][1].line : k \in 1..Len(text)}
           /\ LinesRead \in SUBSET Nat
  <1>1. \A k \in DOMAIN text : Len(text[k]) = 1 /\ text[k][1].whole
    BY DEF Readable, Parses
  <1>2. \A k \in DOMAIN text : DOMAIN text[k] = {1} /\ text[k][1] \in Piece
    <2> TAKE k \in DOMAIN text
    <2>1. text[k] \in Seq(Piece) /\ DOMAIN text[k] = 1..1
      BY <1>1, RawLines
    <2>2. 1 \in DOMAIN text[k] /\ DOMAIN text[k] = {1}
      BY <2>1
    <2>3. \A s \in Seq(Piece) : \A j \in DOMAIN s : s[j] \in Piece
      OBVIOUS
    <2> QED  BY <2>1, <2>2, <2>3
  <1>3. LinesRead = {text[k][1].line : k \in 1..Len(text)}
    <2>1. {k \in DOMAIN text : Parses(text[k])} = 1..Len(text)
      BY RawLines DEF Readable
    <2> QED  BY <2>1 DEF LinesRead
  <1>4. \A k \in 1..Len(text) : text[k][1].line \in Nat
    BY <1>2, RawLines DEF Piece
  <1> QED  BY <1>1, <1>2, <1>3, <1>4

LEMMA LastLineType ==
    ASSUME LogTypeOK
    PROVE  /\ LastLine \in Seq(Piece)
           /\ LastLine = IF Len(text) = 0 THEN <<>> ELSE text[Len(text)]
  <1>1. LastLine = IF Len(text) = 0 THEN <<>> ELSE text[Len(text)]
    BY RawLines DEF LastLine, Previous
  <1>2. CASE Len(text) = 0
    <2>1. <<>> \in Seq(Piece)
      OBVIOUS
    <2> QED  BY <1>1, <1>2, <2>1
  <1>3. CASE Len(text) # 0
    <2>1. Len(text) \in DOMAIN text
      BY <1>3, RawLines
    <2> QED  BY <1>1, <1>3, <2>1, RawLines
  <1> QED  BY <1>1, <1>2, <1>3

LEMMA SealStep ==
    ASSUME LogInv, NEW p \in Processes, Seal(p)
    PROVE  LogInv'
  <1> DEFINE n == Len(sealed)
             line == [previous |-> LastLine, after |-> LinesRead]
             next == [step |-> "write", line |-> n + 1]
  <1>1. LogTypeOK /\ Readable
    BY DEF LogInv, Seal
  <1>2. line \in [previous : Seq(Piece), after : SUBSET Nat]
    BY <1>1, LastLineType, ReadableLines
  <1>3. /\ sealed \in Seq([previous : Seq(Piece), after : SUBSET Nat])
        /\ n \in Nat /\ sealed' = Append(sealed, line)
    BY <1>1 DEF Seal, LogTypeOK
  <1>4. /\ line.previous = IF Len(text) = 0 THEN <<>> ELSE text[Len(text)]
        /\ line.after = {text[k][1].line : k \in 1..Len(text)}
    BY <1>1, LastLineType, ReadableLines
  <1> HIDE DEF line
  <1>5. /\ sealed' \in Seq([previous : Seq(Piece), after : SUBSET Nat])
        /\ DOMAIN sealed = 1..n /\ DOMAIN sealed' = 1..(n + 1)
        /\ \A l \in DOMAIN sealed : sealed'[l] = sealed[l]
        /\ sealed'[n + 1] = line
    BY <1>2, <1>3, AppendFacts
  <1>6. next \in Job /\ next.step = "write" /\ next.line = n + 1 /\ Step(p, next)
    BY <1>3 DEF Seal, Job
  <1> HIDE DEF next
  <1>7. /\ job' \in [Processes -> Job] /\ job'[p] = next
        /\ \A q \in Processes : q # p => job'[q] = job[q]
    BY <1>1, <1>6, JobStep DEF LogTypeOK
  <1>8. text' = text /\ open' = open /\ acknowledged' = acknowledged
    BY DEF Seal
  <1>9. n + 1 \notin DOMAIN sealed /\ n + 1 \in DOMAIN sealed' /\ DOMAIN sealed \subseteq DOMAIN sealed'
    BY <1>3, <1>5
  <1> HIDE DEF n
  <1>10. LogTypeOK'
    BY <1>1, <1>5, <1>7, <1>8 DEF LogTypeOK
  <1>11. WrittenOnce'
    <2>1. /\ \A k \in DOMAIN text : \A j \in DOMAIN text[k] : text[k][j].line \in DOMAIN sealed
          /\ ~Begun(n + 1)
      BY <1>9 DEF LogInv, WrittenOnce, Begun
    <2>2. \A q \in Processes : At(q, "write")' =>
             /\ job'[q].line \in DOMAIN sealed' /\ ~Begun(job'[q].line)
             /\ q # p => job'[q].line \in DOMAIN sealed /\ job'[q] = job[q]
      BY <1>6, <1>7, <1>9, <2>1 DEF LogInv, WrittenOnce, At
    <2>3. \A q, r \in Processes :
             At(q, "write")' /\ At(r, "write")' /\ job'[q].line = job'[r].line => q = r
      BY <1>6, <1>7, <1>9, <2>2 DEF LogInv, WrittenOnce, At
    <2>4. Readable' => \A k, j \in DOMAIN text' : text'[k][1].line = text'[j][1].line => k = j
      BY <1>1, <1>8 DEF LogInv, WrittenOnce
    <2> QED  BY <1>8, <1>9, <2>1, <2>2, <2>3, <2>4 DEF WrittenOnce, Begun
  <1>12. AcknowledgedKept'
    BY <1>6, <1>7, <1>8 DEF LogInv, AcknowledgedKept, At, Kept
  <1>13. SawPrefix'
    <2>1. Len(text) \in 0..Len(text)
      BY <1>1, RawLines
    <2>2. \A l \in DOMAIN sealed' : l \in DOMAIN sealed \/ l = n + 1
      BY <1>3, <1>5 DEF n
    <2>3. ASSUME NEW l \in DOMAIN sealed'
          PROVE  \E m \in 0..Len(text) :
                    /\ sealed'[l].after = {text[j][1].line : j \in 1..m}
                    /\ sealed'[l].previous = IF m = 0 THEN <<>> ELSE text[m]
      <3>1. CASE l \in DOMAIN sealed
        BY <1>1, <1>5, <3>1 DEF LogInv, SawPrefix
      <3>2. CASE l = n + 1
        BY <1>4, <1>5, <2>1, <3>2
      <3> QED  BY <2>2, <3>1, <3>2
    <2> QED  BY <1>8, <2>3 DEF SawPrefix
  <1> QED  BY <1>10, <1>11, <1>12, <1>13 DEF LogInv

------------------------------------------------------------------------------
(* Writing.                                                                  *)

\* The process puts its line into the file, whole or in part; if it goes on to
\* the newline, whole.
LEMMA WriteStep ==
    ASSUME LogInv, NEW p \in Processes, At(p, "write"),
           NEW piece \in Piece, piece.line = job[p].line, Write(piece),
           NEW next \in Job, next.step \in {"idle", "newline"}, Step(p, next),
           next.step = "newline" =>
               next.line = piece.line /\ piece = [line |-> piece.line, whole |-> TRUE],
           UNCHANGED <<sealed, acknowledged>>
    PROVE  LogInv'
  <1>1. /\ WriteKeeps(piece)
        /\ text' \in Seq(Seq(Piece)) /\ (\A k \in DOMAIN text' : Len(text'[k]) >= 1)
    BY WriteFacts DEF LogInv
  <1>2. /\ job' \in [Processes -> Job] /\ job'[p] = next
        /\ \A q \in Processes : q # p => job'[q] = job[q]
    BY JobStep DEF LogInv, LogTypeOK
  <1>3. open' = TRUE
    BY DEF Write
  <1>4. LogTypeOK'
    BY <1>1, <1>2, <1>3 DEF LogInv, LogTypeOK, WriteKeeps
  <1>5. \A line : Kept(line) => Kept(line)'
    BY <1>1 DEF WriteKeeps, Kept
  <1>6. \A line : Begun(line)' => line = piece.line \/ Begun(line)
    BY <1>1 DEF WriteKeeps, Begun
  <1>7. piece.line \in DOMAIN sealed /\ ~Begun(piece.line)
    BY DEF LogInv, WrittenOnce
  <1>8. Readable' => /\ Readable
                     /\ DOMAIN text = 1..Len(text) /\ Len(text) \in Nat
                     /\ DOMAIN text' = 1..(Len(text) + 1) /\ Len(text') = Len(text) + 1
                     /\ \A k \in DOMAIN text : text'[k] = text[k]
                     /\ text'[Len(text) + 1][1] = piece
    <2>1. <<piece>> \in Seq(Piece) /\ <<piece>>[1] = piece
      BY OnePiece
    <2>2. text \in Seq(Seq(Piece)) /\ Len(text) \in Nat
      BY DEF LogInv, LogTypeOK
    <2>3. ASSUME NEW raw \in Seq(Piece), text' = Append(text, raw)
          PROVE  /\ DOMAIN text = 1..Len(text)
                 /\ DOMAIN text' = 1..(Len(text) + 1) /\ Len(text') = Len(text) + 1
                 /\ \A k \in DOMAIN text : text'[k] = text[k]
                 /\ text'[Len(text) + 1] = raw
      BY <2>2, <2>3, AppendFacts
    <2> QED  BY <1>1, <2>1, <2>2, <2>3 DEF WriteKeeps
  <1>9. WrittenOnce'
    <2>1. \A k \in DOMAIN text' : \A j \in DOMAIN text'[k] : text'[k][j].line \in DOMAIN sealed
      <3>1. \A k \in DOMAIN text' : \A j \in DOMAIN text'[k] :
               \/ text'[k][j] = piece
               \/ k \in DOMAIN text /\ j \in DOMAIN text[k] /\ text'[k][j] = text[k][j]
        BY <1>1 DEF WriteKeeps
      <3>2. \A k \in DOMAIN text : \A j \in DOMAIN text[k] : text[k][j].line \in DOMAIN sealed
        BY DEF LogInv, WrittenOnce
      <3> QED  BY <1>7, <3>1, <3>2
    <2>2. \A q \in Processes : At(q, "write")' =>
             q # p /\ job'[q] = job[q] /\ At(q, "write") /\ job[q].line # piece.line
      BY <1>2 DEF LogInv, WrittenOnce, At
    <2>3. \A q \in Processes :
             At(q, "write")' => job'[q].line \in DOMAIN sealed /\ ~Begun(job[q].line)'
      BY <1>6, <2>2 DEF LogInv, WrittenOnce, Begun
    <2>4. \A q, r \in Processes :
             At(q, "write")' /\ At(r, "write")' /\ job'[q].line = job'[r].line => q = r
      BY <2>2 DEF LogInv, WrittenOnce
    <2>5. ASSUME Readable', NEW k \in DOMAIN text', NEW j \in DOMAIN text',
                 text'[k][1].line = text'[j][1].line
          PROVE  k = j
      <3>1. \A m \in DOMAIN text : text[m][1].line # piece.line
        <4>1. \A m \in DOMAIN text : 1 \in DOMAIN text[m]
          BY RawLines DEF LogInv
        <4> QED  BY <1>7, <4>1 DEF Begun
      <3>2. \A m \in DOMAIN text' : m \in DOMAIN text \/ m = Len(text) + 1
        BY <1>8, <2>5
      <3>3. \A m, l \in DOMAIN text : text[m][1].line = text[l][1].line => m = l
        BY <1>8, <2>5 DEF LogInv, WrittenOnce
      <3> QED  BY <1>8, <2>5, <3>1, <3>2, <3>3
    <2> QED  BY <2>1, <2>3, <2>4, <2>5 DEF WrittenOnce, Begun
  <1>10. AcknowledgedKept'
    <2>1. \A line \in acknowledged' : Kept(line)'
      BY <1>5 DEF LogInv, AcknowledgedKept
    <2>2. ASSUME NEW q \in Processes, At(q, "newline")'
          PROVE  Kept(job[q].line)'
      <3>1. CASE q = p
        <4>1. job'[q].line = piece.line /\ piece = [line |-> piece.line, whole |-> TRUE]
          BY <1>2, <2>2, <3>1 DEF At
        <4>2. \E k \in DOMAIN text' : \E j \in DOMAIN text'[k] : text'[k][j] = piece
          BY <1>1 DEF WriteKeeps
        <4> QED  BY <4>1, <4>2 DEF Kept
      <3>2. CASE q # p
        BY <1>2, <1>5, <2>2, <3>2 DEF LogInv, AcknowledgedKept, At, Kept
      <3> QED  BY <3>1, <3>2
    <2> QED  BY <2>1, <2>2 DEF AcknowledgedKept, Kept
  <1>11. SawPrefix'
    <2>1. ASSUME Readable', NEW line \in DOMAIN sealed
          PROVE  \E n \in 0..Len(text') :
                    /\ sealed[line].after = {text'[j][1].line : j \in 1..n}
                    /\ sealed[line].previous = IF n = 0 THEN <<>> ELSE text'[n]
      <3>1. PICK n \in 0..Len(text) :
                    /\ sealed[line].after = {text[j][1].line : j \in 1..n}
                    /\ sealed[line].previous = IF n = 0 THEN <<>> ELSE text[n]
        BY <1>8, <2>1 DEF LogInv, SawPrefix
      <3>2. n \in 0..Len(text') /\ \A j \in 1..n : text'[j] = text[j]
        BY <1>8, <2>1
      <3>3. {text[j][1].line : j \in 1..n} = {text'[j][1].line : j \in 1..n}
        BY <3>2
      <3>4. n # 0 => text'[n] = text[n]
        BY <3>2
      <3> QED  BY <3>1, <3>2, <3>3, <3>4
    <2> QED  BY <2>1 DEF SawPrefix
  <1> QED  BY <1>4, <1>9, <1>10, <1>11 DEF LogInv

------------------------------------------------------------------------------
(* The invariant holds.                                                      *)

LEMMA LogInvInit == LogInit => LogInv
  <1> SUFFICES ASSUME LogInit PROVE LogInv
    OBVIOUS
  <1>1. text = <<>> /\ sealed = <<>> /\ acknowledged = {} /\ open = FALSE
        /\ job = [p \in Processes |-> Idle] /\ Idle \in Job /\ Idle.step = "idle"
    BY DEF LogInit, Idle, Job
  <1>2. LogTypeOK
    <2>1. /\ <<>> \in Seq(Seq(Piece)) /\ DOMAIN <<>> = {}
          /\ <<>> \in Seq([previous : Seq(Piece), after : SUBSET Nat])
      OBVIOUS
    <2> QED  BY <1>1, <2>1 DEF LogTypeOK
  <1>3. WrittenOnce
    BY <1>1 DEF WrittenOnce, At
  <1>4. AcknowledgedKept
    BY <1>1 DEF AcknowledgedKept, At
  <1>5. SawPrefix
    BY <1>1 DEF SawPrefix
  <1> QED  BY <1>2, <1>3, <1>4, <1>5 DEF LogInv

LEMMA LogInvNext == LogInv /\ [LogNext]_logVars => LogInv'
  <1> SUFFICES ASSUME LogInv, [LogNext]_logVars PROVE LogInv'
    OBVIOUS
  <1>1. /\ Idle \in Job /\ Idle.step = "idle"
        /\ [step |-> "seal"] \in Job /\ [step |-> "seal"].step = "seal"
    BY DEF Idle, Job
  <1>2. /\ \A line \in acknowledged : Kept(line)
        /\ open \in BOOLEAN /\ job \in [Processes -> Job]
    BY DEF LogInv, AcknowledgedKept, LogTypeOK
  <1>3. ASSUME NEW p \in Processes, Decide(p) PROVE LogInv'
    BY <1>1, <1>2, <1>3, QuietStep DEF Decide
  <1>4. ASSUME NEW p \in Processes, Seal(p) PROVE LogInv'
    BY <1>4, SealStep
  <1>5. ASSUME NEW p \in Processes, Refuse(p) PROVE LogInv'
    BY <1>1, <1>2, <1>5, QuietStep DEF Refuse
  <1>6. ASSUME NEW p \in Processes, WriteLine(p) PROVE LogInv'
    <2> DEFINE piece == [line |-> job[p].line, whole |-> TRUE]
               next == [job[p] EXCEPT !.step = "newline"]
    <2>1. At(p, "write") /\ Write(piece) /\ Step(p, next) /\ UNCHANGED <<sealed, acknowledged>>
      BY <1>6 DEF WriteLine
    <2>2. job[p].line \in Nat /\ next \in Job /\ next.step = "newline" /\ next.line = job[p].line
      BY <1>2, <2>1, JobLine DEF At
    <2>3. piece \in Piece /\ piece.line = job[p].line
          /\ piece = [line |-> piece.line, whole |-> TRUE]
      BY <2>2 DEF Piece
    <2> HIDE DEF piece, next
    <2> QED  BY <2>1, <2>2, <2>3, WriteStep
  <1>7. ASSUME NEW p \in Processes, WriteNewline(p) PROVE LogInv'
    <2>1. \A line \in acknowledged' : Kept(line)
      BY <1>2, <1>7 DEF WriteNewline, LogInv, AcknowledgedKept
    <2> QED  BY <1>1, <1>2, <1>7, <2>1, QuietStep DEF WriteNewline
  <1>8. ASSUME NEW p \in Processes, Crash(p) PROVE LogInv'
    BY <1>1, <1>2, <1>8, QuietStep DEF Crash
  <1>9. ASSUME NEW p \in Processes, TornWrite(p) PROVE LogInv'
    <2> DEFINE piece == [line |-> job[p].line, whole |-> FALSE]
    <2>1. At(p, "write") /\ Write(piece) /\ Step(p, Idle) /\ UNCHANGED <<sealed, acknowledged>>
      BY <1>9 DEF TornWrite
    <2>2. job[p].line \in Nat
      BY <1>2, <2>1, JobLine DEF At
    <2>3. piece \in Piece /\ piece.line = job[p].line
      BY <2>2 DEF Piece
    <2> HIDE DEF piece
    <2> QED  BY <1>1, <2>1, <2>3, WriteStep
  <1>10. CASE UNCHANGED logVars
    <2>1. LogTypeOK'
      BY <1>10 DEF logVars, LogInv, LogTypeOK
    <2>2. WrittenOnce'
      BY <1>10 DEF logVars, LogInv, WrittenOnce, At, Begun, Readable
    <2>3. AcknowledgedKept'
      BY <1>10 DEF logVars, LogInv, AcknowledgedKept, At, Kept
    <2>4. SawPrefix'
      BY <1>10 DEF logVars, LogInv, SawPrefix, Readable
    <2> QED  BY <2>1, <2>2, <2>3, <2>4 DEF LogInv
  <1> QED  BY <1>3, <1>4, <1>5, <1>6, <1>7, <1>8, <1>9, <1>10 DEF LogNext

LEMMA LogInvCorrect == LogSpec => []LogInv
  BY LogInvInit, LogInvNext, PTL DEF LogSpec

------------------------------------------------------------------------------
(* The theorems.                                                             *)

\* A line that is kept is read, if the log reads.
LEMMA KeptIsRead ==
    ASSUME LogTypeOK, Readable, NEW line, Kept(line)
    PROVE  line \in LinesRead
  <1>1. PICK k \in DOMAIN text : \E j \in DOMAIN text[k] :
               text[k][j] = [line |-> line, whole |-> TRUE]
    BY DEF Kept
  <1>2. text[k][1].line = line
    BY <1>1, ReadableLines
  <1> QED  BY <1>1, <1>2, ReadableLines, RawLines

\* Whatever crashes and torn writes do to the file, no decision overlooks a line
\* whose append had returned.
THEOREM NothingOverlooked == LogSpec => []NothingAcknowledgedIsOverlooked
  <1>1. LogInit => NothingAcknowledgedIsOverlooked
    BY DEF LogInit, NothingAcknowledgedIsOverlooked
  <1>2. LogInv /\ NothingAcknowledgedIsOverlooked /\ [LogNext]_logVars
           => NothingAcknowledgedIsOverlooked'
    <2> SUFFICES ASSUME LogInv, NothingAcknowledgedIsOverlooked, [LogNext]_logVars
                 PROVE  NothingAcknowledgedIsOverlooked'
      OBVIOUS
    <2>1. ASSUME NEW p \in Processes, Decide(p)
          PROVE  NothingAcknowledgedIsOverlooked'
      <3>1. Readable /\ decision'.acknowledged = acknowledged /\ decision'.read = LinesRead
        BY <2>1 DEF Decide
      <3>2. acknowledged \subseteq LinesRead
        BY <3>1, KeptIsRead DEF LogInv, AcknowledgedKept
      <3> QED  BY <3>1, <3>2 DEF NothingAcknowledgedIsOverlooked
    <2>2. CASE UNCHANGED decision
      BY <2>2 DEF NothingAcknowledgedIsOverlooked
    <2> QED  BY <2>1, <2>2 DEF LogNext, logVars, Seal, Refuse, WriteLine, WriteNewline,
                               Crash, TornWrite
  <1> QED  BY <1>1, <1>2, LogInvCorrect, PTL DEF LogSpec

\* A chain that verifies proves that its lines were sealed in the order in
\* which they stand, each in view of exactly those in front of it.
THEOREM ChainOrder == LogSpec => []ChainWitnessesOrder
  <1>1. LogInv => ChainWitnessesOrder
    <2> SUFFICES ASSUME LogInv, VerifyLogChain, NEW k \in DOMAIN text
                 PROVE  sealed[text[k][1].line].after = {text[j][1].line : j \in 1..(k - 1)}
      BY DEF ChainWitnessesOrder
    <2>1. /\ Readable /\ LogTypeOK /\ Len(text) \in Nat /\ DOMAIN text = 1..Len(text)
          /\ \A m \in DOMAIN text : text[m] # <<>> /\ 1 \in DOMAIN text[m]
      <3>1. Readable /\ LogTypeOK
        BY DEF VerifyLogChain, LogInv
      <3> QED  BY <3>1, RawLines
    <2> DEFINE line == text[k][1].line
    <2>2. line \in DOMAIN sealed
      BY <2>1 DEF LogInv, WrittenOnce
    <2>3. sealed[line].previous = IF k = 1 THEN <<>> ELSE text[k - 1]
      BY DEF VerifyLogChain, Chained, Previous
    <2>4. PICK n \in 0..Len(text) :
                 /\ sealed[line].after = {text[j][1].line : j \in 1..n}
                 /\ sealed[line].previous = IF n = 0 THEN <<>> ELSE text[n]
      BY <2>1, <2>2 DEF LogInv, SawPrefix
    <2> HIDE DEF line
    <2>5. n = k - 1
      <3>1. CASE k = 1
        BY <2>1, <2>3, <2>4, <3>1
      <3>2. CASE k # 1
        <4>1. k - 1 \in DOMAIN text /\ text[k - 1] # <<>>
          BY <2>1, <3>2
        <4>2. n \in DOMAIN text /\ text[n] = text[k - 1]
          BY <2>1, <2>3, <2>4, <3>2, <4>1
        <4> QED  BY <2>1, <4>1, <4>2 DEF LogInv, WrittenOnce
      <3> QED  BY <3>1, <3>2
    <2> QED  BY <2>4, <2>5 DEF line
  <1> QED  BY <1>1, LogInvCorrect, PTL

\* A step leaves the lines in front of what it appends alone.
LEMMA Extends ==
    ASSUME LogInv, LogInv', [LogNext]_logVars, Readable'
    PROVE  /\ Readable
           /\ \A k \in DOMAIN text : k \in DOMAIN text' /\ text'[k] = text[k]
           /\ \A line \in DOMAIN sealed : sealed'[line] = sealed[line]
  <1>1. LogTypeOK
    BY DEF LogInv
  <1>2. ASSUME NEW p \in Processes, Seal(p)
        PROVE  \A line \in DOMAIN sealed : sealed'[line] = sealed[line]
    <2> DEFINE entry == [previous |-> LastLine, after |-> LinesRead]
    <2>1. Readable /\ sealed' = Append(sealed, entry)
      BY <1>2 DEF Seal
    <2>2. entry \in [previous : Seq(Piece), after : SUBSET Nat]
      BY <1>1, <2>1, LastLineType, ReadableLines
    <2> HIDE DEF entry
    <2> QED  BY <1>1, <2>1, <2>2, AppendFacts DEF LogTypeOK
  <1>3. ASSUME NEW p \in Processes, NEW piece \in Piece, Write(piece)
        PROVE  /\ Readable
               /\ \A k \in DOMAIN text : k \in DOMAIN text' /\ text'[k] = text[k]
    <2>1. Readable /\ text' = Append(text, <<piece>>)
      BY <1>1, <1>3, WriteFacts DEF WriteKeeps
    <2>2. <<piece>> \in Seq(Piece) /\ text \in Seq(Seq(Piece)) /\ Len(text) \in Nat
      BY <1>1, OnePiece DEF LogTypeOK
    <2>3. ASSUME NEW raw \in Seq(Piece), text' = Append(text, raw)
          PROVE  \A k \in DOMAIN text : k \in DOMAIN text' /\ text'[k] = text[k]
      BY <2>2, <2>3, AppendFacts
    <2> QED  BY <2>1, <2>2, <2>3
  <1>4. \A p \in Processes : At(p, "write") =>
           /\ [line |-> job[p].line, whole |-> TRUE] \in Piece
           /\ [line |-> job[p].line, whole |-> FALSE] \in Piece
    BY <1>1, JobLine DEF At, Piece, LogTypeOK
  <1>5. ASSUME NEW p \in Processes, WriteLine(p) \/ TornWrite(p)
        PROVE  /\ Readable
               /\ \A k \in DOMAIN text : k \in DOMAIN text' /\ text'[k] = text[k]
               /\ sealed' = sealed
    BY <1>3, <1>4, <1>5 DEF WriteLine, TornWrite
  <1>6. UNCHANGED text =>
           /\ Readable
           /\ \A k \in DOMAIN text : k \in DOMAIN text' /\ text'[k] = text[k]
    BY DEF Readable
  <1>7. UNCHANGED sealed => \A line \in DOMAIN sealed : sealed'[line] = sealed[line]
    OBVIOUS
  <1> QED  BY <1>2, <1>5, <1>6, <1>7 DEF LogNext, logVars, Decide, Seal, Refuse,
                                        WriteNewline, Crash

LEMMA BreakStep ==
    ASSUME LogInv, LogInv', [LogNext]_logVars, VerifyLogChain'
    PROVE  VerifyLogChain
  <1>1. /\ Readable
        /\ \A k \in DOMAIN text : k \in DOMAIN text' /\ text'[k] = text[k]
        /\ \A line \in DOMAIN sealed : sealed'[line] = sealed[line]
    BY Extends DEF VerifyLogChain
  <1>2. \A k \in DOMAIN text : /\ text[k][1].line \in DOMAIN sealed
                               /\ k # 1 => k - 1 \in DOMAIN text
    <2>1. LogTypeOK
      BY DEF LogInv
    <2>2. \A k \in DOMAIN text : 1 \in DOMAIN text[k] /\ (k # 1 => k - 1 \in DOMAIN text)
      BY <2>1, RawLines
    <2> QED  BY <2>2 DEF LogInv, WrittenOnce
  <1>3. \A k \in DOMAIN text :
           sealed'[text'[k][1].line].previous = IF k = 1 THEN <<>> ELSE text'[k - 1]
    BY <1>1 DEF VerifyLogChain, Chained, Previous
  <1>4. Chained
    BY <1>1, <1>2, <1>3 DEF Chained, Previous
  <1> QED  BY <1>1, <1>4 DEF VerifyLogChain

\* No append mends a chain that is broken.
THEOREM BreakStays == LogSpec => BreakIsForever
  <1>1. LogInv /\ LogInv' /\ [LogNext]_logVars
           => [~VerifyLogChain => ~VerifyLogChain']_logVars
    BY BreakStep
  <1> QED  BY <1>1, LogInvCorrect, PTL DEF LogSpec, BreakIsForever

------------------------------------------------------------------------------
(* The file implements the log the other modules take it for.                *)

\* No more lines are sealed than the bound allows.
Bounded == Len(sealed) <= MaxLines

LEMMA BoundedCorrect == LogSpec => []Bounded
  <1>1. LogInit => Bounded
    BY IssuanceLogAssumption DEF LogInit, Bounded
  <1>2. LogInv /\ Bounded /\ [LogNext]_logVars => Bounded'
    <2> SUFFICES ASSUME LogInv, Bounded, [LogNext]_logVars
                 PROVE  Bounded'
      OBVIOUS
    <2>1. ASSUME NEW p \in Processes, Seal(p)
          PROVE  Bounded'
      <3> DEFINE entry == [previous |-> LastLine, after |-> LinesRead]
      <3>1. /\ sealed' = Append(sealed, entry) /\ Len(sealed) < MaxLines
            /\ Readable /\ LogTypeOK
        BY <2>1 DEF Seal, LogInv
      <3>2. entry \in [previous : Seq(Piece), after : SUBSET Nat]
        BY <3>1, LastLineType, ReadableLines
      <3>3. Len(sealed') = Len(sealed) + 1 /\ Len(sealed) \in Nat
        <4> HIDE DEF entry
        <4> QED  BY <3>1, <3>2, AppendFacts DEF LogTypeOK
      <3> QED  BY <3>1, <3>3, IssuanceLogAssumption DEF Bounded
    <2>2. CASE UNCHANGED sealed
      BY <2>2 DEF Bounded
    <2> QED  BY <2>1, <2>2 DEF LogNext, logVars, Decide, Refuse, WriteLine, WriteNewline,
                               Crash, TornWrite
  <1> QED  BY <1>1, <1>2, LogInvCorrect, PTL DEF LogSpec

\* The sequence of lines of a log that reads.
Entries == IF Readable THEN [k \in DOMAIN text |-> text[k][1].line] ELSE <<>>

LEMMA EntriesRead ==
    ASSUME LogTypeOK, Readable
    PROVE  {Entries[k] : k \in DOMAIN Entries} = LinesRead
  BY RawLines, ReadableLines DEF Entries

\* A write makes the log longer by its line or unreadable.
LEMMA EntriesWrite ==
    ASSUME LogInv, LogInv', NEW piece \in Piece, Write(piece), Readable'
    PROVE  Readable /\ Entries' = Append(Entries, piece.line)
  <1>1. /\ LogTypeOK /\ LogTypeOK'
        /\ Readable /\ text' = Append(text, <<piece>>)
    BY WriteFacts DEF WriteKeeps, LogInv
  <1>2. /\ text \in Seq(Seq(Piece)) /\ <<piece>> \in Seq(Piece) /\ <<piece>>[1] = piece
        /\ Len(text) \in Nat /\ DOMAIN text = 1..Len(text)
        /\ \A k \in DOMAIN text : text[k][1] \in Piece
    BY <1>1, OnePiece, RawLines DEF LogTypeOK
  <1>3. /\ DOMAIN text' = 1..(Len(text) + 1)
        /\ \A k \in DOMAIN text : text'[k] = text[k]
        /\ text'[Len(text) + 1] = <<piece>>
    BY <1>1, <1>2, AppendFacts
  <1>4. Entries' = [k \in 1..(Len(text) + 1) |->
                       IF k \in 1..Len(text) THEN text[k][1].line ELSE piece.line]
    BY <1>2, <1>3 DEF Entries
  <1>5. /\ Entries \in Seq(Nat) /\ Len(Entries) = Len(text)
        /\ \A k \in 1..Len(text) : Entries[k] = text[k][1].line
    BY <1>1, <1>2 DEF Entries, Piece
  <1>6. piece.line \in Nat
    BY DEF Piece
  <1>7. /\ Append(Entries, piece.line) \in Seq(Nat)
        /\ Len(Append(Entries, piece.line)) = Len(text) + 1
        /\ \A k \in 1..(Len(text) + 1) : Append(Entries, piece.line)[k] =
              IF k \in 1..Len(text) THEN text[k][1].line ELSE piece.line
    <2> HIDE DEF Entries
    <2> QED  BY <1>2, <1>5, <1>6
  <1>8. /\ Entries' \in Seq(Nat)
        /\ Len(Entries') = Len(text) + 1
        /\ \A k \in 1..(Len(text) + 1) : Entries'[k] =
              IF k \in 1..Len(text) THEN text[k][1].line ELSE piece.line
    <2>1. \A k \in 1..Len(text) : text[k][1].line \in Nat
      BY <1>2 DEF Piece
    <2> QED  BY <1>2, <1>4, <1>6, <2>1
  <1>9. Entries' = Append(Entries, piece.line)
    <2>1. ASSUME NEW s \in Seq(Nat), NEW t \in Seq(Nat), Len(s) = Len(t),
                 \A k \in 1..Len(s) : s[k] = t[k]
          PROVE  s = t
      BY <2>1, SeqEqual
    <2>2. /\ Len(Entries') = Len(Append(Entries, piece.line))
          /\ \A k \in 1..Len(Entries') : Entries'[k] = Append(Entries, piece.line)[k]
      BY <1>7, <1>8
    <2> HIDE DEF Entries
    <2> QED  BY <1>7, <1>8, <2>1, <2>2
  <1> QED  BY <1>1, <1>9

\* What the kernel reads and appends is a log: its lines come whole, one at a
\* time and at the end, and none that was acknowledged is missing from a reading.
THEOREM LogImplementsAppendOnlyLog == LogSpec => ImplementsAppendOnlyLog
  <1>1. LogInit => AsLog!AOLInit
    <2> SUFFICES ASSUME LogInit
                 PROVE  AsLog!AOLInit
      OBVIOUS
    <2>1. text = <<>> /\ decision.read = {} /\ decision.acknowledged = {} /\ acknowledged = {}
      BY DEF LogInit
    <2>2. DOMAIN text = {} /\ Readable
      BY <2>1 DEF Readable
    <2>3. [k \in DOMAIN text |-> text[k][1].line] = <<>>
      BY <2>2
    <2> QED  BY <2>1, <2>2, <2>3 DEF AsLog!AOLInit
  <1>2. LogInv /\ LogInv' /\ Bounded /\ [LogNext]_logVars => [AsLog!AOLNext]_AsLog!aolVars
    <2> SUFFICES ASSUME LogInv, LogInv', Bounded, [LogNext]_logVars
                 PROVE  [AsLog!AOLNext]_AsLog!aolVars
      OBVIOUS
    <2>1. LogTypeOK
      BY DEF LogInv
    <2>2. \A p \in Processes : At(p, "write") =>
              /\ [line |-> job[p].line, whole |-> TRUE] \in Piece
              /\ [line |-> job[p].line, whole |-> FALSE] \in Piece
      BY <2>1, JobLine DEF At, Piece, LogTypeOK
    <2>3. DOMAIN sealed \subseteq 1..MaxLines
      BY <2>1, IssuanceLogAssumption DEF Bounded, LogTypeOK
    <2>4. ASSUME NEW p \in Processes, NEW piece \in Piece, Write(piece), At(p, "write"),
                 piece.line = job[p].line, UNCHANGED <<acknowledged, decision>>
          PROVE  AsLog!AppendEntry \/ AsLog!Damage
      <3>1. CASE Readable'
        <4>1. Readable /\ Entries' = Append(Entries, piece.line)
          BY <2>4, <3>1, EntriesWrite
        <4>2. piece.line \in 1..MaxLines
          BY <2>3, <2>4 DEF LogInv, WrittenOnce
        <4>3. piece.line \notin {Entries[k] : k \in DOMAIN Entries}
          <5>1. \A k \in DOMAIN text : 1 \in DOMAIN text[k]
            BY <2>1, RawLines
          <5> QED  BY <2>4, <4>1, <5>1 DEF LogInv, WrittenOnce, Begun, Entries
        <4> QED  BY <2>4, <3>1, <4>1, <4>2, <4>3 DEF AsLog!AppendEntry, AsLog!InLog, Entries
      <3>2. CASE ~Readable'
        BY <2>4, <3>2 DEF AsLog!Damage
      <3> QED  BY <3>1, <3>2
    <2>5. ASSUME NEW p \in Processes, WriteLine(p) \/ TornWrite(p)
          PROVE  AsLog!AppendEntry \/ AsLog!Damage
      BY <2>2, <2>4, <2>5 DEF WriteLine, TornWrite
    <2>6. ASSUME NEW p \in Processes, Decide(p)
          PROVE  AsLog!Read
      BY <2>1, <2>6, EntriesRead DEF Decide, AsLog!Read, AsLog!InLog, Entries, Readable
    <2>7. ASSUME NEW p \in Processes, WriteNewline(p)
          PROVE  AsLog!Return
      <3> DEFINE line == job[p].line
      <3>1. Kept(line)
        BY <2>7 DEF WriteNewline, LogInv, AcknowledgedKept
      <3>2. line \in 1..MaxLines
        <4>1. PICK k \in DOMAIN text : \E j \in DOMAIN text[k] :
                     text[k][j] = [line |-> line, whole |-> TRUE]
          BY <3>1 DEF Kept
        <4> QED  BY <2>3, <4>1 DEF LogInv, WrittenOnce
      <3>3. ~Readable \/ line \in {Entries[k] : k \in DOMAIN Entries}
        BY <2>1, <3>1, KeptIsRead, EntriesRead
      <3> QED  BY <2>7, <3>2, <3>3 DEF WriteNewline, AsLog!Return, AsLog!InLog, Entries, Readable
    <2>8. UNCHANGED <<text, acknowledged, decision>> => UNCHANGED AsLog!aolVars
      BY DEF AsLog!aolVars, Readable
    <2> QED  BY <2>5, <2>6, <2>7, <2>8 DEF LogNext, logVars, AsLog!AOLNext, Seal, Refuse, Crash
  <1> QED  BY <1>1, <1>2, LogInvCorrect, BoundedCorrect, PTL
              DEF LogSpec, ImplementsAppendOnlyLog, AsLog!AOLSpec

------------------------------------------------------------------------------
(* The tree.  What its functions compute is proved by induction over the     *)
(* levels; the theorems of the library take the property as an operator, so  *)
(* here it is given as a set of numbers.                                     *)

LEMMA LeastNumber ==
    ASSUME NEW S \in SUBSET Nat, S # {}
    PROVE  Min(S) \in S /\ \A x \in S : Min(S) <= x
  <1>1. PICK least \in S : \A x \in S : ~(<<x, least>> \in OpToRel(<, Nat))
    BY NatLessThanWellFounded, WFMin
  <1>2. ASSUME NEW x \in S PROVE least <= x
    <2>1. <<x, least>> \in Nat \X Nat => ~(x < least)
      BY <1>1 DEF OpToRel
    <2> QED  BY <2>1
  <1> QED  BY <1>2 DEF Min

\* Induction over the natural numbers, for a property given as the set of the
\* numbers that have it.
LEMMA SetInduction ==
    ASSUME NEW S, 0 \in S, \A n \in Nat : n \in S => n + 1 \in S
    PROVE  \A n \in Nat : n \in S
  <1> DEFINE Out == {n \in Nat : n \notin S}
  <1> SUFFICES ASSUME Out # {} PROVE FALSE
    OBVIOUS
  <1> DEFINE n == Min(Out)
  <1>1. n \in Out /\ \A x \in Out : n <= x
    BY LeastNumber
  <1> HIDE DEF n
  <1>2. n \in Nat /\ n # 0
    BY <1>1
  <1>3. n - 1 \in Nat /\ ~(n <= n - 1)
    BY <1>2
  <1>4. n - 1 \in S
    BY <1>1, <1>3
  <1>5. (n - 1) + 1 = n
    BY <1>2
  <1> QED  BY <1>1, <1>3, <1>4, <1>5

\* A function applied again and again, up to n times.
Iterated(start, step, n, g) ==
    /\ g \in [0..n -> Nat]
    /\ g[0] = start
    /\ \A d \in 0..n : d # 0 => g[d] = step[g[d - 1]]

LEMMA IteratedExists ==
    ASSUME NEW start \in Nat, NEW step \in [Nat -> Nat]
    PROVE  \A n \in Nat : \E g : Iterated(start, step, n, g)
  <1> DEFINE Found == {n \in Nat : \E g : Iterated(start, step, n, g)}
  <1>1. 0 \in Found
    <2>1. Iterated(start, step, 0, [d \in 0..0 |-> start])
      BY DEF Iterated
    <2> QED  BY <2>1
  <1>2. ASSUME NEW n \in Nat, n \in Found PROVE n + 1 \in Found
    <2>1. PICK g : Iterated(start, step, n, g)
      BY <1>2
    <2> DEFINE h == [d \in 0..(n + 1) |-> IF d = n + 1 THEN step[g[n]] ELSE g[d]]
    <2>2. h \in [0..(n + 1) -> Nat] /\ h[0] = start
      <3>1. ASSUME NEW d \in 0..(n + 1), d # n + 1 PROVE d \in 0..n
        <4>1. d \in Nat /\ d <= n + 1
          BY <1>2
        <4>2. d <= n
          BY <1>2, <3>1, <4>1
        <4> QED  BY <1>2, <4>1, <4>2
      <3>2. n \in 0..n /\ 0 \in 0..n /\ 0 \in 0..(n + 1) /\ 0 # n + 1
        BY <1>2
      <3>3. \A d \in 0..n : g[d] \in Nat
        BY <2>1 DEF Iterated
      <3>4. \A d \in 0..(n + 1) : h[d] \in Nat
        BY <3>1, <3>2, <3>3
      <3>5. h[0] = start
        BY <2>1, <3>2 DEF Iterated
      <3> QED  BY <3>4, <3>5
    <2>3. ASSUME NEW d \in 0..(n + 1), d # 0 PROVE h[d] = step[h[d - 1]]
      <3>1. /\ d - 1 \in 0..(n + 1) /\ d - 1 # n + 1 /\ h[d - 1] = g[d - 1]
            /\ d - 1 \in 0..n
        BY <2>3
      <3>2. CASE d = n + 1
        BY <3>1, <3>2
      <3>3. CASE d # n + 1
        <4>1. d \in 0..n /\ h[d] = g[d]
          BY <3>3
        <4> QED  BY <2>1, <2>3, <3>1, <4>1 DEF Iterated
      <3> QED  BY <3>2, <3>3
    <2> HIDE DEF h
    <2>4. Iterated(start, step, n + 1, h)
      BY <2>2, <2>3 DEF Iterated
    <2> QED  BY <2>4
  <1> HIDE DEF Found
  <1>3. \A n \in Nat : n \in Found
    BY <1>1, <1>2, SetInduction
  <1> QED  BY <1>3 DEF Found

LEMMA IteratedUnique ==
    ASSUME NEW start, NEW step
    PROVE  \A d \in Nat : \A n, m \in Nat : \A g, h :
              Iterated(start, step, n, g) /\ Iterated(start, step, m, h) /\ d <= n /\ d <= m
                 => g[d] = h[d]
  <1> DEFINE Agree(d) == \A n, m \in Nat : \A g, h :
                            /\ Iterated(start, step, n, g) /\ Iterated(start, step, m, h)
                            /\ d <= n /\ d <= m
                            => g[d] = h[d]
             Pinned == {d \in Nat : Agree(d)}
  <1>1. 0 \in Pinned
    BY DEF Iterated
  <1>2. ASSUME NEW d \in Nat, Agree(d) PROVE Agree(d + 1)
    <2>1. ASSUME NEW n \in Nat, NEW m \in Nat, NEW g, NEW h,
                 Iterated(start, step, n, g), Iterated(start, step, m, h),
                 d + 1 <= n, d + 1 <= m
          PROVE  g[d + 1] = h[d + 1]
      <3>1. d <= n /\ d <= m
        BY <2>1
      <3>2. g[d] = h[d]
        BY <1>2, <2>1, <3>1
      <3>3. d + 1 \in 0..n /\ d + 1 \in 0..m /\ d + 1 # 0 /\ (d + 1) - 1 = d
        BY <2>1
      <3>4. g[d + 1] = step[g[d]] /\ h[d + 1] = step[h[d]]
        BY <2>1, <3>3 DEF Iterated
      <3> QED  BY <3>2, <3>4
    <2> QED  BY <2>1
  <1> HIDE DEF Agree
  <1>3. \A d \in Nat : d \in Pinned
    <2> HIDE DEF Pinned
    <2>1. \A d \in Nat : d \in Pinned => d + 1 \in Pinned
      BY <1>2 DEF Pinned
    <2> QED  BY <1>1, <2>1, SetInduction
  <1>4. \A d \in Nat : Agree(d)
    BY <1>3
  <1> QED  BY <1>4 DEF Agree

LEMMA Iterates ==
    ASSUME NEW start \in Nat, NEW step \in [Nat -> Nat]
    PROVE  \E f : /\ f \in [Nat -> Nat]
                  /\ f = [d \in Nat |-> IF d = 0 THEN start ELSE step[f[d - 1]]]
  <1> DEFINE on == [n \in Nat |-> CHOOSE g : Iterated(start, step, n, g)]
             f == [n \in Nat |-> on[n][n]]
             e == [d \in Nat |-> IF d = 0 THEN start ELSE step[f[d - 1]]]
  <1>1. \A n \in Nat : Iterated(start, step, n, on[n])
    BY IteratedExists
  <1> HIDE DEF on
  <1>2. ASSUME NEW n \in Nat PROVE f[n] \in Nat
    BY <1>1 DEF Iterated
  <1>3. f[0] = start
    BY <1>1 DEF Iterated
  <1>4. ASSUME NEW n \in Nat, n # 0 PROVE f[n] = step[f[n - 1]]
    <2>1. n - 1 \in Nat /\ n - 1 <= n /\ n - 1 <= n - 1 /\ n \in 0..n
      BY <1>4
    <2>2. on[n][n] = step[on[n][n - 1]]
      BY <1>1, <1>4, <2>1 DEF Iterated
    <2>3. on[n][n - 1] = on[n - 1][n - 1]
      <3>1. Iterated(start, step, n, on[n]) /\ Iterated(start, step, n - 1, on[n - 1])
        BY <1>1, <2>1
      <3>2. \A g, h : Iterated(start, step, n, g) /\ Iterated(start, step, n - 1, h)
                         => g[n - 1] = h[n - 1]
        BY <2>1, IteratedUnique
      <3> QED  BY <3>1, <3>2
    <2> QED  BY <2>1, <2>2, <2>3
  <1>5. \A d \in Nat : f[d] = e[d]
    BY <1>3, <1>4
  <1>6. f = [d \in Nat |-> f[d]] /\ e = [d \in Nat |-> e[d]]
    OBVIOUS
  <1> HIDE DEF f, e
  <1>7. f = e
    BY <1>5, <1>6
  <1>8. f \in [Nat -> Nat]
    BY <1>2, <1>6
  <1> QED  BY <1>7, <1>8 DEF e

LEMMA WidthFacts ==
    /\ Width[0] = 1
    /\ \A d \in Nat : Width[d] \in Nat /\ Width[d + 1] = 2 * Width[d]
    /\ \A d \in Nat : Width[d] > d
  <1> DEFINE double == [x \in Nat |-> 2 * x]
  <1>1. double \in [Nat -> Nat] /\ \A x \in Nat : double[x] = 2 * x
    OBVIOUS
  <1> HIDE DEF double
  <1>2. PICK f : /\ f \in [Nat -> Nat]
                 /\ f = [d \in Nat |-> IF d = 0 THEN 1 ELSE double[f[d - 1]]]
    <2>1. 1 \in Nat
      OBVIOUS
    <2> QED  BY <1>1, <2>1, Iterates
  <1>3. f = [d \in Nat |-> IF d = 0 THEN 1 ELSE 2 * f[d - 1]]
    <2>1. ASSUME NEW d \in Nat, d # 0 PROVE double[f[d - 1]] = 2 * f[d - 1]
      <3>1. d - 1 \in Nat
        BY <2>1
      <3>2. f[d - 1] \in Nat
        BY <1>2, <3>1
      <3> QED  BY <1>1, <3>2
    <2>2. [d \in Nat |-> IF d = 0 THEN 1 ELSE double[f[d - 1]]] =
          [d \in Nat |-> IF d = 0 THEN 1 ELSE 2 * f[d - 1]]
      BY <2>1
    <2> QED  BY <1>2, <2>2
  <1>4. Width = [d \in Nat |-> IF d = 0 THEN 1 ELSE 2 * Width[d - 1]]
    BY <1>3 DEF Width
  <1> DEFINE Fine == {d \in Nat : Width[d] \in Nat /\ Width[d] > d}
  <1>5. Width[0] = 1 /\ \A d \in Nat : Width[d + 1] = 2 * Width[d]
    <2>1. \A d \in Nat : d + 1 \in Nat /\ d + 1 # 0 /\ (d + 1) - 1 = d
      OBVIOUS
    <2>2. \A d \in Nat : d # 0 => Width[d] = 2 * Width[d - 1]
      BY <1>4
    <2>3. Width[0] = 1
      BY <1>4
    <2>4. ASSUME NEW d \in Nat PROVE Width[d + 1] = 2 * Width[d]
      <3>1. Width[d + 1] = 2 * Width[(d + 1) - 1]
        BY <2>1, <2>2
      <3> QED  BY <2>1, <3>1
    <2> QED  BY <2>3, <2>4
  <1>6. \A d \in Nat : d \in Fine
    <2>1. 0 \in Fine
      BY <1>5
    <2>2. ASSUME NEW d \in Nat, d \in Fine PROVE d + 1 \in Fine
      BY <1>5, <2>2
    <2> HIDE DEF Fine
    <2> QED  BY <2>1, <2>2, SetInduction
  <1> QED  BY <1>5, <1>6

LEMMA PlacesFacts ==
    ASSUME NEW i \in Nat
    PROVE  /\ Places(i)[0] = i
           /\ \A d \in Nat : Places(i)[d] \in Nat /\ Places(i)[d + 1] = Places(i)[d] \div 2
  <1> DEFINE half == [x \in Nat |-> x \div 2]
  <1>1. half \in [Nat -> Nat] /\ \A x \in Nat : half[x] = x \div 2
    OBVIOUS
  <1> HIDE DEF half
  <1>2. PICK f : /\ f \in [Nat -> Nat]
                 /\ f = [d \in Nat |-> IF d = 0 THEN i ELSE half[f[d - 1]]]
    BY <1>1, Iterates
  <1>3. f = [d \in Nat |-> IF d = 0 THEN i ELSE f[d - 1] \div 2]
    <2>1. ASSUME NEW d \in Nat, d # 0 PROVE half[f[d - 1]] = f[d - 1] \div 2
      <3>1. d - 1 \in Nat
        BY <2>1
      <3>2. f[d - 1] \in Nat
        BY <1>2, <3>1
      <3> QED  BY <1>1, <3>2
    <2>2. [d \in Nat |-> IF d = 0 THEN i ELSE half[f[d - 1]]] =
          [d \in Nat |-> IF d = 0 THEN i ELSE f[d - 1] \div 2]
      BY <2>1
    <2> QED  BY <1>2, <2>2
  <1> DEFINE p == Places(i)
  <1>4. p = [d \in Nat |-> IF d = 0 THEN i ELSE p[d - 1] \div 2]
    BY <1>3 DEF Places
  <1> HIDE DEF p
  <1> DEFINE Fine == {d \in Nat : p[d] \in Nat}
  <1>5. \A d \in Nat : d # 0 => p[d] = p[d - 1] \div 2
    BY <1>4
  <1>6. p[0] = i
    BY <1>4
  <1>7. ASSUME NEW d \in Nat PROVE p[d + 1] = p[d] \div 2
    <2>1. d + 1 \in Nat /\ d + 1 # 0 /\ (d + 1) - 1 = d
      OBVIOUS
    <2>2. p[d + 1] = p[(d + 1) - 1] \div 2
      BY <1>5, <2>1
    <2> QED  BY <2>1, <2>2
  <1>8. \A d \in Nat : d \in Fine
    <2>1. 0 \in Fine
      BY <1>6
    <2>2. ASSUME NEW d \in Nat, d \in Fine PROVE d + 1 \in Fine
      <3>1. p[d] \div 2 \in Nat
        BY <2>2
      <3> QED  BY <1>7, <3>1
    <2> HIDE DEF Fine
    <2> QED  BY <2>1, <2>2, SetInduction
  <1> QED  BY <1>6, <1>7, <1>8 DEF p

\* The levels of a tree exist, to any height.
Raised(base, n, g) == g = [d \in 0..n |-> IF d = 0 THEN base ELSE LevelAbove(g[d - 1])]

LEMMA RaisedExists ==
    ASSUME NEW base
    PROVE  \A n \in Nat : \E g : Raised(base, n, g)
  <1> DEFINE Found == {n \in Nat : \E g : Raised(base, n, g)}
  <1>1. 0 \in Found
    <2> DEFINE g == [d \in 0..0 |-> base]
    <2>1. g = [d \in 0..0 |-> IF d = 0 THEN base ELSE LevelAbove(g[d - 1])]
      OBVIOUS
    <2>2. Raised(base, 0, g)
      BY <2>1 DEF Raised
    <2> QED  BY <2>2
  <1>2. ASSUME NEW n \in Nat, n \in Found PROVE n + 1 \in Found
    <2>1. PICK g : Raised(base, n, g)
      BY <1>2
    <2> DEFINE h == [d \in 0..(n + 1) |-> IF d = n + 1 THEN LevelAbove(g[n]) ELSE g[d]]
               e == [d \in 0..(n + 1) |-> IF d = 0 THEN base ELSE LevelAbove(h[d - 1])]
    <2>2. ASSUME NEW d \in 0..(n + 1) PROVE h[d] = e[d]
      <3>1. CASE d = 0
        <4>1. 0 \in 0..n /\ 0 # n + 1
          OBVIOUS
        <4> QED  BY <2>1, <3>1, <4>1 DEF Raised
      <3>2. CASE d # 0
        <4>1. d - 1 \in 0..(n + 1) /\ d - 1 # n + 1 /\ d - 1 \in 0..n /\ h[d - 1] = g[d - 1]
          BY <3>2
        <4>2. CASE d = n + 1
          BY <3>2, <4>1, <4>2
        <4>3. CASE d # n + 1
          <5>1. d \in 0..n /\ h[d] = g[d]
            BY <4>3
          <5>2. g[d] = LevelAbove(g[d - 1])
            BY <2>1, <3>2, <5>1 DEF Raised
          <5> QED  BY <3>2, <4>1, <5>1, <5>2
        <4> QED  BY <4>2, <4>3
      <3> QED  BY <3>1, <3>2
    <2>3. h = [d \in 0..(n + 1) |-> h[d]] /\ e = [d \in 0..(n + 1) |-> e[d]]
      OBVIOUS
    <2> HIDE DEF h, e
    <2>4. h = e
      BY <2>2, <2>3
    <2>5. Raised(base, n + 1, h)
      BY <2>4 DEF Raised, e
    <2> QED  BY <2>5
  <1> HIDE DEF Found
  <1>3. \A n \in Nat : n \in Found
    BY <1>1, <1>2, SetInduction
  <1> QED  BY <1>3 DEF Found

\* Whatever the leaves are, they are padded to a full level, and each level has
\* half the length of the one below.
LEMMA DepthFacts ==
    ASSUME NEW count \in Nat
    PROVE  Depth(count) \in Nat /\ Width[Depth(count)] >= count
  <1> DEFINE S == {d \in 0..count : Width[d] >= count}
  <1>1. Width[count] \in Nat /\ Width[count] > count
    BY WidthFacts
  <1>2. count \in S /\ S \in SUBSET Nat
    BY <1>1
  <1>3. Min(S) \in S
    BY <1>2, LeastNumber
  <1> QED  BY <1>3 DEF Depth

LEMMA LevelsStep ==
    ASSUME NEW leaves, Len(leaves) \in Nat
    PROVE  /\ Levels(leaves)[0] = PaddedLeaves(leaves)
           /\ \A d \in 0..Depth(Len(leaves)) :
                 d # 0 => Levels(leaves)[d] = LevelAbove(Levels(leaves)[d - 1])
  <1> DEFINE D == Depth(Len(leaves))
             L == Levels(leaves)
  <1>1. D \in Nat
    BY DepthFacts
  <1>2. \E g : Raised(PaddedLeaves(leaves), D, g)
    BY <1>1, RaisedExists
  <1>3. L = [d \in 0..D |-> IF d = 0 THEN PaddedLeaves(leaves) ELSE LevelAbove(L[d - 1])]
    BY <1>2 DEF Raised, Levels
  <1> HIDE DEF D, L
  <1> QED  BY <1>1, <1>3 DEF D, L

LEMMA MadeLength ==
    ASSUME NEW n \in Nat, NEW s, DOMAIN s = 1..n, s = [k \in 1..n |-> s[k]]
    PROVE  Len(s) = n
  OBVIOUS

\* A node: its digest is the pair of the digests below it.
LEMMA LevelsFacts ==
    ASSUME NEW leaves, Len(leaves) \in Nat, NEW d \in 0..Depth(Len(leaves))
    PROVE  /\ DOMAIN Levels(leaves)[d] = 1..Width[Depth(Len(leaves)) - d]
           /\ d # 0 => \A k \in 1..Width[Depth(Len(leaves)) - d] :
                 /\ 2 * k - 1 \in 1..Width[Depth(Len(leaves)) - (d - 1)]
                 /\ 2 * k \in 1..Width[Depth(Len(leaves)) - (d - 1)]
                 /\ Levels(leaves)[d][k] = ParentHash(Levels(leaves)[d - 1][2 * k - 1],
                                                      Levels(leaves)[d - 1][2 * k])
  <1> DEFINE D == Depth(Len(leaves))
             L == Levels(leaves)
             Full(e) == L[e] = [k \in 1..Width[D - e] |-> L[e][k]]
             Fine == {e \in Nat : e <= D => Full(e)}
  <1>1. D \in Nat
    BY DepthFacts
  <1>2. L[0] = PaddedLeaves(leaves) /\ \A e \in 0..D : e # 0 => L[e] = LevelAbove(L[e - 1])
    BY LevelsStep
  <1>3. L[0] = [k \in 1..Width[D] |-> L[0][k]]
    BY <1>2 DEF PaddedLeaves
  <1> HIDE DEF D, L
  <1>4. ASSUME NEW e \in Nat, e + 1 <= D, Full(e)
        PROVE  /\ Width[D - e] = 2 * Width[D - (e + 1)] /\ Width[D - (e + 1)] \in Nat
               /\ L[e + 1] = [k \in 1..Width[D - (e + 1)] |->
                                ParentHash(L[e][2 * k - 1], L[e][2 * k])]
    <2>1. D - (e + 1) \in Nat /\ D - e = (D - (e + 1)) + 1 /\ D - e \in Nat
      BY <1>1, <1>4
    <2>2. /\ Width[D - e] = 2 * Width[D - (e + 1)]
          /\ Width[D - (e + 1)] \in Nat /\ Width[D - e] \in Nat
      BY <2>1, WidthFacts
    <2>3. Len(L[e]) = Width[D - e]
      <3>1. DOMAIN L[e] = 1..Width[D - e]
        BY <1>4
      <3> QED  BY <1>4, <2>2, <3>1, MadeLength
    <2>4. Len(L[e]) \div 2 = Width[D - (e + 1)]
      BY <2>2, <2>3
    <2>5. e + 1 \in 0..D /\ e + 1 # 0 /\ (e + 1) - 1 = e
      BY <1>1, <1>4
    <2>6. L[e + 1] = LevelAbove(L[e])
      BY <1>2, <2>5
    <2> QED  BY <2>2, <2>4, <2>6 DEF LevelAbove
  <1>5. \A e \in Nat : e \in Fine
    <2>1. 0 \in Fine
      <3>1. D - 0 = D
        BY <1>1
      <3> QED  BY <1>3, <3>1
    <2>2. ASSUME NEW e \in Nat, e \in Fine PROVE e + 1 \in Fine
      <3>1. CASE e + 1 <= D
        <4>1. Full(e)
          BY <1>1, <2>2, <3>1
        <4>2. Full(e + 1)
          BY <1>4, <3>1, <4>1
        <4> QED  BY <4>2
      <3>2. CASE ~(e + 1 <= D)
        BY <3>2
      <3> QED  BY <3>1, <3>2
    <2> HIDE DEF Fine
    <2> QED  BY <2>1, <2>2, SetInduction
  <1>6. d \in 0..D
    BY DEF D
  <1>9. \A e \in Nat : e <= D => Full(e)
    BY <1>5
  <1>7. Full(d)
    BY <1>1, <1>9, <1>6
  <1>8. ASSUME d # 0, NEW k \in 1..Width[D - d]
        PROVE  /\ 2 * k - 1 \in 1..Width[D - (d - 1)] /\ 2 * k \in 1..Width[D - (d - 1)]
               /\ L[d][k] = ParentHash(L[d - 1][2 * k - 1], L[d - 1][2 * k])
    <2>1. d - 1 \in Nat /\ d - 1 <= D /\ (d - 1) + 1 <= D /\ (d - 1) + 1 = d
      BY <1>1, <1>6, <1>8
    <2>2. Full(d - 1)
      BY <1>9, <2>1
    <2>3. /\ Width[D - (d - 1)] = 2 * Width[D - d] /\ Width[D - d] \in Nat
          /\ L[d] = [j \in 1..Width[D - d] |-> ParentHash(L[d - 1][2 * j - 1], L[d - 1][2 * j])]
      BY <1>4, <2>1, <2>2
    <2> QED  BY <1>8, <2>3
  <1> QED  BY <1>7, <1>8 DEF D, L

\* The way of a proof exists, however long it is.
Climbed(proof, n, g) ==
    g = [d \in 0..n |-> IF d = 0 THEN proof.line_hash ELSE Joined(proof, d, g[d - 1])]

LEMMA ClimbedExists ==
    ASSUME NEW proof
    PROVE  \A n \in Nat : \E g : Climbed(proof, n, g)
  <1> DEFINE base == proof.line_hash
             Found == {n \in Nat : \E g : Climbed(proof, n, g)}
  <1>1. 0 \in Found
    <2> DEFINE g == [d \in 0..0 |-> base]
    <2>1. g = [d \in 0..0 |-> IF d = 0 THEN base ELSE Joined(proof, d, g[d - 1])]
      OBVIOUS
    <2>2. Climbed(proof, 0, g)
      BY <2>1 DEF Climbed
    <2> QED  BY <2>2
  <1>2. ASSUME NEW n \in Nat, n \in Found PROVE n + 1 \in Found
    <2>1. PICK g : Climbed(proof, n, g)
      BY <1>2
    <2> DEFINE h == [d \in 0..(n + 1) |-> IF d = n + 1 THEN Joined(proof, n + 1, g[n]) ELSE g[d]]
               e == [d \in 0..(n + 1) |-> IF d = 0 THEN base ELSE Joined(proof, d, h[d - 1])]
    <2>2. ASSUME NEW d \in 0..(n + 1) PROVE h[d] = e[d]
      <3>1. CASE d = 0
        <4>1. 0 \in 0..n /\ 0 # n + 1
          OBVIOUS
        <4> QED  BY <2>1, <3>1, <4>1 DEF Climbed
      <3>2. CASE d # 0
        <4>1. d - 1 \in 0..(n + 1) /\ d - 1 # n + 1 /\ d - 1 \in 0..n /\ h[d - 1] = g[d - 1]
          BY <3>2
        <4>2. CASE d = n + 1
          BY <3>2, <4>1, <4>2
        <4>3. CASE d # n + 1
          <5>1. d \in 0..n /\ h[d] = g[d]
            BY <4>3
          <5>2. g[d] = Joined(proof, d, g[d - 1])
            BY <2>1, <3>2, <5>1 DEF Climbed
          <5> QED  BY <3>2, <4>1, <5>1, <5>2
        <4> QED  BY <4>2, <4>3
      <3> QED  BY <3>1, <3>2
    <2>3. h = [d \in 0..(n + 1) |-> h[d]] /\ e = [d \in 0..(n + 1) |-> e[d]]
      OBVIOUS
    <2> HIDE DEF h, e
    <2>4. h = e
      BY <2>2, <2>3
    <2>5. Climbed(proof, n + 1, h)
      BY <2>4 DEF Climbed, e
    <2> QED  BY <2>5
  <1> HIDE DEF Found
  <1>3. \A n \in Nat : n \in Found
    BY <1>1, <1>2, SetInduction
  <1> QED  BY <1>3 DEF Found

LEMMA ClimbFacts ==
    ASSUME NEW proof, Len(proof.sibling_hashes) \in Nat
    PROVE  /\ Climb(proof)[0] = proof.line_hash
           /\ \A d \in 0..Len(proof.sibling_hashes) :
                 d # 0 => Climb(proof)[d] = Joined(proof, d, Climb(proof)[d - 1])
  <1> DEFINE M == Len(proof.sibling_hashes)
             C == Climb(proof)
  <1>1. \E g : Climbed(proof, M, g)
    BY ClimbedExists
  <1>2. C = [d \in 0..M |-> IF d = 0 THEN proof.line_hash ELSE Joined(proof, d, C[d - 1])]
    BY <1>1 DEF Climbed, Climb
  <1>3. 0 \in 0..M
    OBVIOUS
  <1> HIDE DEF M, C
  <1> QED  BY <1>2, <1>3 DEF M, C

------------------------------------------------------------------------------
(* Digests of lines, parents and padding are never the same.                 *)

LEMMA DigestKinds ==
    /\ \A l, m : Digest(l) = Digest(m) => l = m
    /\ \A l : Digest(l) # EmptyDigest
    /\ \A x, y : ParentHash(x, y) # EmptyDigest
    /\ \A l, x, y : ParentHash(x, y) # Digest(l)
    /\ \A x, y, u, v : ParentHash(x, y) = ParentHash(u, v) => x = u /\ y = v
  BY DEF Digest, ParentHash, EmptyDigest

LEMMA SameParents ==
    ASSUME NEW x, NEW y, NEW u, NEW v, ParentHash(x, y) = ParentHash(u, v)
    PROVE  x = u /\ y = v
  BY DEF ParentHash

\* What a tree is built over: the digests of some lines.
LineLeaves(leaves) ==
    /\ Len(leaves) \in Nat
    /\ leaves = [k \in 1..Len(leaves) |-> leaves[k]]
    /\ \A k \in 1..Len(leaves) : \E line : leaves[k] = Digest(line)

LEMMA LeavesFacts ==
    ASSUME NEW leaves, LineLeaves(leaves)
    PROVE  /\ Len(leaves) \in Nat /\ DOMAIN leaves = 1..Len(leaves)
           /\ leaves = <<>> <=> Len(leaves) = 0
           /\ \A k \in 1..Len(leaves) : \E line : leaves[k] = Digest(line)
           /\ Len(leaves) <= Width[Depth(Len(leaves))]
           /\ Depth(Len(leaves)) \in Nat
  <1>1. Len(leaves) \in Nat
    BY DEF LineLeaves
  <1>2. DOMAIN leaves = 1..Len(leaves)
    BY DEF LineLeaves
  <1>3. leaves = <<>> <=> Len(leaves) = 0
    <2>1. ASSUME Len(leaves) = 0 PROVE leaves = <<>>
      <3>1. leaves = [k \in 1..0 |-> leaves[k]]
        BY <2>1 DEF LineLeaves
      <3> QED  BY <3>1
    <2> QED  BY <2>1
  <1>4. Width[Depth(Len(leaves))] \in Nat /\ Width[Depth(Len(leaves))] >= Len(leaves)
    BY <1>1, DepthFacts, WidthFacts
  <1> QED  BY <1>1, <1>2, <1>3, <1>4, DepthFacts DEF LineLeaves

\* The lowest level: the leaves and their padding.
LEMMA LowestLevel ==
    ASSUME NEW leaves, LineLeaves(leaves), NEW k \in 1..Width[Depth(Len(leaves))]
    PROVE  /\ k \in DOMAIN leaves => Levels(leaves)[0][k] = leaves[k]
           /\ k \notin DOMAIN leaves => Levels(leaves)[0][k] = EmptyDigest
           /\ \A x, y : Levels(leaves)[0][k] # ParentHash(x, y)
  <1>1. Levels(leaves)[0] = PaddedLeaves(leaves)
    BY LeavesFacts, LevelsStep
  <1>2. Levels(leaves)[0][k] = IF k \in DOMAIN leaves THEN leaves[k] ELSE EmptyDigest
    BY <1>1 DEF PaddedLeaves
  <1>3. k \in DOMAIN leaves => \E line : leaves[k] = Digest(line)
    BY LeavesFacts
  <1> QED  BY <1>2, <1>3, DigestKinds

\* A node j levels below the root that is not a leaf is the parent of two.
LEMMA InnerNode ==
    ASSUME NEW leaves, LineLeaves(leaves), NEW j \in Nat, j + 1 <= Depth(Len(leaves)),
           NEW m \in 1..Width[j]
    PROVE  /\ 2 * m - 1 \in 1..Width[j + 1] /\ 2 * m \in 1..Width[j + 1]
           /\ Levels(leaves)[Depth(Len(leaves)) - j][m] =
                 ParentHash(Levels(leaves)[Depth(Len(leaves)) - (j + 1)][2 * m - 1],
                            Levels(leaves)[Depth(Len(leaves)) - (j + 1)][2 * m])
  <1> DEFINE D == Depth(Len(leaves))
             d == D - j
  <1>1. D \in Nat /\ Len(leaves) \in Nat
    BY LeavesFacts
  <1>2. /\ d \in 0..D /\ d # 0 /\ D - d = j
        /\ D - (d - 1) = j + 1 /\ d - 1 = D - (j + 1)
    BY <1>1
  <1> HIDE DEF D, d
  <1>3. /\ 2 * m - 1 \in 1..Width[D - (d - 1)] /\ 2 * m \in 1..Width[D - (d - 1)]
        /\ Levels(leaves)[d][m] = ParentHash(Levels(leaves)[d - 1][2 * m - 1],
                                             Levels(leaves)[d - 1][2 * m])
    BY <1>1, <1>2, LevelsFacts DEF D
  <1>4. Depth(Len(leaves)) - j = d /\ Depth(Len(leaves)) - (j + 1) = d - 1
    BY <1>2 DEF D, d
  <1> QED  BY <1>2, <1>3, <1>4

\* The root: of no leaves it is the digest of nothing, of others the top level.
LEMMA RootFacts ==
    ASSUME NEW leaves, LineLeaves(leaves)
    PROVE  /\ leaves = <<>> => MerkleRoot(leaves) = EmptyDigest
           /\ leaves # <<>> =>
                 /\ MerkleRoot(leaves) = Levels(leaves)[Depth(Len(leaves))][1]
                 /\ MerkleRoot(leaves) # EmptyDigest
  <1> DEFINE D == Depth(Len(leaves))
  <1>1. D \in Nat
    BY LeavesFacts
  <1>2. ASSUME leaves # <<>>, D = 0 PROVE Levels(leaves)[D][1] # EmptyDigest
    <2>1. 1 \in DOMAIN leaves /\ \E line : leaves[1] = Digest(line)
      BY <1>2, LeavesFacts
    <2>2. 1 \in 1..Width[D]
      BY <1>2, WidthFacts
    <2>3. Levels(leaves)[0][1] = leaves[1]
      BY <2>1, <2>2, LowestLevel
    <2> QED  BY <1>2, <2>1, <2>3, DigestKinds
  <1>3. ASSUME D # 0 PROVE Levels(leaves)[D][1] # EmptyDigest
    <2>1. 0 + 1 <= D /\ D - 0 = D /\ 0 \in Nat /\ 1 \in 1..Width[0]
      <3> HIDE DEF D
      <3>1. 1 \in 1..Width[0]
        BY WidthFacts
      <3> QED  BY <1>1, <1>3, <3>1
    <2>2. \E x, y : Levels(leaves)[D - 0][1] = ParentHash(x, y)
      BY <2>1, InnerNode
    <2> QED  BY <2>1, <2>2, DigestKinds
  <1> QED  BY <1>2, <1>3 DEF MerkleRoot

------------------------------------------------------------------------------
(* What is proved checks.                                                    *)

LEMMA BesideFacts ==
    ASSUME NEW p \in Nat
    PROVE  /\ p \div 2 \in Nat
           /\ p % 2 = 0 => /\ p + 1 = 2 * (p \div 2 + 1) - 1
                           /\ Beside(p + 1) = 2 * (p \div 2 + 1)
           /\ p % 2 # 0 => /\ p + 1 = 2 * (p \div 2 + 1)
                           /\ Beside(p + 1) = 2 * (p \div 2 + 1) - 1
  BY DEF Beside

\* The proof made for a line of a log checks, against the root of that log: the
\* siblings written down on the way up are those the check puts back, in a tree
\* of any height and with any padding.
THEOREM ProvedChecks ==
    ASSUME NEW leaves, LineLeaves(leaves),
           NEW place \in DOMAIN leaves
    PROVE  LET proof == ProveInclusion(leaves, leaves[place])
           IN  RecomputeRoot(proof) = proof.root /\ proof.root = MerkleRoot(leaves)
  <1> DEFINE proof == ProveInclusion(leaves, leaves[place])
             found == {k \in DOMAIN leaves : leaves[k] = leaves[place]}
             index == Min(found) - 1
             D == Depth(Len(leaves))
             L == Levels(leaves)
             C == Climb(proof)
             P == Places(index)
             OnWay(e) == P[e] + 1 \in 1..Width[D - e] /\ C[e] = L[e][P[e] + 1]
             Fine == {e \in Nat : e <= D => OnWay(e)}
  <1>1. D \in Nat /\ Len(leaves) \in Nat /\ DOMAIN leaves = 1..Len(leaves)
        /\ Len(leaves) <= Width[D] /\ Width[D] \in Nat
    BY LeavesFacts, WidthFacts
  <1>2. Min(found) \in found
    <2>1. place \in found /\ found \in SUBSET Nat
      BY <1>1
    <2> QED  BY <2>1, LeastNumber
  <1>3. /\ index \in Nat /\ index + 1 \in DOMAIN leaves /\ index + 1 \in 1..Width[D]
        /\ leaves[index + 1] = leaves[place]
    BY <1>1, <1>2
  <1>4. /\ proof.line_hash = leaves[place] /\ proof.leaf_index = index
        /\ proof.sibling_hashes = SiblingHashes(leaves, index)
        /\ proof.root = MerkleRoot(leaves)
    BY DEF ProveInclusion
  <1> HIDE DEF proof, index, found
  <1>5. /\ Len(proof.sibling_hashes) = D
        /\ \A d \in 1..D : proof.sibling_hashes[d] = L[d - 1][Beside(P[d - 1] + 1)]
    <2> DEFINE s == SiblingHashes(leaves, index)
    <2>1. s = [d \in 1..D |-> L[d - 1][Beside(P[d - 1] + 1)]]
      BY DEF SiblingHashes
    <2>2. DOMAIN s = 1..D /\ s = [d \in 1..D |-> s[d]]
      BY <2>1
    <2>3. Len(s) = D
      <3> HIDE DEF s
      <3> QED  BY <1>1, <2>2, MadeLength
    <2> QED  BY <1>4, <2>1, <2>3
  <1>6. /\ P[0] = index
        /\ \A e \in Nat : P[e] \in Nat /\ P[e + 1] = P[e] \div 2
    BY <1>3, PlacesFacts
  <1>7. C[0] = leaves[place] /\ \A d \in 0..D : d # 0 => C[d] = Joined(proof, d, C[d - 1])
    <2>1. Len(proof.sibling_hashes) \in Nat
      BY <1>1, <1>5
    <2> QED  BY <1>4, <1>5, <2>1, ClimbFacts
  <1>8. L[0][index + 1] = leaves[place]
    BY <1>3, LowestLevel
  <1> HIDE DEF D, L, C, P
  <1>9. ASSUME NEW e \in Nat, e + 1 <= D, OnWay(e) PROVE OnWay(e + 1)
    <2> DEFINE p == P[e]
               q == P[e + 1]
               j == D - (e + 1)
    <2>1. /\ j \in Nat /\ j + 1 <= D /\ j + 1 = D - e /\ D - j = e + 1 /\ D - (j + 1) = e
          /\ e + 1 \in 0..D /\ e + 1 \in 1..D /\ e + 1 # 0 /\ (e + 1) - 1 = e
      BY <1>1, <1>9
    <2>2. p \in Nat /\ q \in Nat /\ q = p \div 2
      BY <1>6
    <2>3. /\ p % 2 = 0 => p + 1 = 2 * (q + 1) - 1 /\ Beside(p + 1) = 2 * (q + 1)
          /\ p % 2 # 0 => p + 1 = 2 * (q + 1) /\ Beside(p + 1) = 2 * (q + 1) - 1
      BY <2>2, BesideFacts
    <2> HIDE DEF p, q, j
    <2>4. q + 1 \in 1..Width[j]
      <3>1. Width[j + 1] = 2 * Width[j] /\ Width[j] \in Nat
        BY <2>1, WidthFacts
      <3>2. p + 1 <= 2 * Width[j]
        BY <1>9, <2>1, <3>1 DEF p
      <3>3. 2 * (q + 1) - 1 <= p + 1
        BY <2>2, <2>3
      <3> QED  BY <2>2, <3>1, <3>2, <3>3
    <2>5. L[e + 1][q + 1] = ParentHash(L[e][2 * (q + 1) - 1], L[e][2 * (q + 1)])
      BY <2>1, <2>4, InnerNode DEF D, L
    <2>6. C[e + 1] = IF p % 2 = 0 THEN ParentHash(C[e], proof.sibling_hashes[e + 1])
                     ELSE ParentHash(proof.sibling_hashes[e + 1], C[e])
      BY <1>4, <1>7, <2>1 DEF Joined, p, P
    <2>7. C[e] = L[e][p + 1] /\ proof.sibling_hashes[e + 1] = L[e][Beside(p + 1)]
      BY <1>5, <1>9, <2>1 DEF p
    <2>8. C[e + 1] = L[e + 1][q + 1]
      BY <2>3, <2>5, <2>6, <2>7
    <2> QED  BY <2>1, <2>4, <2>8 DEF q, j
  <1>10. \A e \in Nat : e \in Fine
    <2>1. 0 \in Fine
      <3>1. D - 0 = D
        BY <1>1
      <3> QED  BY <1>3, <1>6, <1>7, <1>8, <3>1
    <2>2. ASSUME NEW e \in Nat, e \in Fine PROVE e + 1 \in Fine
      <3>1. CASE e + 1 <= D
        <4>1. OnWay(e)
          BY <1>1, <2>2, <3>1
        <4> HIDE DEF OnWay
        <4> QED  BY <1>9, <3>1, <4>1
      <3>2. CASE ~(e + 1 <= D)
        BY <3>2
      <3> QED  BY <3>1, <3>2
    <2> HIDE DEF Fine
    <2> QED  BY <2>1, <2>2, SetInduction
  <1>11. OnWay(D)
    <2>1. D \in Fine /\ D <= D
      BY <1>1, <1>10
    <2> HIDE DEF OnWay
    <2> QED  BY <2>1
  <1>12. P[D] + 1 = 1
    <2>1. D - D = 0 /\ P[D] \in Nat
      BY <1>1, <1>6
    <2>2. 1..Width[0] = {1}
      BY WidthFacts
    <2>3. P[D] + 1 \in {1}
      BY <1>11, <2>1, <2>2
    <2> QED  BY <2>3
  <1>13. C[D] = MerkleRoot(leaves)
    <2>1. leaves # <<>>
      BY <1>1, <1>3
    <2> QED  BY <1>11, <1>12, <2>1, RootFacts DEF D, L
  <1> QED  BY <1>4, <1>5, <1>13 DEF RecomputeRoot, C, proof

------------------------------------------------------------------------------
(* Only what is in the tree checks.                                          *)

\* A proof with any siblings and any index: what it starts from, if that is the
\* digest of a line, is a leaf.  check_inclusion_proof looks at neither the
\* index nor the count, and this is why a made-up proof of a line still fails.
THEOREM OnlyLeavesCheck ==
    ASSUME NEW leaves, LineLeaves(leaves),
           NEW proof, Len(proof.sibling_hashes) \in Nat,
           NEW line, proof.line_hash = Digest(line),
           RecomputeRoot(proof) = MerkleRoot(leaves)
    PROVE  \E k \in DOMAIN leaves : leaves[k] = Digest(line)
  <1> DEFINE M == Len(proof.sibling_hashes)
             D == Depth(Len(leaves))
             L == Levels(leaves)
             C == Climb(proof)
             Node(j) == \E k \in 1..Width[j] : C[M - j] = L[D - j][k]
             Fine == {j \in Nat : j <= M /\ j <= D => Node(j)}
  <1>1. /\ M \in Nat /\ D \in Nat
        /\ C[M] = MerkleRoot(leaves)
        /\ C[0] = Digest(line)
    BY LeavesFacts, ClimbFacts DEF RecomputeRoot
  <1>2. ASSUME NEW d \in 0..M, d # 0
        PROVE  \E x, y : C[d] = ParentHash(x, y) /\ (x = C[d - 1] \/ y = C[d - 1])
    BY <1>2, ClimbFacts DEF Joined
  <1>3. leaves # <<>> /\ MerkleRoot(leaves) = L[D][1]
    <2>1. C[M] # EmptyDigest
      <3>1. CASE M = 0
        BY <1>1, <3>1, DigestKinds
      <3>2. CASE M # 0
        <4>1. M \in 0..M
          BY <1>1
        <4>2. \E x, y : C[M] = ParentHash(x, y)
          BY <1>2, <3>2, <4>1
        <4> QED  BY <4>2, DigestKinds
      <3> QED  BY <3>1, <3>2
    <2> QED  BY <1>1, <2>1, RootFacts
  <1>4. \A k \in 1..Width[D] :
           /\ L[0][k] = Digest(line) => k \in DOMAIN leaves /\ leaves[k] = Digest(line)
           /\ \A x, y : L[0][k] # ParentHash(x, y)
    BY LowestLevel, DigestKinds
  <1>5. ASSUME NEW j \in Nat, j + 1 <= D, NEW m \in 1..Width[j]
        PROVE  /\ 2 * m - 1 \in 1..Width[j + 1] /\ 2 * m \in 1..Width[j + 1]
               /\ L[D - j][m] = ParentHash(L[D - (j + 1)][2 * m - 1], L[D - (j + 1)][2 * m])
    BY <1>5, InnerNode
  <1> HIDE DEF M, D, L, C
  <1>6. \A j \in Nat : j \in Fine
    <2>1. 0 \in Fine
      <3>1. M - 0 = M /\ D - 0 = D /\ 1 \in 1..Width[0]
        BY <1>1, WidthFacts
      <3>2. Node(0)
        BY <1>1, <1>3, <3>1
      <3> QED  BY <3>2
    <2>2. ASSUME NEW j \in Nat, j \in Fine PROVE j + 1 \in Fine
      <3> SUFFICES ASSUME j + 1 <= M, j + 1 <= D PROVE Node(j + 1)
        OBVIOUS
      <3>1. j <= M /\ j <= D /\ M - j \in 0..M /\ M - j # 0 /\ (M - j) - 1 = M - (j + 1)
        BY <1>1
      <3>2. PICK m \in 1..Width[j] : C[M - j] = L[D - j][m]
        BY <2>2, <3>1
      <3>3. PICK x, y : C[M - j] = ParentHash(x, y) /\ (x = C[M - (j + 1)] \/ y = C[M - (j + 1)])
        BY <1>2, <3>1
      <3>4. /\ 2 * m - 1 \in 1..Width[j + 1] /\ 2 * m \in 1..Width[j + 1]
            /\ L[D - j][m] = ParentHash(L[D - (j + 1)][2 * m - 1], L[D - (j + 1)][2 * m])
        BY <1>5
      <3>5. x = L[D - (j + 1)][2 * m - 1] /\ y = L[D - (j + 1)][2 * m]
        <4>1. ParentHash(x, y) = ParentHash(L[D - (j + 1)][2 * m - 1], L[D - (j + 1)][2 * m])
          BY <3>2, <3>3, <3>4
        <4> QED  BY <4>1, SameParents
      <3> QED  BY <3>3, <3>4, <3>5
    <2> HIDE DEF Fine
    <2> QED  BY <2>1, <2>2, SetInduction
  <1>7. \A j \in Nat : j <= M /\ j <= D => Node(j)
    BY <1>6
  <1>8. CASE M < D
    <2>1. M \in Nat /\ M <= M /\ M <= D /\ M - M = 0 /\ M + 1 <= D
      BY <1>1, <1>8
    <2>2. PICK k \in 1..Width[M] : C[0] = L[D - M][k]
      BY <1>7, <2>1
    <2>3. \E x, y : L[D - M][k] = ParentHash(x, y)
      BY <1>5, <2>1
    <2> QED  BY <1>1, <2>2, <2>3, DigestKinds
  <1>9. CASE M >= D
    <2>1. D \in Nat /\ D <= M /\ D <= D /\ D - D = 0 /\ M - D \in 0..M
      BY <1>1, <1>9
    <2>2. PICK k \in 1..Width[D] : C[M - D] = L[0][k]
      BY <1>7, <2>1
    <2>3. CASE M - D = 0
      BY <1>1, <1>4, <2>2, <2>3
    <2>4. CASE M - D # 0
      <3>1. \E x, y : C[M - D] = ParentHash(x, y)
        BY <1>2, <2>1, <2>4
      <3> QED  BY <1>4, <2>2, <3>1
    <2> QED  BY <2>3, <2>4
  <1> QED  BY <1>1, <1>8, <1>9

------------------------------------------------------------------------------
(* A root is the root of one sequence of leaves only.                        *)

LEMMA NeitherLess ==
    ASSUME NEW m \in Nat, NEW n \in Nat, ~(m < n), ~(n < m)
    PROVE  m = n
  OBVIOUS

LEMMA NotDeeper ==
    ASSUME NEW a, NEW b, LineLeaves(a), LineLeaves(b), a # <<>>, b # <<>>,
           MerkleRoot(a) = MerkleRoot(b)
    PROVE  ~(Depth(Len(a)) < Depth(Len(b)))
  <1> DEFINE D == Depth(Len(a))
             E == Depth(Len(b))
             A == Levels(a)
             B == Levels(b)
             Fine == {j \in Nat : j <= D => A[D - j][1] = B[E - j][1]}
  <1> SUFFICES ASSUME D < E PROVE FALSE
    OBVIOUS
  <1>1. D \in Nat /\ E \in Nat /\ A[D][1] = B[E][1]
    BY LeavesFacts, RootFacts
  <1>2. ASSUME NEW j \in Nat
        PROVE  /\ j + 1 <= D => \E y : A[D - j][1] = ParentHash(A[D - (j + 1)][1], y)
               /\ j + 1 <= E => \E y : B[E - j][1] = ParentHash(B[E - (j + 1)][1], y)
    <2>1. 1 \in 1..Width[j] /\ 2 * 1 - 1 = 1
      <3>1. Width[j] \in Nat /\ Width[j] > j
        BY WidthFacts
      <3> QED  BY <3>1
    <2>2. ASSUME j + 1 <= D PROVE \E y : A[D - j][1] = ParentHash(A[D - (j + 1)][1], y)
      <3>1. A[D - j][1] = ParentHash(A[D - (j + 1)][2 * 1 - 1], A[D - (j + 1)][2 * 1])
        BY <2>1, <2>2, InnerNode
      <3> HIDE DEF A, D
      <3> QED  BY <2>1, <3>1
    <2>3. ASSUME j + 1 <= E PROVE \E y : B[E - j][1] = ParentHash(B[E - (j + 1)][1], y)
      <3>1. B[E - j][1] = ParentHash(B[E - (j + 1)][2 * 1 - 1], B[E - (j + 1)][2 * 1])
        BY <2>1, <2>3, InnerNode
      <3> HIDE DEF B, E
      <3> QED  BY <2>1, <3>1
    <2> QED  BY <2>2, <2>3
  <1>3. \A x, y : A[0][1] # ParentHash(x, y)
    <2>1. 1 \in 1..Width[D]
      <3> HIDE DEF D
      <3>1. Width[D] \in Nat /\ Width[D] > D
        BY <1>1, WidthFacts
      <3> QED  BY <1>1, <3>1
    <2> QED  BY <2>1, LowestLevel
  <1> HIDE DEF A, B, D, E
  <1>4. \A j \in Nat : j \in Fine
    <2>1. 0 \in Fine
      <3>1. D - 0 = D /\ E - 0 = E
        BY <1>1
      <3> QED  BY <1>1, <3>1
    <2>2. ASSUME NEW j \in Nat, j \in Fine PROVE j + 1 \in Fine
      <3> SUFFICES ASSUME j + 1 <= D PROVE A[D - (j + 1)][1] = B[E - (j + 1)][1]
        OBVIOUS
      <3>1. j <= D /\ j + 1 <= E
        BY <1>1
      <3>2. A[D - j][1] = B[E - j][1]
        BY <2>2, <3>1
      <3>3. /\ \E y : A[D - j][1] = ParentHash(A[D - (j + 1)][1], y)
            /\ \E y : B[E - j][1] = ParentHash(B[E - (j + 1)][1], y)
        BY <1>2, <3>1
      <3>4. PICK x, y : ParentHash(A[D - (j + 1)][1], x) = ParentHash(B[E - (j + 1)][1], y)
        BY <3>2, <3>3
      <3> QED  BY <3>4, SameParents
    <2> HIDE DEF Fine
    <2> QED  BY <2>1, <2>2, SetInduction
  <1>5. A[0][1] = B[E - D][1]
    <2>1. D \in Fine /\ D <= D /\ D - D = 0
      BY <1>1, <1>4
    <2> QED  BY <2>1
  <1>6. \E x, y : B[E - D][1] = ParentHash(x, y)
    <2>1. D + 1 <= E
      BY <1>1
    <2> QED  BY <1>1, <1>2, <2>1
  <1> QED  BY <1>3, <1>5, <1>6

\* One root, one log: neither the padding to a power of two nor the height can
\* give two lists of lines the same root.
THEOREM RootPinsLeaves ==
    ASSUME NEW a, NEW b, LineLeaves(a), LineLeaves(b), MerkleRoot(a) = MerkleRoot(b)
    PROVE  a = b
  <1>1. CASE a = <<>> \/ b = <<>>
    BY <1>1, RootFacts
  <1>2. CASE a # <<>> /\ b # <<>>
    <2> DEFINE D == Depth(Len(a))
               A == Levels(a)
               B == Levels(b)
               Same(j) == \A k \in 1..Width[j] : A[D - j][k] = B[D - j][k]
               Fine == {j \in Nat : j <= D => Same(j)}
    <2>1. /\ D \in Nat /\ Depth(Len(b)) \in Nat
          /\ ~(D < Depth(Len(b))) /\ ~(Depth(Len(b)) < D)
      BY <1>2, NotDeeper, LeavesFacts
    <2>2. Depth(Len(b)) = D
      BY <2>1, NeitherLess
    <2>3. A[D][1] = B[D][1]
      BY <1>2, <2>2, RootFacts
    <2>4. ASSUME NEW j \in Nat, j + 1 <= D, NEW m \in 1..Width[j]
          PROVE  /\ A[D - j][m] = ParentHash(A[D - (j + 1)][2 * m - 1], A[D - (j + 1)][2 * m])
                 /\ B[D - j][m] = ParentHash(B[D - (j + 1)][2 * m - 1], B[D - (j + 1)][2 * m])
      <3>1. A[D - j][m] = ParentHash(A[D - (j + 1)][2 * m - 1], A[D - (j + 1)][2 * m])
        BY <2>4, InnerNode
      <3>2. j + 1 <= Depth(Len(b))
        BY <2>2, <2>4
      <3>3. B[Depth(Len(b)) - j][m] = ParentHash(B[Depth(Len(b)) - (j + 1)][2 * m - 1],
                                                 B[Depth(Len(b)) - (j + 1)][2 * m])
        BY <3>2, InnerNode
      <3> QED  BY <2>2, <3>1, <3>3
    <2>5. ASSUME NEW k \in 1..Width[D]
          PROVE  /\ k \in DOMAIN a => A[0][k] = a[k] /\ \E line : a[k] = Digest(line)
                 /\ k \notin DOMAIN a => A[0][k] = EmptyDigest
                 /\ k \in DOMAIN b => B[0][k] = b[k] /\ \E line : b[k] = Digest(line)
                 /\ k \notin DOMAIN b => B[0][k] = EmptyDigest
      <3>1. k \in 1..Width[Depth(Len(b))]
        BY <2>2
      <3> QED  BY <3>1, LowestLevel, LeavesFacts
    <2>6. /\ Len(a) \in Nat /\ DOMAIN a = 1..Len(a) /\ Len(a) <= Width[D]
          /\ Len(b) \in Nat /\ DOMAIN b = 1..Len(b) /\ Len(b) <= Width[D]
          /\ Width[D] \in Nat
      <3>1. Width[D] \in Nat
        BY <2>1, WidthFacts
      <3>2. Len(a) <= Width[D] /\ Len(b) <= Width[D]
        BY <2>2, LeavesFacts
      <3> QED  BY <3>1, <3>2, LeavesFacts
    <2> HIDE DEF A, B, D
    <2>7. \A j \in Nat : j \in Fine
      <3>1. 0 \in Fine
        <4>1. D - 0 = D /\ 1..Width[0] = {1}
          BY <2>1, WidthFacts
        <4> QED  BY <2>3, <4>1
      <3>2. ASSUME NEW j \in Nat, j \in Fine PROVE j + 1 \in Fine
        <4> SUFFICES ASSUME j + 1 <= D, NEW k \in 1..Width[j + 1]
                     PROVE  A[D - (j + 1)][k] = B[D - (j + 1)][k]
          OBVIOUS
        <4>1. Same(j)
          BY <2>1, <3>2
        <4>2. PICK m \in 1..Width[j] : k = 2 * m - 1 \/ k = 2 * m
          <5>1. Width[j + 1] = 2 * Width[j] /\ Width[j] \in Nat
            BY WidthFacts
          <5>2. (k + 1) \div 2 \in 1..Width[j]
            BY <5>1
          <5>3. k = 2 * ((k + 1) \div 2) - 1 \/ k = 2 * ((k + 1) \div 2)
            BY <5>1
          <5> QED  BY <5>2, <5>3
        <4>3. A[D - j][m] = B[D - j][m]
          BY <4>1
        <4>4. /\ A[D - (j + 1)][2 * m - 1] = B[D - (j + 1)][2 * m - 1]
              /\ A[D - (j + 1)][2 * m] = B[D - (j + 1)][2 * m]
          <5>1. ParentHash(A[D - (j + 1)][2 * m - 1], A[D - (j + 1)][2 * m]) =
                ParentHash(B[D - (j + 1)][2 * m - 1], B[D - (j + 1)][2 * m])
            BY <2>4, <4>3
          <5> QED  BY <5>1, SameParents
        <4> QED  BY <4>2, <4>4
      <3> HIDE DEF Fine
      <3> QED  BY <3>1, <3>2, SetInduction
    <2>8. \A k \in 1..Width[D] : A[0][k] = B[0][k]
      <3>1. D \in Fine /\ D <= D /\ D - D = 0
        BY <2>1, <2>7
      <3> QED  BY <3>1
    <2>9. \A k \in 1..Width[D] : /\ k \in DOMAIN a <=> k \in DOMAIN b
                                 /\ k \in DOMAIN a => a[k] = b[k]
      BY <2>5, <2>8, DigestKinds
    <2>10. Len(a) = Len(b)
      <3>1. ~(Len(a) < Len(b))
        <4> SUFFICES ASSUME Len(a) < Len(b) PROVE FALSE
          OBVIOUS
        <4>1. Len(b) \in 1..Width[D] /\ Len(b) \in DOMAIN b /\ Len(b) \notin DOMAIN a
          BY <2>6
        <4> QED  BY <2>9, <4>1
      <3>2. ~(Len(b) < Len(a))
        <4> SUFFICES ASSUME Len(b) < Len(a) PROVE FALSE
          OBVIOUS
        <4>1. Len(a) \in 1..Width[D] /\ Len(a) \in DOMAIN a /\ Len(a) \notin DOMAIN b
          BY <2>6
        <4> QED  BY <2>9, <4>1
      <3> QED  BY <2>6, <3>1, <3>2, NeitherLess
    <2>11. \A k \in 1..Len(a) : a[k] = b[k]
      BY <2>6, <2>9
    <2>12. a = [k \in 1..Len(a) |-> a[k]] /\ b = [k \in 1..Len(b) |-> b[k]]
      BY DEF LineLeaves
    <2> QED  BY <2>10, <2>11, <2>12
  <1> QED  BY <1>1, <1>2

------------------------------------------------------------------------------
(* Exports.  They read the log and write nothing to it.                      *)

\* A log that bundles are exported from is a log: what was proved of appends
\* and crashes holds with exports beside them.
THEOREM ExportsOnlyRead == ExportSpec => LogSpec
  <1>1. ExportInit => LogInit
    BY DEF ExportInit
  <1>2. [ExportNext]_exportVars => [LogNext]_logVars
    BY DEF ExportNext, exportVars, BeginExport, FinishExport
  <1> QED  BY <1>1, <1>2, PTL DEF ExportSpec, LogSpec

LEMMA LineHashesFacts ==
    ASSUME LogTypeOK
    PROVE  /\ LineLeaves(LineHashes)
           /\ Len(LineHashes) = Len(text) /\ DOMAIN LineHashes = DOMAIN text
           /\ \A k \in DOMAIN text : LineHashes[k] = Digest(text[k][1].line)
  <1>1. Len(text) \in Nat /\ DOMAIN text = 1..Len(text)
    BY RawLines
  <1>2. /\ DOMAIN LineHashes = 1..Len(text)
        /\ LineHashes = [k \in 1..Len(text) |-> LineHashes[k]]
        /\ \A k \in DOMAIN text : LineHashes[k] = Digest(text[k][1].line)
    BY <1>1 DEF LineHashes
  <1>3. Len(LineHashes) = Len(text)
    BY <1>1, <1>2, MadeLength
  <1> QED  BY <1>1, <1>2, <1>3 DEF LineLeaves

\* The lines some leaves are the digests of.
LinesOf(lines, leaves) == \A l : l \in lines <=> \E k \in DOMAIN leaves : leaves[k] = Digest(l)
ProofOf(proof, leaves) == \E place \in DOMAIN leaves : proof = ProveInclusion(leaves, leaves[place])

\* The bundle was made of one reading of the log, and as long as the log verifies
\* that is how it still begins.
BundleOf(leaves) ==
    /\ LineLeaves(leaves)
    /\ bundle.tree_head = [merkle_root |-> MerkleRoot(leaves), leaf_count |-> Len(leaves)]
    /\ LinesOf(bundle.lines, leaves)
    /\ ProofOf(bundle.proof, leaves)
    /\ VerifyLogChain =>
          \A k \in DOMAIN leaves : k \in DOMAIN text /\ leaves[k] = Digest(text[k][1].line)

ExportInv ==
    /\ exporting # None => \E leaves : LineLeaves(leaves) /\ ProofOf(exporting.proof, leaves)
    /\ bundle # None => \E leaves : BundleOf(leaves)

LEMMA ProofRoot ==
    ASSUME NEW proof, NEW leaves, ProofOf(proof, leaves)
    PROVE  proof.root = MerkleRoot(leaves)
  BY DEF ProofOf, ProveInclusion

LEMMA ExportInvNext ==
    LogInv /\ LogInv' /\ ExportInv /\ [ExportNext]_exportVars => ExportInv'
  <1> SUFFICES ASSUME LogInv, LogInv', ExportInv, [ExportNext]_exportVars
               PROVE  ExportInv'
    OBVIOUS
  <1>1. CASE LogNext /\ UNCHANGED <<exporting, bundle>>
    <2>1. ASSUME NEW leaves, BundleOf(leaves) PROVE BundleOf(leaves)'
      <3>1. ASSUME VerifyLogChain', NEW k \in DOMAIN leaves
            PROVE  k \in DOMAIN text' /\ leaves[k] = Digest(text'[k][1].line)
        <4>1. VerifyLogChain
          BY <1>1, <3>1, BreakStep
        <4>2. \A j \in DOMAIN text : j \in DOMAIN text' /\ text'[j] = text[j]
          BY <1>1, <3>1, Extends DEF VerifyLogChain
        <4> QED  BY <2>1, <3>1, <4>1, <4>2 DEF BundleOf
      <3> QED  BY <1>1, <2>1, <3>1 DEF BundleOf
    <2> QED  BY <1>1, <2>1 DEF ExportInv
  <1>2. ASSUME UNCHANGED <<logVars, bundle>>, NEW leaves, BundleOf(leaves)
        PROVE  BundleOf(leaves)'
    BY <1>2 DEF BundleOf, logVars, VerifyLogChain, Readable, Chained, Previous
  <1>3. ASSUME NEW line \in DOMAIN sealed, BeginExport(line) PROVE ExportInv'
    <2>1. PICK k \in DOMAIN text : text[k][1].line = line
      BY <1>3 DEF BeginExport, LineInLog
    <2>2. exporting'.proof = ProveInclusion(LineHashes, Digest(line))
      BY <1>3 DEF BeginExport
    <2>3. /\ LineLeaves(LineHashes) /\ k \in DOMAIN LineHashes
          /\ LineHashes[k] = Digest(line)
      BY <2>1, LineHashesFacts DEF LogInv
    <2>4. ProofOf(exporting'.proof, LineHashes)
      BY <2>2, <2>3 DEF ProofOf
    <2>5. \E leaves : LineLeaves(leaves) /\ ProofOf(exporting'.proof, leaves)
      BY <2>3, <2>4
    <2>6. UNCHANGED <<logVars, bundle>>
      BY <1>3 DEF BeginExport
    <2> QED  BY <1>2, <2>5, <2>6 DEF ExportInv
  <1>4. CASE FinishExport
    <2>1. exporting' = None /\ UNCHANGED logVars /\ exporting # None
      BY <1>4 DEF FinishExport
    <2>2. CASE VerifyLogChain /\ RootsAgree(exporting.proof, TreeHead)
      <3>1. bundle' = [line |-> exporting.line, proof |-> exporting.proof,
                       tree_head |-> TreeHead, lines |-> {text[k][1].line : k \in DOMAIN text}]
        BY <1>4, <2>2 DEF FinishExport
      <3>2. PICK leaves : LineLeaves(leaves) /\ ProofOf(exporting.proof, leaves)
        BY <2>1 DEF ExportInv
      <3>3. /\ LineLeaves(LineHashes)
            /\ Len(LineHashes) = Len(text) /\ DOMAIN LineHashes = DOMAIN text
            /\ \A k \in DOMAIN text : LineHashes[k] = Digest(text[k][1].line)
        BY LineHashesFacts DEF LogInv
      <3>4. leaves = LineHashes
        <4>1. MerkleRoot(leaves) = MerkleRoot(LineHashes)
          BY <2>2, <3>2, ProofRoot DEF RootsAgree, TreeHead
        <4> QED  BY <3>2, <3>3, <4>1, RootPinsLeaves
      <3>5. /\ bundle'.tree_head = [merkle_root |-> MerkleRoot(leaves), leaf_count |-> Len(leaves)]
            /\ ProofOf(bundle'.proof, leaves)
        BY <3>1, <3>2, <3>3, <3>4 DEF TreeHead
      <3>6. LinesOf(bundle'.lines, leaves)
        <4>1. bundle'.lines = {text[k][1].line : k \in DOMAIN text}
          BY <3>1
        <4>2. \A l : \A k \in DOMAIN text : LineHashes[k] = Digest(l) <=> text[k][1].line = l
          BY <3>3, DigestKinds
        <4> QED  BY <3>3, <3>4, <4>1, <4>2 DEF LinesOf
      <3>7. \A k \in DOMAIN leaves : k \in DOMAIN text' /\ leaves[k] = Digest(text'[k][1].line)
        BY <2>1, <3>3, <3>4 DEF logVars
      <3>8. BundleOf(leaves)'
        BY <3>2, <3>5, <3>6, <3>7 DEF BundleOf
      <3> QED  BY <2>1, <3>8 DEF ExportInv
    <2>3. CASE ~(VerifyLogChain /\ RootsAgree(exporting.proof, TreeHead))
      <3>1. UNCHANGED bundle
        BY <1>4, <2>3 DEF FinishExport
      <3> QED  BY <1>2, <2>1, <3>1 DEF ExportInv
    <2> QED  BY <2>2, <2>3
  <1>5. CASE UNCHANGED exportVars
    <2>1. UNCHANGED <<logVars, bundle>> /\ UNCHANGED exporting
      BY <1>5 DEF exportVars
    <2> QED  BY <1>2, <2>1 DEF ExportInv
  <1> QED  BY <1>1, <1>3, <1>4, <1>5 DEF ExportNext

LEMMA ExportInvCorrect == ExportSpec => [](LogInv /\ ExportInv)
  <1>1. ExportInit => ExportInv
    BY DEF ExportInit, ExportInv
  <1>2. ExportSpec => []LogInv
    BY ExportsOnlyRead, LogInvCorrect, PTL
  <1> QED  BY <1>1, <1>2, ExportInvNext, PTL DEF ExportSpec

\* The proof of an exported bundle checks against its tree head.
LEMMA MadeProofChecks ==
    ASSUME NEW proof, NEW leaves, LineLeaves(leaves), ProofOf(proof, leaves)
    PROVE  RecomputeRoot(proof) = proof.root /\ proof.root = MerkleRoot(leaves)
  BY ProvedChecks DEF ProofOf

\* What leaves the store is good forever where there is no log, however many
\* lines the log has, and whatever came to it between the two readings.
THEOREM ExportsCheck == ExportSpec => []ExportedBundleChecks
  <1>1. ExportInv => ExportedBundleChecks
    <2> SUFFICES ASSUME ExportInv, bundle # None
                 PROVE  /\ RootsAgree(bundle.proof, bundle.tree_head)
                        /\ CheckInclusionProof(bundle.proof, bundle.tree_head.merkle_root)
      BY DEF ExportedBundleChecks
    <2>1. PICK leaves : BundleOf(leaves)
      BY DEF ExportInv
    <2>2. /\ RecomputeRoot(bundle.proof) = bundle.proof.root
          /\ bundle.proof.root = MerkleRoot(leaves)
      BY <2>1, MadeProofChecks DEF BundleOf
    <2>3. bundle.tree_head.merkle_root = MerkleRoot(leaves)
      BY <2>1 DEF BundleOf
    <2> QED  BY <2>2, <2>3 DEF RootsAgree, CheckInclusionProof
  <1> QED  BY <1>1, ExportInvCorrect, PTL

\* A proof and a tree head go together only if they are of the same log.
THEOREM ProofsPin == ExportSpec => []ProofsPinOneLog
  <1>1. LogInv /\ ExportInv => ProofsPinOneLog
    <2> SUFFICES ASSUME LogInv, ExportInv, bundle # None, VerifyLogChain
                 PROVE  /\ CheckInclusionProof(bundle.proof, TreeHead.merkle_root) <=>
                              bundle.lines = {text[k][1].line : k \in DOMAIN text}
                        /\ \A k \in DOMAIN text :
                              CheckInclusionProof(ProveInclusion(LineHashes, LineHashes[k]),
                                                  bundle.tree_head.merkle_root)
                                 => bundle.tree_head.leaf_count = Len(text)
      BY DEF ProofsPinOneLog
    <2> DEFINE today == {text[k][1].line : k \in DOMAIN text}
    <2>1. PICK leaves : BundleOf(leaves)
      BY DEF ExportInv
    <2>2. /\ RecomputeRoot(bundle.proof) = bundle.proof.root
          /\ bundle.proof.root = MerkleRoot(leaves)
          /\ bundle.tree_head.merkle_root = MerkleRoot(leaves)
          /\ bundle.tree_head.leaf_count = Len(leaves)
          /\ LineLeaves(leaves) /\ LinesOf(bundle.lines, leaves)
          /\ \A k \in DOMAIN leaves : k \in DOMAIN text /\ leaves[k] = Digest(text[k][1].line)
      BY <2>1, MadeProofChecks DEF BundleOf
    <2>3. /\ LineLeaves(LineHashes)
          /\ Len(LineHashes) = Len(text) /\ DOMAIN LineHashes = DOMAIN text
          /\ \A k \in DOMAIN text : LineHashes[k] = Digest(text[k][1].line)
      BY LineHashesFacts DEF LogInv
    <2>4. MerkleRoot(leaves) = MerkleRoot(LineHashes) <=> leaves = LineHashes
      BY <2>2, <2>3, RootPinsLeaves
    <2>5. leaves = LineHashes => bundle.lines = today
      <3> SUFFICES ASSUME leaves = LineHashes PROVE bundle.lines = today
        OBVIOUS
      <3>1. \A l : \A k \in DOMAIN text : LineHashes[k] = Digest(l) <=> text[k][1].line = l
        BY <2>3, DigestKinds
      <3>2. \A l : l \in bundle.lines <=> l \in today
        BY <2>2, <2>3, <3>1 DEF LinesOf
      <3> QED  BY <3>2
    <2>6. bundle.lines = today => leaves = LineHashes
      <3> SUFFICES ASSUME bundle.lines = today PROVE leaves = LineHashes
        OBVIOUS
      <3>1. ASSUME NEW k \in DOMAIN text PROVE k \in DOMAIN leaves
        <4>1. text[k][1].line \in bundle.lines
          OBVIOUS
        <4>2. PICK j \in DOMAIN leaves : leaves[j] = Digest(text[k][1].line)
          BY <2>2, <4>1 DEF LinesOf
        <4>3. j \in DOMAIN text /\ text[j][1].line = text[k][1].line
          BY <2>2, <4>2, DigestKinds
        <4>4. j = k
          BY <4>3 DEF LogInv, WrittenOnce, VerifyLogChain
        <4> QED  BY <4>4
      <3>2. DOMAIN leaves = DOMAIN LineHashes
        BY <2>2, <2>3, <3>1
      <3>3. /\ leaves = [k \in DOMAIN leaves |-> leaves[k]]
            /\ LineHashes = [k \in DOMAIN LineHashes |-> LineHashes[k]]
        BY <2>2, <2>3, LeavesFacts DEF LineLeaves
      <3>4. \A k \in DOMAIN leaves : leaves[k] = LineHashes[k]
        BY <2>2, <2>3
      <3> QED  BY <3>2, <3>3, <3>4
    <2>7. CheckInclusionProof(bundle.proof, TreeHead.merkle_root) <=> leaves = LineHashes
      BY <2>2, <2>4 DEF CheckInclusionProof, TreeHead
    <2>8. ASSUME NEW k \in DOMAIN text,
                 CheckInclusionProof(ProveInclusion(LineHashes, LineHashes[k]),
                                     bundle.tree_head.merkle_root)
          PROVE  bundle.tree_head.leaf_count = Len(text)
      <3>1. ProofOf(ProveInclusion(LineHashes, LineHashes[k]), LineHashes)
        BY <2>3 DEF ProofOf
      <3>2. MerkleRoot(LineHashes) = MerkleRoot(leaves)
        BY <2>2, <2>8, <3>1, ProofRoot DEF CheckInclusionProof
      <3> QED  BY <2>2, <2>3, <2>4, <3>2
    <2> QED  BY <2>5, <2>6, <2>7, <2>8
  <1> QED  BY <1>1, ExportInvCorrect, PTL

------------------------------------------------------------------------------
(* Bundles that are accepted.                                                *)

LEMMA CutLength ==
    ASSUME NEW proof, NEW leaves, LineLeaves(leaves), ProofOf(proof, leaves)
    PROVE  /\ Len(proof.sibling_hashes) \in Nat
           /\ \A d \in 0..Len(proof.sibling_hashes) :
                 Len(SubSeq(proof.sibling_hashes, d + 1, Len(proof.sibling_hashes))) \in Nat
  <1> DEFINE s == proof.sibling_hashes
             D == Depth(Len(leaves))
  <1>1. D \in Nat
    BY LeavesFacts
  <1>2. DOMAIN s = 1..D /\ s = [d \in 1..D |-> s[d]]
    <2>1. PICK index : s = SiblingHashes(leaves, index)
      BY DEF ProofOf, ProveInclusion
    <2> QED  BY <2>1 DEF SiblingHashes
  <1> DEFINE S == {s[d] : d \in 1..D}
  <1> HIDE DEF s, D
  <1>3. Len(s) = D
    BY <1>1, <1>2, MadeLength
  <1>4. s \in Seq(S)
    BY <1>1, <1>2
  <1> HIDE DEF S
  <1>5. ASSUME NEW d \in 0..D PROVE Len(SubSeq(s, d + 1, D)) \in Nat
    <2>1. d + 1 \in 1..(Len(s) + 1) /\ D \in (d + 1) - 1 .. Len(s)
      BY <1>1, <1>3
    <2>2. SubSeq(s, d + 1, D) \in Seq(S)
      BY <1>4, <2>1, SubSeqProperties
    <2> QED  BY <2>2
  <1> QED  BY <1>1, <1>3, <1>5 DEF s

\* However the pieces of exported bundles are mixed, cut or edited, what is
\* accepted says what a line of that log says.
THEOREM AcceptedWhole == ExportSpec => []AcceptedBundleIsWhole
  <1>1. LogInv /\ ExportInv => AcceptedBundleIsWhole
    <2> SUFFICES ASSUME LogInv, ExportInv, bundle # None,
                        NEW h \in Heads, NEW proof \in EditedProofs,
                        CheckInclusionProof(proof, h.head.merkle_root),
                        NEW document \in Documents, AcceptBundle(document, proof, h.head)
                 PROVE  document.says \in h.lines
      BY DEF AcceptedBundleIsWhole
    <2>1. PICK exported : BundleOf(exported)
      BY DEF ExportInv
    <2>2. /\ LineLeaves(LineHashes) /\ DOMAIN LineHashes = DOMAIN text
          /\ \A k \in DOMAIN text : LineHashes[k] = Digest(text[k][1].line)
      BY LineHashesFacts DEF LogInv
    <2>3. PICK leaves : /\ LineLeaves(leaves) /\ LinesOf(h.lines, leaves)
                        /\ h.head.merkle_root = MerkleRoot(leaves)
      <3>1. CASE h = [head |-> bundle.tree_head, lines |-> bundle.lines]
        BY <2>1, <3>1 DEF BundleOf
      <3>2. CASE h = [head |-> TreeHead, lines |-> Today]
        <4>1. \A l : \A k \in DOMAIN text : LineHashes[k] = Digest(l) <=> text[k][1].line = l
          BY <2>2, DigestKinds
        <4>2. LinesOf(Today, LineHashes)
          BY <2>2, <4>1 DEF LinesOf, Today
        <4>3. h.lines = Today /\ h.head.merkle_root = MerkleRoot(LineHashes)
          BY <3>2 DEF TreeHead
        <4> QED  BY <2>2, <4>2, <4>3
      <3> QED  BY <3>1, <3>2 DEF Heads
    <2>4. ASSUME NEW p \in Proofs PROVE \E made : LineLeaves(made) /\ ProofOf(p, made)
      <3>1. CASE p = bundle.proof
        BY <2>1, <3>1 DEF BundleOf
      <3>2. CASE \E k \in DOMAIN text : p = ProveInclusion(LineHashes, LineHashes[k])
        BY <2>2, <3>2 DEF ProofOf
      <3> QED  BY <3>1, <3>2 DEF Proofs
    <2>5. Len(proof.sibling_hashes) \in Nat
      <3>1. PICK p \in Proofs :
               \/ \E d \in 0..Len(p.sibling_hashes) : proof = Above(p, d)
               \/ proof \in Rewritten(p)
        BY DEF EditedProofs
      <3>2. PICK made : LineLeaves(made) /\ ProofOf(p, made)
        BY <2>4
      <3>3. DOMAIN p = {"line_hash", "leaf_index", "sibling_hashes", "root"}
        BY <3>2 DEF ProofOf, ProveInclusion
      <3>4. ASSUME NEW d \in 0..Len(p.sibling_hashes), proof = Above(p, d)
            PROVE  Len(proof.sibling_hashes) \in Nat
        <4>1. proof.sibling_hashes = SubSeq(p.sibling_hashes, d + 1, Len(p.sibling_hashes))
          BY <3>3, <3>4 DEF Above
        <4> QED  BY <3>2, <4>1, CutLength
      <3>5. ASSUME proof \in Rewritten(p)
            PROVE  Len(proof.sibling_hashes) \in Nat
        <4>1. proof.sibling_hashes = p.sibling_hashes
          BY <3>3, <3>5 DEF Rewritten
        <4> QED  BY <3>2, <4>1, CutLength
      <3> QED  BY <3>1, <3>4, <3>5
    <2>6. /\ proof.line_hash = Digest(document.line) /\ document.says = document.line
          /\ RecomputeRoot(proof) = MerkleRoot(leaves)
      BY <2>3 DEF AcceptBundle, DocumentAgrees, LineHashHolds, CheckInclusionProof
    <2>7. \E k \in DOMAIN leaves : leaves[k] = Digest(document.line)
      BY <2>3, <2>5, <2>6, OnlyLeavesCheck
    <2> QED  BY <2>3, <2>6, <2>7 DEF LinesOf
  <1> QED  BY <1>1, ExportInvCorrect, PTL
==============================================================================
