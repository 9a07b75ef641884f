----------------------------- MODULE RuntimeCheck -----------------------------
(***************************************************************************)
(* The gate in front of a tool, and the hosts it asks.                     *)
(*                                                                         *)
(* A host serves one connection at a time, in the order they were made,    *)
(* with no thread of its own for any.  An agent process reads lines; for   *)
(* each act a line covers it makes four requests, each on a connection of  *)
(* its own: the well-known document, a verifier challenge, the document    *)
(* again, the check.  A host asked for POST /runtime-check makes the same  *)
(* four requests before it answers, so it may be waiting for another host, *)
(* for one that waits for it, or for itself.  What ends every wait is the  *)
(* five seconds a client or a host waits for bytes.                        *)
(*                                                                         *)
(* Between any two requests an act may die, the challenge may expire, the  *)
(* host may start again (its connections and challenges are gone, and its  *)
(* document may be another), and connections that send nothing may come.   *)
(* What a host decides of a presentation is VerifierStore's subject: here  *)
(* an act is dead on a host from some time on.                             *)
(***************************************************************************)
EXTENDS Naturals, Sequences, SequencesExt, FiniteSets

CONSTANTS
    Hosts, Agents,
    Base,                      \* the host each agent process is bound to
    Acts,
    FirstAct,                  \* the act every agent process starts with
    Documents, OtherBind,      \* well-known documents; OtherBind names another host
    FirstDocument, NoDocument,
    Nobody,                    \* the far end of a connection nobody waits on
    \* bounds: acts a process holds; what a behaviour spends on lines read, and on
    \* what happens from outside (visits, deaths, host starts, expired challenges)
    MaxHeld, LineCost, EventCost, MaxCost

Clients == Agents \union Hosts

ASSUME RuntimeCheckAssumption ==
    /\ Base \in [Agents -> Hosts]
    /\ Agents \intersect Hosts = {} /\ Nobody \notin Clients
    /\ FirstAct \in Acts
    /\ FirstDocument \in Documents \ {OtherBind} /\ NoDocument \notin Documents

VARIABLES
    dead,        \* the acts each host refuses for good
    document,    \* the well-known document each host gives out
    queue,       \* the connections each host has not served, in order
    reading,     \* is the host waiting for the bytes of a request?
    client,      \* what each client is doing: an agent, or a host for another
    held,        \* the acts of each agent process
    outcome,     \* the last gate line of each agent process
    spent,       \* so far of MaxCost
    \* history
    covers, granted, before,   \* see ToolGate
    followed     \* the documents each agent's acts were granted under

lines == <<held, outcome, covers, before>>
rcVars == <<dead, document, queue, reading, client, lines, spent, granted, followed>>

\* pinned is kept for the life of an agent process; a host pins per request.
Resting(pinned) ==
    [step |-> "idle", waiting |-> FALSE, base |-> Nobody, todo |-> <<>>,
     loaded |-> NoDocument, pinned |-> pinned, fresh |-> FALSE, proof |-> FALSE]

Checking(base, todo, pinned) ==
    [Resting(pinned) EXCEPT !.step = "document", !.base = base, !.todo = todo]

Busy(c) == client[c].step # "idle"
Act(c) == Head(client[c].todo)

Spend(cost) == spent + cost <= MaxCost /\ spent' = spent + cost

------------------------------------------------------------------------------
(* An agent process: its lines.                                              *)

Open(p, acts) ==
    /\ covers' = [covers EXCEPT ![p] = ToSet(acts)]
    /\ granted' = [granted EXCEPT ![p] = {}]
    /\ before' = [before EXCEPT ![p] = dead[Base[p]]]

\* Mutant of ReadLine: an allow is good for the next line too.
ReadLineOnOldAllow(p) ==
    /\ ~Busy(p)
    /\ Spend(LineCost)
    /\ Open(p, held[p])
    /\ client' = [client EXCEPT ![p] =
           IF outcome[p] = "ALLOWED"
           THEN [Checking(Base[p], <<held[p][1]>>, @.pinned) EXCEPT !.step = "allowed"]
           ELSE Checking(Base[p], held[p], @.pinned)]
    /\ UNCHANGED <<dead, document, queue, reading, held, outcome, followed>>

\* before_next_tool: an unnamed line covers every act the process holds.
ReadLine(p) ==
    /\ ~Busy(p)
    /\ Spend(LineCost)
    /\ Open(p, held[p])
    /\ client' = [client EXCEPT ![p] = Checking(Base[p], held[p], @.pinned)]
    /\ UNCHANGED <<dead, document, queue, reading, held, outcome, followed>>

\* before_named_act: one act, counted from one; one it does not hold is refused.
ReadNamedLine(p, n) ==
    /\ ~Busy(p)
    /\ Spend(LineCost)
    /\ IF n \in DOMAIN held[p]
       THEN /\ Open(p, <<held[p][n]>>)
            /\ client' = [client EXCEPT ![p] = Checking(Base[p], <<held[p][n]>>, @.pinned)]
       ELSE /\ Open(p, <<>>)
            /\ client' = [client EXCEPT ![p].step = "refused"]
    /\ UNCHANGED <<dead, document, queue, reading, held, outcome, followed>>

AddAct(p, a) ==
    /\ ~Busy(p)
    /\ Len(held[p]) < MaxHeld
    /\ held' = [held EXCEPT ![p] = Append(@, a)]
    /\ UNCHANGED <<dead, document, queue, reading, client, outcome, spent,
                   covers, granted, before, followed>>

------------------------------------------------------------------------------
(* A client: one exchange after the other.                                   *)

Exchanges == {"document", "challenge", "document again", "check"}

\* exchange: connect, send the request, wait for the answer.
Send(c) ==
    /\ client[c].step \in Exchanges /\ ~client[c].waiting
    /\ client' = [client EXCEPT ![c].waiting = TRUE]
    /\ queue' = [queue EXCEPT ![client[c].base] =
           Append(@, [client |-> c, ask |-> client[c].step])]
    /\ UNCHANGED <<dead, document, reading, lines, spent, granted, followed>>

\* The connection is left behind: the host will still serve it.
Leave(q, c) == [n \in DOMAIN q |-> IF q[n].client = c THEN [q[n] EXCEPT !.client = Nobody] ELSE q[n]]

\* Mutant of GiveUp: only an agent process gives up.
AgentGivesUp(c) ==
    /\ c \in Agents
    /\ client[c].waiting
    /\ client' = [client EXCEPT ![c].step = "refused", ![c].waiting = FALSE]
    /\ queue' = [queue EXCEPT ![client[c].base] = Leave(@, c)]
    /\ UNCHANGED <<dead, document, reading, lines, spent, granted, followed>>

\* No answer in five seconds, no connection, or no answer that parses: the
\* error ends the check.
GiveUp(c) ==
    /\ client[c].waiting
    /\ client' = [client EXCEPT ![c].step = "refused", ![c].waiting = FALSE]
    /\ queue' = [queue EXCEPT ![client[c].base] = Leave(@, c)]
    /\ UNCHANGED <<dead, document, reading, lines, spent, granted, followed>>

\* What the caller's signer returns: a signature over the challenge or some
\* other (the helper cannot tell), or an error.
Sign(c) ==
    /\ client[c].step = "sign"
    /\ \/ \E valid \in BOOLEAN :
             client' = [client EXCEPT ![c].step = "document again", ![c].proof = valid]
       \/ client' = [client EXCEPT ![c].step = "refused"]
    /\ UNCHANGED <<dead, document, queue, reading, lines, spent, granted, followed>>

\* An allow is not kept: what remains of the line is asked in full.
NextAct(c) ==
    /\ client[c].step = "allowed" /\ Len(client[c].todo) > 1
    /\ client' = [client EXCEPT ![c] = Checking(@.base, Tail(@.todo), @.pinned)]
    /\ UNCHANGED <<dead, document, queue, reading, lines, spent, granted, followed>>

\* run_tool_only_when_allowed; a host answers the connection that asked it.
Finish(c) ==
    /\ \/ client[c].step = "allowed" /\ Len(client[c].todo) = 1
       \/ client[c].step = "refused"
    /\ IF c \in Agents
       THEN /\ outcome' = [outcome EXCEPT ![c] =
                   IF client[c].step = "allowed" THEN "ALLOWED" ELSE "REFUSED"]
            /\ client' = [client EXCEPT ![c] = Resting(@.pinned)]
       ELSE /\ client' = [client EXCEPT ![c] = Resting(NoDocument)]
            /\ UNCHANGED outcome
    /\ UNCHANGED <<dead, document, queue, reading, held, spent, covers, granted,
                   before, followed>>

------------------------------------------------------------------------------
(* A host: one connection after the other.                                   *)

Accepting(h) == ~Busy(h) /\ ~reading[h]

Serve(h, ask) ==
    /\ Accepting(h)
    /\ queue[h] # <<>> /\ Head(queue[h]).ask = ask
    /\ queue' = [queue EXCEPT ![h] = Tail(@)]

Asker(h) == Head(queue[h]).client

\* The answer reaches the client that waits for it, and nobody otherwise.
Reply(c, next) ==
    client' = IF c = Nobody THEN client
              ELSE [client EXCEPT ![c] = [next EXCEPT !.waiting = FALSE]]

\* Mutant of PinOrRefuse: whatever is read is what is pinned.
PinLatest(c, doc) == TRUE

\* pin_or_refuse_well_known: the first document is pinned, another refused.
PinOrRefuse(c, doc) == client[c].pinned \in {NoDocument, doc}

\* load_document
LoadDocument(c, doc, step) ==
    IF c = Nobody THEN client
    ELSE LET bound == doc # OtherBind
             pinned == IF bound /\ client[c].pinned = NoDocument THEN doc
                       ELSE client[c].pinned
         IN  [client EXCEPT ![c].waiting = FALSE, ![c].pinned = pinned, ![c].loaded = doc,
                            ![c].step = IF bound /\ PinOrRefuse(c, doc) THEN step
                                        ELSE "refused"]

ServeDocument(h) ==
    /\ \/ Serve(h, "document") /\ client' = LoadDocument(Asker(h), document[h], "challenge")
       \/ Serve(h, "document again") /\ client' = LoadDocument(Asker(h), document[h], "check")
    /\ UNCHANGED <<dead, document, reading, lines, spent, granted, followed>>

ServeChallenge(h) ==
    /\ Serve(h, "challenge")
    /\ Reply(Asker(h), [client[Asker(h)] EXCEPT !.step = "sign", !.fresh = TRUE])
    /\ UNCHANGED <<dead, document, reading, lines, spent, granted, followed>>

\* Mutant of AllowedAnswer: the status alone is looked at.
AllowedStatus(status, result) == status = 200

\* check_decision_from_http_response: status and body must both say so.
AllowedAnswer(status, result) == status = 200 /\ result = "allowed"

\* POST /check-svid or /check-wimse; between host and client a proxy may put a
\* status of its own in front of the body, or leave the body out.
ServeCheck(h) ==
    LET c == Asker(h)
        allowed == /\ client[c].fresh /\ client[c].proof
                   /\ Act(c) \notin dead[h]
        sent == IF allowed THEN "allowed" ELSE "refused"
        grants == c \in Agents /\ allowed
    IN  /\ Serve(h, "check")
        /\ IF c = Nobody THEN UNCHANGED <<client, granted, followed>>
           ELSE /\ \E status \in {200, 403, 502}, result \in {sent, "none"} :
                      client' = [client EXCEPT ![c].waiting = FALSE, ![c].fresh = FALSE,
                          ![c].step = IF AllowedAnswer(status, result) THEN "allowed"
                                      ELSE "refused"]
                /\ granted' = IF grants THEN [granted EXCEPT ![c] = @ \union {Act(c)}]
                              ELSE granted
                /\ followed' = IF grants
                               THEN [followed EXCEPT ![c] = @ \union {client[c].loaded}]
                               ELSE followed
        /\ UNCHANGED <<dead, document, reading, lines, spent>>

\* POST /runtime-check: the host is a client until the check is decided.
ServeRuntimeCheck(h) ==
    /\ Serve(h, "runtime")
    /\ client' = [client EXCEPT ![h] =
           Checking(Head(queue[h]).base, <<Head(queue[h]).act>>, NoDocument)]
    /\ UNCHANGED <<dead, document, reading, lines, spent, granted, followed>>

\* read_http_request: the host reads a connection that sends nothing.
ServeSilence(h) ==
    /\ Serve(h, "nothing")
    /\ reading' = [reading EXCEPT ![h] = TRUE]
    /\ UNCHANGED <<dead, document, client, lines, spent, granted, followed>>

ReadTimeout(h) ==
    /\ reading[h]
    /\ reading' = [reading EXCEPT ![h] = FALSE]
    /\ UNCHANGED <<dead, document, queue, client, lines, spent, granted, followed>>

------------------------------------------------------------------------------
(* What happens to a host from outside.                                      *)

\* An operator asks for a runtime check against some host, this one included,
\* or somebody connects and sends nothing.
Visit(h) ==
    /\ Spend(EventCost)
    /\ \E request \in [client : {Nobody}, ask : {"runtime"}, base : Hosts, act : {FirstAct}]
                          \union {[client |-> Nobody, ask |-> "nothing"]} :
          queue' = [queue EXCEPT ![h] = Append(@, request)]
    /\ UNCHANGED <<dead, document, reading, client, lines, granted, followed>>

\* A kill, a seal or a key's date is accepted there, or the presentation expires.
Die(h, a) ==
    /\ Spend(EventCost)
    /\ dead' = [dead EXCEPT ![h] = @ \union {a}]
    /\ UNCHANGED <<document, queue, reading, client, lines, granted, followed>>

ChallengeExpires(c) ==
    /\ client[c].fresh
    /\ Spend(EventCost)
    /\ client' = [client EXCEPT ![c].fresh = FALSE]
    /\ UNCHANGED <<dead, document, queue, reading, lines, granted, followed>>

\* The connections are reset and the challenges forgotten.
Restart(h, doc) ==
    /\ Spend(EventCost)
    /\ document' = [document EXCEPT ![h] = doc]
    /\ queue' = [g \in Hosts |-> IF g = h THEN <<>> ELSE Leave(queue[g], h)]
    /\ reading' = [reading EXCEPT ![h] = FALSE]
    /\ client' = [c \in Clients |->
           IF c = h THEN Resting(NoDocument)
           ELSE IF client[c].base = h THEN [client[c] EXCEPT !.fresh = FALSE] ELSE client[c]]
    /\ UNCHANGED <<dead, lines, granted, followed>>

------------------------------------------------------------------------------

RCInit ==
    /\ dead = [h \in Hosts |-> {}]
    /\ document = [h \in Hosts |-> FirstDocument]
    /\ queue = [h \in Hosts |-> <<>>]
    /\ reading = [h \in Hosts |-> FALSE]
    /\ client = [c \in Clients |-> Resting(NoDocument)]
    /\ held = [p \in Agents |-> <<FirstAct>>]
    /\ outcome = [p \in Agents |-> "closed"]
    /\ spent = 0
    /\ covers = [p \in Agents |-> {}] /\ granted = [p \in Agents |-> {}]
    /\ before = [p \in Agents |-> {}] /\ followed = [p \in Agents |-> {}]

AgentNext(p) ==
    \/ ReadLine(p)
    \/ \E n \in 0..MaxHeld + 1 : ReadNamedLine(p, n)
    \/ \E a \in Acts : AddAct(p, a)

ClientNext(c) == Send(c) \/ Sign(c) \/ NextAct(c) \/ Finish(c)

HostNext(h) ==
    \/ ServeDocument(h) \/ ServeChallenge(h) \/ ServeCheck(h)
    \/ ServeRuntimeCheck(h) \/ ServeSilence(h) \/ ReadTimeout(h)

OutsideNext ==
    \/ \E h \in Hosts : Visit(h)
    \/ \E h \in Hosts, a \in Acts : Die(h, a)
    \/ \E c \in Clients : ChallengeExpires(c)
    \/ \E h \in Hosts, doc \in Documents : Restart(h, doc)

RCNext ==
    \/ \E p \in Agents : AgentNext(p)
    \/ \E c \in Clients : ClientNext(c) \/ GiveUp(c)
    \/ \E h \in Hosts : HostNext(h)
    \/ OutsideNext

\* A process that can take its next step takes it, and a socket's timeout ends
\* every wait.  Nothing is asked of whoever writes the lines or visits.
RCFairness ==
    /\ \A c \in Clients : WF_rcVars(ClientNext(c)) /\ WF_rcVars(GiveUp(c))
    /\ \A h \in Hosts : WF_rcVars(HostNext(h))

RCSpec == RCInit /\ [][RCNext]_rcVars /\ RCFairness

------------------------------------------------------------------------------
(* Properties.                                                               *)

\* A line is open from when it is read until it is answered.
Gate == INSTANCE ToolGate WITH
    gate <- [p \in Agents |-> IF Busy(p) THEN "open" ELSE outcome[p]]

\* The exchanges implement the promise of ToolGate, its liveness included.
ImplementsToolGate == Gate!GateSpec

\* An act that was dead when a line was read is not run on that line, although
\* the same act may have been allowed on the line before (before_next_tool: "Do
\* not cache allow.  Death is picked up without a restart").
DeathStopsNextLine == Gate!DeathStopsNextLine

\* A host that serves somebody else's runtime check, or waits for the bytes of
\* a request, comes back to its other connections, although the host it asks
\* may be waiting for it or be itself (exchange_raw_http, read_http_request).
HostComesBack == \A h \in Hosts : ~Accepting(h) ~> Accepting(h)

\* Every act an agent process was ever granted was granted under one and the
\* same document, whatever the host gave out at any time (pin_or_refuse_well_known).
OneDocumentForLife == \A p \in Agents : Cardinality(followed[p]) <= 1
==============================================================================
