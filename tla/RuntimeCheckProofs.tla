-------------------------- MODULE RuntimeCheckProofs ---------------------------
(***************************************************************************)
(* Proofs about RuntimeCheck, for any number of hosts, agent processes and *)
(* acts and every bound: the exchanges implement the safety half of        *)
(* ToolGate, so an act that is dead when a line is read does not run on    *)
(* it, and one agent process follows one document for life.                *)
(***************************************************************************)
EXTENDS RuntimeCheck, SequenceTheorems, FiniteSetTheorems, TLAPS

------------------------------------------------------------------------------
(* The inductive invariant.                                                  *)

Request ==
    [client : Clients \union {Nobody}, ask : Exchanges]
        \union [client : {Nobody}, ask : {"runtime"}, base : Hosts, act : Acts]
        \union [client : {Nobody}, ask : {"nothing"}]

Steps == Exchanges \union {"idle", "sign", "allowed", "refused"}

ClientState ==
    [step : Steps, waiting : BOOLEAN, base : Hosts \union {Nobody}, todo : Seq(Acts),
     loaded : Documents \union {NoDocument}, pinned : Documents \union {NoDocument},
     fresh : BOOLEAN, proof : BOOLEAN]

RCTypeOK ==
    /\ dead \in [Hosts -> SUBSET Acts]
    /\ document \in [Hosts -> Documents]
    /\ queue \in [Hosts -> Seq(Request)]
    /\ client \in [Clients -> ClientState]
    /\ held \in [Agents -> Seq(Acts) \ {<<>>}]
    /\ outcome \in [Agents -> {"closed", "ALLOWED", "REFUSED"}]
    /\ covers \in [Agents -> SUBSET Acts]
    /\ granted \in [Agents -> SUBSET Acts]
    /\ before \in [Agents -> SUBSET Acts]
    /\ followed \in [Agents -> SUBSET Documents]

\* A connection that an agent process waits on is the only one it has, and asks
\* for what the process is at.
OneConnection ==
    \A h \in Hosts : \A k \in DOMAIN queue[h] :
        queue[h][k].client \in Agents =>
            LET c == queue[h][k].client IN
            /\ client[c].waiting
            /\ client[c].step = queue[h][k].ask
            /\ client[c].base = h
            /\ \A j \in DOMAIN queue[h] : queue[h][j].client = c => j = k

\* What a line covers and was not granted since is still to be asked.
LineState(p) ==
    /\ client[p].waiting => client[p].step \in Exchanges
    /\ client[p].step \notin {"idle", "refused"} =>
          /\ client[p].base = Base[p]
          /\ client[p].todo # <<>>
          /\ covers[p] # {}
          /\ covers[p] \ granted[p] \subseteq ToSet(client[p].todo)
          /\ ToSet(client[p].todo) \subseteq covers[p]
    /\ client[p].step = "allowed" =>
          covers[p] \ granted[p] \subseteq ToSet(Tail(client[p].todo))
    /\ client[p].step = "idle" /\ outcome[p] = "ALLOWED" => covers[p] \subseteq granted[p]

\* What was dead when the line was read is dead, and was not granted since.
NotGranted(p) ==
    /\ before[p] \subseteq dead[Base[p]]
    /\ granted[p] \intersect before[p] = {}

\* What was granted was granted under the pinned document.
UnderPinned(p) ==
    /\ client[p].step = "check" => client[p].loaded = client[p].pinned
                                   /\ client[p].pinned # NoDocument
    /\ followed[p] \subseteq {client[p].pinned}

RCInv ==
    /\ RCTypeOK
    /\ OneConnection
    /\ \A p \in Agents : LineState(p) /\ NotGranted(p) /\ UnderPinned(p)

------------------------------------------------------------------------------
(* Facts about queues and lines.                                             *)

LEMMA HeadAndTail ==
    ASSUME NEW S, NEW s \in Seq(S), s # <<>>
    PROVE  /\ Head(s) \in S /\ Tail(s) \in Seq(S)
           /\ Head(s) = s[1] /\ 1 \in DOMAIN s
           /\ \A k \in DOMAIN Tail(s) : k + 1 \in DOMAIN s /\ Tail(s)[k] = s[k + 1]
           /\ \A k \in DOMAIN s : k # 1 => k - 1 \in DOMAIN Tail(s) /\ Tail(s)[k - 1] = s[k]
           /\ DOMAIN s \subseteq Nat \ {0} /\ DOMAIN Tail(s) \subseteq Nat \ {0}
           /\ Len(s) = 1 => Tail(s) = <<>>
           /\ Len(s) > 1 => Tail(s) # <<>>
  <1>1. /\ Len(s) \in Nat \ {0} /\ DOMAIN s = 1..Len(s)
        /\ Head(s) = s[1]
        /\ Tail(s) \in Seq(S) /\ Len(Tail(s)) = Len(s) - 1
        /\ DOMAIN Tail(s) = 1..(Len(s) - 1)
        /\ \A k \in 1..Len(Tail(s)) : Tail(s)[k] = s[k + 1]
    BY HeadTailProperties, EmptySeq, LenProperties
  <1>2. Head(s) \in S /\ 1 \in DOMAIN s
    BY <1>1
  <1>3. \A k \in DOMAIN Tail(s) : k + 1 \in DOMAIN s /\ Tail(s)[k] = s[k + 1]
    BY <1>1
  <1>4. \A k \in DOMAIN s : k # 1 => k - 1 \in DOMAIN Tail(s) /\ Tail(s)[k - 1] = s[k]
    BY <1>1
  <1>5. Len(s) = 1 => Tail(s) = <<>>
    BY <1>1, EmptySeq
  <1>6. Len(s) > 1 => Tail(s) # <<>>
    <2>1. Len(<<>>) = 0
      OBVIOUS
    <2>2. Tail(s) = <<>> => Len(Tail(s)) = 0
      BY <2>1, Zenon
    <2> QED  BY <1>1, <2>2
  <1> QED  BY <1>1, <1>2, <1>3, <1>4, <1>5, <1>6

LEMMA ElementsOfSeq ==
    ASSUME NEW S, NEW s \in Seq(S)
    PROVE  /\ ToSet(s) \subseteq S
           /\ s # <<>> => ToSet(s) # {} /\ ToSet(s) = {Head(s)} \union ToSet(Tail(s))
  <1>1. ToSet(s) \subseteq S
    BY DEF ToSet
  <1>2. ASSUME s # <<>>
        PROVE  ToSet(s) = {Head(s)} \union ToSet(Tail(s))
    <2>1. ASSUME NEW k \in DOMAIN s
          PROVE  s[k] \in {Head(s)} \union ToSet(Tail(s))
      <3>1. CASE k = 1
        BY <1>2, <3>1, HeadAndTail
      <3>2. CASE k # 1
        <4>1. k - 1 \in DOMAIN Tail(s) /\ Tail(s)[k - 1] = s[k]
          BY <1>2, <3>2, HeadAndTail
        <4>2. Tail(s)[k - 1] \in ToSet(Tail(s))
          BY <4>1 DEF ToSet
        <4> QED  BY <4>1, <4>2
      <3> QED  BY <3>1, <3>2
    <2>2. Head(s) \in ToSet(s)
      BY <1>2, HeadAndTail DEF ToSet
    <2>3. ASSUME NEW k \in DOMAIN Tail(s)
          PROVE  Tail(s)[k] \in ToSet(s)
      BY <1>2, HeadAndTail DEF ToSet
    <2>4. ToSet(s) \subseteq {Head(s)} \union ToSet(Tail(s))
      BY <2>1 DEF ToSet
    <2>5. ToSet(Tail(s)) \subseteq ToSet(s)
      <3>1. \A x \in ToSet(Tail(s)) : \E k \in DOMAIN Tail(s) : x = Tail(s)[k]
        BY DEF ToSet
      <3> QED  BY <2>3, <3>1
    <2> QED  BY <2>2, <2>4, <2>5
  <1>3. ASSUME s # <<>>
        PROVE  ToSet(s) # {}
    BY <1>3, HeadAndTail DEF ToSet
  <1> QED  BY <1>1, <1>2, <1>3

LEMMA AppendOne ==
    ASSUME NEW S, NEW s \in Seq(S), NEW x \in S
    PROVE  /\ Append(s, x) \in Seq(S)
           /\ \A k \in DOMAIN Append(s, x) :
                 \/ k \in DOMAIN s /\ Append(s, x)[k] = s[k]
                 \/ k \notin DOMAIN s /\ k = Len(s) + 1 /\ Append(s, x)[k] = x
  OBVIOUS

\* Only a request of the check protocol has a client that is a process.
LEMMA RequestOfClient ==
    ASSUME NEW m \in Request
    PROVE  /\ m.client \in Clients \union {Nobody}
           /\ m.client \in Clients => m.ask \in Exchanges
           /\ m.ask = "runtime" => m.base \in Hosts /\ m.act \in Acts
           /\ [m EXCEPT !.client = Nobody].client = Nobody
           /\ m.client \in Clients => [m EXCEPT !.client = Nobody] \in Request
  BY RuntimeCheckAssumption DEF Request, Exchanges

\* A process that is not waiting has no connection anywhere.
LEMMA NoConnection ==
    ASSUME RCTypeOK, OneConnection, NEW p \in Agents,
           client[p].step \notin Exchanges \/ ~client[p].waiting,
           NEW h \in Hosts, NEW k \in DOMAIN queue[h]
    PROVE  queue[h][k].client # p
  <1>1. queue[h][k] \in Request /\ p \in Clients
    BY DEF RCTypeOK, Clients
  <1>2. ASSUME queue[h][k].client = p
        PROVE  client[p].waiting /\ client[p].step = queue[h][k].ask
    BY <1>2 DEF OneConnection
  <1>3. ASSUME queue[h][k].client = p
        PROVE  queue[h][k].ask \in Exchanges
    BY <1>1, <1>3, RequestOfClient
  <1> QED  BY <1>2, <1>3

SameWait(p) ==
    /\ client'[p].waiting = client[p].waiting
    /\ client'[p].step = client[p].step
    /\ client'[p].base = client[p].base

LEMMA ConnectionsStay ==
    ASSUME RCTypeOK, OneConnection, UNCHANGED queue,
           \A p \in Agents : \/ SameWait(p)
                             \/ client[p].step \notin Exchanges \/ ~client[p].waiting
    PROVE  OneConnection'
  BY NoConnection DEF OneConnection, SameWait

\* OneConnection after a step, of each connection.
LEMMA ConnectionsAre ==
    ASSUME \A g \in Hosts : \A k \in DOMAIN queue'[g] : queue'[g][k].client \in Agents =>
               LET c == queue'[g][k].client IN
               /\ client'[c].waiting /\ client'[c].step = queue'[g][k].ask /\ client'[c].base = g
               /\ \A j \in DOMAIN queue'[g] : queue'[g][j].client = c => j = k
    PROVE  OneConnection'
  BY DEF OneConnection

LEMMA ConnectionServed ==
    ASSUME RCTypeOK, OneConnection, NEW h \in Hosts, queue[h] # <<>>,
           queue' = [queue EXCEPT ![h] = Tail(@)],
           \A p \in Agents : SameWait(p) \/ p = Asker(h)
    PROVE  OneConnection'
  <1>1. /\ queue[h] \in Seq(Request) /\ DOMAIN queue = Hosts
        /\ Asker(h) = queue[h][1].client /\ 1 \in DOMAIN queue[h]
    BY HeadAndTail DEF RCTypeOK, Asker
  <1>2. \A g \in Hosts \ {h} : queue'[g] = queue[g]
    BY <1>1
  <1>3. queue'[h] = Tail(queue[h])
    BY <1>1
  <1>4. \A k \in DOMAIN queue'[h] :
            /\ k \in Nat \ {0} /\ k + 1 \in DOMAIN queue[h]
            /\ queue'[h][k] = queue[h][k + 1]
    BY <1>1, <1>3, HeadAndTail
  <1>5. \A k \in DOMAIN queue'[h] : queue'[h][k].client \in Agents =>
            queue'[h][k].client # Asker(h)
    BY <1>1, <1>4 DEF OneConnection
  <1>6. ASSUME NEW g \in Hosts \ {h}, NEW k \in DOMAIN queue[g], queue[g][k].client \in Agents
        PROVE  queue[g][k].client # Asker(h)
    BY <1>1, <1>6 DEF OneConnection
  <1>7. ASSUME NEW k \in DOMAIN queue'[h], queue'[h][k].client \in Agents,
               NEW j \in DOMAIN queue'[h], queue'[h][j].client = queue'[h][k].client
        PROVE  j = k
    <2>1. j + 1 = k + 1
      BY <1>4, <1>7 DEF OneConnection
    <2> QED  BY <1>4, <2>1
  <1>8. ASSUME NEW k \in DOMAIN queue'[h], queue'[h][k].client \in Agents
        PROVE  LET c == queue'[h][k].client IN
               client'[c].waiting /\ client'[c].step = queue'[h][k].ask /\ client'[c].base = h
    <2>1. PICK m \in DOMAIN queue[h] : queue[h][m] = queue'[h][k]
      BY <1>4
    <2>2. LET c == queue[h][m].client IN
          client[c].waiting /\ client[c].step = queue[h][m].ask /\ client[c].base = h
      BY <1>8, <2>1 DEF OneConnection
    <2>3. SameWait(queue[h][m].client)
      BY <1>5, <1>8, <2>1
    <2> QED  BY <2>1, <2>2, <2>3 DEF SameWait
  <1>9. ASSUME NEW g \in Hosts \ {h}, NEW k \in DOMAIN queue'[g], queue'[g][k].client \in Agents
        PROVE  LET c == queue'[g][k].client IN
               /\ client'[c].waiting /\ client'[c].step = queue'[g][k].ask /\ client'[c].base = g
               /\ \A j \in DOMAIN queue'[g] : queue'[g][j].client = c => j = k
    BY <1>2, <1>6, <1>9 DEF OneConnection, SameWait
  <1>10. ASSUME NEW g \in Hosts, NEW k \in DOMAIN queue'[g], queue'[g][k].client \in Agents
         PROVE  LET c == queue'[g][k].client IN
                /\ client'[c].waiting /\ client'[c].step = queue'[g][k].ask /\ client'[c].base = g
                /\ \A j \in DOMAIN queue'[g] : queue'[g][j].client = c => j = k
    <2>1. CASE g # h
      BY <1>9, <1>10, <2>1
    <2>2. CASE g = h
      BY <1>7, <1>8, <1>10, <2>2
    <2> QED  BY <2>1, <2>2
  <1> QED  BY <1>10, ConnectionsAre

LEMMA ConnectionMade ==
    ASSUME RCTypeOK, OneConnection, NEW h \in Hosts, NEW m \in Request,
           queue' = [queue EXCEPT ![h] = Append(@, m)],
           \A p \in Agents : SameWait(p) \/ p = m.client,
           m.client \in Agents =>
               /\ ~client[m.client].waiting
               /\ client'[m.client].waiting
               /\ client'[m.client].step = m.ask
               /\ client'[m.client].base = h
    PROVE  OneConnection'
  <1>1. queue[h] \in Seq(Request) /\ DOMAIN queue = Hosts
    BY DEF RCTypeOK
  <1>2. \A g \in Hosts \ {h} : queue'[g] = queue[g]
    BY <1>1
  <1>3. queue'[h] = Append(queue[h], m)
    BY <1>1
  <1>4. \A k \in DOMAIN queue'[h] :
            \/ k \in DOMAIN queue[h] /\ queue'[h][k] = queue[h][k]
            \/ k = Len(queue[h]) + 1 /\ queue'[h][k] = m
    BY <1>1, <1>3, AppendOne
  <1>5. m.client \in Agents =>
            \A g \in Hosts : \A k \in DOMAIN queue[g] : queue[g][k].client # m.client
    BY NoConnection
  <1>6. ASSUME NEW g \in Hosts, NEW k \in DOMAIN queue[g], queue[g][k].client \in Agents
        PROVE  LET c == queue[g][k].client IN
               /\ client'[c].waiting /\ client'[c].step = queue[g][k].ask
               /\ client'[c].base = g
               /\ \A j \in DOMAIN queue[g] : queue[g][j].client = c => j = k
    BY <1>5, <1>6 DEF OneConnection, SameWait
  <1>7. ASSUME NEW k \in DOMAIN queue'[h], queue'[h][k].client \in Agents
        PROVE  LET c == queue'[h][k].client IN
               /\ client'[c].waiting /\ client'[c].step = queue'[h][k].ask
               /\ client'[c].base = h
    BY <1>4, <1>6, <1>7
  <1>8. ASSUME NEW k \in DOMAIN queue'[h], queue'[h][k].client \in Agents,
               NEW j \in DOMAIN queue'[h], queue'[h][j].client = queue'[h][k].client
        PROVE  j = k
    BY <1>4, <1>5, <1>6, <1>8
  <1>9. ASSUME NEW g \in Hosts \ {h}, NEW k \in DOMAIN queue'[g], queue'[g][k].client \in Agents
        PROVE  LET c == queue'[g][k].client IN
               /\ client'[c].waiting /\ client'[c].step = queue'[g][k].ask /\ client'[c].base = g
               /\ \A j \in DOMAIN queue'[g] : queue'[g][j].client = c => j = k
    BY <1>2, <1>6, <1>9
  <1>10. ASSUME NEW g \in Hosts, NEW k \in DOMAIN queue'[g], queue'[g][k].client \in Agents
         PROVE  LET c == queue'[g][k].client IN
                /\ client'[c].waiting /\ client'[c].step = queue'[g][k].ask /\ client'[c].base = g
                /\ \A j \in DOMAIN queue'[g] : queue'[g][j].client = c => j = k
    <2>1. CASE g # h
      BY <1>9, <1>10, <2>1
    <2>2. CASE g = h
      BY <1>7, <1>8, <1>10, <2>2
    <2> QED  BY <2>1, <2>2
  <1> QED  BY <1>10, ConnectionsAre

LEMMA ConnectionsDropped ==
    ASSUME OneConnection,
           \A h \in Hosts : \A k \in DOMAIN queue'[h] :
               queue'[h][k].client \in Agents =>
                   /\ k \in DOMAIN queue[h] /\ queue'[h][k] = queue[h][k]
                   /\ SameWait(queue[h][k].client)
    PROVE  OneConnection'
  <1>1. ASSUME NEW h \in Hosts, NEW k \in DOMAIN queue'[h], queue'[h][k].client \in Agents
        PROVE  LET c == queue'[h][k].client IN
               /\ client'[c].waiting /\ client'[c].step = queue'[h][k].ask
               /\ client'[c].base = h
               /\ \A j \in DOMAIN queue'[h] : queue'[h][j].client = c => j = k
    BY <1>1 DEF OneConnection, SameWait
  <1> QED  BY <1>1 DEF OneConnection

LEMMA LeaveFacts ==
    ASSUME NEW q \in Seq(Request), NEW c \in Clients
    PROVE  /\ Leave(q, c) \in Seq(Request)
           /\ DOMAIN Leave(q, c) = DOMAIN q
           /\ \A k \in DOMAIN q : Leave(q, c)[k].client \in Clients =>
                  Leave(q, c)[k] = q[k] /\ q[k].client # c
  <1>1. DOMAIN q = 1..Len(q) /\ Len(q) \in Nat /\ DOMAIN Leave(q, c) = DOMAIN q
    BY LenProperties DEF Leave
  <1>2. ASSUME NEW k \in DOMAIN q
        PROVE  /\ Leave(q, c)[k] \in Request
               /\ Leave(q, c)[k].client \in Clients =>
                      Leave(q, c)[k] = q[k] /\ q[k].client # c
    <2>1. q[k] \in Request
      OBVIOUS
    <2>2. Leave(q, c)[k] = IF q[k].client = c THEN [q[k] EXCEPT !.client = Nobody] ELSE q[k]
      BY DEF Leave
    <2>3. Nobody \notin Clients
      BY RuntimeCheckAssumption
    <2> QED  BY <2>1, <2>2, <2>3, RequestOfClient
  <1>3. Leave(q, c) \in [1..Len(q) -> Request]
    <2>1. Leave(q, c) = [k \in DOMAIN q |-> Leave(q, c)[k]]
      BY DEF Leave
    <2> QED  BY <1>1, <1>2, <2>1
  <1> QED  BY <1>1, <1>2, <1>3

------------------------------------------------------------------------------
(* A step leaves an agent process as it is, but for what it does not rest on. *)

Untouched(p) ==
    /\ SameWait(p)
    /\ client'[p].todo = client[p].todo
    /\ client'[p].loaded = client[p].loaded
    /\ client'[p].pinned = client[p].pinned

LEMMA UntouchedStays ==
    ASSUME NEW p \in Agents, Untouched(p), RCTypeOK,
           LineState(p), NotGranted(p), UnderPinned(p),
           dead[Base[p]] \subseteq dead'[Base[p]],
           covers'[p] = covers[p], granted'[p] = granted[p], before'[p] = before[p],
           outcome'[p] = outcome[p], followed'[p] = followed[p]
    PROVE  LineState(p)' /\ NotGranted(p)' /\ UnderPinned(p)'
  BY DEF Untouched, SameWait, LineState, NotGranted, UnderPinned

LEMMA OneAgentAtMost ==
    ASSUME RCInv, NEW c, \A p \in Agents \ {c} : Untouched(p),
           UNCHANGED dead,
           \A p \in Agents \ {c} :
               /\ covers'[p] = covers[p] /\ granted'[p] = granted[p]
               /\ before'[p] = before[p] /\ outcome'[p] = outcome[p]
               /\ followed'[p] = followed[p],
           c \in Agents => LineState(c)' /\ NotGranted(c)' /\ UnderPinned(c)'
    PROVE  \A p \in Agents : LineState(p)' /\ NotGranted(p)' /\ UnderPinned(p)'
  BY UntouchedStays DEF RCInv

------------------------------------------------------------------------------
(* The steps of an agent process: its lines.                                 *)

LEMMA AgentsAreClients ==
    /\ Agents \subseteq Clients /\ Hosts \subseteq Clients
    /\ \A p \in Agents : p \notin Hosts /\ p # Nobody /\ Base[p] \in Hosts
    /\ \A h \in Hosts : h # Nobody
  BY RuntimeCheckAssumption DEF Clients

\* A step in which one client changes and no queue.
LEMMA OneClientSteps ==
    ASSUME RCInv, NEW c \in Clients, NEW s \in ClientState,
           client' = [client EXCEPT ![c] = s],
           client[c].step \notin Exchanges \/ ~client[c].waiting, UNCHANGED queue
    PROVE  /\ client' \in [Clients -> ClientState] /\ client'[c] = s
           /\ \A p \in Agents \ {c} : Untouched(p) /\ client'[p] = client[p]
           /\ OneConnection'
  <1>1. client \in [Clients -> ClientState] /\ Agents \subseteq Clients
    BY AgentsAreClients DEF RCInv, RCTypeOK
  <1>2. client' \in [Clients -> ClientState] /\ client'[c] = s
    BY <1>1
  <1>3. \A p \in Agents \ {c} : client'[p] = client[p]
    BY <1>1
  <1>4. \A p \in Agents \ {c} : Untouched(p)
    BY <1>3 DEF Untouched, SameWait
  <1>5. OneConnection'
    BY <1>4, ConnectionsStay DEF RCInv, Untouched
  <1> QED  BY <1>2, <1>3, <1>4, <1>5

LineOpened(p, acts) ==
    /\ Open(p, acts)
    /\ ~Busy(p)
    /\ client' = [client EXCEPT ![p] = Checking(Base[p], acts, @.pinned)]
    /\ UNCHANGED <<dead, document, queue, held, outcome, followed>>

LEMMA LineOpenedStep ==
    ASSUME RCInv, NEW p \in Agents, NEW acts \in Seq(Acts), acts # <<>>, LineOpened(p, acts)
    PROVE  RCInv' /\ Gate!ReadLine(p, ToSet(acts))
  <1> DEFINE s == Checking(Base[p], acts, client[p].pinned)
  <1>1. /\ p \in Clients /\ Base[p] \in Hosts /\ client[p] \in ClientState
        /\ client[p].pinned \in Documents \union {NoDocument}
    BY AgentsAreClients DEF RCInv, RCTypeOK, ClientState
  <1>2. /\ s \in ClientState /\ s.step = "document" /\ s.waiting = FALSE
        /\ s.base = Base[p] /\ s.todo = acts /\ s.pinned = client[p].pinned
    <2>1. s \in ClientState
      BY <1>1 DEF Checking, Resting, ClientState, Steps, Exchanges
    <2>2. /\ s.step = "document" /\ s.waiting = FALSE
          /\ s.base = Base[p] /\ s.todo = acts /\ s.pinned = client[p].pinned
      BY DEF Checking, Resting
    <2> QED  BY <2>1, <2>2
  <1>3. client' = [client EXCEPT ![p] = s] /\ client[p].step = "idle" /\ UNCHANGED queue
    BY DEF LineOpened, Busy
  <1>4. /\ client' \in [Clients -> ClientState] /\ client'[p] = s
        /\ \A q \in Agents \ {p} : Untouched(q) /\ client'[q] = client[q]
        /\ OneConnection'
    <2> HIDE DEF s
    <2>1. client[p].step \notin Exchanges
      BY <1>3 DEF Exchanges
    <2> QED  BY <1>1, <1>2, <1>3, <2>1, OneClientSteps
  <1>5. /\ covers' = [covers EXCEPT ![p] = ToSet(acts)]
        /\ granted' = [granted EXCEPT ![p] = {}]
        /\ before' = [before EXCEPT ![p] = dead[Base[p]]]
        /\ UNCHANGED <<dead, document, queue, held, outcome, followed>>
    BY DEF LineOpened, Open
  <1>6. ToSet(acts) \subseteq Acts /\ ToSet(acts) # {}
    BY ElementsOfSeq
  <1>7. RCTypeOK'
    BY <1>1, <1>4, <1>5, <1>6 DEF RCInv, RCTypeOK
  <1>8. /\ covers'[p] = ToSet(acts) /\ granted'[p] = {}
        /\ before'[p] = dead[Base[p]] /\ dead' = dead /\ followed'[p] = followed[p]
        /\ \A q \in Agents \ {p} :
               /\ covers'[q] = covers[q] /\ granted'[q] = granted[q]
               /\ before'[q] = before[q] /\ outcome'[q] = outcome[q]
               /\ followed'[q] = followed[q]
    BY <1>5 DEF RCInv, RCTypeOK
  <1>9. LineState(p)' /\ NotGranted(p)' /\ UnderPinned(p)'
    <2> HIDE DEF s
    <2>1. LineState(p)'
      BY <1>2, <1>4, <1>6, <1>8 DEF LineState
    <2>2. NotGranted(p)'
      BY <1>8 DEF NotGranted
    <2>3. UnderPinned(p)'
      BY <1>2, <1>4, <1>8 DEF UnderPinned, RCInv
    <2> QED  BY <2>1, <2>2, <2>3
  <1>10. RCInv'
    BY <1>4, <1>7, <1>8, <1>9, OneAgentAtMost DEF RCInv
  <1>11. Gate!ReadLine(p, ToSet(acts))
    <2> HIDE DEF s
    <2>1. Busy(p)' /\ ~Busy(p) /\ \A q \in Agents \ {p} : Busy(q)' = Busy(q)
      BY <1>2, <1>3, <1>4 DEF Busy
    <2>2. outcome[p] # "open"
      BY DEF RCInv, RCTypeOK
    <2> QED  BY <1>5, <2>1, <2>2 DEF Gate!ReadLine
  <1> QED  BY <1>10, <1>11

\* The safety half of ToolGate, and the invariant, across one step.
StepHolds == RCInv' /\ [Gate!GateNext]_(Gate!gateVars)

LEMMA LineOpenedHolds ==
    ASSUME RCInv, NEW p \in Agents, NEW acts \in Seq(Acts), acts # <<>>, LineOpened(p, acts)
    PROVE  StepHolds
  <1>1. RCInv' /\ Gate!ReadLine(p, ToSet(acts)) /\ ToSet(acts) \subseteq Acts
    BY LineOpenedStep, ElementsOfSeq
  <1> QED  BY <1>1 DEF StepHolds, Gate!GateNext

\* A step of which the gates see nothing: only client c changes.
LEMMA ClientStep ==
    ASSUME RCInv, RCTypeOK', OneConnection', NEW c, \A p \in Agents \ {c} : Untouched(p),
           UNCHANGED <<dead, outcome, covers, granted, before, followed>>,
           c \in Agents => /\ client[c].step # "idle" /\ client'[c].step # "idle"
                           /\ LineState(c)' /\ UnderPinned(c)'
    PROVE  StepHolds
  <1>1. c \in Agents => NotGranted(c)'
    BY DEF RCInv, NotGranted
  <1>2. RCInv'
    BY <1>1, OneAgentAtMost DEF RCInv
  <1>3. \A p \in Agents : Busy(p)' = Busy(p)
    BY DEF Busy, Untouched, SameWait
  <1>4. UNCHANGED Gate!gateVars
    BY <1>3 DEF Gate!gateVars
  <1> QED  BY <1>2, <1>4 DEF StepHolds

LEMMA RefusedLine ==
    ASSUME RCInv, NEW p \in Agents, Open(p, <<>>), ~Busy(p),
           client' = [client EXCEPT ![p].step = "refused"],
           UNCHANGED <<dead, document, queue, held, outcome, followed>>
    PROVE  StepHolds
  <1>1. /\ client \in [Clients -> ClientState] /\ p \in Clients
        /\ client[p].step = "idle" /\ ~client[p].waiting
    BY AgentsAreClients DEF RCInv, RCTypeOK, Busy, LineState, Exchanges
  <1>2. /\ client'[p] = [client[p] EXCEPT !.step = "refused"]
        /\ client' \in [Clients -> ClientState]
        /\ \A q \in Agents \ {p} : client'[q] = client[q]
    <2>1. [client[p] EXCEPT !.step = "refused"] \in ClientState
      BY <1>1 DEF ClientState, Steps
    <2>2. client' = [client EXCEPT ![p] = [client[p] EXCEPT !.step = "refused"]]
      OBVIOUS
    <2> QED  BY <1>1, <2>1, <2>2, AgentsAreClients
  <1>3. \A q \in Agents \ {p} : Untouched(q)
    BY <1>2 DEF Untouched, SameWait
  <1>4. /\ client'[p].step = "refused" /\ ~client'[p].waiting
        /\ client'[p].pinned = client[p].pinned
    BY <1>1, <1>2 DEF ClientState
  <1>5. ToSet(<<>>) = {}
    BY DEF ToSet
  <1>6. /\ covers' = [covers EXCEPT ![p] = {}]
        /\ granted' = [granted EXCEPT ![p] = {}]
        /\ before' = [before EXCEPT ![p] = dead[Base[p]]]
    BY <1>5 DEF Open
  <1>7. RCTypeOK'
    BY <1>2, <1>6, AgentsAreClients DEF RCInv, RCTypeOK
  <1>8. OneConnection'
    BY <1>1, <1>3, ConnectionsStay DEF RCInv, Untouched
  <1>9. covers'[p] = {} /\ granted'[p] = {} /\ before'[p] = dead[Base[p]]
    BY <1>6 DEF RCInv, RCTypeOK
  <1>10. LineState(p)'
    BY <1>4, <1>9 DEF LineState, Exchanges
  <1>11. UnderPinned(p)'
    BY <1>4 DEF RCInv, UnderPinned
  <1>12. LineState(p)' /\ UnderPinned(p)' /\ NotGranted(p)'
    BY <1>9, <1>10, <1>11 DEF NotGranted
  <1>13. \A q \in Agents \ {p} : /\ covers'[q] = covers[q] /\ granted'[q] = granted[q]
                                 /\ before'[q] = before[q]
    BY <1>6 DEF RCInv, RCTypeOK
  <1>14. \A q \in Agents : LineState(q)' /\ NotGranted(q)' /\ UnderPinned(q)'
    BY <1>3, <1>12, <1>13, OneAgentAtMost
  <1>15. RCInv'
    BY <1>7, <1>8, <1>14 DEF RCInv
  <1>16. Gate!ReadLine(p, {})
    <2>1. Busy(p)' /\ ~Busy(p) /\ \A q \in Agents \ {p} : Busy(q)' = Busy(q)
      BY <1>2, <1>4 DEF Busy
    <2>2. outcome[p] # "open"
      BY DEF RCInv, RCTypeOK
    <2> QED  BY <1>6, <2>1, <2>2 DEF Gate!ReadLine
  <1> QED  BY <1>15, <1>16 DEF StepHolds, Gate!GateNext

LEMMA AgentSteps ==
    ASSUME RCInv, NEW p \in Agents, AgentNext(p)
    PROVE  StepHolds
  <1>1. held \in [Agents -> Seq(Acts) \ {<<>>}]
    BY DEF RCInv, RCTypeOK
  <1>2. CASE ReadLine(p)
    <2>1. LineOpened(p, held[p])
      BY <1>2 DEF ReadLine, LineOpened
    <2> QED  BY <1>1, <2>1, LineOpenedHolds
  <1>3. ASSUME NEW n \in 0..MaxHeld + 1, ReadNamedLine(p, n), n \in DOMAIN held[p]
        PROVE  StepHolds
    <2>1. LineOpened(p, <<held[p][n]>>)
      BY <1>3 DEF ReadNamedLine, LineOpened
    <2>2. <<held[p][n]>> \in Seq(Acts) /\ <<held[p][n]>> # <<>>
      BY <1>1, <1>3
    <2> QED  BY <2>1, <2>2, LineOpenedHolds
  <1>4. ASSUME NEW n \in 0..MaxHeld + 1, ReadNamedLine(p, n), n \notin DOMAIN held[p]
        PROVE  StepHolds
    BY <1>4, RefusedLine DEF ReadNamedLine
  <1>5. ASSUME NEW a \in Acts, AddAct(p, a)
        PROVE  StepHolds
    <2>1. held' \in [Agents -> Seq(Acts) \ {<<>>}]
      BY <1>1, <1>5 DEF AddAct
    <2>2. RCTypeOK' /\ \A q \in Agents : Untouched(q)
      BY <1>5, <2>1 DEF AddAct, RCInv, RCTypeOK, Untouched, SameWait
    <2>3. OneConnection'
      BY <1>5, <2>2, ConnectionsStay DEF AddAct, RCInv, Untouched
    <2>4. Nobody \notin Agents
      BY AgentsAreClients
    <2> QED  BY <1>5, <2>2, <2>3, <2>4, ClientStep DEF AddAct
  <1> QED  BY <1>2, <1>3, <1>4, <1>5 DEF AgentNext

------------------------------------------------------------------------------
(* The steps of a client.                                                    *)

LEMMA OneClientChanges ==
    ASSUME RCInv, NEW c \in Clients, NEW s \in ClientState, client' = [client EXCEPT ![c] = s]
    PROVE  /\ client' \in [Clients -> ClientState] /\ client'[c] = s
           /\ \A p \in Agents \ {c} : Untouched(p)
  <1>1. client \in [Clients -> ClientState] /\ Agents \subseteq Clients
    BY AgentsAreClients DEF RCInv, RCTypeOK
  <1>2. client' \in [Clients -> ClientState] /\ client'[c] = s
    BY <1>1
  <1>3. \A p \in Agents \ {c} : client'[p] = client[p]
    BY <1>1
  <1> QED  BY <1>2, <1>3 DEF Untouched, SameWait

LEMMA SendStep ==
    ASSUME RCInv, NEW c \in Clients, Send(c)
    PROVE  StepHolds
  <1> DEFINE s == [client[c] EXCEPT !.waiting = TRUE]
             m == [client |-> c, ask |-> client[c].step]
             h == client[c].base
  <1>1. client[c] \in ClientState /\ client[c].step \in Exchanges /\ ~client[c].waiting
    BY DEF RCInv, RCTypeOK, Send
  <1>2. /\ s \in ClientState /\ s.step = client[c].step /\ s.waiting = TRUE
        /\ s.base = h /\ s.todo = client[c].todo /\ s.pinned = client[c].pinned
        /\ s.loaded = client[c].loaded
    BY <1>1 DEF ClientState
  <1>3. client' = [client EXCEPT ![c] = s]
    BY DEF Send
  <1> HIDE DEF s
  <1>4. /\ client' \in [Clients -> ClientState] /\ client'[c] = s
        /\ \A p \in Agents \ {c} : Untouched(p)
    BY <1>2, <1>3, OneClientChanges
  <1>5. m \in Request /\ m.client = c /\ m.ask = client[c].step
    BY <1>1 DEF Request
  <1>6. queue' = [queue EXCEPT ![h] = Append(@, m)]
    BY DEF Send
  <1>7. OneConnection' /\ queue' \in [Hosts -> Seq(Request)]
    <2>1. \A p \in Agents : SameWait(p) \/ p = c
      BY <1>4 DEF Untouched
    <2>2. queue \in [Hosts -> Seq(Request)]
      BY DEF RCInv, RCTypeOK
    <2>3. CASE h \in Hosts
      <3> HIDE DEF h
      <3>1. Append(queue[h], m) \in Seq(Request)
        BY <1>5, <2>2, <2>3, AppendOne
      <3>2. queue' \in [Hosts -> Seq(Request)]
        <4> HIDE DEF m
        <4> QED  BY <1>6, <2>2, <2>3, <3>1
      <3>3. client'[c].waiting /\ client'[c].step = client[c].step /\ client'[c].base = h
        BY <1>2, <1>4
      <3>4. OneConnection'
        <4> HIDE DEF m
        <4> QED  BY <1>1, <1>5, <1>6, <2>1, <2>3, <3>3, ConnectionMade DEF RCInv
      <3> QED  BY <3>2, <3>4
    <2>4. CASE h \notin Hosts
      <3>1. UNCHANGED queue
        BY <1>6, <2>2, <2>4
      <3>2. \A p \in Agents : SameWait(p) \/ client[p].step \notin Exchanges \/ ~client[p].waiting
        BY <1>1, <2>1
      <3> QED  BY <2>2, <3>1, <3>2, ConnectionsStay DEF RCInv
    <2> QED  BY <2>3, <2>4
  <1>8. UNCHANGED <<dead, document, lines, granted, followed>>
    BY DEF Send
  <1>9. RCTypeOK'
    BY <1>4, <1>7, <1>8 DEF RCInv, RCTypeOK, lines
  <1>10. ASSUME c \in Agents
         PROVE  /\ client[c].step # "idle" /\ client'[c].step # "idle"
                /\ LineState(c)' /\ UnderPinned(c)'
    <2>1. LineState(c)' /\ UnderPinned(c)'
      BY <1>1, <1>2, <1>4, <1>8, <1>10 DEF RCInv, LineState, UnderPinned, lines
    <2> QED  BY <1>1, <1>2, <1>4, <2>1 DEF Exchanges
  <1> QED  BY <1>4, <1>7, <1>8, <1>9, <1>10, ClientStep DEF lines

LEMMA GiveUpStep ==
    ASSUME RCInv, NEW c \in Clients, GiveUp(c)
    PROVE  StepHolds
  <1> DEFINE s == [client[c] EXCEPT !.step = "refused", !.waiting = FALSE]
             h == client[c].base
  <1>1. client[c] \in ClientState /\ client[c].waiting
    BY DEF RCInv, RCTypeOK, GiveUp
  <1>2. /\ s \in ClientState /\ s.step = "refused" /\ s.waiting = FALSE
        /\ s.pinned = client[c].pinned
    BY <1>1 DEF ClientState, Steps
  <1>3. client' = [client EXCEPT ![c] = s]
    BY DEF GiveUp
  <1> HIDE DEF s
  <1>4. /\ client' \in [Clients -> ClientState] /\ client'[c] = s
        /\ \A p \in Agents \ {c} : Untouched(p)
    BY <1>2, <1>3, OneClientChanges
  <1>5. queue \in [Hosts -> Seq(Request)] /\ queue' = [queue EXCEPT ![h] = Leave(@, c)]
    BY DEF RCInv, RCTypeOK, GiveUp
  <1> HIDE DEF h
  <1>6. queue' \in [Hosts -> Seq(Request)]
    BY <1>5, LeaveFacts
  <1>7. ASSUME NEW g \in Hosts, NEW k \in DOMAIN queue'[g], queue'[g][k].client \in Agents
        PROVE  /\ k \in DOMAIN queue[g] /\ queue'[g][k] = queue[g][k]
               /\ SameWait(queue[g][k].client)
    <2>1. CASE g = h
      BY <1>4, <1>5, <1>7, <2>1, LeaveFacts, AgentsAreClients DEF Untouched
    <2>2. CASE g # h
      <3>1. queue'[g] = queue[g]
        BY <1>5, <2>2
      <3>2. queue[g][k].client # c
        BY <1>7, <2>2, <3>1 DEF RCInv, OneConnection, h
      <3> QED  BY <1>4, <1>7, <3>1, <3>2 DEF Untouched
    <2> QED  BY <2>1, <2>2
  <1>8. OneConnection'
    BY <1>7, ConnectionsDropped DEF RCInv
  <1>9. UNCHANGED <<dead, document, lines, granted, followed>>
    BY DEF GiveUp
  <1>10. RCTypeOK'
    BY <1>4, <1>6, <1>9 DEF RCInv, RCTypeOK, lines
  <1>11. ASSUME c \in Agents
         PROVE  /\ client[c].step # "idle" /\ client'[c].step # "idle"
                /\ LineState(c)' /\ UnderPinned(c)'
    <2>1. LineState(c)' /\ UnderPinned(c)'
      BY <1>2, <1>4, <1>9, <1>11 DEF RCInv, LineState, UnderPinned
    <2>2. client[c].step \in Exchanges
      BY <1>1, <1>11 DEF RCInv, LineState
    <2> QED  BY <1>2, <1>4, <2>1, <2>2 DEF Exchanges
  <1> QED  BY <1>4, <1>8, <1>9, <1>10, <1>11, ClientStep DEF lines

LEMMA SignStep ==
    ASSUME RCInv, NEW c \in Clients, Sign(c)
    PROVE  StepHolds
  <1>1. client[c] \in ClientState /\ client[c].step = "sign"
    BY DEF RCInv, RCTypeOK, Sign
  <1>2. PICK s \in ClientState :
            /\ client' = [client EXCEPT ![c] = s]
            /\ s.step \in {"document again", "refused"}
            /\ s.waiting = client[c].waiting /\ s.base = client[c].base
            /\ s.todo = client[c].todo /\ s.pinned = client[c].pinned
    <2>1. ASSUME NEW valid \in BOOLEAN,
                 client' = [client EXCEPT ![c].step = "document again", ![c].proof = valid]
          PROVE  client' = [client EXCEPT
                     ![c] = [client[c] EXCEPT !.step = "document again", !.proof = valid]]
      BY <2>1
    <2>2. ASSUME NEW valid \in BOOLEAN
          PROVE  [client[c] EXCEPT !.step = "document again", !.proof = valid] \in ClientState
      BY <1>1 DEF ClientState, Steps, Exchanges
    <2>3. [client[c] EXCEPT !.step = "refused"] \in ClientState
      BY <1>1 DEF ClientState, Steps
    <2>4. CASE \E valid \in BOOLEAN :
                  client' = [client EXCEPT ![c].step = "document again", ![c].proof = valid]
      BY <1>1, <2>1, <2>2, <2>4 DEF ClientState
    <2>5. CASE client' = [client EXCEPT ![c].step = "refused"]
      BY <1>1, <2>3, <2>5 DEF ClientState
    <2> QED  BY <2>4, <2>5 DEF Sign
  <1>3. /\ client' \in [Clients -> ClientState] /\ client'[c] = s
        /\ \A p \in Agents \ {c} : Untouched(p)
    BY <1>2, OneClientChanges
  <1>4. UNCHANGED <<dead, document, queue, lines, granted, followed>>
    BY DEF Sign
  <1>5. RCTypeOK'
    BY <1>3, <1>4 DEF RCInv, RCTypeOK, lines
  <1>6. OneConnection'
    <2>1. \A p \in Agents : SameWait(p) \/ client[p].step \notin Exchanges \/ ~client[p].waiting
      BY <1>1, <1>3 DEF Untouched, Exchanges
    <2> QED  BY <1>4, <2>1, ConnectionsStay DEF RCInv
  <1>7. ASSUME c \in Agents
        PROVE  /\ client[c].step # "idle" /\ client'[c].step # "idle"
               /\ LineState(c)' /\ UnderPinned(c)'
    <2>1. ~client[c].waiting
      BY <1>1, <1>7 DEF RCInv, LineState, Exchanges
    <2>2. LineState(c)' /\ UnderPinned(c)'
      BY <1>1, <1>2, <1>3, <1>4, <1>7, <2>1 DEF RCInv, LineState, UnderPinned, lines
    <2> QED  BY <1>1, <1>2, <1>3, <2>2
  <1> QED  BY <1>3, <1>4, <1>5, <1>6, <1>7, ClientStep DEF lines

LEMMA NextActStep ==
    ASSUME RCInv, NEW c \in Clients, NextAct(c)
    PROVE  StepHolds
  <1> DEFINE s == Checking(client[c].base, Tail(client[c].todo), client[c].pinned)
  <1>1. /\ client[c] \in ClientState /\ client[c].step = "allowed"
        /\ client[c].todo \in Seq(Acts) /\ client[c].todo # <<>>
        /\ Len(client[c].todo) > 1
    <2>1. client[c].todo \in Seq(Acts) /\ Len(client[c].todo) > 1
      BY DEF RCInv, RCTypeOK, ClientState, NextAct
    <2>2. client[c].todo # <<>>
      BY <2>1
    <2> QED  BY <2>1, <2>2 DEF RCInv, RCTypeOK, NextAct
  <1>2. Tail(client[c].todo) \in Seq(Acts) /\ Tail(client[c].todo) # <<>>
    BY <1>1, HeadAndTail
  <1>3. /\ s \in ClientState
        /\ s.step = "document" /\ s.waiting = FALSE /\ s.base = client[c].base
        /\ s.todo = Tail(client[c].todo) /\ s.pinned = client[c].pinned
    <2>1. s \in ClientState
      BY <1>1, <1>2 DEF Checking, Resting, ClientState, Steps, Exchanges
    <2>2. /\ s.step = "document" /\ s.waiting = FALSE /\ s.base = client[c].base
          /\ s.todo = Tail(client[c].todo) /\ s.pinned = client[c].pinned
      BY DEF Checking, Resting
    <2> QED  BY <2>1, <2>2
  <1>4. client' = [client EXCEPT ![c] = s]
    BY DEF NextAct
  <1> HIDE DEF s
  <1>5. /\ client' \in [Clients -> ClientState] /\ client'[c] = s
        /\ \A p \in Agents \ {c} : Untouched(p)
    BY <1>3, <1>4, OneClientChanges
  <1>6. UNCHANGED <<dead, document, queue, lines, granted, followed>>
    BY DEF NextAct
  <1>7. RCTypeOK'
    BY <1>5, <1>6 DEF RCInv, RCTypeOK, lines
  <1>8. OneConnection'
    <2>1. \A p \in Agents : SameWait(p) \/ client[p].step \notin Exchanges \/ ~client[p].waiting
      BY <1>1, <1>5 DEF Untouched, Exchanges
    <2> QED  BY <1>6, <2>1, ConnectionsStay DEF RCInv
  <1>9. ASSUME c \in Agents
        PROVE  /\ client[c].step # "idle" /\ client'[c].step # "idle"
               /\ LineState(c)' /\ UnderPinned(c)'
    <2>1. ToSet(client[c].todo) = {Head(client[c].todo)} \union ToSet(Tail(client[c].todo))
      BY <1>1, ElementsOfSeq
    <2>2. LineState(c)'
      BY <1>1, <1>2, <1>3, <1>5, <1>6, <1>9, <2>1 DEF RCInv, LineState, lines
    <2>3. UnderPinned(c)'
      BY <1>3, <1>5, <1>6, <1>9 DEF RCInv, UnderPinned
    <2> QED  BY <1>1, <1>3, <1>5, <2>2, <2>3
  <1> QED  BY <1>5, <1>6, <1>7, <1>8, <1>9, ClientStep DEF lines

LEMMA FinishStep ==
    ASSUME RCInv, NEW c \in Clients, Finish(c)
    PROVE  StepHolds
  <1>1. /\ client[c] \in ClientState /\ client[c].step \in {"allowed", "refused"}
        /\ client[c].step = "allowed" => Len(client[c].todo) = 1
    BY DEF RCInv, RCTypeOK, Finish
  <1>2. PICK pinned \in Documents \union {NoDocument} :
            /\ client' = [client EXCEPT ![c] = Resting(pinned)]
            /\ c \in Agents => pinned = client[c].pinned
    BY <1>1 DEF Finish, ClientState
  <1>3. /\ Resting(pinned) \in ClientState /\ Resting(pinned).step = "idle"
        /\ Resting(pinned).waiting = FALSE /\ Resting(pinned).pinned = pinned
    BY DEF Resting, ClientState, Steps
  <1>4. /\ client' \in [Clients -> ClientState] /\ client'[c] = Resting(pinned)
        /\ \A p \in Agents \ {c} : Untouched(p)
    BY <1>2, <1>3, OneClientChanges
  <1>5. UNCHANGED <<dead, document, queue, held, covers, granted, before, followed>>
    BY DEF Finish
  <1>6. OneConnection'
    <2>1. \A p \in Agents : SameWait(p) \/ client[p].step \notin Exchanges \/ ~client[p].waiting
      BY <1>1, <1>4 DEF Untouched, Exchanges
    <2> QED  BY <1>5, <2>1, ConnectionsStay DEF RCInv
  <1>7. CASE c \notin Agents
    <2>1. UNCHANGED outcome
      BY <1>7 DEF Finish
    <2>2. RCTypeOK'
      BY <1>4, <1>5, <2>1 DEF RCInv, RCTypeOK
    <2> QED  BY <1>4, <1>5, <1>6, <1>7, <2>1, <2>2, ClientStep
  <1>8. CASE c \in Agents
    <2> DEFINE answer == IF client[c].step = "allowed" THEN "ALLOWED" ELSE "REFUSED"
    <2>1. outcome' = [outcome EXCEPT ![c] = answer] /\ answer \in {"ALLOWED", "REFUSED"}
      BY <1>8 DEF Finish
    <2>2. RCTypeOK' /\ outcome'[c] = answer
      BY <1>4, <1>5, <1>8, <2>1 DEF RCInv, RCTypeOK
    <2>3. client[c].step = "allowed" => covers[c] \subseteq granted[c] /\ covers[c] # {}
      <3>1. ASSUME client[c].step = "allowed"
            PROVE  client[c].todo # <<>> /\ covers[c] # {} /\ client[c].todo \in Seq(Acts)
                   /\ covers[c] \ granted[c] \subseteq ToSet(Tail(client[c].todo))
        BY <1>1, <1>8, <3>1 DEF RCInv, LineState, ClientState
      <3>2. ToSet(<<>>) = {}
        BY DEF ToSet
      <3>3. client[c].step = "allowed" => Tail(client[c].todo) = <<>>
        BY <1>1, <3>1, HeadAndTail
      <3> QED  BY <3>1, <3>2, <3>3
    <2>4. LineState(c)'
      BY <1>3, <1>4, <1>5, <2>2, <2>3 DEF LineState
    <2>5. UnderPinned(c)' /\ NotGranted(c)'
      BY <1>2, <1>3, <1>4, <1>5, <1>8 DEF RCInv, UnderPinned, NotGranted
    <2>6. \A p \in Agents \ {c} : outcome'[p] = outcome[p]
      BY <2>1 DEF RCInv, RCTypeOK
    <2>7. RCInv'
      BY <1>4, <1>5, <1>6, <2>2, <2>4, <2>5, <2>6, OneAgentAtMost DEF RCInv
    <2>8. /\ Busy(c) /\ ~Busy(c)' /\ \A p \in Agents \ {c} : Busy(p)' = Busy(p)
      BY <1>1, <1>3, <1>4 DEF Busy, Untouched, SameWait
    <2>9. [p \in Agents |-> IF Busy(p) THEN "open" ELSE outcome[p]]' =
            [[p \in Agents |-> IF Busy(p) THEN "open" ELSE outcome[p]] EXCEPT ![c] = answer]
      BY <1>8, <2>2, <2>6, <2>8
    <2>10. Gate!Allow(c) \/ Gate!Refuse(c)
      BY <1>5, <1>8, <2>3, <2>8, <2>9 DEF Gate!Allow, Gate!Refuse
    <2> QED  BY <1>8, <2>7, <2>10 DEF StepHolds, Gate!GateNext
  <1> QED  BY <1>7, <1>8

------------------------------------------------------------------------------
(* The steps of a host.                                                      *)

LEMMA HeadOfQueue ==
    ASSUME RCInv, NEW h \in Hosts, NEW ask, Serve(h, ask)
    PROVE  /\ queue[h] # <<>> /\ Head(queue[h]) \in Request /\ Head(queue[h]).ask = ask
           /\ queue' = [queue EXCEPT ![h] = Tail(@)] /\ queue' \in [Hosts -> Seq(Request)]
           /\ Asker(h) \in Clients \union {Nobody}
           /\ Asker(h) \in Agents => /\ client[Asker(h)].waiting
                                     /\ client[Asker(h)].step = ask
                                     /\ client[Asker(h)].base = h
                                     /\ Base[Asker(h)] = h
  <1>1. queue \in [Hosts -> Seq(Request)] /\ queue[h] \in Seq(Request) /\ queue[h] # <<>>
    BY DEF RCInv, RCTypeOK, Serve
  <1>2. /\ Head(queue[h]) \in Request /\ Tail(queue[h]) \in Seq(Request)
        /\ Head(queue[h]) = queue[h][1] /\ 1 \in DOMAIN queue[h]
    BY <1>1, HeadAndTail
  <1>3. Head(queue[h]).ask = ask /\ queue' = [queue EXCEPT ![h] = Tail(@)]
    BY DEF Serve
  <1>4. queue' \in [Hosts -> Seq(Request)]
    BY <1>1, <1>2, <1>3
  <1>5. Asker(h) \in Clients \union {Nobody}
    BY <1>2, RequestOfClient DEF Asker
  <1>6. ASSUME Asker(h) \in Agents
        PROVE  /\ client[Asker(h)].waiting /\ client[Asker(h)].step = ask
               /\ client[Asker(h)].base = h /\ Base[Asker(h)] = h
    <2>1. /\ client[Asker(h)].waiting /\ client[Asker(h)].step = ask
          /\ client[Asker(h)].base = h
      BY <1>2, <1>3, <1>6 DEF RCInv, OneConnection, Asker
    <2>2. client[Asker(h)].base = Base[Asker(h)]
      BY <1>6, <2>1 DEF RCInv, LineState, Exchanges
    <2> QED  BY <2>1, <2>2
  <1> QED  BY <1>1, <1>2, <1>3, <1>4, <1>5, <1>6

\* An answer: the connection is gone, and at most the client that waited for it
\* goes on.
LEMMA AnswerStep ==
    ASSUME RCInv, NEW h \in Hosts, NEW ask, Serve(h, ask), NEW s \in ClientState,
           client' = IF Asker(h) = Nobody THEN client ELSE [client EXCEPT ![Asker(h)] = s]
    PROVE  /\ OneConnection' /\ client' \in [Clients -> ClientState]
           /\ \A p \in Agents \ {Asker(h)} : Untouched(p)
           /\ Asker(h) \in Agents => client'[Asker(h)] = s
  <1>1. CASE Asker(h) = Nobody
    <2>1. client' = client /\ Nobody \notin Agents /\ client \in [Clients -> ClientState]
      BY <1>1, AgentsAreClients DEF RCInv, RCTypeOK
    <2>2. \A p \in Agents : Untouched(p)
      BY <2>1 DEF Untouched, SameWait
    <2>3. OneConnection'
      BY <2>2, HeadOfQueue, ConnectionServed DEF RCInv, Untouched
    <2> QED  BY <1>1, <2>1, <2>2, <2>3
  <1>2. CASE Asker(h) # Nobody
    <2>1. Asker(h) \in Clients /\ client' = [client EXCEPT ![Asker(h)] = s]
      BY <1>2, HeadOfQueue
    <2>2. /\ client' \in [Clients -> ClientState] /\ client'[Asker(h)] = s
          /\ \A p \in Agents \ {Asker(h)} : Untouched(p)
      BY <2>1, OneClientChanges
    <2>3. OneConnection'
      BY <2>2, HeadOfQueue, ConnectionServed DEF RCInv, Untouched
    <2> QED  BY <2>2, <2>3
  <1> QED  BY <1>1, <1>2

LEMMA DocumentLoaded ==
    ASSUME RCInv, NEW h \in Hosts, NEW ask \in {"document", "document again"}, Serve(h, ask),
           NEW step \in {"challenge", "check"},
           client' = LoadDocument(Asker(h), document[h], step),
           UNCHANGED <<dead, document, lines, granted, followed>>
    PROVE  StepHolds
  <1>0. PICK c \in Clients \union {Nobody} : c = Asker(h)
    BY HeadOfQueue
  <1> DEFINE doc == document[h]
             bound == doc # OtherBind
             old == client[c]
             pinned == IF bound /\ old.pinned = NoDocument THEN doc ELSE old.pinned
             next == IF bound /\ PinOrRefuse(c, doc) THEN step ELSE "refused"
             s == [old EXCEPT !.waiting = FALSE, !.pinned = pinned, !.loaded = doc,
                              !.step = next]
  <1>1. c \in Clients \union {Nobody} /\ doc \in Documents /\ NoDocument \notin Documents
    BY <1>0, HeadOfQueue, RuntimeCheckAssumption DEF RCInv, RCTypeOK
  <1>2. client' = IF c = Nobody THEN client ELSE [client EXCEPT ![c] = s]
    BY <1>0 DEF LoadDocument
  <1>3. CASE c = Nobody
    <2>1. client' = client /\ client \in [Clients -> ClientState]
      BY <1>2, <1>3 DEF RCInv, RCTypeOK
    <2>2. \A p \in Agents : Untouched(p)
      BY <2>1 DEF Untouched, SameWait
    <2>3. OneConnection'
      BY <2>2, HeadOfQueue, ConnectionServed DEF RCInv, Untouched
    <2>4. RCTypeOK'
      BY <2>1, HeadOfQueue DEF RCInv, RCTypeOK, lines
    <2>5. c \notin Agents
      BY <1>3, AgentsAreClients
    <2> QED  BY <2>2, <2>3, <2>4, <2>5, ClientStep DEF lines
  <1>4. CASE c # Nobody
    <2>1. old \in ClientState
      BY <1>1, <1>4 DEF RCInv, RCTypeOK
    <2>2. pinned \in Documents \union {NoDocument} /\ next \in {step, "refused"}
      BY <1>1, <2>1 DEF ClientState
    <2>3. s \in ClientState
      <3> HIDE DEF pinned, next, old
      <3> QED  BY <1>1, <2>1, <2>2 DEF ClientState, Steps, Exchanges
    <2>4. /\ s.step = next /\ s.waiting = FALSE /\ s.pinned = pinned /\ s.loaded = doc
          /\ s.base = old.base /\ s.todo = old.todo
      <3> HIDE DEF pinned, next, old
      <3> QED  BY <2>1 DEF ClientState
    <2>5. /\ OneConnection' /\ client' \in [Clients -> ClientState]
          /\ \A p \in Agents \ {c} : Untouched(p)
          /\ c \in Agents => client'[c] = s
      <3> HIDE DEF s
      <3> QED  BY <1>0, <1>2, <2>3, AnswerStep
    <2>6. RCTypeOK'
      BY <2>5, HeadOfQueue DEF RCInv, RCTypeOK, lines
    <2>7. ASSUME c \in Agents
          PROVE  /\ client[c].step # "idle" /\ client'[c].step # "idle"
                 /\ LineState(c)' /\ UnderPinned(c)'
      <3>1. client[c].step = ask /\ client'[c] = s
        BY <1>0, <2>5, <2>7, HeadOfQueue
      <3>2. LineState(c)'
        <4> HIDE DEF s, pinned, next
        <4> QED  BY <2>2, <2>4, <2>7, <3>1 DEF RCInv, LineState, lines, old
      <3>3. next = "check" => pinned = doc
        BY <2>1 DEF PinOrRefuse
      <3>4. followed[c] \subseteq {pinned}
        <4>1. followed[c] \subseteq {old.pinned} /\ followed[c] \subseteq Documents
          BY <2>7 DEF RCInv, RCTypeOK, UnderPinned
        <4> QED  BY <1>1, <4>1
      <3>5. UnderPinned(c)'
        <4> HIDE DEF s, pinned, next
        <4> QED  BY <1>1, <2>4, <3>1, <3>3, <3>4 DEF UnderPinned
      <3>6. client[c].step # "idle" /\ client'[c].step # "idle"
        <4> HIDE DEF s, pinned, next
        <4> QED  BY <2>2, <2>4, <3>1
      <3> QED  BY <3>2, <3>5, <3>6
    <2> QED  BY <2>5, <2>6, <2>7, ClientStep DEF lines
  <1> QED  BY <1>3, <1>4

LEMMA ServeDocumentStep ==
    ASSUME RCInv, NEW h \in Hosts, ServeDocument(h)
    PROVE  StepHolds
  BY DocumentLoaded DEF ServeDocument

LEMMA ServeChallengeStep ==
    ASSUME RCInv, NEW h \in Hosts, ServeChallenge(h)
    PROVE  StepHolds
  <1>0. PICK c \in Clients \union {Nobody} : c = Asker(h)
    BY HeadOfQueue DEF ServeChallenge
  <1> DEFINE s == [[client[c] EXCEPT !.step = "sign", !.fresh = TRUE] EXCEPT !.waiting = FALSE]
  <1>1. Serve(h, "challenge") /\ c \in Clients \union {Nobody}
    BY HeadOfQueue DEF ServeChallenge
  <1>2. client' = IF c = Nobody THEN client ELSE [client EXCEPT ![c] = s]
    BY <1>0 DEF ServeChallenge, Reply
  <1>3. UNCHANGED <<dead, document, lines, granted, followed>>
    BY DEF ServeChallenge
  <1>4. c # Nobody =>
            /\ s \in ClientState /\ s.step = "sign" /\ s.waiting = FALSE
            /\ s.base = client[c].base /\ s.todo = client[c].todo
            /\ s.pinned = client[c].pinned
    <2>1. ASSUME c # Nobody  PROVE client[c] \in ClientState
      BY <1>1, <2>1 DEF RCInv, RCTypeOK
    <2> QED  BY <2>1 DEF ClientState, Steps
  <1>5. /\ OneConnection' /\ client' \in [Clients -> ClientState]
        /\ \A p \in Agents \ {c} : Untouched(p)
        /\ c \in Agents => client'[c] = s
    <2>1. CASE c # Nobody
      <3> HIDE DEF s
      <3> QED  BY <1>0, <1>1, <1>2, <1>4, <2>1, AnswerStep
    <2>2. CASE c = Nobody
      <3>1. client' = client /\ client \in [Clients -> ClientState]
        BY <1>2, <2>2 DEF RCInv, RCTypeOK
      <3>2. \A p \in Agents : Untouched(p)
        BY <3>1 DEF Untouched, SameWait
      <3>3. OneConnection'
        BY <1>1, <3>2, HeadOfQueue, ConnectionServed DEF RCInv, Untouched
      <3> QED  BY <2>2, <3>1, <3>2, <3>3, AgentsAreClients
    <2> QED  BY <2>1, <2>2
  <1>6. RCTypeOK'
    BY <1>1, <1>3, <1>5, HeadOfQueue DEF RCInv, RCTypeOK, lines
  <1>7. ASSUME c \in Agents
        PROVE  /\ client[c].step # "idle" /\ client'[c].step # "idle"
               /\ LineState(c)' /\ UnderPinned(c)'
    <2>1. client[c].step = "challenge" /\ client'[c] = s /\ c # Nobody
      BY <1>0, <1>1, <1>5, <1>7, HeadOfQueue, AgentsAreClients
    <2> HIDE DEF s
    <2>2. LineState(c)' /\ UnderPinned(c)'
      BY <1>3, <1>4, <1>7, <2>1 DEF RCInv, LineState, UnderPinned, lines
    <2> QED  BY <1>4, <2>1, <2>2
  <1> QED  BY <1>3, <1>5, <1>6, <1>7, ClientStep DEF lines

\* A step that leaves every client as it is.
LEMMA NoClientChanges ==
    ASSUME RCInv, client' = client
    PROVE  client' \in [Clients -> ClientState] /\ \A p \in Agents : Untouched(p)
  BY DEF RCInv, RCTypeOK, Untouched, SameWait

LEMMA UnheardStep ==
    ASSUME RCInv, NEW h \in Hosts, NEW ask, Serve(h, ask), UNCHANGED client,
           UNCHANGED <<dead, document, lines, granted, followed>>
    PROVE  StepHolds
  <1>1. client' \in [Clients -> ClientState] /\ \A p \in Agents : Untouched(p)
    BY NoClientChanges
  <1>2. OneConnection'
    BY <1>1, HeadOfQueue, ConnectionServed DEF RCInv, Untouched
  <1>3. RCTypeOK'
    BY <1>1, HeadOfQueue DEF RCInv, RCTypeOK, lines
  <1>4. Nobody \notin Agents
    BY AgentsAreClients
  <1> QED  BY <1>1, <1>2, <1>3, <1>4, ClientStep DEF lines

LEMMA ServeCheckStep ==
    ASSUME RCInv, NEW h \in Hosts, ServeCheck(h)
    PROVE  StepHolds
  <1> DEFINE Decided(d) ==
          \E status \in {200, 403, 502},
             result \in {IF /\ client[d].fresh /\ client[d].proof
                            /\ Head(client[d].todo) \notin dead[h]
                         THEN "allowed" ELSE "refused", "none"} :
              client' = [client EXCEPT ![d].waiting = FALSE, ![d].fresh = FALSE,
                  ![d].step = IF AllowedAnswer(status, result) THEN "allowed"
                              ELSE "refused"]
             Noted(d) ==
          LET grants == d \in Agents /\ /\ client[d].fresh /\ client[d].proof
                                        /\ Head(client[d].todo) \notin dead[h]
          IN  /\ granted' = IF grants
                            THEN [granted EXCEPT ![d] = @ \union {Head(client[d].todo)}]
                            ELSE granted
              /\ followed' = IF grants
                             THEN [followed EXCEPT ![d] = @ \union {client[d].loaded}]
                             ELSE followed
  <1>0. Asker(h) # Nobody => Decided(Asker(h)) /\ Noted(Asker(h))
    BY Zenon DEF ServeCheck, Act
  <1> HIDE DEF Decided, Noted
  <1>1. PICK c \in Clients \union {Nobody} :
            c = Asker(h) /\ (c # Nobody => Decided(c) /\ Noted(c))
    BY <1>0, HeadOfQueue DEF ServeCheck
  <1>2. Serve(h, "check") /\ UNCHANGED <<dead, document, lines>>
    BY DEF ServeCheck
  <1>3. CASE c = Nobody
    BY <1>1, <1>2, <1>3, UnheardStep DEF ServeCheck
  <1>4. CASE c # Nobody
    <2> DEFINE a == Head(client[c].todo)
    <2>1. PICK allowed \in BOOLEAN, next \in {"allowed", "refused"} :
              /\ client' = [client EXCEPT ![c].waiting = FALSE, ![c].fresh = FALSE,
                                          ![c].step = next]
              /\ next = "allowed" => allowed
              /\ allowed => a \notin dead[h]
              /\ granted' = IF c \in Agents /\ allowed
                            THEN [granted EXCEPT ![c] = @ \union {a}] ELSE granted
              /\ followed' = IF c \in Agents /\ allowed
                             THEN [followed EXCEPT ![c] = @ \union {client[c].loaded}]
                             ELSE followed
      <3> DEFINE yes == client[c].fresh /\ client[c].proof /\ a \notin dead[h]
                 sent == IF yes THEN "allowed" ELSE "refused"
      <3>1. PICK status \in {200, 403, 502}, result \in {sent, "none"} :
                client' = [client EXCEPT ![c].waiting = FALSE, ![c].fresh = FALSE,
                    ![c].step = IF AllowedAnswer(status, result) THEN "allowed"
                                ELSE "refused"]
        BY <1>1, <1>4 DEF Decided
      <3> DEFINE next == IF AllowedAnswer(status, result) THEN "allowed" ELSE "refused"
      <3>2. next \in {"allowed", "refused"} /\ (next = "allowed" => yes)
        BY DEF AllowedAnswer
      <3>3. /\ granted' = IF c \in Agents /\ yes
                          THEN [granted EXCEPT ![c] = @ \union {a}] ELSE granted
            /\ followed' = IF c \in Agents /\ yes
                           THEN [followed EXCEPT ![c] = @ \union {client[c].loaded}]
                           ELSE followed
        BY <1>1, <1>4 DEF Noted
      <3>4. yes \in BOOLEAN /\ (yes => a \notin dead[h])
        <4>1. client[c] \in ClientState
          BY <1>4 DEF RCInv, RCTypeOK
        <4> QED  BY <4>1 DEF ClientState
      <3>5. client' = [client EXCEPT ![c].waiting = FALSE, ![c].fresh = FALSE,
                                     ![c].step = next]
        BY <3>1
      <3> HIDE DEF yes, next, a
      <3> QED  BY <3>2, <3>3, <3>4, <3>5
    <2> DEFINE s == [client[c] EXCEPT !.waiting = FALSE, !.fresh = FALSE, !.step = next]
    <2>2. client[c] \in ClientState
      BY <1>4 DEF RCInv, RCTypeOK
    <2>3. /\ s \in ClientState /\ s.step = next /\ s.waiting = FALSE /\ s.base = client[c].base
          /\ s.todo = client[c].todo /\ s.pinned = client[c].pinned
      BY <2>2 DEF ClientState, Steps
    <2>4. client' = [client EXCEPT ![c] = s]
      BY <2>1
    <2> HIDE DEF s, a
    <2>5. /\ OneConnection' /\ client' \in [Clients -> ClientState]
          /\ \A p \in Agents \ {c} : Untouched(p)
          /\ c \in Agents => client'[c] = s
      BY <1>1, <1>2, <1>4, <2>3, <2>4, AnswerStep
    <2>6. CASE ~(c \in Agents /\ allowed)
      <3>1. UNCHANGED <<granted, followed>>
        BY <2>1, <2>6
      <3>2. RCTypeOK'
        BY <1>2, <2>5, <3>1, HeadOfQueue DEF RCInv, RCTypeOK, lines
      <3>3. ASSUME c \in Agents
            PROVE  /\ client[c].step # "idle" /\ client'[c].step # "idle"
                   /\ LineState(c)' /\ UnderPinned(c)'
        <4>1. client[c].step = "check" /\ client'[c] = s /\ next = "refused"
          BY <1>1, <1>2, <2>1, <2>5, <2>6, <3>3, HeadOfQueue
        <4>2. LineState(c)' /\ UnderPinned(c)'
          BY <1>2, <2>3, <3>1, <3>3, <4>1 DEF RCInv, LineState, UnderPinned, lines
        <4> QED  BY <2>3, <4>1, <4>2
      <3> QED  BY <1>2, <2>5, <3>1, <3>2, <3>3, ClientStep DEF lines
    <2>7. CASE c \in Agents /\ allowed
      <3>1. /\ granted' = [granted EXCEPT ![c] = @ \union {a}]
            /\ followed' = [followed EXCEPT ![c] = @ \union {client[c].loaded}]
            /\ a \notin dead[h] /\ client'[c] = s
        BY <2>1, <2>5, <2>7
      <3>2. client[c].step = "check" /\ Base[c] = h
        BY <1>1, <1>2, <2>7, HeadOfQueue
      <3>3. /\ covers[c] # {} /\ covers[c] \ granted[c] \subseteq ToSet(client[c].todo)
            /\ ToSet(client[c].todo) \subseteq covers[c]
            /\ client[c].todo # <<>> /\ client[c].todo \in Seq(Acts)
            /\ client[c].base = Base[c]
        BY <2>2, <2>7, <3>2 DEF RCInv, LineState, ClientState
      <3>4. ToSet(client[c].todo) = {a} \union ToSet(Tail(client[c].todo)) /\ a \in Acts
        BY <3>3, ElementsOfSeq, HeadAndTail DEF a
      <3>5. client[c].loaded = client[c].pinned /\ client[c].loaded \in Documents
        BY <2>2, <2>7, <3>2 DEF RCInv, UnderPinned, ClientState
      <3>6. /\ granted' \in [Agents -> SUBSET Acts] /\ followed' \in [Agents -> SUBSET Documents]
            /\ granted'[c] = granted[c] \union {a}
            /\ followed'[c] = followed[c] \union {client[c].pinned}
            /\ \A p \in Agents \ {c} : granted'[p] = granted[p] /\ followed'[p] = followed[p]
        BY <2>7, <3>1, <3>4, <3>5 DEF RCInv, RCTypeOK
      <3>7. RCTypeOK'
        BY <1>2, <2>5, <3>6, HeadOfQueue DEF RCInv, RCTypeOK, lines
      <3>8. LineState(c)'
        BY <1>2, <2>3, <3>1, <3>3, <3>4, <3>6 DEF LineState, lines
      <3>9. NotGranted(c)' /\ UnderPinned(c)'
        <4>1. NotGranted(c)'
          BY <1>2, <2>7, <3>1, <3>2, <3>6 DEF RCInv, NotGranted, lines
        <4>2. UnderPinned(c)'
          <5>1. followed[c] \subseteq {client[c].pinned}
            BY <2>7 DEF RCInv, UnderPinned
          <5> QED  BY <2>3, <3>1, <3>6, <5>1 DEF UnderPinned
        <4> QED  BY <4>1, <4>2
      <3>10. RCInv'
        BY <1>2, <2>5, <3>6, <3>7, <3>8, <3>9, OneAgentAtMost DEF RCInv, lines
      <3>11. Busy(c) /\ Busy(c)' /\ \A p \in Agents : Busy(p)' = Busy(p)
        BY <2>1, <2>3, <2>5, <3>1, <3>2 DEF Busy, Untouched, SameWait
      <3>12. Gate!Grant(c, a)
        BY <1>2, <2>7, <3>1, <3>2, <3>3, <3>4, <3>11 DEF Gate!Grant, lines
      <3> QED  BY <2>7, <3>4, <3>10, <3>12 DEF StepHolds, Gate!GateNext
    <2> QED  BY <2>6, <2>7
  <1> QED  BY <1>3, <1>4

LEMMA ServeRuntimeCheckStep ==
    ASSUME RCInv, NEW h \in Hosts, ServeRuntimeCheck(h)
    PROVE  StepHolds
  <1> DEFINE m == Head(queue[h])
             s == Checking(m.base, <<m.act>>, NoDocument)
  <1>1. Serve(h, "runtime") /\ UNCHANGED <<dead, document, lines, granted, followed>>
    BY DEF ServeRuntimeCheck
  <1>2. m \in Request /\ m.ask = "runtime"
    BY <1>1, HeadOfQueue
  <1>3. m.base \in Hosts /\ m.act \in Acts
    <2> HIDE DEF m
    <2> QED  BY <1>2, RequestOfClient
  <1>4. s \in ClientState
    <2> DEFINE todo == <<m.act>>
    <2>1. todo \in Seq(Acts)
      BY <1>3
    <2> HIDE DEF m, todo
    <2>2. Checking(m.base, todo, NoDocument) \in ClientState
      BY <1>3, <2>1 DEF Checking, Resting, ClientState, Steps, Exchanges
    <2> QED  BY <2>2 DEF todo
  <1>5. h \in Clients /\ h \notin Agents /\ client' = [client EXCEPT ![h] = s]
    BY AgentsAreClients DEF ServeRuntimeCheck
  <1> HIDE DEF s
  <1>6. client' \in [Clients -> ClientState] /\ \A p \in Agents : Untouched(p)
    BY <1>4, <1>5, OneClientChanges
  <1>7. OneConnection'
    BY <1>1, <1>6, HeadOfQueue, ConnectionServed DEF RCInv, Untouched
  <1>8. RCTypeOK'
    BY <1>1, <1>6, HeadOfQueue DEF RCInv, RCTypeOK, lines
  <1> QED  BY <1>1, <1>5, <1>6, <1>7, <1>8, ClientStep DEF lines

LEMMA HostSteps ==
    ASSUME RCInv, NEW h \in Hosts, HostNext(h)
    PROVE  StepHolds
  <1>1. CASE ServeSilence(h)
    BY <1>1, UnheardStep DEF ServeSilence
  <1>2. CASE ReadTimeout(h)
    <2>1. client' \in [Clients -> ClientState] /\ \A p \in Agents : Untouched(p)
      BY <1>2, NoClientChanges DEF ReadTimeout
    <2>2. UNCHANGED <<dead, document, queue, lines, granted, followed>>
      BY <1>2 DEF ReadTimeout
    <2>3. OneConnection'
      BY <2>1, <2>2, ConnectionsStay DEF RCInv, Untouched
    <2>4. RCTypeOK'
      BY <2>1, <2>2 DEF RCInv, RCTypeOK, lines
    <2>5. Nobody \notin Agents
      BY AgentsAreClients
    <2> QED  BY <2>1, <2>2, <2>3, <2>4, <2>5, ClientStep DEF lines
  <1> QED  BY <1>1, <1>2, ServeDocumentStep, ServeChallengeStep, ServeCheckStep,
              ServeRuntimeCheckStep DEF HostNext

------------------------------------------------------------------------------
(* What happens to a host from outside.                                      *)

LEMMA VisitStep ==
    ASSUME RCInv, NEW h \in Hosts, Visit(h)
    PROVE  StepHolds
  <1>1. PICK m \in Request : m.client = Nobody /\ queue' = [queue EXCEPT ![h] = Append(@, m)]
    BY RuntimeCheckAssumption DEF Visit, Request
  <1>2. UNCHANGED <<dead, document, client, lines, granted, followed>> /\ Nobody \notin Agents
    BY AgentsAreClients DEF Visit
  <1>3. client' \in [Clients -> ClientState] /\ \A p \in Agents : Untouched(p)
    BY <1>2, NoClientChanges
  <1>4. OneConnection'
    BY <1>1, <1>2, <1>3, ConnectionMade DEF RCInv, Untouched
  <1>5. queue' \in [Hosts -> Seq(Request)]
    <2>1. queue \in [Hosts -> Seq(Request)] /\ Append(queue[h], m) \in Seq(Request)
      BY AppendOne DEF RCInv, RCTypeOK
    <2> QED  BY <1>1, <2>1
  <1>6. RCTypeOK'
    BY <1>2, <1>3, <1>5 DEF RCInv, RCTypeOK, lines
  <1> QED  BY <1>2, <1>3, <1>4, <1>6, ClientStep DEF lines

LEMMA DieStep ==
    ASSUME RCInv, NEW h \in Hosts, NEW a \in Acts, Die(h, a)
    PROVE  StepHolds
  <1>1. /\ dead' = [dead EXCEPT ![h] = @ \union {a}]
        /\ UNCHANGED <<document, queue, client, lines, granted, followed>>
    BY DEF Die
  <1>2. client' \in [Clients -> ClientState] /\ \A p \in Agents : Untouched(p)
    BY <1>1, NoClientChanges
  <1>3. OneConnection'
    BY <1>1, <1>2, ConnectionsStay DEF RCInv, Untouched
  <1>4. RCTypeOK' /\ \A g \in Hosts : dead[g] \subseteq dead'[g]
    BY <1>1, <1>2 DEF RCInv, RCTypeOK, lines
  <1>5. \A p \in Agents : LineState(p)' /\ NotGranted(p)' /\ UnderPinned(p)'
    BY <1>1, <1>2, <1>4, UntouchedStays, AgentsAreClients DEF RCInv, lines
  <1>6. Gate!Die(h, a)
    BY <1>1 DEF Gate!Die, lines, Busy
  <1> QED  BY <1>3, <1>4, <1>5, <1>6 DEF StepHolds, RCInv, Gate!GateNext

LEMMA ChallengeExpiresStep ==
    ASSUME RCInv, NEW c \in Clients, ChallengeExpires(c)
    PROVE  StepHolds
  <1> DEFINE s == [client[c] EXCEPT !.fresh = FALSE]
  <1>1. client[c] \in ClientState
    BY DEF RCInv, RCTypeOK
  <1>2. /\ s \in ClientState /\ s.step = client[c].step /\ s.waiting = client[c].waiting
        /\ s.base = client[c].base /\ s.todo = client[c].todo
        /\ s.pinned = client[c].pinned /\ s.loaded = client[c].loaded
    BY <1>1 DEF ClientState
  <1>3. /\ client' = [client EXCEPT ![c] = s]
        /\ UNCHANGED <<dead, document, queue, lines, granted, followed>>
    BY DEF ChallengeExpires
  <1> HIDE DEF s
  <1>4. client' \in [Clients -> ClientState] /\ \A p \in Agents : Untouched(p)
    <2>1. /\ client' \in [Clients -> ClientState] /\ client'[c] = s
          /\ \A p \in Agents \ {c} : Untouched(p)
      BY <1>2, <1>3, OneClientChanges
    <2>2. c \in Agents => Untouched(c)
      BY <1>2, <2>1 DEF Untouched, SameWait
    <2> QED  BY <2>1, <2>2
  <1>5. OneConnection'
    BY <1>3, <1>4, ConnectionsStay DEF RCInv, Untouched
  <1>6. RCTypeOK'
    BY <1>3, <1>4 DEF RCInv, RCTypeOK, lines
  <1>7. Nobody \notin Agents
    BY AgentsAreClients
  <1> QED  BY <1>3, <1>4, <1>5, <1>6, <1>7, ClientStep DEF lines

LEMMA RestartStep ==
    ASSUME RCInv, NEW h \in Hosts, NEW doc \in Documents, Restart(h, doc)
    PROVE  StepHolds
  <1>1. /\ document' = [document EXCEPT ![h] = doc]
        /\ queue' = [g \in Hosts |-> IF g = h THEN <<>> ELSE Leave(queue[g], h)]
        /\ UNCHANGED <<dead, lines, granted, followed>>
    BY DEF Restart
  <1>2. client' = [c \in Clients |->
            IF c = h THEN Resting(NoDocument)
            ELSE IF client[c].base = h THEN [client[c] EXCEPT !.fresh = FALSE] ELSE client[c]]
    BY DEF Restart
  <1>3. client' \in [Clients -> ClientState]
    <2>1. Resting(NoDocument) \in ClientState
      BY DEF Resting, ClientState, Steps
    <2>2. ASSUME NEW c \in Clients
          PROVE  client[c] \in ClientState /\ [client[c] EXCEPT !.fresh = FALSE] \in ClientState
      BY DEF RCInv, RCTypeOK, ClientState
    <2> QED  BY <1>2, <2>1, <2>2
  <1>4. ASSUME NEW p \in Agents
        PROVE  Untouched(p)
    <2>1. /\ client[p] \in ClientState
          /\ client'[p] = IF client[p].base = h THEN [client[p] EXCEPT !.fresh = FALSE]
                          ELSE client[p]
      BY <1>2, AgentsAreClients DEF RCInv, RCTypeOK
    <2> QED  BY <2>1 DEF Untouched, SameWait, ClientState
  <1>5. queue \in [Hosts -> Seq(Request)] /\ queue' \in [Hosts -> Seq(Request)]
    <2>1. queue \in [Hosts -> Seq(Request)] /\ h \in Clients
      BY AgentsAreClients DEF RCInv, RCTypeOK
    <2>2. \A g \in Hosts : Leave(queue[g], h) \in Seq(Request)
      BY <2>1, LeaveFacts
    <2>3. <<>> \in Seq(Request)
      OBVIOUS
    <2> QED  BY <1>1, <2>1, <2>2, <2>3
  <1>6. ASSUME NEW g \in Hosts, NEW k \in DOMAIN queue'[g], queue'[g][k].client \in Agents
        PROVE  /\ k \in DOMAIN queue[g] /\ queue'[g][k] = queue[g][k]
               /\ SameWait(queue[g][k].client)
    <2>1. g # h
      BY <1>1, <1>6
    <2>2. queue'[g] = Leave(queue[g], h)
      BY <1>1, <2>1
    <2>3. k \in DOMAIN queue[g] /\ queue'[g][k] = queue[g][k]
      BY <1>5, <1>6, <2>2, LeaveFacts, AgentsAreClients
    <2> QED  BY <1>4, <1>6, <2>3 DEF Untouched
  <1>7. OneConnection'
    BY <1>6, ConnectionsDropped DEF RCInv
  <1>8. RCTypeOK'
    BY <1>1, <1>3, <1>5 DEF RCInv, RCTypeOK, lines
  <1>9. Nobody \notin Agents
    BY AgentsAreClients
  <1> QED  BY <1>1, <1>4, <1>7, <1>8, <1>9, ClientStep DEF lines

------------------------------------------------------------------------------
(* The invariant and the refinement.                                         *)

LEMMA RCInitially ==
    ASSUME RCInit
    PROVE  RCInv /\ Gate!GateInit
  <1>1. Resting(NoDocument) \in ClientState /\ Resting(NoDocument).step = "idle"
        /\ Resting(NoDocument).waiting = FALSE
    BY DEF Resting, ClientState, Steps
  <1>2. \A c \in Clients : client[c] = Resting(NoDocument)
    BY DEF RCInit
  <1>3. RCTypeOK
    <2>1. client \in [Clients -> ClientState]
      BY <1>1 DEF RCInit
    <2>2. held \in [Agents -> Seq(Acts) \ {<<>>}]
      BY RuntimeCheckAssumption DEF RCInit
    <2>3. document \in [Hosts -> Documents]
      BY RuntimeCheckAssumption DEF RCInit
    <2>4. queue \in [Hosts -> Seq(Request)]
      BY DEF RCInit
    <2> QED  BY <2>1, <2>2, <2>3, <2>4 DEF RCInit, RCTypeOK
  <1>4. OneConnection
    BY DEF RCInit, OneConnection
  <1>5. ASSUME NEW p \in Agents
        PROVE  LineState(p) /\ NotGranted(p) /\ UnderPinned(p)
    <2>1. client[p].step = "idle" /\ ~client[p].waiting
      BY <1>1, <1>2, AgentsAreClients
    <2> QED  BY <2>1, AgentsAreClients DEF RCInit, LineState, NotGranted, UnderPinned
  <1>6. Gate!GateInit
    <2>1. \A p \in Agents : ~Busy(p)
      BY <1>1, <1>2, AgentsAreClients DEF Busy
    <2> QED  BY <2>1 DEF RCInit, Gate!GateInit
  <1> QED  BY <1>3, <1>4, <1>5, <1>6 DEF RCInv

LEMMA RCSteps ==
    ASSUME RCInv, [RCNext]_rcVars
    PROVE  StepHolds
  <1>1. CASE UNCHANGED rcVars
    <2>1. client' = client /\ UNCHANGED <<dead, document, queue, lines, granted, followed>>
      BY <1>1 DEF rcVars
    <2>2. client' \in [Clients -> ClientState] /\ \A p \in Agents : Untouched(p)
      BY <2>1, NoClientChanges
    <2>3. OneConnection'
      BY <2>1, <2>2, ConnectionsStay DEF RCInv, Untouched
    <2>4. RCTypeOK' /\ Nobody \notin Agents
      BY <2>1, <2>2, AgentsAreClients DEF RCInv, RCTypeOK, lines
    <2> QED  BY <2>1, <2>2, <2>3, <2>4, ClientStep DEF lines
  <1>2. ASSUME NEW c \in Clients, ClientNext(c) \/ GiveUp(c)
        PROVE  StepHolds
    BY <1>2, SendStep, SignStep, NextActStep, FinishStep, GiveUpStep DEF ClientNext
  <1>3. CASE OutsideNext
    BY <1>3, VisitStep, DieStep, ChallengeExpiresStep, RestartStep DEF OutsideNext
  <1> QED  BY <1>1, <1>2, <1>3, AgentSteps, HostSteps DEF RCNext

LEMMA RCInvAlways == RCSpec => []RCInv
  <1>1. RCInit => RCInv
    BY RCInitially
  <1>2. RCInv /\ [RCNext]_rcVars => RCInv'
    BY RCSteps DEF StepHolds
  <1> QED  BY <1>1, <1>2, PTL DEF RCSpec

\* Every step of clients and hosts is a step of the gates or is not seen by
\* them: the exchanges implement the safety half of ToolGate (what remains of
\* ImplementsToolGate is that every line is answered).
THEOREM GateIsSafe == RCSpec => Gate!GateSafety
  <1>1. RCInit => Gate!GateInit
    BY RCInitially
  <1>2. RCInv /\ [RCNext]_rcVars => [Gate!GateNext]_(Gate!gateVars)
    BY RCSteps DEF StepHolds
  <1> QED  BY <1>1, <1>2, RCInvAlways, PTL DEF RCSpec, Gate!GateSafety

\* An act that was dead when a line was read is not run on that line, whatever
\* was allowed on lines before (before_next_tool).
THEOREM DeathStops == RCSpec => []DeathStopsNextLine
  <1>1. RCInv => DeathStopsNextLine
    <2> SUFFICES ASSUME RCInv, NEW p \in Agents,
                        ~Busy(p), outcome[p] = "ALLOWED"
                 PROVE  covers[p] \intersect before[p] = {}
      BY DEF DeathStopsNextLine, Gate!DeathStopsNextLine
    <2> QED  BY DEF RCInv, LineState, NotGranted, Busy
  <1> QED  BY <1>1, RCInvAlways, PTL

\* All that an agent process was ever granted was granted under one document
\* (pin_or_refuse_well_known).
THEOREM OneDocument == RCSpec => []OneDocumentForLife
  <1>1. RCInv => OneDocumentForLife
    <2> SUFFICES ASSUME RCInv, NEW p \in Agents
                 PROVE  Cardinality(followed[p]) <= 1
      BY DEF OneDocumentForLife
    <2>1. followed[p] \subseteq {client[p].pinned}
      BY DEF RCInv, UnderPinned
    <2>2. IsFiniteSet({client[p].pinned}) /\ Cardinality({client[p].pinned}) = 1
      BY FS_Singleton
    <2>3. Cardinality(followed[p]) <= Cardinality({client[p].pinned})
      BY <2>1, <2>2, FS_Subset
    <2> QED  BY <2>2, <2>3
  <1> QED  BY <1>1, RCInvAlways, PTL
===============================================================================
