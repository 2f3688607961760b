-------------------------- MODULE DaemonRelayProofs --------------------------
(***************************************************************************)
(* Proofs about the shared daemon and the relays of its clients.           *)
(***************************************************************************)
EXTENDS DaemonRelay, TLAPS

-----------------------------------------------------------------------------
(* Types: the clients, their connections, what hosts saw and daemons ran,  *)
(* and the fleet.                                                          *)

\* What a session starts with, and what is left of it.
LEMMA NewTypes == NewClient \in ClientStates /\ NoLink \in Links
<1>1. NewClient \in ClientStates
  BY RelayAssumption DEF NewClient, ClientStates, Builds
<1>2. NoLink \in Links
  BY DEF NoLink, Links
<1> QED
  BY <1>1, <1>2

LEMMA EndedType ==
  ASSUME NEW pc \in Over
  PROVE  /\ Ended(pc) \in ClientStates /\ Ended(pc).pc = pc /\ Ended(pc).pending = {}
         /\ Ended(pc).handshake = "none" /\ Ended(pc).swallow = FALSE
         /\ Ended(pc).initialized = FALSE
<1>1. Ended(pc) = [NewClient EXCEPT !.pc = pc]
  BY DEF Ended
<1>2. Ended(pc) \in ClientStates
  BY <1>1, NewTypes DEF ClientStates, Over
<1>3. /\ Ended(pc).pc = pc /\ Ended(pc).pending = {}
      /\ Ended(pc).handshake = "none" /\ Ended(pc).swallow = FALSE
      /\ Ended(pc).initialized = FALSE
  BY <1>1 DEF NewClient
<1> QED
  BY <1>2, <1>3

\* One more answer.
LEMMA ToldType ==
  ASSUME NEW x \in HostStates
  PROVE  Told(x) \in HostStates /\ Told(x).got = x.got + 1 /\ Told(x).sent = x.sent
<1>1. x.got \in Nat
  BY DEF HostStates
<1> QED
  BY <1>1 DEF HostStates, Told

\* One client at a time.
LEMMA OneClient ==
  ASSUME client \in [Clients -> ClientStates], NEW c \in Clients, NEW y \in ClientStates,
         client' = [client EXCEPT ![c] = y]
  PROVE  client' \in [Clients -> ClientStates]
  OBVIOUS

LEMMA OneLink ==
  ASSUME link \in [Clients -> Links], NEW c \in Clients, NEW y \in Links,
         link' = [link EXCEPT ![c] = y]
  PROVE  link' \in [Clients -> Links]
  OBVIOUS

-----------------------------------------------------------------------------
(* Steps of one session.                                                   *)

Changes(f, g, c, x) == g = [f EXCEPT ![c] = x] \/ (g = f /\ x = f[c])

\* A step after which c's session is in order, and the others are as they were.
SessionStep(c) ==
  \E y \in ClientStates, l \in Links, h \in [Requests -> HostStates], n \in [Calls -> Nat] :
    /\ Changes(client, client', c, y) /\ Changes(link, link', c, l)
    /\ Changes(host, host', c, h) /\ Changes(ran, ran', c, n)
    /\ SessionHolds(y, l, h, n)

\* What there is to a session that has the types.
Typed(c) ==
  /\ client \in [Clients -> ClientStates] /\ client[c] \in ClientStates
  /\ link \in [Clients -> Links] /\ link[c] \in Links
  /\ host \in [Clients -> [Requests -> HostStates]] /\ host[c] \in [Requests -> HostStates]
  /\ ran \in [Clients -> [Calls -> Nat]] /\ ran[c] \in [Calls -> Nat]
  /\ SessionHolds(client[c], link[c], host[c], ran[c])

LEMMA SessionTyped ==
  ASSUME RelayTypeOK, SessionsHold, NEW c \in Clients
  PROVE  Typed(c)
  BY DEF RelayTypeOK, SessionsHold, Typed

\* Such a step keeps all sessions in order.
LEMMA OneSession ==
  ASSUME RelayTypeOK, SessionsHold, NEW c \in Clients, SessionStep(c)
  PROVE  /\ client' \in [Clients -> ClientStates] /\ link' \in [Clients -> Links]
         /\ host' \in [Clients -> [Requests -> HostStates]] /\ ran' \in [Clients -> [Calls -> Nat]]
         /\ SessionsHold'
<1>1. PICK y \in ClientStates, l \in Links, h \in [Requests -> HostStates], n \in [Calls -> Nat] :
        /\ Changes(client, client', c, y) /\ Changes(link, link', c, l)
        /\ Changes(host, host', c, h) /\ Changes(ran, ran', c, n)
        /\ SessionHolds(y, l, h, n)
  BY DEF SessionStep
<1>2. client' \in [Clients -> ClientStates] /\ client'[c] = y
      /\ \A d \in Clients \ {c} : client'[d] = client[d]
  BY <1>1 DEF Changes, RelayTypeOK
<1>3. link' \in [Clients -> Links] /\ link'[c] = l
      /\ \A d \in Clients \ {c} : link'[d] = link[d]
  BY <1>1 DEF Changes, RelayTypeOK
<1>4. host' \in [Clients -> [Requests -> HostStates]] /\ host'[c] = h
      /\ \A d \in Clients \ {c} : host'[d] = host[d]
  BY <1>1 DEF Changes, RelayTypeOK
<1>5. ran' \in [Clients -> [Calls -> Nat]] /\ ran'[c] = n
      /\ \A d \in Clients \ {c} : ran'[d] = ran[d]
  BY <1>1 DEF Changes, RelayTypeOK
<1>6. ASSUME NEW d \in Clients PROVE SessionHolds(client'[d], link'[d], host'[d], ran'[d])
  <2>1. CASE d = c
    BY <1>1, <1>2, <1>3, <1>4, <1>5, <2>1
  <2>2. CASE d # c
    BY <1>2, <1>3, <1>4, <1>5, <2>2 DEF SessionsHold
  <2> QED
    BY <2>1, <2>2
<1> QED
  BY <1>2, <1>3, <1>4, <1>5, <1>6 DEF SessionsHold

\* A client that goes on with the same conversation.
SameConversation(x, y) ==
  /\ y.pending = x.pending /\ y.handshake = x.handshake /\ y.swallow = x.swallow
  /\ y.initialized = x.initialized /\ y.consumed = x.consumed

LEMMA SameTalk ==
  ASSUME NEW cl, NEW y, NEW ln, NEW ho, NEW rn, SessionHolds(cl, ln, ho, rn),
         cl.pc \notin Over, y.pc \notin Over, PhaseHolds(y, ln), SameConversation(cl, y)
  PROVE  SessionHolds(y, ln, ho, rn)
  BY DEF SessionHolds, RequestHolds, HandshakeHolds, CallsHold, ChangeHolds, SameConversation

\* A client whose conversation is over.
LEMMA TalkEnds ==
  ASSUME NEW pc \in Over, NEW ho, NEW rn,
         \A r \in Requests : /\ ~ho[r].sent => ho[r].got = 0
                             /\ ho[r].got <= 1 \/ (HandshakesOverlap /\ r = "initialize"),
         \A r \in StateChanging : rn[r] <= 1 /\ (~ho[r].sent => rn[r] = 0)
  PROVE  SessionHolds(Ended(pc), NoLink, ho, rn)
<1> DEFINE y == Ended(pc)
<1>1. NoLink.running = {} /\ NoLink.answers = {} /\ NoLink.open = FALSE
  BY DEF NoLink
<1>2. /\ y.pc = pc /\ y.pending = {} /\ y.handshake = "none" /\ y.swallow = FALSE
      /\ y.initialized = FALSE
  BY EndedType
<1> HIDE DEF y
<1>3. ASSUME NEW r \in Requests PROVE RequestHolds(y, NoLink, ho, r)
  <2>1. r \notin NoLink.running /\ r \notin NoLink.answers /\ r \notin y.pending
    BY <1>1, <1>2
  <2> QED
    BY <2>1 DEF RequestHolds, Carried
<1>4. HandshakeHolds(y, NoLink, ho)
  BY <1>1, <1>2 DEF HandshakeHolds, Carried
<1>5. CallsHold(y, NoLink)
  BY <1>1, <1>2 DEF CallsHold, Carried
<1>6. PhaseHolds(y, NoLink)
  BY <1>2 DEF PhaseHolds, Over, Dialling
<1>7. \A r \in StateChanging : ChangeHolds(NoLink, ho, rn, r)
  BY <1>1 DEF ChangeHolds
<1> QED
  BY <1>3, <1>4, <1>5, <1>6, <1>7 DEF SessionHolds, y

\* A step of the client alone, in the same conversation.
LEMMA ClientMoves ==
  ASSUME NEW c \in Clients, Typed(c), NEW y \in ClientStates,
         client' = [client EXCEPT ![c] = y], UNCHANGED <<link, host, ran>>,
         client[c].pc \notin Over, y.pc \notin Over, PhaseHolds(y, link[c]),
         SameConversation(client[c], y)
  PROVE  SessionStep(c)
<1>1. SessionHolds(y, link[c], host[c], ran[c])
  BY SameTalk DEF Typed
<1>2. /\ Changes(client, client', c, y) /\ Changes(link, link', c, link[c])
      /\ Changes(host, host', c, host[c]) /\ Changes(ran, ran', c, ran[c])
  BY DEF Changes
<1> QED
  BY <1>1, <1>2 DEF SessionStep, Typed

\* The first look at the socket.
LEMMA DialStep ==
  ASSUME RelayTypeOK, NEW c \in Clients, Typed(c), Dial(c)
  PROVE  SessionStep(c)
<1> DEFINE d == socket[target]
           p == IF Listens(d) THEN "stat" ELSE "lock"
           e == IF Listens(d) THEN d ELSE Nobody
           k == target
           y == [client[c] EXCEPT !.target = k, !.pc = p, !.reached = e]
<1>1. client' = [client EXCEPT ![c] = y] /\ UNCHANGED <<link, host, ran>> /\ client[c].pc = "dial"
  BY DEF Dial
<1>2. p \in {"stat", "lock"} /\ k \in Builds /\ e \in Daemons \cup {Nobody}
  BY RelayAssumption DEF target, startup, Builds, RelayTypeOK, Typed, ClientStates
<1> HIDE DEF p, k, e
<1>3. y \in ClientStates
  BY <1>2 DEF Typed, ClientStates
<1>4. y.pc = p /\ y.why = client[c].why /\ SameConversation(client[c], y)
  BY DEF Typed, ClientStates, SameConversation
<1> HIDE DEF y
<1>5. PhaseHolds(y, link[c]) /\ client[c].pc \notin Over /\ y.pc \notin Over
  BY <1>1, <1>2, <1>4 DEF Typed, SessionHolds, PhaseHolds, SameConversation, Over, Dialling
<1> QED
  BY <1>1, <1>3, <1>4, <1>5, ClientMoves

\* The spawn lock.
LEMMA SpawnLockStep ==
  ASSUME RelayTypeOK, NEW c \in Clients, Typed(c), SpawnLock(c)
  PROVE  SessionStep(c)
<1> DEFINE y == [client[c] EXCEPT !.pc = "recheck"]
<1>1. client' = [client EXCEPT ![c] = y] /\ UNCHANGED <<link, host, ran>> /\ client[c].pc = "lock"
  BY DEF SpawnLock
<1>2. y \in ClientStates /\ y.pc = "recheck" /\ SameConversation(client[c], y)
      /\ y.why = client[c].why
  BY DEF Typed, ClientStates, SameConversation
<1> HIDE DEF y
<1>3. PhaseHolds(y, link[c]) /\ client[c].pc \notin Over /\ y.pc \notin Over
  BY <1>1, <1>2 DEF Typed, SessionHolds, PhaseHolds, SameConversation, Over, Dialling
<1> QED
  BY <1>1, <1>2, <1>3, ClientMoves

\* The corpse of a socket.
LEMMA ClearStaleStep ==
  ASSUME RelayTypeOK, NEW c \in Clients, Typed(c), ClearStale(c)
  PROVE  SessionStep(c)
<1> DEFINE y == [client[c] EXCEPT !.pc = "spawn"]
<1>1. client' = [client EXCEPT ![c] = y] /\ UNCHANGED <<link, host, ran>> /\ client[c].pc = "clear"
  BY DEF ClearStale
<1>2. y \in ClientStates /\ y.pc = "spawn" /\ SameConversation(client[c], y)
      /\ y.why = client[c].why
  BY DEF Typed, ClientStates, SameConversation
<1> HIDE DEF y
<1>3. PhaseHolds(y, link[c]) /\ client[c].pc \notin Over /\ y.pc \notin Over
  BY <1>1, <1>2 DEF Typed, SessionHolds, PhaseHolds, SameConversation, Over, Dialling
<1> QED
  BY <1>1, <1>2, <1>3, ClientMoves

\* A move is tried again.
LEMMA RetryDueStep ==
  ASSUME RelayTypeOK, NEW c \in Clients, Typed(c), RetryDue(c)
  PROVE  SessionStep(c)
<1> DEFINE y == [client[c] EXCEPT !.retry = TRUE]
<1>1. client' = [client EXCEPT ![c] = y] /\ UNCHANGED <<link, host, ran>> /\ client[c].pc = "up"
  BY DEF RetryDue
<1>2. y \in ClientStates /\ y.pc = "up" /\ SameConversation(client[c], y)
      /\ y.why = client[c].why
  BY <1>1 DEF Typed, ClientStates, SameConversation
<1> HIDE DEF y
<1>3. PhaseHolds(y, link[c]) /\ client[c].pc \notin Over /\ y.pc \notin Over
  BY <1>1, <1>2 DEF Typed, SessionHolds, PhaseHolds, SameConversation, Over, Dialling
<1> QED
  BY <1>1, <1>2, <1>3, ClientMoves

\* A move between requests.
LEMMA MoveStep ==
  ASSUME RelayTypeOK, NEW c \in Clients, Typed(c), Move(c)
  PROVE  SessionStep(c)
<1> DEFINE y == [client[c] EXCEPT !.pc = "dial", !.why = "move"]
<1>1. client' = [client EXCEPT ![c] = y] /\ UNCHANGED <<link, host, ran>> /\ client[c].pc = "up"
  BY DEF Move
<1>2. y \in ClientStates /\ y.pc = "dial" /\ SameConversation(client[c], y)
      /\ y.why = "move" /\ client[c].pending = {}
  BY DEF Move, Typed, ClientStates, SameConversation
<1> HIDE DEF y
<1>3. PhaseHolds(y, link[c]) /\ client[c].pc \notin Over /\ y.pc \notin Over
  BY <1>1, <1>2 DEF Typed, SessionHolds, PhaseHolds, SameConversation, Over, Dialling
<1> QED
  BY <1>1, <1>2, <1>3, ClientMoves

\* The client has reached a daemon.
LEMMA ReachStep ==
  ASSUME RelayTypeOK, NEW c \in Clients, Typed(c), NEW d \in Daemons, Reach(c, d),
         UNCHANGED <<link, host, ran>>, client[c].pc \in {"recheck", "wait"}
  PROVE  SessionStep(c)
<1> DEFINE y == [client[c] EXCEPT !.pc = "stat", !.reached = d]
<1>1. client' = [client EXCEPT ![c] = y]
  BY DEF Reach
<1>2. y \in ClientStates /\ y.pc = "stat" /\ SameConversation(client[c], y)
      /\ y.why = client[c].why
  BY DEF Typed, ClientStates, SameConversation
<1> HIDE DEF y
<1>3. PhaseHolds(y, link[c]) /\ client[c].pc \notin Over /\ y.pc \notin Over
  BY <1>2 DEF Typed, SessionHolds, PhaseHolds, SameConversation, Over, Dialling
<1> QED
  BY <1>1, <1>2, <1>3, ClientMoves

\* The second look, under the lock.
LEMMA RecheckStep ==
  ASSUME RelayTypeOK, NEW c \in Clients, Typed(c), Recheck(c)
  PROVE  SessionStep(c)
<1> DEFINE d == socket[client[c].target]
           y == [client[c] EXCEPT !.pc = "clear"]
<1>1. UNCHANGED <<link, host, ran>> /\ client[c].pc = "recheck"
  BY DEF Recheck
<1>2. CASE Listens(d)
  <2>1. Reach(c, d) /\ d \in Daemons
    BY <1>2 DEF Recheck, Listens, RelayTypeOK, Typed, ClientStates
  <2> QED
    BY <1>1, <2>1, ReachStep
<1>3. CASE ~Listens(d)
  <2>1. client' = [client EXCEPT ![c] = y]
    BY <1>3 DEF Recheck
  <2>2. y \in ClientStates /\ y.pc = "clear" /\ SameConversation(client[c], y)
        /\ y.why = client[c].why
    BY DEF Typed, ClientStates, SameConversation
  <2> HIDE DEF y
  <2>3. PhaseHolds(y, link[c]) /\ client[c].pc \notin Over /\ y.pc \notin Over
    BY <1>1, <2>2 DEF Typed, SessionHolds, PhaseHolds, SameConversation, Over, Dialling
  <2> QED
    BY <1>1, <2>1, <2>2, <2>3, ClientMoves
<1> QED
  BY <1>2, <1>3

\* A relay that is over: its requests are answered or nobody waits for them.
LEMMA ClientEnds ==
  ASSUME RelayTypeOK, NEW c \in Clients, Typed(c), NEW pc \in Over, NEW h \in [Requests -> HostStates],
         client' = [client EXCEPT ![c] = Ended(pc)], Changes(link, link', c, NoLink),
         Changes(host, host', c, h), ran' = ran,
         \A r \in Requests : /\ h[r].sent = host[c][r].sent
                             /\ \/ h[r].got = host[c][r].got
                                \/ r \in client[c].pending /\ h[r].got = host[c][r].got + 1
  PROVE  SessionStep(c)
<1>1. SessionHolds(client[c], link[c], host[c], ran[c])
  BY DEF Typed
<1>2. ASSUME NEW r \in Requests
      PROVE  /\ ~h[r].sent => h[r].got = 0
             /\ h[r].got <= 1 \/ (HandshakesOverlap /\ r = "initialize")
  <2>1. RequestHolds(client[c], link[c], host[c], r)
    BY <1>1 DEF SessionHolds
  <2>2. host[c][r].got \in Nat
    BY DEF Typed, HostStates
  <2> QED
    BY <2>1, <2>2 DEF RequestHolds
<1>3. ASSUME NEW r \in StateChanging PROVE ran[c][r] <= 1 /\ (~h[r].sent => ran[c][r] = 0)
  <2>1. ChangeHolds(link[c], host[c], ran[c], r) /\ r \in Requests
    BY <1>1, RelayAssumption DEF SessionHolds, Requests
  <2> QED
    BY <2>1 DEF ChangeHolds
<1>4. SessionHolds(Ended(pc), NoLink, h, ran[c])
  BY <1>2, <1>3, TalkEnds
<1>5. Changes(client, client', c, Ended(pc)) /\ Changes(ran, ran', c, ran[c])
  BY DEF Changes
<1> QED
  BY <1>4, <1>5, EndedType, NewTypes DEF SessionStep, Typed

\* What a host gets from the relay itself.
LEMMA AnsweredIs ==
  ASSUME NEW c \in Clients, Typed(c), NEW rs
  PROVE  \E h \in [Requests -> HostStates] :
           /\ AnsweredHere(c, rs) = [host EXCEPT ![c] = h]
           /\ \A r \in Requests : /\ h[r].sent = host[c][r].sent
                                  /\ h[r].got = IF r \in rs THEN host[c][r].got + 1 ELSE host[c][r].got
<1> DEFINE h == [r \in Requests |-> IF r \in rs THEN Told(host[c][r]) ELSE host[c][r]]
<1>1. AnsweredHere(c, rs) = [host EXCEPT ![c] = h]
  BY DEF AnsweredHere
<1>2. ASSUME NEW r \in Requests
      PROVE  /\ h[r] \in HostStates /\ h[r].sent = host[c][r].sent
             /\ h[r].got = IF r \in rs THEN host[c][r].got + 1 ELSE host[c][r].got
  BY DEF Typed, HostStates, Told
<1>3. h \in [Requests -> HostStates]
  BY <1>2
<1> HIDE DEF h
<1> QED
  BY <1>1, <1>2, <1>3

\* The relay gives up and answers what is in flight.
LEMMA GivesUp ==
  ASSUME RelayTypeOK, NEW c \in Clients, Typed(c),
         client' = [client EXCEPT ![c] = Ended("failed")], host' = Abandoned(c),
         link' = [link EXCEPT ![c] = NoLink], ran' = ran
  PROVE  SessionStep(c)
<1>1. PICK h \in [Requests -> HostStates] :
        /\ AnsweredHere(c, client[c].pending) = [host EXCEPT ![c] = h]
        /\ \A r \in Requests :
             /\ h[r].sent = host[c][r].sent
             /\ h[r].got = IF r \in client[c].pending THEN host[c][r].got + 1 ELSE host[c][r].got
  BY AnsweredIs
<1>2. Changes(host, host', c, h) /\ Changes(link, link', c, NoLink) /\ "failed" \in Over
  BY <1>1 DEF Changes, Over, Abandoned
<1> QED
  BY <1>1, <1>2, ClientEnds

\* The relay ends with the host's answers as they are.
LEMMA ClientLeaves ==
  ASSUME RelayTypeOK, NEW c \in Clients, Typed(c), NEW pc \in Over,
         client' = [client EXCEPT ![c] = Ended(pc)],
         Changes(link, link', c, NoLink), host' = host, ran' = ran
  PROVE  SessionStep(c)
<1>1. Changes(host, host', c, host[c])
  BY DEF Changes
<1>2. host[c] \in [Requests -> HostStates]
  BY DEF Typed
<1> QED
  BY <1>1, <1>2, ClientEnds

\* No daemon could be had.
LEMMA NoDaemonStep ==
  ASSUME RelayTypeOK, NEW c \in Clients, Typed(c), NoDaemon(c), ran' = ran,
         client[c].pc \in {"spawn", "wait"}
  PROVE  SessionStep(c)
<1>1. SessionHolds(client[c], link[c], host[c], ran[c])
  BY DEF Typed
<1>2. CASE client[c].why = "first"
  <2>1. client' = [client EXCEPT ![c] = Ended("local")] /\ UNCHANGED <<link, host>>
    BY <1>2 DEF NoDaemon
  <2>2. link[c] = NoLink /\ "local" \in Over /\ client[c].pc \in Dialling
    BY <1>1, <1>2 DEF SessionHolds, PhaseHolds, Dialling, Over
  <2>3. Changes(link, link', c, NoLink) /\ host' = host
    BY <2>1, <2>2 DEF Changes
  <2> QED
    BY <2>1, <2>2, <2>3, ClientLeaves
<1>3. CASE client[c].why = "move"
  <2> DEFINE y == [client[c] EXCEPT !.pc = "up", !.retry = FALSE, !.reached = Nobody]
  <2>1. client' = [client EXCEPT ![c] = y] /\ UNCHANGED <<link, host, ran>>
    BY <1>3 DEF NoDaemon
  <2>2. y \in ClientStates /\ y.pc = "up" /\ SameConversation(client[c], y)
    BY DEF Typed, ClientStates, SameConversation
  <2> HIDE DEF y
  <2>3. PhaseHolds(y, link[c]) /\ client[c].pc \notin Over /\ y.pc \notin Over
    BY <2>2 DEF PhaseHolds, Over, Dialling
  <2> QED
    BY <2>1, <2>2, <2>3, ClientMoves
<1>4. CASE client[c].why \notin {"first", "move"}
  <2>1. client' = [client EXCEPT ![c] = Ended("failed")] /\ host' = Abandoned(c)
        /\ link' = [link EXCEPT ![c] = NoLink]
    BY <1>4 DEF NoDaemon
  <2> QED
    BY <2>1, GivesUp
<1> QED
  BY <1>2, <1>3, <1>4

LEMMA SpawnDaemonStep ==
  ASSUME RelayTypeOK, NEW c \in Clients, Typed(c), SpawnDaemon(c)
  PROVE  SessionStep(c)
<1>1. client[c].pc = "spawn" /\ ran' = ran
  BY DEF SpawnDaemon
<1> DEFINE d == CHOOSE e \in Daemons : daemon[e].pc = "off"
           y == [client[c] EXCEPT !.pc = "wait", !.reached = d]
<1>2. CASE NoDaemon(c)
  BY <1>1, <1>2, NoDaemonStep
<1>3. CASE /\ \E e \in Daemons : daemon[e].pc = "off"
           /\ client' = [client EXCEPT ![c].pc = "wait", ![c].reached = d]
           /\ UNCHANGED <<link, host>>
  <2>1. client' = [client EXCEPT ![c] = y]
    BY <1>3
  <2>2. d \in Daemons
    BY <1>3
  <2> HIDE DEF d
  <2>3. y \in ClientStates /\ y.pc = "wait" /\ SameConversation(client[c], y)
        /\ y.why = client[c].why
    BY <2>2 DEF Typed, ClientStates, SameConversation
  <2> HIDE DEF y
  <2>4. PhaseHolds(y, link[c]) /\ client[c].pc \notin Over /\ y.pc \notin Over
    BY <1>1, <2>3 DEF Typed, SessionHolds, PhaseHolds, SameConversation, Over, Dialling
  <2> QED
    BY <1>1, <1>3, <2>1, <2>3, <2>4, ClientMoves
<1> QED
  BY <1>2, <1>3 DEF SpawnDaemon

LEMMA WaitForDaemonStep ==
  ASSUME RelayTypeOK, NEW c \in Clients, Typed(c), WaitForDaemon(c)
  PROVE  SessionStep(c)
<1> DEFINE d == socket[client[c].target]
<1>1. client[c].pc = "wait" /\ ran' = ran
  BY DEF WaitForDaemon
<1>2. CASE NoDaemon(c)
  BY <1>1, <1>2, NoDaemonStep
<1>3. CASE Listens(d) /\ Reach(c, d) /\ UNCHANGED <<link, host>>
  <2>1. d \in Daemons
    BY <1>3 DEF Listens, RelayTypeOK, Typed, ClientStates
  <2> QED
    BY <1>1, <1>3, <2>1, ReachStep
<1> QED
  BY <1>2, <1>3 DEF WaitForDaemon

LEMMA DrainExpiresStep ==
  ASSUME RelayTypeOK, NEW c \in Clients, Typed(c), DrainExpires(c)
  PROVE  SessionStep(c)
<1>1. "failed" \in Over
  BY DEF Over
<1>2. client' = [client EXCEPT ![c] = Ended("failed")] /\ Changes(link, link', c, NoLink)
      /\ host' = host /\ ran' = ran
  BY DEF DrainExpires, Changes
<1> QED
  BY <1>1, <1>2, ClientLeaves

LEMMA ClientDiesStep ==
  ASSUME RelayTypeOK, NEW c \in Clients, Typed(c), ClientDies(c)
  PROVE  SessionStep(c)
<1>1. "dead" \in Over
  BY DEF Over
<1>2. client' = [client EXCEPT ![c] = Ended("dead")] /\ Changes(link, link', c, NoLink)
      /\ host' = host /\ ran' = ran
  BY DEF ClientDies, Changes
<1> QED
  BY <1>1, <1>2, ClientLeaves

\* The connection is lost.
LEMMA LostStep ==
  ASSUME RelayTypeOK, NEW c \in Clients, Typed(c), Lost(c)
  PROVE  SessionStep(c)
<1> DEFINE losses == IF link[c].delivered THEN 1 ELSE client[c].quick_losses + 1
           asked == client[c].input_open \/ client[c].pending # {}
           y == [client[c] EXCEPT !.pc = "dial", !.why = "lost", !.quick_losses = losses]
<1>1. client[c].pc = "up" /\ ran' = ran
  BY DEF Lost
<1>2. CASE ~client[c].input_open /\ client[c].pending = {}
  <2>1. client' = [client EXCEPT ![c] = Ended("done")] /\ Changes(link, link', c, NoLink)
        /\ host' = host /\ "done" \in Over
    BY <1>2 DEF Lost, Changes, Over
  <2> QED
    BY <1>1, <2>1, ClientLeaves
<1>3. CASE client[c].input_open /\ ~client[c].consumed
  <2>1. client' = [client EXCEPT ![c] = Ended("local")] /\ Changes(link, link', c, NoLink)
        /\ host' = host /\ "local" \in Over
    BY <1>3 DEF Lost, Changes, Over
  <2> QED
    BY <1>1, <2>1, ClientLeaves
<1>4. CASE client[c].consumed /\ losses > QUICK_LOSSES_BEFORE_GIVING_UP /\ asked
  <2>1. client' = [client EXCEPT ![c] = Ended("failed")] /\ host' = Abandoned(c)
        /\ link' = [link EXCEPT ![c] = NoLink]
    BY <1>4 DEF Lost
  <2> QED
    BY <1>1, <2>1, GivesUp
<1>5. CASE /\ ~(~client[c].input_open /\ client[c].pending = {})
           /\ ~(client[c].input_open /\ ~client[c].consumed)
           /\ ~(client[c].consumed /\ losses > QUICK_LOSSES_BEFORE_GIVING_UP /\ asked)
  <2>1. client' = [client EXCEPT ![c] = y] /\ UNCHANGED <<link, host, ran>>
    BY <1>5 DEF Lost
  <2>2. client[c].pending # {} => client[c].consumed
    BY DEF Typed, SessionHolds, CallsHold
  <2>3. client[c].consumed \in BOOLEAN /\ client[c].input_open \in BOOLEAN
        /\ client[c].quick_losses \in Nat
    BY DEF Typed, ClientStates
  <2>4. losses \in 0 .. QUICK_LOSSES_BEFORE_GIVING_UP
    BY <1>5, <2>2, <2>3, RelayAssumption
  <2> HIDE DEF losses
  <2>5. y \in ClientStates /\ y.pc = "dial" /\ SameConversation(client[c], y) /\ y.why = "lost"
    BY <2>4 DEF Typed, ClientStates, SameConversation
  <2> HIDE DEF y
  <2>6. PhaseHolds(y, link[c]) /\ client[c].pc \notin Over /\ y.pc \notin Over
    BY <1>1, <2>5 DEF PhaseHolds, Over, Dialling
  <2> QED
    BY <2>1, <2>5, <2>6, ClientMoves
<1> QED
  BY <1>2, <1>3, <1>4, <1>5

LEMMA CloseInputStep ==
  ASSUME RelayTypeOK, NEW c \in Clients, Typed(c), CloseInput(c)
  PROVE  SessionStep(c)
<1> DEFINE y == [client[c] EXCEPT !.input_open = FALSE]
<1>1. client[c].pc \in {"up", "local"} /\ UNCHANGED <<link, host, ran>>
  BY DEF CloseInput
<1>2. CASE client[c].pc = "local"
  <2>1. client' = [client EXCEPT ![c] = Ended("done")] /\ "done" \in Over
    BY <1>2 DEF CloseInput, Over
  <2>2. link[c] = NoLink
    BY <1>2 DEF Typed, SessionHolds, PhaseHolds, Over
  <2>3. Changes(link, link', c, NoLink) /\ host' = host /\ ran' = ran
    BY <1>1, <2>2 DEF Changes
  <2> QED
    BY <2>1, <2>3, ClientLeaves
<1>3. CASE client[c].pc = "up"
  <2>1. client' = [client EXCEPT ![c] = y]
    BY <1>3 DEF CloseInput
  <2>2. y \in ClientStates /\ y.pc = "up" /\ SameConversation(client[c], y)
    BY <1>3 DEF Typed, ClientStates, SameConversation
  <2> HIDE DEF y
  <2>3. PhaseHolds(y, link[c]) /\ client[c].pc \notin Over /\ y.pc \notin Over
    BY <1>3, <2>2 DEF PhaseHolds, Over, Dialling
  <2> QED
    BY <1>1, <2>1, <2>2, <2>3, ClientMoves
<1> QED
  BY <1>1, <1>2, <1>3

\* A step of the connection alone.
LEMMA LinkMoves ==
  ASSUME NEW c \in Clients, Typed(c), NEW l \in Links, Changes(link, link', c, l),
         UNCHANGED <<client, host, ran>>, SessionHolds(client[c], l, host[c], ran[c])
  PROVE  SessionStep(c)
<1>1. /\ Changes(client, client', c, client[c])
      /\ Changes(host, host', c, host[c]) /\ Changes(ran, ran', c, ran[c])
  BY DEF Changes
<1> QED
  BY <1>1 DEF SessionStep, Typed

\* A connection that carries as much, and stays or ends.
LEMMA SameLines ==
  ASSUME NEW cl, NEW ln, NEW l, NEW ho, NEW rn, SessionHolds(cl, ln, ho, rn), cl.pc \notin Over,
         PhaseHolds(cl, l), l.running \subseteq ln.running, l.answers = ln.answers,
         l.session = ln.session, l.open => ln.open
  PROVE  SessionHolds(cl, l, ho, rn)
<1>1. Carried(l) \subseteq Carried(ln)
  BY DEF Carried
<1>2. ASSUME NEW r \in Requests PROVE RequestHolds(cl, l, ho, r)
  BY <1>1 DEF SessionHolds, RequestHolds
<1>3. HandshakeHolds(cl, l, ho)
  BY <1>1 DEF SessionHolds, HandshakeHolds
<1>4. CallsHold(cl, l)
  BY <1>1 DEF SessionHolds, CallsHold
<1>5. ASSUME NEW r \in StateChanging PROVE ChangeHolds(l, ho, rn, r)
  BY DEF SessionHolds, ChangeHolds
<1> QED
  BY <1>2, <1>3, <1>4, <1>5 DEF SessionHolds

LEMMA HalfCloseStep ==
  ASSUME RelayTypeOK, NEW c \in Clients, Typed(c), HalfClose(c)
  PROVE  SessionStep(c)
<1> DEFINE l == [link[c] EXCEPT !.half_closed = TRUE]
<1>1. link' = [link EXCEPT ![c] = l] /\ UNCHANGED <<client, host, ran>> /\ client[c].pc = "up"
  BY DEF HalfClose
<1>2. l \in Links /\ l.running = link[c].running /\ l.answers = link[c].answers
      /\ l.session = link[c].session /\ l.open = link[c].open
  BY DEF Typed, Links
<1> HIDE DEF l
<1>3. PhaseHolds(client[c], l) /\ client[c].pc \notin Over
  BY <1>1 DEF PhaseHolds, Over, Dialling
<1>4. SessionHolds(client[c], l, host[c], ran[c])
  BY <1>2, <1>3, SameLines DEF Typed
<1> QED
  BY <1>1, <1>2, <1>4, LinkMoves DEF Changes

LEMMA AcceptStep ==
  ASSUME RelayTypeOK, NEW c \in Clients, Typed(c), Accept(c)
  PROVE  SessionStep(c)
<1> DEFINE l == [link[c] EXCEPT !.accepted = TRUE]
<1>1. link' = [link EXCEPT ![c] = l] /\ UNCHANGED <<client, host, ran>> /\ link[c].open
  BY DEF Accept
<1>2. l \in Links /\ l.running = link[c].running /\ l.answers = link[c].answers
      /\ l.session = link[c].session /\ l.open = link[c].open
  BY DEF Typed, Links
<1> HIDE DEF l
<1>3. PhaseHolds(client[c], l) /\ client[c].pc \notin Over
  BY <1>1 DEF Typed, SessionHolds, PhaseHolds, NoLink
<1>4. SessionHolds(client[c], l, host[c], ran[c])
  BY <1>2, <1>3, SameLines DEF Typed
<1> QED
  BY <1>1, <1>2, <1>4, LinkMoves DEF Changes

LEMMA EndOfInputStep ==
  ASSUME RelayTypeOK, NEW c \in Clients, Typed(c), EndOfInput(c)
  PROVE  SessionStep(c)
<1> DEFINE l == [link[c] EXCEPT !.to = Nobody, !.open = FALSE, !.accepted = FALSE, !.running = {}]
<1>1. link' = [link EXCEPT ![c] = l] /\ UNCHANGED <<client, host, ran>> /\ link[c].open
  BY DEF EndOfInput
<1>2. l \in Links /\ l.running = {} /\ l.answers = link[c].answers
      /\ l.session = link[c].session /\ l.open = FALSE
  BY DEF Typed, Links
<1> HIDE DEF l
<1>3. PhaseHolds(client[c], l) /\ client[c].pc \notin Over
  BY <1>1 DEF Typed, SessionHolds, PhaseHolds, NoLink
<1>4. SessionHolds(client[c], l, host[c], ran[c])
  BY <1>2, <1>3, SameLines DEF Typed
<1> QED
  BY <1>1, <1>2, <1>4, LinkMoves DEF Changes

\* A daemon that is gone closes its ends of the connections.
LEMMA ClosedHolds ==
  ASSUME RelayTypeOK, SessionsHold, NEW d \in Daemons, link' = Closed(d), UNCHANGED <<client, host, ran>>
  PROVE  link' \in [Clients -> Links] /\ SessionsHold'
<1>1. ASSUME NEW c \in Clients
      PROVE  link'[c] \in Links /\ SessionHolds(client[c], link'[c], host[c], ran[c])
  <2>0. Typed(c)
    BY SessionTyped
  <2>1. CASE link[c].to = d
    <3> DEFINE l == [link[c] EXCEPT !.to = Nobody, !.open = FALSE, !.accepted = FALSE, !.running = {}]
    <3>1. link'[c] = l
      BY <2>1 DEF Closed
    <3>2. l \in Links /\ l.running = {} /\ l.answers = link[c].answers
          /\ l.session = link[c].session /\ l.open = FALSE
      BY <2>0 DEF Typed, Links
    <3> HIDE DEF l
    <3>3. d # Nobody
      BY RelayAssumption
    <3>4. PhaseHolds(client[c], l) /\ client[c].pc \notin Over
      BY <2>0, <2>1, <3>3 DEF Typed, SessionHolds, PhaseHolds, NoLink
    <3>5. SessionHolds(client[c], l, host[c], ran[c])
      BY <2>0, <3>2, <3>4, SameLines DEF Typed
    <3> QED
      BY <3>1, <3>2, <3>5
  <2>2. CASE link[c].to # d
    BY <2>0, <2>2 DEF Closed, Typed
  <2> QED
    BY <2>1, <2>2
<1>2. link' \in [Clients -> Links]
  BY <1>1 DEF Closed
<1> QED
  BY <1>1, <1>2 DEF SessionsHold

\* All that a step changed of one session.
LEMMA AllMoves ==
  ASSUME NEW c \in Clients, NEW y \in ClientStates, NEW l \in Links,
         NEW h \in [Requests -> HostStates], NEW n \in [Calls -> Nat],
         Changes(client, client', c, y), Changes(link, link', c, l),
         Changes(host, host', c, h), Changes(ran, ran', c, n),
         \A r \in Requests : RequestHolds(y, l, h, r), HandshakeHolds(y, l, h), CallsHold(y, l),
         PhaseHolds(y, l), \A r \in StateChanging : ChangeHolds(l, h, n, r)
  PROVE  SessionStep(c)
<1>1. SessionHolds(y, l, h, n)
  BY DEF SessionHolds
<1> QED
  BY <1>1 DEF SessionStep

\* What there is to know about one request of a session that is in order.
LEMMA Known ==
  ASSUME NEW c \in Clients, Typed(c)
  PROVE  /\ \A r \in Requests : RequestHolds(client[c], link[c], host[c], r)
         /\ HandshakeHolds(client[c], link[c], host[c]) /\ CallsHold(client[c], link[c])
         /\ PhaseHolds(client[c], link[c])
         /\ \A r \in StateChanging : ChangeHolds(link[c], host[c], ran[c], r)
  BY DEF Typed, SessionHolds

\* A daemon runs a request.
LEMMA AnswerStep ==
  ASSUME RelayTypeOK, NEW c \in Clients, Typed(c), NEW r \in Requests, Answer(c, r)
  PROVE  SessionStep(c)
<1> DEFINE l == [link[c] EXCEPT !.running = @ \ {r}, !.answers = @ \cup {r}]
           n == IF r \in Calls THEN [ran[c] EXCEPT ![r] = @ + 1] ELSE ran[c]
<1>1. /\ link' = [link EXCEPT ![c] = l] /\ UNCHANGED <<client, host>>
      /\ link[c].open /\ r \in link[c].running
  BY DEF Answer
<1>2. Changes(ran, ran', c, n)
  BY DEF Answer, Changes
<1>3. l \in Links /\ l.running = link[c].running \ {r} /\ l.answers = link[c].answers \cup {r}
      /\ l.session = link[c].session /\ l.open = link[c].open
  BY DEF Typed, Links
<1>4. n \in [Calls -> Nat] /\ \A q \in Calls : n[q] = IF q = r THEN ran[c][q] + 1 ELSE ran[c][q]
  BY DEF Typed
<1> HIDE DEF l, n
<1>5. Carried(l) = Carried(link[c])
  BY <1>1, <1>3 DEF Carried
<1>6. ASSUME NEW q \in Requests PROVE RequestHolds(client[c], l, host[c], q)
  BY <1>1, <1>3, <1>5, Known DEF RequestHolds
<1>7. HandshakeHolds(client[c], l, host[c])
  BY <1>5, Known DEF HandshakeHolds
<1>8. CallsHold(client[c], l)
  BY <1>3, <1>5, Known DEF CallsHold
<1>9. PhaseHolds(client[c], l)
  BY <1>1, Known DEF PhaseHolds, NoLink
<1>10. ASSUME NEW q \in StateChanging PROVE ChangeHolds(l, host[c], n, q)
  <2>1. ChangeHolds(link[c], host[c], ran[c], q) /\ q \in Calls /\ q \in Requests
    BY Known, RelayAssumption DEF Requests
  <2>2. CASE q = r
    <3>1. host[c][q].sent
      BY <1>1, <2>1, <2>2, Known DEF RequestHolds, Carried, Typed, HostStates
    <3> QED
      BY <1>1, <1>3, <1>4, <2>1, <2>2, <3>1 DEF ChangeHolds
  <2>3. CASE q # r
    BY <1>3, <1>4, <2>1, <2>3 DEF ChangeHolds
  <2> QED
    BY <2>2, <2>3
<1>11. Changes(client, client', c, client[c]) /\ Changes(link, link', c, l)
       /\ Changes(host, host', c, host[c])
  BY <1>1 DEF Changes
<1> QED
  BY <1>2, <1>3, <1>4, <1>6, <1>7, <1>8, <1>9, <1>10, <1>11, AllMoves DEF Typed

\* The host says it has the handshake.
LEMMA InitializedStep ==
  ASSUME RelayTypeOK, NEW c \in Clients, Typed(c), Initialized(c)
  PROVE  SessionStep(c)
<1> DEFINE y == [client[c] EXCEPT !.initialized = TRUE]
           l == IF link[c].open THEN [link[c] EXCEPT !.session = "ready"] ELSE link[c]
<1>1. /\ client' = [client EXCEPT ![c] = y] /\ UNCHANGED <<host, ran>>
      /\ host[c]["initialize"].got > 0 /\ ~client[c].initialized
  BY DEF Initialized
<1>2. Changes(link, link', c, l)
  BY DEF Initialized, Changes
<1>3. l \in Links /\ l.running = link[c].running /\ l.answers = link[c].answers
      /\ l.open = link[c].open /\ (l.open => l.session = "ready")
      /\ (l.session = link[c].session \/ l.session = "ready") /\ (~link[c].open => l = link[c])
  BY DEF Typed, Links
<1>4. y \in ClientStates /\ y.pc = client[c].pc /\ y.why = client[c].why /\ y.initialized
      /\ y.pending = client[c].pending /\ y.handshake = client[c].handshake
      /\ y.swallow = client[c].swallow /\ y.consumed = client[c].consumed
  BY DEF Typed, ClientStates
<1>5. client[c].handshake \in {"none", "sent", "answered"} /\ host[c]["initialize"].sent \in BOOLEAN
  BY DEF Typed, ClientStates, HostStates, Requests
<1> HIDE DEF y, l
<1>6. Carried(l) = Carried(link[c])
  BY <1>3 DEF Carried
<1>7. ASSUME NEW q \in Requests PROVE RequestHolds(y, l, host[c], q)
  BY <1>3, <1>4, <1>6, Known DEF RequestHolds
<1>8. RequestHolds(client[c], link[c], host[c], "initialize")
  BY Known DEF Requests
<1>9. HandshakeHolds(y, l, host[c])
  BY <1>1, <1>4, <1>5, <1>6, <1>8, Known DEF HandshakeHolds, RequestHolds
<1>10. CallsHold(y, l)
  BY <1>3, <1>4, <1>6, Known DEF CallsHold
<1>11. PhaseHolds(y, l)
  BY <1>3, <1>4, Known DEF PhaseHolds, NoLink
<1>12. ASSUME NEW q \in StateChanging PROVE ChangeHolds(l, host[c], ran[c], q)
  BY <1>3, Known DEF ChangeHolds
<1>13. Changes(client, client', c, y) /\ Changes(host, host', c, host[c])
       /\ Changes(ran, ran', c, ran[c])
  BY <1>1 DEF Changes
<1> QED
  BY <1>2, <1>3, <1>4, <1>7, <1>9, <1>10, <1>11, <1>12, <1>13, AllMoves DEF Typed

\* The host takes a call back.
LEMMA CancelStep ==
  ASSUME RelayTypeOK, NEW c \in Clients, Typed(c), NEW r \in Requests, Cancel(c, r)
  PROVE  SessionStep(c)
<1> DEFINE y == [client[c] EXCEPT !.pending = @ \ {r}]
           l == [link[c] EXCEPT !.running = @ \ {r}]
           h == [host[c] EXCEPT ![r].cancelled = TRUE]
<1>1. /\ client' = [client EXCEPT ![c] = y] /\ link' = [link EXCEPT ![c] = l] /\ ran' = ran
      /\ client[c].pc = "up" /\ r \in Calls
  BY DEF Cancel
<1>2. host' = [host EXCEPT ![c] = h]
  BY DEF Cancel
<1>3. l \in Links /\ l.running = link[c].running \ {r} /\ l.answers = link[c].answers
      /\ l.open = link[c].open /\ l.session = link[c].session
  BY DEF Typed, Links
<1>4. y \in ClientStates /\ y.pc = client[c].pc /\ y.why = client[c].why
      /\ y.initialized = client[c].initialized
      /\ y.pending = client[c].pending \ {r} /\ y.handshake = client[c].handshake
      /\ y.swallow = client[c].swallow /\ y.consumed = client[c].consumed
  BY DEF Typed, ClientStates
<1>5. h \in [Requests -> HostStates]
      /\ \A q \in Requests : h[q].sent = host[c][q].sent /\ h[q].got = host[c][q].got
  BY DEF Typed, HostStates
<1>6. r # "initialize"
  BY <1>1, RelayAssumption
<1> HIDE DEF y, l, h
<1>7. Carried(l) \subseteq Carried(link[c])
  BY <1>3 DEF Carried
<1>8. ASSUME NEW q \in Requests PROVE RequestHolds(y, l, h, q)
  BY <1>3, <1>4, <1>5, <1>7, Known DEF RequestHolds
<1>9. HandshakeHolds(y, l, h)
  BY <1>4, <1>5, <1>6, <1>7, Known DEF HandshakeHolds, Requests
<1>10. CallsHold(y, l)
  BY <1>3, <1>4, <1>7, Known DEF CallsHold
<1>11. PhaseHolds(y, l)
  BY <1>1, <1>4 DEF PhaseHolds, Over, Dialling
<1>12. ASSUME NEW q \in StateChanging PROVE ChangeHolds(l, h, ran[c], q)
  BY <1>3, <1>5, Known, RelayAssumption DEF ChangeHolds, Requests
<1>13. Changes(client, client', c, y) /\ Changes(host, host', c, h)
       /\ Changes(ran, ran', c, ran[c]) /\ Changes(link, link', c, l)
  BY <1>1, <1>2 DEF Changes
<1> QED
  BY <1>3, <1>4, <1>5, <1>8, <1>9, <1>10, <1>11, <1>12, <1>13, AllMoves DEF Typed

\* An answer comes: the host's, or that of a repeated handshake.
LEMMA FromDaemonStep ==
  ASSUME RelayTypeOK, NEW c \in Clients, Typed(c), NEW r \in Requests, FromDaemon(c, r)
  PROVE  SessionStep(c)
<1> DEFINE swallowed == r = "initialize" /\ client[c].swallow
           s == IF r \in Calls THEN [client[c].sent EXCEPT ![r] = 0] ELSE client[c].sent
           y == [client[c] EXCEPT !.handshake = IF r = "initialize" THEN "answered" ELSE @,
                                  !.swallow = IF swallowed THEN FALSE ELSE @,
                                  !.pending = IF swallowed THEN @ ELSE @ \ {r},
                                  !.sent = s]
           l == [link[c] EXCEPT !.answers = @ \ {r}, !.delivered = TRUE]
           h == IF swallowed THEN host[c] ELSE [host[c] EXCEPT ![r].got = @ + 1]
<1>1. /\ link' = [link EXCEPT ![c] = l] /\ ran' = ran
      /\ client[c].pc = "up" /\ r \in link[c].answers
  BY DEF FromDaemon
<1>2. client' = [client EXCEPT ![c] = y]
  BY DEF FromDaemon
<1>3. Changes(host, host', c, h)
  BY DEF FromDaemon, Changes
<1>4. l \in Links /\ l.running = link[c].running /\ l.answers = link[c].answers \ {r}
      /\ l.open = link[c].open /\ l.session = link[c].session
  BY DEF Typed, Links
<1>5. s \in [Calls -> 0 .. 2]
  BY DEF Typed, ClientStates
<1> HIDE DEF s
<1>6. y \in ClientStates
  BY <1>5, ZenonT(60) DEF Typed, ClientStates
<1>7. /\ y.pc = client[c].pc /\ y.why = client[c].why
      /\ y.initialized = client[c].initialized /\ y.consumed = client[c].consumed
      /\ y.pending = (IF swallowed THEN client[c].pending ELSE client[c].pending \ {r})
      /\ y.handshake = (IF r = "initialize" THEN "answered" ELSE client[c].handshake)
      /\ y.swallow = (IF swallowed THEN FALSE ELSE client[c].swallow)
  BY DEF Typed, ClientStates
<1>8. /\ h \in [Requests -> HostStates]
      /\ \A q \in Requests :
           /\ h[q].sent = host[c][q].sent
           /\ h[q].got = IF q = r /\ ~swallowed THEN host[c][q].got + 1 ELSE host[c][q].got
           /\ host[c][q].got \in Nat
  <2> DEFINE told == [host[c][r] EXCEPT !.got = @ + 1]
  <2>1. told \in HostStates /\ told.sent = host[c][r].sent /\ told.got = host[c][r].got + 1
        /\ \A q \in Requests : host[c][q].got \in Nat
    <3>1. \A q \in Requests : host[c][q] \in HostStates
      BY DEF Typed
    <3>2. \A q \in Requests : host[c][q].got \in Nat
      BY <3>1 DEF HostStates
    <3>3. told.got = host[c][r].got + 1 /\ told.sent = host[c][r].sent
      BY <3>1 DEF HostStates
    <3>4. told \in HostStates
      BY <3>1, <3>2 DEF HostStates
    <3> QED
      BY <3>2, <3>3, <3>4
  <2>2. h = (IF swallowed THEN host[c] ELSE [host[c] EXCEPT ![r] = told])
    OBVIOUS
  <2> HIDE DEF told, h
  <2> QED
    BY <2>1, <2>2 DEF Typed
<1>9. client[c].swallow \in BOOLEAN /\ client[c].handshake \in {"none", "sent", "answered"}
      /\ \A q \in Requests : host[c][q].sent \in BOOLEAN
  BY DEF Typed, ClientStates, HostStates
<1> HIDE DEF y, l, h
<1>10. Carried(l) \subseteq Carried(link[c]) /\ r \notin Carried(l) /\ r \in Carried(link[c])
  BY <1>1, <1>4, Known DEF Carried, RequestHolds
<1>11. ASSUME NEW q \in Requests PROVE RequestHolds(y, l, h, q)
  <2>1. RequestHolds(client[c], link[c], host[c], q) /\ HandshakeHolds(client[c], link[c], host[c])
    BY Known
  <2>2. CASE q = r
    <3>1. host[c][q].sent /\ q \in Carried(link[c]) /\ q \notin Carried(l)
      BY <1>9, <1>10, <2>1, <2>2 DEF RequestHolds
    <3>2. swallowed => q \notin client[c].pending
      BY <2>1, <2>2 DEF HandshakeHolds
    <3>3. q \notin y.pending
      BY <1>7, <2>2, <3>2
    <3>4. h[q].got <= 1 \/ (HandshakesOverlap /\ q = "initialize")
      <4>1. CASE q \in Calls
        BY <1>8, <2>1, <2>2, <3>1, <4>1, RelayAssumption DEF RequestHolds
      <4>2. CASE q = "initialize" /\ swallowed
        BY <1>8, <2>1, <4>2 DEF RequestHolds
      <4>3. CASE q = "initialize" /\ ~swallowed
        <5>1. client[c].handshake = "sent" \/ HandshakesOverlap
          BY <1>10, <2>1, <2>2, <3>1, <4>3 DEF HandshakeHolds
        <5>2. CASE client[c].handshake = "sent"
          <6>1. host[c][q].got = 0
            BY <2>1, <4>3, <5>2 DEF HandshakeHolds, RequestHolds
          <6> QED
            BY <1>8, <2>2, <4>3, <6>1
        <5> QED
          BY <4>3, <5>1, <5>2
      <4> QED
        BY <4>1, <4>2, <4>3 DEF Requests
    <3> QED
      BY <1>4, <1>8, <3>1, <3>3, <3>4, <2>2 DEF RequestHolds, Carried
  <2>3. CASE q # r
    BY <1>4, <1>7, <1>8, <1>10, <2>1, <2>3 DEF RequestHolds
  <2> QED
    BY <2>2, <2>3
<1>12. HandshakeHolds(y, l, h)
  <2>1. RequestHolds(client[c], link[c], host[c], "initialize") /\ HandshakeHolds(client[c], link[c], host[c])
    BY Known DEF Requests
  <2>2. CASE r = "initialize"
    <3>1. host[c]["initialize"].sent /\ h["initialize"].sent
      BY <1>8, <1>9, <1>10, <2>1, <2>2 DEF RequestHolds, Requests
    <3>2. y.handshake = "answered" /\ "initialize" \notin y.pending
      BY <1>7, <2>1, <2>2 DEF HandshakeHolds
    <3> QED
      BY <1>7, <1>10, <2>2, <3>1, <3>2 DEF HandshakeHolds
  <2>3. CASE r # "initialize"
    BY <1>7, <1>8, <1>10, <2>1, <2>3 DEF HandshakeHolds, Requests
  <2> QED
    BY <2>2, <2>3
<1>13. CallsHold(y, l)
  BY <1>4, <1>7, <1>10, Known DEF CallsHold
<1>14. PhaseHolds(y, l)
  BY <1>1, <1>7 DEF PhaseHolds, Over, Dialling
<1>15. ASSUME NEW q \in StateChanging PROVE ChangeHolds(l, h, ran[c], q)
  BY <1>4, <1>8, Known, RelayAssumption DEF ChangeHolds, Requests
<1>16. Changes(client, client', c, y) /\ Changes(ran, ran', c, ran[c]) /\ Changes(link, link', c, l)
  BY <1>1, <1>2 DEF Changes
<1> QED
  BY <1>3, <1>4, <1>6, <1>8, <1>11, <1>12, <1>13, <1>14, <1>15, <1>16, AllMoves DEF Typed

\* The host asks a process that serves its session itself.
LEMMA AskedHere ==
  ASSUME RelayTypeOK, NEW c \in Clients, Typed(c), NEW r \in Requests, FromHost(c, r),
         client[c].pc = "local"
  PROVE  SessionStep(c)
<1> DEFINE y == [client[c] EXCEPT !.consumed = TRUE]
           told == [Told(host[c][r]) EXCEPT !.sent = TRUE]
           h == [host[c] EXCEPT ![r] = told]
           n == IF r \in Calls THEN [ran[c] EXCEPT ![r] = @ + 1] ELSE ran[c]
<1>1. /\ client' = [client EXCEPT ![c] = y] /\ link' = link
      /\ ~host[c][r].sent /\ (r \in Calls => client[c].initialized)
  BY DEF FromHost
<1>2. host' = [host EXCEPT ![c] = h]
  BY DEF FromHost
<1>3. Changes(ran, ran', c, n)
  BY DEF FromHost, Changes
<1>4. y \in ClientStates /\ y.pc = "local" /\ y.why = client[c].why /\ y.consumed
      /\ y.initialized = client[c].initialized
      /\ y.pending = client[c].pending /\ y.handshake = client[c].handshake
      /\ y.swallow = client[c].swallow
  BY DEF Typed, ClientStates
<1>5. \A q \in Requests : host[c][q] \in HostStates
  BY DEF Typed
<1>6. told \in HostStates /\ told.sent /\ told.got = host[c][r].got + 1
  <2> DEFINE x == Told(host[c][r])
  <2>1. x \in HostStates /\ x.got = host[c][r].got + 1
    BY <1>5, ToldType
  <2>2. told = [x EXCEPT !.sent = TRUE]
    OBVIOUS
  <2> HIDE DEF x
  <2> QED
    BY <2>1, <2>2 DEF HostStates
<1>7. n \in [Calls -> Nat] /\ \A q \in Calls : n[q] = IF q = r THEN ran[c][q] + 1 ELSE ran[c][q]
  BY DEF Typed
<1> HIDE DEF y, told, n
<1>8. h \in [Requests -> HostStates] /\ \A q \in Requests : h[q] = IF q = r THEN told ELSE host[c][q]
  BY <1>6 DEF Typed
<1> HIDE DEF h
<1>9. link[c] = NoLink /\ NoLink.running = {} /\ NoLink.answers = {} /\ NoLink.open = FALSE
  BY Known DEF PhaseHolds, Over, NoLink
<1>10. ASSUME NEW q \in Requests PROVE RequestHolds(y, link[c], h, q)
  <2>1. RequestHolds(client[c], link[c], host[c], q)
    BY Known
  <2>2. CASE q = r
    <3>1. host[c][q].got = 0 /\ q \notin client[c].pending
      BY <1>1, <2>1, <2>2 DEF RequestHolds
    <3> QED
      BY <1>4, <1>6, <1>8, <1>9, <2>2, <3>1 DEF RequestHolds, Carried
  <2>3. CASE q # r
    BY <1>4, <1>8, <2>1, <2>3 DEF RequestHolds
  <2> QED
    BY <2>2, <2>3
<1>11. HandshakeHolds(y, link[c], h)
  BY <1>4, <1>9, Known DEF HandshakeHolds, Carried, Over
<1>12. CallsHold(y, link[c]) /\ PhaseHolds(y, link[c])
  BY <1>4, <1>9, Known DEF CallsHold, PhaseHolds, Carried, Over, Dialling
<1>13. ASSUME NEW q \in StateChanging PROVE ChangeHolds(link[c], h, n, q)
  <2>1. ChangeHolds(link[c], host[c], ran[c], q) /\ q \in Calls /\ q \in Requests
    BY Known, RelayAssumption DEF Requests
  <2> QED
    BY <1>1, <1>6, <1>7, <1>8, <1>9, <2>1 DEF ChangeHolds
<1>14. Changes(client, client', c, y) /\ Changes(host, host', c, h) /\ Changes(link, link', c, link[c])
  BY <1>1, <1>2 DEF Changes
<1> QED
  BY <1>3, <1>4, <1>7, <1>8, <1>10, <1>11, <1>12, <1>13, <1>14, AllMoves DEF Typed

\* The host asks through the relay.
LEMMA AskedThere ==
  ASSUME RelayTypeOK, NEW c \in Clients, Typed(c), NEW r \in Requests, FromHost(c, r),
         client[c].pc = "up"
  PROVE  SessionStep(c)
<1> DEFINE s == IF r \in Calls THEN [client[c].sent EXCEPT ![r] = 1] ELSE client[c].sent
           y == [client[c] EXCEPT !.consumed = TRUE, !.pending = @ \cup {r},
                    !.handshake = IF r = "initialize" THEN "sent" ELSE @, !.sent = s]
           told == [host[c][r] EXCEPT !.sent = TRUE]
           h == [host[c] EXCEPT ![r] = told]
           l == IF link[c].open
                THEN [link[c] EXCEPT !.running = @ \cup {r},
                        !.session = IF r = "initialize" THEN "initialize" ELSE @]
                ELSE link[c]
<1>1. ran' = ran /\ ~host[c][r].sent /\ (r \in Calls => client[c].initialized)
  BY DEF FromHost
<1>2. host' = [host EXCEPT ![c] = h]
  BY DEF FromHost
<1>3. Changes(link, link', c, l)
  BY DEF FromHost, Changes
<1>4. client' = [client EXCEPT ![c] = y]
  BY DEF FromHost
<1>5. s \in [Calls -> 0 .. 2]
  BY DEF Typed, ClientStates
<1> HIDE DEF s
<1>6. y \in ClientStates
  BY <1>5 DEF Typed, ClientStates
<1>7. /\ y.pc = "up" /\ y.why = client[c].why /\ y.consumed
      /\ y.initialized = client[c].initialized
      /\ y.pending = client[c].pending \cup {r}
      /\ y.handshake = (IF r = "initialize" THEN "sent" ELSE client[c].handshake)
      /\ y.swallow = client[c].swallow
  BY DEF Typed, ClientStates
<1>8. \A q \in Requests : host[c][q] \in HostStates
  BY DEF Typed
<1>9. told \in HostStates /\ told.sent /\ told.got = host[c][r].got
  BY <1>8 DEF HostStates
<1>10. /\ l \in Links /\ l.answers = link[c].answers /\ l.open = link[c].open
       /\ l.running \subseteq link[c].running \cup {r} /\ link[c].running \subseteq l.running
       /\ l.session = (IF link[c].open /\ r = "initialize" THEN "initialize" ELSE link[c].session)
       /\ (~link[c].open => l = link[c])
  BY DEF Typed, Links
<1> HIDE DEF y, told, l
<1>11. h \in [Requests -> HostStates] /\ \A q \in Requests : h[q] = IF q = r THEN told ELSE host[c][q]
  BY <1>9 DEF Typed
<1> HIDE DEF h
<1>12. Carried(l) \subseteq Carried(link[c]) \cup {r}
  BY <1>10 DEF Carried
<1>13. /\ host[c][r].got = 0 /\ r \notin Carried(link[c]) \cup client[c].pending
  BY <1>1, Known DEF RequestHolds
<1>14. ASSUME NEW q \in Requests PROVE RequestHolds(y, l, h, q)
  <2>1. RequestHolds(client[c], link[c], host[c], q)
    BY Known
  <2>2. CASE q = r
    <3>1. h[q].sent /\ h[q].got = 0 /\ q \notin l.answers
      BY <1>9, <1>10, <1>11, <1>13, <2>2 DEF Carried
    <3> QED
      BY <3>1 DEF RequestHolds
  <2>3. CASE q # r
    <3>1. h[q] = host[c][q] /\ (q \in Carried(l) => q \in Carried(link[c]))
          /\ (q \in y.pending => q \in client[c].pending)
          /\ (q \in l.running => q \in link[c].running) /\ l.answers = link[c].answers
      BY <1>7, <1>10, <1>11, <1>12, <2>3
    <3> QED
      BY <2>1, <3>1 DEF RequestHolds
  <2> QED
    BY <2>2, <2>3
<1>15. /\ client[c].handshake = "none" <=> ~host[c]["initialize"].sent
       /\ client[c].initialized => client[c].handshake = "answered"
  BY Known DEF HandshakeHolds, Over
<1>16. HandshakeHolds(y, l, h)
  <2>1. HandshakeHolds(client[c], link[c], host[c]) /\ "initialize" \in Requests
    BY Known DEF Requests
  <2>2. CASE r = "initialize"
    <3>1. client[c].handshake = "none" /\ ~client[c].initialized /\ h["initialize"].sent
      BY <1>1, <1>9, <1>11, <1>15, <2>1, <2>2
    <3>2. ~client[c].swallow
      BY <2>1, <3>1 DEF HandshakeHolds
    <3> QED
      BY <1>7, <2>2, <3>1, <3>2 DEF HandshakeHolds
  <2>3. CASE r # "initialize"
    <3>1. h["initialize"] = host[c]["initialize"]
          /\ ("initialize" \in Carried(l) => "initialize" \in Carried(link[c]))
          /\ ("initialize" \in y.pending <=> "initialize" \in client[c].pending)
      BY <1>7, <1>11, <1>12, <2>1, <2>3
    <3> QED
      BY <1>7, <1>15, <2>1, <2>3, <3>1 DEF HandshakeHolds
  <2> QED
    BY <2>2, <2>3
<1>17. CallsHold(y, l)
  <2>1. CallsHold(client[c], link[c])
    BY Known
  <2>2. CASE r = "initialize"
    <3>1. ~client[c].initialized /\ r \notin Calls
      BY <1>1, <1>15, <2>2, RelayAssumption
    <3> QED
      BY <1>7, <1>10, <1>12, <2>1, <3>1 DEF CallsHold, Carried
  <2>3. CASE r # "initialize"
    <3>1. client[c].initialized /\ l.session = link[c].session
      BY <1>1, <1>10, <2>3 DEF Requests
    <3>2. CASE link[c].open
      BY <1>7, <1>10, <2>1, <3>1, <3>2 DEF CallsHold
    <3>3. CASE ~link[c].open
      BY <1>7, <1>10, <2>1, <3>1, <3>3 DEF CallsHold
    <3> QED
      BY <3>2, <3>3
  <2> QED
    BY <2>2, <2>3
<1>18. PhaseHolds(y, l)
  BY <1>7 DEF PhaseHolds, Over, Dialling
<1>19. ASSUME NEW q \in StateChanging PROVE ChangeHolds(l, h, ran[c], q)
  <2>1. ChangeHolds(link[c], host[c], ran[c], q) /\ q \in Requests
    BY Known, RelayAssumption DEF Requests
  <2> QED
    BY <1>1, <1>10, <1>11, <2>1 DEF ChangeHolds
<1>20. Changes(client, client', c, y) /\ Changes(host, host', c, h) /\ Changes(ran, ran', c, ran[c])
  BY <1>1, <1>2, <1>4 DEF Changes
<1> QED
  BY <1>3, <1>6, <1>10, <1>11, <1>14, <1>16, <1>17, <1>18, <1>19, <1>20, AllMoves DEF Typed

\* What a replay puts on the new connection.
LEMMA ReplayedIs ==
  ASSUME RelayTypeOK, NEW c \in Clients, Typed(c), NEW d \in Daemons \cup {Nobody}
  PROVE  LET l == Replayed(c, d) IN
         /\ l \in Links /\ l.answers = {}
         /\ l.running \subseteq Repeated(c) \cup (IF client[c].handshake = "none" THEN {} ELSE {"initialize"})
         /\ client[c].handshake = "none" => l.session = "new"
         /\ client[c].handshake # "none" /\ client[c].initialized => l.session = "ready"
<1> DEFINE t == IF Alive(d) THEN d ELSE Nobody
           o == Alive(d)
           se == IF client[c].handshake = "none" THEN "new"
                 ELSE IF client[c].initialized THEN "ready" ELSE "initialize"
           ru == IF Alive(d)
                 THEN Repeated(c) \cup
                      (IF client[c].handshake = "none" THEN {} ELSE {"initialize"})
                 ELSE {}
           l == [NoLink EXCEPT !.to = t, !.open = o, !.session = se, !.running = ru]
<1>1. Replayed(c, d) = l
  BY DEF Replayed
<1>2. Repeated(c) \subseteq Requests
  BY DEF Repeated, Typed, ClientStates, Requests
<1>3. t \in Daemons \cup {Nobody} /\ o \in BOOLEAN /\ se \in {"new", "initialize", "ready"}
      /\ ru \subseteq Requests
  BY <1>2 DEF Alive, Requests
<1>4. ru \subseteq Repeated(c) \cup (IF client[c].handshake = "none" THEN {} ELSE {"initialize"})
      /\ (client[c].handshake = "none" => se = "new")
      /\ (client[c].handshake # "none" /\ client[c].initialized => se = "ready")
  OBVIOUS
<1> HIDE DEF t, o, se, ru
<1>5. l \in Links /\ l.answers = {} /\ l.running = ru /\ l.session = se
  BY <1>3 DEF NoLink, Links
<1> QED
  BY <1>1, <1>4, <1>5

\* A call that is repeated has been sent to less than two daemons.
LEMMA RepeatsCounted ==
  ASSUME NEW c \in Clients, Typed(c)
  PROVE  [r \in Calls |-> IF r \in Repeated(c) THEN client[c].sent[r] + 1 ELSE client[c].sent[r]]
           \in [Calls -> 0 .. 2]
<1>1. ASSUME NEW r \in Calls
      PROVE  (IF r \in Repeated(c) THEN client[c].sent[r] + 1 ELSE client[c].sent[r]) \in 0 .. 2
  <2>1. client[c].sent[r] \in 0 .. 2
    BY DEF Typed, ClientStates
  <2>2. r \in Repeated(c) => ~(client[c].sent[r] >= 2)
    BY DEF Repeated, Refused
  <2> QED
    BY <2>1, <2>2
<1> QED
  BY <1>1

\* What the client keeps of the conversation when it has reached a daemon.
LEMMA AttachedClient ==
  ASSUME RelayTypeOK, NEW c \in Clients, Typed(c),
         client' = [client EXCEPT ![c].pc = "up", ![c].retry = TRUE, ![c].reached = Nobody,
                ![c].path = client[c].target, ![c].file = socket[client[c].target],
                ![c].swallow = Swallowed(c),
                ![c].quick_losses = IF client[c].why = "move" THEN 0 ELSE @,
                ![c].pending = @ \ Refused(c),
                ![c].sent = [r \in Calls |-> IF r \in Repeated(c) THEN @[r] + 1 ELSE @[r]]]
  PROVE  \E y \in ClientStates :
           /\ client' = [client EXCEPT ![c] = y]
           /\ y.pc = "up" /\ y.initialized = client[c].initialized /\ y.consumed = client[c].consumed
           /\ y.handshake = client[c].handshake /\ y.pending = client[c].pending \ Refused(c)
           /\ (y.swallow <=> client[c].handshake = "answered")
<1> DEFINE s == [r \in Calls |-> IF r \in Repeated(c) THEN client[c].sent[r] + 1 ELSE client[c].sent[r]]
           f == socket[client[c].target]
           q == IF client[c].why = "move" THEN 0 ELSE client[c].quick_losses
           p == client[c].pending \ Refused(c)
           y == [client[c] EXCEPT !.pc = "up", !.retry = TRUE, !.reached = Nobody,
                   !.path = client[c].target, !.file = f, !.swallow = Swallowed(c),
                   !.quick_losses = q, !.pending = p, !.sent = s]
<1>1. client' = [client EXCEPT ![c] = y]
  OBVIOUS
<1>2. f \in Daemons \cup {Nobody} /\ q \in 0 .. QUICK_LOSSES_BEFORE_GIVING_UP
      /\ p \subseteq Requests /\ Swallowed(c) \in BOOLEAN
  BY RelayAssumption DEF RelayTypeOK, Typed, ClientStates, Swallowed
<1>3. s \in [Calls -> 0 .. 2]
  BY RepeatsCounted
<1>4. p = (client[c].pending \ Refused(c)) /\ (Swallowed(c) <=> client[c].handshake = "answered")
  BY DEF Swallowed
<1> HIDE DEF s, f, q, p
<1>5. y \in ClientStates
  BY <1>2, <1>3 DEF Typed, ClientStates
<1>6. /\ y.pc = "up" /\ y.initialized = client[c].initialized /\ y.consumed = client[c].consumed
      /\ y.handshake = client[c].handshake /\ y.pending = client[c].pending \ Refused(c)
      /\ (y.swallow <=> client[c].handshake = "answered")
  BY <1>4 DEF Typed, ClientStates
<1> HIDE DEF y
<1> QED
  BY <1>1, <1>5, <1>6

\* The conversation is replayed to the daemon that was reached.
LEMMA AttachReplays ==
  ASSUME RelayTypeOK, NEW c \in Clients, Typed(c), client[c].pc = "stat",
         NEW d \in Daemons \cup {Nobody}, Changes(ran, ran', c, ran[c]),
         NEW y \in ClientStates, Changes(client, client', c, y),
         y.pc = "up", y.initialized = client[c].initialized, y.consumed = client[c].consumed,
         y.handshake = client[c].handshake, y.pending = client[c].pending \ Refused(c),
         (y.swallow <=> client[c].handshake = "answered"),
         host' = AnsweredHere(c, Refused(c)), Changes(link, link', c, Replayed(c, d))
  PROVE  SessionStep(c)
<1> DEFINE l == Replayed(c, d)
<1>1. /\ l \in Links /\ l.answers = {}
      /\ l.running \subseteq Repeated(c) \cup (IF client[c].handshake = "none" THEN {} ELSE {"initialize"})
      /\ client[c].handshake = "none" => l.session = "new"
      /\ client[c].handshake # "none" /\ client[c].initialized => l.session = "ready"
  BY ReplayedIs
<1> HIDE DEF l
<1>2. PICK h \in [Requests -> HostStates] :
        /\ AnsweredHere(c, Refused(c)) = [host EXCEPT ![c] = h]
        /\ \A r \in Requests :
             /\ h[r].sent = host[c][r].sent
             /\ h[r].got = IF r \in Refused(c) THEN host[c][r].got + 1 ELSE host[c][r].got
  BY AnsweredIs
<1>3. /\ Repeated(c) = (client[c].pending \cap Calls) \ Refused(c)
      /\ Refused(c) \subseteq client[c].pending \cap Calls
      /\ client[c].pending \cap StateChanging \subseteq Refused(c)
      /\ "initialize" \notin Refused(c) /\ "initialize" \notin Repeated(c)
  BY RelayAssumption DEF Repeated, Refused
<1>4. Carried(l) = l.running
  BY <1>1 DEF Carried
<1>5. /\ client[c].handshake = "none" <=> ~host[c]["initialize"].sent
      /\ client[c].initialized => client[c].handshake = "answered"
      /\ "initialize" \in client[c].pending <=> client[c].handshake = "sent"
      /\ client[c].pending \cap Calls # {} => client[c].initialized
  BY Known DEF HandshakeHolds, CallsHold, Over
<1>6. \A r \in Requests : host[c][r].sent \in BOOLEAN /\ h[r].sent \in BOOLEAN
  BY DEF Typed, HostStates
<1>7. ASSUME NEW r \in Requests PROVE RequestHolds(y, l, h, r)
  <2>1. RequestHolds(client[c], link[c], host[c], r)
    BY Known
  <2>2. CASE r \in Refused(c)
    <3>1. h[r].got = 1 /\ h[r].sent
      BY <1>2, <1>3, <1>6, <2>1, <2>2 DEF RequestHolds
    <3>2. r \notin y.pending /\ r \notin l.running
      BY <1>1, <1>3, <2>2
    <3> QED
      BY <1>1, <1>4, <3>1, <3>2 DEF RequestHolds
  <2>3. CASE r \notin Refused(c)
    <3>1. h[r].got = host[c][r].got /\ h[r].sent = host[c][r].sent
      BY <1>2, <2>3
    <3>2. r \in y.pending => r \in client[c].pending
      OBVIOUS
    <3>3. r \in l.running => r \in client[c].pending \/ (r = "initialize" /\ host[c][r].sent)
      <4>1. r \in l.running => r \in Repeated(c) \/ (r = "initialize" /\ client[c].handshake # "none")
        BY <1>1
      <4>2. client[c].handshake # "none" => host[c]["initialize"].sent
        BY <1>5
      <4>3. r \in Repeated(c) => r \in client[c].pending
        BY <1>3
      <4> QED
        BY <4>1, <4>2, <4>3
    <3>4. r \notin l.answers
      BY <1>1
    <3>5. r = "initialize" => r \notin Calls
      BY RelayAssumption
    <3> QED
      BY <1>4, <2>1, <3>1, <3>2, <3>3, <3>4, <3>5 DEF RequestHolds
  <2> QED
    BY <2>2, <2>3
<1>8. HandshakeHolds(y, l, h)
  <2>1. h["initialize"].sent = host[c]["initialize"].sent
    BY <1>2 DEF Requests
  <2>2. "initialize" \in y.pending <=> "initialize" \in client[c].pending
    BY <1>3
  <2>3. "initialize" \in l.running => client[c].handshake # "none"
    BY <1>1, <1>3
  <2>4. client[c].handshake \in {"none", "sent", "answered"}
    BY DEF Typed, ClientStates
  <2> QED
    BY <1>4, <1>5, <2>1, <2>2, <2>3, <2>4 DEF HandshakeHolds
<1>9. CallsHold(y, l)
  <2>1. l.running \cap Calls # {} => client[c].initialized
    BY <1>1, <1>3, <1>5, RelayAssumption
  <2>2. client[c].initialized => l.session = "ready"
    BY <1>1, <1>5
  <2>3. y.pending # {} => client[c].consumed
    BY Known DEF CallsHold
  <2>4. y.pending \cap Calls # {} => client[c].initialized
    BY <1>5
  <2> QED
    BY <1>4, <2>1, <2>2, <2>3, <2>4 DEF CallsHold
<1>10. PhaseHolds(y, l)
  BY DEF PhaseHolds, Over, Dialling
<1>11. ASSUME NEW r \in StateChanging PROVE ChangeHolds(l, h, ran[c], r)
  <2>1. ChangeHolds(link[c], host[c], ran[c], r) /\ r \in Requests /\ r # "initialize"
    BY Known, RelayAssumption DEF Requests
  <2>2. r \notin l.running
    BY <1>1, <1>3, <2>1
  <2>3. h[r].sent = host[c][r].sent
    BY <1>2, <2>1
  <2> QED
    BY <2>1, <2>2, <2>3 DEF ChangeHolds
<1>12. Changes(host, host', c, h) /\ Changes(link, link', c, l)
  BY <1>2 DEF Changes, l
<1> QED
  BY <1>1, <1>7, <1>8, <1>9, <1>10, <1>11, <1>12, AllMoves DEF Typed

\* A move is called off: the old connection stays.
LEMMA AttachCalledOff ==
  ASSUME RelayTypeOK, NEW c \in Clients, Typed(c), client[c].pc = "stat", client[c].why = "move",
         client[c].swallow => HandshakesOverlap, UNCHANGED <<link, host, ran>>,
         client' = [client EXCEPT ![c].pc = "up", ![c].retry = TRUE, ![c].reached = Nobody,
                ![c].path = client[c].target, ![c].file = socket[client[c].target],
                ![c].swallow = FALSE]
  PROVE  SessionStep(c)
<1> DEFINE f == socket[client[c].target]
           y == [client[c] EXCEPT !.pc = "up", !.retry = TRUE, !.reached = Nobody,
                   !.path = client[c].target, !.file = f, !.swallow = FALSE]
<1>1. client' = [client EXCEPT ![c] = y]
  OBVIOUS
<1>2. f \in Daemons \cup {Nobody}
  BY DEF RelayTypeOK, Typed, ClientStates
<1> HIDE DEF f
<1>3. y \in ClientStates
  BY <1>2 DEF Typed, ClientStates
<1>4. /\ y.pc = "up" /\ y.initialized = client[c].initialized /\ y.consumed = client[c].consumed
      /\ y.handshake = client[c].handshake /\ y.pending = client[c].pending /\ ~y.swallow
  BY DEF Typed, ClientStates
<1> HIDE DEF y
<1>5. ASSUME NEW r \in Requests PROVE RequestHolds(y, link[c], host[c], r)
  BY <1>4, Known DEF RequestHolds
<1>6. HandshakeHolds(y, link[c], host[c])
  BY <1>4, Known DEF HandshakeHolds, Over
<1>7. CallsHold(y, link[c]) /\ PhaseHolds(y, link[c])
  BY <1>4, Known DEF CallsHold, PhaseHolds, Over, Dialling
<1>8. ASSUME NEW r \in StateChanging PROVE ChangeHolds(link[c], host[c], ran[c], r)
  BY Known
<1>9. Changes(client, client', c, y) /\ Changes(host, host', c, host[c])
      /\ Changes(ran, ran', c, ran[c]) /\ Changes(link, link', c, link[c])
  BY <1>1 DEF Changes
<1> QED
  BY <1>3, <1>5, <1>6, <1>7, <1>8, <1>9, AllMoves DEF Typed

LEMMA AttachStep ==
  ASSUME RelayTypeOK, NEW c \in Clients, Typed(c), Attach(c)
  PROVE  SessionStep(c)
<1>1. client[c].reached \in Daemons \cup {Nobody} /\ client[c].pc = "stat" /\ ran' = ran
  BY DEF Attach, Typed, ClientStates
<1>2. Changes(ran, ran', c, ran[c])
  BY <1>1 DEF Changes
<1>3. CASE /\ client' = [client EXCEPT ![c].pc = "up", ![c].retry = TRUE, ![c].reached = Nobody,
                ![c].path = client[c].target, ![c].file = socket[client[c].target],
                ![c].swallow = Swallowed(c),
                ![c].quick_losses = IF client[c].why = "move" THEN 0 ELSE @,
                ![c].pending = @ \ Refused(c),
                ![c].sent = [r \in Calls |-> IF r \in Repeated(c) THEN @[r] + 1 ELSE @[r]]]
           /\ host' = AnsweredHere(c, Refused(c))
           /\ link' = [link EXCEPT ![c] = Replayed(c, client[c].reached)]
  <2>1. PICK y \in ClientStates :
          /\ client' = [client EXCEPT ![c] = y]
          /\ y.pc = "up" /\ y.initialized = client[c].initialized /\ y.consumed = client[c].consumed
          /\ y.handshake = client[c].handshake /\ y.pending = client[c].pending \ Refused(c)
          /\ (y.swallow <=> client[c].handshake = "answered")
    BY <1>3, AttachedClient
  <2>2. Changes(client, client', c, y) /\ Changes(link, link', c, Replayed(c, client[c].reached))
    BY <1>3, <2>1 DEF Changes
  <2>3. host' = AnsweredHere(c, Refused(c))
    BY <1>3
  <2> QED
    BY <1>1, <1>2, <2>1, <2>2, <2>3, AttachReplays
<1>4. CASE /\ client[c].why = "move" /\ (client[c].swallow => HandshakesOverlap)
           /\ client' = [client EXCEPT ![c].pc = "up", ![c].retry = TRUE, ![c].reached = Nobody,
                ![c].path = client[c].target, ![c].file = socket[client[c].target],
                ![c].swallow = FALSE]
           /\ UNCHANGED <<host, link>>
  BY <1>1, <1>4, AttachCalledOff
<1> QED
  BY <1>3, <1>4 DEF Attach

\* Whatever a client, its host or its daemon does for a session.
SessionAction(c) ==
  \/ ClientStep(c) \/ ServeStep(c) \/ Initialized(c) \/ CloseInput(c)
  \/ DrainExpires(c) \/ ClientDies(c)
  \/ \E r \in Requests : FromHost(c, r) \/ Cancel(c, r)

LEMMA SessionActs ==
  ASSUME RelayTypeOK, NEW c \in Clients, Typed(c), SessionAction(c)
  PROVE  SessionStep(c)
<1>1. CASE Dial(c) \/ SpawnLock(c) \/ Recheck(c) \/ ClearStale(c) \/ SpawnDaemon(c)
           \/ WaitForDaemon(c) \/ Attach(c)
  BY <1>1, DialStep, SpawnLockStep, RecheckStep, ClearStaleStep, SpawnDaemonStep, WaitForDaemonStep,
     AttachStep
<1>2. CASE HalfClose(c) \/ Lost(c) \/ Move(c) \/ RetryDue(c) \/ Accept(c) \/ EndOfInput(c)
           \/ Initialized(c) \/ CloseInput(c) \/ DrainExpires(c) \/ ClientDies(c)
  BY <1>2, HalfCloseStep, LostStep, MoveStep, RetryDueStep, AcceptStep, EndOfInputStep,
     InitializedStep, CloseInputStep, DrainExpiresStep, ClientDiesStep
<1>3. ASSUME NEW r \in Requests, FromDaemon(c, r) \/ Answer(c, r) \/ Cancel(c, r)
      PROVE  SessionStep(c)
  BY <1>3, FromDaemonStep, AnswerStep, CancelStep
<1>4. ASSUME NEW r \in Requests, FromHost(c, r) PROVE SessionStep(c)
  <2>1. client[c].pc \in {"up", "local"}
    BY <1>4 DEF FromHost
  <2> QED
    BY <1>4, <2>1, AskedHere, AskedThere
<1> QED
  BY <1>1, <1>2, <1>3, <1>4 DEF SessionAction, ClientStep, ServeStep

-----------------------------------------------------------------------------
(* Types of the fleet.                                                     *)

FleetTypes ==
  /\ binary \in Builds \cup {Nobody} /\ builds \in Builds
  /\ socket \in [Builds -> Daemons \cup {Nobody}]
  /\ spawner \in [Builds -> Clients \cup {Nobody}]
  /\ daemon \in [Daemons -> DaemonStates]
  /\ faults \in 0 .. MaxFaults /\ retirements \in 0 .. MaxUpheavals

LEMMA FaultType ==
  ASSUME RelayTypeOK, Fault
  PROVE  faults' \in 0 .. MaxFaults
  BY RelayAssumption DEF RelayTypeOK, Fault

LEMMA GoneType == Gone \in DaemonStates
  BY RelayAssumption DEF Gone, DaemonStates, Builds

LEMMA SessionFleetTypes ==
  ASSUME RelayTypeOK, SwapEnds, NEW c \in Clients, Typed(c), SessionAction(c)
  PROVE  FleetTypes' /\ SwapEnds'
<1> USE RelayAssumption
<1>0. FleetTypes /\ client[c].target \in Builds /\ client[c].reached \in Daemons \cup {Nobody}
  BY DEF RelayTypeOK, FleetTypes, Typed, ClientStates
<1>1. CASE UNCHANGED <<fleet, faults, retirements>>
  BY <1>0, <1>1 DEF fleet, FleetTypes, SwapEnds
<1>2. CASE Fault /\ UNCHANGED <<fleet, retirements>>
  BY <1>0, <1>2, FaultType DEF fleet, FleetTypes, SwapEnds
<1>3. CASE SpawnLock(c) \/ Recheck(c)
  <2>1. \/ spawner' = [spawner EXCEPT ![client[c].target] = c]
        \/ spawner' = [spawner EXCEPT ![client[c].target] = Nobody]
        \/ spawner' = spawner
    BY <1>3 DEF SpawnLock, Recheck, Unlock
  <2>2. UNCHANGED <<binary, builds, socket, daemon, faults, retirements>>
    BY <1>3 DEF SpawnLock, Recheck
  <2> QED
    BY <1>0, <2>1, <2>2 DEF FleetTypes, SwapEnds
<1>4. CASE ClearStale(c)
  BY <1>0, <1>4 DEF ClearStale, FleetTypes, SwapEnds
<1>5. CASE SpawnDaemon(c)
  <2>1. UNCHANGED <<binary, builds, socket, faults, retirements>>
    BY <1>5 DEF SpawnDaemon
  <2>2. spawner' \in [Builds -> Clients \cup {Nobody}]
    BY <1>0, <1>5 DEF SpawnDaemon, Unlock, FleetTypes
  <2>3. daemon' \in [Daemons -> DaemonStates]
    <3> DEFINE d == CHOOSE e \in Daemons : daemon[e].pc = "off"
               x == [pc |-> "starting", build |-> binary, path |-> client[c].target, retiring |-> FALSE]
    <3>1. CASE daemon' = daemon
      BY <1>0, <3>1 DEF FleetTypes
    <3>2. CASE binary # Nobody /\ daemon' = [daemon EXCEPT ![d] = x]
      <4>1. x \in DaemonStates
        BY <1>0, <3>2 DEF FleetTypes, DaemonStates
      <4> HIDE DEF x, d
      <4> QED
        BY <1>0, <3>2, <4>1 DEF FleetTypes
    <3> QED
      BY <1>5, <3>1, <3>2 DEF SpawnDaemon
  <2> QED
    BY <1>0, <2>1, <2>2, <2>3 DEF FleetTypes, SwapEnds
<1>6. CASE WaitForDaemon(c)
  <2>1. UNCHANGED <<binary, builds, socket, retirements>> /\ Unlock(c)
    BY <1>6 DEF WaitForDaemon
  <2>2. faults' \in 0 .. MaxFaults
    BY <1>0, <1>6, FaultType DEF WaitForDaemon, FleetTypes
  <2>3. daemon' = daemon \/ daemon' = [daemon EXCEPT ![client[c].reached] = Gone]
    BY <1>6 DEF WaitForDaemon
  <2>4. daemon' \in [Daemons -> DaemonStates]
    BY <1>0, <2>3, GoneType DEF FleetTypes
  <2>5. spawner' \in [Builds -> Clients \cup {Nobody}]
    BY <1>0, <2>1 DEF Unlock, FleetTypes
  <2> QED
    BY <1>0, <2>1, <2>2, <2>4, <2>5 DEF FleetTypes, SwapEnds
<1>7. CASE ClientDies(c)
  <2>1. spawner' \in [Builds -> Clients \cup {Nobody}]
    BY <1>0, <1>7 DEF ClientDies, FleetTypes
  <2> QED
    BY <1>0, <1>7, <2>1, FaultType DEF ClientDies, FleetTypes, SwapEnds
<1>8. CASE ServeStep(c) \/ Initialized(c) \/ CloseInput(c) \/ \E r \in Requests : FromHost(c, r) \/ Cancel(c, r)
  BY <1>1, <1>8 DEF ServeStep, Accept, EndOfInput, Answer, Initialized, CloseInput, FromHost, Cancel
<1>9. CASE Dial(c) \/ Attach(c) \/ HalfClose(c) \/ Lost(c) \/ Move(c) \/ RetryDue(c)
           \/ \E r \in Requests : FromDaemon(c, r)
  BY <1>1, <1>9 DEF Dial, Attach, HalfClose, Lost, Move, RetryDue, FromDaemon
<1>10. CASE DrainExpires(c)
  BY <1>2, <1>10 DEF DrainExpires
<1> QED
  BY <1>3, <1>4, <1>5, <1>6, <1>7, <1>8, <1>9, <1>10 DEF SessionAction, ClientStep

\* What a daemon does to itself and to its file.
DaemonAction(d) == DaemonStep(d) \/ Retire(d) \/ Terminate(d) \/ Die(d)

LEMMA DaemonFleetTypes ==
  ASSUME RelayTypeOK, SwapEnds, NEW d \in Daemons, DaemonAction(d)
  PROVE  FleetTypes' /\ SwapEnds'
<1> USE RelayAssumption
<1>0. FleetTypes
  BY DEF RelayTypeOK, FleetTypes
<1>1. /\ binary' = binary /\ builds' = builds /\ spawner' = spawner
  BY DEF DaemonAction, DaemonStep, Bind, Leave, Deadline, Retire, Terminate, Die, Exit
<1>2. faults' \in 0 .. MaxFaults
  BY <1>0, FaultType DEF DaemonAction, DaemonStep, Bind, Leave, Deadline, Retire, Terminate, Die, FleetTypes
<1>3. retirements' = retirements \/ (builds + retirements < MaxUpheavals /\ retirements' = retirements + 1)
  BY DEF DaemonAction, DaemonStep, Bind, Leave, Deadline, Retire, Terminate, Die
<1>4. retirements' \in 0 .. MaxUpheavals
  BY <1>0, <1>3 DEF FleetTypes, Builds
<1>5. \/ socket' = socket
      \/ socket' = [socket EXCEPT ![daemon[d].path] = d]
      \/ socket' = [socket EXCEPT ![daemon[d].path] = Nobody]
  BY DEF DaemonAction, DaemonStep, Bind, Leave, Deadline, Retire, Terminate, Die, Exit
<1>6. socket' \in [Builds -> Daemons \cup {Nobody}]
  BY <1>0, <1>5 DEF FleetTypes
<1>7. \/ daemon' = [daemon EXCEPT ![d] = Gone]
      \/ daemon' = [daemon EXCEPT ![d].pc = "serving"]
      \/ daemon' = [daemon EXCEPT ![d].retiring = TRUE]
  BY DEF DaemonAction, DaemonStep, Bind, Leave, Deadline, Retire, Terminate, Die, Exit
<1>8. daemon' \in [Daemons -> DaemonStates]
  <2>1. CASE daemon' = [daemon EXCEPT ![d] = Gone]
    BY <1>0, <2>1, GoneType DEF FleetTypes
  <2>2. CASE daemon' = [daemon EXCEPT ![d].pc = "serving"]
    <3> DEFINE x == [daemon[d] EXCEPT !.pc = "serving"]
    <3>1. x \in DaemonStates /\ daemon' = [daemon EXCEPT ![d] = x]
      BY <1>0, <2>2 DEF FleetTypes, DaemonStates
    <3> HIDE DEF x
    <3> QED
      BY <1>0, <3>1 DEF FleetTypes
  <2>3. CASE daemon' = [daemon EXCEPT ![d].retiring = TRUE]
    <3> DEFINE x == [daemon[d] EXCEPT !.retiring = TRUE]
    <3>1. x \in DaemonStates /\ daemon' = [daemon EXCEPT ![d] = x]
      BY <1>0, <2>3 DEF FleetTypes, DaemonStates
    <3> HIDE DEF x
    <3> QED
      BY <1>0, <3>1 DEF FleetTypes
  <2> QED
    BY <1>7, <2>1, <2>2, <2>3
<1> QED
  BY <1>0, <1>1, <1>2, <1>4, <1>6, <1>8 DEF FleetTypes, SwapEnds

LEMMA BinaryFleetTypes ==
  ASSUME RelayTypeOK, SwapEnds, RemoveBinary \/ InstallBinary
  PROVE  FleetTypes' /\ SwapEnds'
<1>1. CASE RemoveBinary
  BY <1>1, RelayAssumption DEF RemoveBinary, RelayTypeOK, FleetTypes, SwapEnds, Builds
<1>2. CASE InstallBinary
  BY <1>2, RelayAssumption DEF InstallBinary, RelayTypeOK, FleetTypes, SwapEnds, Builds
<1> QED
  BY <1>1, <1>2

-----------------------------------------------------------------------------
(* Sessions stay in order.                                                 *)

IInv == RelayTypeOK /\ SwapEnds /\ SessionsHold

LEMMA InitSessions == Init => IInv
<1> SUFFICES ASSUME Init PROVE IInv
  OBVIOUS
<1> USE RelayAssumption
<1>1. /\ binary = 0 /\ builds = 0 /\ faults = 0 /\ retirements = 0
      /\ socket = [k \in Builds |-> Nobody] /\ spawner = [k \in Builds |-> Nobody]
      /\ daemon = [d \in Daemons |-> [Gone EXCEPT !.pc = "off"]]
      /\ client = [c \in Clients |-> IF c \in DOMAIN asks THEN NewClient ELSE Ended("done")]
      /\ link = [c \in Clients |-> NoLink]
      /\ host = [c \in Clients |-> [r \in Requests |-> [sent |-> FALSE, cancelled |-> FALSE, got |-> 0]]]
      /\ ran = [c \in Clients |-> [r \in Calls |-> 0]]
  BY DEF Init
<1>2. [Gone EXCEPT !.pc = "off"] \in DaemonStates
  BY GoneType DEF DaemonStates
<1>3. daemon \in [Daemons -> DaemonStates]
  BY <1>1, <1>2
<1>4. "done" \in Over
  BY DEF Over
<1>5. client \in [Clients -> ClientStates] /\ link \in [Clients -> Links]
  BY <1>1, <1>4, NewTypes, EndedType
<1>6. host \in [Clients -> [Requests -> HostStates]] /\ ran \in [Clients -> [Calls -> Nat]]
  BY <1>1 DEF HostStates
<1>7. RelayTypeOK /\ SwapEnds
  <2>1. binary \in Builds \cup {Nobody} /\ builds \in Builds /\ binary # Nobody
    BY <1>1 DEF Builds
  <2>2. faults \in 0 .. MaxFaults /\ retirements \in 0 .. MaxUpheavals
    BY <1>1
  <2>3. /\ socket \in [Builds -> Daemons \cup {Nobody}]
        /\ spawner \in [Builds -> Clients \cup {Nobody}]
    BY <1>1
  <2> QED
    BY <2>1, <2>2, <2>3, <1>3, <1>5, <1>6, Zenon DEF RelayTypeOK, SwapEnds
<1>8. ASSUME NEW c \in Clients PROVE SessionHolds(client[c], link[c], host[c], ran[c])
  <2>1. \A r \in Requests : ~host[c][r].sent /\ host[c][r].got = 0
    BY <1>1
  <2>2. \A r \in StateChanging : ran[c][r] = 0 /\ r \in Requests
    BY <1>1 DEF Requests
  <2>3. CASE c \notin DOMAIN asks
    <3>1. client[c] = Ended("done") /\ link[c] = NoLink
      BY <1>1, <2>3
    <3> QED
      BY <1>4, <2>1, <2>2, <3>1, TalkEnds
  <2>4. CASE c \in DOMAIN asks
    <3>1. client[c] = NewClient /\ link[c] = NoLink
      BY <1>1, <2>4
    <3>2. /\ NewClient.pc = "dial" /\ NewClient.pending = {} /\ NewClient.handshake = "none"
          /\ NewClient.swallow = FALSE /\ NewClient.initialized = FALSE
          /\ NoLink.running = {} /\ NoLink.answers = {} /\ NoLink.open = FALSE
      BY DEF NewClient, NoLink
    <3>3. \A r \in Requests : RequestHolds(NewClient, NoLink, host[c], r)
      BY <2>1, <3>2 DEF RequestHolds, Carried
    <3>4. HandshakeHolds(NewClient, NoLink, host[c])
      BY <2>1, <3>2 DEF HandshakeHolds, Carried, Requests
    <3>5. CallsHold(NewClient, NoLink)
      BY <3>2 DEF CallsHold, Carried
    <3>6. PhaseHolds(NewClient, NoLink)
      BY <3>2 DEF PhaseHolds, Over
    <3>7. \A r \in StateChanging : ChangeHolds(NoLink, host[c], ran[c], r)
      BY <2>2, <3>2 DEF ChangeHolds
    <3> QED
      BY <3>1, <3>3, <3>4, <3>5, <3>6, <3>7 DEF SessionHolds
  <2> QED
    BY <2>3, <2>4
<1> QED
  BY <1>7, <1>8 DEF IInv, SessionsHold

LEMMA StepSessions == IInv /\ [Next]_vars => IInv'
<1> SUFFICES ASSUME RelayTypeOK, SwapEnds, SessionsHold, [Next]_vars PROVE IInv'
  BY DEF IInv
<1>0. FleetTypes
  BY DEF RelayTypeOK, FleetTypes
<1>1. ASSUME NEW c \in Clients, SessionAction(c) PROVE IInv'
  <2>1. Typed(c)
    BY SessionTyped
  <2>2. FleetTypes' /\ SwapEnds'
    BY <1>1, <2>1, SessionFleetTypes
  <2>3. SessionStep(c)
    BY <1>1, <2>1, SessionActs
  <2>4. /\ client' \in [Clients -> ClientStates] /\ link' \in [Clients -> Links]
        /\ host' \in [Clients -> [Requests -> HostStates]] /\ ran' \in [Clients -> [Calls -> Nat]]
        /\ SessionsHold'
    BY <2>3, OneSession
  <2> QED
    BY <2>2, <2>4 DEF IInv, RelayTypeOK, FleetTypes
<1>2. ASSUME UNCHANGED <<client, link, host, ran>>, FleetTypes', SwapEnds' PROVE IInv'
  BY <1>2 DEF IInv, RelayTypeOK, FleetTypes, SessionsHold
<1>3. ASSUME NEW d \in Daemons, DaemonAction(d) PROVE IInv'
  <2>1. FleetTypes' /\ SwapEnds'
    BY <1>3, DaemonFleetTypes
  <2>2. UNCHANGED <<client, host, ran>> /\ (link' = link \/ link' = Closed(d))
    BY <1>3 DEF DaemonAction, DaemonStep, Bind, Leave, Deadline, Retire, Terminate, Die, Exit
  <2>3. CASE link' = link
    BY <1>2, <2>1, <2>2, <2>3
  <2>4. CASE link' = Closed(d)
    <3>1. link' \in [Clients -> Links] /\ SessionsHold'
      BY <2>2, <2>4, ClosedHolds
    <3> QED
      BY <2>1, <2>2, <3>1 DEF IInv, RelayTypeOK, FleetTypes
  <2> QED
    BY <2>2, <2>3, <2>4
<1>4. CASE RemoveBinary \/ InstallBinary
  <2>1. FleetTypes' /\ SwapEnds' /\ UNCHANGED <<client, link, host, ran>>
    BY <1>4, BinaryFleetTypes DEF RemoveBinary, InstallBinary
  <2> QED
    BY <1>2, <2>1
<1>5. CASE UNCHANGED vars
  <2>1. FleetTypes' /\ SwapEnds' /\ UNCHANGED <<client, link, host, ran>>
    BY <1>0, <1>5 DEF vars, fleet, FleetTypes, SwapEnds
  <2> QED
    BY <1>2, <2>1
<1> QED
  BY <1>1, <1>3, <1>4, <1>5 DEF Next, Step, Rest, SessionAction, DaemonAction

LEMMA SessionsAlways == Spec => []IInv
<1>1. Init => IInv
  BY InitSessions
<1>2. IInv /\ [Next]_vars => IInv'
  BY StepSessions
<1> QED
  BY <1>1, <1>2, PTL DEF Spec

\* The variables keep their types, the hosts' view and the daemons' runs included.
THEOREM TypeCorrect == Spec => []RelayTypeOK
<1>1. IInv => RelayTypeOK
  BY DEF IInv
<1> QED
  BY <1>1, SessionsAlways, PTL

\* A tool call that changes something is run at most once, on whatever daemon, however
\* often the relay replays (STATE_CHANGING_TOOLS, Conversation::replay).
THEOREM ChangesAreRunOnce == Spec => []ChangesRunOnce
<1>1. IInv => ChangesRunOnce
  BY DEF IInv, SessionsHold, SessionHolds, ChangeHolds, ChangesRunOnce
<1> QED
  BY <1>1, SessionsAlways, PTL

\* When a move is not called off while a repeated handshake is unanswered, every host
\* sees one conversation: no second answer, and no call before the handshake.
THEOREM HostsSeeOneConversation ==
  ASSUME ~HandshakesOverlap
  PROVE  Spec => []OneConversation
<1>1. ASSUME IInv PROVE OneConversation
  <2>1. ASSUME NEW c \in Clients, NEW r \in Requests PROVE host[c][r].got <= 1
    <3>1. RequestHolds(client[c], link[c], host[c], r)
      BY <1>1 DEF IInv, SessionsHold, SessionHolds
    <3> QED
      BY <3>1 DEF RequestHolds
  <2>2. ASSUME NEW c \in Clients PROVE link[c].running \cap Calls # {} => link[c].session = "ready"
    BY <1>1 DEF IInv, SessionsHold, SessionHolds, CallsHold
  <2> QED
    BY <2>1, <2>2 DEF OneConversation, OneAnswerEach, HandshakeFirst
<1>2. IInv => OneConversation
  BY <1>1
<1> QED
  BY <1>2, SessionsAlways, PTL

\* A call gets one answer at most and comes after the handshake, whether moves are called
\* off in the middle of a repeated handshake or not.
OneAnswerPerCall == HandshakeFirst /\ \A c \in Clients, r \in Calls : host[c][r].got <= 1

\* The handshake is the only request that can get a second answer (swallow is dropped with
\* a move that is called off): no tool call does.
THEOREM CallsGetOneAnswer == Spec => []OneAnswerPerCall
<1>1. ASSUME IInv PROVE OneAnswerPerCall
  <2>1. ASSUME NEW c \in Clients, NEW r \in Calls PROVE host[c][r].got <= 1
    <3>1. r \in Requests /\ r # "initialize"
      BY RelayAssumption DEF Requests
    <3>2. RequestHolds(client[c], link[c], host[c], r)
      BY <1>1, <3>1 DEF IInv, SessionsHold, SessionHolds
    <3> QED
      BY <3>1, <3>2 DEF RequestHolds
  <2>2. ASSUME NEW c \in Clients PROVE link[c].running \cap Calls # {} => link[c].session = "ready"
    BY <1>1 DEF IInv, SessionsHold, SessionHolds, CallsHold
  <2> QED
    BY <2>1, <2>2 DEF OneAnswerPerCall, HandshakeFirst
<1>2. IInv => OneAnswerPerCall
  BY <1>1
<1> QED
  BY <1>2, SessionsAlways, PTL

-----------------------------------------------------------------------------
(* The fleet stays in order when no client dies while its daemon starts.   *)

\* A step of one client: the others are where they were.
OnlyClient(c) == \A e \in Clients \ {c} : client'[e] = client[e]

LEMMA OneHolder ==
  ASSUME FleetHolds, NEW c \in Clients, NEW e \in Clients, client[c].target \in Builds,
         client[c].pc \in LockPoints, client[e].pc \in LockPoints, client[e].target = client[c].target
  PROVE  e = c
  BY DEF FleetHolds, LockIsHeld

\* The same clients, sockets and daemons.
LEMMA FleetStill ==
  ASSUME FleetHolds, UNCHANGED <<client, socket, spawner, daemon>>
  PROVE  FleetHolds'
  BY DEF FleetHolds, LockIsHeld, StartersAreWaitedFor, FilesAreBound, PathsAreFree, PathIsFree, ServersAreFound,
         Serves

\* Those who wait for a daemon that starts still do, if c was none of them.
LEMMA StartersStay ==
  ASSUME FleetHolds, NEW c \in Clients, OnlyClient(c), daemon' = daemon,
         client[c].pc = "wait" => \A d \in Daemons : daemon[d].pc = "starting" => client[c].reached # d
  PROVE  StartersAreWaitedFor'
<1> SUFFICES ASSUME NEW d \in Daemons, daemon[d].pc = "starting"
             PROVE  /\ ~daemon[d].retiring
                    /\ \E e \in Clients : /\ client'[e].pc = "wait" /\ client'[e].reached = d
                                          /\ client'[e].target = daemon[d].path
  BY DEF StartersAreWaitedFor
<1>1. PICK e \in Clients : /\ client[e].pc = "wait" /\ client[e].reached = d
                           /\ client[e].target = daemon[d].path
  BY DEF FleetHolds, StartersAreWaitedFor
<1>2. e # c
  BY <1>1
<1> QED
  BY <1>1, <1>2 DEF OnlyClient, FleetHolds, StartersAreWaitedFor

\* Paths are as free as they were for the others.
LEMMA PathsStay ==
  ASSUME FleetHolds, NEW c \in Clients, OnlyClient(c), UNCHANGED <<socket, daemon>>,
         PathIsFree(client[c])'
  PROVE  PathsAreFree'
<1>1. ASSUME NEW e \in Clients PROVE PathIsFree(client[e])'
  <2>1. CASE e = c
    BY <2>1
  <2>2. CASE e # c
    BY <2>2 DEF OnlyClient, FleetHolds, PathsAreFree, PathIsFree, Serves
  <2> QED
    BY <2>1, <2>2
<1> QED
  BY <1>1 DEF PathsAreFree

\* A client that neither holds nor takes a lock.
LEMMA FleetElsewhere ==
  ASSUME FleetHolds, NEW c \in Clients, OnlyClient(c), UNCHANGED <<socket, spawner, daemon>>,
         client[c].pc \notin LockPoints, client'[c].pc \notin LockPoints
  PROVE  FleetHolds'
<1>1. LockIsHeld'
  BY DEF FleetHolds, LockIsHeld, OnlyClient
<1>2. StartersAreWaitedFor'
  BY StartersStay DEF LockPoints
<1>3. FilesAreBound' /\ ServersAreFound'
  BY DEF FleetHolds, FilesAreBound, ServersAreFound, Serves
<1>4. PathsAreFree'
  BY PathsStay DEF PathIsFree, LockPoints
<1> QED
  BY <1>1, <1>2, <1>3, <1>4 DEF FleetHolds

LEMMA LockReleased ==
  ASSUME FleetHolds, NEW c \in Clients, OnlyClient(c), client'[c].pc \notin LockPoints,
         spawner' = [k \in Builds |-> IF spawner[k] = c THEN Nobody ELSE spawner[k]]
  PROVE  LockIsHeld'
<1> SUFFICES ASSUME NEW k \in Builds, NEW e \in Clients
             PROVE  spawner'[k] = e <=> client'[e].pc \in LockPoints /\ client'[e].target = k
  BY DEF LockIsHeld
<1>1. spawner[k] = e <=> client[e].pc \in LockPoints /\ client[e].target = k
  BY DEF FleetHolds, LockIsHeld
<1>2. e # Nobody
  BY RelayAssumption
<1>3. spawner'[k] = IF spawner[k] = c THEN Nobody ELSE spawner[k]
  OBVIOUS
<1>4. CASE e = c
  BY <1>2, <1>3, <1>4
<1>5. CASE e # c
  BY <1>1, <1>2, <1>3, <1>5 DEF OnlyClient
<1> QED
  BY <1>4, <1>5

\* A client that gives its lock up and leaves no daemon that starts.
LEMMA FleetUnlocked ==
  ASSUME RelayTypeOK, FleetHolds, NEW c \in Clients, OnlyClient(c), UNCHANGED <<socket, daemon>>,
         spawner' = [k \in Builds |-> IF spawner[k] = c THEN Nobody ELSE spawner[k]],
         client'[c].pc \notin LockPoints,
         client[c].pc = "wait" => \A d \in Daemons : daemon[d].pc = "starting" => client[c].reached # d
  PROVE  FleetHolds'
<1>1. LockIsHeld'
  BY LockReleased
<1>2. StartersAreWaitedFor'
  BY StartersStay
<1>3. FilesAreBound' /\ ServersAreFound'
  BY DEF FleetHolds, FilesAreBound, ServersAreFound, Serves
<1>4. PathsAreFree'
  BY PathsStay DEF PathIsFree, LockPoints
<1> QED
  BY <1>1, <1>2, <1>3, <1>4 DEF FleetHolds

LEMMA UnlockIs ==
  ASSUME RelayTypeOK, FleetHolds, NEW c \in Clients, client[c].pc \in LockPoints, Unlock(c)
  PROVE  spawner' = [k \in Builds |-> IF spawner[k] = c THEN Nobody ELSE spawner[k]]
<1>1. client[c].target \in Builds /\ spawner \in [Builds -> Clients \cup {Nobody}]
  BY DEF RelayTypeOK, ClientStates
<1>2. \A k \in Builds : spawner[k] = c <=> k = client[c].target
  BY <1>1 DEF FleetHolds, LockIsHeld
<1>3. spawner' = [spawner EXCEPT ![client[c].target] = Nobody]
  BY DEF Unlock
<1> QED
  BY <1>1, <1>2, <1>3

\* Where a client goes when there is no daemon.
LEMMA NoDaemonGoes ==
  ASSUME RelayTypeOK, NEW c \in Clients, NoDaemon(c)
  PROVE  OnlyClient(c) /\ client'[c].pc \in {"local", "up", "failed"}
<1>1. client \in [Clients -> ClientStates]
  BY DEF RelayTypeOK
<1>2. \A pc \in Over : Ended(pc).pc = pc
  BY EndedType
<1>3. \/ client' = [client EXCEPT ![c] = Ended("local")]
      \/ client' = [client EXCEPT ![c].pc = "up", ![c].retry = FALSE, ![c].reached = Nobody]
      \/ client' = [client EXCEPT ![c] = Ended("failed")]
  BY DEF NoDaemon
<1>4. CASE client' = [client EXCEPT ![c] = Ended("local")]
  BY <1>1, <1>2, <1>4 DEF OnlyClient, Over
<1>5. CASE client' = [client EXCEPT ![c].pc = "up", ![c].retry = FALSE, ![c].reached = Nobody]
  <2> DEFINE y == [client[c] EXCEPT !.pc = "up", !.retry = FALSE, !.reached = Nobody]
  <2>1. y.pc = "up"
    BY <1>1 DEF ClientStates
  <2>2. client' = [client EXCEPT ![c] = y]
    BY <1>5
  <2> HIDE DEF y
  <2> QED
    BY <1>1, <2>1, <2>2 DEF OnlyClient
<1>6. CASE client' = [client EXCEPT ![c] = Ended("failed")]
  BY <1>1, <1>2, <1>6 DEF OnlyClient, Over
<1> QED
  BY <1>3, <1>4, <1>5, <1>6

LEMMA ReachGoes ==
  ASSUME RelayTypeOK, NEW c \in Clients, NEW d, Reach(c, d)
  PROVE  OnlyClient(c) /\ client'[c].pc = "stat"
<1> DEFINE y == [client[c] EXCEPT !.pc = "stat", !.reached = d]
<1>1. client \in [Clients -> ClientStates]
  BY DEF RelayTypeOK
<1>2. y.pc = "stat"
  BY <1>1 DEF ClientStates
<1>3. client' = [client EXCEPT ![c] = y]
  BY DEF Reach
<1> HIDE DEF y
<1> QED
  BY <1>1, <1>2, <1>3 DEF OnlyClient

LEMMA FleetSpawnLock ==
  ASSUME RelayTypeOK, FleetHolds, NEW c \in Clients, SpawnLock(c)
  PROVE  FleetHolds'
<1> DEFINE y == [client[c] EXCEPT !.pc = "recheck"]
           k0 == client[c].target
<1>1. client \in [Clients -> ClientStates] /\ spawner \in [Builds -> Clients \cup {Nobody}]
      /\ k0 \in Builds
  BY DEF RelayTypeOK, ClientStates
<1>2. /\ client[c].pc = "lock" /\ spawner[k0] = Nobody
      /\ spawner' = [spawner EXCEPT ![k0] = c] /\ UNCHANGED <<socket, daemon>>
      /\ client' = [client EXCEPT ![c] = y]
  BY DEF SpawnLock
<1>3. y.pc = "recheck" /\ y.target = k0
  BY <1>1 DEF ClientStates
<1> HIDE DEF y
<1>4. OnlyClient(c) /\ client'[c].pc = "recheck" /\ client'[c].target = k0
  BY <1>1, <1>2, <1>3 DEF OnlyClient
<1>5. LockIsHeld'
  <2> SUFFICES ASSUME NEW k \in Builds, NEW e \in Clients
               PROVE  spawner'[k] = e <=> client'[e].pc \in LockPoints /\ client'[e].target = k
    BY DEF LockIsHeld
  <2>1. spawner[k] = e <=> client[e].pc \in LockPoints /\ client[e].target = k
    BY DEF FleetHolds, LockIsHeld
  <2>2. e # Nobody
    BY RelayAssumption
  <2>3. spawner'[k] = IF k = k0 THEN c ELSE spawner[k]
    BY <1>1, <1>2
  <2>4. CASE e = c
    <3>1. spawner[k] # e
      BY <1>2, <2>1, <2>4 DEF LockPoints
    <3> QED
      BY <1>4, <2>3, <2>4, <3>1 DEF LockPoints
  <2>5. CASE e # c
    <3>1. client'[e] = client[e]
      BY <1>4, <2>5 DEF OnlyClient
    <3>2. CASE k = k0
      BY <1>2, <2>1, <2>2, <2>3, <2>5, <3>1, <3>2
    <3>3. CASE k # k0
      BY <2>1, <2>3, <3>1, <3>3
    <3> QED
      BY <3>2, <3>3
  <2> QED
    BY <2>4, <2>5
<1>6. StartersAreWaitedFor'
  BY <1>2, <1>4, StartersStay
<1>7. FilesAreBound' /\ ServersAreFound'
  BY <1>2 DEF FleetHolds, FilesAreBound, ServersAreFound, Serves
<1>8. PathsAreFree'
  BY <1>2, <1>4, PathsStay DEF PathIsFree
<1> QED
  BY <1>5, <1>6, <1>7, <1>8 DEF FleetHolds

\* A client that goes from one point under the lock to another: what it promises there
\* holds, and everybody else is as before.
LEMMA FleetAdvances ==
  ASSUME RelayTypeOK, FleetHolds, NEW c \in Clients, OnlyClient(c), UNCHANGED spawner,
         client[c].pc \in LockPoints \ {"wait"}, client'[c].pc \in LockPoints,
         client'[c].target = client[c].target
  PROVE  LockIsHeld'
  BY DEF FleetHolds, LockIsHeld, OnlyClient

LEMMA FleetRecheck ==
  ASSUME RelayTypeOK, FleetHolds, NEW c \in Clients, Recheck(c)
  PROVE  FleetHolds'
<1> DEFINE k0 == client[c].target
           d0 == socket[k0]
           y == [client[c] EXCEPT !.pc = "clear"]
<1>1. client \in [Clients -> ClientStates] /\ k0 \in Builds /\ client[c].pc = "recheck"
      /\ UNCHANGED <<socket, daemon>>
  BY DEF RelayTypeOK, ClientStates, Recheck
<1>2. CASE Listens(d0)
  <2>1. Reach(c, d0) /\ Unlock(c)
    BY <1>2 DEF Recheck
  <2>2. OnlyClient(c) /\ client'[c].pc = "stat"
    BY <2>1, ReachGoes
  <2>3. spawner' = [k \in Builds |-> IF spawner[k] = c THEN Nobody ELSE spawner[k]]
    BY <1>1, <2>1, UnlockIs DEF LockPoints
  <2>4. client'[c].pc \notin LockPoints /\ client[c].pc # "wait"
    BY <1>1, <2>2 DEF LockPoints
  <2> QED
    BY <1>1, <2>2, <2>3, <2>4, FleetUnlocked
<1>3. CASE ~Listens(d0)
  <2>1. client' = [client EXCEPT ![c] = y] /\ spawner' = spawner
    BY <1>3 DEF Recheck
  <2>2. y.pc = "clear" /\ y.target = k0
    BY <1>1 DEF ClientStates
  <2> HIDE DEF y
  <2>3. OnlyClient(c) /\ client'[c].pc = "clear" /\ client'[c].target = k0
    BY <1>1, <2>1, <2>2 DEF OnlyClient
  <2>4. LockIsHeld'
    BY <1>1, <2>1, <2>3, FleetAdvances DEF LockPoints
  <2>5. StartersAreWaitedFor'
    BY <1>1, <2>3, StartersStay
  <2>6. FilesAreBound' /\ ServersAreFound'
    BY <1>1 DEF FleetHolds, FilesAreBound, ServersAreFound, Serves
  <2>7. ASSUME NEW d \in Daemons, Serves(d) PROVE daemon[d].path # k0
    <3>1. daemon[d].path = k0 => socket[k0] = d
      BY <2>7 DEF FleetHolds, ServersAreFound, Serves
    <3>2. d # Nobody
      BY RelayAssumption
    <3> QED
      BY <1>3, <2>7, <3>1, <3>2 DEF Listens, Serves
  <2>8. PathIsFree(client[c])'
    BY <1>1, <2>3, <2>7 DEF PathIsFree, Serves
  <2>9. PathsAreFree'
    BY <1>1, <2>3, <2>8, PathsStay
  <2> QED
    BY <2>4, <2>5, <2>6, <2>9 DEF FleetHolds
<1> QED
  BY <1>2, <1>3

LEMMA FleetClearStale ==
  ASSUME RelayTypeOK, FleetHolds, NEW c \in Clients, ClearStale(c)
  PROVE  FleetHolds'
<1> DEFINE k0 == client[c].target
           y == [client[c] EXCEPT !.pc = "spawn"]
<1>1. client \in [Clients -> ClientStates] /\ k0 \in Builds /\ client[c].pc = "clear"
      /\ socket \in [Builds -> Daemons \cup {Nobody}] /\ daemon \in [Daemons -> DaemonStates]
      /\ socket' = [socket EXCEPT ![k0] = Nobody] /\ UNCHANGED <<spawner, daemon>>
  BY DEF RelayTypeOK, ClientStates, ClearStale
<1>2. client' = [client EXCEPT ![c] = y]
  BY DEF ClearStale
<1>3. y.pc = "spawn" /\ y.target = k0
  BY <1>1 DEF ClientStates
<1> HIDE DEF y
<1>4. OnlyClient(c) /\ client'[c].pc = "spawn" /\ client'[c].target = k0
  BY <1>1, <1>2, <1>3 DEF OnlyClient
<1>5. \A k \in Builds : socket'[k] = IF k = k0 THEN Nobody ELSE socket[k]
  BY <1>1
<1>6. LockIsHeld'
  BY <1>1, <1>4, FleetAdvances DEF LockPoints
<1>7. StartersAreWaitedFor'
  BY <1>1, <1>4, StartersStay
<1>8. FilesAreBound'
  BY <1>1, <1>5 DEF FleetHolds, FilesAreBound, Serves
<1>9. ServersAreFound'
  <2> SUFFICES ASSUME NEW d \in Daemons, Serves(d) PROVE socket'[daemon[d].path] = d
    BY <1>1 DEF ServersAreFound, Serves
  <2>1. daemon[d].path # k0
    BY <1>1 DEF FleetHolds, PathsAreFree, PathIsFree
  <2>2. daemon[d].path \in Builds /\ socket[daemon[d].path] = d
    BY <1>1 DEF DaemonStates, FleetHolds, ServersAreFound, Serves
  <2> QED
    BY <1>5, <2>1, <2>2
<1>10. PathsAreFree'
  <2> SUFFICES ASSUME NEW e \in Clients PROVE PathIsFree(client[e])'
    BY DEF PathsAreFree
  <2>1. CASE e = c
    BY <1>1, <1>4, <1>5, <2>1 DEF PathIsFree
  <2>2. CASE e # c
    <3>1. client'[e] = client[e] /\ client[e].target \in Builds
      BY <1>1, <1>4, <2>2 DEF OnlyClient, ClientStates
    <3>2. socket'[client[e].target] \in {socket[client[e].target], Nobody}
      BY <1>5, <3>1
    <3> QED
      BY <1>1, <3>1, <3>2 DEF FleetHolds, PathsAreFree, PathIsFree, Serves
  <2> QED
    BY <2>1, <2>2
<1> QED
  BY <1>6, <1>7, <1>8, <1>9, <1>10 DEF FleetHolds

LEMMA FleetSpawnDaemon ==
  ASSUME RelayTypeOK, FleetHolds, NEW c \in Clients, SpawnDaemon(c)
  PROVE  FleetHolds'
<1> DEFINE k0 == client[c].target
           d0 == CHOOSE e \in Daemons : daemon[e].pc = "off"
           x == [pc |-> "starting", build |-> binary, path |-> k0, retiring |-> FALSE]
           y == [client[c] EXCEPT !.pc = "wait", !.reached = d0]
<1>1. client \in [Clients -> ClientStates] /\ k0 \in Builds /\ client[c].pc = "spawn"
      /\ socket \in [Builds -> Daemons \cup {Nobody}] /\ daemon \in [Daemons -> DaemonStates]
      /\ socket' = socket
  BY DEF RelayTypeOK, ClientStates, SpawnDaemon
<1>2. CASE NoDaemon(c) /\ Unlock(c) /\ UNCHANGED daemon
  <2>1. OnlyClient(c) /\ client'[c].pc \in {"local", "up", "failed"}
    BY <1>2, NoDaemonGoes
  <2>2. spawner' = [k \in Builds |-> IF spawner[k] = c THEN Nobody ELSE spawner[k]]
    BY <1>1, <1>2, UnlockIs DEF LockPoints
  <2>3. client'[c].pc \notin LockPoints /\ client[c].pc # "wait"
    BY <1>1, <2>1 DEF LockPoints
  <2> QED
    BY <1>1, <1>2, <2>1, <2>2, <2>3, FleetUnlocked
<1>3. CASE /\ \E e \in Daemons : daemon[e].pc = "off"
           /\ daemon' = [daemon EXCEPT ![d0] = x]
           /\ client' = [client EXCEPT ![c].pc = "wait", ![c].reached = d0]
           /\ UNCHANGED spawner
  <2>1. d0 \in Daemons /\ daemon[d0].pc = "off"
    BY <1>3
  <2>2. client' = [client EXCEPT ![c] = y]
    BY <1>3
  <2> HIDE DEF d0
  <2>3. y.pc = "wait" /\ y.target = k0 /\ y.reached = d0
    BY <1>1 DEF ClientStates
  <2> HIDE DEF y
  <2>4. OnlyClient(c) /\ client'[c].pc = "wait" /\ client'[c].target = k0 /\ client'[c].reached = d0
    BY <1>1, <2>2, <2>3 DEF OnlyClient
  <2>5. \A d \in Daemons : daemon'[d] = IF d = d0 THEN x ELSE daemon[d]
    BY <1>1, <1>3
  <2>6. x.pc = "starting" /\ x.path = k0 /\ x.retiring = FALSE
    OBVIOUS
  <2> HIDE DEF x
  <2>7. LockIsHeld'
    BY <1>1, <1>3, <2>4, FleetAdvances DEF LockPoints
  <2>8. StartersAreWaitedFor'
    <3> SUFFICES ASSUME NEW d \in Daemons, daemon'[d].pc = "starting"
                 PROVE  /\ ~daemon'[d].retiring
                        /\ \E e \in Clients : /\ client'[e].pc = "wait" /\ client'[e].reached = d
                                              /\ client'[e].target = daemon'[d].path
      BY DEF StartersAreWaitedFor
    <3>1. CASE d = d0
      BY <2>4, <2>5, <2>6, <3>1
    <3>2. CASE d # d0
      <4>1. PICK e \in Clients : /\ client[e].pc = "wait" /\ client[e].reached = d
                                 /\ client[e].target = daemon[d].path
        BY <2>5, <3>2 DEF FleetHolds, StartersAreWaitedFor
      <4>2. e # c
        BY <1>1, <4>1
      <4> QED
        BY <2>4, <2>5, <3>2, <4>1, <4>2 DEF OnlyClient, FleetHolds, StartersAreWaitedFor
    <3> QED
      BY <3>1, <3>2
  <2>9. FilesAreBound'
    <3> SUFFICES ASSUME NEW k \in Builds, socket[k] # Nobody
                 PROVE  /\ daemon'[socket[k]].pc \in {"serving", "gone"}
                        /\ daemon'[socket[k]].pc = "serving" =>
                             daemon'[socket[k]].path = k /\ ~daemon'[socket[k]].retiring
      BY <1>1 DEF FilesAreBound, Serves
    <3>1. socket[k] \in Daemons /\ daemon[socket[k]].pc \in {"serving", "gone"}
      BY <1>1 DEF FleetHolds, FilesAreBound
    <3>2. socket[k] # d0
      BY <2>1, <3>1
    <3> QED
      BY <2>5, <3>1, <3>2 DEF FleetHolds, FilesAreBound, Serves
  <2>10. ServersAreFound'
    BY <1>1, <2>5, <2>6 DEF FleetHolds, ServersAreFound
  <2>11. PathsAreFree'
    <3> SUFFICES ASSUME NEW e \in Clients PROVE PathIsFree(client[e])'
      BY DEF PathsAreFree
    <3>1. CASE e = c
      <4>1. socket[k0] = Nobody
        BY <1>1 DEF FleetHolds, PathsAreFree, PathIsFree
      <4>2. d0 # Nobody
        BY <2>1, RelayAssumption
      <4> QED
        BY <1>1, <2>4, <3>1, <4>1, <4>2 DEF PathIsFree
    <3>2. CASE e # c
      <4>1. \A d \in Daemons : Serves(d)' => Serves(d) /\ daemon'[d].path = daemon[d].path
        BY <2>5, <2>6 DEF Serves
      <4>2. client'[e] = client[e]
        BY <2>4, <3>2 DEF OnlyClient
      <4> QED
        BY <1>1, <4>1, <4>2 DEF FleetHolds, PathsAreFree, PathIsFree
    <3> QED
      BY <3>1, <3>2
  <2> QED
    BY <2>7, <2>8, <2>9, <2>10, <2>11 DEF FleetHolds
<1> QED
  BY <1>2, <1>3 DEF SpawnDaemon

\* A daemon that starts or serves is gone, and with it or not its file.
LEMMA FleetWithout ==
  ASSUME RelayTypeOK, NEW d \in Daemons, daemon' = [daemon EXCEPT ![d] = Gone],
         FilesAreBound, ServersAreFound,
         \/ socket' = socket
         \/ ~daemon[d].retiring /\ daemon[d].pc = "serving"
            /\ socket' = [socket EXCEPT ![daemon[d].path] = Nobody]
  PROVE  /\ FilesAreBound' /\ ServersAreFound'
         /\ \A e \in Daemons : (Serves(e)' => Serves(e) /\ daemon'[e].path = daemon[e].path)
                               /\ (daemon'[e].pc = "starting" => e # d /\ daemon'[e] = daemon[e])
         /\ \A k \in Builds : socket'[k] \in {socket[k], Nobody}
<1>1. /\ socket \in [Builds -> Daemons \cup {Nobody}] /\ daemon \in [Daemons -> DaemonStates]
      /\ \A e \in Daemons : daemon[e].path \in Builds
  BY DEF RelayTypeOK, DaemonStates
<1>2. Gone.pc = "gone"
  BY DEF Gone
<1>3. \A e \in Daemons : daemon'[e] = IF e = d THEN Gone ELSE daemon[e]
  BY <1>1
<1>4. \A k \in Builds : \/ socket'[k] = socket[k]
                        \/ /\ ~daemon[d].retiring /\ daemon[d].pc = "serving"
                           /\ k = daemon[d].path /\ socket'[k] = Nobody
  BY <1>1
<1>5. FilesAreBound'
  <2> SUFFICES ASSUME NEW k \in Builds, socket'[k] # Nobody
               PROVE  /\ daemon'[socket'[k]].pc \in {"serving", "gone"}
                      /\ daemon'[socket'[k]].pc = "serving" =>
                           daemon'[socket'[k]].path = k /\ ~daemon'[socket'[k]].retiring
    BY DEF FilesAreBound, Serves
  <2>1. socket'[k] = socket[k] /\ socket[k] \in Daemons
    BY <1>1, <1>4
  <2> QED
    BY <1>2, <1>3, <2>1 DEF FilesAreBound, Serves
<1>6. ServersAreFound'
  <2> SUFFICES ASSUME NEW e \in Daemons, daemon'[e].pc = "serving", ~daemon'[e].retiring
               PROVE  socket'[daemon'[e].path] = e
    BY DEF ServersAreFound
  <2>1. e # d /\ daemon'[e] = daemon[e]
    BY <1>2, <1>3
  <2>2. socket[daemon[e].path] = e
    BY <2>1 DEF ServersAreFound
  <2>3. socket'[daemon[e].path] # Nobody
    <3>1. CASE socket'[daemon[e].path] = socket[daemon[e].path]
      BY <2>2, <3>1, RelayAssumption
    <3>2. CASE ~daemon[d].retiring /\ daemon[d].pc = "serving" /\ daemon[e].path = daemon[d].path
      BY <2>1, <2>2, <3>2 DEF ServersAreFound
    <3> QED
      BY <1>1, <1>4, <3>1, <3>2
  <2> QED
    BY <1>1, <1>4, <2>1, <2>2, <2>3
<1>7. \A e \in Daemons : (Serves(e)' => Serves(e) /\ daemon'[e].path = daemon[e].path)
                         /\ (daemon'[e].pc = "starting" => e # d /\ daemon'[e] = daemon[e])
  BY <1>2, <1>3 DEF Serves
<1> QED
  BY <1>4, <1>5, <1>6, <1>7

\* The rest of the fleet when a daemon is gone.
LEMMA FleetGone ==
  ASSUME RelayTypeOK, FleetHolds, NEW d \in Daemons, daemon' = [daemon EXCEPT ![d] = Gone],
         UNCHANGED <<client, spawner>>,
         \/ socket' = socket
         \/ ~daemon[d].retiring /\ daemon[d].pc = "serving"
            /\ socket' = [socket EXCEPT ![daemon[d].path] = Nobody]
  PROVE  FleetHolds'
<1>1. /\ FilesAreBound' /\ ServersAreFound'
      /\ \A e \in Daemons : (Serves(e)' => Serves(e) /\ daemon'[e].path = daemon[e].path)
                            /\ (daemon'[e].pc = "starting" => e # d /\ daemon'[e] = daemon[e])
      /\ \A k \in Builds : socket'[k] \in {socket[k], Nobody}
  BY FleetWithout DEF FleetHolds
<1>2. LockIsHeld'
  BY DEF FleetHolds, LockIsHeld
<1>3. StartersAreWaitedFor'
  BY <1>1 DEF FleetHolds, StartersAreWaitedFor
<1>4. PathsAreFree'
  <2> SUFFICES ASSUME NEW e \in Clients PROVE PathIsFree(client[e])'
    BY DEF PathsAreFree
  <2>1. client[e].target \in Builds /\ client'[e] = client[e]
    BY DEF RelayTypeOK, ClientStates
  <2> QED
    BY <1>1, <2>1 DEF FleetHolds, PathsAreFree, PathIsFree
<1> QED
  BY <1>1, <1>2, <1>3, <1>4 DEF FleetHolds

LEMMA FleetWaitForDaemon ==
  ASSUME RelayTypeOK, FleetHolds, NEW c \in Clients, WaitForDaemon(c)
  PROVE  FleetHolds'
<1> DEFINE k0 == client[c].target
           d0 == socket[k0]
           child == client[c].reached
<1>1. /\ client \in [Clients -> ClientStates] /\ k0 \in Builds /\ client[c].pc = "wait"
      /\ daemon \in [Daemons -> DaemonStates] /\ child \in Daemons \cup {Nobody}
      /\ socket' = socket /\ Unlock(c)
  BY DEF RelayTypeOK, ClientStates, WaitForDaemon
<1>2. spawner' = [k \in Builds |-> IF spawner[k] = c THEN Nobody ELSE spawner[k]]
  BY <1>1, UnlockIs DEF LockPoints
<1>3. child \in Daemons /\ d0 \in {Nobody, child}
  BY <1>1 DEF FleetHolds, PathsAreFree, PathIsFree
<1>4. CASE Listens(d0) /\ Reach(c, d0) /\ daemon' = daemon
  <2>1. OnlyClient(c) /\ client'[c].pc = "stat"
    BY <1>4, ReachGoes
  <2>2. daemon[child].pc = "serving"
    BY <1>3, <1>4 DEF Listens
  <2>3. client'[c].pc \notin LockPoints /\ \A d \in Daemons : daemon[d].pc = "starting" => child # d
    BY <2>1, <2>2 DEF LockPoints
  <2> QED
    BY <1>1, <1>2, <1>4, <2>1, <2>3, FleetUnlocked
<1>5. CASE ~Alive(child) /\ NoDaemon(c) /\ daemon' = daemon
  <2>1. OnlyClient(c) /\ client'[c].pc \in {"local", "up", "failed"}
    BY <1>5, NoDaemonGoes
  <2>2. client'[c].pc \notin LockPoints
    BY <2>1 DEF LockPoints
  <2>3. \A d \in Daemons : daemon[d].pc = "starting" => child # d
    BY <1>5, RelayAssumption DEF Alive
  <2> QED
    BY <1>1, <1>2, <1>5, <2>1, <2>2, <2>3, FleetUnlocked
<1>6. CASE daemon[child].pc = "starting" /\ daemon' = [daemon EXCEPT ![child] = Gone] /\ NoDaemon(c)
  <2>1. OnlyClient(c) /\ client'[c].pc \in {"local", "up", "failed"}
    BY <1>6, NoDaemonGoes
  <2>2. client'[c].pc \notin LockPoints
    BY <2>1 DEF LockPoints
  <2>3. LockIsHeld'
    BY <1>2, <2>1, <2>2, LockReleased
  <2>4. /\ FilesAreBound' /\ ServersAreFound'
        /\ \A e \in Daemons : (Serves(e)' => Serves(e) /\ daemon'[e].path = daemon[e].path)
                              /\ (daemon'[e].pc = "starting" => e # child /\ daemon'[e] = daemon[e])
    BY <1>1, <1>3, <1>6, FleetWithout DEF FleetHolds
  <2>5. StartersAreWaitedFor'
    <3> SUFFICES ASSUME NEW d \in Daemons, daemon'[d].pc = "starting"
                 PROVE  /\ ~daemon'[d].retiring
                        /\ \E e \in Clients : /\ client'[e].pc = "wait" /\ client'[e].reached = d
                                              /\ client'[e].target = daemon'[d].path
      BY DEF StartersAreWaitedFor
    <3>1. d # child /\ daemon'[d] = daemon[d]
      BY <2>4
    <3>2. PICK e \in Clients : /\ client[e].pc = "wait" /\ client[e].reached = d
                               /\ client[e].target = daemon[d].path
      BY <3>1 DEF FleetHolds, StartersAreWaitedFor
    <3>3. client'[e] = client[e]
      BY <2>1, <3>1, <3>2 DEF OnlyClient
    <3> QED
      BY <3>1, <3>2, <3>3 DEF FleetHolds, StartersAreWaitedFor
  <2>6. PathsAreFree'
    <3> SUFFICES ASSUME NEW e \in Clients PROVE PathIsFree(client[e])'
      BY DEF PathsAreFree
    <3>1. CASE e = c
      BY <2>1, <3>1 DEF PathIsFree
    <3>2. CASE e # c
      <4>1. client'[e] = client[e]
        BY <2>1, <3>2 DEF OnlyClient
      <4> QED
        BY <1>1, <2>4, <4>1 DEF FleetHolds, PathsAreFree, PathIsFree
    <3> QED
      BY <3>1, <3>2
  <2> QED
    BY <2>3, <2>4, <2>5, <2>6 DEF FleetHolds
<1> QED
  BY <1>4, <1>5, <1>6 DEF WaitForDaemon

LEMMA FleetClientDies ==
  ASSUME ~WaitersDie, RelayTypeOK, FleetHolds, NEW c \in Clients, ClientDies(c)
  PROVE  FleetHolds'
<1>1. client \in [Clients -> ClientStates] /\ Ended("dead").pc = "dead"
  BY EndedType DEF RelayTypeOK, Over
<1>2. /\ client[c].pc # "wait" /\ client' = [client EXCEPT ![c] = Ended("dead")]
      /\ UNCHANGED <<socket, daemon>>
      /\ spawner' = [k \in Builds |-> IF spawner[k] = c THEN Nobody ELSE spawner[k]]
  BY DEF ClientDies
<1>3. OnlyClient(c) /\ client'[c].pc \notin LockPoints
  BY <1>1, <1>2 DEF OnlyClient, LockPoints
<1> QED
  BY <1>2, <1>3, FleetUnlocked

LEMMA FleetBind ==
  ASSUME RelayTypeOK, FleetHolds, NEW d \in Daemons, Bind(d)
  PROVE  FleetHolds'
<1> DEFINE k0 == daemon[d].path
           x == [daemon[d] EXCEPT !.pc = "serving"]
<1>1. /\ socket \in [Builds -> Daemons \cup {Nobody}] /\ daemon \in [Daemons -> DaemonStates]
      /\ k0 \in Builds /\ daemon[d].pc = "starting" /\ UNCHANGED <<client, spawner>>
      /\ \A c \in Clients : client[c].target \in Builds
  BY DEF RelayTypeOK, DaemonStates, ClientStates, Bind
<1>2. PICK c \in Clients : client[c].pc = "wait" /\ client[c].reached = d /\ client[c].target = k0
  BY <1>1 DEF FleetHolds, StartersAreWaitedFor
<1>3. ~daemon[d].retiring
  BY <1>1 DEF FleetHolds, StartersAreWaitedFor
<1>4. CASE socket[k0] = Nobody
  <2>1. socket' = [socket EXCEPT ![k0] = d] /\ daemon' = [daemon EXCEPT ![d] = x]
    BY <1>4 DEF Bind
  <2>2. x.pc = "serving" /\ x.path = k0 /\ ~x.retiring
    BY <1>1, <1>3 DEF DaemonStates
  <2> HIDE DEF x
  <2>3. /\ \A k \in Builds : socket'[k] = IF k = k0 THEN d ELSE socket[k]
        /\ \A e \in Daemons : daemon'[e] = IF e = d THEN x ELSE daemon[e]
    BY <1>1, <2>1
  <2>4. LockIsHeld'
    BY <1>1 DEF FleetHolds, LockIsHeld
  <2>5. StartersAreWaitedFor'
    BY <1>1, <2>2, <2>3 DEF FleetHolds, StartersAreWaitedFor
  <2>6. FilesAreBound'
    <3> SUFFICES ASSUME NEW k \in Builds, socket'[k] # Nobody
                 PROVE  /\ daemon'[socket'[k]].pc \in {"serving", "gone"}
                        /\ daemon'[socket'[k]].pc = "serving" =>
                             daemon'[socket'[k]].path = k /\ ~daemon'[socket'[k]].retiring
      BY DEF FilesAreBound, Serves
    <3>1. CASE k = k0
      BY <2>2, <2>3, <3>1
    <3>2. CASE k # k0
      <4>1. socket'[k] = socket[k] /\ socket[k] \in Daemons /\ daemon[socket[k]].pc \in {"serving", "gone"}
        BY <1>1, <2>3, <3>2 DEF FleetHolds, FilesAreBound
      <4>2. socket[k] # d
        BY <1>1, <4>1
      <4> QED
        BY <2>3, <4>1, <4>2 DEF FleetHolds, FilesAreBound, Serves
    <3> QED
      BY <3>1, <3>2
  <2>7. ServersAreFound'
    <3> SUFFICES ASSUME NEW e \in Daemons, daemon'[e].pc = "serving", ~daemon'[e].retiring
                 PROVE  socket'[daemon'[e].path] = e
      BY DEF ServersAreFound
    <3>1. CASE e = d
      BY <1>1, <2>2, <2>3, <3>1
    <3>2. CASE e # d
      <4>1. daemon'[e] = daemon[e] /\ socket[daemon[e].path] = e /\ daemon[e].path \in Builds
        BY <1>1, <2>3, <3>2 DEF FleetHolds, ServersAreFound, DaemonStates
      <4>2. daemon[e].path # k0
        BY <1>4, <4>1, RelayAssumption
      <4> QED
        BY <2>3, <4>1, <4>2
    <3> QED
      BY <3>1, <3>2
  <2>8. PathsAreFree'
    <3> SUFFICES ASSUME NEW e \in Clients PROVE PathIsFree(client[e])'
      BY DEF PathsAreFree
    <3>1. CASE e = c
      BY <1>1, <1>2, <2>3, <3>1, RelayAssumption DEF PathIsFree
    <3>2. CASE e # c
      <4>1. client[e].pc \in LockPoints => client[e].target # k0
        BY <1>1, <1>2, <3>2, OneHolder DEF LockPoints
      <4>2. PathIsFree(client[e])
        BY DEF FleetHolds, PathsAreFree
      <4>3. client[e].target # k0 => socket'[client[e].target] = socket[client[e].target]
        BY <1>1, <2>3
      <4>4. \A g \in Daemons : Serves(g)' => g = d \/ (Serves(g) /\ daemon'[g].path = daemon[g].path)
        BY <2>3 DEF Serves
      <4>5. daemon'[d].path = k0
        BY <2>2, <2>3
      <4> QED
        BY <1>1, <4>1, <4>2, <4>3, <4>4, <4>5 DEF PathIsFree, LockPoints
    <3> QED
      BY <3>1, <3>2
  <2> QED
    BY <2>4, <2>5, <2>6, <2>7, <2>8 DEF FleetHolds
<1>5. CASE socket[k0] # Nobody
  <2>1. socket' = socket /\ daemon' = [daemon EXCEPT ![d] = Gone]
    BY <1>5 DEF Bind
  <2> QED
    BY <1>1, <2>1, FleetGone
<1> QED
  BY <1>4, <1>5

LEMMA FleetRetire ==
  ASSUME RelayTypeOK, FleetHolds, NEW d \in Daemons, Retire(d)
  PROVE  FleetHolds'
<1> DEFINE k0 == daemon[d].path
           x == [daemon[d] EXCEPT !.retiring = TRUE]
<1>1. /\ socket \in [Builds -> Daemons \cup {Nobody}] /\ daemon \in [Daemons -> DaemonStates]
      /\ k0 \in Builds /\ Serves(d) /\ UNCHANGED <<client, spawner>>
      /\ \A c \in Clients : client[c].target \in Builds
      /\ socket' = [socket EXCEPT ![k0] = Nobody] /\ daemon' = [daemon EXCEPT ![d] = x]
  BY DEF RelayTypeOK, DaemonStates, ClientStates, Retire, Serves
<1>2. x.pc = "serving" /\ x.path = k0 /\ x.retiring
  BY <1>1 DEF DaemonStates, Serves
<1> HIDE DEF x
<1>3. /\ \A k \in Builds : socket'[k] = IF k = k0 THEN Nobody ELSE socket[k]
      /\ \A e \in Daemons : daemon'[e] = IF e = d THEN x ELSE daemon[e]
  BY <1>1
<1>4. socket[k0] = d
  BY <1>1 DEF FleetHolds, ServersAreFound, Serves
<1>5. LockIsHeld'
  BY <1>1 DEF FleetHolds, LockIsHeld
<1>6. StartersAreWaitedFor'
  BY <1>1, <1>2, <1>3 DEF FleetHolds, StartersAreWaitedFor
<1>7. FilesAreBound'
  <2> SUFFICES ASSUME NEW k \in Builds, socket'[k] # Nobody
               PROVE  /\ daemon'[socket'[k]].pc \in {"serving", "gone"}
                      /\ daemon'[socket'[k]].pc = "serving" =>
                           daemon'[socket'[k]].path = k /\ ~daemon'[socket'[k]].retiring
    BY DEF FilesAreBound, Serves
  <2>1. k # k0 /\ socket'[k] = socket[k] /\ socket[k] \in Daemons
    BY <1>1, <1>3
  <2>2. socket[k] # d
    BY <1>1, <2>1 DEF FleetHolds, FilesAreBound, Serves
  <2> QED
    BY <1>3, <2>1, <2>2 DEF FleetHolds, FilesAreBound, Serves
<1>8. ServersAreFound'
  <2> SUFFICES ASSUME NEW e \in Daemons, daemon'[e].pc = "serving", ~daemon'[e].retiring
               PROVE  socket'[daemon'[e].path] = e
    BY DEF ServersAreFound
  <2>1. e # d /\ daemon'[e] = daemon[e] /\ socket[daemon[e].path] = e /\ daemon[e].path \in Builds
    BY <1>1, <1>2, <1>3 DEF FleetHolds, ServersAreFound, DaemonStates
  <2> QED
    BY <1>3, <1>4, <2>1
<1>9. PathsAreFree'
  <2> SUFFICES ASSUME NEW e \in Clients PROVE PathIsFree(client[e])'
    BY DEF PathsAreFree
  <2>1. \A g \in Daemons : Serves(g)' => Serves(g) /\ daemon'[g].path = daemon[g].path
    BY <1>2, <1>3 DEF Serves
  <2>2. socket'[client[e].target] \in {socket[client[e].target], Nobody}
    BY <1>1, <1>3
  <2> QED
    BY <1>1, <2>1, <2>2 DEF FleetHolds, PathsAreFree, PathIsFree
<1> QED
  BY <1>5, <1>6, <1>7, <1>8, <1>9 DEF FleetHolds

\* Where the steps outside the spawn lock leave their client.
LEMMA OutsideTheLock ==
  ASSUME RelayTypeOK, FleetHolds, NEW c \in Clients, UNCHANGED <<socket, spawner, daemon>>,
         NEW y, y.pc \notin LockPoints, client[c].pc \notin LockPoints,
         client' = [client EXCEPT ![c] = y]
  PROVE  FleetHolds'
<1>1. OnlyClient(c) /\ client'[c].pc \notin LockPoints
  BY DEF RelayTypeOK, OnlyClient
<1> QED
  BY <1>1, FleetElsewhere

LEMMA FleetOutside ==
  ASSUME RelayTypeOK, FleetHolds, NEW c \in Clients,
         \/ Dial(c) \/ Attach(c) \/ Lost(c) \/ Move(c) \/ RetryDue(c) \/ DrainExpires(c)
         \/ Initialized(c) \/ CloseInput(c)
         \/ \E r \in Requests : FromDaemon(c, r) \/ FromHost(c, r) \/ Cancel(c, r)
  PROVE  FleetHolds'
<1>1. UNCHANGED <<socket, spawner, daemon>>
  BY DEF Dial, Attach, Lost, Move, RetryDue, DrainExpires, Initialized, CloseInput, FromDaemon,
         FromHost, Cancel, fleet
<1>2. client[c].pc \notin LockPoints
  BY DEF Dial, Attach, Lost, Move, RetryDue, DrainExpires, Initialized, CloseInput, FromDaemon,
         FromHost, Cancel, LockPoints
<1>3. client[c] \in ClientStates
  BY DEF RelayTypeOK
<1>4. \A pc \in Over : Ended(pc).pc \notin LockPoints
  BY EndedType DEF Over, LockPoints
<1>5. CASE Dial(c)
  <2> DEFINE d == socket[target]
             p == IF Listens(d) THEN "stat" ELSE "lock"
             e == IF Listens(d) THEN d ELSE Nobody
             k == target
             y == [client[c] EXCEPT !.target = k, !.pc = p, !.reached = e]
  <2>1. client' = [client EXCEPT ![c] = y]
    BY <1>5 DEF Dial
  <2>2. p \in {"stat", "lock"}
    OBVIOUS
  <2> HIDE DEF p, k, e
  <2>3. y.pc \notin LockPoints
    BY <1>3, <2>2 DEF ClientStates, LockPoints
  <2> HIDE DEF y
  <2> QED
    BY <1>1, <1>2, <2>1, <2>3, OutsideTheLock
<1>6. CASE Attach(c)
  <2>1. PICK y : client' = [client EXCEPT ![c] = y] /\ y.pc = "up"
    <3> DEFINE f == socket[client[c].target]
               q == IF client[c].why = "move" THEN 0 ELSE client[c].quick_losses
               p == client[c].pending \ Refused(c)
               s == [r \in Calls |-> IF r \in Repeated(c) THEN client[c].sent[r] + 1 ELSE client[c].sent[r]]
               w == Swallowed(c)
               y == [client[c] EXCEPT !.pc = "up", !.retry = TRUE, !.reached = Nobody,
                       !.path = client[c].target, !.file = f, !.swallow = w,
                       !.quick_losses = q, !.pending = p, !.sent = s]
               z == [client[c] EXCEPT !.pc = "up", !.retry = TRUE, !.reached = Nobody,
                       !.path = client[c].target, !.file = f, !.swallow = FALSE]
    <3>1. client' = [client EXCEPT ![c] = y] \/ client' = [client EXCEPT ![c] = z]
      BY <1>6, ZenonT(60) DEF Attach
    <3> HIDE DEF f, q, p, s, w
    <3>2. y.pc = "up" /\ z.pc = "up"
      BY <1>3 DEF ClientStates
    <3> HIDE DEF y, z
    <3> QED
      BY <3>1, <3>2
  <2>2. y.pc \notin LockPoints
    BY <2>1 DEF LockPoints
  <2> QED
    BY <1>1, <1>2, <2>1, <2>2, OutsideTheLock
<1>7. CASE Lost(c)
  <2> DEFINE losses == IF link[c].delivered THEN 1 ELSE client[c].quick_losses + 1
             y == [client[c] EXCEPT !.pc = "dial", !.why = "lost", !.quick_losses = losses]
  <2>1. \/ client' = [client EXCEPT ![c] = Ended("done")]
        \/ client' = [client EXCEPT ![c] = Ended("local")]
        \/ client' = [client EXCEPT ![c] = Ended("failed")]
        \/ client' = [client EXCEPT ![c] = y]
    BY <1>7 DEF Lost
  <2> HIDE DEF losses
  <2>2. y.pc \notin LockPoints
    BY <1>3 DEF ClientStates, LockPoints
  <2> HIDE DEF y
  <2>3. "done" \in Over /\ "local" \in Over /\ "failed" \in Over
    BY DEF Over
  <2> QED
    BY <1>1, <1>2, <1>4, <2>1, <2>2, <2>3, OutsideTheLock
<1>8. CASE Move(c) \/ RetryDue(c) \/ Initialized(c) \/ DrainExpires(c) \/ CloseInput(c)
  <2> DEFINE y == [client[c] EXCEPT !.pc = "dial", !.why = "move"]
             z == [client[c] EXCEPT !.retry = TRUE]
             i == [client[c] EXCEPT !.initialized = TRUE]
             o == [client[c] EXCEPT !.input_open = FALSE]
  <2>1. \/ client' = [client EXCEPT ![c] = y]
        \/ client' = [client EXCEPT ![c] = z]
        \/ client' = [client EXCEPT ![c] = i]
        \/ client' = [client EXCEPT ![c] = o]
        \/ client' = [client EXCEPT ![c] = Ended("failed")]
        \/ client' = [client EXCEPT ![c] = Ended("done")]
    BY <1>8 DEF Move, RetryDue, Initialized, DrainExpires, CloseInput
  <2>2. y.pc \notin LockPoints /\ z.pc \notin LockPoints /\ i.pc \notin LockPoints /\ o.pc \notin LockPoints
    BY <1>2, <1>3 DEF ClientStates, LockPoints
  <2> HIDE DEF y, z, i, o
  <2>3. "done" \in Over /\ "failed" \in Over
    BY DEF Over
  <2> QED
    BY <1>1, <1>2, <1>4, <2>1, <2>2, <2>3, OutsideTheLock
<1>9. ASSUME NEW r \in Requests, FromDaemon(c, r) PROVE FleetHolds'
  <2> DEFINE swallowed == r = "initialize" /\ client[c].swallow
             s == IF r \in Calls THEN [client[c].sent EXCEPT ![r] = 0] ELSE client[c].sent
             y == [client[c] EXCEPT !.handshake = IF r = "initialize" THEN "answered" ELSE @,
                                    !.swallow = IF swallowed THEN FALSE ELSE @,
                                    !.pending = IF swallowed THEN @ ELSE @ \ {r},
                                    !.sent = s]
  <2>1. client' = [client EXCEPT ![c] = y]
    BY <1>9 DEF FromDaemon
  <2> HIDE DEF swallowed, s
  <2>2. y.pc \notin LockPoints
    BY <1>2, <1>3 DEF ClientStates
  <2> HIDE DEF y
  <2> QED
    BY <1>1, <1>2, <2>1, <2>2, OutsideTheLock
<1>10. ASSUME NEW r \in Requests, FromHost(c, r) \/ Cancel(c, r) PROVE FleetHolds'
  <2> DEFINE s == IF r \in Calls THEN [client[c].sent EXCEPT ![r] = 1] ELSE client[c].sent
             y == [client[c] EXCEPT !.consumed = TRUE, !.pending = @ \cup {r},
                      !.handshake = IF r = "initialize" THEN "sent" ELSE @, !.sent = s]
             z == [client[c] EXCEPT !.consumed = TRUE]
             o == [client[c] EXCEPT !.pending = @ \ {r}]
  <2>1. \/ client' = [client EXCEPT ![c] = y]
        \/ client' = [client EXCEPT ![c] = z]
        \/ client' = [client EXCEPT ![c] = o]
    BY <1>10 DEF FromHost, Cancel
  <2> HIDE DEF s
  <2>2. y.pc \notin LockPoints /\ z.pc \notin LockPoints /\ o.pc \notin LockPoints
    BY <1>2, <1>3 DEF ClientStates
  <2> HIDE DEF y, z, o
  <2> QED
    BY <1>1, <1>2, <2>1, <2>2, OutsideTheLock
<1> QED
  BY <1>5, <1>6, <1>7, <1>8, <1>9, <1>10

LEMMA InitFleet == Init => FleetHolds
<1> SUFFICES ASSUME Init PROVE FleetHolds
  OBVIOUS
<1>1. /\ socket = [k \in Builds |-> Nobody] /\ spawner = [k \in Builds |-> Nobody]
      /\ daemon = [d \in Daemons |-> [Gone EXCEPT !.pc = "off"]]
      /\ client = [c \in Clients |-> IF c \in DOMAIN asks THEN NewClient ELSE Ended("done")]
  BY DEF Init
<1>2. \A d \in Daemons : daemon[d].pc = "off"
  BY <1>1 DEF Gone
<1>3. NewClient.pc = "dial" /\ Ended("done").pc = "done"
  BY DEF NewClient, Ended
<1>4. \A c \in Clients : client[c].pc \in {"dial", "done"}
  BY <1>1, <1>3
<1>5. \A k \in Builds : socket[k] = Nobody /\ spawner[k] = Nobody
  BY <1>1
<1> QED
  BY <1>2, <1>4, <1>5, RelayAssumption
     DEF FleetHolds, LockIsHeld, LockPoints, StartersAreWaitedFor, FilesAreBound, PathsAreFree,
         PathIsFree, ServersAreFound

LEMMA StepFleet ==
  ASSUME ~WaitersDie
  PROVE  RelayTypeOK /\ FleetHolds /\ [Next]_vars => FleetHolds'
<1> SUFFICES ASSUME RelayTypeOK, FleetHolds, [Next]_vars PROVE FleetHolds'
  OBVIOUS
<1>1. ASSUME NEW c \in Clients, SessionAction(c) PROVE FleetHolds'
  <2>1. CASE SpawnLock(c) \/ Recheck(c) \/ ClearStale(c) \/ SpawnDaemon(c) \/ WaitForDaemon(c) \/ ClientDies(c)
    BY <2>1, FleetSpawnLock, FleetRecheck, FleetClearStale, FleetSpawnDaemon, FleetWaitForDaemon,
       FleetClientDies
  <2>2. CASE HalfClose(c) \/ ServeStep(c)
    BY <2>2, FleetStill DEF HalfClose, ServeStep, Accept, EndOfInput, Answer, fleet
  <2>3. CASE \/ Dial(c) \/ Attach(c) \/ Lost(c) \/ Move(c) \/ RetryDue(c) \/ DrainExpires(c)
             \/ Initialized(c) \/ CloseInput(c)
             \/ \E r \in Requests : FromDaemon(c, r) \/ FromHost(c, r) \/ Cancel(c, r)
    BY <2>3, FleetOutside
  <2> QED
    BY <1>1, <2>1, <2>2, <2>3 DEF SessionAction, ClientStep
<1>2. ASSUME NEW d \in Daemons, DaemonAction(d) PROVE FleetHolds'
  <2>1. CASE Bind(d)
    BY <2>1, FleetBind
  <2>2. CASE Retire(d)
    BY <2>2, FleetRetire
  <2>3. CASE Leave(d) \/ Deadline(d) \/ Terminate(d)
    <3>1. /\ daemon' = [daemon EXCEPT ![d] = Gone] /\ UNCHANGED <<client, spawner>>
          /\ daemon[d].pc = "serving"
          /\ socket' = IF daemon[d].retiring THEN socket ELSE [socket EXCEPT ![daemon[d].path] = Nobody]
      BY <2>3 DEF Leave, Deadline, Terminate, Exit
    <3> QED
      BY <3>1, FleetGone
  <2>4. CASE Die(d)
    <3>1. daemon' = [daemon EXCEPT ![d] = Gone] /\ UNCHANGED <<client, spawner, socket>>
      BY <2>4 DEF Die
    <3> QED
      BY <3>1, FleetGone
  <2> QED
    BY <1>2, <2>1, <2>2, <2>3, <2>4 DEF DaemonAction, DaemonStep
<1>3. CASE RemoveBinary \/ InstallBinary
  BY <1>3, FleetStill DEF RemoveBinary, InstallBinary
<1>4. CASE UNCHANGED vars
  BY <1>4, FleetStill DEF vars, fleet
<1> QED
  BY <1>1, <1>2, <1>3, <1>4 DEF Next, Step, Rest, SessionAction, DaemonAction

\* When no client dies while its daemon starts, a daemon that serves and has not retired
\* has its file at its path: no exit, retirement or clean-up removes another's, and two
\* clients that start at once end up with one daemon (the spawn lock and its second look,
\* the flag of a retired daemon).
THEOREM ServersCanBeFound ==
  ASSUME ~WaitersDie
  PROVE  Spec => []ServersAreFound
<1>1. Init => FleetHolds
  BY InitFleet
<1>2. RelayTypeOK /\ FleetHolds /\ [Next]_vars => FleetHolds'
  BY StepFleet
<1>3. FleetHolds => ServersAreFound
  BY DEF FleetHolds
<1> QED
  BY <1>1, <1>2, <1>3, TypeCorrect, PTL DEF Spec

\* Under the same condition two daemons never take new sessions at one path.
THEOREM OneServer ==
  ASSUME ~WaitersDie
  PROVE  Spec => []OneServerPerPath
<1>1. ServersAreFound => OneServerPerPath
  BY DEF ServersAreFound, OneServerPerPath
<1> QED
  BY <1>1, ServersCanBeFound, PTL
==============================================================================
