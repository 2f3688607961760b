----------------------------- MODULE DaemonRelay -----------------------------
(***************************************************************************)
(* The shared daemon and the sessions that reach it: clients find or start *)
(* a daemon under the spawn lock, relay a conversation to it, and carry it *)
(* over to another daemon when theirs is lost, retires or is replaced by a *)
(* new build.                                                              *)
(*                                                                         *)
(* The socket's path is the key of a build. A socket file is known by the  *)
(* daemon that bound it. Lines on a connection are delivered in order, so  *)
(* what a client writes is in the daemon's hands at once: a daemon that    *)
(* dies before it read a line is one that dies before it ran the request.  *)
(* Daemons answer requests in any order, so those in flight are a set.     *)
(***************************************************************************)
EXTENDS Naturals, FiniteSets

CONSTANTS Clients, Daemons, Nobody,
          MaxUpheavals,                  \* bound: new builds and hard-limit retirements
          Calls,                         \* the tool calls a host makes
          StateChanging,                 \* those of STATE_CHANGING_TOOLS
          Workloads,                     \* which clients come, and what they ask
          QUICK_LOSSES_BEFORE_GIVING_UP, \* 3 in the code
          MaxFaults,                     \* bound: deaths, kills, timeouts, errors
          WaitersDie,                    \* may a client die while its daemon starts?
          HandshakesOverlap              \* may a move be called off while the answer
                                         \* to the last replayed handshake is due?

Builds == 0 .. MaxUpheavals

\* The requests of a session: its handshake and its tool calls.
Requests == {"initialize"} \cup Calls

ASSUME RelayAssumption ==
    /\ MaxFaults \in Nat /\ MaxUpheavals \in Nat
    /\ QUICK_LOSSES_BEFORE_GIVING_UP \in Nat
    /\ StateChanging \subseteq Calls /\ "initialize" \notin Calls
    /\ \A w \in Workloads : DOMAIN w \subseteq Clients /\ \A c \in DOMAIN w : w[c] \subseteq Requests
    /\ Nobody \notin Daemons \cup Clients \cup Builds /\ WaitersDie \in BOOLEAN /\ HandshakesOverlap \in BOOLEAN

VARIABLES
    binary,   \* the build at the launch path, or Nobody while it is swapped
    builds,   \* how many builds there have been
    socket,   \* [Builds -> Daemons \cup {Nobody}]: whose file is at the path
    spawner,  \* [Builds -> Clients \cup {Nobody}]: who holds the spawn lock
    daemon,   \* [Daemons -> DaemonStates]
    client,   \* [Clients -> ClientStates]
    link,     \* [Clients -> Links]: the connection and the daemon's end of it
    host,     \* [Clients -> [Requests -> ...]]: what the host sent and got
    ran,      \* [Clients -> [Calls -> Nat]]: how often a call was run
    faults, retirements,
    asks      \* the workload of this behaviour

fleet == <<binary, builds, socket, spawner, daemon>>
vars == <<fleet, client, link, host, ran, faults, retirements, asks>>

DaemonStates ==
    [pc : {"off", "starting", "serving", "gone"}, build : Builds, path : Builds,
     retiring : BOOLEAN]

\* SocketDialer and the loop of relay: what the client is doing and why it
\* dials, the path it dials, the daemon it spawned or reached, the file it saw
\* there, and the counters of the loop.
ClientStates ==
    [pc : {"dial", "lock", "recheck", "clear", "spawn", "wait", "stat", "up",
           "local", "done", "failed", "dead"},
     why : {"first", "lost", "move"}, target : Builds, reached : Daemons \cup {Nobody},
     path : Builds, file : Daemons \cup {Nobody}, retry : BOOLEAN,
     handshake : {"none", "sent", "answered"}, initialized : BOOLEAN,
     pending : SUBSET Requests, sent : [Calls -> 0 .. 2], swallow : BOOLEAN,
     consumed : BOOLEAN, input_open : BOOLEAN, quick_losses : 0 .. QUICK_LOSSES_BEFORE_GIVING_UP]

\* A connection: is it accepted and open, how far rmcp is with the handshake,
\* the requests it runs, the answers the client has not read.
Links ==
    [to : Daemons \cup {Nobody}, accepted : BOOLEAN, open : BOOLEAN,
     session : {"new", "initialize", "ready"}, running : SUBSET Requests,
     answers : SUBSET Requests, delivered : BOOLEAN, half_closed : BOOLEAN]

\* What a host knows of a request: it sent it, took it back, got so many answers.
HostStates == [sent : BOOLEAN, cancelled : BOOLEAN, got : Nat]

NoLink == [to |-> Nobody, accepted |-> FALSE, open |-> FALSE, session |-> "new",
           running |-> {}, answers |-> {}, delivered |-> FALSE, half_closed |-> FALSE]

NewClient ==
    [pc |-> "dial", why |-> "first", target |-> 0, reached |-> Nobody,
     path |-> 0, file |-> Nobody, retry |-> TRUE,
     handshake |-> "none", initialized |-> FALSE,
     pending |-> {}, sent |-> [r \in Calls |-> 0], swallow |-> FALSE,
     consumed |-> FALSE, input_open |-> TRUE, quick_losses |-> 0]

\* A client whose relay is over.
Ended(pc) == [NewClient EXCEPT !.pc = pc]

Gone == [pc |-> "gone", build |-> 0, path |-> 0, retiring |-> FALSE]

Init ==
    /\ binary = 0 /\ builds = 0 /\ faults = 0 /\ retirements = 0
    /\ socket = [k \in Builds |-> Nobody]
    /\ spawner = [k \in Builds |-> Nobody]
    /\ daemon = [d \in Daemons |-> [Gone EXCEPT !.pc = "off"]]
    /\ asks \in Workloads
    /\ client = [c \in Clients |-> IF c \in DOMAIN asks THEN NewClient ELSE Ended("done")]
    /\ link = [c \in Clients |-> NoLink]
    /\ host = [c \in Clients |-> [r \in Requests |-> [sent |-> FALSE, cancelled |-> FALSE, got |-> 0]]]
    /\ ran = [c \in Clients |-> [r \in Calls |-> 0]]

Fault == faults < MaxFaults /\ faults' = faults + 1

\* Somebody listens there: connect succeeds.
Listens(d) == d # Nobody /\ daemon[d].pc = "serving"

Alive(d) == d # Nobody /\ daemon[d].pc \in {"starting", "serving"}

\* A daemon's end of its connections when it is gone.
Closed(d) == [c \in Clients |-> IF link[c].to = d
                                THEN [link[c] EXCEPT !.to = Nobody, !.open = FALSE, !.accepted = FALSE,
                                                     !.running = {}]
                                ELSE link[c]]

(***************************************************************************)
(* connect_or_spawn                                                        *)
(***************************************************************************)

\* The socket a session was given at its start, when the first build was there.
startup == 0

\* SocketDialer::target, of a session that follows the key: the key of the binary
\* that is there now, and the socket given at startup while there is none.
target == IF binary = Nobody THEN startup ELSE binary

Reach(c, d) == client' = [client EXCEPT ![c].pc = "stat", ![c].reached = d]

\* The first try needs no lock.
Dial(c) ==
    /\ client[c].pc = "dial"
    /\ LET d == socket[target] IN
       client' = [client EXCEPT ![c].target = target,
                                ![c].pc = IF Listens(d) THEN "stat" ELSE "lock",
                                ![c].reached = IF Listens(d) THEN d ELSE Nobody]
    /\ UNCHANGED <<fleet, link, host, ran, faults, retirements>>

\* Mutant: two clients that found nobody both spawn a daemon.
SpawnLock_Shared(c) ==
    /\ client[c].pc = "lock"
    /\ spawner' = [spawner EXCEPT ![client[c].target] = c]
    /\ client' = [client EXCEPT ![c].pc = "recheck"]
    /\ UNCHANGED <<binary, builds, socket, daemon, link, host, ran, faults, retirements>>

\* SpawnLock::acquire
SpawnLock(c) ==
    /\ client[c].pc = "lock"
    /\ spawner[client[c].target] = Nobody
    /\ spawner' = [spawner EXCEPT ![client[c].target] = c]
    /\ client' = [client EXCEPT ![c].pc = "recheck"]
    /\ UNCHANGED <<binary, builds, socket, daemon, link, host, ran, faults, retirements>>

Unlock(c) == spawner' = [spawner EXCEPT ![client[c].target] = Nobody]

\* A daemon may have come up while the client waited for the lock.
Recheck(c) ==
    /\ client[c].pc = "recheck"
    /\ LET d == socket[client[c].target] IN
       IF Listens(d) THEN Reach(c, d) /\ Unlock(c)
       ELSE client' = [client EXCEPT ![c].pc = "clear"] /\ UNCHANGED spawner
    /\ UNCHANGED <<binary, builds, socket, daemon, link, host, ran, faults, retirements>>

\* The corpse of a daemon that died without cleaning up.
ClearStale(c) ==
    /\ client[c].pc = "clear"
    /\ socket' = [socket EXCEPT ![client[c].target] = Nobody]
    /\ client' = [client EXCEPT ![c].pc = "spawn"]
    /\ UNCHANGED <<binary, builds, spawner, daemon, link, host, ran, faults, retirements>>

\* Mutant: a session that gives up leaves its requests unanswered.
Abandoned_Silent(c) == host

Told(h) == [h EXCEPT !.got = @ + 1]

\* The relay's own answers to some requests.
AnsweredHere(c, rs) ==
    [host EXCEPT ![c] = [r \in Requests |-> IF r \in rs THEN Told(host[c][r]) ELSE host[c][r]]]

\* Answers for every request in flight when no daemon is left.
Abandoned(c) == AnsweredHere(c, client[c].pending)

\* No daemon could be reached or started. The first time the session is served
\* in-process, a move is put off, and a lost session ends with errors.
NoDaemon(c) ==
    CASE client[c].why = "first" ->
           client' = [client EXCEPT ![c] = Ended("local")] /\ UNCHANGED <<link, host>>
      [] client[c].why = "move" ->
           client' = [client EXCEPT ![c].pc = "up", ![c].retry = FALSE, ![c].reached = Nobody] /\ UNCHANGED <<link, host>>
      [] OTHER ->
           /\ client' = [client EXCEPT ![c] = Ended("failed")]
           /\ host' = Abandoned(c)
           /\ link' = [link EXCEPT ![c] = NoLink]

\* spawn_daemon, from the launch path: whatever build is there now.
SpawnDaemon(c) ==
    /\ client[c].pc = "spawn"
    /\ \/ /\ binary # Nobody
          /\ \E e \in Daemons : daemon[e].pc = "off"
          /\ LET d == CHOOSE e \in Daemons : daemon[e].pc = "off" IN
                /\ daemon' = [daemon EXCEPT ![d] = [pc |-> "starting", build |-> binary,
                                 path |-> client[c].target, retiring |-> FALSE]]
                /\ client' = [client EXCEPT ![c].pc = "wait", ![c].reached = d]
          /\ UNCHANGED <<spawner, link, host, faults>>
       \/ /\ binary = Nobody \/ \A d \in Daemons : daemon[d].pc # "off"
          /\ NoDaemon(c) /\ Unlock(c) /\ UNCHANGED <<daemon, faults>>
    /\ UNCHANGED <<binary, builds, socket, ran, retirements>>

\* wait_for_daemon: somebody answers, the child is dead, or time is up.
WaitForDaemon(c) ==
    /\ client[c].pc = "wait"
    /\ LET d == socket[client[c].target]  child == client[c].reached IN
       \/ /\ Listens(d) /\ Reach(c, d)
          /\ UNCHANGED <<daemon, link, host, faults>>
       \/ /\ ~Listens(d) /\ ~Alive(child)
          /\ NoDaemon(c) /\ UNCHANGED <<daemon, faults>>
       \/ /\ ~Listens(d) /\ daemon[child].pc = "starting" /\ Fault
          /\ daemon' = [daemon EXCEPT ![child] = Gone]
          /\ NoDaemon(c)
    /\ Unlock(c)
    /\ UNCHANGED <<binary, builds, socket, ran, retirements>>

(***************************************************************************)
(* Conversation::replay                                                    *)
(***************************************************************************)

\* Mutant: calls that change state are repeated like the others.
Refused_ReadsOnly(c) == {r \in client[c].pending \cap Calls : client[c].sent[r] >= 2}

\* The calls the relay answers itself: those that change state, and those that
\* two daemons were lost under.
Refused(c) ==
    {r \in client[c].pending \cap Calls : r \in StateChanging \/ client[c].sent[r] >= 2}

Repeated(c) == (client[c].pending \cap Calls) \ Refused(c)

\* rmcp's end after the lines of a replay: the handshake, then the requests.
Replayed(c, d) ==
    [NoLink EXCEPT
        !.to = IF Alive(d) THEN d ELSE Nobody, !.open = Alive(d),
        !.session = IF client[c].handshake = "none" THEN "new"
                    ELSE IF client[c].initialized THEN "ready" ELSE "initialize",
        !.running = IF Alive(d)
                    THEN Repeated(c) \cup
                         (IF client[c].handshake = "none" THEN {} ELSE {"initialize"})
                    ELSE {}]

\* Mutant: the answer to a repeated handshake is handed to the host.
Swallowed_Never(c) == FALSE

\* The answer to a repeated handshake is swallowed when the host has one.
Swallowed(c) == client[c].handshake = "answered"

\* The connection is there: the file is looked at, the conversation replayed. A
\* move whose lines the new daemon does not take is called off; everything
\* else is found out on the read side.
Attach(c) ==
    /\ client[c].pc = "stat"
    /\ LET d == client[c].reached IN
       \/ /\ client' = [client EXCEPT ![c].pc = "up", ![c].retry = TRUE, ![c].reached = Nobody,
                ![c].path = client[c].target, ![c].file = socket[client[c].target],
                ![c].swallow = Swallowed(c),
                ![c].quick_losses = IF client[c].why = "move" THEN 0 ELSE @,
                ![c].pending = @ \ Refused(c),
                ![c].sent = [r \in Calls |-> IF r \in Repeated(c) THEN @[r] + 1 ELSE @[r]]]
          /\ host' = AnsweredHere(c, Refused(c))
          /\ link' = [link EXCEPT ![c] = Replayed(c, d)]
       \/ /\ client[c].why = "move" /\ ~Alive(d) /\ (client[c].swallow => HandshakesOverlap)
          /\ client' = [client EXCEPT ![c].pc = "up", ![c].retry = TRUE, ![c].reached = Nobody,
                ![c].path = client[c].target, ![c].file = socket[client[c].target],
                ![c].swallow = FALSE]
          /\ UNCHANGED <<host, link>>
    /\ UNCHANGED <<fleet, ran, faults, retirements>>

(***************************************************************************)
(* The host                                                                *)
(***************************************************************************)

\* Conversation::from_host and the write of the line. In a process that serves
\* its session itself the call is run at once.
FromHost(c, r) ==
    /\ client[c].pc \in {"up", "local"} /\ client[c].input_open
    /\ ~host[c][r].sent
    /\ r \in asks[c] /\ (r \in Calls => client[c].initialized)
    /\ IF client[c].pc = "local"
       THEN /\ host' = [host EXCEPT ![c][r] = [Told(@) EXCEPT !.sent = TRUE]]
            /\ ran' = IF r \in Calls THEN [ran EXCEPT ![c][r] = @ + 1] ELSE ran
            /\ client' = [client EXCEPT ![c].consumed = TRUE]
            /\ UNCHANGED link
       ELSE /\ host' = [host EXCEPT ![c][r].sent = TRUE]
            /\ client' = [client EXCEPT ![c].consumed = TRUE, ![c].pending = @ \cup {r},
                 ![c].handshake = IF r = "initialize" THEN "sent" ELSE @,
                 ![c].sent = IF r \in Calls THEN [@ EXCEPT ![r] = 1] ELSE @]
            /\ link' = IF link[c].open
                       THEN [link EXCEPT ![c].running = @ \cup {r},
                               ![c].session = IF r = "initialize" THEN "initialize" ELSE @]
                       ELSE link
            /\ UNCHANGED ran
    /\ UNCHANGED <<fleet, faults, retirements>>

\* notifications/initialized, which the host sends when it has its answer.
Initialized(c) ==
    /\ client[c].pc \in {"up", "local"} /\ client[c].input_open
    /\ host[c]["initialize"].got > 0 /\ ~client[c].initialized
    /\ client' = [client EXCEPT ![c].initialized = TRUE]
    /\ link' = IF link[c].open THEN [link EXCEPT ![c].session = "ready"] ELSE link
    /\ UNCHANGED <<fleet, host, ran, faults, retirements>>

\* notifications/cancelled: no longer in flight, whether the daemon has run it
\* or not; an answer on its way still arrives.
Cancel(c, r) ==
    /\ client[c].pc = "up" /\ client[c].input_open
    /\ r \in client[c].pending \cap Calls /\ host[c][r].got = 0 /\ ~host[c][r].cancelled
    /\ host' = [host EXCEPT ![c][r].cancelled = TRUE]
    /\ client' = [client EXCEPT ![c].pending = @ \ {r}]
    /\ link' = [link EXCEPT ![c].running = @ \ {r}]
    /\ UNCHANGED <<fleet, ran, faults, retirements>>

CloseInput(c) ==
    /\ client[c].pc \in {"up", "local"} /\ client[c].input_open
    /\ client' = [client EXCEPT ![c] =
          IF @.pc = "local" THEN Ended("done") ELSE [@ EXCEPT !.input_open = FALSE]]
    /\ UNCHANGED <<fleet, link, host, ran, faults, retirements>>

\* stdin's EOF is passed on once nothing is owed.
HalfClose(c) ==
    /\ client[c].pc = "up" /\ ~client[c].input_open /\ ~link[c].half_closed
    /\ client[c].pending = {}
    /\ link' = [link EXCEPT ![c].half_closed = TRUE]
    /\ UNCHANGED <<fleet, client, host, ran, faults, retirements>>

(***************************************************************************)
(* The client reads                                                        *)
(***************************************************************************)

\* Conversation::from_daemon
FromDaemon(c, r) ==
    /\ client[c].pc = "up" /\ r \in link[c].answers
    /\ "initialize" \in link[c].answers => r = "initialize"
    /\ LET swallowed == r = "initialize" /\ client[c].swallow IN
       /\ client' = [client EXCEPT
             ![c].handshake = IF r = "initialize" THEN "answered" ELSE @,
             ![c].swallow = IF swallowed THEN FALSE ELSE @,
             ![c].pending = IF swallowed THEN @ ELSE @ \ {r},
             ![c].sent = IF r \in Calls THEN [@ EXCEPT ![r] = 0] ELSE @]
       /\ host' = IF swallowed THEN host ELSE [host EXCEPT ![c][r].got = @ + 1]
       /\ link' = [link EXCEPT ![c].answers = @ \ {r}, ![c].delivered = TRUE]
    /\ UNCHANGED <<fleet, ran, faults, retirements>>

\* The connection is lost: seen when everything was read, or at a write that
\* fails with answers still unread.
Lost(c) ==
    /\ client[c].pc = "up" /\ ~link[c].open
    /\ link[c].answers = {} \/ client[c].input_open
    /\ LET losses == IF link[c].delivered THEN 1 ELSE client[c].quick_losses + 1 IN
       CASE ~client[c].input_open /\ client[c].pending = {} ->
              /\ client' = [client EXCEPT ![c] = Ended("done")]
              /\ link' = [link EXCEPT ![c] = NoLink] /\ UNCHANGED host
         [] client[c].input_open /\ ~client[c].consumed ->
              /\ client' = [client EXCEPT ![c] = Ended("local")]
              /\ link' = [link EXCEPT ![c] = NoLink] /\ UNCHANGED host
         [] client[c].consumed /\ losses > QUICK_LOSSES_BEFORE_GIVING_UP
              /\ (client[c].input_open \/ client[c].pending # {}) ->
              /\ client' = [client EXCEPT ![c] = Ended("failed")]
              /\ host' = Abandoned(c)
              /\ link' = [link EXCEPT ![c] = NoLink]
         [] OTHER ->
              /\ client' = [client EXCEPT ![c].pc = "dial", ![c].why = "lost",
                                          ![c].quick_losses = losses]
              /\ UNCHANGED <<host, link>>
    /\ UNCHANGED <<fleet, ran, faults, retirements>>

\* SocketDialer::superseded: another build is at the launch path, or the file
\* at the path is not the one that was there.
superseded(c) ==
    \/ binary # Nobody /\ binary # client[c].path
    \/ socket[client[c].path] # client[c].file

\* The tick: a session moves between requests.
Move(c) ==
    /\ client[c].pc = "up" /\ client[c].input_open /\ client[c].retry
    /\ client[c].pending = {} /\ superseded(c)
    /\ client' = [client EXCEPT ![c].pc = "dial", ![c].why = "move"]
    /\ UNCHANGED <<fleet, link, host, ran, faults, retirements>>

\* MOVE_RETRY has passed since a dial that failed.
RetryDue(c) ==
    /\ client[c].pc = "up" /\ ~client[c].retry
    /\ client' = [client EXCEPT ![c].retry = TRUE]
    /\ UNCHANGED <<fleet, link, host, ran, faults, retirements>>

\* The daemon kept the connection open for DRAIN_AFTER_EOF.
DrainExpires(c) ==
    /\ client[c].pc = "up" /\ link[c].half_closed /\ link[c].open /\ Fault
    /\ client' = [client EXCEPT ![c] = Ended("failed")]
    /\ link' = [link EXCEPT ![c] = NoLink]
    /\ UNCHANGED <<fleet, host, ran, retirements>>

\* A client that dies takes its lock with it and leaves what it spawned.
ClientDies(c) ==
    /\ client[c].pc \in {"lock", "recheck", "clear", "spawn", "wait", "up"} /\ Fault
    /\ client[c].pc = "wait" => WaitersDie
    /\ client' = [client EXCEPT ![c] = Ended("dead")]
    /\ link' = [link EXCEPT ![c] = NoLink]
    /\ spawner' = [k \in Builds |-> IF spawner[k] = c THEN Nobody ELSE spawner[k]]
    /\ UNCHANGED <<binary, builds, socket, daemon, host, ran, retirements>>

(***************************************************************************)
(* run_daemon                                                              *)
(***************************************************************************)

\* UnixListener::bind fails when a file is there.
Bind(d) ==
    /\ daemon[d].pc = "starting"
    /\ IF socket[daemon[d].path] = Nobody
       THEN /\ socket' = [socket EXCEPT ![daemon[d].path] = d]
            /\ daemon' = [daemon EXCEPT ![d].pc = "serving"]
       ELSE daemon' = [daemon EXCEPT ![d] = Gone] /\ UNCHANGED socket
    /\ UNCHANGED <<binary, builds, spawner, client, link, host, ran, faults, retirements>>

\* The connection leaves the backlog and counts as live.
Accept(c) ==
    /\ link[c].open /\ ~link[c].accepted
    /\ link' = [link EXCEPT ![c].accepted = TRUE]
    /\ UNCHANGED <<fleet, client, host, ran, faults, retirements>>

live(d) == {c \in Clients : link[c].to = d /\ link[c].accepted /\ link[c].open}

\* serve_connection: a request is run and its answer written.
Answer(c, r) ==
    /\ link[c].open /\ link[c].accepted /\ r \in link[c].running
    /\ "initialize" \in link[c].running => r = "initialize"
    /\ ~link[c].half_closed
    /\ link' = [link EXCEPT ![c].running = @ \ {r}, ![c].answers = @ \cup {r}]
    /\ ran' = IF r \in Calls THEN [ran EXCEPT ![c][r] = @ + 1] ELSE ran
    /\ UNCHANGED <<fleet, client, host, faults, retirements>>

\* rmcp ends a service when its input ends, and drops what it still computes.
EndOfInput(c) ==
    /\ link[c].open /\ link[c].accepted /\ link[c].half_closed
    /\ link' = [link EXCEPT ![c].to = Nobody, ![c].open = FALSE, ![c].accepted = FALSE,
                            ![c].running = {}]
    /\ UNCHANGED <<fleet, client, host, ran, faults, retirements>>

\* Over the hard limit, or replaced: the address is given up, the connections
\* stay.
Retire(d) ==
    /\ daemon[d].pc = "serving" /\ ~daemon[d].retiring
    /\ \/ builds + retirements < MaxUpheavals /\ retirements' = retirements + 1
       \/ binary \notin {Nobody, daemon[d].build} /\ UNCHANGED retirements
    /\ socket' = [socket EXCEPT ![daemon[d].path] = Nobody]
    /\ daemon' = [daemon EXCEPT ![d].retiring = TRUE]
    /\ UNCHANGED <<binary, builds, spawner, client, link, host, ran, faults>>

\* The file is removed unless the daemon retired: then it is a successor's.
Exit(d) ==
    /\ daemon' = [daemon EXCEPT ![d] = Gone]
    /\ socket' = IF daemon[d].retiring THEN socket
                 ELSE [socket EXCEPT ![daemon[d].path] = Nobody]
    /\ link' = Closed(d)
    /\ UNCHANGED <<binary, builds, spawner, client, host, ran>>

\* Nobody was there for the idle time, or the last client of a retired daemon
\* left.
Leave(d) ==
    /\ daemon[d].pc = "serving" /\ live(d) = {}
    /\ Exit(d)
    /\ UNCHANGED <<faults, retirements>>

\* Mutant: a retired daemon waits for its clients without end.
Deadline_WhenEmpty(d) ==
    /\ daemon[d].pc = "serving" /\ daemon[d].retiring /\ live(d) = {}
    /\ Exit(d)
    /\ UNCHANGED <<faults, retirements>>

\* RMC_RETIRE_GRACE_SECS
Deadline(d) ==
    /\ daemon[d].pc = "serving" /\ daemon[d].retiring
    /\ Exit(d)
    /\ UNCHANGED <<faults, retirements>>

\* SIGTERM, SIGINT, an error of accept.
Terminate(d) ==
    /\ daemon[d].pc = "serving" /\ Fault
    /\ Exit(d)
    /\ UNCHANGED retirements

\* A crash, the OOM killer: the file stays.
Die(d) ==
    /\ Alive(d) /\ Fault
    /\ daemon' = [daemon EXCEPT ![d] = Gone]
    /\ link' = Closed(d)
    /\ UNCHANGED <<binary, builds, socket, spawner, client, host, ran, retirements>>

\* mv binary binary.prev; mv new binary
RemoveBinary ==
    /\ binary # Nobody /\ builds + retirements < MaxUpheavals
    /\ binary' = Nobody
    /\ UNCHANGED <<builds, socket, spawner, daemon, client, link, host, ran, faults, retirements>>

InstallBinary ==
    /\ binary = Nobody
    /\ binary' = builds + 1 /\ builds' = builds + 1
    /\ UNCHANGED <<socket, spawner, daemon, client, link, host, ran, faults, retirements>>

\* Everybody is done and no daemon is left: the system rests.
Rest ==
    /\ \A c \in Clients : client[c].pc \in {"done", "failed", "dead"}
    /\ \A d \in Daemons : ~Alive(d)
    /\ binary # Nobody
    /\ UNCHANGED vars

ClientStep(c) ==
    \/ Dial(c) \/ SpawnLock(c) \/ Recheck(c) \/ ClearStale(c) \/ SpawnDaemon(c)
    \/ WaitForDaemon(c) \/ Attach(c) \/ HalfClose(c) \/ Lost(c) \/ Move(c) \/ RetryDue(c)
    \/ \E r \in Requests : FromDaemon(c, r)

ServeStep(c) == Accept(c) \/ EndOfInput(c) \/ \E r \in Requests : Answer(c, r)

DaemonStep(d) == Bind(d) \/ Leave(d) \/ Deadline(d)

Step ==
    \/ \E c \in Clients :
         \/ ClientStep(c) \/ ServeStep(c) \/ Initialized(c) \/ CloseInput(c)
         \/ DrainExpires(c) \/ ClientDies(c)
         \/ \E r \in Requests : FromHost(c, r) \/ Cancel(c, r)
    \/ \E d \in Daemons : DaemonStep(d) \/ Retire(d) \/ Terminate(d) \/ Die(d)
    \/ RemoveBinary \/ InstallBinary

Next == (Step /\ UNCHANGED asks) \/ Rest

Spec == Init /\ [][Next]_vars

\* Clients run, daemons serve; a retired daemon's deadline comes.
Fairness ==
    /\ \A c \in Clients : /\ WF_vars(ClientStep(c) /\ UNCHANGED asks)
                          /\ WF_vars(ServeStep(c) /\ UNCHANGED asks)
    /\ \A d \in Daemons : /\ WF_vars(Bind(d) /\ UNCHANGED asks)
                          /\ WF_vars(Deadline(d) /\ UNCHANGED asks)
    /\ WF_vars(InstallBinary /\ UNCHANGED asks)

FairSpec == Spec /\ Fairness

-----------------------------------------------------------------------------

\* The types of the fleet's state and of the sessions'.
RelayTypeOK ==
    /\ binary \in Builds \cup {Nobody} /\ builds \in Builds
    /\ socket \in [Builds -> Daemons \cup {Nobody}]
    /\ spawner \in [Builds -> Clients \cup {Nobody}]
    /\ daemon \in [Daemons -> DaemonStates]
    /\ client \in [Clients -> ClientStates]
    /\ link \in [Clients -> Links]
    /\ host \in [Clients -> [Requests -> HostStates]]
    /\ ran \in [Clients -> [Calls -> Nat]]
    /\ faults \in 0 .. MaxFaults /\ retirements \in 0 .. MaxUpheavals

\* The binary that is swapped out comes back: there is a build left for it.
SwapEnds == binary = Nobody => builds < MaxUpheavals

\* A call of a tool that changes state is run at most once, whatever daemons
\* are lost, retire or are replaced while it is in flight (replay refuses it).
ChangesRunOnce == \A c \in Clients, r \in StateChanging : ran[c][r] <= 1

\* The host gets one answer to each request at most, the handshake included:
\* the answers of a repeated handshake, of a cancelled request and of a request
\* that is replayed never come on top (swallow, retain in from_daemon).
OneAnswerEach == \A c \in Clients, r \in Requests : host[c][r].got <= 1

\* A request the host waits for is never forgotten: it is in flight in the
\* relay as long as the client lives, was answered, or was cancelled.
NothingForgotten ==
    \A c \in Clients, r \in Requests :
       /\ host[c][r].sent /\ host[c][r].got = 0 /\ ~host[c][r].cancelled
       /\ client[c].pc # "dead"
       => r \in client[c].pending

\* rmcp reads initialize, then notifications/initialized, then the rest: on
\* every connection a call comes after both.
HandshakeFirst ==
    \A c \in Clients : link[c].running \cap Calls # {} => link[c].session = "ready"

\* What a host sees is one conversation with one server, whatever daemons come and
\* go behind the relay: an answer to each request, and each call after the handshake.
OneConversation == OneAnswerEach /\ HandshakeFirst

\* One server at a time takes new sessions at a path: the spawn lock and the
\* second look keep two starting clients from making two daemons.
OneServerPerPath ==
    \A d, e \in Daemons : daemon[d].pc = "serving" /\ daemon[e].pc = "serving"
       /\ ~daemon[d].retiring /\ ~daemon[e].retiring
       /\ daemon[d].path = daemon[e].path => d = e

\* A daemon that serves and has not retired can be found: nobody else's exit,
\* retirement or clean-up removes its file ("this flag keeps the exit path from
\* deleting a successor's socket").
ServersAreFound ==
    \A d \in Daemons : daemon[d].pc = "serving" /\ ~daemon[d].retiring
       => socket[daemon[d].path] = d

\* The inductive invariant of the fleet. Whoever has the spawn lock is at one of
\* four points, a daemon that starts is waited for by the client that holds the
\* lock of its path, the file at a path is of a daemon that was bound there and
\* has not retired, and what the holder of the lock clears or waits for is
\* nobody else's.
LockPoints == {"recheck", "clear", "spawn", "wait"}

Serves(d) == daemon[d].pc = "serving" /\ ~daemon[d].retiring

LockIsHeld ==
    \A k \in Builds, c \in Clients :
       spawner[k] = c <=> client[c].pc \in LockPoints /\ client[c].target = k

StartersAreWaitedFor ==
    \A d \in Daemons : daemon[d].pc = "starting" =>
       /\ ~daemon[d].retiring
       /\ \E c \in Clients : /\ client[c].pc = "wait" /\ client[c].reached = d
                             /\ client[c].target = daemon[d].path

FilesAreBound ==
    \A k \in Builds : socket[k] # Nobody =>
       /\ daemon[socket[k]].pc \in {"serving", "gone"}
       /\ daemon[socket[k]].pc = "serving" => Serves(socket[k]) /\ daemon[socket[k]].path = k

PathIsFree(cl) ==
    /\ cl.pc = "clear" => \A d \in Daemons : Serves(d) => daemon[d].path # cl.target
    /\ cl.pc = "spawn" => socket[cl.target] = Nobody
    /\ cl.pc = "wait" => socket[cl.target] \in {Nobody, cl.reached} /\ cl.reached # Nobody

PathsAreFree == \A c \in Clients : PathIsFree(client[c])

FleetHolds == LockIsHeld /\ StartersAreWaitedFor /\ FilesAreBound /\ PathsAreFree /\ ServersAreFound

\* The inductive invariant of a session, of what its client knows, its connection
\* carries, its host saw and daemons ran for it. A request is in flight, on the
\* connection or answered only once it was sent; what is in flight has no answer,
\* nor has a call that a daemon runs or whose answer is on its way; an answer to
\* the handshake that is on its way is owed to the host or will be swallowed; and
\* a call that changes something is with a daemon only before it was run.
Over == {"local", "done", "failed", "dead"}

Dialling == {"dial", "lock", "recheck", "clear", "spawn", "wait", "stat"}

Carried(ln) == ln.running \cup ln.answers

RequestHolds(cl, ln, ho, r) ==
    /\ ~ho[r].sent => ho[r].got = 0 /\ r \notin Carried(ln) \cup cl.pending
    /\ ho[r].got <= 1 \/ (HandshakesOverlap /\ r = "initialize")
    /\ r \in cl.pending => ho[r].got = 0
    /\ r \notin ln.running \cap ln.answers
    /\ r \in Calls \cap Carried(ln) => ho[r].got = 0

HandshakeHolds(cl, ln, ho) ==
    /\ cl.handshake = "sent" <=> "initialize" \in cl.pending
    /\ "initialize" \in Carried(ln) => cl.swallow \/ cl.handshake = "sent" \/ HandshakesOverlap
    /\ cl.swallow => cl.handshake = "answered"
    /\ cl.pc \notin Over => (cl.handshake = "none" <=> ~ho["initialize"].sent)
    /\ cl.pc \notin Over /\ cl.initialized => cl.handshake = "answered"

CallsHold(cl, ln) ==
    /\ cl.pending # {} => cl.consumed
    /\ cl.pending \cap Calls # {} => cl.initialized
    /\ Carried(ln) \cap Calls # {} => cl.initialized
    /\ ln.running \cap Calls # {} => ln.session = "ready"
    /\ cl.initialized /\ ln.open => ln.session = "ready"

PhaseHolds(cl, ln) ==
    /\ cl.pc \in Over => ln = NoLink
    /\ cl.pc \in Dialling /\ cl.why = "first" => ln = NoLink
    /\ cl.pc \in Dialling /\ cl.why = "move" => cl.pending = {}

ChangeHolds(ln, ho, rn, r) ==
    /\ rn[r] <= 1
    /\ ~ho[r].sent \/ r \in ln.running => rn[r] = 0

SessionHolds(cl, ln, ho, rn) ==
    /\ \A r \in Requests : RequestHolds(cl, ln, ho, r)
    /\ HandshakeHolds(cl, ln, ho)
    /\ CallsHold(cl, ln)
    /\ PhaseHolds(cl, ln)
    /\ \A r \in StateChanging : ChangeHolds(ln, ho, rn, r)

SessionsHold == \A c \in Clients : SessionHolds(client[c], link[c], host[c], ran[c])

\* The host is always answered, by a daemon or with an error, unless it cancels
\* or the client dies.
EveryCallIsAnswered ==
    \A c \in Clients, r \in Requests :
       (host[c][r].sent /\ ~host[c][r].cancelled)
         ~> (host[c][r].got = 1 \/ host[c][r].cancelled \/ client[c].pc = "dead")

\* No session stays with a retired daemon: it moves between requests, or the
\* daemon's deadline cuts it off and it reconnects.
SessionsLeaveRetired ==
    \A c \in Clients, d \in Daemons :
       (link[c].to = d /\ daemon[d].retiring) ~> (link[c].to # d)
=============================================================================
