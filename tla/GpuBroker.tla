----------------------------- MODULE GpuBroker -----------------------------
(***************************************************************************)
(* The GPU embedding sessions of the daemons on one card: the broker of    *)
(* each process (embeddings/gpu_broker.rs), which lends one session per    *)
(* backend to one run at a time, the lock file that orders the processes   *)
(* (embeddings/gpu_lock.rs), and the checks of the card's memory before a  *)
(* session is created (gpu_broker.rs and vram_ledger.rs).                  *)
(*                                                                         *)
(* A user is a thread of the blocking pool that embeds for one owner. The  *)
(* broker's mutex covers one step of a user; its condition variable is the *)
(* pair of program counters "asleep" and "awake".                          *)
(***************************************************************************)
EXTENDS Integers, FiniteSets, Functions

CONSTANTS Processes,   \* daemons of one user on this machine
          Users,       \* threads that embed
          Backends,    \* GPU backends: profile, runtime, length
          NoUser,      \* nobody holds the lock file
          ProcessOf,   \* [Users -> Processes]
          OwnerOf,     \* [Users -> Owners]
          Load,        \* [Backends -> Nat]: memory a session takes at creation
          WarmUp,      \* [Backends -> Nat]: and in its first run
          Card,        \* memory of the card
          Foreign,     \* memory that programs other than these hold on it
          Budget,      \* RMC_VRAM_BUDGET_MB, or half the card
          Priced,      \* backends whose price an earlier process wrote down
          MaxCalls,    \* bound: calls of one user
          MaxCrashes   \* bound: processes that die

Owners == {"Search", "CodemapRerank", "Index", "Tool", "GraphCache",
           "ProviderCensus"}

ASSUME UsersAssumption ==
  /\ NoUser \notin Users
  /\ Backends # {}
  /\ ProcessOf \in [Users -> Processes]
  /\ OwnerOf \in [Users -> Owners]

ASSUME CostAssumption ==
  /\ Load \in [Backends -> Nat]
  /\ WarmUp \in [Backends -> Nat]
  /\ Card \in Nat
  /\ Foreign \in 0..Card
  /\ Budget \in Nat
  /\ Priced \subseteq Backends

\* A machine runs so many daemons, a daemon knows so many profiles.
ASSUME SizeAssumption == IsFiniteSet(Processes) /\ IsFiniteSet(Backends)

ASSUME BoundsAssumption == MaxCalls \in Nat /\ MaxCrashes \in Nat

\* Priority::of: a query goes before the index, the index before the graph
\* cache. Lower goes first.
Priority(owner) ==
  CASE owner \in {"Search", "CodemapRerank"} -> 0
    [] owner \in {"Index", "Tool"} -> 1
    [] OTHER -> 2

Rank(u) == Priority(OwnerOf[u])

\* One slot per backend in every process. A slot that was never asked for is
\* as good as an empty one.
Slots == Processes \X Backends

SlotStates == {"empty", "creating", "idle", "granted"}

WaitPCs == {"asleep", "awake"}                       \* in the loop of `grant`

CreatePCs == {"creating", "admitting", "loading", "built", "failed"}

GrantPCs == {"granted", "running", "ran", "unwinding"}

LockPCs == {"admitting", "loading", "running"}       \* GpuLock held

PCs == {"out", "notify"} \cup WaitPCs \cup CreatePCs \cup GrantPCs

VARIABLES slot,      \* [Slots -> SlotStates]: Slot.state
          waiting,   \* [Slots -> SUBSET Users]: whom Slot.waiting counts
          pc,        \* [Users -> PCs]
          backend,   \* [Users -> Backends]: the key of the user's call
          call,      \* [Users -> {"grant", "ensure"}]
          lock,      \* the holder of the lock file
          mem,       \* [Slots -> Nat]: memory of the slot's sessions
          dropping,  \* [Slots -> Nat]: sessions taken out, memory not yet freed
          price,     \* backends whose price is known
          overtaken, \* history: turns users of lower rank had during a wait
          calls,     \* [Users -> 0..MaxCalls]
          crashes    \* 0..MaxCrashes

vars == <<slot, waiting, pc, backend, call, lock, mem, dropping, price,
          overtaken, calls, crashes>>

memory == <<mem, dropping, price>>

bounds == <<calls, crashes>>

SlotOf(u, k) == <<ProcessOf[u], k>>

At(u) == SlotOf(u, backend[u])

Init ==
  /\ slot = [s \in Slots |-> "empty"]
  /\ waiting = [s \in Slots |-> {}]
  /\ pc = [u \in Users |-> "out"]
  /\ backend = [u \in Users |-> CHOOSE k \in Backends : TRUE]
  /\ call = [u \in Users |-> "grant"]
  /\ lock = NoUser
  /\ mem = [s \in Slots |-> 0]
  /\ dropping = [s \in Slots |-> 0]
  /\ price = Priced
  /\ overtaken = [u \in Users |-> 0]
  /\ calls = [u \in Users |-> 0]
  /\ crashes = 0
-----------------------------------------------------------------------------
(***************************************************************************)
(* Waiting for a session: Broker::grant.                                   *)
(***************************************************************************)
\* Mutant: first come, first served.
NobodyFirst(u, s) == FALSE

Outranked(u, s) == \E v \in waiting[s] : Rank(v) < Rank(u)

\* One round of the loop, under the broker's mutex: take the idle session, set
\* out to build one, or sleep on the condition variable.
TakeSession(u, s) ==
  /\ ~Outranked(u, s)
  /\ slot[s] = "idle"
  /\ slot' = [slot EXCEPT ![s] = "granted"]
  /\ waiting' = [waiting EXCEPT ![s] = @ \ {u}]
  /\ pc' = [pc EXCEPT ![u] = "granted"]

SetOut(u, s) ==
  /\ ~Outranked(u, s)
  /\ slot[s] = "empty"
  /\ slot' = [slot EXCEPT ![s] = "creating"]
  /\ waiting' = [waiting EXCEPT ![s] = @ \ {u}]
  /\ pc' = [pc EXCEPT ![u] = "creating"]

Sleep(u, s) ==
  /\ Outranked(u, s) \/ slot[s] \in {"creating", "granted"}
  /\ waiting' = [waiting EXCEPT ![s] = @ \cup {u}]
  /\ pc' = [pc EXCEPT ![u] = "asleep"]
  /\ slot' = slot

TakeTurn(u, s) == TakeSession(u, s) \/ SetOut(u, s) \/ Sleep(u, s)

\* with_session: the user asks for a run, counts itself as waiting and goes
\* through the loop for the first time without letting the mutex go.
Grant(u, k) ==
  /\ pc[u] = "out"
  /\ calls[u] < MaxCalls
  /\ calls' = [calls EXCEPT ![u] = @ + 1]
  /\ backend' = [backend EXCEPT ![u] = k]
  /\ call' = [call EXCEPT ![u] = "grant"]
  /\ overtaken' = [overtaken EXCEPT ![u] = 0]
  /\ TakeTurn(u, SlotOf(u, k))
  /\ UNCHANGED <<lock, memory, crashes>>

\* A waiter that was woken has the mutex again.
Wake(u) ==
  /\ pc[u] = "awake"
  /\ TakeTurn(u, At(u))
  /\ UNCHANGED <<backend, call, lock, memory, overtaken, bounds>>

\* Mutant: builds a session unless one is at hand, though another call has it
\* or builds it.
EnsureUnlessIdle(u, k) ==
  /\ pc[u] = "out"
  /\ calls[u] < MaxCalls
  /\ slot[SlotOf(u, k)] # "idle"
  /\ slot' = [slot EXCEPT ![SlotOf(u, k)] = "creating"]
  /\ pc' = [pc EXCEPT ![u] = "creating"]
  /\ backend' = [backend EXCEPT ![u] = k]
  /\ call' = [call EXCEPT ![u] = "ensure"]
  /\ calls' = [calls EXCEPT ![u] = @ + 1]
  /\ UNCHANGED <<waiting, lock, memory, overtaken, crashes>>

\* ensure_session: a generator is constructed. It builds the session if there
\* is none and nobody builds one, whoever is waiting; otherwise it does nothing.
Ensure(u, k) ==
  /\ pc[u] = "out"
  /\ calls[u] < MaxCalls
  /\ slot[SlotOf(u, k)] = "empty"
  /\ slot' = [slot EXCEPT ![SlotOf(u, k)] = "creating"]
  /\ pc' = [pc EXCEPT ![u] = "creating"]
  /\ backend' = [backend EXCEPT ![u] = k]
  /\ call' = [call EXCEPT ![u] = "ensure"]
  /\ calls' = [calls EXCEPT ![u] = @ + 1]
  /\ UNCHANGED <<waiting, lock, memory, overtaken, crashes>>
-----------------------------------------------------------------------------
(***************************************************************************)
(* The lock file: GpuLock::acquire_at.                                     *)
(***************************************************************************)
TakeLock(u) ==
  /\ pc[u] \in {"creating", "granted"}
  /\ lock = NoUser
  /\ lock' = u
  /\ pc' = [pc EXCEPT ![u] = IF @ = "creating" THEN "admitting" ELSE "running"]
  /\ UNCHANGED <<slot, waiting, backend, call, memory, overtaken, bounds>>

\* GPU_LOCK_WAIT has passed and somebody still holds the lock.
LockTimeout(u) ==
  /\ pc[u] \in {"creating", "granted"}
  /\ lock # NoUser
  /\ pc' = [pc EXCEPT ![u] = IF @ = "creating" THEN "failed" ELSE "ran"]
  /\ UNCHANGED <<slot, waiting, backend, call, lock, memory, overtaken, bounds>>
-----------------------------------------------------------------------------
(***************************************************************************)
(* Creating a session, under the lock file: create_session.                *)
(***************************************************************************)
Cost(k) == Load[k] + WarmUp[k]

ProcessBytes(p) == SumFunctionOnSet(mem, {s \in Slots : s[1] = p})

CardUsed == Foreign + SumFunction(mem)

\* known_session_charge, with nothing for a price nobody has measured yet.
Expected(k) == IF k \in price THEN Cost(k) ELSE 0

WithinBudget(p, k) == ProcessBytes(p) + Expected(k) <= Budget

RoomOnCard(k) == k \in price => Card - CardUsed >= Cost(k)

\* Mutant: the lock is let go before the warm-up.
UnlockBeforeWarmUp(u) ==
  /\ pc[u] = "admitting"
  /\ WithinBudget(ProcessOf[u], backend[u])
  /\ RoomOnCard(backend[u])
  /\ mem' = [mem EXCEPT ![At(u)] = @ + Load[backend[u]]]
  /\ lock' = NoUser
  /\ pc' = [pc EXCEPT ![u] = "loading"]
  /\ UNCHANGED <<slot, waiting, backend, call, dropping, price, overtaken, bounds>>

Admit(u) ==
  /\ pc[u] = "admitting"
  /\ WithinBudget(ProcessOf[u], backend[u])
  /\ RoomOnCard(backend[u])
  /\ mem' = [mem EXCEPT ![At(u)] = @ + Load[backend[u]]]
  /\ pc' = [pc EXCEPT ![u] = "loading"]
  /\ UNCHANGED <<slot, waiting, backend, call, lock, dropping, price, overtaken,
                 bounds>>

Refuse(u) ==
  /\ pc[u] = "admitting"
  /\ ~(WithinBudget(ProcessOf[u], backend[u]) /\ RoomOnCard(backend[u]))
  /\ lock' = NoUser
  /\ pc' = [pc EXCEPT ![u] = "failed"]
  /\ UNCHANGED <<slot, waiting, backend, call, memory, overtaken, bounds>>

\* The session cannot be built, or its warm-up fails or panics: it is dropped
\* before the lock is. A warm-up that ends in an error was still a first run, and
\* its ticket has measured a price.
LoadFails(u) ==
  /\ pc[u] = "loading"
  /\ mem' = [mem EXCEPT ![At(u)] = @ - Load[backend[u]]]
  /\ price' \in {price, price \cup {backend[u]}}
  /\ lock' = NoUser
  /\ pc' = [pc EXCEPT ![u] = "failed"]
  /\ UNCHANGED <<slot, waiting, backend, call, dropping, overtaken, bounds>>

\* The warm-up is the first run: it allocates the rest, and its ticket writes
\* the price down.
WarmedUp(u) ==
  /\ pc[u] = "loading"
  /\ mem' = [mem EXCEPT ![At(u)] = @ + WarmUp[backend[u]]]
  /\ price' = price \cup {backend[u]}
  /\ lock' = NoUser
  /\ pc' = [pc EXCEPT ![u] = "built"]
  /\ UNCHANGED <<slot, waiting, backend, call, dropping, overtaken, bounds>>

\* The end of create_as_grant. `ensure` only drops the grant it gets.
HandOver(u) ==
  /\ pc[u] = "built"
  /\ slot' = [slot EXCEPT ![At(u)] = "granted"]
  /\ pc' = [pc EXCEPT ![u] = IF call[u] = "grant" THEN "granted" ELSE "ran"]
  /\ UNCHANGED <<waiting, backend, call, lock, memory, overtaken, bounds>>
-----------------------------------------------------------------------------
(***************************************************************************)
(* The run, and the way back: Drop of Grant and of CreationGuard. The slot *)
(* is written under the mutex, the waiters are notified after it.          *)
(***************************************************************************)
RunEnds(u) ==
  /\ pc[u] = "running"
  /\ lock' = NoUser
  /\ pc' = [pc EXCEPT ![u] = "ran"]
  /\ UNCHANGED <<slot, waiting, backend, call, memory, overtaken, bounds>>

RunPanics(u) ==
  /\ pc[u] = "running"
  /\ lock' = NoUser
  /\ pc' = [pc EXCEPT ![u] = "unwinding"]
  /\ UNCHANGED <<slot, waiting, backend, call, memory, overtaken, bounds>>

\* The user's turn at its slot is over.
TurnEnds(u, state) ==
  /\ slot' = [slot EXCEPT ![At(u)] = state]
  /\ pc' = [pc EXCEPT ![u] = "notify"]
  /\ overtaken' = [v \in Users |->
                     IF /\ v \in waiting[At(u)]
                        /\ call[u] = "grant"
                        /\ Rank(v) < Rank(u)
                     THEN overtaken[v] + 1
                     ELSE overtaken[v]]
  /\ UNCHANGED <<waiting, backend, call, lock, mem, price, bounds>>

GiveBack(u) ==
  /\ pc[u] = "ran"
  /\ TurnEnds(u, "idle")
  /\ UNCHANGED dropping

Discard(u) ==
  /\ pc[u] = "unwinding"
  /\ TurnEnds(u, "empty")
  /\ dropping' = [dropping EXCEPT ![At(u)] = @ + 1]

\* Mutant: no CreationGuard.
StaysCreating(u) ==
  /\ pc[u] = "failed"
  /\ TurnEnds(u, "creating")
  /\ UNCHANGED dropping

CreationFails(u) ==
  /\ pc[u] = "failed"
  /\ TurnEnds(u, "empty")
  /\ UNCHANGED dropping

\* Mutant: Condvar::notify_one.
NotifyOne(u) ==
  /\ pc[u] = "notify"
  /\ \/ \E v \in Users :
          /\ v # u /\ ProcessOf[v] = ProcessOf[u] /\ pc[v] = "asleep"
          /\ pc' = [pc EXCEPT ![u] = "out", ![v] = "awake"]
     \/ /\ ~\E v \in Users : ProcessOf[v] = ProcessOf[u] /\ pc[v] = "asleep"
        /\ pc' = [pc EXCEPT ![u] = "out"]
  /\ UNCHANGED <<slot, waiting, backend, call, lock, memory, overtaken, bounds>>

\* Condvar::notify_all: one condition variable for all slots of the process.
NotifyAll(u) ==
  /\ pc[u] = "notify"
  /\ pc' = [v \in Users |->
              CASE v = u -> "out"
                [] v # u /\ ProcessOf[v] = ProcessOf[u] /\ pc[v] = "asleep" -> "awake"
                [] OTHER -> pc[v]]
  /\ UNCHANGED <<slot, waiting, backend, call, lock, memory, overtaken, bounds>>
-----------------------------------------------------------------------------
(***************************************************************************)
(* Idle sessions go back: release_idle_gpu_sessions.                       *)
(***************************************************************************)
\* take_idle: the sessions that have been idle for long enough leave the broker.
\* Nobody is notified.
TakeIdle(p) ==
  \E S \in SUBSET {s \in Slots : s[1] = p /\ slot[s] = "idle"} :
    /\ S # {}
    /\ slot' = [s \in Slots |-> IF s \in S THEN "empty" ELSE slot[s]]
    /\ dropping' = [s \in Slots |-> IF s \in S THEN dropping[s] + 1 ELSE dropping[s]]
    /\ UNCHANGED <<waiting, pc, backend, call, lock, mem, price, overtaken, bounds>>

\* A session that was taken out or discarded is dropped, outside every lock.
DropSession(s) ==
  /\ dropping[s] > 0
  /\ dropping' = [dropping EXCEPT ![s] = @ - 1]
  /\ mem' = [mem EXCEPT ![s] = @ - Cost(s[2])]
  /\ UNCHANGED <<slot, waiting, pc, backend, call, lock, price, overtaken, bounds>>

\* A process dies and a new one takes its place. The kernel drops its lock and
\* takes its memory back.
Crash(p) ==
  /\ crashes < MaxCrashes
  /\ crashes' = crashes + 1
  /\ slot' = [s \in Slots |-> IF s[1] = p THEN "empty" ELSE slot[s]]
  /\ waiting' = [s \in Slots |-> IF s[1] = p THEN {} ELSE waiting[s]]
  /\ pc' = [u \in Users |-> IF ProcessOf[u] = p THEN "out" ELSE pc[u]]
  /\ lock' = IF lock # NoUser /\ ProcessOf[lock] = p THEN NoUser ELSE lock
  /\ mem' = [s \in Slots |-> IF s[1] = p THEN 0 ELSE mem[s]]
  /\ dropping' = [s \in Slots |-> IF s[1] = p THEN 0 ELSE dropping[s]]
  /\ UNCHANGED <<backend, call, price, overtaken, calls>>
-----------------------------------------------------------------------------
\* What a user in a call does next.
Advance(u) ==
  \/ Wake(u) \/ TakeLock(u) \/ LockTimeout(u)
  \/ Admit(u) \/ Refuse(u) \/ LoadFails(u) \/ WarmedUp(u) \/ HandOver(u)
  \/ RunEnds(u) \/ RunPanics(u)
  \/ GiveBack(u) \/ Discard(u) \/ CreationFails(u) \/ NotifyAll(u)

Next ==
  \/ \E u \in Users, k \in Backends : Grant(u, k) \/ Ensure(u, k)
  \/ \E u \in Users : Advance(u)
  \/ \E p \in Processes : TakeIdle(p) \/ Crash(p)
  \/ \E s \in Slots : DropSession(s)

\* A thread of the blocking pool goes on; the watchdog and the callers may stop.
Fairness == \A u \in Users : WF_vars(Advance(u))

Spec == Init /\ [][Next]_vars

FairSpec == Spec /\ Fairness
-----------------------------------------------------------------------------
(***************************************************************************)
(* Properties.                                                             *)
(***************************************************************************)
\* The types of the broker's state.
TypeOK ==
  /\ slot \in [Slots -> SlotStates]
  /\ waiting \in [Slots -> SUBSET Users]
  /\ pc \in [Users -> PCs]
  /\ backend \in [Users -> Backends]
  /\ call \in [Users -> {"grant", "ensure"}]
  /\ lock \in Users \cup {NoUser}
  /\ mem \in [Slots -> Int]
  /\ dropping \in [Slots -> Int]
  /\ price \subseteq Backends
  /\ overtaken \in [Users -> Nat]
  /\ calls \in [Users -> 0..MaxCalls]
  /\ crashes \in 0..MaxCrashes

\* Users that have a slot's turn: they build its session or hold its grant.
HasTurn(u) == pc[u] \in CreatePCs \cup GrantPCs

\* The state of a slot tells what the user that has its turn is doing.
TurnShown ==
  \A u \in Users :
    /\ pc[u] \in CreatePCs => slot[At(u)] = "creating"
    /\ pc[u] \in GrantPCs => slot[At(u)] = "granted"

\* A session is lent to one run at a time: no two users have the turn of the
\* same slot (the move of the session out of SlotState::Idle, grant).
OneTurn ==
  \A u, v \in Users : HasTurn(u) /\ HasTurn(v) /\ At(u) = At(v) => u = v

\* One process at a time, and one thread of it, is on the GPU: building,
\* warming up or running a model (GpuLock).
OneOnGpu == \A u \in Users : pc[u] \in LockPCs <=> lock = u

\* Whoever has the session out of the broker, or is building it, has it alone,
\* and no two models run on the card (gpu_broker.rs, gpu_lock.rs).
ExclusiveUse == OneTurn /\ OneOnGpu

\* Slot.waiting counts the users in the loop of `grant`, and no others: one
\* that stayed counted would hold up everybody of a lower rank for good.
WaitersCounted ==
  \A s \in Slots, u \in Users :
    u \in waiting[s] <=> pc[u] \in WaitPCs /\ At(u) = s

\* Nobody sleeps through its chance: while a slot can be taken, a sleeper is
\* behind a waiter of a higher rank, or a notify_all is on its way. So among
\* the waiters of the highest rank somebody is awake (grant, take_idle, the
\* drops of Grant and CreationGuard).
NoLostWakeup ==
  \A u \in Users :
    pc[u] = "asleep" /\ slot[At(u)] \in {"empty", "idle"} =>
      \/ Outranked(u, At(u))
      \/ \E v \in Users : ProcessOf[v] = ProcessOf[u] /\ pc[v] = "notify"

\* "A query waits at most one batch": during a wait users of a lower rank end
\* at most one turn, the one they had when the wait began (grant).
OvertakenAtMostOnce ==
  \A u \in Users : pc[u] \in WaitPCs => overtaken[u] <= 1

\* The turn of a lower rank that may still count against a waiter.
LowerTurn(u) ==
  \E v \in Users : /\ HasTurn(v) /\ At(v) = At(u)
                   /\ call[v] = "grant"
                   /\ Rank(u) < Rank(v)

\* What makes the bound inductive: while a lower rank has the turn of a
\* waiter's slot, none has had one before during this wait (grant).
NotOvertakenBefore ==
  \A u \in Users : pc[u] \in WaitPCs /\ LowerTurn(u) => overtaken[u] = 0

\* The inductive invariant of the broker: what the slots, the program counters,
\* the waiting counts and the lock file say of each other.
IInv ==
  /\ TurnShown
  /\ ExclusiveUse
  /\ WaitersCounted
  /\ NoLostWakeup
  /\ OvertakenAtMostOnce
  /\ NotOvertakenBefore

\* A slot with a session, in the broker or with a user, and one with the part
\* of a session that is being built.
Live(s) ==
  \/ slot[s] \in {"idle", "granted"}
  \/ \E u \in Users : pc[u] = "built" /\ At(u) = s

Part(s) == \E u \in Users : pc[u] = "loading" /\ At(u) = s

\* What a slot's sessions cost: its own, and the ones being dropped.
Metered(s) ==
  Cost(s[2]) * (dropping[s] + (IF Live(s) THEN 1 ELSE 0))
  + (IF Part(s) THEN Load[s[2]] ELSE 0)

\* The meter of every slot shows what its sessions cost, and no more of them
\* are dropped than were taken out: nothing leaks and nothing is freed twice,
\* whoever fails or dies (create_as_grant, Drop of Grant, take_idle).
Accounted == \A s \in Slots : mem[s] = Metered(s) /\ dropping[s] >= 0

\* What the checks are for: with the prices known, no creation takes the card
\* past its memory, where MIGraphX would abort the process, and no process goes
\* past its budget (admit, create_session).
MemoryHolds ==
  Priced = Backends =>
    /\ CardUsed <= Card
    /\ \A p \in Processes : ProcessBytes(p) <= Budget

\* What makes it inductive: the admitted session that is loading has its
\* warm-up still to come, and there is room for it.
WarmUpFits ==
  Priced = Backends =>
    /\ price = Backends
    /\ \A u \in Users : pc[u] = "loading" =>
         /\ CardUsed + WarmUp[backend[u]] <= Card
         /\ ProcessBytes(ProcessOf[u]) + WarmUp[backend[u]] <= Budget

\* Every call of a user comes back, with a grant it has given back or with an
\* error: no wait for a wake-up, a creation or a lock lasts for good.
EveryCallReturns == \A u \in Users : pc[u] # "out" ~> pc[u] = "out"

=============================================================================
