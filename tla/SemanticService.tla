--------------------------- MODULE SemanticService ---------------------------
(***************************************************************************)
(* The semantic service of the server (rmc-server/src/semantic/mod.rs)     *)
(* behind the analysis gate (rmc-server/src/deep_stack.rs).                *)
(*                                                                         *)
(* A call runs on a thread of its own, inside a gate that a garbage        *)
(* collection takes alone.  It finds the slot of its project in the        *)
(* registry, brings the slot's context up to date under the slot's lock,   *)
(* takes a snapshot, and asks its question on the snapshot with the lock   *)
(* let go.  Whoever changes the context cancels the snapshots and waits    *)
(* for them; a cancelled question is asked again, the last time with the   *)
(* lock held.  A panic marks its slot, and the call that caught it takes   *)
(* the marked slots out of the registry.                                   *)
(*                                                                         *)
(* Files are a version number per project.  The context of a slot is the   *)
(* version its stamps stand for and the version of the text it holds.      *)
(***************************************************************************)
EXTENDS Integers, FiniteSets

CONSTANTS
  Callers,       \* tool calls that may be under way at once
  Projects,      \* canonical project directories
  Slots,         \* identities of ProjectSlot values
  None,          \* no slot, no project, no holder
  MaxProjects,   \* RMC_MAX_PROJECTS; 0 evicts nothing
  QueryAttempts, \* QUERY_ATTEMPTS
  MaxEdits       \* bound: edits of one project

ASSUME ConstantsAssumption ==
  /\ None \notin Slots \cup Callers \cup Projects
  /\ IsFiniteSet(Projects)
  /\ IsFiniteSet(Callers)
  /\ MaxProjects \in Nat
  /\ QueryAttempts \in Nat \ {0}
  /\ MaxEdits \in Nat

VARIABLES
  tree,     \* [Projects -> Nat]: the version on disk
  projects, \* [Projects -> Slots or None]: Registry::projects
  older,    \* pairs of entries: the order of Entry::last_used
  slot,     \* [Slots -> the lock, the context and the marks of a slot]
  pc,       \* where a call is
  want,     \* the project a call is about
  my,       \* the slot a call works on
  attempt,  \* how often its question has been asked
  snap,     \* its snapshot
  text,     \* the version its snapshot, or the edits it read, hold
  stamps,   \* the version collect_stamps saw
  list,     \* entries taken from the registry, to be weighed or dropped
  asked,    \* the version on disk when the call was made
  within,   \* calls whose panic interrupted a context
  gc,       \* slots the collection under way has yet to sweep
  sweeping, \* a collection is inside the gate
  watchdog  \* the daemon serves, is retiring, or has unloaded as well

caller == <<pc, want, my, attempt, snap, text, stamps, list, asked, within>>
registry == <<projects, older>>
collector == <<gc, sweeping>>
vars == <<tree, projects, older, slot, pc, want, my, attempt, snap, text, stamps,
          list, asked, within, gc, sweeping, watchdog>>

Versions == 0..MaxEdits

PCs == {"idle", "gate", "inside", "lock", "held", "patch", "apply", "load", "ready",
        "query", "weigh", "weighing", "panicked", "drop"}

\* Where a call has the lock of its slot; a question has it on the last attempt.
LockPCs == {"held", "patch", "apply", "load", "ready", "weighing"}

\* A slot: its lock, its context (loaded, and then the two versions), and the
\* marks a panic leaves.
SlotStates == [held: Callers \cup {None}, loaded: BOOLEAN, stamps: Versions,
               text: Versions, poisoned: BOOLEAN, spoiled: BOOLEAN]

EmptySlot == [held |-> None, loaded |-> FALSE, stamps |-> 0, text |-> 0,
              poisoned |-> FALSE, spoiled |-> FALSE]

Entries == {<<p, projects[p]>> : p \in {q \in Projects : projects[q] # None}}

\* The projects with an entry.
InRegistry == {p \in DOMAIN projects : projects[p] # None}

\* Calls on a thread that holds the gate shared.
Inside(c) == pc[c] \notin {"idle", "gate"}

\* A snapshot keeps its database: "live", "cancelled", or "orphan" when the
\* context it was taken from was dropped without waiting for it.
Snapshots == {"none", "live", "cancelled", "orphan"}

Holds(c) == pc[c] \in LockPCs \/ (pc[c] = "query" /\ attempt[c] = QueryAttempts)

\* Snapshots of the context that is in the slot, which a change must wait for.
Readers(s) == {d \in Callers : my[d] = s /\ snap[d] \in {"live", "cancelled"}}

\* No Arc to the slot is left.
Unused(s) ==
  /\ \A p \in Projects : projects[p] # s
  /\ \A c \in Callers : my[c] # s /\ \A e \in list[c] : e[2] # s
  /\ s \notin gc

\* The last Arc takes the slot and its database with it.
Release(slots) ==
  slot' = [s \in Slots |-> IF Unused(s)' THEN EmptySlot ELSE slots[s]]

Init ==
  /\ tree = [p \in Projects |-> 0]
  /\ projects = [p \in Projects |-> None]
  /\ older = {}
  /\ slot = [s \in Slots |-> EmptySlot]
  /\ pc = [c \in Callers |-> "idle"]
  /\ want = [c \in Callers |-> None]
  /\ my = [c \in Callers |-> None]
  /\ attempt = [c \in Callers |-> 0]
  /\ snap = [c \in Callers |-> "none"]
  /\ text = [c \in Callers |-> 0]
  /\ stamps = [c \in Callers |-> 0]
  /\ list = [c \in Callers |-> {}]
  /\ asked = [c \in Callers |-> 0]
  /\ within = {}
  /\ gc = {}
  /\ sweeping = FALSE
  /\ watchdog = "serving"

-----------------------------------------------------------------------------
(* The registry.                                                           *)

\* The entries of `gone` leave the registry.
Remove(gone) ==
  /\ projects' = [p \in Projects |-> IF p \in gone THEN None ELSE projects[p]]
  /\ older' = {o \in older : o[1] \notin gone /\ o[2] \notin gone}

\* `p` is used now: it is the newest entry of `kept`.
Newest(p, kept) ==
  {o \in older : o[1] \in kept \ {p} /\ o[2] \in kept \ {p}} \cup ((kept \ {p}) \X {p})

\* Registry::evict_to_capacity: the oldest entries over the cap, except `keep` and
\* the ones whose lock is taken.
Evicted(keep) ==
  LET idle == {p \in InRegistry \ {keep} : slot[projects[p]].held = None}
      over == Cardinality(InRegistry) - MaxProjects
  IN  IF MaxProjects = 0 THEN {}
      ELSE {p \in idle : Cardinality({q \in idle : <<q, p>> \in older}) < over}

-----------------------------------------------------------------------------
(* The gate.                                                               *)

\* run_admitted: a retired process refuses; otherwise a thread is started.
RunAdmitted(c, p) ==
  /\ pc[c] = "idle"
  /\ watchdog = "serving"
  /\ pc' = [pc EXCEPT ![c] = "gate"]
  /\ want' = [want EXCEPT ![c] = p]
  /\ asked' = [asked EXCEPT ![c] = tree[p]]
  /\ UNCHANGED <<tree, registry, slot, my, attempt, snap, text, stamps, list, within,
                 collector, watchdog>>

\* enter_shared waits for a collection that is inside, and for nothing else.
EnterShared(c) ==
  /\ pc[c] = "gate"
  /\ ~sweeping
  /\ pc' = [pc EXCEPT ![c] = "inside"]
  /\ UNCHANGED <<tree, registry, slot, want, my, attempt, snap, text, stamps, list,
                 asked, within, collector, watchdog>>

\* The thread ends: the answer is sent and the gate is left.  What the call does not
\* remember is reset.
Ends(c) ==
  /\ pc' = [pc EXCEPT ![c] = "idle"]
  /\ my' = [my EXCEPT ![c] = None]
  /\ attempt' = [attempt EXCEPT ![c] = 0]
  /\ snap' = [snap EXCEPT ![c] = "none"]
  /\ text' = [text EXCEPT ![c] = 0]
  /\ stamps' = [stamps EXCEPT ![c] = 0]
  /\ list' = [list EXCEPT ![c] = {}]
  /\ asked' = [asked EXCEPT ![c] = 0]
  /\ within' = within \ {c}
  /\ want' = [want EXCEPT ![c] = None]

\* A call that needs no context: an analysis with a workspace of its own (a graph
\* build, an audit, a skeleton), a path that does not resolve, a project that is not
\* loaded and is to be weighed.
WorksElsewhere(c) ==
  /\ pc[c] = "inside"
  /\ Ends(c)
  /\ UNCHANGED <<tree, registry, slot, collector, watchdog>>

\* Mutant: a collection waits for slots in use only, not for questions on snapshots.
ExclusiveOfHolders ==
  /\ ~sweeping
  /\ \A s \in Slots : slot[s].held = None
  /\ sweeping' = TRUE
  /\ gc' = {projects[p] : p \in InRegistry}
  /\ UNCHANGED <<tree, registry, slot, caller, watchdog>>

\* try_run_exclusive_analysis: a collection enters only when nobody is inside.  It
\* takes the slots of the registry with it.
TryExclusive ==
  /\ ~sweeping
  /\ \A c \in Callers : ~Inside(c)
  /\ sweeping' = TRUE
  /\ gc' = {projects[p] : p \in InRegistry}
  /\ UNCHANGED <<tree, registry, slot, caller, watchdog>>

-----------------------------------------------------------------------------
(* A question about a project.                                             *)

\* slot_for: the slot of the project, made if there is none.
SlotFor(c) ==
  /\ pc[c] = "inside"
  /\ IF projects[want[c]] # None
     THEN /\ my' = [my EXCEPT ![c] = projects[want[c]]]
          /\ UNCHANGED registry
     ELSE \E s \in Slots :
            /\ Unused(s)
            /\ s = CHOOSE r \in Slots : Unused(r)
            /\ projects' = [projects EXCEPT ![want[c]] = s]
            /\ older' = Newest(want[c], InRegistry)
            /\ my' = [my EXCEPT ![c] = s]
  /\ pc' = [pc EXCEPT ![c] = "lock"]
  /\ attempt' = [attempt EXCEPT ![c] = 1]
  /\ UNCHANGED <<tree, slot, want, snap, text, stamps, list, asked, within, collector,
                 watchdog>>

\* ProjectSlot::lock: the slot as the new holder finds it.  A poisoned one is
\* emptied first.
Locked(s, holder) ==
  [slot EXCEPT ![s] = IF slot[s].poisoned
                      THEN [EmptySlot EXCEPT !.held = holder, !.spoiled = slot[s].spoiled]
                      ELSE [slot[s] EXCEPT !.held = holder]]

\* The snapshots of a context that is emptied that way go on by themselves.
Orphaned(s) ==
  [d \in Callers |-> IF slot[s].poisoned /\ d \in Readers(s) THEN "orphan" ELSE snap[d]]

Lock(c) ==
  /\ pc[c] = "lock"
  /\ slot[my[c]].held = None
  /\ slot' = Locked(my[c], c)
  /\ snap' = Orphaned(my[c])
  /\ pc' = [pc EXCEPT ![c] = "held"]
  /\ UNCHANGED <<tree, registry, want, my, attempt, text, stamps, list, asked, within,
                 collector, watchdog>>

\* refresh_if_stale finds the stamps of the context unchanged.
Fresh(c) ==
  /\ pc[c] = "held"
  /\ slot[my[c]].loaded
  /\ slot[my[c]].stamps = tree[want[c]]
  /\ pc' = [pc EXCEPT ![c] = "ready"]
  /\ UNCHANGED <<tree, registry, slot, want, my, attempt, snap, text, stamps, list,
                 asked, within, collector, watchdog>>

\* refresh_if_stale finds edited files only.
Edited(c) ==
  /\ pc[c] = "held"
  /\ slot[my[c]].loaded
  /\ slot[my[c]].stamps # tree[want[c]]
  /\ stamps' = [stamps EXCEPT ![c] = tree[want[c]]]
  /\ pc' = [pc EXCEPT ![c] = "patch"]
  /\ UNCHANGED <<tree, registry, slot, want, my, attempt, snap, text, list, asked,
                 within, collector, watchdog>>

\* salsa: a write cancels the snapshots of its database.
Cancelled(s) ==
  [d \in Callers |-> IF d \in Readers(s) THEN "cancelled" ELSE snap[d]]

\* apply_edits reads the files, and asks for the write.
ReadEdits(c) ==
  /\ pc[c] = "patch"
  /\ text' = [text EXCEPT ![c] = tree[want[c]]]
  /\ snap' = Cancelled(my[c])
  /\ pc' = [pc EXCEPT ![c] = "apply"]
  /\ UNCHANGED <<tree, registry, slot, want, my, attempt, stamps, list, asked, within,
                 collector, watchdog>>

\* apply_change, once the snapshots are gone, and the stamps that were taken first.
ApplyEdits(c) ==
  /\ pc[c] = "apply"
  /\ Readers(my[c]) = {}
  /\ slot' = [slot EXCEPT ![my[c]].stamps = stamps[c], ![my[c]].text = text[c]]
  /\ pc' = [pc EXCEPT ![c] = "ready"]
  /\ UNCHANGED <<tree, registry, want, my, attempt, snap, text, stamps, list, asked,
                 within, collector, watchdog>>

\* load_into takes the stamps, and the previous context out of the slot: nothing is
\* loaded yet, files came or went, or the edits could not be patched in.
BeginLoad(c) ==
  /\ \/ pc[c] = "held" /\ ~slot[my[c]].loaded
     \/ pc[c] = "held" /\ slot[my[c]].stamps # tree[want[c]]
     \/ pc[c] = "patch"
  /\ stamps' = [stamps EXCEPT ![c] = tree[want[c]]]
  /\ snap' = Cancelled(my[c])
  /\ slot' = [slot EXCEPT ![my[c]].loaded = FALSE, ![my[c]].stamps = 0,
                          ![my[c]].text = 0]
  /\ pc' = [pc EXCEPT ![c] = "load"]
  /\ UNCHANGED <<tree, registry, want, my, attempt, text, list, asked, within,
                 collector, watchdog>>

\* Mutant: the stamps are taken after the load.
StampedAfterLoad(c) ==
  /\ pc[c] = "load"
  /\ Readers(my[c]) = {}
  /\ \E v \in stamps[c]..tree[want[c]] :
       slot' = [slot EXCEPT ![my[c]].loaded = TRUE, ![my[c]].stamps = tree[want[c]],
                            ![my[c]].text = v]
  /\ pc' = [pc EXCEPT ![c] = "ready"]
  /\ UNCHANGED <<tree, registry, want, my, attempt, snap, text, stamps, list, asked,
                 within, collector, watchdog>>

\* The load has read the files at some moment since, after the snapshots of the
\* previous context were gone.
EndLoad(c) ==
  /\ pc[c] = "load"
  /\ Readers(my[c]) = {}
  /\ \E v \in stamps[c]..tree[want[c]] :
       slot' = [slot EXCEPT ![my[c]].loaded = TRUE, ![my[c]].stamps = stamps[c],
                            ![my[c]].text = v]
  /\ pc' = [pc EXCEPT ![c] = "ready"]
  /\ UNCHANGED <<tree, registry, want, my, attempt, snap, text, stamps, list, asked,
                 within, collector, watchdog>>

\* A failed load: its entry leaves the registry if it is still this slot's, and the
\* call ends with the error.
LoadFails(c) ==
  /\ pc[c] = "load"
  /\ Readers(my[c]) = {}
  /\ Remove({p \in {want[c]} : projects[p] = my[c]})
  /\ Ends(c)
  /\ UNCHANGED <<tree, collector, watchdog>>
  /\ Release([slot EXCEPT ![my[c]].held = None])

\* Mutant: the lock is let go on the last attempt too.
AlwaysLetGo(c) ==
  /\ pc[c] = "ready"
  /\ snap' = [snap EXCEPT ![c] = "live"]
  /\ text' = [text EXCEPT ![c] = slot[my[c]].text]
  /\ stamps' = [stamps EXCEPT ![c] = 0]
  /\ pc' = [pc EXCEPT ![c] = "query"]
  /\ slot' = [slot EXCEPT ![my[c]].held = None]
  /\ UNCHANGED <<tree, registry, want, my, attempt, list, asked, within, collector,
                 watchdog>>

\* The rest of up_to_date, and the snapshot: the entry, if it is still this slot's,
\* is the newest one and others are evicted; the lock is kept on the last attempt.
TakeSnapshot(c) ==
  /\ pc[c] = "ready"
  /\ IF projects[want[c]] = my[c]
     THEN LET gone == Evicted(want[c])
          IN  /\ projects' = [p \in Projects |-> IF p \in gone THEN None ELSE projects[p]]
              /\ older' = Newest(want[c], InRegistry \ gone)
     ELSE UNCHANGED registry
  /\ snap' = [snap EXCEPT ![c] = "live"]
  /\ text' = [text EXCEPT ![c] = slot[my[c]].text]
  /\ stamps' = [stamps EXCEPT ![c] = 0]
  /\ pc' = [pc EXCEPT ![c] = "query"]
  /\ UNCHANGED <<tree, want, my, attempt, list, asked, within, collector, watchdog>>
  /\ Release(IF attempt[c] = QueryAttempts THEN slot
             ELSE [slot EXCEPT ![my[c]].held = None])

\* The slot as a call leaves it that may hold its lock.
LetGo(c) ==
  [slot EXCEPT ![my[c]].held = IF @ = c THEN None ELSE @]

\* The question is answered; a cancellation may come too late for it.
Answer(c) ==
  /\ pc[c] = "query"
  /\ Ends(c)
  /\ UNCHANGED <<tree, registry, collector, watchdog>>
  /\ Release(LetGo(c))

\* Mutant: the attempts are not counted.
AskAgainForever(c) ==
  /\ pc[c] = "query"
  /\ snap[c] = "cancelled"
  /\ snap' = [snap EXCEPT ![c] = "none"]
  /\ text' = [text EXCEPT ![c] = 0]
  /\ pc' = [pc EXCEPT ![c] = "lock"]
  /\ UNCHANGED <<tree, registry, slot, want, my, attempt, stamps, list, asked, within,
                 collector, watchdog>>

\* A cancelled question is asked again.
AskAgain(c) ==
  /\ pc[c] = "query"
  /\ snap[c] = "cancelled"
  /\ attempt[c] < QueryAttempts
  /\ attempt' = [attempt EXCEPT ![c] = @ + 1]
  /\ snap' = [snap EXCEPT ![c] = "none"]
  /\ text' = [text EXCEPT ![c] = 0]
  /\ pc' = [pc EXCEPT ![c] = "lock"]
  /\ UNCHANGED <<tree, registry, slot, want, my, stamps, list, asked, within, collector,
                 watchdog>>

-----------------------------------------------------------------------------
(* Weighing the loaded contexts.                                           *)

\* memory_breakdown: the project must be loaded; all entries are weighed.
ListLoaded(c) ==
  /\ pc[c] = "inside"
  /\ projects[want[c]] # None
  /\ list' = [list EXCEPT ![c] = Entries]
  /\ pc' = [pc EXCEPT ![c] = "weigh"]
  /\ UNCHANGED <<tree, registry, slot, want, my, attempt, snap, text, stamps, asked,
                 within, collector, watchdog>>

\* One slot after the other is locked.  Measuring cancels like a write; an empty slot
\* is passed over.
Weigh(c) ==
  /\ pc[c] = "weigh"
  /\ \E e \in list[c] :
       LET s == e[2] IN
       /\ slot[s].held = None
       /\ list' = [list EXCEPT ![c] = @ \ {e}]
       /\ IF slot[s].loaded /\ ~slot[s].poisoned
          THEN /\ pc' = [pc EXCEPT ![c] = "weighing"]
               /\ my' = [my EXCEPT ![c] = s]
               /\ snap' = Cancelled(s)
          ELSE /\ snap' = Orphaned(s)
               /\ UNCHANGED <<pc, my>>
       /\ UNCHANGED <<tree, registry, want, attempt, text, stamps, asked, within,
                      collector, watchdog>>
       /\ Release(IF slot[s].loaded /\ ~slot[s].poisoned THEN Locked(s, c)
                  ELSE Locked(s, None))

\* The snapshots are gone: the context is measured and its slot let go.
Weighed(c) ==
  /\ pc[c] = "weighing"
  /\ Readers(my[c]) = {}
  /\ pc' = [pc EXCEPT ![c] = "weigh"]
  /\ my' = [my EXCEPT ![c] = None]
  /\ UNCHANGED <<tree, registry, want, attempt, snap, text, stamps, list, asked, within,
                 collector, watchdog>>
  /\ Release(LetGo(c))

\* Everything is weighed.
Portrait(c) ==
  /\ pc[c] = "weigh"
  /\ list[c] = {}
  /\ Ends(c)
  /\ UNCHANGED <<tree, registry, slot, collector, watchdog>>

-----------------------------------------------------------------------------
(* Panics.                                                                 *)

\* A panic unwinds to with_semantic.  `marked` are the slots as the unwinding left them.
Unwinds(c, marked) ==
  /\ pc' = [pc EXCEPT ![c] = "panicked"]
  /\ my' = [my EXCEPT ![c] = None]
  /\ attempt' = [attempt EXCEPT ![c] = 0]
  /\ snap' = [snap EXCEPT ![c] = "none"]
  /\ text' = [text EXCEPT ![c] = 0]
  /\ stamps' = [stamps EXCEPT ![c] = 0]
  /\ list' = [list EXCEPT ![c] = {}]
  /\ asked' = [asked EXCEPT ![c] = 0]
  /\ want' = [want EXCEPT ![c] = None]
  /\ UNCHANGED <<tree, registry, collector, watchdog>>
  /\ Release(marked)

\* Outside every context: before a slot is found.
PanicOutside(c) ==
  /\ pc[c] = "inside"
  /\ Unwinds(c, slot)
  /\ UNCHANGED within

\* Under the slot's lock, which is poisoned: while the files are looked at, or in a
\* load or a refresh, then after the snapshots are gone.  SpoilOnPanic marks the slot.
PanicHolding(c) ==
  /\ \/ pc[c] \in {"held", "patch"}
     \/ pc[c] \in {"apply", "load"} /\ Readers(my[c]) = {}
  /\ within' = within \cup {c}
  /\ Unwinds(c, [slot EXCEPT ![my[c]].held = None, ![my[c]].poisoned = TRUE,
                             ![my[c]].spoiled = TRUE])

\* In a question.  Only the last attempt has a lock to poison.
PanicInQuery(c) ==
  /\ pc[c] = "query"
  /\ within' = within \cup {c}
  /\ Unwinds(c, [slot EXCEPT ![my[c]].held = IF @ = c THEN None ELSE @,
                             ![my[c]].poisoned = @ \/ slot[my[c]].held = c,
                             ![my[c]].spoiled = TRUE])

\* While a context is measured: the lock is poisoned, the slot is not marked.
PanicWeighing(c) ==
  /\ pc[c] = "weighing"
  /\ Readers(my[c]) = {}
  /\ within' = within \cup {c}
  /\ Unwinds(c, [slot EXCEPT ![my[c]].held = None, ![my[c]].poisoned = TRUE])

\* unload_after_panic: the entries a panic marked.  A lock that is taken is poisoned
\* no more.
FindInterrupted(c) ==
  /\ pc[c] = "panicked"
  /\ list' = [list EXCEPT ![c] = {e \in Entries : slot[e[2]].spoiled \/ slot[e[2]].poisoned}]
  /\ pc' = [pc EXCEPT ![c] = "drop"]
  /\ UNCHANGED <<tree, registry, slot, want, my, attempt, snap, text, stamps, asked,
                 within, collector, watchdog>>

\* Mutant: slots another call holds are spared, as in an eviction.
UnloadIdleOnly(c) ==
  /\ pc[c] = "drop"
  /\ Remove({p \in InRegistry : /\ <<p, projects[p]>> \in list[c]
                                /\ slot[projects[p]].held = None})
  /\ Ends(c)
  /\ UNCHANGED <<tree, collector, watchdog>>
  /\ Release(slot)

\* They leave the registry where they are still the same; every entry leaves it when
\* none was found.
UnloadInterrupted(c) ==
  /\ pc[c] = "drop"
  /\ Remove(IF list[c] = {} THEN Projects
            ELSE {p \in Projects : <<p, projects[p]>> \in list[c]})
  /\ Ends(c)
  /\ UNCHANGED <<tree, collector, watchdog>>
  /\ Release(slot)

-----------------------------------------------------------------------------
(* The others: the collection, clear_runtime, the watchdog, an editor.     *)

\* collect_garbage, slot by slot.
SweepSlot(s) ==
  /\ sweeping
  /\ s \in gc
  /\ slot[s].held = None
  /\ gc' = gc \ {s}
  /\ snap' = Orphaned(s)
  /\ UNCHANGED <<tree, registry, pc, want, my, attempt, text, stamps, list, asked,
                 within, sweeping, watchdog>>
  /\ Release(Locked(s, None))

\* The collection leaves the gate.
SweepEnds ==
  /\ sweeping
  /\ gc = {}
  /\ sweeping' = FALSE
  /\ UNCHANGED <<tree, registry, slot, caller, gc, watchdog>>

\* clear_project.
ClearProject(p) ==
  /\ projects[p] # None
  /\ Remove({p})
  /\ UNCHANGED <<tree, caller, collector, watchdog>>
  /\ Release(slot)

\* clear_all: asked for, or by the watchdog at its soft limit.
ClearAll ==
  /\ InRegistry # {}
  /\ Remove(Projects)
  /\ UNCHANGED <<tree, caller, collector, watchdog>>
  /\ Release(slot)

\* refuse_new_analyses: the hard limit.
Retire ==
  /\ watchdog = "serving"
  /\ watchdog' = "retiring"
  /\ UNCHANGED <<tree, registry, slot, caller, collector>>

\* The unload that goes with it.
UnloadRetired ==
  /\ watchdog = "retiring"
  /\ watchdog' = "unloaded"
  /\ Remove(Projects)
  /\ UNCHANGED <<tree, caller, collector>>
  /\ Release(slot)

\* The files of a project change, and their stamps with them.
Edit(p) ==
  /\ tree[p] < MaxEdits
  /\ tree' = [tree EXCEPT ![p] = @ + 1]
  /\ UNCHANGED <<registry, slot, caller, collector, watchdog>>

-----------------------------------------------------------------------------

\* What a call does by itself, once it is made.
Proceeds(c) ==
  \/ WorksElsewhere(c) \/ SlotFor(c) \/ ListLoaded(c)
  \/ Fresh(c) \/ Edited(c) \/ ReadEdits(c) \/ ApplyEdits(c)
  \/ BeginLoad(c) \/ EndLoad(c) \/ LoadFails(c)
  \/ TakeSnapshot(c) \/ Answer(c) \/ AskAgain(c)
  \/ Weighed(c) \/ Portrait(c)
  \/ FindInterrupted(c) \/ UnloadInterrupted(c)

Panics(c) ==
  PanicOutside(c) \/ PanicHolding(c) \/ PanicInQuery(c) \/ PanicWeighing(c)

Next ==
  \/ \E c \in Callers :
       \/ \E p \in Projects : RunAdmitted(c, p)
       \/ EnterShared(c) \/ Lock(c) \/ Weigh(c)
       \/ Proceeds(c)
       \/ Panics(c)
  \/ TryExclusive \/ SweepEnds
  \/ \E s \in Slots : SweepSlot(s)
  \/ ClearAll \/ Retire \/ UnloadRetired
  \/ \E p \in Projects : ClearProject(p) \/ Edit(p)

Spec == Init /\ [][Next]_vars

\* A call that can go on does; one that waits for a lock or for the gate gets it if it
\* is free again and again; a collection ends.
FairSpec ==
  /\ Spec
  /\ \A c \in Callers : /\ WF_vars(Proceeds(c))
                        /\ SF_vars(EnterShared(c) \/ Lock(c) \/ Weigh(c))
  /\ WF_vars(SweepEnds)
  /\ \A s \in Slots : WF_vars(SweepSlot(s))

-----------------------------------------------------------------------------
(* Properties.                                                             *)

\* The values the variables take.
TypeOK ==
  /\ tree \in [Projects -> Versions]
  /\ projects \in [Projects -> Slots \cup {None}]
  /\ older \subseteq Projects \X Projects
  /\ slot \in [Slots -> SlotStates]
  /\ pc \in [Callers -> PCs]
  /\ want \in [Callers -> Projects \cup {None}]
  /\ my \in [Callers -> Slots \cup {None}]
  /\ attempt \in [Callers -> 0..QueryAttempts]
  /\ snap \in [Callers -> Snapshots]
  /\ text \in [Callers -> Versions]
  /\ stamps \in [Callers -> Versions]
  /\ list \in [Callers -> SUBSET (Projects \X Slots)]
  /\ asked \in [Callers -> Versions]
  /\ within \subseteq Callers
  /\ gc \subseteq Slots
  /\ sweeping \in BOOLEAN
  /\ watchdog \in {"serving", "retiring", "unloaded"}

\* A call under way knows its project, and its slot once it is past slot_for.
AtWork ==
  \A c \in Callers :
    /\ pc[c] \notin {"idle", "weigh", "weighing", "panicked", "drop"} => want[c] \in Projects
    /\ pc[c] \in {"lock", "query"} \cup LockPCs => my[c] \in Slots

\* While a collection sweeps the type interner of the process, no snapshot is in use
\* and every slot is free: it can neither meet a question in flight nor wait.
SweepAlone ==
  sweeping => /\ \A c \in Callers : snap[c] = "none"
              /\ \A s \in Slots : slot[s].held = None

\* An answer is about the files as they were when the call was made, or later.
AnswersCurrent ==
  \A c \in Callers : pc[c] = "query" => text[c] >= asked[c]

\* The last attempt holds its slot, and nothing cancels it.
LastAttemptUndisturbed ==
  \A c \in Callers :
    pc[c] = "query" /\ attempt[c] = QueryAttempts =>
      slot[my[c]].held = c /\ snap[c] = "live"

\* A call holds the lock of its slot where it works under it, uses a snapshot inside
\* its question only, and is not inside the gate during a collection.
CallLocks(c) ==
  /\ Holds(c) => slot[my[c]].held = c
  /\ snap[c] # "none" => pc[c] = "query"
  /\ pc[c] = "query" /\ attempt[c] = QueryAttempts => snap[c] = "live"
  /\ sweeping => ~Inside(c)

\* Whoever holds a slot is at work under its lock.
SlotLock(s) ==
  slot[s].held # None => my[slot[s].held] = s /\ Holds(slot[s].held)

LocksMatchCalls ==
  /\ \A c \in Callers : CallLocks(c)
  /\ \A s \in Slots : SlotLock(s)

\* The stamps a call takes are not older than the call, and what it reads is not older
\* than its stamps.
CallVersions(c) ==
  /\ want[c] \in Projects => asked[c] <= tree[want[c]]
  /\ pc[c] \in {"patch", "apply", "load"} =>
       asked[c] <= stamps[c] /\ stamps[c] <= tree[want[c]]
  /\ pc[c] = "apply" => stamps[c] <= text[c]
  /\ pc[c] = "ready" => asked[c] <= slot[my[c]].text
  /\ pc[c] = "query" => asked[c] <= text[c]

VersionsInOrder ==
  /\ \A s \in Slots : slot[s].stamps <= slot[s].text
  /\ \A c \in Callers : CallVersions(c)

\* The inductive invariant.
IInv == TypeOK /\ AtWork /\ LocksMatchCalls /\ VersionsInOrder

\* A context that a panic interrupted is in the registry only while a call is still
\* cleaning up.
InterruptedContextsGo ==
  \A p \in InRegistry :
    slot[projects[p]].spoiled =>
      \E c \in Callers : \/ pc[c] = "panicked"
                         \/ pc[c] = "drop" /\ <<p, projects[p]>> \in list[c]

\* Calls that may have made an entry and not yet evicted for it.
OnTheirWay == {c \in Callers : pc[c] \in {"lock", "held", "patch", "apply", "load", "ready",
                                        "panicked", "drop"}}

\* The cap, or as many entries as there are calls to keep them busy.
Cap == IF MaxProjects > Cardinality(Callers) THEN MaxProjects ELSE Cardinality(Callers)

\* Eviction leaves no more entries than that; beyond there are only the entries of calls
\* on their way.
WithinCap == MaxProjects > 0 => Cardinality(InRegistry) <= Cap + Cardinality(OnTheirWay)

\* The registry after panics and evictions (unload_after_panic, evict_to_capacity).
RegistryHolds == InterruptedContextsGo /\ WithinCap

\* A call outside the questions has no slot, and one that does not weigh or clean up
\* has no entries.
CallHolds(c) ==
  /\ pc[c] \in {"idle", "gate", "inside", "weigh", "panicked", "drop"} => my[c] = None
  /\ pc[c] \notin {"weigh", "weighing", "drop"} => list[c] = {}

\* Of two entries one is the older.
EntriesAged ==
  /\ \A p, q \in InRegistry : p # q => <<p, q>> \in older \/ <<q, p>> \in older
  /\ \A p, q, r \in InRegistry : <<p, q>> \in older /\ <<q, r>> \in older => <<p, r>> \in older
  /\ \A p \in InRegistry : <<p, p>> \notin older

\* A slot nobody refers to bears no mark, and no two entries share a slot.
RegistryInOrder ==
  /\ \A c \in Callers : CallHolds(c)
  /\ ~sweeping => gc = {}
  /\ \A s \in Slots : Unused(s) => ~slot[s].spoiled
  /\ \A p, q \in InRegistry : p # q => projects[p] # projects[q]
  /\ EntriesAged

\* Entries whose context a panic interrupted.
Spoiled == {p \in InRegistry : slot[projects[p]].spoiled}

\* The call is bringing the entry's context up to date, or has yet to take the entry out
\* of the registry.
Prepares(c, p) ==
  /\ pc[c] \in {"lock", "held", "patch", "apply", "load", "ready"}
  /\ want[c] = p
  /\ my[c] = projects[p]

Cleans(c, p) == pc[c] = "panicked" \/ (pc[c] = "drop" /\ <<p, projects[p]>> \in list[c])

\* Every spoiled entry has a call of its own that takes it out.
EachHasItsCleaner ==
  \E f \in [Spoiled -> Callers] :
    /\ \A p \in Spoiled : Cleans(f[p], p)
    /\ \A p, q \in Spoiled : p # q => f[p] # f[q]

\* Entries that are neither being prepared nor taken out: for these there is room.
Settled == {p \in InRegistry \ Spoiled : \A c \in Callers : ~Prepares(c, p)}

RoomForSettled == MaxProjects > 0 => Cardinality(Settled) <= Cap

\* The inductive invariant of the registry.
RegistryInv == RegistryInOrder /\ EachHasItsCleaner /\ RoomForSettled

\* Every call comes to an end, whatever is edited, weighed, cleared or collected
\* meanwhile, and whoever panics.
CallsEnd == \A c \in Callers : pc[c] # "idle" ~> pc[c] = "idle"

\* What unload_after_panic promises: a panic inside a context costs only the contexts
\* a panic interrupted, never those of other projects.
PanicCostsItsProjectOnly ==
  [][\A c \in within :
       pc[c] = "drop" /\ pc'[c] = "idle" =>
         \A p \in InRegistry :
           projects'[p] = None => slot[projects[p]].spoiled \/ slot[projects[p]].poisoned
    ]_vars

=============================================================================
