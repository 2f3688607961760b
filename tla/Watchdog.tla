------------------------------ MODULE Watchdog ------------------------------
(***************************************************************************)
(* The loop of a daemon (rust-code-mcp, daemon.rs: run_daemon and the      *)
(* decisions it asks): it accepts clients, and after every accept and      *)
(* every IDLE_TICK looks at the memory, the GPU sessions, its own binary   *)
(* and its clients.  Time is counted in ticks of that loop, and ages stop  *)
(* counting at the longest a limit asks for.                               *)
(*                                                                         *)
(* What the loop waits for it does not look past: while it unloads, it     *)
(* accepts nobody and no deadline passes for it.                           *)
(***************************************************************************)
EXTENDS Integers, FiniteSets

CONSTANTS
  Clients,
  Base, ContextMb, JobMb,        \* memory held by the process, a context, an index job
  MaxFree,                       \* bounds what the allocator may keep
  MachineMb, OthersMb,           \* the machine, and what other programs may take of it
  SoftMb, HardMb, FloorMb,       \* limits; 0 is no limit
  GrowthMb,
  Cooldown, TrimCooldown, GrowthCooldown,
  GpuIdle, GcInterval, Grace, Idle,
  MaxCalls, MaxTicks             \* bound the behaviours

VARIABLES
  loop,      \* [at, why, reading, trimmed]: where the loop is and what it found
  due,       \* has the loop slept its tick?
  age,       \* since the last unload, trim, sweep, retirement and departure; None before
  baseline,  \* RSS right after the last trim
  daemon,    \* [retiring, refusing, listed, sync]: what it promised others
  live,      \* the counter of connections
  client,    \* where each client is
  context,   \* who loaded the analysis in memory, {} when none is
  free,      \* heap that was freed and not handed back
  others,    \* what other programs take of the machine
  session,   \* ticks a shared GPU session was unused; None when there is none
  replaced,  \* is another binary at the launch path?
  bound,     \* calls made and ticks passed
  seen       \* history: what the process held and since when nobody was served

wdVars == <<loop, due, age, baseline, daemon, live, client, context, free, others,
            session, replaced, bound, seen>>
world  == <<client, context, free, others, session, replaced, bound, live, seen, due>>

None == -1
Least(a, b) == IF a < b THEN a ELSE b

ASSUME LimitsAssumption ==
  /\ IsFiniteSet(Clients)
  /\ Base \in Nat /\ ContextMb \in Nat /\ JobMb \in Nat /\ MaxFree \in Nat
  /\ MachineMb \in Nat /\ OthersMb \in Nat
  /\ SoftMb \in Nat /\ HardMb \in Nat /\ FloorMb \in Nat /\ GrowthMb \in Nat
  /\ Cooldown \in Nat /\ TrimCooldown \in Nat /\ GrowthCooldown \in Nat
  /\ GrowthCooldown >= TrimCooldown   \* a test of daemon.rs asserts it
  /\ GpuIdle \in Nat /\ GcInterval \in Nat /\ Grace \in Nat /\ Idle \in Nat
  /\ MaxCalls \in Nat /\ MaxTicks \in Nat

-----------------------------------------------------------------------------
(* Memory. *)

Working(c) == client[c] \in {"loading", "asking"}
Indexing(c) == client[c] = "indexing"

\* A context a call still uses stays in memory when the registry lets go of it.
Footprint == Base + (IF context # {} \/ (\E c \in Clients : Working(c)) THEN ContextMb ELSE 0)
             + JobMb * Cardinality({c \in Clients : Indexing(c)})
Reading(kept) == [rss |-> Footprint + kept, available |-> MachineMb - others - Footprint - kept]

Over(a, limit) == a = None \/ a >= limit

decide_watchdog_action(r, since_unload, retiring) ==
  IF ~ retiring /\ HardMb > 0 /\ r.rss >= HardMb THEN "RetireAndUnload"
  ELSE IF /\ \/ SoftMb > 0 /\ r.rss >= SoftMb
             \/ FloorMb > 0 /\ r.available < FloorMb
          /\ Over(since_unload, Cooldown) THEN "Unload"
  ELSE "None"

growth_trim_is_due(rss, base, since_trim) ==
  GrowthMb # 0 /\ Over(since_trim, GrowthCooldown) /\ rss >= base + GrowthMb

retire_grace_expired(retiring_for) == Grace # 0 /\ retiring_for # None /\ retiring_for >= Grace

gpu_session_max_idle(retiring, syncing) ==
  IF retiring /\ ~ syncing THEN 0 ELSE IF GpuIdle # 0 THEN GpuIdle ELSE None

should_collect_garbage(since_gc) == GcInterval # 0 /\ since_gc >= GcInterval

-----------------------------------------------------------------------------
(* The loop. *)

At(stage) == loop.at = stage
Go(stage) == loop' = [loop EXCEPT !.at = stage]

LoopWakes ==
  /\ At("select") /\ due
  /\ due' = FALSE /\ Go("memory")
  /\ UNCHANGED <<age, baseline, daemon, live, client, context, free, others, session,
                 replaced, bound, seen>>

Accept(c) ==
  /\ At("select") /\ client[c] = "queued"
  /\ client' = [client EXCEPT ![c] = "attached"] /\ live' = live + 1
  /\ due' = FALSE /\ Go("memory")
  /\ seen' = [seen EXCEPT !.quiet = 0]
  /\ UNCHANGED <<age, baseline, daemon, context, free, others, session, replaced, bound>>

\* A reading that asks for action is settled by a trim first.
watchdog_tick ==
  /\ At("memory")
  /\ LET raw == decide_watchdog_action(Reading(free), age.unload, daemon.retiring)
         trim == raw # "None" /\ Over(age.trim, TrimCooldown)
         growth == ~ trim /\ growth_trim_is_due(Reading(free).rss, baseline, age.trim) IN
     /\ loop' = [loop EXCEPT !.at = IF trim \/ growth THEN "trim" ELSE "act",
                             !.action = IF trim THEN "undecided" ELSE raw,
                             !.reading = Reading(free)]
     /\ baseline' = IF trim \/ growth THEN baseline ELSE Least(baseline, Reading(free).rss)
  /\ seen' = [seen EXCEPT !.held = Footprint, !.trim = age.trim]
  /\ UNCHANGED <<due, age, daemon, live, client, context, free, others, session, replaced,
                 bound>>

\* The rest of the daemon runs on while the allocator is walked.
Trims ==
  /\ At("trim")
  /\ free' = 0 /\ age' = [age EXCEPT !.trim = 0]
  /\ baseline' = Reading(0).rss
  /\ IF loop.action = "undecided"
     THEN /\ loop' = [loop EXCEPT !.at = "act", !.reading = Reading(0),
                        !.action = decide_watchdog_action(Reading(0), age.unload, daemon.retiring)]
          /\ seen' = [seen EXCEPT !.held = Footprint]
     ELSE Go("act") /\ UNCHANGED seen
  /\ UNCHANGED <<due, daemon, live, client, context, others, session, replaced, bound>>

\* Analyses are refused, the sync is asked to stop, the address is given up.
RetireAndUnload ==
  /\ At("act") /\ loop.action = "RetireAndUnload"
  /\ daemon' = [daemon EXCEPT !.retiring = TRUE, !.refusing = TRUE, !.listed = FALSE,
                              !.sync = IF @ = "running" THEN "stopping" ELSE @]
  /\ age' = [age EXCEPT !.retire = 0]
  /\ loop' = [loop EXCEPT !.at = "unload", !.why = "hard limit"]
  /\ UNCHANGED <<baseline, world>>

Acts ==
  /\ At("act") /\ loop.action \in {"None", "Unload"}
  /\ Go(IF loop.action = "Unload" THEN "unload" ELSE "housekeeping")
  /\ UNCHANGED <<age, baseline, daemon, world>>

\* Everything goes, behind the lock of all workspaces; a call still working on
\* a context keeps it until it answers.
Unlocked == \A c \in Clients : ~ Indexing(c)
unload_analysis_contexts ==
  /\ At("unload") /\ Unlocked
  /\ context' = {} /\ free' = 0
  /\ age' = [age EXCEPT !.unload = 0]
  /\ seen' = [seen EXCEPT !.inside = {c \in Clients : client[c] \in {"admitted", "loading"}}]
  /\ Go("housekeeping")
  /\ UNCHANGED <<due, baseline, daemon, live, client, others, session, replaced, bound>>

\* Idle sessions go back to the card; a new binary retires the daemon; a sweep
\* that is due waits for nobody.
Inside(c) == client[c] \in {"loading", "asking"}
Housekeeping ==
  /\ At("housekeeping")
  /\ LET most == gpu_session_max_idle(daemon.retiring, daemon.sync # "stopped") IN
     session' = IF most # None /\ session # None /\ session >= most THEN None ELSE session
  /\ LET leaves == ~ daemon.retiring /\ replaced IN
     /\ daemon' = IF leaves THEN [daemon EXCEPT !.retiring = TRUE, !.listed = FALSE,
                                    !.sync = IF @ = "running" THEN "stopping" ELSE @]
                  ELSE daemon
     /\ loop' = [loop EXCEPT !.at = "exits", !.why = IF leaves THEN "replaced" ELSE @]
     /\ age' = [age EXCEPT !.retire = IF leaves THEN 0 ELSE @,
                           !.gc = IF should_collect_garbage(@) /\ \A c \in Clients : ~ Inside(c)
                                  THEN 0 ELSE @]
  /\ UNCHANGED <<due, baseline, live, client, context, free, others, replaced, bound, seen>>

EndLoop(why) == loop' = [loop EXCEPT !.at = "ended", !.why = why]

\* The counter is read, and then the mark.
Exits ==
  /\ At("exits")
  /\ IF daemon.retiring /\ live = 0 THEN EndLoop("last client left")
     ELSE IF daemon.retiring /\ retire_grace_expired(age.retire) THEN EndLoop("deadline")
     ELSE Go(IF Idle # 0 /\ live = 0 THEN "idle" ELSE "select")
  /\ UNCHANGED <<age, baseline, daemon, world>>

IdleExit ==
  /\ At("idle")
  /\ IF age.idle >= Idle THEN EndLoop("idle") ELSE Go("select")
  /\ UNCHANGED <<age, baseline, daemon, world>>

Terminated ==
  /\ At("select") /\ EndLoop("signal")
  /\ UNCHANGED <<age, baseline, daemon, world>>

-----------------------------------------------------------------------------
(* The clients, the jobs and the machine. *)

StillRuns == ~ At("ended")
Becomes(c, stage) == client' = [client EXCEPT ![c] = stage]
Called == bound.calls < MaxCalls /\ bound' = [bound EXCEPT !.calls = @ + 1]

Connect(c) ==
  /\ StillRuns /\ daemon.listed /\ client[c] = "away" /\ Called /\ Becomes(c, "queued")
  /\ UNCHANGED <<loop, due, age, baseline, daemon, live, context, free, others, session,
                 replaced, seen>>

\* The flag is read before anything is started.
run_admitted(c) ==
  /\ StillRuns /\ client[c] = "attached" /\ Called
  /\ Becomes(c, IF daemon.refusing THEN "attached" ELSE "admitted")
  /\ UNCHANGED <<loop, due, age, baseline, daemon, live, context, free, others, session,
                 replaced, seen>>

\* The call enters the gate; it works on the context that is there or loads one.
LoadContext(c) ==
  /\ StillRuns /\ client[c] = "admitted"
  /\ Becomes(c, IF context = {} THEN "loading" ELSE "asking")
  /\ context' = IF context = {} THEN {c} ELSE context
  /\ UNCHANGED <<loop, due, age, baseline, daemon, live, free, others, session, replaced, bound,
                 seen>>

\* What a call or a job allocated for itself stays with the allocator.
Garbage == free' \in {free, Least(free + 1, MaxFree)}
AnalysisEnds(c) ==
  /\ StillRuns /\ Working(c) /\ Becomes(c, "attached") /\ Garbage
  /\ UNCHANGED <<loop, due, age, baseline, daemon, live, context, others, session, replaced,
                 bound, seen>>

\* An index job holds the lock of its workspace and uses a session.
IndexStarts(c) ==
  /\ StillRuns /\ client[c] = "attached" /\ Called /\ Becomes(c, "indexing")
  /\ session' = 0
  /\ UNCHANGED <<loop, due, age, baseline, daemon, live, context, free, others, replaced, seen>>
IndexEnds(c) ==
  /\ StillRuns /\ Indexing(c) /\ Becomes(c, "attached") /\ Garbage
  /\ UNCHANGED <<loop, due, age, baseline, daemon, live, context, others, session, replaced,
                 bound, seen>>

\* Mutant: the counter is let go before the mark is set.
Disconnects_CountFirst(c) ==
  /\ StillRuns
  /\ \/ client[c] = "attached" /\ Becomes(c, "leaving") /\ live' = live - 1 /\ UNCHANGED age
     \/ /\ client[c] = "leaving" /\ Becomes(c, "away")
        /\ age' = [age EXCEPT !.idle = 0] /\ UNCHANGED live
  /\ UNCHANGED <<loop, due, baseline, daemon, context, free, others, session, replaced, bound,
                 seen>>

\* The mark, and then the counter.
Disconnects(c) ==
  /\ StillRuns
  /\ \/ client[c] = "attached" /\ Becomes(c, "leaving")
        /\ age' = [age EXCEPT !.idle = 0] /\ UNCHANGED live
     \/ client[c] = "leaving" /\ Becomes(c, "away") /\ live' = live - 1 /\ UNCHANGED age
  /\ UNCHANGED <<loop, due, baseline, daemon, context, free, others, session, replaced, bound,
                 seen>>

\* A background sync uses a session, file after file, and ends after its pass.
SyncUses ==
  /\ StillRuns /\ daemon.sync # "stopped" /\ session # 0 /\ session' = 0
  /\ UNCHANGED <<loop, due, age, baseline, daemon, live, client, context, free, others,
                 replaced, bound, seen>>
SyncEnds ==
  /\ StillRuns /\ daemon.sync = "stopping" /\ daemon' = [daemon EXCEPT !.sync = "stopped"]
  /\ UNCHANGED <<loop, due, age, baseline, live, client, context, free, others, session,
                 replaced, bound, seen>>

Surroundings ==
  /\ StillRuns /\ Called
  /\ \/ others = 0 /\ others' = OthersMb /\ UNCHANGED replaced
     \/ ~ replaced /\ replaced' = TRUE /\ UNCHANGED others
  /\ UNCHANGED <<loop, due, age, baseline, daemon, live, client, context, free, session, seen>>

\* Time passes while the loop sleeps, or waits for the lock of all workspaces.
Older(a, most) == IF a = None THEN None ELSE Least(a + 1, most)
Longest == Grace + 2
TickPasses ==
  /\ bound.ticks < MaxTicks
  /\ (At("select") /\ ~ due) \/ (At("unload") /\ ~ Unlocked)
  /\ due' = At("select") /\ bound' = [bound EXCEPT !.ticks = @ + 1]
  /\ age' = [unload |-> Older(age.unload, Cooldown),
             trim |-> Older(age.trim, GrowthCooldown),
             gc |-> Older(age.gc, GcInterval),
             retire |-> Older(age.retire, Longest),
             idle |-> Older(age.idle, Idle)]
  /\ session' = Older(session, GpuIdle)
  /\ seen' = [seen EXCEPT !.quiet = IF \E c \in Clients : client[c] \notin {"away", "queued", "leaving"}
                                    THEN 0 ELSE Least(@ + 1, Idle)]
  /\ UNCHANGED <<loop, baseline, daemon, live, client, context, free, others, replaced>>

WatchdogInit ==
  /\ client = [c \in Clients |-> "away"] /\ context = {} /\ free = 0 /\ others = 0
  /\ loop = [at |-> "select", why |-> "", action |-> "None",
             reading |-> [rss |-> Base, available |-> MachineMb - Base]]
  /\ due = FALSE /\ live = 0 /\ baseline = Base /\ session = None /\ replaced = FALSE
  /\ age = [unload |-> None, trim |-> None, gc |-> 0, retire |-> None, idle |-> 0]
  /\ daemon = [retiring |-> FALSE, refusing |-> FALSE, listed |-> TRUE, sync |-> "running"]
  /\ bound = [calls |-> 0, ticks |-> 0]
  /\ seen = [held |-> Base, trim |-> None, quiet |-> 0, inside |-> {}]

LoopStep == \/ LoopWakes \/ watchdog_tick \/ Trims \/ RetireAndUnload \/ Acts
            \/ unload_analysis_contexts \/ Housekeeping \/ Exits \/ IdleExit \/ Terminated
ClientStep(c) == \/ Accept(c) \/ Connect(c) \/ run_admitted(c) \/ LoadContext(c) \/ AnalysisEnds(c)
                 \/ IndexStarts(c) \/ IndexEnds(c) \/ Disconnects(c)
WatchdogNext ==
  \/ LoopStep
  \/ \E c \in Clients : ClientStep(c)
  \/ SyncUses \/ SyncEnds \/ Surroundings \/ TickPasses

WatchdogSpec == WatchdogInit /\ [][WatchdogNext]_wdVars

-----------------------------------------------------------------------------
(* What the loop owes its clients. *)

\* A daemon is not retired over memory a trim would have returned: what it held
\* when the loop decided was over the limit, or a trim had just been made
\* (daemon.rs, watchdog_tick).
RetirementIsEarned ==
  At("unload") /\ loop.why = "hard limit" /\ age.retire = 0 /\ loop.action = "RetireAndUnload" =>
    seen.held >= HardMb \/ (seen.trim # None /\ seen.trim < TrimCooldown)

\* A daemon over its hard limit retires at once, however recently it unloaded.
OverTheLimitRetires ==
  At("housekeeping") /\ HardMb > 0 /\ loop.reading.rss >= HardMb => daemon.retiring

\* The daemon ends for want of clients only when none was served for that long
\* (the mark is set before the counter is let go).
IdleExitIsIdle == At("ended") /\ loop.why = "idle" => seen.quiet >= Idle

\* After a retirement over the limit has unloaded, an analysis in memory is that
\* of a call that was under way (RuntimeState::refuse_new_analyses).
RetiredLoadsNothing ==
  loop.why = "hard limit" /\ ~ At("unload") => context \subseteq seen.inside

\* A retired daemon does not go back to sleep past its deadline.
RetiredEnds == daemon.retiring /\ Grace # 0 /\ At("select") /\ ~ due => age.retire < Grace

\* "No daemon outlives the idle timeout once it has been retired, whatever its
\* clients are doing" (daemon.rs, DEFAULT_RETIRE_GRACE_SECS).
NoneOutlivesItsGrace == daemon.retiring /\ Grace # 0 /\ ~ At("ended") => age.retire <= Grace + 1

WatchdogHolds == /\ RetirementIsEarned /\ OverTheLimitRetires /\ IdleExitIsIdle
                 /\ RetiredLoadsNothing /\ RetiredEnds

-----------------------------------------------------------------------------
(* Why it keeps this. *)

Stages == {"select", "memory", "trim", "act", "unload", "housekeeping", "exits", "idle", "ended"}
Reasons == {"", "hard limit", "replaced", "last client left", "deadline", "idle", "signal"}
Attended == {"attached", "admitted", "loading", "asking", "indexing"}
Connected == Attended \cup {"leaving"}
Ages == Nat \cup {None}

Loops == [at : Stages, why : Reasons, action : {"None", "Unload", "RetireAndUnload", "undecided"},
          reading : [rss : Int, available : Int]]
Marks == [unload : Ages, trim : Ages, gc : Nat, retire : Ages, idle : Nat]
Promises == [retiring : BOOLEAN, refusing : BOOLEAN, listed : BOOLEAN,
             sync : {"running", "stopping", "stopped"}]
Histories == [held : Int, trim : Ages, quiet : Nat, inside : SUBSET Clients]

\* The types of the loop's state, of its clients and of the history.
WatchdogTypeOK ==
  /\ loop \in Loops /\ due \in BOOLEAN /\ age \in Marks /\ baseline \in Int
  /\ daemon \in Promises /\ live \in Nat
  /\ client \in [Clients -> Connected \cup {"away", "queued"}]
  /\ context \subseteq Clients /\ free \in Nat /\ others \in Nat
  /\ session \in Ages /\ replaced \in BOOLEAN
  /\ bound \in [calls : Nat, ticks : Nat] /\ seen \in Histories

\* What was decided was decided on the reading that is kept: a retirement was
\* earned then, and a reading over the hard limit asks for one.
DecisionStands ==
  /\ loop.action = "undecided" => At("trim")
  /\ loop.action = "RetireAndUnload" /\ loop.at \in {"trim", "act", "unload"} =>
       seen.held >= HardMb \/ (seen.trim # None /\ seen.trim < TrimCooldown)
  /\ HardMb > 0 /\ loop.reading.rss >= HardMb /\ ~ daemon.retiring =>
       /\ loop.at \in {"trim", "act"} /\ loop.action # "undecided" => loop.action = "RetireAndUnload"
       /\ loop.at \notin {"unload", "housekeeping"}

\* The counter counts the connections, and while nobody is served the history is
\* no shorter than what the mark says.
ServiceIsMeasured ==
  /\ live = Cardinality({c \in Clients : client[c] \in Connected})
  /\ (\A c \in Clients : client[c] \notin Attended) => seen.quiet >= age.idle
  /\ At("idle") => live = 0

\* A daemon retired over the limit admits nobody.
RefusalHolds ==
  loop.why = "hard limit" =>
    /\ daemon.retiring /\ daemon.refusing
    /\ ~ At("unload") => {c \in Clients : client[c] = "admitted"} \subseteq seen.inside

DeadlineAhead == daemon.retiring /\ Grace # 0 /\ At("idle") => age.retire < Grace

WatchdogInv ==
  /\ WatchdogTypeOK
  /\ DecisionStands /\ ServiceIsMeasured /\ RefusalHolds /\ DeadlineAhead
  /\ WatchdogHolds
=============================================================================
