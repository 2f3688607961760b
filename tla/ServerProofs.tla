---------------------------- MODULE ServerProofs ----------------------------
(***************************************************************************)
(* Proofs about two of the parts the run of MCServer checks: the loop of   *)
(* the daemon (what retires it, when it leaves, what a retired one still   *)
(* loads), and the searches over the table of chunks and the BM25 index,   *)
(* each in the composition that is checked.                                *)
(***************************************************************************)
EXTENDS MCServer, FiniteSetTheorems, TLAPS

-----------------------------------------------------------------------------
(* Types.                                                                  *)

LEMMA FootprintType ==
  ASSUME WatchdogTypeOK
  PROVE  Footprint \in Nat
<1>1. IsFiniteSet({c \in Clients : Indexing(c)})
  BY LimitsAssumption, FS_Subset
<1>2. Cardinality({c \in Clients : Indexing(c)}) \in Nat
  BY <1>1, FS_CardinalityType
<1>3. JobMb * Cardinality({c \in Clients : Indexing(c)}) \in Nat
  BY <1>2, LimitsAssumption
<1> QED
  BY <1>3, LimitsAssumption DEF Footprint

LEMMA ReadingType ==
  ASSUME WatchdogTypeOK, NEW n \in Nat
  PROVE  Reading(n) \in [rss : Int, available : Int]
<1>1. Footprint + n \in Int /\ MachineMb - others - Footprint - n \in Int
  BY FootprintType, LimitsAssumption DEF WatchdogTypeOK
<1> QED
  BY <1>1 DEF Reading

LEMMA DecisionType ==
  ASSUME NEW r, NEW since, NEW retiring
  PROVE  decide_watchdog_action(r, since, retiring) \in {"None", "Unload", "RetireAndUnload"}
  BY DEF decide_watchdog_action

LEMMA LeastType ==
  ASSUME NEW n \in Int, NEW m \in Int
  PROVE  /\ Least(n, m) \in {n, m} /\ Least(n, m) <= n /\ Least(n, m) <= m
  BY DEF Least

LEMMA OlderType ==
  ASSUME NEW m \in Nat
  PROVE  /\ \A n \in Ages : Older(n, m) \in Ages
         /\ \A n \in Nat : Older(n, m) \in Nat
  BY DEF Older, Least, Ages, None

\* The counter of connections is that of a finite set.
LEMMA CountType ==
  ASSUME NEW f
  PROVE  LET C == {c \in Clients : f[c] \in Connected} IN
         IsFiniteSet(C) /\ Cardinality(C) \in Nat
  BY LimitsAssumption, FS_Subset, FS_CardinalityType

-----------------------------------------------------------------------------
(* A change of one client.                                                 *)

\* Whoever comes or goes is counted.
LEMMA CountChanges ==
  ASSUME WatchdogTypeOK, NEW d \in Clients, NEW stage
  PROVE  LET moved == [client EXCEPT ![d] = stage]
             C == {c \in Clients : client[c] \in Connected}
             D == {c \in Clients : moved[c] \in Connected}
         IN  /\ client[d] \in Connected /\ stage \in Connected => Cardinality(D) = Cardinality(C)
             /\ client[d] \notin Connected /\ stage \notin Connected => Cardinality(D) = Cardinality(C)
             /\ client[d] \notin Connected /\ stage \in Connected =>
                  Cardinality(D) = Cardinality(C) + 1
             /\ client[d] \in Connected /\ stage \notin Connected =>
                  Cardinality(D) = Cardinality(C) - 1
<1> DEFINE moved == [client EXCEPT ![d] = stage]
           C == {c \in Clients : client[c] \in Connected}
           D == {c \in Clients : moved[c] \in Connected}
<1>1. \A c \in Clients : moved[c] = IF c = d THEN stage ELSE client[c]
  BY DEF WatchdogTypeOK
<1>2. IsFiniteSet(C)
  BY CountType
<1>3. CASE client[d] \in Connected /\ stage \in Connected
  <2>1. D = C
    BY <1>1, <1>3
  <2> QED
    BY <1>3, <2>1
<1>4. CASE client[d] \notin Connected /\ stage \notin Connected
  <2>1. D = C
    BY <1>1, <1>4
  <2> QED
    BY <1>4, <2>1
<1>5. CASE client[d] \notin Connected /\ stage \in Connected
  <2>1. D = C \cup {d} /\ d \notin C
    BY <1>1, <1>5
  <2>2. Cardinality(D) = Cardinality(C) + 1
    BY <1>2, <2>1, FS_AddElement
  <2> QED
    BY <1>5, <2>2
<1>6. CASE client[d] \in Connected /\ stage \notin Connected
  <2>1. D = C \ {d} /\ d \in C
    BY <1>1, <1>6
  <2>2. Cardinality(D) = Cardinality(C) - 1
    BY <1>2, <2>1, FS_RemoveElement
  <2> QED
    BY <1>6, <2>2
<1> QED
  BY <1>3, <1>4, <1>5, <1>6

-----------------------------------------------------------------------------
(* The types are kept.                                                     *)

\* What a step may write into the loop's record, the marks and the history.
LEMMA LoopGoes ==
  ASSUME NEW stage \in Stages, loop \in Loops, Go(stage)
  PROVE  loop' \in Loops
  BY DEF Go, Loops

LEMMA LoopEnds ==
  ASSUME NEW why \in Reasons, loop \in Loops, EndLoop(why)
  PROVE  loop' \in Loops
  BY DEF EndLoop, Loops, Stages

LEMMA LoopUpdates ==
  ASSUME NEW lp \in Loops, NEW stage \in Stages
  PROVE  /\ \A why \in Reasons : [lp EXCEPT !.at = stage, !.why = why] \in Loops
         /\ \A act \in {"None", "Unload", "RetireAndUnload", "undecided"},
               r \in [rss : Int, available : Int] :
              /\ [lp EXCEPT !.at = stage, !.action = act, !.reading = r] \in Loops
              /\ [lp EXCEPT !.at = stage, !.reading = r, !.action = act] \in Loops
  BY DEF Loops

LEMMA MarkUpdates ==
  ASSUME NEW mk \in Marks
  PROVE  /\ [mk EXCEPT !.trim = 0] \in Marks /\ [mk EXCEPT !.unload = 0] \in Marks
         /\ [mk EXCEPT !.retire = 0] \in Marks /\ [mk EXCEPT !.idle = 0] \in Marks
         /\ \A x \in Ages, y \in Nat : [mk EXCEPT !.retire = x, !.gc = y] \in Marks
<1>1. 0 \in Ages /\ 0 \in Nat
  BY DEF Ages
<1> QED
  BY <1>1 DEF Marks

LEMMA HistoryUpdates ==
  ASSUME NEW hs \in Histories
  PROVE  /\ \A n \in Int : [hs EXCEPT !.held = n] \in Histories
         /\ \A n \in Int, m \in Ages : [hs EXCEPT !.held = n, !.trim = m] \in Histories
         /\ \A n \in Nat : [hs EXCEPT !.quiet = n] \in Histories
         /\ \A C \in SUBSET Clients : [hs EXCEPT !.inside = C] \in Histories
  BY DEF Histories

LEMMA TypesOfLoop ==
  ASSUME WatchdogTypeOK, LoopStep
  PROVE  WatchdogTypeOK'
<1> USE DEF WatchdogTypeOK
<1>1. CASE LoopWakes
  BY <1>1, LoopGoes DEF LoopWakes, Stages
<1>2. CASE watchdog_tick
  <2> DEFINE raw == decide_watchdog_action(Reading(free), age.unload, daemon.retiring)
             trim == raw # "None" /\ Over(age.trim, TrimCooldown)
             growth == ~ trim /\ growth_trim_is_due(Reading(free).rss, baseline, age.trim)
  <2>1. Reading(free) \in [rss : Int, available : Int] /\ Footprint \in Int
    BY ReadingType, FootprintType
  <2>2. raw \in {"None", "Unload", "RetireAndUnload"}
    BY DecisionType
  <2>3. loop' \in Loops
    <3>1. loop' = [loop EXCEPT !.at = IF trim \/ growth THEN "trim" ELSE "act",
                               !.action = IF trim THEN "undecided" ELSE raw,
                               !.reading = Reading(free)]
      BY <1>2 DEF watchdog_tick
    <3>2. (IF trim \/ growth THEN "trim" ELSE "act") \in Stages
      BY DEF Stages
    <3>3. (IF trim THEN "undecided" ELSE raw) \in {"None", "Unload", "RetireAndUnload", "undecided"}
      BY <2>2
    <3> HIDE DEF raw, trim, growth
    <3> QED
      BY <2>1, <3>1, <3>2, <3>3, LoopUpdates
  <2>4. baseline' \in Int
    <3>1. Reading(free).rss \in Int
      BY <2>1
    <3> QED
      BY <1>2, <3>1, LeastType DEF watchdog_tick
  <2>5. seen' \in Histories
    <3>1. age.trim \in Ages
      BY DEF Marks
    <3> QED
      BY <1>2, <2>1, <3>1, HistoryUpdates DEF watchdog_tick
  <2> QED
    BY <1>2, <2>3, <2>4, <2>5 DEF watchdog_tick
<1>3. CASE Trims
  <2>1. Reading(0) \in [rss : Int, available : Int] /\ Footprint \in Int
    BY ReadingType, FootprintType
  <2>2. loop' \in Loops
    <3>1. decide_watchdog_action(Reading(0), age.unload, daemon.retiring)
            \in {"None", "Unload", "RetireAndUnload", "undecided"}
      BY DecisionType
    <3>2. CASE loop.action = "undecided"
      <4>1. loop' = [loop EXCEPT !.at = "act", !.reading = Reading(0),
                       !.action = decide_watchdog_action(Reading(0), age.unload, daemon.retiring)]
        BY <1>3, <3>2 DEF Trims
      <4> QED
        BY <2>1, <3>1, <4>1, LoopUpdates DEF Stages
    <3>3. CASE loop.action # "undecided"
      BY <1>3, <3>3, LoopGoes DEF Trims, Stages
    <3> QED
      BY <3>2, <3>3
  <2>3. seen' \in Histories
    BY <1>3, <2>1, HistoryUpdates, ZenonT(60) DEF Trims
  <2>4. age' \in Marks /\ baseline' \in Int /\ free' \in Nat
    BY <1>3, <2>1, MarkUpdates DEF Trims
  <2> QED
    BY <1>3, <2>2, <2>3, <2>4 DEF Trims
<1>4. CASE RetireAndUnload
  <2>1. loop' \in Loops
    BY <1>4, LoopUpdates DEF RetireAndUnload, Stages, Reasons
  <2>2. daemon' \in Promises
    BY <1>4 DEF RetireAndUnload, Promises
  <2> QED
    BY <1>4, <2>1, <2>2, MarkUpdates DEF RetireAndUnload, world
<1>5. CASE Acts
  BY <1>5, LoopGoes DEF Acts, Stages, world
<1>6. CASE unload_analysis_contexts
  BY <1>6, LoopGoes, MarkUpdates, HistoryUpdates DEF unload_analysis_contexts, Stages
<1>7. CASE Housekeeping
  <2>1. loop' \in Loops
    <3>1. loop.why \in Reasons
      BY DEF Loops
    <3> QED
      BY <1>7, <3>1, LoopUpdates DEF Housekeeping, Stages, Reasons
  <2>2. daemon' \in Promises
    BY <1>7 DEF Housekeeping, Promises
  <2>3. age' \in Marks
    <3>1. age.retire \in Ages /\ age.gc \in Nat /\ 0 \in Ages
      BY DEF Marks, Ages
    <3> QED
      BY <1>7, <3>1, MarkUpdates DEF Housekeeping
  <2>4. session' \in Ages
    BY <1>7 DEF Housekeeping, Ages
  <2> QED
    BY <1>7, <2>1, <2>2, <2>3, <2>4 DEF Housekeeping
<1>8. CASE Exits
  <2>1. loop' \in Loops
    <3>1. \/ \E why \in Reasons : EndLoop(why)
          \/ \E stage \in Stages : Go(stage)
      BY <1>8 DEF Exits, Stages, Reasons
    <3> QED
      BY <3>1, LoopGoes, LoopEnds
  <2> QED
    BY <1>8, <2>1 DEF Exits, world
<1>9. CASE IdleExit
  <2>1. loop' \in Loops
    <3>1. \/ \E why \in Reasons : EndLoop(why)
          \/ \E stage \in Stages : Go(stage)
      BY <1>9 DEF IdleExit, Stages, Reasons
    <3> QED
      BY <3>1, LoopGoes, LoopEnds
  <2> QED
    BY <1>9, <2>1 DEF IdleExit, world
<1>10. CASE Terminated
  BY <1>10, LoopEnds DEF Terminated, Reasons, world
<1> QED
  BY <1>1, <1>2, <1>3, <1>4, <1>5, <1>6, <1>7, <1>8, <1>9, <1>10 DEF LoopStep

\* Whoever leaves was counted.
LEMMA TypesOfClients ==
  ASSUME WatchdogTypeOK, ServiceIsMeasured, NEW c \in Clients, ClientStep(c)
  PROVE  WatchdogTypeOK'
<1> USE DEF WatchdogTypeOK
<1>0. \A stage \in Connected \cup {"away", "queued"} :
        [client EXCEPT ![c] = stage] \in [Clients -> Connected \cup {"away", "queued"}]
  OBVIOUS
<1>9. \A n \in Nat : [bound EXCEPT !.calls = n] \in [calls : Nat, ticks : Nat]
  OBVIOUS
<1>10. bound.calls + 1 \in Nat
  OBVIOUS
<1>11. free' \in {free, Least(free + 1, MaxFree)} => free' \in Nat
  BY LimitsAssumption DEF Least
<1>1. CASE Accept(c)
  <2>1. loop' \in Loops /\ seen' \in Histories /\ live' \in Nat
    <3>1. Go("memory") /\ "memory" \in Stages
      BY <1>1 DEF Accept, Stages
    <3>2. loop' \in Loops
      BY <3>1, LoopGoes
    <3>3. seen' \in Histories
      BY <1>1, HistoryUpdates DEF Accept
    <3> QED
      BY <1>1, <3>2, <3>3 DEF Accept
  <2>2. client' \in [Clients -> Connected \cup {"away", "queued"}]
    BY <1>0, <1>1 DEF Accept, Connected, Attended
  <2> QED
    BY <1>1, <2>1, <2>2 DEF Accept
<1>2. CASE Connect(c)
  BY <1>0, <1>9, <1>10, <1>2 DEF Connect, Becomes, Called
<1>3. CASE run_admitted(c)
  BY <1>0, <1>9, <1>10, <1>3 DEF run_admitted, Becomes, Called, Connected, Attended
<1>4. CASE LoadContext(c)
  BY <1>0, <1>4 DEF LoadContext, Becomes, Connected, Attended
<1>5. CASE AnalysisEnds(c)
  BY <1>0, <1>11, <1>5 DEF AnalysisEnds, Becomes, Garbage, Connected, Attended
<1>6. CASE IndexStarts(c)
  BY <1>0, <1>9, <1>10, <1>6 DEF IndexStarts, Becomes, Called, Connected, Attended, Ages
<1>7. CASE IndexEnds(c)
  BY <1>0, <1>11, <1>7 DEF IndexEnds, Becomes, Garbage, Connected, Attended
<1>8. CASE Disconnects(c)
  <2>1. age' \in Marks
    BY <1>8, MarkUpdates DEF Disconnects
  <2>2. client' \in [Clients -> Connected \cup {"away", "queued"}]
    BY <1>0, <1>8 DEF Disconnects, Becomes, Connected
  <2>3. live' \in Nat
    <3>1. CASE client[c] = "leaving"
      <4> DEFINE C == {d \in Clients : client[d] \in Connected}
      <4>1. c \in C /\ IsFiniteSet(C) /\ Cardinality(C) \in Nat
        BY <3>1, CountType DEF Connected
      <4>2. Cardinality(C) # 0
        BY <4>1, FS_EmptySet
      <4> QED
        BY <1>8, <3>1, <4>1, <4>2 DEF Disconnects, ServiceIsMeasured
    <3>2. CASE client[c] # "leaving"
      BY <1>8, <3>2 DEF Disconnects
    <3> QED
      BY <3>1, <3>2
  <2> QED
    BY <1>8, <2>1, <2>2, <2>3 DEF Disconnects
<1> QED
  BY <1>1, <1>2, <1>3, <1>4, <1>5, <1>6, <1>7, <1>8 DEF ClientStep

LEMMA TypesOfOthers ==
  ASSUME WatchdogTypeOK, SyncUses \/ SyncEnds \/ Surroundings \/ TickPasses
  PROVE  WatchdogTypeOK'
<1> USE DEF WatchdogTypeOK
<1>1. CASE SyncUses
  BY <1>1 DEF SyncUses, Ages
<1>2. CASE SyncEnds
  <2>1. daemon' \in Promises
    BY <1>2 DEF SyncEnds, Promises
  <2> QED
    BY <1>2, <2>1 DEF SyncEnds
<1>3. CASE Surroundings
  <2>1. bound' \in [calls : Nat, ticks : Nat]
    BY <1>3 DEF Surroundings, Called
  <2> QED
    BY <1>3, <2>1, LimitsAssumption DEF Surroundings
<1>4. CASE TickPasses
  <2>1. age' \in Marks
    <3>1. /\ Cooldown \in Nat /\ GrowthCooldown \in Nat /\ GcInterval \in Nat
          /\ Longest \in Nat /\ Idle \in Nat
      BY LimitsAssumption DEF Longest
    <3>2. /\ Older(age.unload, Cooldown) \in Ages /\ Older(age.trim, GrowthCooldown) \in Ages
          /\ Older(age.gc, GcInterval) \in Nat /\ Older(age.retire, Longest) \in Ages
          /\ Older(age.idle, Idle) \in Nat
      BY <3>1, OlderType DEF Marks
    <3> QED
      BY <1>4, <3>2 DEF TickPasses, Marks
  <2>2. session' \in Ages
    BY <1>4, OlderType, LimitsAssumption DEF TickPasses
  <2>3. seen' \in Histories
    <3>1. seen.quiet \in Nat
      BY DEF Histories
    <3>2. Least(seen.quiet + 1, Idle) \in Nat
      BY <3>1, LimitsAssumption DEF Least
    <3> QED
      BY <1>4, <3>2, HistoryUpdates DEF TickPasses
  <2>4. bound' \in [calls : Nat, ticks : Nat]
    BY <1>4 DEF TickPasses
  <2>5. due' \in BOOLEAN
    BY <1>4 DEF TickPasses, At
  <2> QED
    BY <1>4, <2>1, <2>2, <2>3, <2>4, <2>5 DEF TickPasses
<1> QED
  BY <1>1, <1>2, <1>3, <1>4

-----------------------------------------------------------------------------
(* What the steps of the clients and of the world leave alone.             *)

WorldStep == SyncUses \/ SyncEnds \/ Surroundings

\* The loop sleeps or stands while they go on, but for the accept of a client.
LEMMA ClientsLeaveAlone ==
  ASSUME WatchdogTypeOK, NEW c \in Clients, ClientStep(c)
  PROVE  /\ \/ UNCHANGED <<loop, due>>
            \/ At("select") /\ loop' = [loop EXCEPT !.at = "memory"] /\ ~ due'
         /\ seen'.held = seen.held /\ seen'.trim = seen.trim /\ seen'.inside = seen.inside
         /\ daemon' = daemon
         /\ age'.retire = age.retire
         /\ ~ At("ended")
<1> USE DEF WatchdogTypeOK
<1>1. CASE Accept(c)
  BY <1>1 DEF Accept, Go, At, Histories
<1>2. CASE Connect(c)
  BY <1>2 DEF Connect, StillRuns
<1>3. CASE run_admitted(c)
  BY <1>3 DEF run_admitted, StillRuns
<1>4. CASE LoadContext(c)
  BY <1>4 DEF LoadContext, StillRuns
<1>5. CASE AnalysisEnds(c)
  BY <1>5 DEF AnalysisEnds, StillRuns
<1>6. CASE IndexStarts(c)
  BY <1>6 DEF IndexStarts, StillRuns
<1>7. CASE IndexEnds(c)
  BY <1>7 DEF IndexEnds, StillRuns
<1>8. CASE Disconnects(c)
  BY <1>8 DEF Disconnects, StillRuns, Marks
<1> QED
  BY <1>1, <1>2, <1>3, <1>4, <1>5, <1>6, <1>7, <1>8 DEF ClientStep

LEMMA WorldLeavesAlone ==
  ASSUME WatchdogTypeOK, WorldStep
  PROVE  /\ UNCHANGED <<loop, due, seen, age, live, client, context>>
         /\ daemon'.retiring = daemon.retiring /\ daemon'.refusing = daemon.refusing
         /\ ~ At("ended")
<1>1. CASE SyncUses
  BY <1>1 DEF SyncUses, StillRuns
<1>2. CASE SyncEnds
  BY <1>2 DEF SyncEnds, StillRuns, WatchdogTypeOK, Promises
<1>3. CASE Surroundings
  BY <1>3 DEF Surroundings, StillRuns
<1> QED
  BY <1>1, <1>2, <1>3 DEF WorldStep

-----------------------------------------------------------------------------
(* Decisions.                                                              *)

\* A retirement is decided on a reading over the limit, and only then.
LEMMA DecisionRule ==
  ASSUME NEW r, NEW since, NEW retiring \in BOOLEAN
  PROVE  /\ decide_watchdog_action(r, since, retiring) = "RetireAndUnload" => r.rss >= HardMb
         /\ HardMb > 0 /\ r.rss >= HardMb /\ ~ retiring =>
              decide_watchdog_action(r, since, retiring) = "RetireAndUnload"
  BY DEF decide_watchdog_action

LEMMA DecisionsOfLoop ==
  ASSUME WatchdogTypeOK, DecisionStands, LoopStep
  PROVE  DecisionStands'
<1> USE DEF WatchdogTypeOK
<1>1. CASE LoopWakes
  BY <1>1 DEF LoopWakes, Go, At, Loops, DecisionStands
<1>2. CASE watchdog_tick
  <2> DEFINE raw == decide_watchdog_action(Reading(free), age.unload, daemon.retiring)
             trim == raw # "None" /\ Over(age.trim, TrimCooldown)
             growth == ~ trim /\ growth_trim_is_due(Reading(free).rss, baseline, age.trim)
  <2>1. /\ loop'.at = IF trim \/ growth THEN "trim" ELSE "act"
        /\ loop'.action = IF trim THEN "undecided" ELSE raw
        /\ loop'.reading = Reading(free)
        /\ seen'.trim = age.trim /\ daemon' = daemon
    BY <1>2 DEF watchdog_tick, Loops, Histories
  <2>2. raw \in {"None", "Unload", "RetireAndUnload"}
    BY DecisionType
  <2>3. HardMb > 0 /\ Reading(free).rss >= HardMb /\ ~ daemon.retiring => raw = "RetireAndUnload"
    BY DecisionRule DEF Promises
  <2>4. ~ trim /\ raw = "RetireAndUnload" => age.trim # None /\ age.trim < TrimCooldown
    <3>1. age.trim \in Int /\ TrimCooldown \in Int
      BY LimitsAssumption DEF Marks, Ages, None
    <3> QED
      BY <3>1 DEF Over
  <2> HIDE DEF raw, trim, growth
  <2>5. loop'.action = "undecided" => loop'.at = "trim"
    BY <2>1, <2>2
  <2>6. loop'.action = "RetireAndUnload" => seen'.trim # None /\ seen'.trim < TrimCooldown
    BY <2>1, <2>2, <2>4
  <2>7. loop'.at \in {"trim", "act"}
    BY <2>1
  <2> QED
    BY <2>1, <2>2, <2>3, <2>5, <2>6, <2>7 DEF DecisionStands, At
<1>3. CASE Trims
  <2> DEFINE act == decide_watchdog_action(Reading(0), age.unload, daemon.retiring)
  <2>1. CASE loop.action = "undecided"
    <3>1. /\ loop'.at = "act" /\ loop'.action = act /\ loop'.reading = Reading(0)
          /\ seen'.held = Footprint /\ daemon' = daemon
      BY <1>3, <2>1 DEF Trims, Loops, Histories
    <3>2. act \in {"None", "Unload", "RetireAndUnload"}
      BY DecisionType
    <3>3. /\ act = "RetireAndUnload" => Reading(0).rss >= HardMb
          /\ HardMb > 0 /\ Reading(0).rss >= HardMb /\ ~ daemon.retiring => act = "RetireAndUnload"
      BY DecisionRule DEF Promises
    <3>4. Reading(0).rss = Footprint
      BY FootprintType DEF Reading
    <3> HIDE DEF act
    <3> QED
      BY <3>1, <3>2, <3>3, <3>4 DEF DecisionStands, At
  <2>2. CASE loop.action # "undecided"
    BY <1>3, <2>2 DEF Trims, Go, At, Loops, DecisionStands
  <2> QED
    BY <2>1, <2>2
<1>4. CASE RetireAndUnload
  BY <1>4 DEF RetireAndUnload, At, world, Loops, Promises, DecisionStands
<1>5. CASE Acts
  BY <1>5 DEF Acts, Go, At, world, Loops, DecisionStands
<1>6. CASE unload_analysis_contexts
  BY <1>6 DEF unload_analysis_contexts, Go, At, Loops, Histories, DecisionStands
<1>7. CASE Housekeeping
  <2>1. /\ loop'.at = "exits" /\ loop'.action = loop.action /\ loop'.reading = loop.reading
        /\ loop.at = "housekeeping"
    BY <1>7 DEF Housekeeping, At, Loops
  <2> QED
    BY <2>1 DEF DecisionStands, At
<1>8. CASE Exits
  <2>1. /\ loop'.at \in {"ended", "idle", "select"} /\ loop'.action = loop.action
        /\ loop.at = "exits"
    BY <1>8 DEF Exits, Go, EndLoop, At, Loops
  <2> QED
    BY <2>1 DEF DecisionStands, At
<1>9. CASE IdleExit
  <2>1. loop'.at \in {"ended", "select"} /\ loop'.action = loop.action /\ loop.at = "idle"
    BY <1>9 DEF IdleExit, Go, EndLoop, At, Loops
  <2> QED
    BY <2>1 DEF DecisionStands, At
<1>10. CASE Terminated
  <2>1. loop'.at = "ended" /\ loop'.action = loop.action /\ loop.at = "select"
    BY <1>10 DEF Terminated, EndLoop, At, Loops
  <2> QED
    BY <2>1 DEF DecisionStands, At
<1> QED
  BY <1>1, <1>2, <1>3, <1>4, <1>5, <1>6, <1>7, <1>8, <1>9, <1>10 DEF LoopStep

LEMMA DecisionsOfOthers ==
  ASSUME WatchdogTypeOK, DecisionStands,
         WorldStep \/ TickPasses \/ \E c \in Clients : ClientStep(c)
  PROVE  DecisionStands'
<1>1. ASSUME NEW c \in Clients, ClientStep(c)
      PROVE  DecisionStands'
  <2>1. CASE UNCHANGED <<loop, due>>
    BY <1>1, <2>1, ClientsLeaveAlone DEF DecisionStands, At
  <2>2. CASE At("select") /\ loop' = [loop EXCEPT !.at = "memory"]
    BY <1>1, <2>2, ClientsLeaveAlone DEF DecisionStands, At, WatchdogTypeOK, Loops
  <2> QED
    BY <1>1, <2>1, <2>2, ClientsLeaveAlone
<1>2. CASE WorldStep
  BY <1>2, WorldLeavesAlone DEF DecisionStands, At
<1>3. CASE TickPasses
  BY <1>3 DEF TickPasses, DecisionStands, At, WatchdogTypeOK, Histories
<1> QED
  BY <1>1, <1>2, <1>3

-----------------------------------------------------------------------------
(* Connections and silence.                                                *)

\* Without a connection nobody is served.
LEMMA NoneIsServed ==
  ASSUME ServiceIsMeasured, live = 0
  PROVE  \A c \in Clients : client[c] \notin Connected
<1> DEFINE C == {c \in Clients : client[c] \in Connected}
<1>1. IsFiniteSet(C) /\ Cardinality(C) = 0
  BY CountType DEF ServiceIsMeasured
<1>2. C = {}
  BY <1>1, FS_EmptySet
<1> QED
  BY <1>2

LEMMA ServiceInLoop ==
  ASSUME WatchdogTypeOK, ServiceIsMeasured, LoopStep
  PROVE  ServiceIsMeasured'
<1> USE DEF WatchdogTypeOK
<1>1. UNCHANGED <<client, live>>
  BY DEF LoopStep, LoopWakes, watchdog_tick, Trims, RetireAndUnload, Acts,
         unload_analysis_contexts, Housekeeping, Exits, IdleExit, Terminated, world
<1>2. age'.idle = age.idle
  BY DEF LoopStep, LoopWakes, watchdog_tick, Trims, RetireAndUnload, Acts,
         unload_analysis_contexts, Housekeeping, Exits, IdleExit, Terminated, world, Marks
<1>3. seen'.quiet = seen.quiet
  BY DEF LoopStep, LoopWakes, watchdog_tick, Trims, RetireAndUnload, Acts,
         unload_analysis_contexts, Housekeeping, Exits, IdleExit, Terminated, world, Histories
<1>4. loop'.at = "idle" => live = 0
  BY DEF LoopStep, LoopWakes, watchdog_tick, Trims, RetireAndUnload, Acts,
         unload_analysis_contexts, Housekeeping, Exits, IdleExit, Terminated, Go, EndLoop, Loops
<1> QED
  BY <1>1, <1>2, <1>3, <1>4 DEF ServiceIsMeasured, At

LEMMA ServiceOfClients ==
  ASSUME WatchdogTypeOK, ServiceIsMeasured, NEW c \in Clients, ClientStep(c)
  PROVE  ServiceIsMeasured'
<1> USE DEF WatchdogTypeOK
<1> DEFINE Counted == Cardinality({d \in Clients : client[d] \in Connected})
           NewCount == Cardinality({d \in Clients : client'[d] \in Connected})
           Nobody == \A d \in Clients : client[d] \notin Attended
           Nobody2 == \A d \in Clients : client'[d] \notin Attended
<1>0. Counted \in Nat /\ live = Counted /\ (Nobody => seen.quiet >= age.idle)
  BY CountType DEF ServiceIsMeasured
<1>2. /\ client[c] \in Connected /\ client'[c] \in Connected => NewCount = Counted
      /\ client[c] \notin Connected /\ client'[c] \notin Connected => NewCount = Counted
      /\ client[c] \notin Connected /\ client'[c] \in Connected => NewCount = Counted + 1
      /\ client[c] \in Connected /\ client'[c] \notin Connected => NewCount = Counted - 1
      /\ \A d \in Clients \ {c} : client'[d] = client[d]
  <2>1. PICK stage : client' = [client EXCEPT ![c] = stage]
    BY DEF ClientStep, Accept, Connect, run_admitted, LoadContext, AnalysisEnds, IndexStarts,
           IndexEnds, Disconnects, Becomes
  <2>2. client'[c] = stage /\ \A d \in Clients \ {c} : client'[d] = client[d]
    BY <2>1
  <2> QED
    BY <2>1, <2>2, CountChanges
<1> HIDE DEF Counted, NewCount
<1>1. /\ live' = NewCount
      /\ Nobody2 => seen'.quiet >= age'.idle
      /\ loop'.at = "idle" => live' = 0
  <2>1. CASE Accept(c)
    <3>1. client[c] = "queued" /\ client'[c] = "attached" /\ live' = live + 1 /\ loop'.at = "memory"
      BY <2>1 DEF Accept, Go, Loops
    <3> QED
      BY <3>1, <1>0, <1>2 DEF Connected, Attended
  <2>2. CASE Connect(c)
    <3>1. /\ client[c] = "away" /\ client'[c] = "queued" /\ UNCHANGED <<live, loop, age, seen>>
      BY <2>2 DEF Connect, Becomes
    <3>2. Nobody2 => Nobody
      BY <3>1, <1>2 DEF Attended
    <3> QED
      BY <3>1, <3>2, <1>0, <1>2 DEF Connected, Attended, ServiceIsMeasured, At
  <2>3. CASE run_admitted(c) \/ LoadContext(c) \/ AnalysisEnds(c) \/ IndexStarts(c) \/ IndexEnds(c)
    <3>1. client[c] \in Attended /\ client'[c] \in Attended /\ UNCHANGED <<live, loop>>
      BY <2>3 DEF run_admitted, LoadContext, AnalysisEnds, IndexStarts, IndexEnds, Becomes, Working,
                  Indexing, Attended
    <3> QED
      BY <3>1, <1>0, <1>2 DEF Connected, ServiceIsMeasured, At
  <2>4. CASE Disconnects(c)
    <3>1. CASE client[c] = "attached"
      <4>1. /\ client'[c] = "leaving" /\ UNCHANGED <<live, loop, seen>> /\ age'.idle = 0
            /\ seen.quiet >= 0
        BY <2>4, <3>1 DEF Disconnects, Becomes, Marks, Histories
      <4> QED
        BY <3>1, <4>1, <1>0, <1>2 DEF Connected, Attended, ServiceIsMeasured, At
    <3>2. CASE client[c] # "attached"
      <4>1. /\ client[c] = "leaving" /\ client'[c] = "away" /\ live' = live - 1
            /\ UNCHANGED <<loop, seen, age>>
        BY <2>4, <3>2 DEF Disconnects, Becomes
      <4>2. live # 0
        BY <4>1, NoneIsServed DEF Connected
      <4>3. loop.at # "idle"
        BY <4>2 DEF ServiceIsMeasured, At
      <4>4. Nobody2 => Nobody
        BY <4>1, <1>2 DEF Attended
      <4> QED
        BY <4>1, <4>3, <4>4, <1>0, <1>2 DEF Connected, Attended
    <3> QED
      BY <3>1, <3>2
  <2> QED
    BY <2>1, <2>2, <2>3, <2>4 DEF ClientStep
<1> QED
  BY <1>1 DEF ServiceIsMeasured, At, NewCount

LEMMA ServiceOfOthers ==
  ASSUME WatchdogTypeOK, ServiceIsMeasured, WorldStep \/ TickPasses
  PROVE  ServiceIsMeasured'
<1>1. CASE WorldStep
  BY <1>1, WorldLeavesAlone DEF ServiceIsMeasured, At
<1>2. CASE TickPasses
  <2>1. UNCHANGED <<client, live, loop>>
    BY <1>2 DEF TickPasses
  <2>2. ASSUME \A c \in Clients : client[c] \notin Attended
        PROVE  seen'.quiet >= age'.idle
    <3>1. ~ \E c \in Clients : client[c] \notin {"away", "queued", "leaving"}
      BY <2>2 DEF WatchdogTypeOK, Connected, Attended
    <3>2. seen'.quiet = Least(seen.quiet + 1, Idle) /\ age'.idle = Older(age.idle, Idle)
      BY <1>2, <3>1 DEF TickPasses, WatchdogTypeOK, Histories
    <3>3. seen.quiet >= age.idle /\ seen.quiet \in Nat /\ age.idle \in Nat /\ Idle \in Nat
      BY <2>2, LimitsAssumption DEF ServiceIsMeasured, WatchdogTypeOK, Histories, Marks
    <3> QED
      BY <3>2, <3>3 DEF Older, Least, None
  <2> QED
    BY <2>1, <2>2 DEF ServiceIsMeasured, At
<1> QED
  BY <1>1, <1>2

-----------------------------------------------------------------------------
(* Refusal, deadline and the idle exit.                                    *)

EndsHold == RefusalHolds /\ RetiredLoadsNothing /\ DeadlineAhead /\ RetiredEnds /\ IdleExitIsIdle

LEMMA EndsInLoop ==
  ASSUME WatchdogTypeOK, ServiceIsMeasured, EndsHold, LoopStep
  PROVE  EndsHold'
<1> USE DEF WatchdogTypeOK
<1>1. CASE LoopWakes
  BY <1>1 DEF LoopWakes, Go, At, Loops, EndsHold, RefusalHolds, RetiredLoadsNothing, DeadlineAhead,
              RetiredEnds, IdleExitIsIdle
<1>2. CASE watchdog_tick
  <2>1. /\ loop'.at \in {"trim", "act"} /\ loop'.why = loop.why /\ loop.at = "memory"
        /\ seen'.inside = seen.inside /\ UNCHANGED <<daemon, client, context>>
    BY <1>2 DEF watchdog_tick, At, Loops, Histories
  <2> QED
    BY <2>1 DEF EndsHold, At, RefusalHolds, RetiredLoadsNothing, DeadlineAhead, RetiredEnds,
                IdleExitIsIdle
<1>3. CASE Trims
  <2>1. /\ loop'.at = "act" /\ loop'.why = loop.why /\ loop.at = "trim"
        /\ seen'.inside = seen.inside /\ UNCHANGED <<daemon, client, context>>
    BY <1>3 DEF Trims, Go, At, Loops, Histories
  <2> QED
    BY <2>1 DEF EndsHold, At, RefusalHolds, RetiredLoadsNothing, DeadlineAhead, RetiredEnds,
                IdleExitIsIdle
<1>4. CASE RetireAndUnload
  <2>1. loop'.at = "unload" /\ daemon'.retiring /\ daemon'.refusing
    BY <1>4 DEF RetireAndUnload, Loops, Promises
  <2> QED
    BY <2>1 DEF EndsHold, At, RefusalHolds, RetiredLoadsNothing, DeadlineAhead, RetiredEnds,
                IdleExitIsIdle
<1>5. CASE Acts
  <2>1. /\ loop'.at \in {"unload", "housekeeping"} /\ loop'.why = loop.why /\ loop.at = "act"
        /\ UNCHANGED <<daemon, client, context, seen>>
    BY <1>5 DEF Acts, Go, At, world, Loops
  <2> QED
    BY <2>1 DEF EndsHold, At, RefusalHolds, RetiredLoadsNothing, DeadlineAhead, RetiredEnds,
                IdleExitIsIdle
<1>6. CASE unload_analysis_contexts
  <2>1. /\ loop'.at = "housekeeping" /\ loop'.why = loop.why /\ UNCHANGED <<daemon, client>>
        /\ context' = {}
        /\ seen'.inside = {c \in Clients : client[c] \in {"admitted", "loading"}}
    BY <1>6 DEF unload_analysis_contexts, Go, Loops, Histories
  <2> QED
    BY <2>1 DEF EndsHold, At, RefusalHolds, RetiredLoadsNothing, DeadlineAhead, RetiredEnds,
                IdleExitIsIdle
<1>7. CASE Housekeeping
  <2>1. /\ loop'.at = "exits" /\ loop.at = "housekeeping"
        /\ loop'.why \in {loop.why, "replaced"} /\ UNCHANGED <<client, context, seen>>
        /\ daemon.retiring => daemon' = daemon
        /\ loop'.why = loop.why \/ ~ daemon.retiring
    BY <1>7 DEF Housekeeping, At, Loops
  <2>2. loop'.why = "hard limit" => loop.why = "hard limit" /\ daemon' = daemon
    <3>1. CASE loop.why = "hard limit"
      BY <2>1, <3>1 DEF EndsHold, RefusalHolds
    <3>2. CASE loop.why # "hard limit"
      BY <2>1, <3>2
    <3> QED
      BY <3>1, <3>2
  <2> QED
    BY <2>1, <2>2 DEF EndsHold, At, RefusalHolds, RetiredLoadsNothing, DeadlineAhead, RetiredEnds,
                IdleExitIsIdle
<1>8. CASE Exits
  <2>1. /\ loop.at = "exits" /\ UNCHANGED <<age, daemon, client, context, seen, due>>
        /\ loop'.at \in {"ended", "idle", "select"}
        /\ loop'.why \in {loop.why, "last client left", "deadline"}
        /\ loop'.at = "ended" => loop'.why # "idle"
        /\ loop'.at # "ended" => ~ (daemon.retiring /\ retire_grace_expired(age.retire))
    BY <1>8 DEF Exits, Go, EndLoop, At, Loops, world
  <2>2. loop'.at # "ended" /\ daemon.retiring /\ Grace # 0 => age.retire < Grace
    <3>1. age.retire \in Int /\ Grace \in Int /\ (Grace # 0 => Grace > 0)
      BY LimitsAssumption DEF Marks, Ages, None
    <3>2. Grace # 0 /\ ~ retire_grace_expired(age.retire) => age.retire < Grace
      BY <3>1 DEF retire_grace_expired, None
    <3> QED
      BY <2>1, <3>2
  <2> QED
    BY <2>1, <2>2 DEF EndsHold, At, RefusalHolds, RetiredLoadsNothing, DeadlineAhead, RetiredEnds,
                IdleExitIsIdle
<1>9. CASE IdleExit
  <2>1. /\ loop.at = "idle" /\ UNCHANGED <<age, daemon, client, context, seen, due>>
        /\ \/ loop'.at = "select" /\ loop'.why = loop.why
           \/ loop'.at = "ended" /\ loop'.why = "idle" /\ age.idle >= Idle
    BY <1>9 DEF IdleExit, Go, EndLoop, At, Loops, world
  <2>2. seen.quiet >= age.idle
    <3>1. \A c \in Clients : client[c] \notin Attended
      BY <2>1, NoneIsServed DEF ServiceIsMeasured, At, Connected
    <3> QED
      BY <3>1 DEF ServiceIsMeasured
  <2>3. seen.quiet \in Int /\ age.idle \in Int /\ Idle \in Int
    BY LimitsAssumption DEF Histories, Marks
  <2>4. IdleExitIsIdle'
    BY <2>1, <2>2, <2>3 DEF IdleExitIsIdle, At
  <2>5. RefusalHolds' /\ RetiredLoadsNothing'
    BY <2>1 DEF EndsHold, RefusalHolds, RetiredLoadsNothing, At
  <2>6. DeadlineAhead' /\ RetiredEnds'
    BY <2>1 DEF EndsHold, DeadlineAhead, RetiredEnds, At
  <2> QED
    BY <2>4, <2>5, <2>6 DEF EndsHold
<1>10. CASE Terminated
  <2>1. /\ loop'.at = "ended" /\ loop'.why = "signal"
        /\ UNCHANGED <<daemon, client, context, seen>>
    BY <1>10 DEF Terminated, EndLoop, Loops, world
  <2> QED
    BY <2>1 DEF EndsHold, At, RefusalHolds, RetiredLoadsNothing, DeadlineAhead, RetiredEnds,
                IdleExitIsIdle
<1> QED
  BY <1>1, <1>2, <1>3, <1>4, <1>5, <1>6, <1>7, <1>8, <1>9, <1>10 DEF LoopStep

LEMMA EndsOfClients ==
  ASSUME WatchdogTypeOK, EndsHold, NEW c \in Clients, ClientStep(c)
  PROVE  EndsHold'
<1> USE DEF WatchdogTypeOK
<1> DEFINE Admitted == {d \in Clients : client[d] = "admitted"}
           Admitted2 == {d \in Clients : client'[d] = "admitted"}
<1>1. /\ loop'.why = loop.why /\ loop'.at # "ended" /\ (loop'.at = "unload" <=> loop.at = "unload")
      /\ loop'.at = "idle" => loop.at = "idle"
      /\ loop'.at = "select" => loop.at = "select" /\ due' = due
      /\ daemon' = daemon /\ seen'.inside = seen.inside /\ age'.retire = age.retire
  BY ClientsLeaveAlone DEF At, Loops
<1>2. /\ context' \subseteq context \cup Admitted
      /\ daemon.refusing => Admitted2 \subseteq Admitted
  <2>1. CASE Accept(c) \/ Connect(c)
    BY <2>1 DEF Accept, Connect, Becomes
  <2>2. CASE run_admitted(c)
    BY <2>2 DEF run_admitted, Becomes
  <2>3. CASE LoadContext(c)
    BY <2>3 DEF LoadContext, Becomes
  <2>4. CASE AnalysisEnds(c) \/ IndexStarts(c) \/ IndexEnds(c) \/ Disconnects(c)
    BY <2>4 DEF AnalysisEnds, IndexStarts, IndexEnds, Disconnects, Becomes
  <2> QED
    BY <2>1, <2>2, <2>3, <2>4 DEF ClientStep
<1>3. RefusalHolds' /\ RetiredLoadsNothing'
  BY <1>1, <1>2 DEF EndsHold, RefusalHolds, RetiredLoadsNothing, At
<1>4. DeadlineAhead' /\ RetiredEnds' /\ IdleExitIsIdle'
  BY <1>1 DEF EndsHold, DeadlineAhead, RetiredEnds, IdleExitIsIdle, At
<1> QED
  BY <1>3, <1>4 DEF EndsHold

LEMMA EndsOfOthers ==
  ASSUME WatchdogTypeOK, EndsHold, WorldStep \/ TickPasses
  PROVE  EndsHold'
<1>1. CASE WorldStep
  BY <1>1, WorldLeavesAlone DEF EndsHold, RefusalHolds, RetiredLoadsNothing, DeadlineAhead,
     RetiredEnds, IdleExitIsIdle, At
<1>2. CASE TickPasses
  <2>1. /\ UNCHANGED <<loop, daemon, client, context>> /\ seen'.inside = seen.inside
        /\ loop.at \in {"select", "unload"} /\ (loop.at = "select" => due')
    BY <1>2 DEF TickPasses, At, WatchdogTypeOK, Histories
  <2> QED
    BY <2>1 DEF EndsHold, RefusalHolds, RetiredLoadsNothing, DeadlineAhead, RetiredEnds,
                IdleExitIsIdle, At
<1> QED
  BY <1>1, <1>2

-----------------------------------------------------------------------------
(* The theorems, of the component alone and of the composition.            *)

LEMMA WatchdogStarts == WatchdogInit => WatchdogInv
<1> SUFFICES ASSUME WatchdogInit PROVE WatchdogInv
  OBVIOUS
<1>1. WatchdogTypeOK
  <2>1. loop \in Loops
    <3>1. loop = [at |-> "select", why |-> "", action |-> "None",
                  reading |-> [rss |-> Base, available |-> MachineMb - Base]]
      BY DEF WatchdogInit
    <3>2. Base \in Int /\ MachineMb - Base \in Int
      BY LimitsAssumption
    <3> QED
      BY <3>1, <3>2 DEF Loops, Stages, Reasons
  <2>2. age \in Marks /\ session \in Ages
    BY DEF WatchdogInit, Marks, Ages
  <2>3. daemon \in Promises
    BY DEF WatchdogInit, Promises
  <2>4. seen \in Histories
    <3>1. seen = [held |-> Base, trim |-> None, quiet |-> 0, inside |-> {}]
      BY DEF WatchdogInit
    <3>2. Base \in Int /\ None \in Ages
      BY LimitsAssumption DEF Ages
    <3> QED
      BY <3>1, <3>2 DEF Histories
  <2>5. baseline \in Int
    <3>1. baseline = Base
      BY DEF WatchdogInit
    <3> QED
      BY <3>1, LimitsAssumption
  <2>7. live \in Nat /\ context \subseteq Clients /\ free \in Nat /\ others \in Nat
    BY DEF WatchdogInit
  <2>8. due \in BOOLEAN /\ replaced \in BOOLEAN
    BY DEF WatchdogInit
  <2>9. bound \in [calls : Nat, ticks : Nat]
    BY DEF WatchdogInit
  <2>6. client \in [Clients -> Connected \cup {"away", "queued"}]
    BY DEF WatchdogInit
  <2> QED
    BY <2>1, <2>2, <2>3, <2>4, <2>5, <2>8, <2>9, <2>6, <2>7 DEF WatchdogTypeOK
<1>2. DecisionStands
  BY DEF WatchdogInit, DecisionStands, At
<1>3. ServiceIsMeasured
  <2>1. {c \in Clients : client[c] \in Connected} = {}
    BY DEF WatchdogInit, Connected, Attended
  <2>2. live = 0 /\ seen.quiet = 0 /\ age.idle = 0
    BY DEF WatchdogInit
  <2>3. Cardinality({}) = 0
    BY FS_EmptySet
  <2> QED
    BY <2>1, <2>2, <2>3 DEF ServiceIsMeasured
<1>4. RefusalHolds /\ DeadlineAhead
  BY DEF WatchdogInit, RefusalHolds, DeadlineAhead
<1>5. WatchdogHolds
  BY DEF WatchdogInit, WatchdogHolds, RetirementIsEarned, OverTheLimitRetires, IdleExitIsIdle,
     RetiredLoadsNothing, RetiredEnds, At
<1> QED
  BY <1>1, <1>2, <1>3, <1>4, <1>5 DEF WatchdogInv

LEMMA WatchdogGoesOn == WatchdogInv /\ [WatchdogNext]_wdVars => WatchdogInv'
<1> SUFFICES ASSUME WatchdogInv, [WatchdogNext]_wdVars PROVE WatchdogInv'
  OBVIOUS
<1>0. WatchdogTypeOK /\ DecisionStands /\ ServiceIsMeasured /\ EndsHold
  BY DEF WatchdogInv, WatchdogHolds, EndsHold
<1>1. WatchdogTypeOK' /\ DecisionStands' /\ ServiceIsMeasured' /\ EndsHold'
  <2>1. CASE LoopStep
    BY <1>0, <2>1, TypesOfLoop, DecisionsOfLoop, ServiceInLoop, EndsInLoop
  <2>2. ASSUME NEW c \in Clients, ClientStep(c)
        PROVE  WatchdogTypeOK' /\ DecisionStands' /\ ServiceIsMeasured' /\ EndsHold'
    BY <1>0, <2>2, TypesOfClients, DecisionsOfOthers, ServiceOfClients, EndsOfClients
  <2>3. CASE WorldStep \/ TickPasses
    <3>1. SyncUses \/ SyncEnds \/ Surroundings \/ TickPasses
      BY <2>3 DEF WorldStep
    <3> QED
      BY <1>0, <2>3, <3>1, TypesOfOthers, DecisionsOfOthers, ServiceOfOthers, EndsOfOthers
  <2>4. CASE UNCHANGED wdVars
    <3>1. UNCHANGED <<loop, due, age, baseline, daemon, live, client, context, free, others,
                      session, replaced, bound, seen>>
      BY <2>4 DEF wdVars
    <3>2. WatchdogTypeOK' /\ DecisionStands'
      BY <1>0, <3>1 DEF WatchdogTypeOK, DecisionStands, At
    <3>3. ServiceIsMeasured'
      BY <1>0, <3>1 DEF ServiceIsMeasured, At
    <3>4. EndsHold'
      BY <1>0, <3>1 DEF EndsHold, RefusalHolds, RetiredLoadsNothing, DeadlineAhead, RetiredEnds,
         IdleExitIsIdle, At
    <3> QED
      BY <3>2, <3>3, <3>4
  <2> QED
    BY <2>1, <2>2, <2>3, <2>4 DEF WatchdogNext, WorldStep
<1>2. RetirementIsEarned' /\ OverTheLimitRetires'
  BY <1>1 DEF DecisionStands, RetirementIsEarned, OverTheLimitRetires, At
<1> QED
  BY <1>1, <1>2 DEF WatchdogInv, WatchdogHolds, EndsHold

\* The types of the loop's state, its clients and its history, for any clients and
\* limits (run_daemon).
THEOREM LoopTypes == WatchdogSpec => []WatchdogTypeOK
<1>1. WatchdogInv => WatchdogTypeOK
  BY DEF WatchdogInv
<1> QED
  BY <1>1, WatchdogStarts, WatchdogGoesOn, PTL DEF WatchdogSpec

\* What was decided stands, the counter counts the connections, and a daemon that is
\* retired over the limit admits nobody: the inductive invariant (watchdog_tick).
THEOREM LoopInvariant == WatchdogSpec => []WatchdogInv
  BY WatchdogStarts, WatchdogGoesOn, PTL DEF WatchdogSpec

\* A daemon retires over memory only if a trim would not have helped, retires at once
\* when it is over the hard limit, leaves as idle only when nobody was served for that
\* long, loads nothing after it unloaded for good, and goes to sleep retired only ahead
\* of its deadline (decide_watchdog_action, connection_guard, refuse_new_analyses).
THEOREM LoopIsSound == PartsSpec => []WatchdogIsSound
<1> DEFINE Inv == component = "watchdog" => WatchdogInv
<1>1. PartsInit => Inv
  BY WatchdogStarts DEF PartsInit
<1>2. Inv /\ [PartsNext]_partsVars => Inv'
  <2> SUFFICES ASSUME Inv, [PartsNext]_partsVars PROVE Inv'
    OBVIOUS
  <2>1. component' = component
    BY DEF PartsNext, partsVars
  <2>2. component = "watchdog" => [WatchdogNext]_wdVars
    BY DEF PartsNext, partsVars
  <2> QED
    BY <2>1, <2>2, WatchdogGoesOn
<1>3. Inv => WatchdogIsSound
  BY DEF WatchdogInv, WatchdogIsSound
<1> QED
  BY <1>1, <1>2, <1>3, PTL DEF PartsSpec

-----------------------------------------------------------------------------
(* Places in a sequence.                                                   *)

\* Nth numbers the places of a finite set of them in their order.
LEMMA PlacesInOrder ==
  ASSUME NEW n \in Nat, NEW P \in SUBSET (1..n)
  PROVE  /\ IsFiniteSet(P) /\ Cardinality(P) \in 0..n
         /\ \A k \in 1..Cardinality(P) : Nth(P, k) \in P
         /\ \A p \in P : \E k \in 1..Cardinality(P) : p = Nth(P, k)
         /\ \A j, k \in 1..Cardinality(P) : j < k => Nth(P, j) < Nth(P, k)
<1> DEFINE Upto(p) == {x \in P : x <= p}
           C == Cardinality(P)
           rank == [p \in P |-> Cardinality(Upto(p))]
<1>0. \A p \in P : p \in Nat
  OBVIOUS
<1>1. IsFiniteSet(P) /\ C \in 0..n
  <2>1. IsFiniteSet(1..n) /\ Cardinality(1..n) = n
    BY FS_Interval
  <2>2. IsFiniteSet(P) /\ C <= n
    BY <2>1, FS_Subset
  <2>3. C \in Nat
    BY <2>2, FS_CardinalityType
  <2> QED
    BY <2>2, <2>3
<1>2. \A p \in P : IsFiniteSet(Upto(p)) /\ Cardinality(Upto(p)) \in 1..C
  <2> SUFFICES ASSUME NEW p \in P PROVE IsFiniteSet(Upto(p)) /\ Cardinality(Upto(p)) \in 1..C
    OBVIOUS
  <2>1. IsFiniteSet(Upto(p)) /\ Cardinality(Upto(p)) \in Nat /\ Cardinality(Upto(p)) <= C
    BY <1>1, FS_Subset, FS_CardinalityType
  <2>2. Upto(p) # {}
    OBVIOUS
  <2>3. Cardinality(Upto(p)) # 0
    BY <2>1, <2>2, FS_EmptySet
  <2> QED
    BY <1>1, <2>1, <2>3
<1>3. ASSUME NEW p \in P, NEW o \in P, o < p PROVE rank[o] < rank[p]
  <2>0. p \in Nat /\ o \in Nat /\ \A x \in P : x \in Nat
    BY <1>0
  <2>3. o < p
    BY <1>3
  <2>4. p <= p /\ ~ p <= o /\ \A x \in P : x <= o => x <= p
    BY <2>0, <2>3
  <2>1. Upto(o) \subseteq Upto(p) /\ p \in Upto(p) /\ p \notin Upto(o)
    BY <2>4
  <2>2. Cardinality(Upto(o)) <= Cardinality(Upto(p)) /\ Cardinality(Upto(o)) # Cardinality(Upto(p))
    BY <1>2, <2>1, FS_Subset
  <2> QED
    BY <1>2, <2>2
<1>4. rank \in [P -> 1..C]
  BY <1>2
<1> HIDE DEF rank
<1>5. \A p, o \in P : rank[p] = rank[o] => p = o
  BY <1>3, <1>4
<1>6. rank \in Surjection(P, 1..C)
  <2>1. rank \in Injection(P, 1..C)
    BY <1>4, <1>5 DEF Injection, IsInjective
  <2>2. IsFiniteSet(1..C) /\ Cardinality(1..C) = C
    BY <1>1, FS_Interval
  <2> QED
    BY <2>1, <2>2, FS_Injection
<1>7. \A k \in 1..C : Nth(P, k) \in P /\ rank[Nth(P, k)] = k
  <2> TAKE k \in 1..C
  <2>1. \E p \in P : rank[p] = k
    BY <1>6 DEF Surjection
  <2>2. \E p \in P : Cardinality({o \in P : o <= p}) = k
    BY <2>1 DEF rank
  <2>3. Nth(P, k) \in P /\ Cardinality({o \in P : o <= Nth(P, k)}) = k
    BY <2>2 DEF Nth
  <2> QED
    BY <2>3 DEF rank
<1>8. \A p \in P : \E k \in 1..C : p = Nth(P, k)
  BY <1>4, <1>5, <1>7
<1>9. \A j, k \in 1..C : j < k => Nth(P, j) < Nth(P, k)
  <2> HIDE DEF C
  <2> SUFFICES ASSUME NEW j \in 1..C, NEW k \in 1..C, j < k PROVE Nth(P, j) < Nth(P, k)
    OBVIOUS
  <2> DEFINE x == Nth(P, j)
             y == Nth(P, k)
  <2>1. x \in P /\ y \in P /\ rank[x] = j /\ rank[y] = k
    BY <1>7
  <2> HIDE DEF x, y
  <2>2. x \in Nat /\ y \in Nat
    BY <1>0, <2>1
  <2>3. y < x => rank[y] < rank[x]
    BY <1>3, <2>1
  <2>4. x < y
    BY <1>1, <2>1, <2>2, <2>3
  <2> QED
    BY <2>4 DEF x, y
<1> HIDE DEF C
<1> QED
  BY <1>1, <1>7, <1>8, <1>9 DEF C

\* What is picked from a sequence.
LEMMA PickedElements ==
  ASSUME NEW S, NEW s \in Seq(S), NEW P \in SUBSET DOMAIN s
  PROVE  /\ Picked(s, P) \in Seq(S) /\ Len(Picked(s, P)) = Cardinality(P)
         /\ DOMAIN Picked(s, P) = 1..Cardinality(P)
         /\ Cardinality(P) \in 0..Len(s)
         /\ \A k \in 1..Cardinality(P) : Nth(P, k) \in P /\ Picked(s, P)[k] = s[Nth(P, k)]
         /\ \A p \in P : \E k \in 1..Cardinality(P) : p = Nth(P, k)
         /\ \A j, k \in 1..Cardinality(P) : j < k => Nth(P, j) < Nth(P, k)
         /\ \A j, k \in 1..Cardinality(P) : Nth(P, j) = Nth(P, k) => j = k
         /\ ToSet(Picked(s, P)) = {s[p] : p \in P}
<1>1. DOMAIN s = 1..Len(s) /\ Len(s) \in Nat
  OBVIOUS
<1>2. /\ Cardinality(P) \in 0..Len(s)
      /\ \A k \in 1..Cardinality(P) : Nth(P, k) \in P
      /\ \A p \in P : \E k \in 1..Cardinality(P) : p = Nth(P, k)
      /\ \A j, k \in 1..Cardinality(P) : j < k => Nth(P, j) < Nth(P, k)
  BY <1>1, PlacesInOrder
<1>3. Picked(s, P) = [k \in 1..Cardinality(P) |-> s[Nth(P, k)]]
  BY DEF Picked
<1>4. Picked(s, P) \in Seq(S) /\ Len(Picked(s, P)) = Cardinality(P)
  BY <1>1, <1>2, <1>3
<1>5. ToSet(Picked(s, P)) = {s[p] : p \in P}
  BY <1>2, <1>3 DEF ToSet
<1>6. \A j, k \in 1..Cardinality(P) : Nth(P, j) = Nth(P, k) => j = k
  <2> SUFFICES ASSUME NEW j \in 1..Cardinality(P), NEW k \in 1..Cardinality(P), Nth(P, j) = Nth(P, k),
                      j # k
               PROVE  FALSE
    OBVIOUS
  <2>1. Nth(P, j) \in Nat
    BY <1>1, <1>2
  <2>2. j < k \/ k < j
    BY <1>2
  <2> QED
    BY <1>2, <2>1, <2>2
<1> QED
  BY <1>2, <1>3, <1>4, <1>5, <1>6

-----------------------------------------------------------------------------
(* What writes do to the fragments.                                        *)

\* What a delete leaves.
LEMMA DeletesTakeFiles ==
  ASSUME NEW v \in Version, DistinctIds(v), NEW F \in SUBSET Files
  PROVE  LET w == WithoutFiles(v, F) IN
         /\ w \in Version /\ DistinctIds(w)
         /\ Rows(w) = {c \in Rows(v) : c.file \notin F}
         /\ FragIds(w) \subseteq FragIds(v)
         /\ w.scalar = v.scalar /\ w.ann = v.ann /\ w.old = v.old /\ w.made = v.made
<1> DEFINE s == v.frags
           mark(f) == [f EXCEPT !.dead = @ \cup {c \in f.rows : c.file \in F}]
           marked == [i \in DOMAIN s |-> mark(s[i])]
           P == {i \in DOMAIN marked : Live(marked[i]) # {}}
           fs == Picked(marked, P)
           w == WithoutFiles(v, F)
<1>1. s \in Seq(Fragment)
  BY DEF Version
<1>2. \A f \in Fragment : /\ mark(f) \in Fragment /\ mark(f).id = f.id
                          /\ Live(mark(f)) = {c \in Live(f) : c.file \notin F}
  BY DEF Fragment, Live
<1>3. marked \in Seq(Fragment) /\ DOMAIN marked = DOMAIN s /\ \A i \in DOMAIN s : marked[i] = mark(s[i])
  BY <1>1, <1>2
<1>4. w = [v EXCEPT !.frags = fs]
  BY DEF WithoutFiles
<1> HIDE DEF mark, marked, fs, w
<1>5. P \in SUBSET DOMAIN marked
  OBVIOUS
<1> HIDE DEF P
<1>6. fs \in Seq(Fragment) /\ ToSet(fs) = {marked[p] : p \in P}
  BY <1>3, <1>5, PickedElements DEF fs
<1>7. w \in Version /\ w.frags = fs
      /\ w.scalar = v.scalar /\ w.ann = v.ann /\ w.old = v.old /\ w.made = v.made
  BY <1>4, <1>6 DEF Version
<1>8. ToSet(fs) = {mark(f) : f \in {g \in ToSet(s) : Live(mark(g)) # {}}}
  BY <1>3, <1>5, <1>6 DEF P, ToSet
<1>9. ToSet(s) \subseteq Fragment
  BY <1>1 DEF ToSet
<1>10. DistinctIds(w)
  <2>1. /\ DOMAIN fs = 1..Cardinality(P)
        /\ \A k \in 1..Cardinality(P) : Nth(P, k) \in P /\ fs[k] = marked[Nth(P, k)]
        /\ \A j, k \in 1..Cardinality(P) : Nth(P, j) = Nth(P, k) => j = k
    <3>1. marked \in Seq(Fragment)
      BY <1>3
    <3>2. /\ DOMAIN Picked(marked, P) = 1..Cardinality(P)
          /\ \A k \in 1..Cardinality(P) : Nth(P, k) \in P /\ Picked(marked, P)[k] = marked[Nth(P, k)]
      BY <1>5, <3>1, PickedElements
    <3>3. \A j, k \in 1..Cardinality(P) : Nth(P, j) = Nth(P, k) => j = k
      BY <1>5, <3>1, PickedElements
    <3> QED
      BY <3>2, <3>3 DEF fs
  <2>2. \A i \in DOMAIN s : s[i] \in Fragment /\ marked[i].id = s[i].id
    BY <1>1, <1>2, <1>3
  <2>3. \A i, j \in P : marked[i].id = marked[j].id => i = j
    BY <1>3, <1>5, <2>2 DEF DistinctIds
  <2> QED
    BY <1>7, <2>1, <2>3 DEF DistinctIds
<1>11. FragIds(w) \subseteq FragIds(v)
  BY <1>2, <1>7, <1>8, <1>9 DEF FragIds
<1>12. Rows(w) = {c \in Rows(v) : c.file \notin F}
  <2>1. Rows(w) = UNION {Live(f) : f \in ToSet(fs)}
    BY <1>7 DEF Rows
  <2>2. Rows(w) = UNION {Live(mark(f)) : f \in ToSet(s)}
    BY <2>1, <1>8
  <2>3. \A f \in ToSet(s) : Live(mark(f)) = {c \in Live(f) : c.file \notin F}
    BY <1>2, <1>9
  <2> QED
    BY <2>2, <2>3 DEF Rows
<1> QED
  BY <1>7, <1>10, <1>11, <1>12 DEF w

\* A batch is appended.
LEMMA AppendedElements ==
  ASSUME NEW S, NEW s \in Seq(S), NEW e \in S
  PROVE  ToSet(Append(s, e)) = ToSet(s) \cup {e}
<1> DEFINE t == Append(s, e)
<1>1. /\ DOMAIN s = 1..Len(s) /\ Len(s) \in Nat /\ DOMAIN t = 1..(Len(s) + 1)
      /\ \A i \in 1..Len(s) : t[i] = s[i]
      /\ t[Len(s) + 1] = e
  OBVIOUS
<1> HIDE DEF t
<1>2. \A i \in 1..(Len(s) + 1) : i \in 1..Len(s) \/ i = Len(s) + 1
  BY <1>1
<1>3. \A i \in 1..Len(s) : i \in 1..(Len(s) + 1)
  BY <1>1
<1>4. Len(s) + 1 \in 1..(Len(s) + 1)
  BY <1>1
<1>5. ToSet(t) = {t[i] : i \in 1..(Len(s) + 1)} /\ ToSet(s) = {s[i] : i \in 1..Len(s)}
  BY <1>1 DEF ToSet
<1> QED
  BY <1>1, <1>2, <1>3, <1>4, <1>5 DEF t

\* A batch adds its rows.
LEMMA BatchesAddRows ==
  ASSUME NEW v \in Version, DistinctIds(v), NEW extra \in Fragment, extra.id \notin FragIds(v),
         NEW w \in Version, w.frags = Append(v.frags, extra)
  PROVE  /\ DistinctIds(w) /\ Rows(w) = Rows(v) \cup Live(extra)
         /\ FragIds(w) = FragIds(v) \cup {extra.id}
<1> DEFINE s == v.frags
<1>1. s \in Seq(Fragment)
  BY DEF Version
<1>3. ToSet(Append(s, extra)) = ToSet(s) \cup {extra}
  BY <1>1, AppendedElements
<1>4. \A f \in ToSet(s) : f.id # extra.id
  BY DEF FragIds
<1>5. DistinctIds(w)
  <2> DEFINE t == Append(s, extra)
  <2>1. /\ DOMAIN s = 1..Len(s) /\ Len(s) \in Nat /\ DOMAIN t = 1..(Len(s) + 1)
        /\ \A i \in 1..Len(s) : t[i] = s[i]
        /\ t[Len(s) + 1] = extra
    BY <1>1
  <2>2. \A i \in 1..(Len(s) + 1) : i \in 1..Len(s) \/ i = Len(s) + 1
    BY <2>1
  <2>3. \A i \in 1..Len(s) : s[i].id # extra.id
    BY <1>4, <2>1 DEF ToSet
  <2> HIDE DEF t
  <2>4. \A i, j \in DOMAIN t : t[i].id = t[j].id => i = j
    BY <1>1, <2>1, <2>2, <2>3 DEF DistinctIds
  <2> QED
    BY <2>4 DEF DistinctIds, t
<1>6. Rows(w) = Rows(v) \cup Live(extra) /\ FragIds(w) = FragIds(v) \cup {extra.id}
  BY <1>3 DEF Rows, FragIds
<1> QED
  BY <1>5, <1>6

-----------------------------------------------------------------------------
(* Compaction.                                                             *)

\* Two bins that meet are one.
LEMMA BinsApart ==
  ASSUME NEW v \in Version, NEW b \in Bins(v), NEW c \in Bins(v), NEW i \in Int,
         b[1] <= i, i <= b[2], c[1] <= i, i <= c[2]
  PROVE  b = c
<1> DEFINE n == Len(v.frags)
           deltas(k) == DeltasOf(v, v.frags[k])
           loose(k) == Small(v.frags[k]) \/ v.frags[k].dead # {}
           together(k, l) == Binned(v, k, l)
<1>1. n \in Nat
  BY DEF Version
<1>2. \A k, l \in Int : together(k, l) <=> \A m \in k..l : loose(m) /\ deltas(m) = deltas(k)
  BY DEF Binned
<1>3. \A d \in Bins(v) :
        /\ d \in (1..n) \X (1..n) /\ d[1] <= d[2] /\ together(d[1], d[2])
        /\ d[1] = 1 \/ ~together(d[1] - 1, d[2])
        /\ d[2] = n \/ ~together(d[1], d[2] + 1)
  BY DEF Bins
<1> HIDE DEF n, deltas, loose, together
<1>4. \A d \in Bins(v) : d[1] \in 1..n /\ d[2] \in 1..n /\ d = <<d[1], d[2]>>
  BY <1>3
<1>5. ASSUME NEW d \in Bins(v), NEW e \in Bins(v), d[1] <= i, i <= d[2], e[1] <= i, i <= e[2]
      PROVE  ~ d[1] < e[1]
  <2> SUFFICES ASSUME d[1] < e[1] PROVE FALSE
    OBVIOUS
  <2>1. d[1] \in Int /\ d[2] \in Int /\ e[1] \in Int /\ e[2] \in Int /\ d[1] >= 1
    BY <1>1, <1>4
  <2>2. ~together(e[1] - 1, e[2])
    BY <1>3, <2>1
  <2>3. \A m \in d[1]..d[2] : loose(m) /\ deltas(m) = deltas(d[1])
    BY <1>2, <1>3, <2>1
  <2>4. \A m \in e[1]..e[2] : loose(m) /\ deltas(m) = deltas(e[1])
    BY <1>2, <1>3, <2>1
  <2>5. e[1] \in d[1]..d[2] /\ e[1] - 1 \in d[1]..d[2] /\ e[1] - 1 \in Int
    BY <1>5, <2>1
  <2>6. loose(e[1] - 1) /\ deltas(e[1] - 1) = deltas(e[1])
    BY <2>3, <2>5
  <2>7. \A m \in (e[1] - 1)..e[2] : m = e[1] - 1 \/ m \in e[1]..e[2]
    BY <2>1
  <2>8. together(e[1] - 1, e[2])
    BY <1>2, <2>1, <2>4, <2>5, <2>6, <2>7
  <2> QED
    BY <2>2, <2>8
<1>6. ASSUME NEW d \in Bins(v), NEW e \in Bins(v), d[1] = e[1], d[2] < e[2]
      PROVE  FALSE
  <2>1. d[1] \in Int /\ d[2] \in Int /\ e[1] \in Int /\ e[2] \in Int /\ e[2] <= n /\ d[1] <= d[2]
    BY <1>1, <1>3, <1>4
  <2>2. ~together(d[1], d[2] + 1)
    BY <1>1, <1>3, <1>6, <2>1
  <2>3. \A m \in e[1]..e[2] : loose(m) /\ deltas(m) = deltas(e[1])
    BY <1>2, <1>3, <2>1
  <2>4. \A m \in d[1]..(d[2] + 1) : m \in e[1]..e[2]
    BY <1>6, <2>1
  <2>6. \A m \in d[1]..(d[2] + 1) : loose(m) /\ deltas(m) = deltas(d[1])
    BY <1>6, <2>3, <2>4
  <2>7. d[2] + 1 \in Int
    BY <2>1
  <2>5. together(d[1], d[2] + 1)
    BY <1>2, <2>1, <2>6, <2>7
  <2> QED
    BY <2>2, <2>5
<1>7. b[1] \in Int /\ c[1] \in Int /\ b[2] \in Int /\ c[2] \in Int
  BY <1>1, <1>4
<1>8. ~ b[1] < c[1] /\ ~ c[1] < b[1]
  BY <1>5
<1>9. b[1] = c[1]
  BY <1>7, <1>8
<1>10. ~ b[2] < c[2] /\ ~ c[2] < b[2]
  BY <1>6, <1>9
<1> QED
  BY <1>4, <1>7, <1>9, <1>10

\* Where the fragments of a bin are, and which bin a place is in.
LEMMA BinPlaces ==
  ASSUME NEW v \in Version
  PROVE  /\ \A b \in Bins(v) : /\ b[1] \in DOMAIN v.frags /\ b[2] \in DOMAIN v.frags /\ b[1] <= b[2]
                               /\ \A k \in b[1]..b[2] :
                                    /\ k \in DOMAIN v.frags /\ MyBin(v, k) = b /\ BinOf(v, k) # {}
                                    /\ DeltasOf(v, v.frags[k]) = DeltasOf(v, v.frags[b[1]])
         /\ \A i \in DOMAIN v.frags : BinOf(v, i) # {} =>
              MyBin(v, i) \in Bins(v) /\ i \in MyBin(v, i)[1]..MyBin(v, i)[2]
<1> DEFINE n == Len(v.frags)
<1>1. n \in Nat /\ DOMAIN v.frags = 1..n
  BY DEF Version
<1>2. \A b \in Bins(v) : b[1] \in 1..n /\ b[2] \in 1..n /\ b[1] <= b[2] /\ Binned(v, b[1], b[2])
  BY DEF Bins
<1> HIDE DEF n
<1>3. \A i \in 1..n : BinOf(v, i) # {} =>
              MyBin(v, i) \in Bins(v) /\ i \in MyBin(v, i)[1]..MyBin(v, i)[2]
  <2> SUFFICES ASSUME NEW i \in 1..n, BinOf(v, i) # {}
               PROVE  MyBin(v, i) \in Bins(v) /\ i \in MyBin(v, i)[1]..MyBin(v, i)[2]
    OBVIOUS
  <2>1. MyBin(v, i) \in BinOf(v, i)
    BY DEF MyBin
  <2> QED
    BY <1>1, <1>2, <2>1 DEF BinOf
<1>4. ASSUME NEW b \in Bins(v), NEW k \in b[1]..b[2]
      PROVE  /\ k \in DOMAIN v.frags /\ MyBin(v, k) = b /\ BinOf(v, k) # {}
             /\ DeltasOf(v, v.frags[k]) = DeltasOf(v, v.frags[b[1]])
  <2>1. k \in 1..n /\ k \in Int /\ b[1] <= k /\ k <= b[2]
    BY <1>1, <1>2
  <2>2. b \in BinOf(v, k)
    BY <2>1 DEF BinOf
  <2>3. MyBin(v, k) \in BinOf(v, k)
    BY <2>2 DEF MyBin
  <2>4. MyBin(v, k) \in Bins(v) /\ MyBin(v, k)[1] <= k /\ k <= MyBin(v, k)[2]
    BY <2>3 DEF BinOf
  <2>5. MyBin(v, k) = b
    BY <2>1, <2>4, BinsApart
  <2> QED
    BY <1>1, <1>2, <2>1, <2>2, <2>5 DEF Binned
<1> QED
  BY <1>1, <1>2, <1>3, <1>4

\* Compaction puts fragments together and keeps their rows; what an index
\* covered whole it covers whole.
LEMMA CompactionKeepsRows ==
  ASSUME NEW v \in Version, DistinctIds(v), NEW first \in Nat, \A id \in FragIds(v) : id <= first
  PROVE  LET w == Compacted(v, first) IN
         /\ w \in Version /\ DistinctIds(w)
         /\ Rows(w) = Rows(v)
         /\ \A id \in FragIds(w) : id <= first + Len(v.frags)
         /\ \A ids : FragIds(v) \subseteq ids => FragIds(w) \subseteq Moved(v, first, ids)
         /\ FragIds(v) \subseteq UNION ToSet(v.ann) => FragIds(w) \subseteq UNION ToSet(w.ann)
         /\ DOMAIN w.scalar = DOMAIN v.scalar
         /\ \A c \in DOMAIN v.scalar : w.scalar[c] = Moved(v, first, v.scalar[c])
         /\ Len(w.ann) = Len(v.ann) /\ w.old = v.old /\ w.made = v.made
<1> DEFINE s == v.frags
           n == Len(s)
           merged(i) == Merged(v, first, i)
           all == [i \in DOMAIN s |-> merged(i)]
           P == Firsts(v)
           fs == Picked(all, P)
           w == Compacted(v, first)
           alone(i) == BinOf(v, i) = {}
<1>1. s \in Seq(Fragment) /\ n \in Nat /\ DOMAIN s = 1..n /\ \A i \in 1..n : s[i] \in Fragment
  BY DEF Version
<1>2. \A i \in 1..n : alone(i) => merged(i) = s[i]
  BY DEF Merged
<1>3. \A i \in 1..n : ~alone(i) => /\ MyBin(v, i) \in Bins(v) /\ i \in MyBin(v, i)[1]..MyBin(v, i)[2]
                                  /\ MyBin(v, i)[1] \in 1..n /\ MyBin(v, i)[2] \in 1..n
  BY <1>1, BinPlaces
<1>4. \A i \in 1..n : ~alone(i) =>
        merged(i) = [id |-> first + MyBin(v, i)[1], dead |-> {},
                     rows |-> UNION {Live(s[k]) : k \in MyBin(v, i)[1]..MyBin(v, i)[2]}]
  BY DEF Merged
<1>5. \A i \in 1..n : Live(s[i]) \subseteq Chunk
  BY <1>1 DEF Live, Fragment
<1>6. \A i \in 1..n : merged(i) \in Fragment
  <2> SUFFICES ASSUME NEW i \in 1..n PROVE merged(i) \in Fragment
    OBVIOUS
  <2>1. CASE alone(i)
    BY <1>1, <1>2, <2>1
  <2>2. CASE ~alone(i)
    <3> DEFINE b == MyBin(v, i)
               rows == UNION {Live(s[k]) : k \in b[1]..b[2]}
    <3>1. b[1] \in 1..n /\ b[2] \in 1..n
      BY <1>3, <2>2
    <3>2. \A k \in b[1]..b[2] : k \in 1..n
      BY <3>1, <1>1
    <3>3. rows \subseteq Chunk
      BY <1>5, <3>2
    <3>4. first + b[1] \in Nat
      BY <3>1, <1>1
    <3>5. merged(i) = [id |-> first + b[1], dead |-> {}, rows |-> rows]
      BY <1>4, <2>2
    <3> HIDE DEF b, rows, merged
    <3> QED
      BY <3>3, <3>4, <3>5 DEF Fragment
  <2> QED
    BY <2>1, <2>2
<1>7. P \in SUBSET (1..n) /\ \A i \in 1..n : i \in P <=> alone(i) \/ i = MyBin(v, i)[1]
  BY <1>1 DEF Firsts
<1>8. all \in Seq(Fragment) /\ DOMAIN all = 1..n /\ \A i \in 1..n : all[i] = merged(i)
  BY <1>1, <1>6
<1>9. w = [v EXCEPT !.frags = fs,
             !.scalar = [c \in DOMAIN @ |-> Moved(v, first, @[c])],
             !.ann = [d \in DOMAIN @ |-> Moved(v, first, @[d])]]
  BY DEF Compacted
<1> HIDE DEF P, all, merged, fs, w, n
<1>10. /\ fs \in Seq(Fragment) /\ DOMAIN fs = 1..Cardinality(P)
       /\ \A k \in 1..Cardinality(P) : Nth(P, k) \in P /\ fs[k] = all[Nth(P, k)]
       /\ \A j, k \in 1..Cardinality(P) : Nth(P, j) = Nth(P, k) => j = k
       /\ ToSet(fs) = {all[p] : p \in P}
  <2>1. P \in SUBSET DOMAIN all
    BY <1>7, <1>8
  <2>0. all \in Seq(Fragment)
    BY <1>8
  <2>2. fs \in Seq(Fragment) /\ DOMAIN fs = 1..Cardinality(P) /\ ToSet(fs) = {all[p] : p \in P}
    BY <2>0, <2>1, PickedElements DEF fs
  <2>3. \A k \in 1..Cardinality(P) : Nth(P, k) \in P /\ fs[k] = all[Nth(P, k)]
    BY <2>0, <2>1, PickedElements DEF fs
  <2>4. \A j, k \in 1..Cardinality(P) : Nth(P, j) = Nth(P, k) => j = k
    BY <2>0, <2>1, PickedElements
  <2> QED
    BY <2>2, <2>3, <2>4
<1>11. ToSet(fs) = {merged(p) : p \in P} /\ ToSet(s) = {s[i] : i \in 1..n}
  <2>1. \A p \in P : all[p] = merged(p)
    BY <1>7, <1>8
  <2>2. ToSet(fs) = {merged(p) : p \in P}
    BY <1>10, <2>1
  <2>3. ToSet(s) = {s[i] : i \in 1..n}
    BY <1>1 DEF ToSet
  <2> QED
    BY <2>2, <2>3
<1>12. \A i \in 1..n : i \in P /\ ~alone(i) => merged(i).id = first + i /\ i = MyBin(v, i)[1]
  BY <1>4, <1>7
<1>13. \A i \in 1..n : s[i].id \in Nat /\ s[i].id <= first /\ s[i].id \in FragIds(v)
  BY <1>1, <1>11 DEF FragIds, Fragment
<1>14. \A ids \in SUBSET Nat : Moved(v, first, ids) \in SUBSET Nat
  <2>1. \A b \in Bins(v) : first + b[1] \in Nat
    BY <1>1, BinPlaces
  <2> QED
    BY <2>1 DEF Moved
<1>15. w \in Version /\ w.frags = fs /\ w.old = v.old /\ w.made = v.made
       /\ w.scalar = [c \in DOMAIN v.scalar |-> Moved(v, first, v.scalar[c])]
       /\ w.ann = [d \in DOMAIN v.ann |-> Moved(v, first, v.ann[d])] /\ Len(w.ann) = Len(v.ann)
  <2> DEFINE scalar == [c \in DOMAIN v.scalar |-> Moved(v, first, v.scalar[c])]
             ann == [d \in DOMAIN v.ann |-> Moved(v, first, v.ann[d])]
  <2>1. w = [v EXCEPT !.frags = fs, !.scalar = scalar, !.ann = ann]
    BY <1>9
  <2>2. scalar \in Scalars
    <3>1. v.scalar \in Scalars
      BY DEF Version
    <3>2. \A C : v.scalar \in [C -> SUBSET Nat] => scalar \in [C -> SUBSET Nat]
      BY <1>14
    <3> HIDE DEF scalar
    <3> QED
      BY <3>1, <3>2 DEF Scalars
  <2>3. ann \in Seq(SUBSET Nat) /\ Len(ann) = Len(v.ann)
    <3>1. v.ann \in Seq(SUBSET Nat) /\ DOMAIN v.ann = 1..Len(v.ann) /\ Len(v.ann) \in Nat
      BY DEF Version
    <3>2. ann \in [1..Len(v.ann) -> SUBSET Nat]
      BY <1>14, <3>1
    <3> HIDE DEF ann
    <3> QED
      BY <3>1, <3>2
  <2> HIDE DEF scalar, ann
  <2>4. w \in Version /\ w.frags = fs /\ w.scalar = scalar /\ w.ann = ann /\ w.old = v.old /\ w.made = v.made
    BY <1>10, <2>1, <2>2, <2>3 DEF Version
  <2> QED
    BY <2>3, <2>4 DEF scalar, ann
<1>16. DistinctIds(w)
  <2>1. \A i, j \in P : merged(i).id = merged(j).id => i = j
    <3> SUFFICES ASSUME NEW i \in P, NEW j \in P, merged(i).id = merged(j).id PROVE i = j
      OBVIOUS
    <3>1. i \in 1..n /\ j \in 1..n /\ i \in Nat /\ j \in Nat /\ i > 0 /\ j > 0
      BY <1>1, <1>7
    <3>2. CASE alone(i) /\ alone(j)
      BY <1>1, <1>2, <3>1, <3>2 DEF DistinctIds
    <3>3. CASE ~alone(i) /\ ~alone(j)
      BY <1>12, <3>1, <3>3
    <3>4. CASE alone(i) /\ ~alone(j)
      BY <1>2, <1>12, <1>13, <3>1, <3>4
    <3>5. CASE ~alone(i) /\ alone(j)
      BY <1>2, <1>12, <1>13, <3>1, <3>5
    <3> QED
      BY <3>2, <3>3, <3>4, <3>5
  <2>2. \A p \in P : all[p] = merged(p)
    BY <1>7, <1>8
  <2> QED
    BY <1>10, <1>15, <2>1, <2>2 DEF DistinctIds
<1>17. Rows(w) = Rows(v)
  <2>1. Rows(w) = UNION {Live(f) : f \in ToSet(fs)}
    BY <1>15 DEF Rows
  <2>2. Rows(v) = UNION {Live(f) : f \in ToSet(s)}
    BY DEF Rows
  <2>3. ASSUME NEW p \in P, NEW c \in Live(merged(p)) PROVE \E i \in 1..n : c \in Live(s[i])
    <3>1. p \in 1..n
      BY <1>7
    <3>2. CASE alone(p)
      BY <1>2, <2>3, <3>1, <3>2
    <3>3. CASE ~alone(p)
      <4> DEFINE b == MyBin(v, p)
      <4>1. c \in UNION {Live(s[k]) : k \in b[1]..b[2]}
        BY <1>4, <2>3, <3>1, <3>3 DEF Live
      <4>2. b \in Bins(v)
        BY <1>3, <3>1, <3>3
      <4>3. \A k \in b[1]..b[2] : k \in 1..n
        BY <1>1, <4>2, BinPlaces
      <4> HIDE DEF b
      <4> QED
        BY <4>1, <4>3
    <3> QED
      BY <3>2, <3>3
  <2>4. ASSUME NEW i \in 1..n, NEW c \in Live(s[i]) PROVE \E p \in P : c \in Live(merged(p))
    <3>1. CASE alone(i)
      BY <1>2, <1>7, <2>4, <3>1
    <3>2. CASE ~alone(i)
      <4> DEFINE b == MyBin(v, i)
                 p == b[1]
      <4>1. b \in Bins(v) /\ i \in b[1]..b[2] /\ p \in 1..n /\ b[1] \in b[1]..b[2]
        BY <1>1, <1>3, <3>2
      <4>2. MyBin(v, p) = b /\ ~alone(p)
        BY <4>1, BinPlaces
      <4>3. p \in P
        BY <1>7, <4>1, <4>2
      <4>4. merged(p) = [id |-> first + b[1], dead |-> {}, rows |-> UNION {Live(s[k]) : k \in b[1]..b[2]}]
        BY <1>4, <4>1, <4>2
      <4> HIDE DEF b, p
      <4>5. c \in Live(merged(p))
        BY <2>4, <4>1, <4>4 DEF Live
      <4> QED
        BY <4>3, <4>5
    <3> QED
      BY <3>1, <3>2
  <2> QED
    BY <2>1, <2>2, <2>3, <2>4, <1>11
<1>18. \A id \in FragIds(w) : \E p \in P : id = merged(p).id
  BY <1>11, <1>15 DEF FragIds
<1>19. \A id \in FragIds(w) : id <= first + n
  <2>1. \A p \in P : merged(p).id <= first + n
    <3> SUFFICES ASSUME NEW p \in P PROVE merged(p).id <= first + n
      OBVIOUS
    <3>1. p \in 1..n
      BY <1>7
    <3>2. CASE alone(p)
      BY <1>1, <1>2, <1>13, <3>1, <3>2
    <3>3. CASE ~alone(p)
      BY <1>1, <1>12, <3>1, <3>3
    <3> QED
      BY <3>2, <3>3
  <2> QED
    BY <1>18, <2>1
<1> DEFINE idsOf(b) == {s[k].id : k \in b[1]..b[2]}
<1>20. \A ids : Moved(v, first, ids) = (ids \ UNION {idsOf(b) : b \in Bins(v)})
                 \cup {first + b[1] : b \in {b \in Bins(v) : idsOf(b) \subseteq ids}}
  BY DEF Moved
<1> HIDE DEF idsOf
<1>21. \A i \in 1..n : alone(i) => s[i].id \notin UNION {idsOf(b) : b \in Bins(v)}
  <2> SUFFICES ASSUME NEW i \in 1..n, alone(i), NEW b \in Bins(v), s[i].id \in idsOf(b) PROVE FALSE
    OBVIOUS
  <2>1. PICK k \in b[1]..b[2] : s[i].id = s[k].id
    BY DEF idsOf
  <2>2. k \in 1..n /\ ~alone(k)
    BY <1>1, BinPlaces
  <2>3. i = k
    BY <1>1, <2>1, <2>2 DEF DistinctIds
  <2> QED
    BY <2>2, <2>3
<1>22. ASSUME NEW p \in P PROVE alone(p) \/ \E b \in Bins(v) : b[1] = p /\ b = MyBin(v, p) /\ merged(p).id = first + b[1]
  <2>1. p \in 1..n
    BY <1>7
  <2> QED
    BY <1>3, <1>12, <2>1
<1>23. \A ids : FragIds(v) \subseteq ids => FragIds(w) \subseteq Moved(v, first, ids)
  <2> SUFFICES ASSUME NEW ids, FragIds(v) \subseteq ids, NEW p \in P
               PROVE  merged(p).id \in Moved(v, first, ids)
    BY <1>18
  <2>1. p \in 1..n
    BY <1>7
  <2>2. CASE alone(p)
    BY <1>2, <1>13, <1>20, <1>21, <2>1, <2>2
  <2>3. ASSUME NEW b \in Bins(v), merged(p).id = first + b[1] PROVE merged(p).id \in Moved(v, first, ids)
    <3>1. \A k \in b[1]..b[2] : k \in 1..n
      BY <1>1, BinPlaces
    <3>2. idsOf(b) \subseteq ids
      BY <1>13, <3>1 DEF idsOf
    <3> QED
      BY <1>20, <2>3, <3>2
  <2> QED
    BY <1>22, <2>2, <2>3
<1>24. FragIds(v) \subseteq UNION ToSet(v.ann) => FragIds(w) \subseteq UNION ToSet(w.ann)
  <2> SUFFICES ASSUME FragIds(v) \subseteq UNION ToSet(v.ann), NEW p \in P
               PROVE  \E d \in DOMAIN v.ann : merged(p).id \in Moved(v, first, v.ann[d])
    BY <1>15, <1>18 DEF ToSet
  <2>1. p \in 1..n
    BY <1>7
  <2>2. \A i \in 1..n : \E d \in DOMAIN v.ann : s[i].id \in v.ann[d]
    BY <1>13 DEF ToSet
  <2>3. CASE alone(p)
    BY <1>2, <1>20, <1>21, <2>1, <2>2, <2>3
  <2>4. ASSUME NEW b \in Bins(v), b[1] = p, merged(p).id = first + b[1]
        PROVE  \E d \in DOMAIN v.ann : merged(p).id \in Moved(v, first, v.ann[d])
    <3>1. PICK d \in DOMAIN v.ann : s[p].id \in v.ann[d]
      BY <2>1, <2>2
    <3>2. \A k \in b[1]..b[2] : DeltasOf(v, s[k]) = DeltasOf(v, s[p])
      BY <2>4, BinPlaces
    <3>3. d \in DeltasOf(v, s[p])
      BY <3>1 DEF DeltasOf
    <3>4. idsOf(b) \subseteq v.ann[d]
      BY <3>2, <3>3 DEF idsOf, DeltasOf
    <3> QED
      BY <1>20, <2>4, <3>4
  <2> QED
    BY <1>22, <2>3, <2>4
<1> QED
  BY <1>15, <1>16, <1>17, <1>19, <1>23, <1>24 DEF w, n

\* A set of places has a first and a last.
LEMMA EndPlaces ==
  ASSUME NEW n \in Nat, NEW P \in SUBSET (1..n), P # {}
  PROVE  (\E p \in P : \A o \in P : p <= o) /\ (\E p \in P : \A o \in P : o <= p)
<1> DEFINE C == Cardinality(P)
<1>1. /\ C \in Nat
      /\ \A k \in 1..C : Nth(P, k) \in P
      /\ \A p \in P : \E k \in 1..C : p = Nth(P, k)
      /\ \A j, k \in 1..C : j < k => Nth(P, j) < Nth(P, k)
  BY PlacesInOrder
<1>2. \A p \in P : p \in Nat
  OBVIOUS
<1> HIDE DEF C
<1>3. 1 \in 1..C /\ C \in 1..C
  <2>1. PICK k \in 1..C : TRUE
    BY <1>1
  <2> QED
    BY <1>1, <2>1
<1>4. \A k \in 1..C : (k = 1 \/ 1 < k) /\ (k = C \/ k < C)
  BY <1>1
<1>5. \A k \in 1..C : Nth(P, 1) <= Nth(P, k) /\ Nth(P, k) <= Nth(P, C)
  <2> SUFFICES ASSUME NEW k \in 1..C PROVE Nth(P, 1) <= Nth(P, k) /\ Nth(P, k) <= Nth(P, C)
    OBVIOUS
  <2>1. Nth(P, 1) \in Nat /\ Nth(P, k) \in Nat /\ Nth(P, C) \in Nat
    BY <1>1, <1>2, <1>3
  <2>2. Nth(P, 1) = Nth(P, k) \/ Nth(P, 1) < Nth(P, k)
    BY <1>1, <1>3, <1>4
  <2>3. Nth(P, k) = Nth(P, C) \/ Nth(P, k) < Nth(P, C)
    BY <1>1, <1>3, <1>4
  <2> QED
    BY <2>1, <2>2, <2>3
<1>6. \A p \in P : Nth(P, 1) <= p /\ p <= Nth(P, C)
  <2> SUFFICES ASSUME NEW p \in P PROVE Nth(P, 1) <= p /\ p <= Nth(P, C)
    OBVIOUS
  <2>1. PICK k \in 1..C : p = Nth(P, k)
    BY <1>1
  <2> QED
    BY <1>5, <2>1
<1>7. Nth(P, 1) \in P /\ Nth(P, C) \in P
  BY <1>1, <1>3
<1> QED
  BY <1>6, <1>7

\* Two neighbours that could be put together are in a bin.
LEMMA NeighboursAreBinned ==
  ASSUME NEW v \in Version, NEW p \in Nat, p \in DOMAIN v.frags, p + 1 \in DOMAIN v.frags,
         Binned(v, p, p + 1)
  PROVE  \E b \in Bins(v) : b[1] <= p /\ p + 1 <= b[2]
<1> DEFINE n == Len(v.frags)
           deltas(k) == DeltasOf(v, v.frags[k])
           loose(k) == Small(v.frags[k]) \/ v.frags[k].dead # {}
           together(k, l) == Binned(v, k, l)
<1>1. n \in Nat /\ DOMAIN v.frags = 1..n
  BY DEF Version
<1>2. \A k, l \in Int : together(k, l) <=> \A m \in k..l : loose(m) /\ deltas(m) = deltas(k)
  BY DEF Binned
<1>3. \A b \in (1..n) \X (1..n) :
        /\ b[1] < b[2] /\ together(b[1], b[2])
        /\ b[1] = 1 \/ ~together(b[1] - 1, b[2])
        /\ b[2] = n \/ ~together(b[1], b[2] + 1)
        => b \in Bins(v)
  BY <1>1 DEF Bins
<1>4. p \in 1..n /\ p + 1 \in 1..n /\ together(p, p + 1)
  BY <1>1
<1> HIDE DEF n, deltas, loose, together
<1> DEFINE L == {l \in 1..p : together(l, p + 1)}
<1>5. PICK l \in L : \A m \in L : l <= m
  <2>1. p \in L /\ L \in SUBSET (1..p)
    BY <1>4
  <2>2. \A m \in L : m \in Nat
    BY <2>1
  <2> HIDE DEF L
  <2> QED
    BY <2>1, <2>2, EndPlaces
<1> DEFINE R == {r \in 1..n : p + 1 <= r /\ together(l, r)}
<1>6. PICK r \in R : \A m \in R : m <= r
  <2>1. p + 1 \in R /\ R \in SUBSET (1..n)
    BY <1>4, <1>5
  <2> HIDE DEF R
  <2> QED
    BY <1>1, <2>1, EndPlaces
<1>7. l \in 1..n /\ r \in 1..n /\ l <= p /\ p + 1 <= r /\ together(l, r) /\ l \in Int /\ r \in Int
  BY <1>1, <1>4, <1>5, <1>6
<1>8. l = 1 \/ ~together(l - 1, r)
  <2> SUFFICES ASSUME l # 1, together(l - 1, r) PROVE FALSE
    OBVIOUS
  <2>1. l - 1 \in 1..p /\ l - 1 \in Int /\ p + 1 \in Int
    BY <1>1, <1>7
  <2>2. \A m \in (l - 1)..(p + 1) : m \in (l - 1)..r
    BY <1>7
  <2>3. together(l - 1, p + 1)
    BY <1>2, <1>7, <2>1, <2>2
  <2>4. l - 1 \in L
    BY <2>1, <2>3
  <2> QED
    BY <1>5, <1>7, <2>4
<1>9. r = n \/ ~together(l, r + 1)
  <2> SUFFICES ASSUME r # n, together(l, r + 1) PROVE FALSE
    OBVIOUS
  <2>1. r + 1 \in R
    BY <1>1, <1>7
  <2> QED
    BY <1>6, <1>7, <2>1
<1>10. <<l, r>> \in Bins(v)
  BY <1>3, <1>7, <1>8, <1>9
<1> QED
  BY <1>7, <1>10

\* When one delta covers all, compaction leaves no two small neighbours.
LEMMA CompactionJoinsNeighbours ==
  ASSUME NEW v \in Version, NEW first \in Nat,
         \A i, j \in DOMAIN v.frags : DeltasOf(v, v.frags[i]) = DeltasOf(v, v.frags[j])
  PROVE  NoSmallNeighbours(Compacted(v, first))
<1> DEFINE s == v.frags
           n == Len(s)
           merged(i) == Merged(v, first, i)
           all == [i \in DOMAIN s |-> merged(i)]
           P == Firsts(v)
           fs == Picked(all, P)
           alone(i) == BinOf(v, i) = {}
           loose(k) == Small(s[k]) \/ s[k].dead # {}
           last(i) == IF alone(i) THEN i ELSE MyBin(v, i)[2]
           C == Cardinality(P)
<1>1. n \in Nat /\ DOMAIN s = 1..n /\ \A i, j \in Int : Binned(v, i, j) <=>
                  \A k \in i..j : loose(k) /\ DeltasOf(v, s[k]) = DeltasOf(v, s[i])
  <2>1. n \in Nat /\ DOMAIN s = 1..n
    BY DEF Version
  <2>2. \A i, j : Binned(v, i, j) <=>
                  \A k \in i..j : loose(k) /\ DeltasOf(v, s[k]) = DeltasOf(v, s[i])
    BY Zenon DEF Binned
  <2> QED
    BY <2>1, <2>2
<1>2. \A b \in Bins(v) : Binned(v, b[1], b[2])
  BY DEF Bins
<1>3. Compacted(v, first).frags = fs
  BY DEF Compacted, Version
<1>4. P \in SUBSET (1..n) /\ \A i \in 1..n : i \in P <=> alone(i) \/ i = MyBin(v, i)[1]
  BY <1>1 DEF Firsts
<1>5. \A i \in 1..n : ~alone(i) =>
        MyBin(v, i) \in Bins(v) /\ i \in MyBin(v, i)[1]..MyBin(v, i)[2]
  BY <1>1, BinPlaces
<1>6. \A b \in Bins(v) : /\ b[1] \in 1..n /\ b[2] \in 1..n /\ b[1] <= b[2]
                         /\ \A k \in b[1]..b[2] : k \in 1..n /\ MyBin(v, k) = b /\ ~alone(k)
  BY <1>1, BinPlaces
<1>7. \A i \in 1..n : alone(i) => merged(i) = s[i]
  BY DEF Merged
<1>8. \A i \in P : all[i] = merged(i)
  BY <1>1, <1>4
<1>9. /\ C \in Nat
      /\ \A k \in 1..C : Nth(P, k) \in P
      /\ \A p \in P : \E k \in 1..C : p = Nth(P, k)
      /\ \A j, k \in 1..C : j < k => Nth(P, j) < Nth(P, k)
  <2>1. n \in Nat /\ P \in SUBSET (1..n)
    BY <1>1, <1>4
  <2> HIDE DEF n, P
  <2> QED
    BY <2>1, PlacesInOrder
<1>10. fs = [k \in 1..C |-> all[Nth(P, k)]]
  BY DEF Picked
<1> HIDE DEF n, merged, all, P, fs, loose, C, alone
<1>11. DOMAIN fs = 1..C /\ Len(fs) = C /\ \A k \in 1..C : fs[k] = merged(Nth(P, k))
  BY <1>8, <1>9, <1>10
<1>12. ASSUME NEW i \in P PROVE last(i) \in 1..n /\ i <= last(i) /\ (Small(merged(i)) => loose(i) /\ loose(last(i)))
  <2>1. CASE alone(i)
    BY <1>1, <1>4, <1>7, <2>1 DEF loose
  <2>2. CASE ~alone(i)
    <3> DEFINE b == MyBin(v, i)
    <3>1. b \in Bins(v) /\ i = b[1] /\ last(i) = b[2]
      BY <1>4, <1>5, <2>2
    <3>2. b[1] \in b[1]..b[2] /\ b[2] \in b[1]..b[2] /\ b[1] \in Int /\ b[2] \in Int
      BY <1>1, <1>6, <3>1
    <3> HIDE DEF b
    <3>3. loose(b[1]) /\ loose(b[2])
      BY <1>1, <1>2, <3>1, <3>2
    <3> QED
      BY <1>6, <3>1, <3>3
  <2> QED
    BY <2>1, <2>2
<1>13. ASSUME NEW i \in P, last(i) < n PROVE last(i) + 1 \in P
  <2> DEFINE e == last(i)
             o == e + 1
             b == MyBin(v, o)
  <2>1. e \in 1..n /\ o \in 1..n /\ i <= e
    BY <1>1, <1>12, <1>13
  <2>2. CASE alone(o)
    BY <1>4, <2>1, <2>2
  <2>3. CASE ~alone(o)
    <3>1. b \in Bins(v) /\ o \in b[1]..b[2]
      BY <1>5, <2>1, <2>3
    <3>2. b[1] \in 1..n /\ b[2] \in 1..n
      BY <1>6, <3>1
    <3> SUFFICES b[1] = o
      BY <1>4, <2>1
    <3> SUFFICES ASSUME b[1] # o PROVE FALSE
      OBVIOUS
    <3>3. e \in b[1]..b[2]
      BY <1>1, <2>1, <3>1, <3>2
    <3>4. MyBin(v, e) = b /\ ~alone(e)
      BY <1>6, <3>1, <3>3
    <3>5. ~alone(i)
      BY <3>4
    <3>6. MyBin(v, i) \in Bins(v) /\ i \in MyBin(v, i)[1]..MyBin(v, i)[2] /\ e = MyBin(v, i)[2]
      BY <1>4, <1>5, <3>5
    <3>7. e \in MyBin(v, i)[1]..MyBin(v, i)[2]
      BY <1>1, <1>6, <3>6
    <3>8. MyBin(v, e) = MyBin(v, i)
      BY <1>6, <3>6, <3>7
    <3>9. e = b[2]
      BY <3>4, <3>6, <3>8
    <3> QED
      BY <1>1, <2>1, <3>1, <3>2, <3>9
  <2> QED
    BY <2>2, <2>3
<1>14. ASSUME NEW i \in P, NEW m \in P, i < m PROVE last(i) < m
  <2>1. CASE alone(i)
    BY <1>14, <2>1
  <2>2. CASE ~alone(i)
    <3> DEFINE b == MyBin(v, i)
    <3>1. b \in Bins(v) /\ i = b[1] /\ last(i) = b[2] /\ b[1] \in 1..n /\ b[2] \in 1..n
      BY <1>4, <1>5, <1>6, <2>2
    <3>2. m \in b[1]..b[2] => MyBin(v, m) = b /\ ~alone(m)
      BY <1>6, <3>1
    <3>3. m \in 1..n /\ (alone(m) \/ m = MyBin(v, m)[1])
      BY <1>4
    <3> HIDE DEF b, last
    <3>4. m \notin b[1]..b[2]
      BY <1>1, <1>14, <3>1, <3>2, <3>3
    <3> QED
      BY <1>1, <1>14, <3>1, <3>3, <3>4
  <2> QED
    BY <2>1, <2>2
<1> HIDE DEF last
<1>15. ASSUME NEW k \in 1..(C - 1), Small(fs[k]), Small(fs[k + 1]) PROVE FALSE
  <2> DEFINE p == Nth(P, k)
             o == Nth(P, k + 1)
             e == last(p)
  <2>1. k \in 1..C /\ k + 1 \in 1..C /\ k \in Int
    BY <1>9
  <2>2. p \in P /\ o \in P /\ p < o /\ Small(merged(p)) /\ Small(merged(o))
    BY <1>9, <1>11, <1>15, <2>1
  <2>3. p \in 1..n /\ o \in 1..n /\ e \in 1..n /\ p <= e /\ e < o /\ loose(e) /\ loose(o)
    BY <1>4, <1>12, <1>14, <2>2
  <2>4. e + 1 \in P
    BY <1>1, <1>13, <2>2, <2>3
  <2>5. PICK j \in 1..C : e + 1 = Nth(P, j)
    BY <1>9, <2>4
  <2>6. ~ j < k /\ ~ j = k
    BY <1>1, <1>9, <2>1, <2>3, <2>5
  <2>7. ~ k + 1 < j
    BY <1>1, <1>9, <2>1, <2>3, <2>5
  <2>8. j = k + 1
    BY <1>9, <2>1, <2>6, <2>7
  <2>9. o = e + 1
    BY <2>5, <2>8
  <2> HIDE DEF p, o, e
  <2>10. \A m \in e..(e + 1) : m = e \/ m = e + 1
    BY <1>1, <2>3
  <2>16. \A x, y \in DOMAIN s : DeltasOf(v, s[x]) = DeltasOf(v, s[y])
    OBVIOUS
  <2>17. \A m \in e..(e + 1) : loose(m) /\ DeltasOf(v, s[m]) = DeltasOf(v, s[e])
    <3>1. e \in DOMAIN s /\ e + 1 \in DOMAIN s /\ loose(e) /\ loose(e + 1)
      BY <1>1, <2>3, <2>9
    <3>2. DeltasOf(v, s[e + 1]) = DeltasOf(v, s[e])
      BY <2>16, <3>1
    <3> QED
      BY <2>10, <3>1, <3>2
  <2>18. e \in Int /\ e + 1 \in Int
    BY <1>1, <2>3
  <2> HIDE DEF s
  <2>11. Binned(v, e, e + 1)
    BY <1>1, <2>17, <2>18
  <2>12. PICK b \in Bins(v) : b[1] <= e /\ e + 1 <= b[2]
    BY <1>1, <2>3, <2>9, <2>11, NeighboursAreBinned DEF s
  <2>13. b[1] \in 1..n /\ b[2] \in 1..n /\ o \in b[1]..b[2]
    BY <1>1, <1>6, <2>3, <2>9, <2>12
  <2>14. MyBin(v, o) = b /\ ~alone(o)
    BY <1>6, <2>12, <2>13
  <2>15. o = b[1]
    BY <1>4, <2>2, <2>14
  <2> QED
    BY <1>1, <2>3, <2>9, <2>12, <2>13, <2>15
<1> QED
  BY <1>3, <1>11, <1>15 DEF NoSmallNeighbours

-----------------------------------------------------------------------------
(* Versions.                                                               *)

\* What the newest version of a log is, and that it names fragments by numbers.
LEMMA TheNewest ==
  ASSUME log \in Seq(Version), log # <<>>
  PROVE  Latest \in Version /\ Len(log) \in DOMAIN log
<1>1. Len(log) \in 1..Len(log) /\ DOMAIN log = 1..Len(log)
  OBVIOUS
<1> QED
  BY <1>1 DEF Latest

\* The fragments of a version have numbers, its rows are chunks.
LEMMA IdsAreNumbers ==
  ASSUME NEW v \in Version PROVE FragIds(v) \subseteq Nat /\ Rows(v) \subseteq Chunk
<1>1. \A f \in ToSet(v.frags) : f \in Fragment
  BY DEF Version, ToSet
<1> QED
  BY <1>1 DEF FragIds, Rows, Live, Fragment

\* What a write adds to the log.
LEMMA PublishAdds ==
  ASSUME log \in Seq(Version), now \in Nat, NEW v \in Version, Publish(v)
  PROVE  /\ log' \in Seq(Version) /\ Len(log') = Len(log) + 1 /\ Len(log) \in Nat
         /\ DOMAIN log = 1..Len(log) /\ DOMAIN log' = 1..(Len(log) + 1) /\ log' # <<>>
         /\ \A i \in DOMAIN log : i \in DOMAIN log' /\ log'[i] = log[i]
         /\ \A i \in DOMAIN log' : i \in DOMAIN log \/ i = Len(log) + 1
         /\ Latest' = log'[Len(log) + 1] /\ Latest' = [v EXCEPT !.made = now]
         /\ Latest'.frags = v.frags /\ Latest'.scalar = v.scalar /\ Latest'.ann = v.ann
         /\ Latest'.old = v.old /\ Latest'.made = now
         /\ Rows(Latest') = Rows(v) /\ FragIds(Latest') = FragIds(v)
         /\ kept' = kept \cup {Len(log) + 1}
<1> DEFINE u == [v EXCEPT !.made = now]
<1>1. /\ u \in Version /\ u.frags = v.frags /\ u.scalar = v.scalar /\ u.ann = v.ann
      /\ u.old = v.old /\ u.made = now
  BY DEF Version
<1>2. log' = Append(log, u) /\ kept' = kept \cup {Len(log) + 1}
  BY DEF Publish
<1> HIDE DEF u
<1>3. /\ log' \in Seq(Version) /\ Len(log') = Len(log) + 1 /\ Len(log) \in Nat
      /\ DOMAIN log = 1..Len(log) /\ DOMAIN log' = 1..(Len(log) + 1) /\ log' # <<>>
      /\ log'[Len(log) + 1] = u
      /\ \A i \in 1..Len(log) : log'[i] = log[i]
  BY <1>1, <1>2
<1>4. /\ \A i \in DOMAIN log : i \in DOMAIN log' /\ log'[i] = log[i]
      /\ \A i \in DOMAIN log' : i \in DOMAIN log \/ i = Len(log) + 1
  BY <1>3
<1>5. Latest' = u /\ Latest' = log'[Len(log) + 1]
  BY <1>3 DEF Latest
<1>6. Rows(u) = Rows(v) /\ FragIds(u) = FragIds(v)
  BY <1>1 DEF Rows, FragIds
<1> QED
  BY <1>1, <1>2, <1>3, <1>4, <1>5, <1>6 DEF u

\* A write of fragments that are on disk keeps what is true of all versions.
LEMMA WritesKeepVersions ==
  ASSUME TableTypes, VersionsHold, DiskIsNamed, KeptAreWhole,
         NEW v \in Version, DistinctIds(v), Publish(v),
         disk' = disk \cup FragIds(v), made'.frags \in Nat, made.frags <= made'.frags,
         \A id \in FragIds(v) : id <= made'.frags,
         store'.meta = store.meta, \A c \in Rows(v) : store.meta = {c.by},
         now' = now
  PROVE  /\ log' \in Seq(Version) /\ (kept \subseteq DOMAIN log)' /\ disk' \subseteq Nat
         /\ VersionsHold' /\ DiskIsNamed' /\ KeptAreWhole'
<1>1. log \in Seq(Version) /\ now \in Nat /\ kept \subseteq DOMAIN log /\ disk \subseteq Nat
      /\ made.frags \in Nat
  BY DEF TableTypes, Counts
<1> DEFINE newest == Len(log) + 1
<1>2. /\ log' \in Seq(Version) /\ Len(log') = Len(log) + 1 /\ Len(log) \in Nat
      /\ DOMAIN log = 1..Len(log) /\ DOMAIN log' = 1..newest /\ log' # <<>>
      /\ \A i \in DOMAIN log : i \in DOMAIN log' /\ log'[i] = log[i]
      /\ \A i \in DOMAIN log' : i \in DOMAIN log \/ i = newest
      /\ log'[newest].frags = v.frags /\ log'[newest].made = now
      /\ Rows(log'[newest]) = Rows(v) /\ FragIds(log'[newest]) = FragIds(v)
      /\ kept' = kept \cup {newest}
  BY <1>1, PublishAdds
<1> HIDE DEF newest
<1>3. newest \in DOMAIN log' /\ newest \notin DOMAIN log /\ Len(log') = newest
  BY <1>2 DEF newest
<1>4. (kept \subseteq DOMAIN log)'
  BY <1>1, <1>2, <1>3
<1>5. disk' \subseteq Nat
  BY <1>1, IdsAreNumbers
<1>6. VersionsHold'
  <2> SUFFICES ASSUME NEW i \in DOMAIN log'
               PROVE  /\ DistinctIds(log'[i])
                      /\ \A id \in FragIds(log'[i]) : id <= made'.frags
                      /\ \A c \in Rows(log'[i]) : store'.meta = {c.by}
    BY DEF VersionsHold
  <2>1. CASE i \in DOMAIN log
    <3>1. /\ DistinctIds(log[i]) /\ \A c \in Rows(log[i]) : store.meta = {c.by}
          /\ \A id \in FragIds(log[i]) : id <= made.frags
      BY <2>1 DEF VersionsHold
    <3>2. FragIds(log[i]) \subseteq Nat
      BY <1>1, <2>1, IdsAreNumbers
    <3>3. \A id \in FragIds(log[i]) : id <= made'.frags
      BY <1>1, <3>1, <3>2
    <3> QED
      BY <1>2, <2>1, <3>1, <3>3
  <2>2. CASE i = newest
    <3>1. DistinctIds(log'[newest])
      BY <1>2 DEF DistinctIds
    <3> QED
      BY <1>2, <2>2, <3>1
  <2> QED
    BY <1>2, <2>1, <2>2
<1>7. DiskIsNamed'
  <2>1. \A i \in kept : log'[i] = log[i] /\ i # newest
    BY <1>1, <1>2, <1>3
  <2>2. UNION {FragIds(log'[i]) : i \in kept'} = (UNION {FragIds(log[i]) : i \in kept}) \cup FragIds(v)
    BY <1>2, <2>1
  <2> QED
    BY <2>2 DEF DiskIsNamed
<1>8. KeptAreWhole'
  <2>1. (log # <<>> => Len(log) \in kept)'
    BY <1>2, <1>3
  <2>2. (\A i \in kept : FragIds(log[i]) \subseteq disk)'
    BY <1>1, <1>2, <1>3 DEF KeptAreWhole
  <2>3. (\A i \in DOMAIN log : now - log[i].made <= Keep => i \in kept)'
    BY <1>2 DEF KeptAreWhole
  <2> QED
    BY <2>1, <2>2, <2>3 DEF KeptAreWhole
<1> QED
  BY <1>2, <1>4, <1>5, <1>6, <1>7, <1>8

\* So does a step that writes nothing.
LEMMA OthersKeepVersions ==
  ASSUME TableTypes, VersionsHold, DiskIsNamed, KeptAreWhole, OpenedByOne,
         UNCHANGED <<log, kept, disk>>, made'.frags = made.frags,
         store'.meta = store.meta \/ store.meta = {}, now' \in Nat, now <= now'
  PROVE  /\ log' \in Seq(Version) /\ (kept \subseteq DOMAIN log)' /\ disk' \subseteq Nat
         /\ VersionsHold' /\ DiskIsNamed' /\ KeptAreWhole'
<1>1. /\ log \in Seq(Version) /\ kept \subseteq DOMAIN log /\ disk \subseteq Nat /\ now \in Nat
      /\ log' = log /\ kept' = kept /\ disk' = disk
  BY DEF TableTypes
<1>2. VersionsHold'
  <2>1. \A v \in DOMAIN log : \A c \in Rows(log[v]) : store'.meta = {c.by}
    BY DEF VersionsHold
  <2> QED
    BY <1>1, <2>1 DEF VersionsHold
<1>3. DiskIsNamed'
  BY <1>1 DEF DiskIsNamed
<1>4. KeptAreWhole'
  <2>1. \A v \in DOMAIN log : now' - log[v].made <= Keep => now - log[v].made <= Keep
    <3> SUFFICES ASSUME NEW v \in DOMAIN log, now' - log[v].made <= Keep PROVE now - log[v].made <= Keep
      OBVIOUS
    <3>1. log[v].made \in Nat /\ Keep \in Nat
      <4>1. log[v] \in Version
        BY <1>1
      <4>2. Keep \in Nat
        BY TableAssumption
      <4> QED
        BY <4>1, <4>2 DEF Version
    <3> QED
      BY <1>1, <3>1
  <2> QED
    BY <1>1, <2>1 DEF KeptAreWhole
<1> QED
  BY <1>1, <1>2, <1>3, <1>4

-----------------------------------------------------------------------------
(* Jobs.                                                                   *)

\* The fields of a job.
LEMMA JobsHave ==
  ASSUME NEW j \in Jobs
  PROVE  /\ j = [op |-> j.op, at |-> j.at, by |-> j.by, files |-> j.files,
                 deltas |-> j.deltas, merged |-> j.merged]
         /\ j.op \in Ops /\ j.at \in Steps
         /\ j.by \in Embedders \cup {"none"} /\ j.files \in SUBSET Files /\ j.deltas \in Nat
         /\ j.merged \in BOOLEAN
BY DEF Jobs

\* A record of the fields of a job is a job.
LEMMA AJob ==
  /\ \A o \in Ops, a \in Steps,
        b \in Embedders \cup {"none"}, f \in SUBSET Files, d \in Nat, m \in BOOLEAN :
       [op |-> o, at |-> a, by |-> b, files |-> f, deltas |-> d, merged |-> m] \in Jobs
  /\ NoJob \in Jobs
<1>1. \A o \in Ops, a \in Steps,
        b \in Embedders \cup {"none"}, f \in SUBSET Files, d \in Nat, m \in BOOLEAN :
       [op |-> o, at |-> a, by |-> b, files |-> f, deltas |-> d, merged |-> m] \in Jobs
  BY DEF Jobs
<1>2. "none" \in Ops /\ "none" \in Embedders \cup {"none"}
  BY DEF Ops
<1>3. "none" \in Steps
  BY DEF Steps
<1>4. 0 \in Nat /\ {} \in SUBSET Files /\ FALSE \in BOOLEAN
  OBVIOUS
<1>5. NoJob \in Jobs
  BY <1>1, <1>2, <1>3, <1>4, Zenon DEF NoJob
<1> QED
  BY <1>1, <1>5

\* A job goes on to another step.
LEMMA JobGoesOn ==
  ASSUME job \in Jobs, NEW o \in Ops, NEW a \in Steps,
         job' = [job EXCEPT !.op = o, !.at = a]
  PROVE  /\ job' \in Jobs /\ job'.op = o /\ job'.at = a /\ job'.by = job.by /\ job'.files = job.files
         /\ job'.deltas = job.deltas /\ job'.merged = job.merged
<1>0. /\ job = [op |-> job.op, at |-> job.at, by |-> job.by, files |-> job.files,
                deltas |-> job.deltas, merged |-> job.merged]
      /\ job.by \in Embedders \cup {"none"} /\ job.files \in SUBSET Files /\ job.deltas \in Nat
      /\ job.merged \in BOOLEAN
  BY JobsHave
<1> DEFINE next == [op |-> o, at |-> a, by |-> job.by, files |-> job.files,
                    deltas |-> job.deltas, merged |-> job.merged]
<1>1. job' = next
  BY <1>0, ZenonT(60)
<1>2. next \in Jobs
  BY <1>0, AJob, Zenon
<1>3. next.op = o /\ next.at = a /\ next.by = job.by /\ next.files = job.files
      /\ next.deltas = job.deltas /\ next.merged = job.merged
  OBVIOUS
<1> HIDE DEF next
<1> QED
  BY <1>1, <1>2, <1>3

\* A job that goes on keeps what a pass knows of it.
LEMMA StepGoesOn ==
  ASSUME job \in Jobs, NEW a \in Steps, job' = [job EXCEPT !.at = a]
  PROVE  /\ job' \in Jobs /\ job'.op = job.op /\ job'.at = a /\ job'.by = job.by /\ job'.files = job.files
         /\ job'.deltas = job.deltas /\ job'.merged = job.merged
<1>0. /\ job = [op |-> job.op, at |-> job.at, by |-> job.by, files |-> job.files,
                deltas |-> job.deltas, merged |-> job.merged]
      /\ job.op \in Ops
  BY JobsHave
<1>1. job' = [job EXCEPT !.op = job.op, !.at = a]
  BY <1>0
<1> QED
  BY <1>0, <1>1, JobGoesOn

\* What was counted goes up.
LEMMA CountsHave ==
  ASSUME NEW m \in Counts
  PROVE  /\ m = [chunks |-> m.chunks, frags |-> m.frags, syncs |-> m.syncs, passes |-> m.passes,
                 deaths |-> m.deaths]
         /\ m.chunks \in Nat /\ m.frags \in Nat /\ m.syncs \in Nat /\ m.passes \in Nat /\ m.deaths \in Nat
BY DEF Counts

\* A count that goes up by one stays a count, and the others stay.
LEMMA CountsGoUp ==
  ASSUME made \in Counts, NEW c \in Nat, NEW f \in Nat
  PROVE  /\ LET m == [made EXCEPT !.passes = @ + 1] IN
              m \in Counts /\ m.frags = made.frags /\ m.chunks = made.chunks /\ m.deaths = made.deaths
         /\ LET m == [made EXCEPT !.deaths = @ + 1] IN
              m \in Counts /\ m.frags = made.frags /\ m.deaths = made.deaths + 1
         /\ LET m == [made EXCEPT !.syncs = @ + 1] IN
              m \in Counts /\ m.frags = made.frags /\ m.syncs = made.syncs + 1 /\ m.deaths = made.deaths
         /\ LET m == [made EXCEPT !.frags = f] IN
              m \in Counts /\ m.frags = f /\ m.deaths = made.deaths
         /\ LET m == [made EXCEPT !.chunks = c, !.frags = f] IN
              m \in Counts /\ m.frags = f /\ m.deaths = made.deaths
<1>0. /\ made = [chunks |-> made.chunks, frags |-> made.frags, syncs |-> made.syncs,
                 passes |-> made.passes, deaths |-> made.deaths]
      /\ made.chunks \in Nat /\ made.frags \in Nat /\ made.syncs \in Nat
      /\ made.passes \in Nat /\ made.deaths \in Nat
  BY DEF Counts
<1>1. made.passes + 1 \in Nat /\ made.deaths + 1 \in Nat /\ made.syncs + 1 \in Nat
  BY <1>0
<1>2. ASSUME NEW m, m = [made EXCEPT !.passes = @ + 1]
      PROVE  m = [chunks |-> made.chunks, frags |-> made.frags, syncs |-> made.syncs,
                   passes |-> made.passes + 1, deaths |-> made.deaths]
  BY <1>0, <1>2, ZenonT(60)
<1>3. ASSUME NEW m, m = [made EXCEPT !.deaths = @ + 1]
      PROVE  m = [chunks |-> made.chunks, frags |-> made.frags, syncs |-> made.syncs,
                   passes |-> made.passes, deaths |-> made.deaths + 1]
  BY <1>0, <1>3, ZenonT(60)
<1>4. ASSUME NEW m, m = [made EXCEPT !.syncs = @ + 1]
      PROVE  m = [chunks |-> made.chunks, frags |-> made.frags, syncs |-> made.syncs + 1,
                   passes |-> made.passes, deaths |-> made.deaths]
  BY <1>0, <1>4, ZenonT(60)
<1>5. ASSUME NEW m, m = [made EXCEPT !.frags = f]
      PROVE  m = [chunks |-> made.chunks, frags |-> f, syncs |-> made.syncs,
                   passes |-> made.passes, deaths |-> made.deaths]
  BY <1>0, <1>5, ZenonT(60)
<1>6. ASSUME NEW m, m = [made EXCEPT !.chunks = c, !.frags = f]
      PROVE  m = [chunks |-> c, frags |-> f, syncs |-> made.syncs,
                   passes |-> made.passes, deaths |-> made.deaths]
  BY <1>0, <1>6, ZenonT(60)
<1> QED
  BY <1>0, <1>1, <1>2, <1>3, <1>4, <1>5, <1>6 DEF Counts

\* Steps that leave the log alone.
LEMMA LogStays ==
  ASSUME TableInv, UNCHANGED <<log, kept, disk, content>>, made'.frags = made.frags,
         store'.meta = store.meta \/ store.meta = {}, now' \in Nat, now <= now',
         store' \in Directories,
         made' \in Counts,
         job' \in Jobs,
         limits' = limits, OpenedByOne', PassGoesOn'
  PROVE  TableInv'
<1>1. /\ log' \in Seq(Version) /\ (kept \subseteq DOMAIN log)' /\ disk' \subseteq Nat
      /\ VersionsHold' /\ DiskIsNamed' /\ KeptAreWhole'
  BY OthersKeepVersions DEF TableInv
<1>2. content \subseteq Chunk /\ limits \in Bounds /\ UNCHANGED <<content, limits>>
  BY DEF TableInv, TableTypes
<1>4. TableTypes'
  BY <1>1, <1>2 DEF TableTypes
<1>3. NothingLost' /\ DeltasBounded'
  BY DEF TableInv, NothingLost, count, DeltasBounded, Latest
<1> QED
  BY <1>1, <1>4, <1>3 DEF TableInv

\* Nothing in a pass is said of a job that is not one.
LEMMA NotInAPass ==
  ASSUME job.op # "maintain", job.at \notin {"drop", "index", "compact", "ann", "prune", "pruned"}
  PROVE  PassGoesOn
BY DEF PassGoesOn

\* Opening, probing and closing the stores (new, table_exists, check_identity, closes).
LEMMA OpeningKeeps ==
  ASSUME TableInv, new \/ table_exists \/ check_identity
  PROVE  TableInv'
<1>1. CASE new
  <2>1. PICK e \in limits.embedders : job' = [NoJob EXCEPT !.op = "new", !.at = "table", !.by = e]
    BY <1>1 DEF new
  <2>2. e \in Embedders
    BY TableAssumption DEF TableInv, TableTypes
  <2>3. job' = [op |-> "new", at |-> "table", by |-> e, files |-> {}, deltas |-> 0, merged |-> FALSE]
    BY <2>1 DEF NoJob
  <2>4. UNCHANGED <<store, log, kept, disk, content, made, now, limits>>
    BY <1>1 DEF new
  <2>5. OpenedByOne'
    BY <2>2, <2>3, <2>4 DEF OpenedByOne, TableInv
  <2>6. PassGoesOn'
    BY <2>3 DEF PassGoesOn
  <2>7. /\ store' \in Directories /\ now' \in Nat /\ now <= now'
        /\ made' \in Counts
    BY <2>4 DEF TableInv, TableTypes
  <2>8. job' \in Jobs
    <3>1. "table" \in Steps
      BY DEF Steps
    <3>2. "new" \in Ops /\ e \in Embedders \cup {"none"}
      BY <2>2 DEF Ops
    <3>3. 0 \in Nat /\ {} \in SUBSET Files /\ FALSE \in BOOLEAN
      OBVIOUS
    <3> QED
      BY <2>3, <3>1, <3>2, <3>3, AJob, Zenon
  <2> QED
    BY <2>2, <2>4, <2>5, <2>6, <2>7, <2>8, LogStays
<1>2. CASE table_exists
  <2>1. /\ job.op = "new" /\ job.at = "table" /\ store.table
        /\ job' = [job EXCEPT !.at = "identity"]
        /\ UNCHANGED <<store, log, kept, disk, content, made, now, limits>>
    BY <1>2 DEF table_exists, Opening
  <2>2. /\ job' \in Jobs
        /\ job'.op = "new" /\ job'.at = "identity" /\ job'.by = job.by
    <3>1. job \in Jobs
      BY DEF TableInv, TableTypes
    <3>2. "identity" \in Steps
      BY DEF Steps
    <3> QED
      BY <2>1, <3>1, <3>2, StepGoesOn
  <2>5. OpenedByOne'
    BY <2>1, <2>2 DEF OpenedByOne, TableInv
  <2>6. PassGoesOn'
    BY <2>2 DEF PassGoesOn
  <2>7. /\ store' \in Directories /\ now' \in Nat /\ now <= now'
        /\ made' \in Counts
    BY <2>1 DEF TableInv, TableTypes
  <2> QED
    BY <2>1, <2>2, <2>5, <2>6, <2>7, LogStays
<1>3. CASE check_identity
  <2>1. /\ job.op = "new" /\ job.at = "identity"
        /\ store' = [store EXCEPT !.meta = IF @ = {} THEN {job.by} ELSE @]
        /\ job' = IF store'.meta = {job.by} THEN [job EXCEPT !.op = "open", !.at = "open"] ELSE NoJob
        /\ UNCHANGED <<log, kept, disk, content, made, now, limits>>
    BY <1>3 DEF check_identity, Opening
  <2>2. /\ store \in Directories /\ job.by \in Embedders
        /\ job \in Jobs
        /\ log # <<>> /\ store.table
    BY <2>1 DEF TableInv, TableTypes, OpenedByOne
  <2>3. /\ store' \in Directories
        /\ store'.meta = store.meta \/ store.meta = {}
        /\ store'.table = store.table /\ store'.dim = store.dim
    <3>1. store = [table |-> store.table, dim |-> store.dim, meta |-> store.meta]
          /\ store.table \in BOOLEAN /\ store.dim \in Nat /\ store.meta \in SUBSET Embedders
      BY <2>2 DEF Directories
    <3> DEFINE meta == IF store.meta = {} THEN {job.by} ELSE store.meta
               next == [table |-> store.table, dim |-> store.dim, meta |-> meta]
    <3>2. meta \in SUBSET Embedders
      BY <2>2, <3>1
    <3>3. store' = next
      BY <2>1, <3>1, ZenonT(60)
    <3> HIDE DEF meta
    <3>4. next \in Directories /\ next.meta = meta /\ next.table = store.table /\ next.dim = store.dim
      BY <3>1, <3>2 DEF Directories
    <3> QED
      BY <3>3, <3>4 DEF meta
  <2>4. /\ job' \in Jobs
        /\ \/ /\ store'.meta = {job.by} /\ job'.op = "open" /\ job'.at = "open" /\ job'.by = job.by
           \/ job' = NoJob
    <3>1. ASSUME job' = [job EXCEPT !.op = "open", !.at = "open"]
          PROVE  job'.op = "open" /\ job'.at = "open" /\ job'.by = job.by /\ job' \in Jobs
      <4>1. "open" \in Steps
        BY DEF Steps
      <4>2. "open" \in Ops
        BY DEF Ops
      <4> QED
        BY <2>2, <3>1, <4>1, <4>2, JobGoesOn
    <3> QED
      BY <2>1, <3>1, AJob
  <2>5. job' \in Jobs
    BY <2>4
  <2>6. OpenedByOne'
    BY <2>1, <2>2, <2>3, <2>4 DEF OpenedByOne, NoJob, TableInv
  <2>7. PassGoesOn'
    BY <2>4 DEF PassGoesOn, NoJob
  <2>8. /\ now' \in Nat /\ now <= now'
        /\ made' \in Counts
    BY <2>1 DEF TableInv, TableTypes
  <2> QED
    BY <2>1, <2>3, <2>5, <2>6, <2>7, <2>8, LogStays
<1> QED
  BY <1>1, <1>2, <1>3

\* A death and the passing of time.
LEMMA RestKeeps ==
  ASSUME TableInv, maintain \/ closes \/ Dies \/ Tick
  PROVE  TableInv'
<1>0. store \in Directories /\ made \in Counts /\ job \in Jobs /\ now \in Nat /\ log \in Seq(Version)
  BY DEF TableInv, TableTypes
<1>1. CASE maintain
  <2>1. /\ job.op = "open" /\ job.at = "open"
        /\ made' = [made EXCEPT !.passes = @ + 1]
        /\ job' = [job EXCEPT !.op = "maintain", !.at = "drop",
                        !.deltas = Len(Latest.ann), !.merged = Len(Latest.ann) > MaxDeltas]
        /\ UNCHANGED <<store, log, kept, disk, content, now, limits>>
    BY <1>1 DEF maintain, Ready
  <2>2. log # <<>> /\ Len(Latest.ann) \in Nat
    <3>1. log # <<>>
      BY <2>1 DEF TableInv, OpenedByOne
    <3>2. Latest.ann \in Seq(SUBSET Nat)
      BY <1>0, <3>1, TheNewest DEF Version
    <3> QED
      BY <3>1, <3>2
  <2>3. job' \in Jobs /\ job'.op = "maintain" /\ job'.at = "drop" /\ job'.by = job.by
        /\ job'.deltas = Len(Latest.ann) /\ job'.merged = (Len(Latest.ann) > MaxDeltas)
    <3> DEFINE n == Len(Latest.ann)
               more == n > MaxDeltas
               next == [op |-> "maintain", at |-> "drop", by |-> job.by, files |-> job.files,
                        deltas |-> n, merged |-> more]
    <3>1. more \in BOOLEAN /\ n \in Nat
      BY <2>2
    <3>2. job' = [job EXCEPT !.op = "maintain", !.at = "drop", !.deltas = n, !.merged = more]
      BY <2>1
    <3> HIDE DEF more, n
    <3>3. job = [op |-> job.op, at |-> job.at, by |-> job.by, files |-> job.files,
                 deltas |-> job.deltas, merged |-> job.merged]
          /\ job.by \in Embedders \cup {"none"} /\ job.files \in SUBSET Files
      BY <1>0, JobsHave
    <3>4. job' = next
      BY <3>2, <3>3, ZenonT(60)
    <3>5. next \in Jobs
      <4>1. "drop" \in Steps
        BY DEF Steps
      <4>2. "maintain" \in Ops
        BY DEF Ops
      <4> QED
        BY <3>1, <3>3, <4>1, <4>2, AJob, Zenon
    <3> QED
      BY <3>4, <3>5 DEF more, n
  <2>4. made' \in Counts /\ made'.frags = made.frags
    BY <1>0, <2>1, CountsGoUp
  <2>5. OpenedByOne'
    BY <2>1, <2>3 DEF TableInv, OpenedByOne
  <2>6. PassGoesOn'
    BY <2>1, <2>3 DEF PassGoesOn, Latest
  <2> QED
    BY <1>0, <2>1, <2>3, <2>4, <2>5, <2>6, LogStays
<1>2. CASE closes
  <2>1. job' = NoJob /\ UNCHANGED <<store, log, kept, disk, content, made, now, limits>>
    BY <1>2 DEF closes
  <2>2. OpenedByOne' /\ PassGoesOn' /\ job' \in Jobs
    <3>1. job'.op = "none" /\ job'.at = "none"
      BY <2>1 DEF NoJob
    <3>2. OpenedByOne'
      BY <2>1, <3>1 DEF TableInv, OpenedByOne
    <3>3. PassGoesOn'
      BY <3>1 DEF PassGoesOn
    <3> QED
      BY <2>1, <3>2, <3>3, AJob
  <2> QED
    BY <1>0, <2>1, <2>2, LogStays
<1>3. CASE Dies
  <2>1. job' = NoJob /\ UNCHANGED <<store, log, kept, disk, content, now, limits>>
        /\ made' = [made EXCEPT !.deaths = @ + 1]
    BY <1>3 DEF Dies
  <2>2. OpenedByOne' /\ PassGoesOn' /\ job' \in Jobs
    <3>1. job'.op = "none" /\ job'.at = "none"
      BY <2>1 DEF NoJob
    <3>2. OpenedByOne'
      BY <2>1, <3>1 DEF TableInv, OpenedByOne
    <3>3. PassGoesOn'
      BY <3>1 DEF PassGoesOn
    <3> QED
      BY <2>1, <3>2, <3>3, AJob
  <2>3. made' \in Counts /\ made'.frags = made.frags
    BY <1>0, <2>1, CountsGoUp
  <2> QED
    BY <1>0, <2>1, <2>2, <2>3, LogStays
<1>4. CASE Tick
  <2>1. now' = now + 1 /\ UNCHANGED <<store, log, kept, disk, content, made, job, limits>>
    BY <1>4 DEF Tick
  <2>2. OpenedByOne' /\ PassGoesOn'
    BY <2>1 DEF TableInv, OpenedByOne, PassGoesOn, Latest
  <2> QED
    BY <1>0, <2>1, <2>2, LogStays
<1> QED
  BY <1>1, <1>2, <1>3, <1>4

-----------------------------------------------------------------------------
(* Writes of the table.                                                    *)

\* What is known of the newest version.
LEMMA NewestHolds ==
  ASSUME TableInv, log # <<>>
  PROVE  /\ Latest \in Version /\ Latest.frags \in Seq(Fragment) /\ Latest.ann \in Seq(SUBSET Nat)
         /\ Latest.scalar \in Scalars /\ DistinctIds(Latest) /\ FragIds(Latest) \subseteq disk
         /\ FragIds(Latest) \subseteq Nat /\ \A id \in FragIds(Latest) : id <= made.frags
         /\ Rows(Latest) = content /\ content \subseteq Chunk
         /\ \A c \in content : store.meta = {c.by}
         /\ Len(Latest.ann) <= MaxDeltas + 1
<1>1. log \in Seq(Version) /\ content \subseteq Chunk
  BY DEF TableInv, TableTypes
<1>2. Latest \in Version /\ Len(log) \in DOMAIN log
  BY <1>1, TheNewest
<1>3. DistinctIds(Latest) /\ (\A id \in FragIds(Latest) : id <= made.frags)
      /\ \A c \in Rows(Latest) : store.meta = {c.by}
  BY <1>2 DEF TableInv, VersionsHold, Latest
<1>4. FragIds(Latest) \subseteq disk
  BY <1>2 DEF TableInv, KeptAreWhole, Latest
<1>5. Rows(Latest) = content /\ Len(Latest.ann) <= MaxDeltas + 1
  BY DEF TableInv, NothingLost, DeltasBounded
<1>6. Latest.frags \in Seq(Fragment) /\ Latest.ann \in Seq(SUBSET Nat) /\ Latest.scalar \in Scalars
  BY <1>2 DEF Version
<1>7. FragIds(Latest) \subseteq Nat
  BY <1>2, IdsAreNumbers
<1> QED
  BY <1>1, <1>2, <1>3, <1>4, <1>5, <1>6, <1>7

\* A write of the chunks there are keeps the invariant.
LEMMA WriteKeeps ==
  ASSUME TableInv, NEW v \in Version, DistinctIds(v), Publish(v), disk' = disk \cup FragIds(v),
         made' \in Counts, made.frags <= made'.frags, \A id \in FragIds(v) : id <= made'.frags,
         store' \in Directories, store'.meta = store.meta, \A c \in Rows(v) : store.meta = {c.by},
         content' = Rows(v), Len(v.ann) <= MaxDeltas + 1, job' \in Jobs, UNCHANGED <<limits, now>>,
         OpenedByOne', PassGoesOn'
  PROVE  TableInv'
<1>1. log \in Seq(Version) /\ now \in Nat /\ limits \in Bounds /\ made'.frags \in Nat
  BY CountsHave DEF TableInv, TableTypes
<1>2. /\ log' \in Seq(Version) /\ (kept \subseteq DOMAIN log)' /\ disk' \subseteq Nat
      /\ VersionsHold' /\ DiskIsNamed' /\ KeptAreWhole'
  BY <1>1, WritesKeepVersions DEF TableInv
<1>3. Latest'.ann = v.ann /\ Rows(Latest') = Rows(v) /\ log' # <<>>
  BY <1>1, PublishAdds
<1>4. content' \subseteq Chunk
  BY IdsAreNumbers
<1>5. TableTypes'
  BY <1>1, <1>2, <1>4 DEF TableTypes
<1>6. NothingLost' /\ DeltasBounded'
  BY <1>3 DEF NothingLost, count, DeltasBounded
<1> QED
  BY <1>2, <1>5, <1>6 DEF TableInv

\* A write that leaves the fragments alone.
LEMMA IndexWriteKeeps ==
  ASSUME TableInv, log # <<>>, NEW v \in Version, v.frags = Latest.frags, Publish(v),
         Len(v.ann) <= MaxDeltas + 1, job' \in Jobs, UNCHANGED <<store, disk, content, made, limits, now>>,
         OpenedByOne', PassGoesOn'
  PROVE  TableInv'
<1>1. /\ DistinctIds(Latest) /\ FragIds(Latest) \subseteq disk
      /\ \A id \in FragIds(Latest) : id <= made.frags
      /\ Rows(Latest) = content /\ \A c \in content : store.meta = {c.by}
  BY NewestHolds
<1>2. DistinctIds(v) /\ FragIds(v) = FragIds(Latest) /\ Rows(v) = Rows(Latest)
  BY <1>1 DEF DistinctIds, FragIds, Rows
<1>3. store \in Directories /\ made \in Counts /\ made.frags \in Nat
  BY CountsHave DEF TableInv, TableTypes
<1>4. made.frags <= made'.frags /\ disk' = disk \cup FragIds(v)
  BY <1>1, <1>2, <1>3
<1> QED
  BY <1>1, <1>2, <1>3, <1>4, WriteKeeps

-----------------------------------------------------------------------------
(* The steps of the table, of maintenance and of the writer.               *)

\* A table is made with no rows; its indices are made one after the other.
LEMMA MakingKeeps ==
  ASSUME TableInv, create_table \/ create_indices
  PROVE  TableInv'
<1>0. /\ store \in Directories /\ made \in Counts /\ job \in Jobs /\ now \in Nat /\ log \in Seq(Version)
      /\ MaxDeltas \in Nat
  BY TableAssumption DEF TableInv, TableTypes
<1>1. CASE create_table
  <2>1. /\ job.op = "new" /\ job.at = "table" /\ ~store.table
        /\ store' = [store EXCEPT !.table = TRUE, !.dim = Dim[job.by]]
        /\ Publish(Empty) /\ job' = [job EXCEPT !.at = "indices"]
        /\ UNCHANGED <<disk, content, made, now, limits>>
    BY <1>1 DEF create_table, Opening
  <2>2. log = <<>> /\ content = {} /\ store.meta = {} /\ job.by \in Embedders
    BY <2>1 DEF TableInv, OpenedByOne
  <2>3. Empty \in Version /\ DistinctIds(Empty) /\ FragIds(Empty) = {} /\ Rows(Empty) = {}
        /\ Empty.ann = <<>> /\ DOMAIN Empty.scalar = {}
    <3>1. Empty.scalar \in Scalars /\ DOMAIN Empty.scalar = {}
      BY DEF Empty, Scalars
    <3>2. Empty.frags = <<>> /\ Empty.ann = <<>> /\ Empty.old \in BOOLEAN /\ Empty.made \in Nat
          /\ Empty.frags \in Seq(Fragment) /\ Empty.ann \in Seq(SUBSET Nat)
      BY TableAssumption DEF Empty
    <3>3. Empty \in Version
      BY <3>1, <3>2 DEF Version, Empty
    <3>4. ToSet(Empty.frags) = {}
      BY <3>2 DEF ToSet
    <3> QED
      BY <3>1, <3>2, <3>3, <3>4 DEF DistinctIds, FragIds, Rows
  <2>4. store' \in Directories /\ store'.meta = store.meta /\ store'.table
    <3>1. store = [table |-> store.table, dim |-> store.dim, meta |-> store.meta]
          /\ store.meta \in SUBSET Embedders
      BY <1>0 DEF Directories
    <3>2. store' = [table |-> TRUE, dim |-> Dim[job.by], meta |-> store.meta]
      BY <2>1, <3>1, ZenonT(60)
    <3>3. Dim[job.by] \in Nat
      BY <2>2, TableAssumption
    <3> QED
      BY <3>1, <3>2, <3>3 DEF Directories
  <2>5. job' \in Jobs /\ job'.op = "new" /\ job'.at = "indices" /\ job'.by = job.by
    <3>1. "indices" \in Steps
      BY DEF Steps
    <3> QED
      BY <1>0, <2>1, <3>1, StepGoesOn
  <2>6. log' # <<>> /\ Latest'.scalar = Empty.scalar
    BY <1>0, <2>1, <2>3, PublishAdds
  <2>7. OpenedByOne'
    BY <2>2, <2>3, <2>4, <2>5, <2>6 DEF OpenedByOne
  <2>8. PassGoesOn'
    BY <2>5 DEF PassGoesOn
  <2>9. /\ disk' = disk \cup FragIds(Empty) /\ made' \in Counts /\ made.frags \in Nat
        /\ made.frags <= made'.frags /\ content' = Rows(Empty) /\ Len(Empty.ann) <= MaxDeltas + 1
    <3>1. made.frags \in Nat /\ made' = made
      BY <1>0, <2>1, CountsHave
    <3>2. disk' = disk \cup FragIds(Empty) /\ content' = Rows(Empty)
      BY <2>1, <2>2, <2>3
    <3> QED
      BY <1>0, <2>3, <3>1, <3>2
  <2> DEFINE v == Empty
  <2>10. v = Empty
    OBVIOUS
  <2> HIDE DEF v
  <2> QED
    BY <2>1, <2>3, <2>4, <2>5, <2>7, <2>8, <2>9, <2>10, WriteKeeps
<1>2. CASE create_indices
  <2> DEFINE k == Cardinality(DOMAIN Latest.scalar) + 1
             cols == {SCALAR_INDEX_COLUMNS[i] : i \in 1..k}
             empty == [c \in cols |-> {}]
             v == [Latest EXCEPT !.scalar = empty]
             next == IF k = Len(SCALAR_INDEX_COLUMNS) THEN "identity" ELSE "indices"
  <2>1. /\ job.op = "new" /\ job.at = "indices" /\ Publish(v)
        /\ job' = [job EXCEPT !.at = next]
        /\ UNCHANGED <<store, disk, content, made, now, limits>>
    BY <1>2 DEF create_indices, Opening
  <2>2. log # <<>> /\ job.by \in Embedders /\ DOMAIN Latest.scalar \in {{}, {"id"}} /\ store.table
    BY <2>1 DEF TableInv, OpenedByOne
  <2>3. \/ cols = {"id"} /\ next = "indices"
        \/ cols = {"id", "file_path"} /\ next = "identity"
    <3>1. k = 1 \/ k = 2
      <4>1. Cardinality({}) = 0 /\ Cardinality({"id"}) = 1
        BY FS_EmptySet, FS_Singleton
      <4> QED
        BY <2>2, <4>1
    <3> HIDE DEF k
    <3>2. CASE k = 1
      <4>1. 1..k = {1}
        BY <3>2
      <4> QED
        BY <3>2, <4>1 DEF SCALAR_INDEX_COLUMNS
    <3>3. CASE k = 2
      <4>1. 1..k = {1, 2}
        BY <3>3
      <4> QED
        BY <3>3, <4>1 DEF SCALAR_INDEX_COLUMNS
    <3> QED
      BY <3>1, <3>2, <3>3
  <2> HIDE DEF k, next
  <2>4. empty \in Scalars /\ DOMAIN empty = cols
    BY <2>3 DEF Scalars
  <2> HIDE DEF cols, empty
  <2>5. /\ v \in Version /\ v.frags = Latest.frags /\ v.ann = Latest.ann /\ v.scalar = empty
        /\ Len(v.ann) <= MaxDeltas + 1
    <3>1. Latest \in Version /\ Len(Latest.ann) <= MaxDeltas + 1
      BY <2>2, NewestHolds
    <3> QED
      BY <2>4, <3>1 DEF Version
  <2> HIDE DEF v
  <2>6. job' \in Jobs /\ job'.op = "new" /\ job'.at = next /\ job'.by = job.by
    <3>1. next \in Steps
      BY <2>3 DEF Steps
    <3> QED
      BY <1>0, <2>1, <3>1, StepGoesOn
  <2>7. log' # <<>> /\ Latest'.scalar = empty
    BY <1>0, <2>1, <2>5, PublishAdds
  <2>8. OpenedByOne'
    BY <2>1, <2>2, <2>3, <2>4, <2>6, <2>7 DEF OpenedByOne
  <2>9. PassGoesOn'
    BY <2>3, <2>6 DEF PassGoesOn
  <2> QED
    BY <2>1, <2>2, <2>5, <2>6, <2>8, <2>9, IndexWriteKeeps
<1> QED
  BY <1>1, <1>2

\* A pass: the old index goes, the indices are extended.
LEMMA ExtendingKeeps ==
  ASSUME TableInv, drop_unused \/ extend_indices
  PROVE  TableInv'
<1>0. /\ store \in Directories /\ made \in Counts /\ job \in Jobs /\ now \in Nat /\ log \in Seq(Version)
      /\ MaxDeltas \in Nat /\ disk \subseteq Nat
  BY TableAssumption DEF TableInv, TableTypes
<1>1. ASSUME NEW step \in Steps, job.op = "maintain", Goes(step)
      PROVE  job' \in Jobs /\ job'.op = "maintain" /\ job'.at = step /\ job'.by = job.by
             /\ job'.deltas = job.deltas /\ job'.merged = job.merged
  BY <1>0, <1>1, StepGoesOn DEF Goes
<1>2. ASSUME job.op = "maintain", NEW step \in {"index", "compact"}, Goes(step), store' = store,
             log' # <<>>, content' = content
      PROVE  OpenedByOne'
  <2>1. job' \in Jobs /\ job'.op = "maintain" /\ job'.at = step /\ job'.by = job.by
    BY <1>1, <1>2 DEF Steps
  <2> QED
    BY <1>2, <2>1 DEF TableInv, OpenedByOne
<1>3. CASE drop_unused
  <2> DEFINE v == [Latest EXCEPT !.old = FALSE]
  <2>1. /\ job.op = "maintain" /\ job.at = "drop" /\ Goes("index")
        /\ IF Latest.old THEN Publish(v) ELSE UNCHANGED <<log, kept>>
        /\ UNCHANGED <<store, disk, content, made, now, limits>>
    BY <1>3 DEF drop_unused, Doing
  <2>2. log # <<>> /\ Latest \in Version /\ Len(Latest.ann) <= MaxDeltas + 1
        /\ job.deltas = Len(Latest.ann) /\ job.merged = (job.deltas > MaxDeltas)
    <3>1. log # <<>>
      BY <2>1 DEF TableInv, OpenedByOne
    <3> QED
      BY <2>1, <3>1, NewestHolds DEF TableInv, PassGoesOn
  <2>3. v \in Version /\ v.frags = Latest.frags /\ v.ann = Latest.ann /\ ~v.old
    BY <2>2 DEF Version
  <2> HIDE DEF v
  <2>4. job' \in Jobs /\ job'.op = "maintain" /\ job'.at = "index"
        /\ job'.deltas = job.deltas /\ job'.merged = job.merged
    BY <1>1, <2>1 DEF Steps
  <2>5. CASE Latest.old
    <3>1. log' # <<>> /\ Latest'.ann = Latest.ann /\ ~Latest'.old
      BY <1>0, <2>1, <2>3, <2>5, PublishAdds
    <3>2. OpenedByOne'
      BY <1>2, <2>1, <3>1
    <3>3. PassGoesOn'
      BY <2>2, <2>4, <3>1 DEF PassGoesOn
    <3> QED
      BY <2>1, <2>2, <2>3, <2>4, <2>5, <3>2, <3>3, IndexWriteKeeps
  <2>6. CASE ~Latest.old
    <3>1. UNCHANGED <<log, kept>> /\ Latest' = Latest
      BY <2>1, <2>6 DEF Latest
    <3>2. OpenedByOne'
      BY <1>2, <2>1, <2>2, <3>1
    <3>3. PassGoesOn'
      BY <2>2, <2>4, <2>6, <3>1 DEF PassGoesOn
    <3> QED
      BY <1>0, <2>1, <2>4, <3>1, <3>2, <3>3, LogStays
  <2> QED
    BY <2>5, <2>6
<1>4. CASE extend_indices
  <2> DEFINE ids == FragIds(Latest)
             unseen == ids \ UNION ToSet(Latest.ann)
             sc == [c \in DOMAIN Latest.scalar |-> ids]
             an == IF Latest.ann = <<>> THEN Latest.ann
                   ELSE IF job.deltas > MaxDeltas THEN <<ids>>
                   ELSE IF unseen = {} THEN Latest.ann ELSE Append(Latest.ann, unseen)
             v == [Latest EXCEPT !.scalar = sc, !.ann = an]
  <2>1. /\ job.op = "maintain" /\ job.at = "index" /\ Goes("compact")
        /\ IF v # Latest THEN Publish(v) ELSE UNCHANGED <<log, kept>>
        /\ UNCHANGED <<store, disk, content, made, now, limits>>
    BY <1>4 DEF extend_indices, Doing, Extended
  <2>2. log # <<>> /\ job.deltas = Len(Latest.ann) /\ job.merged = (job.deltas > MaxDeltas)
        /\ ~Latest.old
    BY <2>1 DEF TableInv, OpenedByOne, PassGoesOn
  <2>3. /\ Latest \in Version /\ Latest.ann \in Seq(SUBSET Nat) /\ Latest.scalar \in Scalars
        /\ ids \in SUBSET Nat /\ Len(Latest.ann) <= MaxDeltas + 1
    BY <2>2, NewestHolds
  <2>4. sc \in Scalars
    BY <2>3 DEF Scalars
  <2>5. /\ an \in Seq(SUBSET Nat) /\ Len(an) <= MaxDeltas + 1
        /\ an # <<>> => ids \subseteq UNION ToSet(an)
        /\ job.merged => an = <<ids>>
    <3> DEFINE old == Latest.ann
    <3>0. /\ old \in Seq(SUBSET Nat) /\ ids \in SUBSET Nat /\ unseen \in SUBSET Nat /\ job.deltas = Len(old)
          /\ unseen = ids \ UNION ToSet(old) /\ Len(old) <= MaxDeltas + 1
          /\ an = IF old = <<>> THEN old ELSE IF job.deltas > MaxDeltas THEN <<ids>>
                  ELSE IF unseen = {} THEN old ELSE Append(old, unseen)
      BY <2>2, <2>3
    <3> DEFINE Sets == SUBSET Nat
    <3>a. old \in Seq(Sets) /\ ids \in Sets /\ unseen \in Sets
      BY <3>0
    <3> HIDE DEF an, ids, unseen, old, Sets
    <3>1. CASE old = <<>>
      <4>1. ~(job.deltas > MaxDeltas) /\ Len(old) = 0
        BY <1>0, <3>0, <3>1
      <4>2. ~job.merged /\ an = <<>>
        BY <2>2, <3>0, <3>1, <4>1
      <4>3. an \in Seq(SUBSET Nat) /\ Len(an) <= MaxDeltas + 1
        BY <1>0, <3>0, <3>1, <4>2
      <4> QED
        BY <4>2, <4>3
    <3>2. CASE old # <<>> /\ job.deltas > MaxDeltas
      <4>1. an = <<ids>>
        BY <3>0, <3>2
      <4>2. ToSet(<<ids>>) = {ids}
        BY DEF ToSet
      <4>3. an \in Seq(Sets) /\ Len(an) = 1
        BY <3>a, <4>1
      <4>4. ids \subseteq UNION ToSet(an)
        BY <4>1, <4>2
      <4> QED
        BY <1>0, <4>1, <4>3, <4>4 DEF Sets
    <3>3. CASE old # <<>> /\ ~(job.deltas > MaxDeltas) /\ unseen = {}
      <4>1. an = old /\ ~job.merged
        BY <2>2, <3>0, <3>3
      <4>2. ids \subseteq UNION ToSet(an)
        BY <3>0, <3>3, <4>1
      <4> QED
        BY <3>0, <4>1, <4>2
    <3>4. CASE old # <<>> /\ ~(job.deltas > MaxDeltas) /\ unseen # {}
      <4>1. an = Append(old, unseen) /\ ~job.merged
        BY <2>2, <3>0, <3>4
      <4>2. ToSet(an) = ToSet(old) \cup {unseen}
        BY <3>a, <4>1, AppendedElements
      <4>3. UNION ToSet(an) = (UNION ToSet(old)) \cup unseen
        BY <4>2
      <4>4. ids \subseteq UNION ToSet(an)
        BY <3>0, <4>3
      <4>5. an \in Seq(SUBSET Nat) /\ Len(an) = Len(old) + 1
        BY <3>0, <4>1
      <4>6. Len(old) \in Nat /\ ~(Len(old) > MaxDeltas)
        BY <3>0, <3>4
      <4>7. Len(an) <= MaxDeltas + 1
        BY <1>0, <4>5, <4>6
      <4> QED
        BY <4>1, <4>4, <4>5, <4>7
    <3> QED
      BY <3>1, <3>2, <3>3, <3>4
  <2>6. /\ \A c \in DOMAIN sc : ids \subseteq sc[c]
    OBVIOUS
  <2> HIDE DEF sc, an
  <2>7. v \in Version /\ v.frags = Latest.frags /\ v.ann = an /\ v.scalar = sc /\ v.old = Latest.old
    BY <2>3, <2>4, <2>5 DEF Version
  <2>8. FragIds(v) = ids
    BY <2>7 DEF FragIds
  <2> HIDE DEF v
  <2>9. job' \in Jobs /\ job'.op = "maintain" /\ job'.at = "compact"
        /\ job'.deltas = job.deltas /\ job'.merged = job.merged
    BY <1>1, <2>1 DEF Steps
  <2>10. log' # <<>> /\ Latest'.ann = an /\ Latest'.scalar = sc /\ FragIds(Latest') = ids
         /\ Latest'.old = Latest.old
    <3>1. CASE v # Latest
      BY <1>0, <2>1, <2>7, <2>8, <3>1, PublishAdds
    <3>2. CASE v = Latest
      <4>1. log' = log /\ Latest' = Latest
        BY <2>1, <3>2 DEF Latest
      <4> QED
        BY <2>2, <2>7, <3>2, <4>1
    <3> QED
      BY <3>1, <3>2
  <2>11. Covered(Latest')
    BY <2>5, <2>6, <2>10 DEF Covered
  <2>12. PassGoesOn'
    <3>1. job'.merged => Latest'.ann = <<FragIds(Latest')>>
      BY <2>5, <2>9, <2>10
    <3> QED
      BY <2>2, <2>9, <2>10, <2>11, <3>1 DEF PassGoesOn
  <2>13. OpenedByOne'
    BY <1>2, <2>1, <2>10
  <2>14. CASE v # Latest
    BY <2>1, <2>2, <2>5, <2>7, <2>9, <2>12, <2>13, <2>14, IndexWriteKeeps
  <2>15. CASE v = Latest
    <3>1. UNCHANGED <<log, kept>>
      BY <2>1, <2>15
    <3> QED
      BY <1>0, <2>1, <2>9, <2>12, <2>13, <3>1, LogStays
  <2> QED
    BY <2>14, <2>15
<1> QED
  BY <1>3, <1>4

\* Neighbours of the same deltas.
LEMMA MergedDeltasAgree ==
  ASSUME NEW v \in Version, v.ann = <<FragIds(v)>>
  PROVE  \A i, j \in DOMAIN v.frags : DeltasOf(v, v.frags[i]) = DeltasOf(v, v.frags[j])
<1>1. \A i \in DOMAIN v.frags : v.frags[i].id \in FragIds(v)
  BY DEF FragIds, ToSet
<1>2. DOMAIN v.ann = {1} /\ v.ann[1] = FragIds(v)
  OBVIOUS
<1>3. \A i \in DOMAIN v.frags : DeltasOf(v, v.frags[i]) = {1}
  BY <1>1, <1>2 DEF DeltasOf
<1> QED
  BY <1>3

\* Where there is nothing to merge, no two neighbours of the same deltas are small.
LEMMA NoBinsNoNeighbours ==
  ASSUME NEW v \in Version, Bins(v) = {},
         \A i, j \in DOMAIN v.frags : DeltasOf(v, v.frags[i]) = DeltasOf(v, v.frags[j])
  PROVE  NoSmallNeighbours(v)
<1>1. v.frags \in Seq(Fragment) /\ Len(v.frags) \in Nat /\ DOMAIN v.frags = 1..Len(v.frags)
  BY DEF Version
<1> SUFFICES ASSUME NEW i \in 1..(Len(v.frags) - 1), Small(v.frags[i]), Small(v.frags[i + 1])
             PROVE  FALSE
  BY DEF NoSmallNeighbours
<1>2. i \in Nat /\ i \in DOMAIN v.frags /\ i + 1 \in DOMAIN v.frags /\ i..(i + 1) = {i, i + 1}
  BY <1>1
<1>3. Binned(v, i, i + 1)
  BY <1>2 DEF Binned
<1> QED
  BY <1>2, <1>3, NeighboursAreBinned

\* Compaction: rows and cover stay, and after a merge of the deltas no two small
\* neighbours are left (optimize_indices, compact).
LEMMA CompactKeeps ==
  ASSUME TableInv, compact
  PROVE  TableInv'
<1>0. /\ store \in Directories /\ made \in Counts /\ job \in Jobs /\ now \in Nat /\ log \in Seq(Version)
      /\ made.frags \in Nat
  BY CountsHave DEF TableInv, TableTypes
<1> DEFINE v == Compacted(Latest, made.frags)
           worth == Cardinality(SmallOnes(Latest)) >= MinSmall /\ Bins(Latest) # {}
<1>1. /\ job.op = "maintain" /\ job.at = "compact" /\ job' = [job EXCEPT !.at = "ann"]
      /\ worth => /\ Publish(v) /\ disk' = disk \cup FragIds(v)
                  /\ made' = [made EXCEPT !.frags = @ + Len(Latest.frags)]
      /\ ~worth => UNCHANGED <<log, kept, disk, made>>
      /\ UNCHANGED <<store, content, now, limits>>
  BY DEF compact, Doing, Goes
<1>2. log # <<>> /\ ~Latest.old /\ Covered(Latest) /\ store.meta = {job.by} /\ job.by \in Embedders
      /\ store.table /\ (job.merged => Latest.ann = <<FragIds(Latest)>>)
  BY <1>1 DEF TableInv, OpenedByOne, PassGoesOn
<1>3. job' \in Jobs /\ job'.op = "maintain" /\ job'.at = "ann" /\ job'.by = job.by
      /\ job'.merged = job.merged
  <2>1. "ann" \in Steps
    BY DEF Steps
  <2> QED
    BY <1>0, <1>1, <2>1, StepGoesOn
<1>4. /\ Latest \in Version /\ Latest.frags \in Seq(Fragment) /\ Latest.ann \in Seq(SUBSET Nat)
      /\ DistinctIds(Latest) /\ (\A id \in FragIds(Latest) : id <= made.frags)
      /\ Rows(Latest) = content /\ \A c \in content : store.meta = {c.by}
      /\ Len(Latest.ann) <= MaxDeltas + 1
  BY <1>2, NewestHolds
<1>5. /\ v \in Version /\ DistinctIds(v) /\ Rows(v) = content /\ Len(v.ann) = Len(Latest.ann)
      /\ \A id \in FragIds(v) : id <= made.frags + Len(Latest.frags)
      /\ v.old = Latest.old
      /\ \A ids : FragIds(Latest) \subseteq ids => FragIds(v) \subseteq Moved(Latest, made.frags, ids)
      /\ FragIds(Latest) \subseteq UNION ToSet(Latest.ann) => FragIds(v) \subseteq UNION ToSet(v.ann)
      /\ DOMAIN v.scalar = DOMAIN Latest.scalar
      /\ \A c \in DOMAIN Latest.scalar : v.scalar[c] = Moved(Latest, made.frags, Latest.scalar[c])
  BY <1>0, <1>4, CompactionKeepsRows
<1>6. job.merged => NoSmallNeighbours(v) /\ (Bins(Latest) = {} => NoSmallNeighbours(Latest))
  BY <1>0, <1>2, <1>4, MergedDeltasAgree, CompactionJoinsNeighbours, NoBinsNoNeighbours
<1>7. Covered(v)
  <2>1. \A c \in DOMAIN v.scalar : FragIds(v) \subseteq v.scalar[c]
    BY <1>2, <1>5 DEF Covered
  <2>2. v.ann # <<>> => Latest.ann # <<>>
    BY <1>4, <1>5 DEF Version
  <2> QED
    BY <1>2, <1>5, <2>1, <2>2 DEF Covered
<1> HIDE DEF v, worth
<1>8. CASE worth
  <2>1. made' \in Counts /\ made'.frags = made.frags + Len(Latest.frags)
    <3> DEFINE f == made.frags + Len(Latest.frags)
    <3>1. f \in Nat /\ 0 \in Nat
      BY <1>0, <1>4
    <3>2. made' = [made EXCEPT !.frags = f]
      BY <1>1, <1>8
    <3> HIDE DEF f
    <3>3. [made EXCEPT !.frags = f] \in Counts /\ [made EXCEPT !.frags = f].frags = f
      BY <1>0, <3>1, CountsGoUp
    <3> QED
      BY <3>2, <3>3 DEF f
  <2>2. /\ Latest'.frags = v.frags /\ Latest'.scalar = v.scalar /\ Latest'.ann = v.ann
        /\ Latest'.old = v.old /\ FragIds(Latest') = FragIds(v) /\ log' # <<>>
    BY <1>0, <1>1, <1>5, <1>8, PublishAdds
  <2>3. OpenedByOne'
    BY <1>1, <1>2, <1>3, <2>2 DEF OpenedByOne
  <2>4. Covered(Latest') /\ (job.merged => NoSmallNeighbours(Latest'))
    BY <1>6, <1>7, <2>2 DEF Covered, NoSmallNeighbours
  <2>5. PassGoesOn'
    BY <1>2, <1>3, <1>5, <2>2, <2>4 DEF PassGoesOn
  <2>6. made.frags <= made'.frags /\ (\A id \in FragIds(v) : id <= made'.frags)
    BY <1>0, <1>4, <1>5, <2>1
  <2>7. Len(v.ann) <= MaxDeltas + 1 /\ \A c \in Rows(v) : store.meta = {c.by}
    BY <1>4, <1>5
  <2> QED
    BY <1>0, <1>1, <1>3, <1>5, <1>8, <2>1, <2>3, <2>5, <2>6, <2>7, WriteKeeps
<1>9. CASE ~worth
  <2>1. UNCHANGED <<log, kept, disk, made>> /\ Latest' = Latest
    BY <1>1, <1>9 DEF Latest
  <2>2. OpenedByOne'
    BY <1>1, <1>2, <1>3, <2>1 DEF OpenedByOne
  <2>3. job.merged /\ Cardinality(SmallOnes(Latest)) >= MinSmall => NoSmallNeighbours(Latest)
    BY <1>6, <1>9 DEF worth
  <2>4. PassGoesOn'
    BY <1>2, <1>3, <2>1, <2>3 DEF PassGoesOn
  <2> QED
    BY <1>0, <1>1, <1>3, <2>1, <2>2, <2>4, LogStays
<1> QED
  BY <1>8, <1>9

\* The ANN index is built over all rows, or trained again (ensure_ann_index).
LEMMA AnnKeeps ==
  ASSUME TableInv, ensure_ann_index
  PROVE  TableInv'
<1>0. /\ store \in Directories /\ made \in Counts /\ job \in Jobs /\ now \in Nat /\ log \in Seq(Version)
      /\ MaxDeltas \in Nat
  BY TableAssumption DEF TableInv, TableTypes
<1> DEFINE ids == FragIds(Latest)
           one == <<ids>>
           v == [Latest EXCEPT !.ann = one]
           wanted == /\ job.deltas = 0 /\ AnnMinRows # 0
                  /\ Latest.ann = <<>> /\ Cardinality(Rows(Latest)) >= AnnMinRows
<1>1. /\ job.op = "maintain" /\ job.at = "ann" /\ job' = [job EXCEPT !.at = "prune"]
      /\ wanted => Publish(v)
      /\ ~wanted => UNCHANGED <<log, kept>>
      /\ UNCHANGED <<store, disk, content, made, now, limits>>
  BY DEF ensure_ann_index, Doing, Goes
<1>2. log # <<>> /\ ~Latest.old /\ Covered(Latest) /\ store.meta = {job.by} /\ job.by \in Embedders
      /\ store.table
      /\ (job.merged /\ Cardinality(SmallOnes(Latest)) >= MinSmall => NoSmallNeighbours(Latest))
  BY <1>1 DEF TableInv, OpenedByOne, PassGoesOn
<1>3. job' \in Jobs /\ job'.op = "maintain" /\ job'.at = "prune" /\ job'.by = job.by
      /\ job'.merged = job.merged
  <2>1. "prune" \in Steps
    BY DEF Steps
  <2> QED
    BY <1>0, <1>1, <2>1, StepGoesOn
<1>4. Latest \in Version /\ ids \in SUBSET Nat
  BY <1>2, NewestHolds
<1>5. one \in Seq(SUBSET Nat) /\ Len(one) = 1 /\ ids \subseteq UNION ToSet(one)
  <2> DEFINE Sets == SUBSET Nat
  <2>1. ids \in Sets
    BY <1>4
  <2> HIDE DEF ids, Sets
  <2>2. one \in Seq(Sets) /\ Len(one) = 1
    BY <2>1
  <2>3. ToSet(one) = {ids}
    BY DEF ToSet
  <2> QED
    BY <2>2, <2>3 DEF Sets
<1> HIDE DEF one, wanted
<1>6. v \in Version /\ v.frags = Latest.frags /\ v.ann = one /\ v.scalar = Latest.scalar /\ v.old = Latest.old
  BY <1>4, <1>5 DEF Version
<1>7. FragIds(v) = ids
  BY <1>6 DEF FragIds
<1>8. Covered(v) /\ SmallOnes(v) = SmallOnes(Latest)
      /\ (NoSmallNeighbours(Latest) => NoSmallNeighbours(v))
  BY <1>2, <1>5, <1>6, <1>7 DEF Covered, SmallOnes, NoSmallNeighbours
<1> HIDE DEF v
<1>9. CASE wanted
  <2>1. /\ Latest'.frags = v.frags /\ Latest'.scalar = v.scalar /\ Latest'.ann = v.ann
        /\ Latest'.old = v.old /\ FragIds(Latest') = FragIds(v) /\ log' # <<>>
    BY <1>0, <1>1, <1>6, <1>9, PublishAdds
  <2>2. OpenedByOne'
    BY <1>1, <1>2, <1>3, <2>1 DEF OpenedByOne
  <2>3. Covered(Latest') /\ SmallOnes(Latest') = SmallOnes(v)
        /\ (NoSmallNeighbours(v) => NoSmallNeighbours(Latest'))
    BY <1>8, <2>1 DEF Covered, SmallOnes, NoSmallNeighbours
  <2>4. PassGoesOn'
    BY <1>2, <1>3, <1>6, <1>8, <2>1, <2>3 DEF PassGoesOn
  <2>5. Len(v.ann) <= MaxDeltas + 1
    <3>1. Len(v.ann) = 1
      BY <1>5, <1>6
    <3> QED
      BY <1>0, <3>1
  <2> QED
    BY <1>1, <1>2, <1>3, <1>6, <1>9, <2>2, <2>4, <2>5, IndexWriteKeeps
<1>10. CASE ~wanted
  <2>1. UNCHANGED <<log, kept>> /\ Latest' = Latest
    BY <1>1, <1>10 DEF Latest
  <2>2. OpenedByOne'
    BY <1>1, <1>2, <1>3, <2>1 DEF OpenedByOne
  <2>3. PassGoesOn'
    BY <1>2, <1>3, <2>1 DEF PassGoesOn
  <2> QED
    BY <1>0, <1>1, <1>3, <2>1, <2>2, <2>3, LogStays
<1> QED
  BY <1>9, <1>10

\* Prunes drop what only old versions name.
LEMMA PruneKeeps ==
  ASSUME TableInv, prune
  PROVE  TableInv'
<1>0. /\ store \in Directories /\ made \in Counts /\ job \in Jobs /\ now \in Nat /\ log \in Seq(Version)
      /\ kept \subseteq DOMAIN log /\ disk \subseteq Nat /\ content \subseteq Chunk /\ limits \in Bounds
  BY DEF TableInv, TableTypes
<1>1. /\ job.op = "maintain" /\ job.at = "prune" /\ job' = [job EXCEPT !.op = "open", !.at = "pruned"]
      /\ kept' = kept \ Pruned
      /\ disk' = disk \ ((UNION {FragIds(log[v]) : v \in Pruned}) \ (UNION {FragIds(log[v]) : v \in kept \ Pruned}))
      /\ UNCHANGED <<store, log, content, made, now, limits>>
  BY DEF prune, Doing
<1>2. log # <<>> /\ ~Latest.old /\ Covered(Latest) /\ store.meta = {job.by} /\ job.by \in Embedders
      /\ store.table
      /\ (job.merged /\ Cardinality(SmallOnes(Latest)) >= MinSmall => NoSmallNeighbours(Latest))
  BY <1>1 DEF TableInv, OpenedByOne, PassGoesOn
<1>3. job' \in Jobs /\ job'.op = "open" /\ job'.at = "pruned" /\ job'.by = job.by
      /\ job'.merged = job.merged
  <2>1. "pruned" \in Steps /\ "open" \in Ops
    BY DEF Steps, Ops
  <2> QED
    BY <1>0, <1>1, <2>1, JobGoesOn
<1>4. Latest' = Latest
  BY <1>1 DEF Latest
<1>5. DiskIsNamed'
  <2> DEFINE dropped == UNION {FragIds(log[v]) : v \in Pruned}
             left == UNION {FragIds(log[v]) : v \in kept \ Pruned}
  <2>1. disk = dropped \cup left
    <3>1. Pruned \subseteq kept
      BY DEF Pruned
    <3> QED
      BY <3>1 DEF TableInv, DiskIsNamed
  <2>2. disk' = left
    <3>1. disk' = disk \ (dropped \ left)
      BY <1>1
    <3> HIDE DEF dropped, left
    <3> QED
      BY <2>1, <3>1
  <2> QED
    BY <1>1, <2>2 DEF DiskIsNamed
<1>6. KeptAreWhole'
  <2>1. (log # <<>> => Len(log) \in kept)'
    BY <1>1 DEF TableInv, KeptAreWhole, Pruned
  <2>2. \A v \in kept' : FragIds(log[v]) \subseteq disk'
    BY <1>1, <1>5 DEF DiskIsNamed
  <2>3. \A v \in DOMAIN log : now - log[v].made <= Keep => v \in kept'
    <3> SUFFICES ASSUME NEW v \in DOMAIN log, now - log[v].made <= Keep PROVE v \in kept'
      OBVIOUS
    <3>1. v \in kept
      BY DEF TableInv, KeptAreWhole
    <3>2. log[v].made \in Nat /\ Keep \in Nat
      <4>1. log[v] \in Version /\ Keep \in Nat
        BY <1>0, TableAssumption
      <4> QED
        BY <4>1 DEF Version
    <3>3. v \notin Pruned
      BY <1>0, <3>2 DEF Pruned
    <3> QED
      BY <1>1, <3>1, <3>3
  <2> QED
    BY <1>1, <2>1, <2>2, <2>3 DEF KeptAreWhole
<1>7. VersionsHold' /\ NothingLost' /\ DeltasBounded'
  BY <1>1, <1>4 DEF TableInv, VersionsHold, NothingLost, count, DeltasBounded
<1>8. OpenedByOne'
  BY <1>1, <1>2, <1>3 DEF OpenedByOne
<1>9. PassGoesOn'
  BY <1>2, <1>3, <1>4 DEF PassGoesOn
<1>10. TableTypes'
  BY <1>0, <1>1, <1>3 DEF TableTypes
<1> QED
  BY <1>5, <1>6, <1>7, <1>8, <1>9, <1>10 DEF TableInv

\* A sync takes on the files it writes.
LEMMA JobTakesFiles ==
  ASSUME job \in Jobs, NEW o \in Ops, NEW a \in Steps, NEW f \in SUBSET Files,
         job' = [job EXCEPT !.op = o, !.at = a, !.files = f]
  PROVE  /\ job' \in Jobs /\ job'.op = o /\ job'.at = a /\ job'.by = job.by /\ job'.files = f
<1>0. /\ job = [op |-> job.op, at |-> job.at, by |-> job.by, files |-> job.files,
                deltas |-> job.deltas, merged |-> job.merged]
      /\ job.by \in Embedders \cup {"none"} /\ job.deltas \in Nat /\ job.merged \in BOOLEAN
  BY JobsHave
<1> DEFINE next == [op |-> o, at |-> a, by |-> job.by, files |-> f,
                    deltas |-> job.deltas, merged |-> job.merged]
<1>1. job' = next
  BY <1>0, ZenonT(60)
<1>2. next \in Jobs
  BY <1>0, AJob, Zenon
<1>3. next.op = o /\ next.at = a /\ next.by = job.by /\ next.files = f
  OBVIOUS
<1> HIDE DEF next
<1> QED
  BY <1>1, <1>2, <1>3

\* Deletes.
LEMMA DeletingKeeps ==
  ASSUME TableInv, delete_files_chunks
  PROVE  TableInv'
<1>0. /\ store \in Directories /\ made \in Counts /\ job \in Jobs /\ now \in Nat /\ log \in Seq(Version)
      /\ made.frags \in Nat
  BY CountsHave DEF TableInv, TableTypes
<1>1. /\ job.op = "sync" /\ job.at = "open" /\ made' = [made EXCEPT !.syncs = @ + 1]
      /\ UNCHANGED <<store, disk, limits, now, text, loaded, q, fails>>
  BY DEF delete_files_chunks, Syncing
<1>2. PICK removed \in SUBSET Files, changed \in SUBSET Files :
         /\ delete_by_file_paths(removed \cup changed)
         /\ job' = [job EXCEPT !.at = "insert", !.files = changed]
  BY DEF delete_files_chunks
<1> DEFINE F == removed \cup changed
           v == WithoutFiles(Latest, F)
<1>3. Publish(v) /\ content' = {c \in content : c.file \notin F}
  BY <1>2 DEF delete_by_file_paths
<1>4. log # <<>> /\ store.meta = {job.by} /\ store.table /\ job.by \in Embedders
  BY <1>1 DEF TableInv, OpenedByOne
<1>5. /\ Latest \in Version /\ DistinctIds(Latest) /\ FragIds(Latest) \subseteq disk
      /\ (\A id \in FragIds(Latest) : id <= made.frags)
      /\ Rows(Latest) = content /\ (\A c \in content : store.meta = {c.by})
      /\ Len(Latest.ann) <= MaxDeltas + 1
  BY <1>4, NewestHolds
<1>6. F \in SUBSET Files
  OBVIOUS
<1> HIDE DEF F
<1>7. /\ v \in Version /\ DistinctIds(v) /\ Rows(v) = {c \in Rows(Latest) : c.file \notin F}
      /\ FragIds(v) \subseteq FragIds(Latest) /\ v.ann = Latest.ann
  BY <1>5, <1>6, DeletesTakeFiles
<1> HIDE DEF v
<1>8. job' \in Jobs /\ job'.op = "sync" /\ job'.at = "insert" /\ job'.by = job.by
  <2>1. job' = [job EXCEPT !.op = "sync", !.at = "insert", !.files = changed]
    <3>1. job = [op |-> job.op, at |-> job.at, by |-> job.by, files |-> job.files,
                deltas |-> job.deltas, merged |-> job.merged]
      BY <1>0, JobsHave
    <3> QED
      BY <1>1, <1>2, <3>1
  <2>2. "sync" \in Ops /\ "insert" \in Steps
    BY DEF Ops, Steps
  <2> QED
    BY <1>0, <2>1, <2>2, JobTakesFiles
<1>9. made' \in Counts /\ made'.frags = made.frags
  BY <1>0, <1>1, CountsGoUp
<1>10. log' # <<>>
  BY <1>0, <1>3, <1>7, PublishAdds
<1>11. OpenedByOne'
  BY <1>1, <1>4, <1>8, <1>10 DEF OpenedByOne
<1>12. PassGoesOn'
  BY <1>8 DEF PassGoesOn
<1>13. /\ disk' = disk \cup FragIds(v) /\ made.frags <= made'.frags /\ content' = Rows(v)
       /\ (\A id \in FragIds(v) : id <= made'.frags) /\ Len(v.ann) <= MaxDeltas + 1
       /\ \A c \in Rows(v) : store.meta = {c.by}
  BY <1>0, <1>1, <1>3, <1>5, <1>7, <1>9
<1> QED
  BY <1>0, <1>1, <1>3, <1>7, <1>8, <1>9, <1>11, <1>12, <1>13, WriteKeeps

\* A batch of chunks.
LEMMA InsertingKeeps ==
  ASSUME TableInv, Syncing("insert"), insert_chunks(job.files), job' = [job EXCEPT !.at = "commit"],
         UNCHANGED <<store, limits, now>>
  PROVE  TableInv'
<1>0. /\ store \in Directories /\ made \in Counts /\ job \in Jobs /\ now \in Nat /\ log \in Seq(Version)
      /\ made.frags \in Nat /\ made.syncs \in Nat /\ made.chunks \in Nat /\ job.files \in SUBSET Files
  BY CountsHave, JobsHave DEF TableInv, TableTypes
<1> DEFINE rows == chunks_to_batch(job.files)
           id == made.frags + 1
           v == [Latest EXCEPT !.frags = Append(@, [id |-> id, rows |-> rows, dead |-> {}])]
<1>1. /\ job.op = "sync" /\ job.at = "insert" /\ Publish(v) /\ disk' = disk \cup {id}
      /\ content' = content \cup rows
      /\ made' = [made EXCEPT !.chunks = @ + Cardinality(job.files), !.frags = id]
  BY DEF insert_chunks, Syncing
<1>4. log # <<>> /\ store.meta = {job.by} /\ store.table /\ job.by \in Embedders
  BY <1>1 DEF TableInv, OpenedByOne
<1>5. /\ Latest \in Version /\ DistinctIds(Latest) /\ FragIds(Latest) \subseteq disk
      /\ (\A i \in FragIds(Latest) : i <= made.frags) /\ FragIds(Latest) \subseteq Nat
      /\ Rows(Latest) = content /\ (\A c \in content : store.meta = {c.by})
      /\ Len(Latest.ann) <= MaxDeltas + 1
  BY <1>4, NewestHolds
<1>6. rows \in SUBSET Chunk /\ \A c \in rows : c.by = job.by
  BY <1>0, <1>4 DEF chunks_to_batch, Chunk
<1>7. id \in Nat /\ id \notin FragIds(Latest) /\ made.frags <= id
  BY <1>0, <1>5
<1> HIDE DEF rows, id
<1>8. /\ v \in Version /\ DistinctIds(v) /\ Rows(v) = Rows(Latest) \cup rows
      /\ FragIds(v) = FragIds(Latest) \cup {id} /\ v.ann = Latest.ann
  <2> DEFINE fragment == [id |-> id, rows |-> rows, dead |-> {}]
  <2>1. fragment \in Fragment /\ fragment.id = id /\ Live(fragment) = rows
    BY <1>6, <1>7 DEF Fragment, Live
  <2> HIDE DEF fragment
  <2>2. Append(Latest.frags, fragment) \in Seq(Fragment)
    BY <1>5, <2>1 DEF Version
  <2>3. v = [Latest EXCEPT !.frags = Append(Latest.frags, fragment)]
    BY DEF fragment
  <2> HIDE DEF v
  <2>4. v \in Version /\ v.frags = Append(Latest.frags, fragment) /\ v.ann = Latest.ann
    BY <1>5, <2>2, <2>3 DEF Version
  <2> QED
    BY <1>5, <1>7, <2>1, <2>4, BatchesAddRows
<1> HIDE DEF v
<1>9. job' \in Jobs /\ job'.op = "sync" /\ job'.at = "commit" /\ job'.by = job.by
  <2>1. "commit" \in Steps
    BY DEF Steps
  <2> QED
    BY <1>0, <1>1, <2>1, StepGoesOn
<1>10. made' \in Counts /\ made'.frags = id
  <2> DEFINE n == made.chunks + Cardinality(job.files)
  <2>1. n \in Nat
    <3>1. IsFiniteSet(job.files)
      <4>1. IsFiniteSet(Files)
        BY TableAssumption
      <4> QED
        BY <1>0, <4>1, FS_Subset
    <3>2. Cardinality(job.files) \in Nat
      BY <3>1, FS_CardinalityType
    <3> QED
      BY <1>0, <3>2
  <2>2. made' = [made EXCEPT !.chunks = n, !.frags = id]
    BY <1>1
  <2> HIDE DEF n
  <2>3. [made EXCEPT !.chunks = n, !.frags = id] \in Counts
        /\ [made EXCEPT !.chunks = n, !.frags = id].frags = id
    BY <1>0, <1>7, <2>1, CountsGoUp
  <2> QED
    BY <2>2, <2>3
<1>11. log' # <<>>
  BY <1>0, <1>1, <1>8, PublishAdds
<1>12. OpenedByOne'
  BY <1>1, <1>4, <1>9, <1>11 DEF OpenedByOne
<1>13. PassGoesOn'
  BY <1>9 DEF PassGoesOn
<1>14. /\ disk' = disk \cup FragIds(v) /\ content' = Rows(v)
       /\ Len(v.ann) <= MaxDeltas + 1 /\ \A c \in Rows(v) : store.meta = {c.by}
  BY <1>1, <1>4, <1>5, <1>6, <1>8
<1>15. \A i \in FragIds(v) : i <= id
  <2> SUFFICES ASSUME NEW i \in FragIds(v) PROVE i <= id
    OBVIOUS
  <2>1. i \in Nat /\ (i = id \/ i <= made.frags)
    BY <1>5, <1>7, <1>8
  <2> QED
    BY <1>0, <1>7, <2>1
<1> QED
  BY <1>0, <1>1, <1>7, <1>8, <1>9, <1>10, <1>12, <1>13, <1>14, <1>15, WriteKeeps

\* The other steps of the writer leave the table alone.
LEMMA WriterKeeps ==
  ASSUME TableInv, DocumentsHold, WriterSteps
  PROVE  TableInv'
<1>0. /\ store \in Directories /\ made \in Counts /\ job \in Jobs /\ now \in Nat /\ log \in Seq(Version)
  BY DEF TableInv, TableTypes
<1>1. CASE open_text
  <2>1. /\ job.op = "open" /\ job.at = "open" /\ job' = [job EXCEPT !.op = "sync", !.at = "open"]
        /\ UNCHANGED <<store, log, kept, disk, content, made, limits, now>>
    BY <1>1 DEF open_text, Ready
  <2>2. job' \in Jobs /\ job'.op = "sync" /\ job'.at = "open" /\ job'.by = job.by
    <3>1. "sync" \in Ops /\ "open" \in Steps
      BY DEF Ops, Steps
    <3> QED
      BY <1>0, <2>1, <3>1, JobGoesOn
  <2>3. OpenedByOne'
    BY <2>1, <2>2 DEF TableInv, OpenedByOne
  <2>4. PassGoesOn'
    BY <2>2 DEF PassGoesOn
  <2> QED
    BY <1>0, <2>1, <2>2, <2>3, <2>4, LogStays
<1>2. CASE delete_files_chunks
  BY <1>2, DeletingKeeps
<1>3. CASE index_chunks
  <2>1. Syncing("insert") /\ job.op = "sync" /\ UNCHANGED <<store, limits, now>>
    BY <1>3 DEF index_chunks, Syncing
  <2>2. CASE insert_chunks(job.files) /\ job' = [job EXCEPT !.at = "commit"]
    BY <2>1, <2>2, InsertingKeeps
  <2>3. CASE job' = [job EXCEPT !.at = "commit"] /\ UNCHANGED <<log, kept, disk, content, made>>
    <3>1. job' \in Jobs /\ job'.op = "sync" /\ job'.at = "commit" /\ job'.by = job.by
      <4>1. "commit" \in Steps
        BY DEF Steps
      <4> QED
        BY <1>0, <2>1, <2>3, <4>1, StepGoesOn
    <3>2. OpenedByOne'
      BY <2>1, <2>3, <3>1 DEF TableInv, OpenedByOne
    <3>3. PassGoesOn'
      BY <3>1 DEF PassGoesOn
    <3> QED
      BY <1>0, <2>1, <2>3, <3>1, <3>2, <3>3, LogStays
  <2>4. CASE job' = NoJob /\ UNCHANGED <<log, kept, disk, content, made>>
    <3>1. job'.op = "none" /\ job'.at = "none" /\ job' \in Jobs
      BY <2>4, AJob DEF NoJob
    <3>2. OpenedByOne'
      BY <2>1, <2>4, <3>1 DEF TableInv, OpenedByOne
    <3>3. PassGoesOn'
      BY <3>1 DEF PassGoesOn
    <3> QED
      BY <1>0, <2>1, <2>4, <3>1, <3>2, <3>3, LogStays
  <2> QED
    BY <1>3, <2>2, <2>3, <2>4 DEF index_chunks
<1>4. CASE commit
  <2>1. /\ job.op = "sync" /\ job' = [job EXCEPT !.op = "open", !.at = "open", !.files = {}]
        /\ UNCHANGED <<store, log, kept, disk, content, made, limits, now>>
    BY <1>4 DEF commit, Syncing
  <2>2. job' \in Jobs /\ job'.op = "open" /\ job'.at = "open" /\ job'.by = job.by
    <3>1. "open" \in Ops /\ "open" \in Steps /\ {} \in SUBSET Files
      BY DEF Ops, Steps
    <3> QED
      BY <1>0, <2>1, <3>1, JobTakesFiles
  <2>3. OpenedByOne'
    BY <2>1, <2>2 DEF TableInv, OpenedByOne
  <2>4. PassGoesOn'
    BY <2>2 DEF PassGoesOn
  <2> QED
    BY <1>0, <2>1, <2>2, <2>3, <2>4, LogStays
<1> QED
  BY <1>1, <1>2, <1>3, <1>4 DEF WriterSteps

\* All steps of the table and of maintenance.
LEMMA TableKeeps ==
  ASSUME TableInv, TableSteps
  PROVE  TableInv'
BY OpeningKeeps, RestKeeps, MakingKeeps, ExtendingKeeps, CompactKeeps, AnnKeeps, PruneKeeps DEF TableSteps

-----------------------------------------------------------------------------
(* The documents of the BM25 index.                                        *)

\* What the versions hold stays in the log.
LogGrows == \A v \in DOMAIN log : v \in DOMAIN log' /\ log'[v] = log[v]
InLog(d) == \E v \in DOMAIN log : d \in Docs(log[v])

\* A published version is added to the log.
LEMMA PublishGrows ==
  ASSUME TableInv, NEW v, log' = Append(log, v)
  PROVE  LogGrows /\ log' # <<>>
<1> DEFINE S == Version \cup {v}
<1>1. log \in Seq(S) /\ v \in S
  <2>1. log \in Seq(Version)
    BY DEF TableInv, TableTypes
  <2>2. \A i \in 1..Len(log) : log[i] \in S
    BY <2>1
  <2> QED
    BY <2>1, <2>2
<1> HIDE DEF S
<1> QED
  BY <1>1 DEF LogGrows

\* No step of the table or of the writer takes a version from the log.
LEMMA TableLogGrows ==
  ASSUME TableInv, TableSteps \/ WriterSteps
  PROVE  LogGrows /\ (log # <<>> => log' # <<>>)
<1>1. ASSUME UNCHANGED log PROVE LogGrows /\ (log # <<>> => log' # <<>>)
  BY <1>1 DEF LogGrows
<1>2. ASSUME NEW v, Publish(v) PROVE LogGrows /\ (log # <<>> => log' # <<>>)
  BY <1>2, PublishGrows DEF Publish
<1>3. CASE new \/ table_exists \/ check_identity \/ maintain \/ prune \/ closes \/ Dies \/ Tick
           \/ open_text \/ commit
  BY <1>1, <1>3 DEF new, table_exists, check_identity, maintain, prune, closes, Dies, Tick, open_text, commit
<1>4. CASE create_table \/ create_indices
  BY <1>2, <1>4 DEF create_table, create_indices
<1>5. CASE drop_unused \/ extend_indices
  BY <1>1, <1>2, <1>5 DEF drop_unused, extend_indices
<1>6. CASE compact \/ ensure_ann_index
  BY <1>1, <1>2, <1>6 DEF compact, ensure_ann_index
<1>7. CASE delete_files_chunks \/ index_chunks
  BY <1>1, <1>2, <1>7 DEF delete_files_chunks, delete_by_file_paths, index_chunks, insert_chunks
<1> QED
  BY <1>3, <1>4, <1>5, <1>6, <1>7 DEF TableSteps, WriterSteps

\* So a document of a version in the log stays one.
LEMMA InLogStays ==
  ASSUME LogGrows, NEW d, InLog(d)
  PROVE  InLog(d)'
BY DEF LogGrows, InLog, Docs

\* What the documents are as long as nobody died.
Faithful ==
  /\ store.meta = {} => content = {} /\ (log = <<>> \/ (job.op = "new" /\ store.dim = Dim[job.by]))
  /\ \A e \in store.meta : store.dim = Dim[e]
  /\ IF job.op = "sync" THEN staged = {Id(c) : c \in content} ELSE text = {Id(c) : c \in content}

\* What DocumentsHold says, part by part.
LEMMA DocumentsParts ==
  DocumentsHold <=> /\ job.op = "sync" => job.at \in {"open", "insert", "commit"}
                    /\ \A d \in text \cup loaded \cup staged : InLog(d)
                    /\ made.deaths = 0 => Faithful
BY DEF DocumentsHold, InLog, Faithful

\* Maintenance and opening leave the documents and the chunks alone.
LEMMA TableKeepsDocuments ==
  ASSUME TableInv, DocumentsHold, TableSteps
  PROVE  DocumentsHold'
<1>0. /\ store \in Directories /\ made \in Counts /\ job \in Jobs /\ log \in Seq(Version)
      /\ UNCHANGED <<text, staged, loaded>> /\ made.deaths \in Nat
  BY CountsHave DEF TableInv, TableTypes, TableSteps, hsVars
<1>1. \A d \in text' \cup loaded' \cup staged' : InLog(d)'
  <2>1. \A d \in text \cup loaded \cup staged : InLog(d)
    BY DocumentsParts
  <2> QED
    BY <1>0, <2>1, TableLogGrows, InLogStays
<1>2. ASSUME job'.op # "sync", made.deaths = 0 => (made'.deaths = 0 => Faithful'), made'.deaths # 0 \/ made.deaths = 0
      PROVE  DocumentsHold'
  <2>1. job'.op = "sync" => job'.at \in {"open", "insert", "commit"}
    BY <1>2
  <2>2. made'.deaths = 0 => Faithful'
    BY <1>2
  <2> QED
    BY <1>1, <2>1, <2>2 DEF DocumentsHold, InLog, Faithful
<1>3. ASSUME job.op # "sync", made.deaths = 0, job'.op # "sync", content' = content, store' = store,
             \/ store.meta # {}
             \/ job'.op = "new" /\ job'.by = job.by /\ job.op = "new"
             \/ log' = log /\ (job.op = "new" => log = <<>>)
             \/ UNCHANGED <<log, job>>,
             log = <<>> => (log' = <<>> \/ store.meta # {})
      PROVE  Faithful'
  <2>1. Faithful
    BY <1>3, DocumentsParts
  <2> QED
    BY <1>0, <1>3, <2>1 DEF Faithful
<1>4. CASE new
  <2>1. job.op = "none" /\ job'.op = "new" /\ UNCHANGED <<store, log, content, made>>
    BY <1>4 DEF new, NoJob
  <2> QED
    BY <1>2, <1>3, <2>1
<1>5. CASE create_table
  <2>1. /\ job.op = "new" /\ ~store.table /\ store' = [store EXCEPT !.table = TRUE, !.dim = Dim[job.by]]
        /\ job' = [job EXCEPT !.at = "indices"] /\ UNCHANGED <<content, made>>
    BY <1>5 DEF create_table, Opening
  <2>2. log = <<>> /\ content = {} /\ store.meta = {}
    BY <2>1 DEF TableInv, OpenedByOne
  <2>3. store'.meta = store.meta /\ store'.dim = Dim[job.by]
    <3>1. store = [table |-> store.table, dim |-> store.dim, meta |-> store.meta]
      BY <1>0 DEF Directories
    <3>2. store' = [table |-> TRUE, dim |-> Dim[job.by], meta |-> store.meta]
      BY <2>1, <3>1, ZenonT(60)
    <3> QED
      BY <3>2
  <2>4. job'.op = "new" /\ job'.by = job.by
    <3>1. "indices" \in Steps
      BY DEF Steps
    <3> QED
      BY <1>0, <2>1, <3>1, StepGoesOn
  <2>5. made.deaths = 0 => Faithful'
    <3>1. made.deaths = 0 => Faithful
      BY DocumentsParts
    <3>2. made.deaths = 0 => text = {Id(c) : c \in content}
      BY <2>1, <3>1 DEF Faithful
    <3> QED
      BY <1>0, <2>1, <2>2, <2>3, <2>4, <3>2 DEF Faithful
  <2> QED
    BY <1>2, <2>1, <2>4, <2>5
<1>6. CASE create_indices \/ table_exists
  <2>1. /\ job.op = "new" /\ UNCHANGED <<store, content, made>> /\ log # <<>>
        /\ \/ job' = [job EXCEPT !.at = "indices"]
           \/ job' = [job EXCEPT !.at = "identity"]
    BY <1>6 DEF create_indices, table_exists, Opening, TableInv, OpenedByOne
  <2>2. job'.op = "new" /\ job'.by = job.by
    <3>1. "indices" \in Steps /\ "identity" \in Steps
      BY DEF Steps
    <3> QED
      BY <1>0, <2>1, <3>1, StepGoesOn
  <2> QED
    BY <1>2, <1>3, <2>1, <2>2
<1>7. CASE check_identity
  <2>1. /\ job.op = "new" /\ job.at = "identity"
        /\ store' = [store EXCEPT !.meta = IF @ = {} THEN {job.by} ELSE @]
        /\ job' = IF store'.meta = {job.by} THEN [job EXCEPT !.op = "open", !.at = "open"] ELSE NoJob
        /\ UNCHANGED <<log, content, made>>
    BY <1>7 DEF check_identity, Opening
  <2>2. job'.op # "sync"
    <3>1. "open" \in Ops /\ "open" \in Steps
      BY DEF Ops, Steps
    <3>2. job' = [job EXCEPT !.op = "open", !.at = "open"] => job'.op = "open"
      BY <1>0, <3>1, JobGoesOn
    <3> QED
      BY <2>1, <3>2 DEF NoJob
  <2>3. store'.dim = store.dim /\ store'.meta = IF store.meta = {} THEN {job.by} ELSE store.meta
    <3>1. store = [table |-> store.table, dim |-> store.dim, meta |-> store.meta]
      BY <1>0 DEF Directories
    <3> DEFINE meta == IF store.meta = {} THEN {job.by} ELSE store.meta
    <3>2. store' = [table |-> store.table, dim |-> store.dim, meta |-> meta]
      BY <2>1, <3>1, ZenonT(60)
    <3> HIDE DEF meta
    <3>3. store'.dim = store.dim /\ store'.meta = meta
      BY <3>2
    <3> QED
      BY <3>3 DEF meta
  <2>4. log # <<>>
    BY <2>1 DEF TableInv, OpenedByOne
  <2>5. made.deaths = 0 => Faithful'
    <3>1. made.deaths = 0 => Faithful
      BY DocumentsParts
    <3> QED
      BY <1>0, <2>1, <2>2, <2>3, <2>4, <3>1 DEF Faithful
  <2> QED
    BY <1>2, <2>1, <2>2, <2>5
<1>8. CASE maintain \/ drop_unused \/ extend_indices \/ compact \/ ensure_ann_index \/ prune \/ closes
  <2>1. /\ job.op \in {"open", "maintain"} /\ UNCHANGED <<store, content>>
    BY <1>8 DEF maintain, drop_unused, extend_indices, compact, ensure_ann_index, prune, closes, Ready, Doing
  <2>2. store.meta # {}
    BY <2>1 DEF TableInv, OpenedByOne
  <2>3. made'.deaths = made.deaths
    <3>1. CASE maintain
      BY <1>0, <3>1, CountsGoUp DEF maintain
    <3>2. CASE compact
      <4>1. made' = made \/ made' = [made EXCEPT !.frags = @ + Len(Latest.frags)]
        BY <3>2 DEF compact
      <4> QED
        BY <1>0, <4>1 DEF Counts
    <3>3. CASE drop_unused \/ extend_indices \/ ensure_ann_index \/ prune \/ closes
      BY <3>3 DEF drop_unused, extend_indices, ensure_ann_index, prune, closes
    <3> QED
      BY <1>8, <3>1, <3>2, <3>3
  <2>4. job'.op # "sync"
    <3>1. ASSUME NEW step \in Steps, Goes(step), job.op = "maintain" PROVE job'.op # "sync"
      BY <1>0, <3>1, StepGoesOn DEF Goes
    <3>2. CASE drop_unused \/ extend_indices \/ compact \/ ensure_ann_index
      BY <3>1, <3>2 DEF drop_unused, extend_indices, compact, ensure_ann_index, Doing, Steps
    <3>3. CASE closes
      BY <3>3 DEF closes, NoJob
    <3>4. CASE prune
      <4>1. "pruned" \in Steps /\ "open" \in Ops
        BY DEF Steps, Ops
      <4>2. job'.op = "open"
        BY <1>0, <3>4, <4>1, JobGoesOn DEF prune
      <4> QED
        BY <4>2
    <3>5. CASE maintain
      <4>1. job'.op = "maintain"
        BY <1>0, <3>5 DEF maintain, Jobs
      <4> QED
        BY <4>1
    <3> QED
      BY <1>8, <3>2, <3>3, <3>4, <3>5
  <2>5. made.deaths = 0 => Faithful'
    BY <1>3, <2>1, <2>2, <2>4
  <2> QED
    BY <1>2, <2>3, <2>4, <2>5
<1>9. CASE Dies
  <2>1. job'.op # "sync" /\ made'.deaths = made.deaths + 1
    BY <1>0, <1>9, CountsGoUp DEF Dies, NoJob
  <2>2. made'.deaths # 0
    BY <1>0, <2>1
  <2> QED
    BY <1>2, <2>1, <2>2
<1>10. CASE Tick
  <2>1. job.op = "none" /\ UNCHANGED <<store, log, content, made, job>>
    BY <1>10 DEF Tick
  <2> QED
    BY <1>2, <1>3, <2>1
<1> QED
  BY <1>4, <1>5, <1>6, <1>7, <1>8, <1>9, <1>10 DEF TableSteps

\* The writer stages documents as it writes chunks, and commits what it staged
\* (delete_files_chunks, index_chunks, commit).
LEMMA WriterKeepsDocuments ==
  ASSUME TableInv, DocumentsHold, WriterSteps
  PROVE  DocumentsHold'
<1>0. /\ store \in Directories /\ made \in Counts /\ job \in Jobs /\ log \in Seq(Version)
      /\ made.deaths \in Nat /\ job.files \in SUBSET Files
  BY CountsHave, JobsHave DEF TableInv, TableTypes
<1>1. /\ \A d \in text \cup loaded \cup staged : InLog(d)
      /\ made.deaths = 0 => Faithful
      /\ job.op = "sync" => job.at \in {"open", "insert", "commit"}
  BY DocumentsParts
<1>2. ASSUME job'.op = "sync" => job'.at \in {"open", "insert", "commit"},
             \A d \in text' \cup loaded' \cup staged' : InLog(d)',
             made'.deaths = 0 => Faithful'
      PROVE  DocumentsHold'
  BY <1>2 DEF DocumentsHold, InLog, Faithful
<1>3. LogGrows
  BY TableLogGrows
<1>4. ASSUME NEW d \in text \cup loaded \cup staged PROVE InLog(d)'
  BY <1>1, <1>3, <1>4, InLogStays
<1>5. job.op \in {"open", "sync"} => log # <<>> /\ store.meta # {} /\ store.meta = {job.by}
  BY DEF TableInv, OpenedByOne
<1>6. CASE open_text
  <2>1. /\ job.op = "open" /\ job' = [job EXCEPT !.op = "sync", !.at = "open"]
        /\ staged' = IF text = {} /\ log # <<>> THEN {document(c) : c \in Rows(Latest)} ELSE text
        /\ text' = (IF text = {} THEN staged' ELSE text) /\ loaded' = loaded
        /\ UNCHANGED <<store, log, content, made>>
    BY <1>6 DEF open_text, Ready
  <2>2. job'.op = "sync" /\ job'.at = "open"
    <3>1. "sync" \in Ops /\ "open" \in Steps
      BY DEF Ops, Steps
    <3> QED
      BY <1>0, <2>1, <3>1, JobGoesOn
  <2>3. Rows(Latest) = content /\ Len(log) \in DOMAIN log
    BY <1>0, <1>5, <2>1, NewestHolds, TheNewest
  <2>4. \A c \in content : InLog(Id(c))'
    <3>1. \A c \in content : Id(c) \in Docs(log[Len(log)])
      BY <2>3 DEF Docs, Latest
    <3>2. \A c \in content : InLog(Id(c))
      BY <2>3, <3>1 DEF InLog
    <3> QED
      BY <1>3, <3>2, InLogStays
  <2>5. \A d \in text' \cup loaded' \cup staged' : InLog(d)'
    <3>1. \A d \in text' \cup loaded' \cup staged' :
             d \in text \cup loaded \cup staged \/ \E c \in content : d = Id(c)
      BY <2>1, <2>3 DEF document
    <3> QED
      BY <1>4, <2>4, <3>1
  <2>6. made'.deaths = 0 => Faithful'
    <3> HAVE made'.deaths = 0
    <3>1. Faithful /\ text = {Id(c) : c \in content} /\ \A e \in store.meta : store.dim = Dim[e]
      BY <1>1, <2>1 DEF Faithful
    <3>2. staged' = {Id(c) : c \in content}
      <4>1. CASE text = {}
        BY <1>5, <2>1, <2>3, <4>1 DEF document
      <4>2. CASE text # {}
        BY <2>1, <3>1, <4>2
      <4> QED
        BY <4>1, <4>2
    <3> QED
      BY <1>5, <2>1, <2>2, <3>1, <3>2 DEF Faithful
  <2> QED
    BY <1>2, <2>2, <2>5, <2>6
<1>7. CASE delete_files_chunks
  <2>1. /\ job.op = "sync" /\ made' = [made EXCEPT !.syncs = @ + 1]
        /\ UNCHANGED <<store, text, loaded>>
    BY <1>7 DEF delete_files_chunks, Syncing
  <2>2. PICK removed \in SUBSET Files, changed \in SUBSET Files :
           /\ delete_by_file_paths(removed \cup changed)
           /\ staged' = {d \in staged : d.file \notin removed \cup changed}
           /\ job' = [job EXCEPT !.at = "insert", !.files = changed]
    BY <1>7 DEF delete_files_chunks
  <2> DEFINE F == removed \cup changed
  <2>3. content' = {c \in content : c.file \notin F} /\ staged' = {d \in staged : d.file \notin F}
    BY <2>2 DEF delete_by_file_paths
  <2> HIDE DEF F
  <2>4. job'.op = "sync" /\ job'.at = "insert"
    BY <1>0, <2>1, <2>2 DEF Jobs
  <2>5. made'.deaths = made.deaths
    BY <1>0, <2>1, CountsGoUp
  <2>6. \A d \in text' \cup loaded' \cup staged' : InLog(d)'
    BY <1>4, <2>1, <2>3
  <2>7. made'.deaths = 0 => Faithful'
    <3> HAVE made'.deaths = 0
    <3>1. staged = {Id(c) : c \in content} /\ \A e \in store.meta : store.dim = Dim[e]
      BY <1>1, <2>1, <2>5 DEF Faithful
    <3>2. \A c : Id(c).file = c.file
      BY DEF Id
    <3>3. staged' = {Id(c) : c \in content'}
      BY <2>3, <3>1, <3>2
    <3> QED
      BY <1>5, <2>1, <2>4, <3>1, <3>3 DEF Faithful
  <2> QED
    BY <1>2, <2>4, <2>6, <2>7
<1>8. CASE index_chunks
  <2>1. job.op = "sync" /\ UNCHANGED <<store, text, loaded>>
    BY <1>8 DEF index_chunks, Syncing
  <2>2. made.deaths = 0 => /\ staged = {Id(c) : c \in content} /\ \A e \in store.meta : store.dim = Dim[e]
                           /\ store.dim = Dim[job.by]
    BY <1>1, <1>5, <2>1 DEF Faithful
  <2>3. job' = [job EXCEPT !.at = "commit"] => job'.op = "sync" /\ job'.at = "commit"
    <3>1. "commit" \in Steps
      BY DEF Steps
    <3> QED
      BY <1>0, <2>1, <3>1, StepGoesOn
  <2>4. CASE /\ insert_chunks(job.files) /\ job' = [job EXCEPT !.at = "commit"]
             /\ staged' = staged \cup {document(c) : c \in content' \ content}
    <3> DEFINE rows == chunks_to_batch(job.files)
    <3>1. /\ content' = content \cup rows /\ Syncing("insert")
          /\ made' = [made EXCEPT !.chunks = @ + Cardinality(job.files), !.frags = made.frags + 1]
          /\ UNCHANGED <<store, limits, now>>
      BY <1>8, <2>4 DEF insert_chunks, index_chunks
    <3> HIDE DEF rows
    <3>2. made'.deaths = made.deaths
      BY <1>0, <3>1 DEF Counts
    <3>3. TableInv'
      BY <2>4, <3>1, InsertingKeeps
    <3>4. log' # <<>>
      BY <1>5, <2>1, TableLogGrows
    <3>5. \A c \in content' : InLog(Id(c))'
      <4>1. Rows(Latest') = content' /\ Len(log') \in DOMAIN log'
        <5>1. Rows(Latest') = content'
          BY <3>3, <3>4 DEF TableInv, NothingLost
        <5>2. log' \in Seq(Version)
          BY <3>3 DEF TableInv, TableTypes
        <5> QED
          BY <3>4, <5>1, <5>2
      <4>2. \A c \in content' : Id(c) \in Docs(log'[Len(log')])
        BY <4>1 DEF Docs, Latest
      <4> QED
        BY <4>1, <4>2 DEF InLog
    <3>6. \A d \in text' \cup loaded' \cup staged' : InLog(d)'
      <4>1. \A d \in text' \cup loaded' \cup staged' :
               d \in text \cup loaded \cup staged \/ \E c \in content' : d = Id(c)
        BY <2>1, <2>4 DEF document
      <4> QED
        BY <1>4, <3>5, <4>1
    <3>7. made'.deaths = 0 => Faithful'
      <4> HAVE made'.deaths = 0
      <4>1. staged' = {Id(c) : c \in content'}
        <5>1. {document(c) : c \in content' \ content} = {Id(c) : c \in content' \ content}
          BY DEF document
        <5>2. content \subseteq content'
          BY <3>1
        <5>3. staged = {Id(c) : c \in content}
          BY <2>2, <3>2
        <5> QED
          BY <2>4, <5>1, <5>2, <5>3
      <4> QED
        BY <1>5, <2>1, <2>2, <2>3, <2>4, <3>2, <4>1 DEF Faithful
    <3> QED
      BY <1>2, <2>3, <2>4, <3>6, <3>7
  <2>5. CASE job' = [job EXCEPT !.at = "commit"] /\ UNCHANGED <<log, content, made, staged>>
    <3>1. \A d \in text' \cup loaded' \cup staged' : InLog(d)'
      BY <1>4, <2>1, <2>5
    <3>2. made'.deaths = 0 => Faithful'
      BY <1>5, <2>1, <2>2, <2>3, <2>5 DEF Faithful
    <3> QED
      BY <1>2, <2>3, <2>5, <3>1, <3>2
  <2>6. CASE /\ store.dim # Dim[job.by] /\ staged' = text /\ job' = NoJob
             /\ UNCHANGED <<log, content, made>>
    <3>1. made'.deaths # 0
      BY <2>2, <2>6
    <3>2. \A d \in text' \cup loaded' \cup staged' : InLog(d)'
      BY <1>4, <2>1, <2>6
    <3>3. job'.op # "sync"
      BY <2>6 DEF NoJob
    <3> QED
      BY <1>2, <3>1, <3>2, <3>3
  <2> QED
    BY <1>8, <2>4, <2>5, <2>6 DEF index_chunks
<1>9. CASE commit
  <2>1. /\ job.op = "sync" /\ job' = [job EXCEPT !.op = "open", !.at = "open", !.files = {}]
        /\ text' = staged /\ loaded' = text /\ staged' = staged
        /\ UNCHANGED <<store, log, content, made>>
    BY <1>9 DEF commit, Syncing
  <2>2. job'.op = "open"
    <3>1. "open" \in Ops /\ "open" \in Steps /\ {} \in SUBSET Files
      BY DEF Ops, Steps
    <3> QED
      BY <1>0, <2>1, <3>1, JobTakesFiles
  <2>3. \A d \in text' \cup loaded' \cup staged' : InLog(d)'
    BY <1>4, <2>1
  <2>4. made'.deaths = 0 => Faithful'
    BY <1>1, <1>5, <2>1, <2>2 DEF Faithful
  <2> QED
    BY <1>2, <2>2, <2>3, <2>4
<1> QED
  BY <1>6, <1>7, <1>8, <1>9 DEF WriterSteps

\* What the invariant says of the table and of the documents.
LEMMA TableIsSound ==
  ASSUME TableInv, DocumentsHold
  PROVE  PassesHold /\ MergedPassesCompact /\ OneEmbedder /\ NeverTooEarly /\ TextFollows
<1>1. PassesHold
  <2> SUFFICES ASSUME job.at = "pruned"
               PROVE  /\ \A i \in layout.indices : i.indexed = FragIds(Latest)
                      /\ disk = UNION {FragIds(log[v]) : v \in kept} /\ ~Latest.old
    BY DEF PassesHold
  <2>1. Covered(Latest) /\ ~Latest.old
    BY DEF TableInv, PassGoesOn
  <2>2. \A i \in layout.indices : i.indexed = FragIds(Latest)
    <3> SUFFICES ASSUME NEW i \in layout.indices PROVE i.indexed = FragIds(Latest)
      OBVIOUS
    <3>1. \/ \E c \in DOMAIN Latest.scalar :
               i = [name |-> c, deltas |-> 1, indexed |-> FragIds(Latest) \cap Latest.scalar[c]]
          \/ /\ Latest.ann # <<>>
             /\ i = [name |-> "vector_idx", deltas |-> Len(Latest.ann),
                     indexed |-> FragIds(Latest) \cap UNION ToSet(Latest.ann)]
      BY DEF layout
    <3>2. CASE \E c \in DOMAIN Latest.scalar :
                 i = [name |-> c, deltas |-> 1, indexed |-> FragIds(Latest) \cap Latest.scalar[c]]
      <4>1. PICK c \in DOMAIN Latest.scalar :
              i = [name |-> c, deltas |-> 1, indexed |-> FragIds(Latest) \cap Latest.scalar[c]]
        BY <3>2
      <4>2. i.indexed = FragIds(Latest) \cap Latest.scalar[c]
        BY <4>1
      <4> QED
        BY <2>1, <4>2 DEF Covered
    <3>3. CASE /\ Latest.ann # <<>>
               /\ i = [name |-> "vector_idx", deltas |-> Len(Latest.ann),
                       indexed |-> FragIds(Latest) \cap UNION ToSet(Latest.ann)]
      <4>1. i.indexed = FragIds(Latest) \cap UNION ToSet(Latest.ann)
        BY <3>3
      <4> QED
        BY <2>1, <3>3, <4>1 DEF Covered
    <3> QED
      BY <3>1, <3>2, <3>3
  <2> QED
    BY <2>1, <2>2 DEF TableInv, DiskIsNamed
<1>2. MergedPassesCompact
  BY DEF TableInv, PassGoesOn, MergedPassesCompact, NoSmallNeighbours
<1>3. OneEmbedder
  <2>1. \A c \in content : store.meta = {c.by}
    <3>1. CASE log = <<>>
      BY <3>1 DEF TableInv, OpenedByOne
    <3>2. CASE log # <<>>
      BY <3>2, NewestHolds
    <3> QED
      BY <3>1, <3>2
  <2>2. \A e \in Embedders : open_existing(e) = "open" => store.meta = {e}
    BY DEF open_existing
  <2> QED
    BY <2>1, <2>2 DEF OneEmbedder
<1>4. NeverTooEarly
  BY DEF DocumentsHold, NeverTooEarly, Docs
<1>5. TextFollows
  BY DEF DocumentsHold, TextFollows, document
<1> QED
  BY <1>1, <1>2, <1>3, <1>4, <1>5

-----------------------------------------------------------------------------
(* Fusion.                                                                 *)

\* What a ranking is.
LEMMA RankingsHave ==
  ASSUME NEW ids, NEW most \in Nat, NEW s \in Rankings(ids, most)
  PROVE  /\ s \in Seq(ids) /\ Len(s) \in 0..most /\ DOMAIN s = 1..Len(s) /\ InOrder(s)
         /\ ToSet(s) \subseteq ids
<1>1. PICK n \in 0..most : s \in [1..n -> ids]
  BY DEF Rankings
<1>2. s \in Seq(ids) /\ Len(s) = n
  BY <1>1
<1>3. InOrder(s)
  BY DEF Rankings, InOrder
<1>4. ToSet(s) \subseteq ids
  BY <1>1 DEF ToSet
<1> QED
  BY <1>1, <1>2, <1>3, <1>4

\* The rank of a hit.
LEMMA RankIs ==
  ASSUME NEW S, NEW s \in Seq(S), InOrder(s), NEW i \in DOMAIN s
  PROVE  Rank(s, s[i]) = i /\ s[i] \in ToSet(s)
<1>1. \A j \in DOMAIN s : s[j] = s[i] => j = i
  BY DEF InOrder
<1> QED
  BY <1>1 DEF Rank, ToSet

\* A hit of a ranking has a rank, and is found there.
LEMMA RankThere ==
  ASSUME NEW S, NEW s \in Seq(S), InOrder(s), NEW n \in ToSet(s)
  PROVE  Rank(s, n) \in Nat /\ Rank(s, n) >= 1 /\ Rank(s, n) \in DOMAIN s /\ s[Rank(s, n)] = n
<1>1. PICK i \in DOMAIN s : s[i] = n
  BY DEF ToSet
<1>2. Rank(s, n) = i
  BY <1>1, RankIs
<1> QED
  BY <1>1, <1>2

\* Fractions.
LEMMA BiggerProducts ==
  ASSUME NEW a \in Nat, NEW b \in Nat, NEW c \in Nat, a < b, c > 0
  PROVE  a * c < b * c /\ c * a < c * b
<1>1. PICK d \in Nat : b = a + d /\ d >= 1
  <2>1. b - a \in Nat /\ b = a + (b - a) /\ b - a >= 1
    OBVIOUS
  <2> QED
    BY <2>1
<1>2. b * c = a * c + d * c
  BY <1>1
<1>3. d * c >= 1
  <2>1. PICK e \in Nat : d = 1 + e
    <3>1. d - 1 \in Nat /\ d = 1 + (d - 1)
      BY <1>1
    <3> QED
      BY <3>1
  <2>2. d * c = c + e * c
    BY <2>1
  <2>3. e * c \in Nat
    BY <2>1
  <2> QED
    BY <2>2, <2>3
<1>4. a * c \in Nat /\ d * c \in Nat /\ b * c = c * b /\ a * c = c * a
  BY <1>1
<1> QED
  BY <1>2, <1>3, <1>4

\* Smaller ranks on both sides make the larger sum of reciprocals.
LEMMA BetterScores ==
  ASSUME NEW a \in Nat, NEW b \in Nat, NEW c \in Nat, NEW d \in Nat, a > 0, b > 0, a < c, b < d
  PROVE  /\ ~AtLeast(<<c + d, c * d>>, <<a + b, a * b>>)
         /\ ~AtLeast(<<1, c>>, <<a + b, a * b>>)
         /\ ~AtLeast(<<1, d>>, <<a + b, a * b>>)
<1>1. (c + d) * (a * b) = (a * b) * c + (a * b) * d
      /\ (a + b) * (c * d) = (c * d) * a + (c * d) * b
  OBVIOUS
<1>2. (a * b) * c = (a * c) * b /\ (c * d) * a = (a * c) * d
      /\ (a * b) * d = (b * d) * a /\ (c * d) * b = (b * d) * c
  OBVIOUS
<1>3. a * c \in Nat /\ a * c > 0 /\ b * d \in Nat /\ b * d > 0 /\ a * b \in Nat
  <2>1. \A x, y \in Nat : x > 0 /\ y > 0 => x * y \in Nat /\ x * y > 0
    <3> SUFFICES ASSUME NEW x \in Nat, NEW y \in Nat, x > 0, y > 0 PROVE x * y \in Nat /\ x * y > 0
      OBVIOUS
    <3>1. 0 * y < x * y
      BY BiggerProducts
    <3> QED
      BY <3>1
  <2> QED
    BY <2>1
<1>4. (a * c) * b < (a * c) * d /\ (b * d) * a < (b * d) * c
  BY <1>3, BiggerProducts
<1>5. (c + d) * (a * b) < (a + b) * (c * d)
  <2> DEFINE p == (a * c) * b  q1 == (a * c) * d  r == (b * d) * a  s == (b * d) * c
  <2>1. p \in Nat /\ q1 \in Nat /\ r \in Nat /\ s \in Nat
    BY <1>3
  <2>2. (c + d) * (a * b) = p + r /\ (a + b) * (c * d) = q1 + s
    BY <1>1, <1>2
  <2>3. p < q1 /\ r < s
    BY <1>4
  <2> HIDE DEF p, q1, r, s
  <2> QED
    BY <2>1, <2>2, <2>3
<1>6. 1 * (a * b) < (a + b) * c
  <2>1. (a + b) * c = a * c + b * c
    OBVIOUS
  <2>2. a * b < b * c
    <3>1. b * a < b * c
      BY BiggerProducts
    <3> QED
      BY <3>1
  <2>3. a * c \in Nat /\ b * c \in Nat /\ 1 * (a * b) = a * b
    OBVIOUS
  <2> QED
    BY <1>3, <2>1, <2>2, <2>3
<1>7. 1 * (a * b) < (a + b) * d
  <2>1. (a + b) * d = a * d + b * d
    OBVIOUS
  <2>2. a * b < a * d
    BY BiggerProducts
  <2>3. a * d \in Nat /\ b * d \in Nat /\ 1 * (a * b) = a * b
    OBVIOUS
  <2> QED
    BY <1>3, <2>1, <2>2, <2>3
<1>8. (c + d) * (a * b) \in Nat /\ (a + b) * (c * d) \in Nat /\ (a + b) * c \in Nat /\ (a + b) * d \in Nat
  OBVIOUS
<1>9. /\ AtLeast(<<c + d, c * d>>, <<a + b, a * b>>) <=> (c + d) * (a * b) >= (a + b) * (c * d)
      /\ AtLeast(<<1, c>>, <<a + b, a * b>>) <=> 1 * (a * b) >= (a + b) * c
      /\ AtLeast(<<1, d>>, <<a + b, a * b>>) <=> 1 * (a * b) >= (a + b) * d
  BY DEF AtLeast
<1> DEFINE L == (c + d) * (a * b)  M == (a + b) * (c * d)  N == (a + b) * c  O == (a + b) * d  P == 1 * (a * b)
<1>10. P \in Nat /\ L \in Nat /\ M \in Nat /\ N \in Nat /\ O \in Nat /\ L < M /\ P < N /\ P < O
  BY <1>3, <1>5, <1>6, <1>7, <1>8
<1> HIDE DEF L, M, N, O, P
<1>11. ~(L >= M) /\ ~(P >= N) /\ ~(P >= O)
  BY <1>10
<1> QED
  BY <1>9, <1>11 DEF L, M, N, O, P

\* A hit that is better on both sides has the better score.
LEMMA AheadScoresMore ==
  ASSUME NEW vec \in Seq(DocId), NEW bm \in Seq(DocId), InOrder(vec), InOrder(bm),
         NEW m \in ToSet(vec) \cap ToSet(bm), NEW n \in ToSet(vec) \cup ToSet(bm),
         n \in ToSet(vec) => Rank(vec, m) < Rank(vec, n),
         n \in ToSet(bm) => Rank(bm, m) < Rank(bm, n)
  PROVE  ~AtLeast(rrf_score(vec, bm, n), rrf_score(vec, bm, m))
<1> DEFINE a == K + Rank(vec, m)
           b == K + Rank(bm, m)
           c == K + Rank(vec, n)
           d == K + Rank(bm, n)
<1>0. K \in Nat
  BY SearchAssumption
<1>1. Rank(vec, m) \in Nat /\ Rank(vec, m) >= 1 /\ Rank(bm, m) \in Nat /\ Rank(bm, m) >= 1
  BY RankThere
<1>2. a \in Nat /\ b \in Nat /\ a > 0 /\ b > 0
  BY <1>0, <1>1
<1>3. n \in ToSet(vec) => c \in Nat /\ a < c
  <2>1. n \in ToSet(vec) => Rank(vec, n) \in Nat
    BY RankThere
  <2> QED
    BY <1>0, <1>1, <2>1
<1>4. n \in ToSet(bm) => d \in Nat /\ b < d
  <2>1. n \in ToSet(bm) => Rank(bm, n) \in Nat
    BY RankThere
  <2> QED
    BY <1>0, <1>1, <2>1
<1>5. rrf_score(vec, bm, m) = <<a + b, a * b>>
  BY DEF rrf_score
<1>6. /\ n \in ToSet(vec) /\ n \in ToSet(bm) => rrf_score(vec, bm, n) = <<c + d, c * d>>
      /\ n \in ToSet(vec) /\ n \notin ToSet(bm) => rrf_score(vec, bm, n) = <<1, c>>
      /\ n \notin ToSet(vec) /\ n \in ToSet(bm) => rrf_score(vec, bm, n) = <<1, d>>
  BY DEF rrf_score
<1> HIDE DEF a, b, c, d
<1>7. CASE n \in ToSet(vec) /\ n \in ToSet(bm)
  BY <1>2, <1>3, <1>4, <1>5, <1>6, <1>7, BetterScores
<1>8. CASE n \in ToSet(vec) /\ n \notin ToSet(bm)
  <2>1. b + 1 \in Nat /\ b < b + 1
    BY <1>2
  <2> QED
    BY <1>2, <1>3, <1>5, <1>6, <1>8, <2>1, BetterScores
<1>9. CASE n \notin ToSet(vec) /\ n \in ToSet(bm)
  <2>1. a + 1 \in Nat /\ a < a + 1
    BY <1>2
  <2> QED
    BY <1>2, <1>4, <1>5, <1>6, <1>9, <2>1, BetterScores
<1> QED
  BY <1>7, <1>8, <1>9

\* What fusion makes of two rankings.
LEMMA FusionRanks ==
  ASSUME NEW vec \in Seq(DocId), NEW bm \in Seq(DocId), InOrder(vec), InOrder(bm),
         NEW f \in reciprocal_rank_fusion(vec, bm)
  PROVE  /\ f \in Seq(DocId) /\ Len(f) \in 0..(Len(vec) + Len(bm)) /\ InOrder(f) /\ DOMAIN f = 1..Len(f)
         /\ ToSet(f) = ToSet(vec) \cup ToSet(bm)
         /\ \A i, j \in DOMAIN f : i < j => AtLeast(rrf_score(vec, bm, f[i]), rrf_score(vec, bm, f[j]))
<1> DEFINE ids == ToSet(vec) \cup ToSet(bm)
<1>1. ids \subseteq DocId
  BY DEF ToSet
<1>2. /\ f \in Rankings(ids, Len(vec) + Len(bm)) /\ ToSet(f) = ids
      /\ \A i, j \in DOMAIN f : i < j => AtLeast(rrf_score(vec, bm, f[i]), rrf_score(vec, bm, f[j]))
  BY DEF reciprocal_rank_fusion
<1> HIDE DEF ids
<1>3. Len(vec) + Len(bm) \in Nat
  OBVIOUS
<1>4. f \in Seq(ids) /\ Len(f) \in 0..(Len(vec) + Len(bm)) /\ InOrder(f) /\ DOMAIN f = 1..Len(f)
  BY <1>2, <1>3, RankingsHave
<1>5. f \in Seq(DocId)
  BY <1>1, <1>4
<1> QED
  BY <1>2, <1>4, <1>5 DEF ids

\* The cut of a fused ranking keeps to the limit and to what both sides agree on
\* (reciprocal_rank_fusion).
LEMMA FusionAgrees ==
  ASSUME NEW vec \in Seq(DocId), NEW bm \in Seq(DocId), InOrder(vec), InOrder(bm),
         NEW f \in reciprocal_rank_fusion(vec, bm), NEW limit \in Nat
  PROVE  /\ Ranked(Truncate(f, limit), DocId, limit)
         /\ Agrees(vec, bm, Truncate(f, limit), limit)
<1>1. /\ f \in Seq(DocId) /\ Len(f) \in Nat /\ InOrder(f) /\ DOMAIN f = 1..Len(f)
      /\ ToSet(f) = ToSet(vec) \cup ToSet(bm)
      /\ \A i, j \in DOMAIN f : i < j => AtLeast(rrf_score(vec, bm, f[i]), rrf_score(vec, bm, f[j]))
  BY FusionRanks
<1> DEFINE t == Truncate(f, limit)
           n == IF Len(f) < limit THEN Len(f) ELSE limit
<1>2. n \in 0..Len(f) /\ n <= limit /\ (limit > 0 /\ f # <<>> => n >= 1)
  BY <1>1
<1>3. t = SubSeq(f, 1, n)
  BY DEF Truncate
<1> HIDE DEF t, n
<1>4. t \in Seq(DocId) /\ Len(t) = n /\ DOMAIN t = 1..n /\ \A i \in 1..n : t[i] = f[i] /\ i \in DOMAIN f
  BY <1>1, <1>2, <1>3
<1>5. Ranked(t, DocId, limit)
  BY <1>1, <1>2, <1>4 DEF Ranked, InOrder
<1>6. \A m, o \in ToSet(vec) \cap ToSet(bm) : Before(vec, m, o) /\ Before(bm, m, o) => ~Before(t, o, m)
  <2> SUFFICES ASSUME NEW m \in ToSet(vec) \cap ToSet(bm), NEW o \in ToSet(vec) \cap ToSet(bm),
                      Before(vec, m, o), Before(bm, m, o), Before(t, o, m)
               PROVE  FALSE
    OBVIOUS
  <2>1. Rank(vec, m) < Rank(vec, o)
    <3>1. PICK i \in DOMAIN vec, j \in DOMAIN vec : i < j /\ vec[i] = m /\ vec[j] = o
      BY DEF Before
    <3>2. Rank(vec, m) = i /\ Rank(vec, o) = j
      BY <3>1, RankIs
    <3> QED
      BY <3>1, <3>2
  <2>2. Rank(bm, m) < Rank(bm, o)
    <3>1. PICK i \in DOMAIN bm, j \in DOMAIN bm : i < j /\ bm[i] = m /\ bm[j] = o
      BY DEF Before
    <3>2. Rank(bm, m) = i /\ Rank(bm, o) = j
      BY <3>1, RankIs
    <3> QED
      BY <3>1, <3>2
  <2>3. ~AtLeast(rrf_score(vec, bm, o), rrf_score(vec, bm, m))
    BY <2>1, <2>2, AheadScoresMore
  <2>4. PICK i \in DOMAIN t, j \in DOMAIN t : i < j /\ t[i] = o /\ t[j] = m
    BY DEF Before
  <2>5. i \in DOMAIN f /\ j \in DOMAIN f /\ f[i] = o /\ f[j] = m
    BY <1>4, <2>4
  <2> QED
    BY <1>1, <2>3, <2>4, <2>5
<1>7. (vec # <<>> /\ bm # <<>> /\ vec[1] = bm[1] /\ limit > 0) => t # <<>> /\ t[1] = vec[1]
  <2> SUFFICES ASSUME vec # <<>>, bm # <<>>, vec[1] = bm[1], limit > 0 PROVE t # <<>> /\ t[1] = vec[1]
    OBVIOUS
  <2> DEFINE x == vec[1]
  <2>1. 1 \in DOMAIN vec /\ 1 \in DOMAIN bm
    OBVIOUS
  <2>2. Rank(vec, x) = 1 /\ Rank(bm, x) = 1 /\ x \in ToSet(vec) \cap ToSet(bm)
    BY <2>1, RankIs
  <2> HIDE DEF x
  <2>3. ASSUME NEW y \in ToSet(vec) \cup ToSet(bm), y # x
        PROVE  ~AtLeast(rrf_score(vec, bm, y), rrf_score(vec, bm, x))
    <3>1. y \in ToSet(vec) => Rank(vec, x) < Rank(vec, y)
      <4> HAVE y \in ToSet(vec)
      <4>1. Rank(vec, y) \in Nat /\ Rank(vec, y) >= 1 /\ vec[Rank(vec, y)] = y
        BY RankThere
      <4>2. vec[1] = x
        BY DEF x
      <4> QED
        BY <2>2, <2>3, <4>1, <4>2
    <3>2. y \in ToSet(bm) => Rank(bm, x) < Rank(bm, y)
      <4> HAVE y \in ToSet(bm)
      <4>1. Rank(bm, y) \in Nat /\ Rank(bm, y) >= 1 /\ bm[Rank(bm, y)] = y
        BY RankThere
      <4>2. bm[1] = x
        BY DEF x
      <4> QED
        BY <2>2, <2>3, <4>1, <4>2
    <3> QED
      BY <2>2, <3>1, <3>2, AheadScoresMore
  <2>4. PICK j \in DOMAIN f : f[j] = x
    BY <1>1, <2>2 DEF ToSet
  <2>5. 1 \in DOMAIN f /\ j \in Nat /\ j >= 1 /\ f # <<>>
    BY <1>1, <2>4
  <2>6. f[1] \in ToSet(vec) \cup ToSet(bm)
    BY <1>1, <2>5 DEF ToSet
  <2>7. f[1] = x
    <3>1. CASE j = 1
      BY <2>4, <3>1
    <3>2. CASE j > 1
      <4>1. AtLeast(rrf_score(vec, bm, f[1]), rrf_score(vec, bm, x))
        BY <1>1, <2>4, <2>5, <3>2
      <4> QED
        BY <2>3, <2>6, <4>1
    <3> QED
      BY <2>5, <3>1, <3>2
  <2>8. n >= 1 /\ n \in Nat
    BY <1>2, <2>5
  <2>9. t # <<>> /\ t[1] = f[1]
    BY <1>4, <2>8
  <2> QED
    BY <2>7, <2>9 DEF x
<1> QED
  BY <1>5, <1>6, <1>7 DEF Agrees, t

-----------------------------------------------------------------------------
(* Chunks of hits.                                                         *)

\* What comes of a ranking when its chunks are attached.
LEMMA AttachHas ==
  ASSUME NEW f \in Seq(DocId), InOrder(f), NEW C
  PROVE  LET a == attach_chunks(f, C) IN
         /\ a \in Seq(C) /\ Len(a) \in 0..Len(f)
         /\ \A i, j \in DOMAIN a : Id(a[i]) = Id(a[j]) => i = j
         /\ \A m, n : Before(IdsOf(a), m, n) => Before(f, m, n)
         /\ ToSet(IdsOf(a)) = ToSet(f) \cap {Id(c) : c \in C}
         /\ (f # <<>> /\ f[1] \in {Id(c) : c \in C}) => IdsOf(a) # <<>> /\ IdsOf(a)[1] = f[1]
<1> DEFINE ids == {Id(c) : c \in C}
           P == {i \in DOMAIN f : f[i] \in ids}
           hits == Picked(f, P)
           n == Cardinality(P)
           a == attach_chunks(f, C)
<1>1. P \in SUBSET DOMAIN f /\ DOMAIN f = 1..Len(f) /\ Len(f) \in Nat
  OBVIOUS
<1>2. \A p \in P : f[p] \in ids
  OBVIOUS
<1>3. a = [i \in DOMAIN hits |-> CHOOSE c \in C : Id(c) = hits[i]]
  BY DEF attach_chunks
<1>a. \A p \in DOMAIN f : f[p] \in ids => p \in P
  OBVIOUS
<1> HIDE DEF P
<1>4. /\ DOMAIN hits = 1..n /\ n \in 0..Len(f)
      /\ \A k \in 1..n : Nth(P, k) \in P /\ hits[k] = f[Nth(P, k)]
      /\ \A p \in P : \E k \in 1..n : p = Nth(P, k)
      /\ \A j, k \in 1..n : j < k => Nth(P, j) < Nth(P, k)
      /\ \A j, k \in 1..n : Nth(P, j) = Nth(P, k) => j = k
  BY <1>1, PickedElements
<1> HIDE DEF hits, n, a, ids
<1>5. \A k \in 1..n : hits[k] \in ids
  BY <1>2, <1>4
<1>6. /\ DOMAIN a = 1..n
      /\ \A k \in 1..n : a[k] \in C /\ Id(a[k]) = hits[k]
  <2>1. \A k \in 1..n : \E c \in C : Id(c) = hits[k]
    BY <1>5 DEF ids
  <2>2. \A k \in 1..n : a[k] = CHOOSE c \in C : Id(c) = hits[k]
    BY <1>3, <1>4
  <2> QED
    BY <1>3, <1>4, <2>1, <2>2
<1>7. a \in Seq(C) /\ Len(a) = n
  <2>1. a \in [1..n -> C]
    BY <1>3, <1>4, <1>6
  <2> QED
    BY <1>4, <2>1
<1>8. DOMAIN IdsOf(a) = 1..n /\ \A k \in 1..n : IdsOf(a)[k] = hits[k]
  BY <1>6 DEF IdsOf
<1>9. \A i, j \in DOMAIN a : Id(a[i]) = Id(a[j]) => i = j
  <2> SUFFICES ASSUME NEW i \in 1..n, NEW j \in 1..n, Id(a[i]) = Id(a[j]) PROVE i = j
    BY <1>6
  <2>1. f[Nth(P, i)] = f[Nth(P, j)] /\ Nth(P, i) \in DOMAIN f /\ Nth(P, j) \in DOMAIN f
    BY <1>1, <1>4, <1>6
  <2>2. Nth(P, i) = Nth(P, j)
    BY <2>1 DEF InOrder
  <2> QED
    BY <1>4, <2>2
<1>10. \A m, o : Before(IdsOf(a), m, o) => Before(f, m, o)
  <2> SUFFICES ASSUME NEW m, NEW o, Before(IdsOf(a), m, o) PROVE Before(f, m, o)
    OBVIOUS
  <2>1. PICK i \in 1..n, j \in 1..n : i < j /\ hits[i] = m /\ hits[j] = o
    BY <1>8 DEF Before
  <2>2. Nth(P, i) \in DOMAIN f /\ Nth(P, j) \in DOMAIN f /\ Nth(P, i) < Nth(P, j)
        /\ f[Nth(P, i)] = m /\ f[Nth(P, j)] = o
    BY <1>1, <1>4, <2>1
  <2> QED
    BY <2>2 DEF Before
<1>11. ToSet(IdsOf(a)) = ToSet(f) \cap ids
  <2>1. ASSUME NEW x \in ToSet(IdsOf(a)) PROVE x \in ToSet(f) \cap ids
    <3>1. PICK k \in 1..n : x = hits[k]
      BY <1>8 DEF ToSet
    <3> QED
      BY <1>1, <1>4, <1>5, <3>1 DEF ToSet
  <2>2. ASSUME NEW x \in ToSet(f) \cap ids PROVE x \in ToSet(IdsOf(a))
    <3>1. PICK p \in DOMAIN f : f[p] = x
      BY DEF ToSet
    <3>2. PICK k \in 1..n : p = Nth(P, k)
      BY <1>a, <1>4, <3>1
    <3>3. IdsOf(a)[k] = x
      BY <1>4, <1>8, <3>1, <3>2
    <3> QED
      BY <1>8, <3>3 DEF ToSet
  <2> QED
    BY <2>1, <2>2
<1>12. (f # <<>> /\ f[1] \in ids) => IdsOf(a) # <<>> /\ IdsOf(a)[1] = f[1]
  <2> HAVE f # <<>> /\ f[1] \in ids
  <2>1. 1 \in DOMAIN f
    BY <1>1
  <2>2. PICK k \in 1..n : 1 = Nth(P, k)
    BY <1>a, <1>4, <2>1
  <2>3. 1 \in 1..n
    BY <1>4
  <2>4. Nth(P, 1) \in 1..Len(f)
    BY <1>1, <1>4, <2>3
  <2>5. k = 1
    <3>1. ~(1 < k)
      <4> SUFFICES ASSUME 1 < k PROVE FALSE
        OBVIOUS
      <4>1. Nth(P, 1) < Nth(P, k)
        BY <1>4, <2>3
      <4> QED
        BY <2>2, <2>4, <4>1
    <3> QED
      BY <3>1
  <2>6. IdsOf(a)[1] = f[1]
    BY <1>4, <1>8, <2>2, <2>3, <2>5
  <2>7. IdsOf(a) # <<>>
    <3>1. 1 \in DOMAIN IdsOf(a)
      BY <1>8, <2>3
    <3>2. \A e : e = <<>> => 1 \notin DOMAIN e
      OBVIOUS
    <3> QED
      BY <3>1, <3>2
  <2> QED
    BY <2>6, <2>7
<1> QED
  BY <1>4, <1>7, <1>9, <1>10, <1>11, <1>12 DEF a, ids

\* The chunks of a version are told apart by their ids.
LEMMA IdsTell ==
  ASSUME TableInv, NEW v \in DOMAIN log
  PROVE  /\ \A c, d \in Rows(log[v]) : Id(c) = Id(d) => c = d
         /\ \A c \in Rows(log[v]) : Id(c) \in DocId
<1>1. log[v] \in Version
  BY DEF TableInv, TableTypes
<1>2. Rows(log[v]) \subseteq Chunk
  BY <1>1, IdsAreNumbers
<1>3. \A c \in Rows(log[v]) : store.meta = {c.by}
  BY DEF TableInv, VersionsHold
<1>4. \A c \in Chunk : c = [n |-> c.n, file |-> c.file, by |-> c.by] /\ c.n \in Nat /\ c.file \in Files
  BY DEF Chunk
<1>5. \A c : Id(c).n = c.n /\ Id(c).file = c.file
  BY DEF Id
<1>6. \A c, d \in Rows(log[v]) : Id(c) = Id(d) => c.n = d.n /\ c.file = d.file /\ c.by = d.by
  <2> SUFFICES ASSUME NEW c \in Rows(log[v]), NEW d \in Rows(log[v]), Id(c) = Id(d)
               PROVE  c.n = d.n /\ c.file = d.file /\ c.by = d.by
    OBVIOUS
  <2>1. c.n = d.n /\ c.file = d.file
    BY <1>5
  <2>2. {c.by} = {d.by}
    BY <1>3
  <2> QED
    BY <2>1, <2>2
<1>7. \A c, d \in Rows(log[v]) : Id(c) = Id(d) => c = d
  BY <1>2, <1>4, <1>6
<1>8. \A c \in Rows(log[v]) : Id(c) \in DocId
  BY <1>2, <1>4 DEF Id, DocId
<1> QED
  BY <1>7, <1>8

\* The ids of hits of one version are a ranking of documents.
LEMMA IdsOfHits ==
  ASSUME TableInv, NEW v \in DOMAIN log, NEW s \in Seq(Rows(log[v])), InOrder(s)
  PROVE  /\ IdsOf(s) \in Seq(DocId) /\ InOrder(IdsOf(s)) /\ Len(IdsOf(s)) = Len(s)
         /\ ToSet(IdsOf(s)) = {Id(c) : c \in ToSet(s)}
         /\ \A i, j \in DOMAIN s : Id(s[i]) = Id(s[j]) => i = j
<1>1. DOMAIN s = 1..Len(s) /\ Len(s) \in Nat /\ \A i \in DOMAIN s : s[i] \in Rows(log[v])
  OBVIOUS
<1>2. \A i, j \in DOMAIN s : Id(s[i]) = Id(s[j]) => i = j
  BY <1>1, IdsTell DEF InOrder
<1>3. IdsOf(s) = [i \in 1..Len(s) |-> Id(s[i])]
  BY <1>1 DEF IdsOf
<1>4. \A i \in 1..Len(s) : Id(s[i]) \in DocId
  BY <1>1, IdsTell
<1>5. IdsOf(s) \in Seq(DocId) /\ Len(IdsOf(s)) = Len(s)
  BY <1>1, <1>3, <1>4
<1>6. InOrder(IdsOf(s))
  BY <1>1, <1>2, <1>3 DEF InOrder
<1>7. ToSet(IdsOf(s)) = {Id(c) : c \in ToSet(s)}
  BY <1>1, <1>3 DEF ToSet
<1> QED
  BY <1>2, <1>5, <1>6, <1>7

-----------------------------------------------------------------------------
(* Searches and writes.                                                    *)

\* The documents of a version are ids.
LEMMA DocsAreIds ==
  ASSUME NEW v \in Version
  PROVE  Docs(v) \subseteq DocId
<1>1. Rows(v) \subseteq Chunk
  BY IdsAreNumbers
<1>2. \A c \in Chunk : Id(c) \in DocId
  BY DEF Chunk, Id, DocId
<1> QED
  BY <1>1, <1>2 DEF Docs

\* No write is a step of the search, and the bounds stay.
LEMMA WritesLeaveSearch ==
  ASSUME TableSteps \/ WriterSteps
  PROVE  UNCHANGED <<q, fails, limits>>
<1>1. CASE TableSteps
  <2>1. UNCHANGED <<q, fails>>
    BY <1>1 DEF TableSteps, hsVars
  <2>2. UNCHANGED limits
    BY <1>1 DEF TableSteps, new, create_table, create_indices, table_exists, check_identity, maintain,
                drop_unused, extend_indices, compact, ensure_ann_index, prune, closes, Dies, Tick
  <2> QED
    BY <2>1, <2>2
<1>2. CASE WriterSteps
  BY <1>2 DEF WriterSteps, open_text, delete_files_chunks, index_chunks, commit
<1> QED
  BY <1>1, <1>2

\* Whatever is written while a search goes on, what it has in hand stays true.
LEMMA WritesKeepSearch ==
  ASSUME SearchInv, ~SearchDone, TableSteps \/ WriterSteps
  PROVE  SearchInv'
<1>1. TableInv' /\ DocumentsHold'
  BY TableKeeps, WriterKeeps, TableKeepsDocuments, WriterKeepsDocuments DEF SearchInv
<1>2. q' = q /\ fails' = fails /\ limits' = limits /\ Asked' = Asked
  BY WritesLeaveSearch DEF Asked
<1>3. /\ LogGrows /\ log \in Seq(Version) /\ log' \in Seq(Version)
      /\ DOMAIN log = 1..Len(log) /\ DOMAIN log' = 1..Len(log') /\ Len(log) \in Nat /\ Len(log') \in Nat
      /\ Len(log) <= Len(log')
  <2>1. LogGrows
    BY TableLogGrows DEF SearchInv
  <2>2. log \in Seq(Version) /\ log' \in Seq(Version)
    BY <1>1 DEF SearchInv, TableInv, TableTypes
  <2>3. DOMAIN log = 1..Len(log) /\ DOMAIN log' = 1..Len(log') /\ Len(log) \in Nat /\ Len(log') \in Nat
    BY <2>2
  <2>4. 1..Len(log) \subseteq 1..Len(log')
    BY <2>1, <2>3 DEF LogGrows
  <2>5. Len(log) <= Len(log')
    BY <2>3, <2>4
  <2> QED
    BY <2>1, <2>2, <2>3, <2>5
<1>4. SearchTypes'
  <2>1. text' \subseteq DocId /\ staged' \subseteq DocId /\ loaded' \subseteq DocId
    <3>1. \A d \in text' \cup loaded' \cup staged' : \E v \in DOMAIN log' : d \in Docs(log'[v])
      BY <1>1 DEF DocumentsHold
    <3>2. \A v \in DOMAIN log' : Docs(log'[v]) \subseteq DocId
      BY <1>3, DocsAreIds
    <3> QED
      BY <3>1, <3>2
  <2> QED
    BY <1>2, <2>1 DEF SearchInv, SearchTypes
<1>5. q.start \in Nat /\ \A v : Pinned(v) => Pinned(v)' /\ (q.start \in 1..Len(log) => v \in DOMAIN log)
  <2>1. q.start \in Nat
    BY DEF SearchInv, SearchTypes
  <2> SUFFICES ASSUME NEW v, Pinned(v)
               PROVE  Pinned(v)' /\ (q.start \in 1..Len(log) => v \in DOMAIN log)
    BY <2>1
  <2>2. v \in q.start..Len(log)
    BY DEF Pinned
  <2>3. v \in q.start..Len(log')
    BY <1>3, <2>1, <2>2
  <2> QED
    BY <1>2, <1>3, <2>1, <2>2, <2>3 DEF Pinned
<1>6. SidesHold'
  <2>1. q.start \in 1..Len(log) => q.start \in 1..Len(log')
    BY <1>3
  <2> QED
    BY <1>2, <1>5, <2>1 DEF SearchInv, SidesHold, SearchStands, VectorSide, TextSide, Attempts, UnderWay
<1>7. FusedHolds'
  <2> SUFFICES ASSUME q.at = "fused" PROVE FusedHolds'
    BY <1>2 DEF FusedHolds
  <2>1. q.pin \in DOMAIN log /\ Pinned(q.pin)
    BY <1>5 DEF SearchInv, SidesHold, SearchStands, FusedHolds
  <2>2. log'[q.pin] = log[q.pin]
    BY <1>3, <2>1 DEF LogGrows
  <2> QED
    BY <1>2, <1>5, <2>1, <2>2 DEF SearchInv, FusedHolds
<1>8. ResultsWereThere' /\ LimitHolds' /\ AgreementWins' /\ FallbackIsLast'
  BY <1>2 DEF SearchDone, ResultsWereThere, LimitHolds, AgreementWins, FallbackIsLast
<1> QED
  BY <1>1, <1>4, <1>6, <1>7, <1>8 DEF SearchInv

-----------------------------------------------------------------------------
(* The two sides.                                                          *)

\* The fields of a search.
QueryOf == [ask |-> q.ask, at |-> q.at, start |-> q.start, began |-> q.began, pin |-> q.pin,
            vec |-> q.vec, bm |-> q.bm, fused |-> q.fused, answer |-> q.answer,
            fallback |-> q.fallback, bmTried |-> q.bmTried, vecTried |-> q.vecTried]

Still == UNCHANGED <<vtVars, text, staged, loaded>>

\* Reading changes no table and no index.
LEMMA ReadsKeepTable ==
  ASSUME SearchInv, Still
  PROVE  /\ TableInv' /\ DocumentsHold' /\ log' = log /\ limits' = limits
         /\ (text \subseteq DocId /\ staged \subseteq DocId /\ loaded \subseteq DocId)'
<1>1. UNCHANGED <<store, log, kept, disk, content, made, limits, job, now, text, staged, loaded>>
  BY DEF Still, vtVars
<1>2. TableTypes'
  BY <1>1 DEF SearchInv, TableInv, TableTypes
<1>3. VersionsHold' /\ OpenedByOne' /\ DiskIsNamed'
  BY <1>1 DEF SearchInv, TableInv, VersionsHold, OpenedByOne, DiskIsNamed, Latest
<1>4. PassGoesOn' /\ NothingLost' /\ KeptAreWhole' /\ DeltasBounded'
  BY <1>1 DEF SearchInv, TableInv, PassGoesOn, NothingLost, KeptAreWhole, DeltasBounded, count, Latest
<1>5. DocumentsHold'
  BY <1>1 DEF SearchInv, DocumentsHold
<1> QED
  BY <1>1, <1>2, <1>3, <1>4, <1>5 DEF TableInv, SearchInv, SearchTypes

\* A step of a side.
LEMMA SideSteps ==
  ASSUME SearchInv, Still, fails' \in Nat, q' = QueryOf', q'.start \in Nat, q'.pin \in Nat,
         q'.bmTried \in Nat, q'.vecTried \in Nat, q'.at \in {"sides", "fallback bm", "fallback vec"},
         SidesHold'
  PROVE  SearchInv'
<1>1. SearchTypes'
  BY ReadsKeepTable DEF SearchTypes, QueryOf
<1>2. FusedHolds' /\ ResultsWereThere' /\ LimitHolds' /\ AgreementWins' /\ FallbackIsLast'
  BY DEF FusedHolds, ResultsWereThere, LimitHolds, AgreementWins, FallbackIsLast
<1> QED
  BY <1>1, <1>2, ReadsKeepTable DEF SearchInv

\* What the invariant says, in the parts the steps need.
LEMMA SearchFacts ==
  ASSUME SearchInv
  PROVE  /\ q = QueryOf /\ fails \in Nat /\ q.start \in Nat /\ q.pin \in Nat /\ q.bmTried \in Nat
         /\ q.vecTried \in Nat /\ log \in Seq(Version) /\ Len(log) \in Nat /\ DOMAIN log = 1..Len(log)
         /\ TableInv /\ DocumentsHold /\ SidesHold /\ FusedHolds
         /\ text \subseteq DocId /\ loaded \subseteq DocId
<1>1. log \in Seq(Version)
  BY DEF SearchInv, TableInv, TableTypes
<1> QED
  BY <1>1 DEF SearchInv, SearchTypes, QueryOf

\* A search is asked.
LEMMA AskKeeps ==
  ASSUME SearchInv, Ask
  PROVE  SearchInv'
<1>0. /\ q = QueryOf /\ log \in Seq(Version) /\ Len(log) \in Nat /\ DOMAIN log = 1..Len(log)
      /\ DocumentsHold /\ SidesHold
  BY SearchFacts
<1>1. q.at = "none" /\ text # {} /\ Still /\ UNCHANGED fails
  BY DEF Ask, Still
<1>2. PICK ask \in limits.searches :
        q' = [NoSearch EXCEPT !.ask = {ask}, !.at = "sides", !.start = Len(log), !.began = now,
                              !.fallback = q.fallback]
  BY DEF Ask
<1>3. q.fallback = FALSE
  BY <1>0, <1>1 DEF SidesHold, SearchStands, NoSearch
<1>4. q' = [ask |-> {ask}, at |-> "sides", start |-> Len(log), began |-> now, pin |-> 0,
            vec |-> Todo, bm |-> Todo, fused |-> <<>>, answer |-> <<>>,
            fallback |-> FALSE, bmTried |-> 0, vecTried |-> 0]
  BY <1>2, <1>3 DEF NoSearch
<1>5. /\ q'.ask = {ask} /\ q'.at = "sides" /\ q'.start = Len(log) /\ q'.pin = 0 /\ q'.vec = Todo
      /\ q'.bm = Todo /\ q'.fallback = FALSE /\ q'.bmTried = 0 /\ q'.vecTried = 0 /\ q' = QueryOf'
  BY <1>4 DEF QueryOf
<1>6. Len(log) \in 1..Len(log)
  <2>1. \E v \in DOMAIN log : TRUE
    BY <1>0, <1>1 DEF DocumentsHold
  <2> QED
    BY <1>0, <2>1
<1>7. log' = log /\ limits' = limits
  BY <1>1, ReadsKeepTable
<1>8. Tried(Todo) = 0 /\ Todo # <<"open">> /\ Todo # <<"read">> /\ Todo # SideFailed
  BY DEF Tried, Todo, SideFailed
<1>9. SidesHold'
  BY <1>5, <1>6, <1>7, <1>8 DEF SidesHold, SearchStands, VectorSide, TextSide, Attempts, UnderWay
<1>10. fails' \in Nat
  BY <1>1, SearchFacts
<1> QED
  BY <1>0, <1>1, <1>5, <1>9, <1>10, SideSteps

\* What the sides may be.
LEMMA SideStates ==
  /\ Tried(Todo) = 0 /\ Tried(SideFailed) = 1 /\ Tried(<<"open">>) = 0 /\ Tried(<<"read">>) = 1
  /\ Todo # <<"open">> /\ Todo # <<"read">> /\ Todo # SideFailed /\ <<"open">> # <<"read">>
  /\ SideFailed # <<"open">> /\ SideFailed # <<"read">>
  /\ Todo[1] = "todo" /\ SideFailed[1] = "failed"
  /\ \A x, y : Tried(<<"found", x>>) = 0 /\ Tried(<<"read", x>>) = 1 /\ Tried(<<"read", x, y>>) = 1
BY DEF Tried, Todo, SideFailed

\* The vector side opens the newest version, or cannot (vector_search).
LEMMA OpenKeeps ==
  ASSUME SearchInv, open_vectors
  PROVE  SearchInv'
<1>0. /\ q = QueryOf /\ fails \in Nat /\ q.start \in Nat /\ q.pin \in Nat /\ q.bmTried \in Nat
      /\ q.vecTried \in Nat /\ Len(log) \in Nat /\ SidesHold
  BY SearchFacts
<1>1. Still /\ VecIsOn /\ q.vec = Todo
  BY DEF open_vectors, Still
<1>2. q.at \in {"sides", "fallback vec"} /\ log' = log /\ limits' = limits
  BY <1>1, ReadsKeepTable DEF VecIsOn
<1>3. fails' \in Nat
  BY <1>0 DEF open_vectors
<1>4. CASE q' = [q EXCEPT !.vec = <<"open">>, !.pin = get_table]
  <2>1. /\ q'.vec = <<"open">> /\ q'.pin = Len(log) /\ q'.ask = q.ask /\ q'.at = q.at /\ q'.start = q.start
        /\ q'.bm = q.bm /\ q'.fallback = q.fallback /\ q'.bmTried = q.bmTried /\ q'.vecTried = q.vecTried
    BY <1>0, <1>4 DEF QueryOf, get_table
  <2>2. q' = QueryOf'
    BY <1>0, <1>4, ZenonT(60) DEF QueryOf
  <2>3. Pinned(q.pin)'
    <3>1. Len(log) \in q.start..Len(log)
      <4>1. q.start \in 1..Len(log)
        BY <1>0, <1>2 DEF SidesHold, SearchStands
      <4> QED
        BY <1>0, <4>1
    <3> QED
      BY <1>2, <2>1, <3>1 DEF Pinned
  <2>4. \A v : Pinned(v)' <=> Pinned(v)
    BY <1>2, <2>1 DEF Pinned
  <2>5. Asked' = Asked
    BY <2>1 DEF Asked
  <2>6. SidesHold'
    <3>1. SearchStands' /\ TextSide'
      BY <1>0, <1>2, <2>1, <2>4, <2>5 DEF SidesHold, SearchStands, TextSide, UnderWay
    <3>2. VectorSide'
      BY <1>2, <2>1, <2>3 DEF VectorSide, UnderWay
    <3>3. Attempts'
      BY <1>0, <1>1, <1>2, <2>1, <2>5, SideStates DEF SidesHold, Attempts
    <3> QED
      BY <3>1, <3>2, <3>3 DEF SidesHold
  <2>7. q'.at \in {"sides", "fallback bm", "fallback vec"} /\ q'.start \in Nat /\ q'.pin \in Nat
        /\ q'.bmTried \in Nat /\ q'.vecTried \in Nat
    BY <1>0, <1>2, <2>1
  <2> QED
    BY <1>1, <1>3, <2>2, <2>6, <2>7, SideSteps
<1>5. CASE q' = [q EXCEPT !.vec = SideFailed, !.vecTried = @ + 1]
  <2>1. /\ q'.vec = SideFailed /\ q'.pin = q.pin /\ q'.ask = q.ask /\ q'.at = q.at /\ q'.start = q.start
        /\ q'.bm = q.bm /\ q'.fallback = q.fallback /\ q'.bmTried = q.bmTried /\ q'.vecTried = q.vecTried + 1
    BY <1>0, <1>5 DEF QueryOf
  <2>2. q' = QueryOf'
    BY <1>0, <1>5, ZenonT(60) DEF QueryOf
  <2>4. \A v : Pinned(v)' <=> Pinned(v)
    BY <1>2, <2>1 DEF Pinned
  <2>5. Asked' = Asked
    BY <2>1 DEF Asked
  <2>6. SidesHold'
    <3>1. SearchStands' /\ TextSide'
      BY <1>0, <1>2, <2>1, <2>4, <2>5 DEF SidesHold, SearchStands, TextSide, UnderWay
    <3>2. VectorSide'
      BY <1>2, <2>1, SideStates DEF VectorSide, UnderWay
    <3>3. Attempts'
      <4>1. Attempts /\ Tried(q.vec) = 0 /\ Tried(q'.vec) = 1
        BY <1>0, <1>1, <2>1, SideStates DEF SidesHold
      <4>2. CASE q.at = "sides"
        <5>1. ~q.fallback /\ (Asked.kind = "resilient" => q.bmTried = Tried(q.bm)) /\ q.vecTried = 0
          BY <4>1, <4>2 DEF Attempts
        <5>2. q'.vecTried = 1
          BY <2>1, <5>1
        <5> QED
          BY <2>1, <2>5, <4>1, <4>2, <5>1, <5>2 DEF Attempts
      <4>3. CASE q.at = "fallback vec"
        <5>3. q.fallback /\ q.bm = SideFailed /\ q.bmTried = 2 /\ q.vecTried = 1 + Tried(q.vec)
          BY <4>1, <4>3 DEF Attempts
        <5>1. q.fallback /\ q.bm = SideFailed /\ q.bmTried = 2 /\ q.vecTried = 1
          <6>1. q.vecTried = 1
            BY <4>1, <5>3
          <6> QED
            BY <5>3, <6>1
        <5>2. q'.vecTried = 2
          BY <2>1, <5>1
        <5> QED
          BY <2>1, <4>1, <4>3, <5>1, <5>2 DEF Attempts
      <4> QED
        BY <1>2, <4>2, <4>3
    <3> QED
      BY <3>1, <3>2, <3>3 DEF SidesHold
  <2>7. q'.at \in {"sides", "fallback bm", "fallback vec"} /\ q'.start \in Nat /\ q'.pin \in Nat
        /\ q'.bmTried \in Nat /\ q'.vecTried \in Nat
    <3>1. q.vecTried + 1 \in Nat
      BY <1>0
    <3> QED
      BY <1>0, <1>2, <2>1, <3>1
  <2> QED
    BY <1>1, <1>3, <2>2, <2>6, <2>7, SideSteps
<1> QED
  BY <1>4, <1>5 DEF open_vectors

\* A step that leaves the search where it is.
LEMMA StaysThere ==
  ASSUME SearchInv, Still, UnderWay,
         q'.ask = q.ask, q'.at = q.at, q'.start = q.start, q'.fallback = q.fallback
  PROVE  /\ SearchStands' /\ Asked' = Asked /\ UnderWay'
         /\ \A v : Pinned(v)' <=> Pinned(v)
         /\ (q'.vec = q.vec /\ q'.pin = q.pin) => VectorSide'
         /\ q'.bm = q.bm => TextSide'
         /\ q'.at \in {"sides", "fallback bm", "fallback vec"}
         /\ q'.start \in Nat
<1>1. log' = log /\ limits' = limits /\ SidesHold /\ q.start \in Nat
  BY ReadsKeepTable, SearchFacts
<1>2. Asked' = Asked /\ UnderWay'
  BY DEF Asked, UnderWay
<1>3. \A v : Pinned(v)' <=> Pinned(v)
  BY <1>1 DEF Pinned
<1>4. SearchStands'
  BY <1>1, <1>2 DEF SidesHold, SearchStands, UnderWay
<1>5. (q'.vec = q.vec /\ q'.pin = q.pin) => VectorSide'
  BY <1>1, <1>2, <1>3 DEF SidesHold, VectorSide
<1>6. q'.bm = q.bm => TextSide'
  <2>1. q.bm = q'.bm => q.bm[2] = q'.bm[2] /\ q.bm[3] = q'.bm[3]
    OBVIOUS
  <2> QED
    BY <1>1, <1>2, <1>3, <2>1 DEF SidesHold, TextSide
<1>7. q'.at \in {"sides", "fallback bm", "fallback vec"}
  BY DEF UnderWay
<1> QED
  BY <1>1, <1>2, <1>3, <1>4, <1>5, <1>6, <1>7

\* Counting tries.
LEMMA Adds == 0 + 1 = 1 /\ 1 + 0 = 1 /\ 1 + 1 = 2 /\ \A n \in Nat : 0 + n = n
OBVIOUS

\* The vector side has answered or failed once more.
LEMMA VectorTried ==
  ASSUME SearchInv, q.at = "sides" \/ q.at = "fallback vec", Tried(q.vec) = 0, Tried(q'.vec) = 1,
         Asked' = Asked, q'.at = q.at, q'.bm = q.bm, q'.fallback = q.fallback,
         q'.bmTried = q.bmTried, q'.vecTried = q.vecTried + 1
  PROVE  Attempts'
<1>1. Attempts
  BY SearchFacts DEF SidesHold
<1>2. CASE q.at = "sides"
  <2>1. ~q.fallback /\ (Asked.kind = "resilient" => q.bmTried = Tried(q.bm)) /\ q.vecTried = 0
    BY <1>1, <1>2 DEF Attempts
  <2>2. q'.vecTried = 1
    BY <2>1, Adds, Zenon
  <2> QED
    BY <1>2, <2>1, <2>2 DEF Attempts
<1>3. CASE q.at = "fallback vec"
  <2>1. q.fallback /\ q.bm = SideFailed /\ q.bmTried = 2 /\ q.vecTried = 1 + Tried(q.vec)
    BY <1>1, <1>3 DEF Attempts
  <2>4. q.vecTried = 1 + 0
    BY <1>1, <1>3, Zenon DEF Attempts
  <2>2. q'.vecTried = 2
    BY <2>4, Adds, Zenon
  <2>3. 2 = 1 + Tried(q'.vec)
    BY Adds, Zenon
  <2> QED
    BY <1>3, <2>1, <2>2, <2>3 DEF Attempts
<1> QED
  BY <1>2, <1>3

\* The text side has, or has not.
LEMMA TextTried ==
  ASSUME SearchInv, q.at = "sides" \/ q.at = "fallback bm", Tried(q.bm) = 0, Tried(q'.bm) \in Nat,
         Asked' = Asked, q'.at = q.at, q'.vec = q.vec, q'.fallback = q.fallback,
         q'.vecTried = q.vecTried,
         Asked.kind = "resilient" => q'.bmTried = q.bmTried + Tried(q'.bm)
  PROVE  Attempts'
<1>1. Attempts /\ SearchStands
  BY SearchFacts DEF SidesHold
<1>2. CASE q.at = "sides"
  <2>1. ~q.fallback /\ (Asked.kind = "resilient" => q.bmTried = Tried(q.bm)) /\ q.vecTried = Tried(q.vec)
    BY <1>1, <1>2 DEF Attempts
  <2>2. Asked.kind = "resilient" => q.bmTried = 0
    BY <2>1
  <2>3. Asked.kind = "resilient" => q'.bmTried = Tried(q'.bm)
    BY <2>2, Adds, Zenon
  <2> QED
    BY <1>2, <2>1, <2>3 DEF Attempts
<1>3. CASE q.at = "fallback bm"
  <2>1. q.fallback /\ q.vec = Todo /\ q.vecTried = 1 /\ q.bmTried = 1 + Tried(q.bm)
    BY <1>1, <1>3 DEF Attempts
  <2>2. \E a \in limits.searches : q.ask = {a}
    BY <1>1, <1>3 DEF SearchStands
  <2>3. Asked.kind = "resilient"
    <3>1. Asked.kind # "hybrid"
      BY <1>1, <1>3 DEF SearchStands, UnderWay
    <3>2. Asked \in limits.searches
      BY <2>2 DEF Asked
    <3>3. limits.searches \subseteq [kind : {"hybrid", "resilient"}, limit : Nat, text : BOOLEAN,
                                      vectors : BOOLEAN, generator : BOOLEAN]
      BY SearchAssumption DEF SearchInv, TableInv, TableTypes
    <3> QED
      BY <3>1, <3>2, <3>3
  <2>4. q.bmTried = 1
    BY <2>1, Adds, Zenon
  <2>5. q'.bmTried = 1 + Tried(q'.bm)
    BY <2>3, <2>4
  <2> QED
    BY <1>3, <2>1, <2>5 DEF Attempts
<1> QED
  BY <1>2, <1>3

\* The version that was opened is read, or is gone.
LEMMA SearchVectorsKeeps ==
  ASSUME SearchInv, search_vectors
  PROVE  SearchInv'
<1>0. /\ q = QueryOf /\ fails \in Nat /\ q.start \in Nat /\ q.pin \in Nat /\ q.bmTried \in Nat
      /\ q.vecTried \in Nat /\ SidesHold
  BY SearchFacts
<1>1. Still /\ q.vec = <<"open">> /\ UNCHANGED fails
  BY DEF search_vectors, Still
<1>2. UnderWay /\ Pinned(q.pin) /\ (q.at = "sides" \/ q.at = "fallback vec")
  <2>1. UnderWay /\ Pinned(q.pin)
    BY <1>0, <1>1 DEF SidesHold, VectorSide
  <2>2. q.at # "fallback bm"
    BY <1>0, <1>1, SideStates DEF SidesHold, Attempts
  <2> QED
    BY <2>1, <2>2 DEF UnderWay
<1>3. SUFFICES ASSUME NEW value \in {<<"read">>, SideFailed},
                      q' = [q EXCEPT !.vec = value, !.vecTried = @ + 1]
               PROVE  SearchInv'
  <2>1. \/ q' = [q EXCEPT !.vec = <<"read">>, !.vecTried = @ + 1]
        \/ q' = [q EXCEPT !.vec = SideFailed, !.vecTried = @ + 1]
    BY DEF search_vectors
  <2> QED
    BY <2>1, <1>3
<1>4. /\ q'.vec = value /\ q'.pin = q.pin /\ q'.ask = q.ask /\ q'.at = q.at /\ q'.start = q.start
      /\ q'.bm = q.bm /\ q'.fallback = q.fallback /\ q'.bmTried = q.bmTried /\ q'.vecTried = q.vecTried + 1
  BY <1>0, <1>3 DEF QueryOf
<1>5. q' = QueryOf'
  BY <1>0, <1>3, ZenonT(60) DEF QueryOf
<1>6. SearchStands' /\ TextSide' /\ Asked' = Asked /\ UnderWay' /\ Pinned(q.pin)'
      /\ q'.at \in {"sides", "fallback bm", "fallback vec"} /\ q'.start \in Nat
  BY <1>1, <1>2, <1>4, StaysThere
<1>7. VectorSide'
  BY <1>4, <1>6 DEF VectorSide, Pinned
<1>8. Tried(q.vec) = 0 /\ Tried(q'.vec) = 1
  BY <1>1, <1>3, <1>4, SideStates
<1>9. Attempts'
  BY <1>2, <1>4, <1>6, <1>8, VectorTried
<1>10. q'.vecTried \in Nat /\ q'.pin \in Nat /\ q'.bmTried \in Nat /\ fails' \in Nat
  BY <1>0, <1>1, <1>4
<1> QED
  BY <1>1, <1>5, <1>6, <1>7, <1>9, <1>10, SideSteps DEF SidesHold

\* What the text side may come to.
LEMMA TextMoves ==
  ASSUME SearchInv, Still, NEW value, NEW tried \in Nat, BmIsOn \/ q.bm[1] = "found",
         q' = [q EXCEPT !.bm = value, !.bmTried = tried], Tried(q.bm) = 0, Tried(value) \in Nat,
         fails' \in Nat, UnderWay, q.at # "fallback vec",
         Asked.kind = "resilient" => tried = q.bmTried + Tried(value),
         \/ value \in {Todo, SideFailed}
         \/ /\ value[2] \subseteq DocId
            /\ \/ Asked.kind = "hybrid" /\ value = <<"read", value[2]>>
               \/ Asked.kind = "resilient" /\ value = <<"found", value[2]>>
               \/ Asked.kind = "resilient" /\ value = <<"read", value[2], value[3]>> /\ Pinned(value[3])
  PROVE  SearchInv'
<1>0. /\ q = QueryOf /\ q.start \in Nat /\ q.pin \in Nat /\ q.vecTried \in Nat /\ SidesHold
  BY SearchFacts
<1>4. /\ q'.bm = value /\ q'.vec = q.vec /\ q'.pin = q.pin /\ q'.ask = q.ask /\ q'.at = q.at
      /\ q'.start = q.start /\ q'.fallback = q.fallback /\ q'.bmTried = tried /\ q'.vecTried = q.vecTried
  BY <1>0 DEF QueryOf
<1>5. q' = QueryOf'
  BY <1>0, ZenonT(60) DEF QueryOf
<1>6. SearchStands' /\ VectorSide' /\ Asked' = Asked /\ UnderWay' /\ (\A v : Pinned(v)' <=> Pinned(v))
      /\ q'.at \in {"sides", "fallback bm", "fallback vec"} /\ q'.start \in Nat
  BY <1>4, StaysThere
<1>7. TextSide'
  BY <1>4, <1>6 DEF TextSide
<1>9. Attempts'
  <2>1. q.at = "sides" \/ q.at = "fallback bm"
    BY DEF UnderWay
  <2> QED
    BY <1>4, <1>6, <2>1, TextTried
<1> QED
  BY <1>0, <1>4, <1>5, <1>6, <1>7, <1>9, SideSteps DEF SidesHold

\* What was asked is one of the searches.
LEMMA AskedIs ==
  ASSUME SearchInv, q.at # "none"
  PROVE  /\ Asked \in [kind : {"hybrid", "resilient"}, limit : Nat, text : BOOLEAN,
                       vectors : BOOLEAN, generator : BOOLEAN]
         /\ Asked.limit \in Nat /\ Depth \in Nat /\ q.ask # {}
         /\ Asked.kind = "hybrid" \/ Asked.kind = "resilient"
<1>1. PICK a \in limits.searches : q.ask = {a}
  BY SearchFacts DEF SidesHold, SearchStands
<1>2. Asked \in limits.searches
  BY <1>1 DEF Asked
<1>3. limits.searches \subseteq [kind : {"hybrid", "resilient"}, limit : Nat, text : BOOLEAN,
                                  vectors : BOOLEAN, generator : BOOLEAN]
  BY SearchAssumption DEF SearchInv, TableInv, TableTypes
<1>4. /\ Asked \in [kind : {"hybrid", "resilient"}, limit : Nat, text : BOOLEAN,
                    vectors : BOOLEAN, generator : BOOLEAN]
      /\ q.ask # {}
  BY <1>1, <1>2, <1>3
<1>5. Asked.limit \in Nat /\ (Asked.kind = "hybrid" \/ Asked.kind = "resilient")
  BY <1>4
<1>6. Depth \in Nat
  BY <1>5, SearchAssumption DEF Depth
<1> QED
  BY <1>4, <1>5, <1>6

\* The BM25 index is searched, is missing or fails (bm25_search).
LEMMA SearchTextKeeps ==
  ASSUME SearchInv, search_text
  PROVE  SearchInv'
<1>0. /\ q = QueryOf /\ fails \in Nat /\ q.bmTried \in Nat /\ text \subseteq DocId /\ loaded \subseteq DocId
      /\ SidesHold
  BY SearchFacts
<1>1. Still /\ BmIsOn /\ q.bm = Todo
  BY DEF search_text, Still
<1>2. UnderWay /\ q.at # "fallback vec" /\ q.at # "none"
  BY <1>1 DEF BmIsOn, UnderWay
<1>3. Tried(q.bm) = 0
  BY <1>1, SideStates
<1>4. fails' \in Nat
  BY <1>0 DEF search_text
<1>5. Asked.kind = "hybrid" \/ Asked.kind = "resilient"
  BY <1>2, AskedIs
<1>6. CASE \E docs \in {text, loaded} :
             q' = [q EXCEPT !.bm = <<IF Asked.kind = "resilient" THEN "found" ELSE "read", docs>>]
  <2>1. PICK docs \in {text, loaded} :
             q' = [q EXCEPT !.bm = <<IF Asked.kind = "resilient" THEN "found" ELSE "read", docs>>]
    BY <1>6
  <2> DEFINE value == <<IF Asked.kind = "resilient" THEN "found" ELSE "read", docs>>
  <2>2. /\ value[2] \subseteq DocId
        /\ \/ Asked.kind = "hybrid" /\ value = <<"read", value[2]>>
           \/ Asked.kind = "resilient" /\ value = <<"found", value[2]>>
    BY <1>0, <1>5
  <2>3. Tried(value) \in Nat /\ (Asked.kind = "resilient" => Tried(value) = 0)
    BY <1>5, SideStates
  <2>4. q' = [q EXCEPT !.bm = value, !.bmTried = q.bmTried]
    <3> HIDE DEF value
    <3>1. q' = [q EXCEPT !.bm = value]
      BY <2>1 DEF value
    <3> QED
      BY <1>0, <3>1, ZenonT(60) DEF QueryOf
  <2> HIDE DEF value
  <2>5. Asked.kind = "resilient" => q.bmTried = q.bmTried + Tried(value)
    <3>1. q.bmTried = q.bmTried + 0
      BY <1>0
    <3> QED
      BY <2>3, <3>1, Zenon
  <2> QED
    BY <1>0, <1>1, <1>2, <1>3, <1>4, <2>2, <2>3, <2>4, <2>5, TextMoves
<1>7. CASE q' = [q EXCEPT !.bm = SideFailed, !.bmTried = @ + 1]
  <2>1. q' = [q EXCEPT !.bm = SideFailed, !.bmTried = q.bmTried + 1]
    BY <1>7
  <2>2. q.bmTried + 1 \in Nat
    BY <1>0
  <2>3. Tried(SideFailed) = 1 /\ Tried(SideFailed) \in Nat
    BY SideStates
  <2>4. q.bmTried + 1 = q.bmTried + Tried(SideFailed)
    BY <2>3, Zenon
  <2> QED
    BY <1>0, <1>1, <1>2, <1>3, <1>4, <2>1, <2>2, <2>3, <2>4, TextMoves
<1>8. CASE Asked.kind # "resilient" /\ q' = [q EXCEPT !.bm = <<"read", {}>>]
  <2> DEFINE value == <<"read", {}>>
  <2>1. value[2] \subseteq DocId /\ Asked.kind = "hybrid" /\ value = <<"read", value[2]>>
    BY <1>5, <1>8
  <2>2. Tried(value) \in Nat
    BY SideStates
  <2>3. q' = [q EXCEPT !.bm = value, !.bmTried = q.bmTried]
    <3> HIDE DEF value
    <3>1. q' = [q EXCEPT !.bm = value]
      BY <1>8 DEF value
    <3> QED
      BY <1>0, <3>1, ZenonT(60) DEF QueryOf
  <2> HIDE DEF value
  <2> QED
    BY <1>0, <1>1, <1>2, <1>3, <1>4, <1>8, <2>1, <2>2, <2>3, TextMoves
<1> QED
  BY <1>6, <1>7, <1>8 DEF search_text

\* The resilient search reads the chunks of its BM25 hits at once.
LEMMA Bm25ChunksKeeps ==
  ASSUME SearchInv, bm25_chunks
  PROVE  SearchInv'
<1>0. /\ q = QueryOf /\ fails \in Nat /\ q.bmTried \in Nat /\ SidesHold /\ Len(log) \in Nat
  BY SearchFacts
<1>1. Still /\ q.bm[1] = "found" /\ fails' = fails
  BY DEF bm25_chunks, Still
<1>2. UnderWay
  BY <1>0, <1>1 DEF SidesHold, TextSide
<1>3. q.bm # Todo /\ q.bm # SideFailed
  BY <1>1, SideStates
<1>4. q.bm[2] \subseteq DocId /\ Asked.kind = "resilient" /\ q.bm = <<"found", q.bm[2]>>
  BY <1>0, <1>1, <1>2, <1>3 DEF SidesHold, TextSide
<1>5. q.at # "fallback vec" /\ q.at # "none"
  BY <1>0, <1>2, <1>3 DEF SidesHold, Attempts, UnderWay
<1>6. Tried(q.bm) = 0
  BY <1>4, SideStates
<1>7. q.bmTried + 1 \in Nat /\ fails' \in Nat
  BY <1>0, <1>1
<1>8. Pinned(Len(log))
  <2>1. q.start \in 1..Len(log)
    BY <1>0, <1>5 DEF SidesHold, SearchStands
  <2> QED
    BY <1>0, <2>1 DEF Pinned
<1> DEFINE docs == q.bm[2]
           read == <<"read", docs, Len(log)>>
<1>9. CASE q' = [q EXCEPT !.bmTried = @ + 1, !.bm = read]
  <2>1. read[2] \subseteq DocId /\ read = <<"read", read[2], read[3]>> /\ Pinned(read[3])
    BY <1>4, <1>8
  <2>2. Tried(read) = 1 /\ Tried(read) \in Nat
    BY SideStates
  <2> HIDE DEF read
  <2>3. q' = [q EXCEPT !.bm = read, !.bmTried = q.bmTried + 1]
    BY <1>0, <1>9, ZenonT(60) DEF QueryOf
  <2>4. q.bmTried + 1 = q.bmTried + Tried(read)
    BY <2>2, Zenon
  <2> QED
    BY <1>1, <1>2, <1>4, <1>5, <1>6, <1>7, <2>1, <2>2, <2>3, <2>4, TextMoves
<1>10. CASE q' = [q EXCEPT !.bmTried = @ + 1, !.bm = SideFailed]
  <2>2. Tried(SideFailed) = 1 /\ Tried(SideFailed) \in Nat
    BY SideStates
  <2>3. q' = [q EXCEPT !.bm = SideFailed, !.bmTried = q.bmTried + 1]
    BY <1>0, <1>10, ZenonT(60) DEF QueryOf
  <2>4. q.bmTried + 1 = q.bmTried + Tried(SideFailed)
    BY <2>2, Zenon
  <2> QED
    BY <1>1, <1>2, <1>5, <1>6, <1>7, <2>2, <2>3, <2>4, TextMoves
<1> QED
  <2> HIDE DEF read
  <2>1. \/ q' = [q EXCEPT !.bmTried = @ + 1, !.bm = read]
        \/ q' = [q EXCEPT !.bmTried = @ + 1, !.bm = SideFailed]
    BY DEF bm25_chunks, read, get_table
  <2> QED
    BY <1>9, <1>10, <2>1

-----------------------------------------------------------------------------
(* Answers of the hybrid search.                                           *)

\* A version the search holds is in the log.
LEMMA PinIsThere ==
  ASSUME SearchInv, q.at # "none", NEW v, Pinned(v)
  PROVE  v \in DOMAIN log /\ v \in Nat /\ q.start \in 1..Len(log)
<1>1. q.start \in 1..Len(log) /\ Len(log) \in Nat /\ DOMAIN log = 1..Len(log)
  BY SearchFacts DEF SidesHold, SearchStands
<1> QED
  BY <1>1 DEF Pinned

\* A step that leaves both sides behind.
LEMMA LeavingKeeps ==
  ASSUME SearchInv, Still, fails' = fails, q.at # "none", q' = QueryOf', q'.pin = q.pin,
         q'.ask = q.ask, q'.start = q.start, q'.bmTried = q.bmTried, q'.vecTried = q.vecTried,
         q'.at = "fused" \/ q'.at = "ok" \/ q'.at = "error",
         q'.vec # <<"open">>, q'.bm[1] # "found",
         FusedHolds', ResultsWereThere', LimitHolds', AgreementWins', FallbackIsLast'
  PROVE  SearchInv'
<1>1. /\ TableInv' /\ DocumentsHold' /\ log' = log /\ limits' = limits
      /\ (text \subseteq DocId /\ staged \subseteq DocId /\ loaded \subseteq DocId)'
  BY ReadsKeepTable
<1>2. SearchTypes'
  BY <1>1, SearchFacts DEF SearchTypes, QueryOf
<1>3. ~UnderWay' /\ q'.at # "none"
  BY DEF UnderWay
<1>4. SearchStands'
  BY <1>1, <1>3, SearchFacts DEF SidesHold, SearchStands
<1>5. VectorSide' /\ TextSide'
  BY <1>3 DEF VectorSide, TextSide
<1>6. Attempts'
  BY DEF Attempts
<1> QED
  BY <1>1, <1>2, <1>4, <1>5, <1>6 DEF SearchInv, SidesHold

\* The sides that came are no longer under way.
LEMMA CameIs ==
  ASSUME SearchInv, q.at = "sides", Came(q.vec), Came(q.bm)
  PROVE  /\ q.vec # SideFailed => q.vec = <<"read">> /\ Pinned(q.pin)
         /\ q.vec # <<"open">> /\ q.bm[1] # "found"
         /\ q.bm # SideFailed =>
              /\ q.bm[2] \subseteq DocId
              /\ \/ Asked.kind = "hybrid" /\ q.bm = <<"read", q.bm[2]>>
                 \/ Asked.kind = "resilient" /\ q.bm = <<"read", q.bm[2], q.bm[3]>> /\ Pinned(q.bm[3])
<1>1. VectorSide /\ TextSide /\ UnderWay
  BY SearchFacts DEF SidesHold, UnderWay
<1>2. q.vec # Todo /\ q.bm # Todo /\ q.vec # <<"open">> /\ q.bm[1] # "found"
  BY SideStates DEF Came, Todo
<1>3. q.vec # SideFailed => q.vec = <<"read">> /\ Pinned(q.pin)
  BY <1>1, <1>2 DEF VectorSide
<1>4. \A x : <<"found", x>>[1] = "found"
  OBVIOUS
<1>5. q.bm # SideFailed =>
              /\ q.bm[2] \subseteq DocId
              /\ \/ Asked.kind = "hybrid" /\ q.bm = <<"read", q.bm[2]>>
                 \/ Asked.kind = "resilient" /\ q.bm = <<"read", q.bm[2], q.bm[3]>> /\ Pinned(q.bm[3])
  BY <1>1, <1>2, <1>4, Zenon DEF TextSide
<1> QED
  BY <1>2, <1>3, <1>5

\* The hybrid search fuses its sides, or fails with one of them (search_with_k).
LEMMA FuseKeeps ==
  ASSUME SearchInv, fuse
  PROVE  SearchInv'
<1>0. /\ q = QueryOf /\ q.start \in Nat /\ q.pin \in Nat /\ SidesHold /\ TableInv
  BY SearchFacts
<1>1. /\ Still /\ fails' = fails /\ q.at = "sides" /\ Asked.kind = "hybrid" /\ Came(q.vec) /\ Came(q.bm)
      /\ q.at # "none"
  BY DEF fuse, Still
<1>2. /\ q.vec # SideFailed => q.vec = <<"read">> /\ Pinned(q.pin)
      /\ q.vec # <<"open">> /\ q.bm[1] # "found"
      /\ q.bm # SideFailed => q.bm[2] \subseteq DocId
  BY <1>1, CameIs
<1>3. log' = log
  BY <1>1, ReadsKeepTable
<1>4. CASE SearchEnds("error", <<>>)
  <2>1. q' = [q EXCEPT !.at = "error", !.answer = <<>>]
    BY <1>4 DEF SearchEnds
  <2>2. /\ q'.at = "error" /\ q'.pin = q.pin /\ q'.ask = q.ask /\ q'.start = q.start /\ q'.vec = q.vec
        /\ q'.bm = q.bm /\ q'.bmTried = q.bmTried /\ q'.vecTried = q.vecTried
    BY <1>0, <2>1 DEF QueryOf
  <2>3. q' = QueryOf'
    BY <1>0, <2>1, ZenonT(60) DEF QueryOf
  <2>4. Asked' = Asked
    BY <2>2 DEF Asked
  <2>5. FusedHolds' /\ ResultsWereThere' /\ LimitHolds' /\ AgreementWins'
    BY <2>2 DEF FusedHolds, ResultsWereThere, LimitHolds, AgreementWins
  <2>6. FallbackIsLast'
    BY <1>1, <2>4 DEF FallbackIsLast
  <2> QED
    BY <1>1, <1>2, <2>2, <2>3, <2>5, <2>6, LeavingKeeps
<1>5. ASSUME NEW vec \in VectorHits, NEW bm \in TextHits,
             NEW f \in reciprocal_rank_fusion(IdsOf(vec), bm), q.vec # SideFailed, q.bm # SideFailed,
             q' = [q EXCEPT !.at = "fused", !.vec = <<"hits", vec>>, !.bm = <<"hits", bm>>,
                            !.fused = Truncate(f, Asked.limit)]
      PROVE  SearchInv'
  <2> DEFINE value == <<"hits", vec>>
             other == <<"hits", bm>>
             t == Truncate(f, Asked.limit)
  <2>0. value[1] = "hits" /\ value[2] = vec /\ other[1] = "hits" /\ other[2] = bm /\ value # <<"open">> /\ other[1] # "found"
    OBVIOUS
  <2>a. q' = [q EXCEPT !.at = "fused", !.vec = value, !.bm = other, !.fused = t]
    BY <1>5
  <2> HIDE DEF value, other, t
  <2>2. /\ q'.at = "fused" /\ q'.pin = q.pin /\ q'.ask = q.ask /\ q'.start = q.start /\ q'.vec = value
        /\ q'.bm = other /\ q'.fused = t /\ q'.bmTried = q.bmTried /\ q'.vecTried = q.vecTried
    BY <1>0, <2>a DEF QueryOf
  <2>3. q' = QueryOf'
    BY <1>0, <2>a, ZenonT(60) DEF QueryOf
  <2>4. Asked' = Asked
    BY <2>2 DEF Asked
  <2>5. ResultsWereThere' /\ LimitHolds' /\ AgreementWins'
    BY <2>2 DEF ResultsWereThere, LimitHolds, AgreementWins
  <2>6. FallbackIsLast'
    BY <1>1, <2>4 DEF FallbackIsLast
  <2>7. Pinned(q.pin) /\ q.pin \in DOMAIN log /\ Candidates \in Nat /\ Asked.limit \in Nat /\ Depth = Candidates
    <3>1. Pinned(q.pin) /\ Candidates \in Nat
      BY <1>2, <1>5, SearchAssumption
    <3>2. q.pin \in DOMAIN log
      BY <1>1, <3>1, PinIsThere
    <3>3. Asked.limit \in Nat
      BY <1>1, AskedIs
    <3>4. Depth = Candidates
      BY <1>1 DEF Depth
    <3> QED
      BY <3>1, <3>2, <3>3, <3>4
  <2>8. Ranked(vec, Rows(log[q.pin]), Candidates)
    <3>1. vec \in Rankings(Rows(log[q.pin]), Candidates)
      BY <2>7 DEF VectorHits
    <3>2. vec \in Seq(Rows(log[q.pin])) /\ Len(vec) \in 0..Candidates /\ InOrder(vec)
      BY <2>7, <3>1, RankingsHave
    <3> QED
      BY <2>7, <3>2 DEF Ranked
  <2>9. Ranked(bm, DocId, Candidates)
    <3>1. bm \in Rankings(q.bm[2], Candidates)
      BY <2>7 DEF TextHits
    <3>2. bm \in Seq(q.bm[2]) /\ Len(bm) \in 0..Candidates /\ InOrder(bm)
      BY <2>7, <3>1, RankingsHave
    <3>3. bm \in Seq(DocId)
      BY <1>2, <1>5, <3>2
    <3> QED
      BY <2>7, <3>2, <3>3 DEF Ranked
  <2>10. IdsOf(vec) \in Seq(DocId) /\ InOrder(IdsOf(vec))
    BY <1>0, <2>7, <2>8, IdsOfHits DEF Ranked
  <2>11. Ranked(t, DocId, Asked.limit) /\ Agrees(IdsOf(vec), bm, t, Asked.limit)
    BY <2>7, <2>9, <2>10, FusionAgrees DEF Ranked, t
  <2>12. FusedHolds'
    <3>1. Pinned(q.pin)' /\ log'[q'.pin] = log[q.pin]
      BY <1>3, <2>2, <2>7 DEF Pinned
    <3> QED
      BY <1>1, <2>0, <2>2, <2>4, <2>7, <2>8, <2>9, <2>11, <3>1, <1>3 DEF FusedHolds, Pinned
  <2> QED
    BY <1>1, <2>0, <2>2, <2>3, <2>5, <2>6, <2>12, LeavingKeeps
<1> QED
  BY <1>4, <1>5 DEF fuse

\* The chunks that are missing are fetched after the cut: none of the vector side is
\* lost, and the order stays (fetch_missing_chunks).
LEMMA FetchKeeps ==
  ASSUME SearchInv, fetch_missing
  PROVE  SearchInv'
<1>0. /\ q = QueryOf /\ q.start \in Nat /\ q.pin \in Nat /\ SidesHold /\ TableInv /\ FusedHolds
      /\ Len(log) \in Nat
  BY SearchFacts
<1>1. Still /\ fails' = fails /\ q.at = "fused" /\ q.at # "none"
  BY DEF fetch_missing, Still
<1>3. log' = log
  BY <1>1, ReadsKeepTable
<1> DEFINE near == ToSet(q.vec[2])
           missing == ToSet(q.fused) \ {Id(c) : c \in near}
           C == near \cup chunks_by_ids(Len(log), missing)
           a == attach_chunks(q.fused, C)
           vec == IdsOf(q.vec[2])
           bm == q.bm[2]
           got == IdsOf(a)
<1>a. q' = [q EXCEPT !.at = "ok", !.answer = a]
  BY DEF fetch_missing, SearchEnds, get_table
<1>4. /\ Asked.kind = "hybrid" /\ Pinned(q.pin)
      /\ q.vec[1] = "hits" /\ q.vec[2] \in Seq(Rows(log[q.pin])) /\ InOrder(q.vec[2])
      /\ q.bm[1] = "hits" /\ bm \in Seq(DocId)
      /\ q.fused \in Seq(DocId) /\ Len(q.fused) <= Asked.limit /\ InOrder(q.fused)
      /\ Agrees(vec, bm, q.fused, Asked.limit)
  BY <1>0, <1>1 DEF FusedHolds, Ranked
<1>5. q.pin \in DOMAIN log /\ Pinned(Len(log)) /\ Asked.limit \in Nat
  <2>1. q.pin \in DOMAIN log /\ q.start \in 1..Len(log)
    BY <1>1, <1>4, PinIsThere
  <2>2. Pinned(Len(log))
    BY <1>0, <2>1 DEF Pinned
  <2> QED
    BY <1>1, <2>1, <2>2, AskedIs
<1>6. \A c \in C : \E v \in q.start..Len(log) : c \in Rows(log[v])
  <2>1. near \subseteq Rows(log[q.pin])
    BY <1>4 DEF ToSet
  <2>2. chunks_by_ids(Len(log), missing) \subseteq Rows(log[Len(log)])
    BY DEF chunks_by_ids
  <2> HIDE DEF near, missing
  <2> QED
    BY <1>4, <1>5, <2>1, <2>2 DEF Pinned
<1>7. /\ vec \in Seq(DocId) /\ ToSet(vec) = {Id(c) : c \in near}
      /\ Len(vec) = Len(q.vec[2])
  BY <1>0, <1>4, <1>5, IdsOfHits
<1> HIDE DEF C
<1>8. /\ a \in Seq(C) /\ Len(a) \in 0..Len(q.fused)
      /\ \A i, j \in DOMAIN a : Id(a[i]) = Id(a[j]) => i = j
      /\ \A m, n : Before(got, m, n) => Before(q.fused, m, n)
      /\ ToSet(got) = ToSet(q.fused) \cap {Id(c) : c \in C}
      /\ (q.fused # <<>> /\ q.fused[1] \in {Id(c) : c \in C}) => got # <<>> /\ got[1] = q.fused[1]
  BY <1>4, AttachHas
<1>9. {Id(c) : c \in near} \subseteq {Id(c) : c \in C}
  BY DEF C
<1> HIDE DEF a, near, vec, bm, got
<1>10. /\ q'.at = "ok" /\ q'.pin = q.pin /\ q'.ask = q.ask /\ q'.start = q.start /\ q'.vec = q.vec
       /\ q'.bm = q.bm /\ q'.fused = q.fused /\ q'.answer = a /\ q'.bmTried = q.bmTried
       /\ q'.vecTried = q.vecTried
  BY <1>0, <1>a DEF QueryOf
<1>11. q' = QueryOf'
  BY <1>0, <1>a, ZenonT(60) DEF QueryOf
<1>12. Asked' = Asked
  BY <1>10 DEF Asked
<1>13. FusedHolds' /\ FallbackIsLast'
  BY <1>4, <1>10, <1>12 DEF FusedHolds, FallbackIsLast
<1>14. ResultsWereThere'
  <2>1. \A i \in DOMAIN a : a[i] \in C
    BY <1>8
  <2> QED
    BY <1>3, <1>6, <1>8, <1>10, <2>1 DEF ResultsWereThere
<1>15. LimitHolds'
  <2>1. Len(a) <= Asked.limit /\ Asked.limit = 1 * Asked.limit
    <3>1. Len(q.fused) \in Nat /\ Len(a) \in Nat
      BY <1>4, <1>8
    <3> QED
      BY <1>4, <1>5, <1>8, <3>1
  <2> QED
    BY <1>4, <1>10, <1>12, <2>1 DEF LimitHolds
<1>16. AgreementWins'
  <2>1. \A m, n \in ToSet(vec) \cap ToSet(bm) : Before(vec, m, n) /\ Before(bm, m, n) => ~Before(got, n, m)
    BY <1>4, <1>8 DEF Agrees
  <2>2. (vec # <<>> /\ bm # <<>> /\ vec[1] = bm[1] /\ Asked.limit > 0) => got # <<>> /\ got[1] = vec[1]
    <3>1. vec # <<>> => vec[1] \in ToSet(vec)
      BY <1>7 DEF ToSet
    <3> QED
      BY <1>4, <1>7, <1>8, <1>9, <3>1 DEF Agrees
  <2>3. ToSet(vec) \cap ToSet(q.fused) \subseteq ToSet(got)
    BY <1>7, <1>8, <1>9
  <2>4. IdsOf(q'.vec[2]) = vec /\ q'.bm[2] = bm /\ IdsOf(q'.answer) = got /\ q'.fused = q.fused
    BY <1>10 DEF vec, bm, got
  <2> QED
    BY <1>12, <2>1, <2>2, <2>3, <2>4 DEF AgreementWins
<1>17. q'.vec # <<"open">> /\ q'.bm[1] # "found"
  <2>1. q.vec # <<"open">>
    BY <1>4
  <2> QED
    BY <1>4, <1>10, <2>1
<1> QED
  BY <1>1, <1>10, <1>11, <1>13, <1>14, <1>15, <1>16, <1>17, LeavingKeeps

-----------------------------------------------------------------------------
(* Answers of the resilient search.                                        *)

\* What the two sides bring, each chunk once.
LEMMA VectorHitsHave ==
  ASSUME SearchInv, q.at # "none", Asked.kind = "resilient", Pinned(q.pin), NEW hits \in VectorHits
  PROVE  /\ hits \in Seq(Rows(log[q.pin])) /\ Len(hits) \in 0..Asked.limit
         /\ \A i, j \in DOMAIN hits : Id(hits[i]) = Id(hits[j]) => i = j
         /\ IdsOf(hits) \in Seq(DocId) /\ InOrder(IdsOf(hits)) /\ Len(IdsOf(hits)) = Len(hits)
<1>1. q.pin \in DOMAIN log /\ TableInv
  BY PinIsThere, SearchFacts
<1>2. Depth = Asked.limit /\ Asked.limit \in Nat
  BY AskedIs DEF Depth
<1>3. hits \in Rankings(Rows(log[q.pin]), Asked.limit)
  BY <1>2 DEF VectorHits
<1>4. hits \in Seq(Rows(log[q.pin])) /\ Len(hits) \in 0..Asked.limit /\ InOrder(hits)
  BY <1>2, <1>3, RankingsHave
<1> QED
  BY <1>1, <1>4, IdsOfHits

\* The same of the text side, whose hits may have lost their chunks.
LEMMA TextResultsHave ==
  ASSUME SearchInv, q.at # "none", Asked.kind = "resilient", q.bm[2] \subseteq DocId,
         Pinned(q.bm[3]), NEW hits \in TextResults
  PROVE  /\ hits \in Seq(Rows(log[q.bm[3]])) /\ Len(hits) \in 0..Asked.limit
         /\ \A i, j \in DOMAIN hits : Id(hits[i]) = Id(hits[j]) => i = j
         /\ IdsOf(hits) \in Seq(DocId) /\ InOrder(IdsOf(hits)) /\ Len(IdsOf(hits)) = Len(hits)
<1>1. q.bm[3] \in DOMAIN log /\ TableInv
  BY PinIsThere, SearchFacts
<1>2. Depth = Asked.limit /\ Asked.limit \in Nat
  BY AskedIs DEF Depth
<1>3. PICK s \in Rankings(q.bm[2], Asked.limit) :
        hits = attach_chunks(s, chunks_by_ids(q.bm[3], ToSet(s)))
  BY <1>2 DEF TextResults, TextHits
<1>4. s \in Seq(q.bm[2]) /\ Len(s) \in 0..Asked.limit /\ InOrder(s)
  BY <1>2, <1>3, RankingsHave
<1>5. s \in Seq(DocId)
  BY <1>4
<1> DEFINE C == chunks_by_ids(q.bm[3], ToSet(s))
<1>6. C \subseteq Rows(log[q.bm[3]])
  BY DEF chunks_by_ids
<1>7. hits = attach_chunks(s, C)
  BY <1>3
<1> HIDE DEF C
<1>8. /\ hits \in Seq(C) /\ Len(hits) \in 0..Len(s)
      /\ \A i, j \in DOMAIN hits : Id(hits[i]) = Id(hits[j]) => i = j
  BY <1>4, <1>5, <1>7, AttachHas
<1>9. hits \in Seq(Rows(log[q.bm[3]]))
  BY <1>6, <1>8
<1>10. InOrder(hits)
  BY <1>8 DEF InOrder
<1>11. Len(hits) \in 0..Asked.limit
  BY <1>2, <1>4, <1>8
<1> QED
  BY <1>1, <1>8, <1>9, <1>10, <1>11, IdsOfHits

\* An answer of the resilient search, and its flag.
Answerable(a) ==
  /\ \A i \in DOMAIN a : \E v \in q.start..Len(log) : a[i] \in Rows(log[v])
  /\ \A i, j \in DOMAIN a : Id(a[i]) = Id(a[j]) => i = j
  /\ Len(a) <= 2 * Asked.limit
Told(fallback) ==
  \/ fallback = TRUE /\ q.bmTried + q.vecTried > 2
  \/ fallback = FALSE /\ q.bmTried + q.vecTried = 2

AnswersWith(a, fallback) ==
  /\ q' = QueryOf' /\ q'.at = "ok" /\ q'.pin = q.pin /\ q'.ask = q.ask /\ q'.start = q.start
  /\ q'.vec = q.vec /\ q'.bm = q.bm /\ q'.answer = a /\ q'.fallback = fallback
  /\ q'.bmTried = q.bmTried /\ q'.vecTried = q.vecTried

\* Such an answer is of chunks that were there, and keeps to its limit.
LEMMA AnswerHolds ==
  ASSUME SearchInv, Still, q.at # "none", Asked.kind = "resilient", NEW a, Answerable(a),
         q'.at = "ok", q'.answer = a, q'.ask = q.ask, q'.start = q.start
  PROVE  /\ FusedHolds' /\ ResultsWereThere' /\ LimitHolds' /\ AgreementWins'
         /\ Asked' = Asked
<1>1. log' = log
  BY ReadsKeepTable
<1>2. Asked' = Asked
  BY DEF Asked
<1>3. FusedHolds' /\ AgreementWins'
  BY <1>2 DEF FusedHolds, AgreementWins
<1>4. ResultsWereThere'
  BY <1>1 DEF ResultsWereThere, Answerable
<1>5. LimitHolds'
  BY <1>2 DEF LimitHolds, Answerable
<1> QED
  BY <1>2, <1>3, <1>4, <1>5

\* The flag of the fallback.
LEMMA FallbackTold ==
  ASSUME Asked' = Asked, q'.at = "ok", q'.bmTried \in Nat, q'.vecTried \in Nat,
         \/ q'.fallback = TRUE /\ q'.bmTried + q'.vecTried > 2
         \/ q'.fallback = FALSE /\ q'.bmTried + q'.vecTried = 2
  PROVE  FallbackIsLast'
<1>1. q'.bmTried + q'.vecTried = 2 => ~(q'.bmTried + q'.vecTried > 2)
  OBVIOUS
<1>2. q'.at # "error"
  OBVIOUS
<1>3. (q'.fallback <=> q'.bmTried + q'.vecTried > 2)
  BY <1>1, Zenon
<1> QED
  BY <1>2, <1>3, Zenon DEF FallbackIsLast

\* All the attributes of an answer together.
LEMMA AnswerKeeps ==
  ASSUME SearchInv, Still, fails' = fails, q.at # "none", Asked.kind = "resilient",
         NEW a, Answerable(a), NEW fallback, Told(fallback), AnswersWith(a, fallback),
         q.vec # <<"open">>, q.bm[1] # "found"
  PROVE  SearchInv'
<1>0. q.bmTried \in Nat /\ q.vecTried \in Nat
  BY SearchFacts
<1>1. /\ q'.at = "ok" /\ q'.pin = q.pin /\ q'.ask = q.ask /\ q'.start = q.start /\ q'.vec = q.vec
      /\ q'.bm = q.bm /\ q'.answer = a /\ q'.bmTried = q.bmTried
      /\ q'.vecTried = q.vecTried /\ q'.fallback = fallback /\ q' = QueryOf'
  BY Zenon DEF AnswersWith
<1>4. /\ FusedHolds' /\ ResultsWereThere' /\ LimitHolds' /\ AgreementWins'
      /\ Asked' = Asked
  BY <1>1, AnswerHolds
<1>5. FallbackIsLast'
  BY <1>0, <1>1, <1>4, FallbackTold DEF Told
<1> QED
  BY <1>1, <1>4, <1>5, LeavingKeeps

\* What a version held that was read during the search.
LEMMA RowsOfSearch ==
  ASSUME NEW v, Pinned(v)
  PROVE  \A c \in Rows(log[v]) : \E w \in q.start..Len(log) : c \in Rows(log[w])
BY DEF Pinned

\* The answer of one side alone.
LEMMA OneSideKeeps ==
  ASSUME SearchInv, Still, fails' = fails, q.at # "none", Asked.kind = "resilient",
         NEW v, Pinned(v), NEW a \in Seq(Rows(log[v])), Len(a) \in 0..Asked.limit,
         \A i, j \in DOMAIN a : Id(a[i]) = Id(a[j]) => i = j,
         NEW fallback \in BOOLEAN, q' = [q EXCEPT !.at = "ok", !.answer = a, !.fallback = fallback],
         q.vec # <<"open">>, q.bm[1] # "found", Told(fallback)
  PROVE  SearchInv'
<1>1. Asked.limit \in Nat
  BY AskedIs
<1>2. Len(a) <= 2 * Asked.limit
  <2>1. Len(a) \in Nat /\ Len(a) <= Asked.limit
    BY <1>1
  <2> QED
    BY <1>1, <2>1
<1>3. AnswersWith(a, fallback)
  <2>1. q = QueryOf
    BY SearchFacts
  <2>2. /\ q'.at = "ok" /\ q'.pin = q.pin /\ q'.ask = q.ask /\ q'.start = q.start
        /\ q'.vec = q.vec /\ q'.bm = q.bm /\ q'.answer = a /\ q'.bmTried = q.bmTried
        /\ q'.vecTried = q.vecTried
    BY <2>1 DEF QueryOf
  <2>3. q' = QueryOf' /\ q'.fallback = fallback
    BY <2>1, ZenonT(60) DEF QueryOf
  <2> QED
    BY <2>2, <2>3, Zenon DEF AnswersWith
<1>4. Answerable(a)
  <2>1. \A i \in DOMAIN a : a[i] \in Rows(log[v])
    OBVIOUS
  <2>2. \A c \in Rows(log[v]) : \E w \in q.start..Len(log) : c \in Rows(log[w])
    BY RowsOfSearch
  <2> QED
    BY <1>2, <2>1, <2>2 DEF Answerable
<1> QED
  BY <1>3, <1>4, AnswerKeeps

\* The answer of both sides, merged.
LEMMA BothSidesKeep ==
  ASSUME SearchInv, Still, fails' = fails, q.at # "none", Asked.kind = "resilient",
         Pinned(q.pin), Pinned(q.bm[3]), q.bm[2] \subseteq DocId,
         NEW vec \in VectorHits, NEW bm \in TextResults,
         NEW f \in reciprocal_rank_fusion(IdsOf(vec), IdsOf(bm)),
         q' = [q EXCEPT !.at = "ok", !.fallback = FALSE, !.fused = f,
                        !.answer = attach_chunks(f, ToSet(vec) \cup ToSet(bm))],
         q.vec # <<"open">>, q.bm[1] # "found", q.bmTried + q.vecTried = 2
  PROVE  SearchInv'
<1>1. Asked.limit \in Nat
  BY AskedIs
<1>2. /\ vec \in Seq(Rows(log[q.pin])) /\ Len(vec) \in 0..Asked.limit
      /\ IdsOf(vec) \in Seq(DocId) /\ InOrder(IdsOf(vec)) /\ Len(IdsOf(vec)) = Len(vec)
  BY VectorHitsHave
<1>3. /\ bm \in Seq(Rows(log[q.bm[3]])) /\ Len(bm) \in 0..Asked.limit
      /\ IdsOf(bm) \in Seq(DocId) /\ InOrder(IdsOf(bm)) /\ Len(IdsOf(bm)) = Len(bm)
  BY TextResultsHave
<1>4. f \in Seq(DocId) /\ Len(f) \in 0..(Len(vec) + Len(bm)) /\ InOrder(f)
  BY <1>2, <1>3, FusionRanks
<1> DEFINE C == ToSet(vec) \cup ToSet(bm)
           a == attach_chunks(f, C)
<1>5. ToSet(vec) \subseteq Rows(log[q.pin]) /\ ToSet(bm) \subseteq Rows(log[q.bm[3]])
  BY <1>2, <1>3 DEF ToSet
<1>6. \A c \in C : \E w \in q.start..Len(log) : c \in Rows(log[w])
  <2>1. \A c \in Rows(log[q.pin]) : \E w \in q.start..Len(log) : c \in Rows(log[w])
    BY RowsOfSearch
  <2>2. \A c \in Rows(log[q.bm[3]]) : \E w \in q.start..Len(log) : c \in Rows(log[w])
    BY RowsOfSearch
  <2> QED
    BY <1>5, <2>1, <2>2
<1> HIDE DEF C
<1>7. /\ a \in Seq(C) /\ Len(a) \in 0..Len(f)
      /\ \A i, j \in DOMAIN a : Id(a[i]) = Id(a[j]) => i = j
  BY <1>4, AttachHas
<1>8. Len(a) <= 2 * Asked.limit
  <2>1. /\ Len(vec) \in Nat /\ Len(bm) \in Nat /\ Len(vec) <= Asked.limit /\ Len(bm) <= Asked.limit
    BY <1>1, <1>2, <1>3
  <2>2. Len(f) \in Nat /\ Len(f) <= Len(vec) + Len(bm)
    BY <1>4, <2>1
  <2>3. Len(a) \in Nat /\ Len(a) <= Len(f)
    BY <1>7, <2>2
  <2> QED
    BY <1>1, <2>1, <2>2, <2>3
<1>9. AnswersWith(a, FALSE)
  <2>1. q = QueryOf
    BY SearchFacts
  <2>2. q' = [q EXCEPT !.at = "ok", !.fallback = FALSE, !.fused = f, !.answer = a]
    BY DEF C
  <2> HIDE DEF a
  <2>3. /\ q'.at = "ok" /\ q'.pin = q.pin /\ q'.ask = q.ask /\ q'.start = q.start
        /\ q'.vec = q.vec /\ q'.bm = q.bm /\ q'.answer = a /\ q'.bmTried = q.bmTried
        /\ q'.vecTried = q.vecTried
    BY <2>1, <2>2 DEF QueryOf
  <2>4. q' = QueryOf' /\ q'.fallback = FALSE
    BY <2>1, <2>2, ZenonT(60) DEF QueryOf
  <2> QED
    BY <2>3, <2>4, Zenon DEF AnswersWith
<1>10. Told(FALSE)
  BY DEF Told
<1>11. Answerable(a)
  <2>1. \A i \in DOMAIN a : a[i] \in C
    BY <1>7
  <2> HIDE DEF a
  <2> QED
    BY <1>6, <1>7, <1>8, <2>1 DEF Answerable
<1> HIDE DEF a
<1> QED
  BY <1>9, <1>10, <1>11, AnswerKeeps, Zenon

\* Both sides have failed: the search begins again.
LEMMA AgainKeeps ==
  ASSUME SearchInv, Still, fails' = fails, q.at = "sides", Asked.kind = "resilient",
         q.vec = SideFailed, q.bm = SideFailed,
         q' = [q EXCEPT !.at = "fallback bm", !.fallback = TRUE, !.bm = Todo, !.vec = Todo]
  PROVE  SearchInv'
<1>0. /\ q = QueryOf /\ q.start \in Nat /\ q.pin \in Nat /\ q.bmTried \in Nat /\ q.vecTried \in Nat
      /\ fails \in Nat /\ SidesHold
  BY SearchFacts
<1>1. /\ q'.at = "fallback bm" /\ q'.pin = q.pin /\ q'.ask = q.ask /\ q'.start = q.start /\ q'.vec = Todo
      /\ q'.bm = Todo /\ q'.bmTried = q.bmTried /\ q'.vecTried = q.vecTried
  BY <1>0 DEF QueryOf
<1>2. q' = QueryOf' /\ q'.fallback = TRUE
  BY <1>0, ZenonT(60) DEF QueryOf
<1>3. log' = log /\ limits' = limits
  BY ReadsKeepTable
<1>4. Asked' = Asked
  BY <1>1 DEF Asked
<1>5. SearchStands'
  BY <1>0, <1>1, <1>3, <1>4 DEF SidesHold, SearchStands, UnderWay
<1>6. VectorSide' /\ TextSide'
  BY <1>1, SideStates DEF VectorSide, TextSide, UnderWay
<1>7. q.bmTried = 1 /\ q.vecTried = 1
  BY <1>0, SideStates, Zenon DEF SidesHold, Attempts
<1>8. 1 = 1 + Tried(Todo)
  BY SideStates, Adds, Zenon
<1>9. Attempts'
  <2>3. q'.bmTried = 1 /\ q'.vecTried = 1 /\ q'.vec = Todo
    BY <1>1, <1>7
  <2>4. 1 = 1 + Tried(q'.bm)
    BY <1>1, <1>8, Zenon
  <2>1. q'.fallback /\ q'.vec = Todo /\ q'.vecTried = 1 /\ q'.bmTried = 1 + Tried(q'.bm)
    BY <1>2, <2>3, <2>4, Zenon
  <2>2. q'.at # "sides" /\ q'.at # "fallback vec"
    BY <1>1
  <2> QED
    BY <2>1, <2>2, Zenon DEF Attempts
<1> QED
  BY <1>0, <1>1, <1>2, <1>5, <1>6, <1>9, SideSteps DEF SidesHold

\* The resilient search takes what came (ResilientHybridSearch::search).
LEMMA MergeKeeps ==
  ASSUME SearchInv, merge_results
  PROVE  SearchInv'
<1>1. /\ Still /\ fails' = fails /\ q.at = "sides" /\ q.at # "none" /\ Asked.kind = "resilient"
      /\ Came(q.vec) /\ Came(q.bm)
  BY DEF merge_results, Still
<1>2. /\ q.vec # SideFailed => q.vec = <<"read">> /\ Pinned(q.pin)
      /\ q.vec # <<"open">> /\ q.bm[1] # "found"
      /\ q.bm # SideFailed => /\ q.bm[2] \subseteq DocId
                              /\ q.bm = <<"read", q.bm[2], q.bm[3]>> /\ Pinned(q.bm[3])
  BY <1>1, CameIs
<1>3. Told(FALSE)
  <2>1. q.bmTried = Tried(q.bm) /\ q.vecTried = Tried(q.vec)
    BY <1>1, SearchFacts, Zenon DEF SidesHold, Attempts
  <2>2. Tried(q.bm) = 1 /\ Tried(q.vec) = 1
    BY <1>2, SideStates, Zenon
  <2>3. q.bmTried + q.vecTried = 2
    BY <2>1, <2>2, Adds, Zenon
  <2> QED
    BY <2>3 DEF Told
<1>4. CASE q.vec = SideFailed /\ q.bm = SideFailed
  <2>1. q' = [q EXCEPT !.at = "fallback bm", !.fallback = TRUE, !.bm = Todo, !.vec = Todo]
    BY <1>4 DEF merge_results
  <2> QED
    BY <1>1, <1>4, <2>1, AgainKeeps
<1>5. CASE q.vec = SideFailed /\ q.bm # SideFailed
  <2>1. PICK bm \in TextResults : q' = [q EXCEPT !.at = "ok", !.answer = bm, !.fallback = FALSE]
    BY <1>5 DEF merge_results
  <2>2. /\ bm \in Seq(Rows(log[q.bm[3]])) /\ Len(bm) \in 0..Asked.limit
        /\ \A i, j \in DOMAIN bm : Id(bm[i]) = Id(bm[j]) => i = j
    BY <1>1, <1>2, <1>5, TextResultsHave
  <2>3. Pinned(q.bm[3])
    BY <1>2, <1>5
  <2> QED
    BY <1>1, <1>2, <1>3, <2>1, <2>2, <2>3, OneSideKeeps
<1>6. CASE q.vec # SideFailed /\ q.bm = SideFailed
  <2>1. PICK vec \in VectorHits : q' = [q EXCEPT !.at = "ok", !.answer = vec, !.fallback = FALSE]
    BY <1>6 DEF merge_results
  <2>2. /\ vec \in Seq(Rows(log[q.pin])) /\ Len(vec) \in 0..Asked.limit
        /\ \A i, j \in DOMAIN vec : Id(vec[i]) = Id(vec[j]) => i = j
    BY <1>1, <1>2, <1>6, VectorHitsHave
  <2>3. Pinned(q.pin)
    BY <1>2, <1>6
  <2> QED
    BY <1>1, <1>2, <1>3, <2>1, <2>2, <2>3, OneSideKeeps
<1>7. CASE q.vec # SideFailed /\ q.bm # SideFailed
  <2>1. PICK vec \in VectorHits, bm \in TextResults :
          \E f \in reciprocal_rank_fusion(IdsOf(vec), IdsOf(bm)) :
             q' = [q EXCEPT !.at = "ok", !.fallback = FALSE, !.fused = f,
                     !.answer = attach_chunks(f, ToSet(vec) \cup ToSet(bm))]
    BY <1>7 DEF merge_results
  <2>2. PICK f \in reciprocal_rank_fusion(IdsOf(vec), IdsOf(bm)) :
             q' = [q EXCEPT !.at = "ok", !.fallback = FALSE, !.fused = f,
                     !.answer = attach_chunks(f, ToSet(vec) \cup ToSet(bm))]
    BY <2>1
  <2>3. Pinned(q.pin) /\ Pinned(q.bm[3]) /\ q.bm[2] \subseteq DocId
    BY <1>2, <1>7
  <2>4. q.bmTried + q.vecTried = 2
    BY <1>3 DEF Told
  <2> QED
    BY <1>1, <1>2, <2>2, <2>3, <2>4, BothSidesKeep
<1> QED
  BY <1>4, <1>5, <1>6, <1>7

\* The text side has failed again: on to the vectors.
LEMMA OnKeeps ==
  ASSUME SearchInv, Still, fails' = fails, q.at = "fallback bm", q.bm = SideFailed,
         q' = [q EXCEPT !.at = "fallback vec"]
  PROVE  SearchInv'
<1>0. /\ q = QueryOf /\ q.start \in Nat /\ q.pin \in Nat /\ q.bmTried \in Nat /\ q.vecTried \in Nat
      /\ fails \in Nat /\ SidesHold
  BY SearchFacts
<1>1. /\ q'.at = "fallback vec" /\ q'.pin = q.pin /\ q'.ask = q.ask /\ q'.start = q.start /\ q'.vec = q.vec
      /\ q'.bm = q.bm /\ q'.bmTried = q.bmTried /\ q'.vecTried = q.vecTried
  BY <1>0 DEF QueryOf
<1>2. q' = QueryOf' /\ q'.fallback = q.fallback
  BY <1>0, ZenonT(60) DEF QueryOf
<1>3. log' = log /\ limits' = limits
  BY ReadsKeepTable
<1>4. Asked' = Asked
  BY <1>1 DEF Asked
<1>5. SearchStands'
  BY <1>0, <1>1, <1>3, <1>4 DEF SidesHold, SearchStands, UnderWay
<1>6. q.fallback /\ q.vec = Todo /\ q.vecTried = 1 /\ q.bmTried = 1 + Tried(q.bm)
  BY <1>0, Zenon DEF SidesHold, Attempts
<1>7. VectorSide' /\ TextSide'
  BY <1>1, <1>6, SideStates DEF VectorSide, TextSide, UnderWay
<1>8. q.bmTried = 2 /\ 1 = 1 + Tried(Todo)
  BY <1>6, SideStates, Adds, Zenon
<1>9. Attempts'
  <2>1. q'.fallback /\ q'.bm = SideFailed /\ q'.bmTried = 2 /\ q'.vecTried = 1 + Tried(q'.vec)
    BY <1>1, <1>2, <1>6, <1>8, Zenon
  <2>2. q'.at # "sides" /\ q'.at # "fallback bm"
    BY <1>1
  <2> QED
    BY <2>1, <2>2, Zenon DEF Attempts
<1> QED
  BY <1>0, <1>1, <1>2, <1>5, <1>7, <1>9, SideSteps DEF SidesHold

\* Both have failed twice.
LEMMA GivingUpKeeps ==
  ASSUME SearchInv, Still, fails' = fails, q.at = "fallback vec", q.vec = SideFailed,
         q' = [q EXCEPT !.at = "error", !.answer = <<>>]
  PROVE  SearchInv'
<1>0. /\ q = QueryOf /\ SidesHold
  BY SearchFacts
<1>1. /\ q'.at = "error" /\ q'.pin = q.pin /\ q'.ask = q.ask /\ q'.start = q.start /\ q'.vec = q.vec
      /\ q'.bm = q.bm /\ q'.bmTried = q.bmTried /\ q'.vecTried = q.vecTried
  BY <1>0 DEF QueryOf
<1>2. q' = QueryOf'
  BY <1>0, ZenonT(60) DEF QueryOf
<1>3. q.bm = SideFailed /\ q.bmTried = 2 /\ q.vecTried = 1 + Tried(q.vec)
  BY <1>0, Zenon DEF SidesHold, Attempts
<1>4. q.vecTried = 2
  BY <1>3, SideStates, Adds, Zenon
<1>5. FusedHolds' /\ ResultsWereThere' /\ LimitHolds' /\ AgreementWins'
  BY <1>1 DEF FusedHolds, ResultsWereThere, LimitHolds, AgreementWins
<1>6. FallbackIsLast'
  <2>1. q'.at # "ok" /\ q'.bmTried = 2 /\ q'.vecTried = 2
    BY <1>1, <1>3, <1>4
  <2> QED
    BY <2>1, Zenon DEF FallbackIsLast
<1>7. q'.vec # <<"open">> /\ q'.bm[1] # "found"
  BY <1>1, <1>3, SideStates
<1> QED
  BY <1>1, <1>2, <1>5, <1>6, <1>7, LeavingKeeps

\* The fallback tries the text side, then the vectors (fallback_search).
LEMMA FallbackKeeps ==
  ASSUME SearchInv, fallback_search
  PROVE  SearchInv'
<1>0. q = QueryOf /\ SidesHold
  BY SearchFacts
<1>1. Still /\ fails' = fails
  BY DEF fallback_search, Still
<1>2. CASE q.at = "fallback bm" /\ q.bm[1] = "read" /\ \E bm \in TextResults : SearchEnds("ok", bm)
  <2>1. PICK bm \in TextResults : q' = [q EXCEPT !.at = "ok", !.answer = bm]
    BY <1>2 DEF SearchEnds
  <2>2. q.at # "none" /\ Asked.kind = "resilient"
    BY <1>0, <1>2, AskedIs DEF SidesHold, SearchStands, UnderWay
  <2>3. q.bm[2] \subseteq DocId /\ q.bm = <<"read", q.bm[2], q.bm[3]>> /\ Pinned(q.bm[3])
    <3>2. \A x : <<"found", x>>[1] = "found"
      OBVIOUS
    <3>1. q.bm # Todo /\ q.bm # SideFailed /\ q.bm # <<"found", q.bm[2]>>
      BY <1>2, <3>2, SideStates, Zenon DEF Todo, SideFailed
    <3> QED
      BY <1>0, <1>2, <2>2, <3>1 DEF SidesHold, TextSide, UnderWay
  <2>4. q.fallback = q.fallback /\ q.fallback /\ q.vec = Todo /\ q.vecTried = 1 /\ q.bmTried = 1 + Tried(q.bm)
    BY <1>0, <1>2, Zenon DEF SidesHold, Attempts
  <2>5. q.bmTried = 2
    <3>1. Tried(q.bm) = 1
      BY <2>3, SideStates
    <3> QED
      BY <2>4, <3>1, Adds, Zenon
  <2>6. q.bmTried + q.vecTried > 2
    <3>1. q.vecTried = 1
      BY <2>4
    <3>2. 2 + 1 > 2
      OBVIOUS
    <3> QED
      BY <2>5, <3>1, <3>2, Zenon
  <2>7. Told(TRUE)
    BY <2>6, Zenon DEF Told
  <2>8. /\ bm \in Seq(Rows(log[q.bm[3]])) /\ Len(bm) \in 0..Asked.limit
        /\ \A i, j \in DOMAIN bm : Id(bm[i]) = Id(bm[j]) => i = j
    BY <2>2, <2>3, TextResultsHave
  <2>9. q' = [q EXCEPT !.at = "ok", !.answer = bm, !.fallback = TRUE]
    BY <1>0, <2>1, <2>4, ZenonT(60) DEF QueryOf
  <2>10. q.vec # <<"open">> /\ q.bm[1] # "found"
    BY <1>2, <2>4, SideStates
  <2> QED
    BY <1>1, <2>2, <2>3, <2>7, <2>8, <2>9, <2>10, OneSideKeeps
<1>3. CASE q.at = "fallback bm" /\ q.bm = SideFailed /\ q' = [q EXCEPT !.at = "fallback vec"]
  BY <1>1, <1>3, OnKeeps
<1>4. CASE q.at = "fallback vec" /\ q.vec = <<"read">> /\ \E vec \in VectorHits : SearchEnds("ok", vec)
  <2>1. PICK vec \in VectorHits : q' = [q EXCEPT !.at = "ok", !.answer = vec]
    BY <1>4 DEF SearchEnds
  <2>2. q.at # "none" /\ Asked.kind = "resilient"
    BY <1>0, <1>4, AskedIs DEF SidesHold, SearchStands, UnderWay
  <2>3. Pinned(q.pin)
    BY <1>0, <1>4 DEF SidesHold, VectorSide, UnderWay
  <2>4. q.fallback /\ q.bm = SideFailed /\ q.bmTried = 2 /\ q.vecTried = 1 + Tried(q.vec)
    BY <1>0, <1>4, Zenon DEF SidesHold, Attempts
  <2>5. q.vecTried = 2
    BY <1>4, <2>4, SideStates, Adds, Zenon
  <2>6. q.bmTried + q.vecTried > 2
    <3>1. q.bmTried = 2
      BY <2>4
    <3>2. 2 + 2 > 2
      OBVIOUS
    <3> QED
      BY <2>5, <3>1, <3>2, Zenon
  <2>7. Told(TRUE)
    BY <2>6, Zenon DEF Told
  <2>8. /\ vec \in Seq(Rows(log[q.pin])) /\ Len(vec) \in 0..Asked.limit
        /\ \A i, j \in DOMAIN vec : Id(vec[i]) = Id(vec[j]) => i = j
    BY <2>2, <2>3, VectorHitsHave
  <2>9. q' = [q EXCEPT !.at = "ok", !.answer = vec, !.fallback = TRUE]
    BY <1>0, <2>1, <2>4, ZenonT(60) DEF QueryOf
  <2>10. q.vec # <<"open">> /\ q.bm[1] # "found"
    BY <1>4, <2>4, SideStates
  <2> QED
    BY <1>1, <2>2, <2>3, <2>7, <2>8, <2>9, <2>10, OneSideKeeps
<1>5. CASE q.at = "fallback vec" /\ q.vec = SideFailed /\ SearchEnds("error", <<>>)
  BY <1>1, <1>5, GivingUpKeeps DEF SearchEnds
<1> QED
  BY <1>2, <1>3, <1>4, <1>5 DEF fallback_search

-----------------------------------------------------------------------------
(* The invariant.                                                          *)

\* There is no table at first.
LEMMA TableStarts ==
  ASSUME VTInit
  PROVE  TableInv
<1>1. /\ store = NoStore /\ log = <<>> /\ kept = {} /\ disk = {} /\ content = {} /\ now = 0
      /\ job = NoJob /\ limits \in Bounds /\ DOMAIN log = {}
      /\ made = [chunks |-> 0, frags |-> 0, syncs |-> 0, passes |-> 0, deaths |-> 0]
  BY DEF VTInit
<1>2. /\ job.op = "none" /\ job.at = "none" /\ job.by = "none" /\ job.files = {} /\ job.deltas = 0
      /\ job.merged = FALSE /\ job \in Jobs
  BY <1>1 DEF NoJob, Jobs, Ops, Steps
<1>3. store.table = FALSE /\ store.meta = {} /\ store \in Directories /\ made \in Counts
  BY <1>1 DEF NoStore, Directories, Counts
<1>4. TableTypes
  BY <1>1, <1>2, <1>3 DEF TableTypes
<1>5. VersionsHold /\ OpenedByOne /\ DiskIsNamed
  BY <1>1, <1>2, <1>3 DEF VersionsHold, OpenedByOne, DiskIsNamed
<1>6. PassGoesOn
  BY <1>1, <1>2 DEF PassGoesOn
<1>7. NothingLost /\ KeptAreWhole /\ DeltasBounded
  BY <1>1 DEF NothingLost, KeptAreWhole, DeltasBounded
<1> QED
  BY <1>4, <1>5, <1>6, <1>7 DEF TableInv

\* And no search.
LEMMA SearchStarts ==
  ASSUME HSInit
  PROVE  SearchInv
<1>1. /\ VTInit /\ text = {} /\ staged = {} /\ loaded = {} /\ q = NoSearch /\ fails = 0
  BY DEF HSInit
<1>2. TableInv
  BY <1>1, TableStarts
<1>3. /\ q.ask = {} /\ q.at = "none" /\ q.start = 0 /\ q.pin = 0 /\ q.vec = Todo /\ q.bm = Todo
      /\ q.fallback = FALSE /\ q.bmTried = 0 /\ q.vecTried = 0 /\ q = QueryOf
  BY <1>1 DEF NoSearch, QueryOf
<1>4. SearchTypes
  BY <1>1, <1>3 DEF SearchTypes, QueryOf
<1>5. DocumentsHold
  <2>1. /\ store = NoStore /\ log = <<>> /\ content = {} /\ job = NoJob
    BY <1>1 DEF VTInit
  <2>2. job.op = "none" /\ store.meta = {}
    BY <2>1 DEF NoJob, NoStore
  <2> QED
    BY <1>1, <2>1, <2>2 DEF DocumentsHold
<1>6. SidesHold
  <2>1. SearchStands
    BY <1>1, <1>3 DEF SearchStands, UnderWay
  <2>2. VectorSide /\ TextSide
    BY <1>3, SideStates DEF VectorSide, TextSide, UnderWay
  <2>3. Attempts
    BY <1>3 DEF Attempts
  <2> QED
    BY <2>1, <2>2, <2>3 DEF SidesHold
<1>7. FusedHolds /\ ResultsWereThere /\ LimitHolds /\ AgreementWins /\ FallbackIsLast
  BY <1>3 DEF FusedHolds, ResultsWereThere, LimitHolds, AgreementWins, FallbackIsLast
<1> QED
  BY <1>2, <1>4, <1>5, <1>6, <1>7 DEF SearchInv

\* What is true stays so while the rest of the server works.
LEMMA SearchRests ==
  ASSUME SearchInv, UNCHANGED searchVars
  PROVE  SearchInv'
<1>1. Still /\ q' = q /\ fails' = fails
  BY DEF searchVars, hsVars, Still
<1>2. /\ TableInv' /\ DocumentsHold' /\ log' = log /\ limits' = limits
      /\ (text \subseteq DocId /\ staged \subseteq DocId /\ loaded \subseteq DocId)'
  BY <1>1, ReadsKeepTable
<1>3. SearchTypes'
  BY <1>1, <1>2 DEF SearchInv, SearchTypes
<1>4. Asked' = Asked /\ \A v : Pinned(v)' <=> Pinned(v)
  BY <1>1, <1>2 DEF Asked, Pinned
<1>5. SearchStands' /\ VectorSide' /\ TextSide' /\ Attempts'
  BY <1>1, <1>2, <1>4 DEF SearchInv, SidesHold, SearchStands, VectorSide, TextSide, Attempts, UnderWay
<1>6. FusedHolds' /\ ResultsWereThere' /\ LimitHolds' /\ AgreementWins' /\ FallbackIsLast'
  BY <1>1, <1>2, <1>4
     DEF SearchInv, FusedHolds, ResultsWereThere, LimitHolds, AgreementWins, FallbackIsLast
<1> QED
  BY <1>2, <1>3, <1>5, <1>6 DEF SearchInv, SidesHold

\* Every step keeps the invariant.
LEMMA SearchGoesOn ==
  ASSUME SearchInv, [HSNext]_searchVars
  PROVE  SearchInv'
<1>1. CASE ~SearchDone /\ (TableSteps \/ WriterSteps)
  BY <1>1, WritesKeepSearch
<1>2. CASE Ask
  BY <1>2, AskKeeps
<1>3. CASE open_vectors
  BY <1>3, OpenKeeps
<1>4. CASE search_vectors
  BY <1>4, SearchVectorsKeeps
<1>5. CASE search_text
  BY <1>5, SearchTextKeeps
<1>6. CASE bm25_chunks
  BY <1>6, Bm25ChunksKeeps
<1>7. CASE fuse
  BY <1>7, FuseKeeps
<1>8. CASE fetch_missing
  BY <1>8, FetchKeeps
<1>9. CASE merge_results
  BY <1>9, MergeKeeps
<1>10. CASE fallback_search
  BY <1>10, FallbackKeeps
<1>11. CASE UNCHANGED searchVars
  BY <1>11, SearchRests
<1> QED
  BY <1>1, <1>2, <1>3, <1>4, <1>5, <1>6, <1>7, <1>8, <1>9, <1>10, <1>11 DEF HSNext

-----------------------------------------------------------------------------
(* The version a search reads.                                             *)

\* While tables are written, time goes on and versions stay what they are.
LEMMA VersionsAge ==
  ASSUME SearchInv, TableSteps \/ WriterSteps
  PROVE  /\ now \in Nat /\ now' \in Nat /\ now <= now' /\ Len(log) \in Nat /\ Len(log') \in Nat
         /\ Len(log) <= Len(log')
         /\ \A v \in 1..Len(log) : log'[v] = log[v] /\ log[v].made \in Nat
<1>1. now \in Nat /\ log \in Seq(Version) /\ LogGrows
  BY TableLogGrows DEF SearchInv, TableInv, TableTypes
<1>2. log' \in Seq(Version)
  BY TableKeeps, WriterKeeps DEF SearchInv, TableInv, TableTypes
<1>3. now' = now \/ now' = now + 1
  BY DEF TableSteps, WriterSteps, new, create_table, create_indices, table_exists, check_identity,
         maintain, drop_unused, extend_indices, compact, ensure_ann_index, prune, closes, Dies, Tick,
         open_text, delete_files_chunks, index_chunks, commit
<1>4. DOMAIN log = 1..Len(log) /\ DOMAIN log' = 1..Len(log') /\ Len(log) \in Nat /\ Len(log') \in Nat
  BY <1>1, <1>2
<1>5. 1..Len(log) \subseteq 1..Len(log')
  BY <1>1, <1>4 DEF LogGrows
<1>6. Len(log) <= Len(log')
  BY <1>4, <1>5
<1>7. \A v \in 1..Len(log) : log'[v] = log[v] /\ log[v] \in Version
  BY <1>1, <1>4 DEF LogGrows
<1>8. \A v \in 1..Len(log) : log[v].made \in Nat
  BY <1>7 DEF Version
<1> QED
  BY <1>1, <1>3, <1>4, <1>6, <1>7, <1>8

\* So a version that is outdated remains so (optimize_indices: the prune).
LEMMA WritesKeepPin ==
  ASSUME SearchInv, PinHolds, TableSteps \/ WriterSteps
  PROVE  PinHolds'
<1>1. q' = q /\ Asked' = Asked
  BY WritesLeaveSearch DEF Asked
<1>2. ASSUME NEW v \in 1..Len(log), Outdated(v)
      PROVE  Outdated(v)'
  <2>1. log'[v].made = log[v].made /\ log[v].made \in Nat /\ now \in Nat /\ now' \in Nat /\ now <= now'
    BY VersionsAge
  <2>2. v # Len(log') /\ Keep \in Nat
    BY <1>2, VersionsAge, TableAssumption DEF Outdated
  <2>3. now' - log'[v].made > Keep
    BY <1>2, <2>1, <2>2 DEF Outdated
  <2> QED
    BY <2>2, <2>3 DEF Outdated
<1>3. q.pin \in 0..Len(log') /\ (q.pin # 0 => q.pin \in 1..Len(log))
  BY VersionsAge DEF PinHolds
<1> QED
  BY <1>1, <1>2, <1>3 DEF PinHolds

\* A step of the search that leaves the version, and what came of it, alone.
LEMMA StepsKeepPin ==
  ASSUME SearchInv, PinHolds, Still, q'.ask = q.ask, q'.pin = q.pin,
         \/ q'.vec = q.vec
         \/ q'.vec # <<"open">> /\ q'.vec # Todo /\ q'.vec # SideFailed
         \/ q'.vec # <<"open">> /\ Asked.kind = "resilient"
  PROVE  PinHolds'
<1>1. log' = log /\ now' = now /\ Asked' = Asked
  BY DEF Still, vtVars, Asked
<1>2. q'.pin \in 0..Len(log') /\ \A v : Outdated(v)' <=> Outdated(v)
  BY <1>1 DEF PinHolds, Outdated
<1> QED
  BY <1>1, <1>2 DEF PinHolds

\* A version is read as a whole, or it was outdated (vector_search).
LEMMA ReadsKeepPin ==
  ASSUME SearchInv, PinHolds, search_vectors
  PROVE  PinHolds'
<1>1. q = QueryOf /\ Still /\ q.vec = <<"open">> /\ q.pin \in 1..Len(log)
  BY SearchFacts DEF search_vectors, Still, PinHolds
<1>2. CASE FragIds(log[q.pin]) \subseteq disk
  <2>1. q' = [q EXCEPT !.vec = <<"read">>, !.vecTried = @ + 1]
    BY <1>2 DEF search_vectors
  <2>2. q'.ask = q.ask /\ q'.pin = q.pin /\ q'.vec = <<"read">>
    BY <1>1, <2>1 DEF QueryOf
  <2> QED
    BY <1>1, <2>2, SideStates, StepsKeepPin
<1>3. CASE ~(FragIds(log[q.pin]) \subseteq disk)
  <2>1. q' = [q EXCEPT !.vec = SideFailed, !.vecTried = @ + 1]
    BY <1>3 DEF search_vectors
  <2>2. q'.ask = q.ask /\ q'.pin = q.pin /\ q'.vec = SideFailed
    BY <1>1, <2>1 DEF QueryOf
  <2>3. q.pin \notin kept
    BY <1>3 DEF SearchInv, TableInv, KeptAreWhole
  <2>4. q.pin # Len(log) /\ ~(now - log[q.pin].made <= Keep)
    <3>1. q.pin \in DOMAIN log /\ log # <<>>
      BY <1>1, SearchFacts
    <3> QED
      BY <2>3, <3>1 DEF SearchInv, TableInv, KeptAreWhole
  <2>5. now \in Nat /\ Keep \in Nat /\ log[q.pin].made \in Nat
    <3>1. now \in Nat /\ log \in Seq(Version)
      BY DEF SearchInv, TableInv, TableTypes
    <3>2. log[q.pin] \in Version
      BY <1>1, <3>1
    <3> QED
      BY <3>1, <3>2, TableAssumption DEF Version
  <2>6. Outdated(q.pin)
    BY <2>4, <2>5 DEF Outdated
  <2>7. log' = log /\ now' = now
    BY <1>1 DEF Still, vtVars
  <2>8. q'.pin \in 0..Len(log') /\ q'.pin # Len(log') /\ now' - log'[q'.pin].made > Keep
    BY <2>2, <2>6, <2>7 DEF PinHolds, Outdated
  <2> QED
    BY <2>2, <2>8, SideStates DEF PinHolds, Outdated
<1> QED
  BY <1>2, <1>3

\* The table is opened at its newest version, or not at all.
LEMMA OpensKeepPin ==
  ASSUME SearchInv, PinHolds, open_vectors
  PROVE  PinHolds'
<1>1. /\ q = QueryOf /\ Still /\ q.vec = Todo /\ q.at # "none" /\ Len(log) \in Nat
      /\ SidesHold
  BY SearchFacts DEF open_vectors, Still, VecIsOn
<1>2. log' = log /\ now' = now
  BY <1>1 DEF Still, vtVars
<1>3. CASE q' = [q EXCEPT !.vec = <<"open">>, !.pin = get_table]
  <2>1. q'.ask = q.ask /\ q'.pin = Len(log) /\ q'.vec = <<"open">>
    BY <1>1, <1>3 DEF QueryOf, get_table
  <2>2. Len(log) # 0
    BY <1>1 DEF SidesHold, SearchStands
  <2> QED
    BY <1>1, <1>2, <2>1, <2>2, SideStates DEF PinHolds
<1>4. CASE q' = [q EXCEPT !.vec = SideFailed, !.vecTried = @ + 1]
  <2>1. q'.ask = q.ask /\ q'.pin = q.pin /\ q'.vec = SideFailed
    BY <1>1, <1>4 DEF QueryOf
  <2>2. Asked' = Asked
    BY <2>1 DEF Asked
  <2> QED
    BY <1>1, <1>2, <2>1, <2>2, SideStates DEF PinHolds
<1> QED
  BY <1>3, <1>4 DEF open_vectors

\* Asking starts without a version, and no other step looks for one.
LEMMA PinGoesOn ==
  ASSUME SearchInv, PinHolds, [HSNext]_searchVars
  PROVE  PinHolds'
<1>0. q = QueryOf /\ Len(log) \in Nat
  BY SearchFacts
<1>1. CASE TableSteps \/ WriterSteps
  BY <1>1, WritesKeepPin
<1>2. CASE Ask
  <2>1. PICK ask \in limits.searches :
          q' = [NoSearch EXCEPT !.ask = {ask}, !.at = "sides", !.start = Len(log), !.began = now,
                                !.fallback = q.fallback]
    BY <1>2 DEF Ask
  <2>2. q'.pin = 0 /\ q'.vec = Todo /\ log' = log
    BY <1>2, <2>1 DEF NoSearch, Ask, vtVars
  <2> QED
    BY <1>0, <2>2, SideStates DEF PinHolds
<1>3. CASE open_vectors
  BY <1>3, OpensKeepPin
<1>4. CASE search_vectors
  BY <1>4, ReadsKeepPin
<1>5. CASE search_text
  <2>1. Still
    BY <1>5 DEF search_text, Still
  <2>2. q'.ask = q.ask /\ q'.pin = q.pin /\ q'.vec = q.vec
    <3>1. \/ \E x : q' = [q EXCEPT !.bm = x]
          \/ \E x, n : q' = [q EXCEPT !.bm = x, !.bmTried = n]
      BY <1>5 DEF search_text
    <3> QED
      BY <1>0, <3>1 DEF QueryOf
  <2> QED
    BY <2>1, <2>2, StepsKeepPin
<1>6. CASE bm25_chunks
  <2>1. Still
    BY <1>6 DEF bm25_chunks, Still
  <2>2. q'.ask = q.ask /\ q'.pin = q.pin /\ q'.vec = q.vec
    <3>1. \E x, n : q' = [q EXCEPT !.bmTried = n, !.bm = x]
      BY <1>6 DEF bm25_chunks
    <3> QED
      BY <1>0, <3>1 DEF QueryOf
  <2> QED
    BY <2>1, <2>2, StepsKeepPin
<1>7. CASE fuse
  <2>1. Still
    BY <1>7 DEF fuse, Still
  <2>2. \/ q' = [q EXCEPT !.at = "error", !.answer = <<>>]
        \/ \E h, bm, f : q' = [q EXCEPT !.at = "fused", !.vec = <<"hits", h>>, !.bm = <<"hits", bm>>,
                                        !.fused = f]
    <3>1. CASE q.vec = SideFailed \/ q.bm = SideFailed
      BY <1>7, <3>1 DEF fuse, SearchEnds
    <3>2. CASE ~(q.vec = SideFailed \/ q.bm = SideFailed)
      <4>1. PICK vec \in VectorHits, bm \in TextHits :
              \E f \in reciprocal_rank_fusion(IdsOf(vec), bm) :
                q' = [q EXCEPT !.at = "fused", !.vec = <<"hits", vec>>, !.bm = <<"hits", bm>>,
                               !.fused = Truncate(f, Asked.limit)]
        BY <1>7, <3>2 DEF fuse
      <4> QED
        BY <4>1, Zenon
    <3> QED
      BY <3>1, <3>2
  <2>3. /\ q'.ask = q.ask /\ q'.pin = q.pin
        /\ q'.vec = q.vec \/ \E h : q'.vec = <<"hits", h>>
    BY <1>0, <2>2 DEF QueryOf
  <2>4. \A h : <<"hits", h>> # <<"open">> /\ <<"hits", h>> # Todo /\ <<"hits", h>> # SideFailed
    BY DEF Todo, SideFailed
  <2> QED
    BY <2>1, <2>3, <2>4, StepsKeepPin
<1>8. CASE fetch_missing
  <2>1. Still
    BY <1>8 DEF fetch_missing, Still
  <2>2. \E x : q' = [q EXCEPT !.at = "ok", !.answer = x]
    BY <1>8 DEF fetch_missing, SearchEnds
  <2>3. q'.ask = q.ask /\ q'.pin = q.pin /\ q'.vec = q.vec
    BY <1>0, <2>2 DEF QueryOf
  <2> QED
    BY <2>1, <2>3, StepsKeepPin
<1>9. CASE merge_results
  <2>1. Still /\ Asked.kind = "resilient"
    BY <1>9 DEF merge_results, Still
  <2>2. \/ q' = [q EXCEPT !.at = "fallback bm", !.fallback = TRUE, !.bm = Todo, !.vec = Todo]
        \/ \E x : q' = [q EXCEPT !.at = "ok", !.answer = x, !.fallback = FALSE]
        \/ \E f, x : q' = [q EXCEPT !.at = "ok", !.fallback = FALSE, !.fused = f, !.answer = x]
    <3>1. CASE q.vec = SideFailed /\ q.bm = SideFailed
      BY <1>9, <3>1 DEF merge_results
    <3>2. CASE q.vec = SideFailed /\ q.bm # SideFailed
      <4>1. PICK bm \in TextResults : q' = [q EXCEPT !.at = "ok", !.answer = bm, !.fallback = FALSE]
        BY <1>9, <3>2 DEF merge_results
      <4> QED
        BY <4>1, Zenon
    <3>3. CASE q.vec # SideFailed /\ q.bm = SideFailed
      <4>1. PICK vec \in VectorHits : q' = [q EXCEPT !.at = "ok", !.answer = vec, !.fallback = FALSE]
        BY <1>9, <3>3 DEF merge_results
      <4> QED
        BY <4>1, Zenon
    <3>4. CASE q.vec # SideFailed /\ q.bm # SideFailed
      <4>1. PICK vec \in VectorHits, bm \in TextResults :
              \E f \in reciprocal_rank_fusion(IdsOf(vec), IdsOf(bm)) :
                q' = [q EXCEPT !.at = "ok", !.fallback = FALSE, !.fused = f,
                         !.answer = attach_chunks(f, ToSet(vec) \cup ToSet(bm))]
        BY <1>9, <3>4 DEF merge_results
      <4> QED
        BY <4>1, Zenon
    <3> QED
      BY <3>1, <3>2, <3>3, <3>4
  <2>3. q'.ask = q.ask /\ q'.pin = q.pin /\ (q'.vec = q.vec \/ q'.vec = Todo)
    BY <1>0, <2>2 DEF QueryOf
  <2> QED
    BY <2>1, <2>3, SideStates, StepsKeepPin
<1>10. CASE fallback_search
  <2>1. Still
    BY <1>10 DEF fallback_search, Still
  <2>2. \/ \E a, x : q' = [q EXCEPT !.at = a, !.answer = x]
        \/ q' = [q EXCEPT !.at = "fallback vec"]
    BY <1>10 DEF fallback_search, SearchEnds
  <2>3. q'.ask = q.ask /\ q'.pin = q.pin /\ q'.vec = q.vec
    BY <1>0, <2>2 DEF QueryOf
  <2> QED
    BY <2>1, <2>3, StepsKeepPin
<1>11. CASE UNCHANGED searchVars
  BY <1>11, StepsKeepPin DEF searchVars, hsVars, Still
<1> QED
  BY <1>1, <1>2, <1>3, <1>4, <1>5, <1>6, <1>7, <1>8, <1>9, <1>10, <1>11 DEF HSNext

\* At first there is no version to read.
LEMMA PinStarts ==
  ASSUME HSInit
  PROVE  PinHolds
<1>1. q.pin = 0 /\ q.ask = {} /\ q.vec = Todo /\ Len(log) = 0
  BY DEF HSInit, VTInit, NoSearch
<1> QED
  BY <1>1, SideStates DEF PinHolds

\* A prune takes no version but an outdated one (KeptAreWhole), so no other reader is cut.
LEMMA CutIsLate ==
  ASSUME SearchInv, PinHolds
  PROVE  ReadersAreCutLate
<1>1. ASSUME q.vec = <<"open">>, ~Outdated(q.pin)
      PROVE  FragIds(log[q.pin]) \subseteq disk
  <2>1. q.pin \in DOMAIN log /\ log # <<>>
    BY <1>1, SearchFacts DEF PinHolds
  <2>2. now \in Nat /\ Keep \in Nat /\ log[q.pin].made \in Nat
    <3>1. now \in Nat /\ log \in Seq(Version)
      BY DEF SearchInv, TableInv, TableTypes
    <3>2. log[q.pin] \in Version
      BY <2>1, <3>1
    <3> QED
      BY <3>1, <3>2, TableAssumption DEF Version
  <2>3. q.pin = Len(log) \/ now - log[q.pin].made <= Keep
    BY <1>1, <2>2 DEF Outdated
  <2>4. q.pin \in kept
    BY <2>1, <2>3 DEF SearchInv, TableInv, KeptAreWhole
  <2> QED
    BY <2>4 DEF SearchInv, TableInv, KeptAreWhole
<1> QED
  BY <1>1 DEF PinHolds, ReadersAreCutLate

-----------------------------------------------------------------------------
(* Factors and scores.                                                     *)

\* Whatever the budget, enough is read again, and no more (refine_factor).
LEMMA FactorCovers ==
  ASSUME NEW budget \in 0..6, NEW n \in 1..6
  PROVE  LET f == (budget + n - 1) \div n
             g == IF f = 0 THEN 1 ELSE f
         IN g >= 1 /\ g * n >= budget /\ (g > 1 => (g - 1) * n < budget)
<1>1. CASE n = 1
  BY <1>1
<1>2. CASE n = 2
  BY <1>2
<1>3. CASE n = 3
  BY <1>3
<1>4. CASE n = 4
  BY <1>4
<1>5. CASE n = 5
  BY <1>5
<1>6. CASE n = 6
  BY <1>6
<1> QED
  BY <1>1, <1>2, <1>3, <1>4, <1>5, <1>6

\* For the budgets and limits that are checked.
LEMMA FactorsCover == RefineCovers
<1> SUFFICES ASSUME NEW budget \in 0..6, NEW limit \in 0..6
             PROVE  LET f == refine_factor(budget, limit) IN
                    f >= 1 /\ f * (IF limit = 0 THEN 1 ELSE limit) >= budget
                    /\ (f > 1 => (f - 1) * (IF limit = 0 THEN 1 ELSE limit) < budget)
  BY DEF RefineCovers
<1> DEFINE n == IF limit = 0 THEN 1 ELSE limit
<1>1. n \in 1..6
  OBVIOUS
<1>2. refine_factor(budget, limit) =
        (IF (budget + n - 1) \div n = 0 THEN 1 ELSE (budget + n - 1) \div n)
  BY DEF refine_factor
<1> HIDE DEF n
<1> QED
  BY <1>1, <1>2, FactorCovers DEF n

\* A recall over ten counts what a recall over five does (recall_at).
LEMMA RecallGrows ==
  ASSUME NEW S, NEW ranked \in Seq(S), NEW case, IsFiniteSet(case.expected)
  PROVE  /\ recall_at(case, ranked, 5) \in Nat /\ recall_at(case, ranked, 10) \in Nat
         /\ recall_at(case, ranked, 5) <= recall_at(case, ranked, 10)
         /\ recall_at(case, ranked, 10) <= Cardinality(case.expected)
<1> DEFINE Top(k) == ToSet(SubSeq(ranked, 1, AtMost(k, Len(ranked))))
<1>1. Top(5) \subseteq Top(10)
  <2>1. \A k \in {5, 10} : /\ AtMost(k, Len(ranked)) \in 0..Len(ranked)
                           /\ DOMAIN SubSeq(ranked, 1, AtMost(k, Len(ranked))) = 1..AtMost(k, Len(ranked))
                           /\ \A i \in 1..AtMost(k, Len(ranked)) :
                                SubSeq(ranked, 1, AtMost(k, Len(ranked)))[i] = ranked[i]
    BY DEF AtMost
  <2>2. 1..AtMost(5, Len(ranked)) \subseteq 1..AtMost(10, Len(ranked))
    BY DEF AtMost
  <2> QED
    BY <2>1, <2>2 DEF ToSet
<1> HIDE DEF Top
<1> DEFINE five == Top(5) \cap case.expected
           ten == Top(10) \cap case.expected
<1>2. /\ IsFiniteSet(five) /\ IsFiniteSet(ten) /\ Cardinality(five) <= Cardinality(ten)
      /\ Cardinality(ten) <= Cardinality(case.expected)
  <2>1. IsFiniteSet(ten) /\ Cardinality(ten) <= Cardinality(case.expected)
    BY FS_Subset
  <2>2. five \in SUBSET ten
    BY <1>1
  <2> HIDE DEF five, ten
  <2> QED
    BY <2>1, <2>2, FS_Subset
<1>3. Cardinality(five) \in Nat /\ Cardinality(ten) \in Nat
  BY <1>2, FS_CardinalityType
<1>4. recall_at(case, ranked, 5) = Cardinality(five) /\ recall_at(case, ranked, 10) = Cardinality(ten)
  BY DEF recall_at, Top
<1> HIDE DEF five, ten
<1> QED
  BY <1>2, <1>3, <1>4

\* There is a hit if any of the first three is expected (score_case).
LEMMA HitIsFirst ==
  ASSUME NEW ranked \in Seq({1, 2, 3}), Len(ranked) <= 3, NEW case, IsFiniteSet(case.expected)
  PROVE  First(case, ranked) # {} <=> recall_at(case, ranked, 10) > 0
<1> DEFINE hits == ToSet(ranked) \cap case.expected
<1>1. recall_at(case, ranked, 10) = Cardinality(hits)
  <2>1. SubSeq(ranked, 1, AtMost(10, Len(ranked))) = ranked
    BY DEF AtMost
  <2> QED
    BY <2>1 DEF recall_at
<1>2. IsFiniteSet(hits)
  BY FS_Subset
<1>3. Cardinality(hits) > 0 <=> hits # {}
  <2> HIDE DEF hits
  <2>1. Cardinality(hits) \in Nat /\ (Cardinality(hits) = 0 <=> hits = {})
    BY <1>2, FS_CardinalityType, FS_EmptySet
  <2> QED
    BY <2>1
<1>4. hits # {} <=> \E i \in DOMAIN ranked : ranked[i] \in case.expected
  BY DEF ToSet
<1>5. (\E i \in DOMAIN ranked : ranked[i] \in case.expected) <=> First(case, ranked) # {}
  <2>1. ASSUME NEW i \in DOMAIN ranked, ranked[i] \in case.expected
        PROVE  First(case, ranked) # {}
    <3>0. DOMAIN ranked = 1..Len(ranked) /\ Len(ranked) \in 0..3
      <4>1. DOMAIN ranked = 1..Len(ranked) /\ Len(ranked) \in Nat
        OBVIOUS
      <4> QED
        BY <4>1
    <3>1. i = 1 \/ i = 2 \/ i = 3
      BY <2>1, <3>0
    <3>2. CASE ranked[1] \in case.expected
      <4>1. 1 \in DOMAIN ranked /\ 1..(1 - 1) = {}
        BY <2>1, <3>0
      <4>2. 1 \in First(case, ranked)
        BY <3>2, <4>1 DEF First
      <4> QED
        BY <4>2
    <3>3. CASE ranked[1] \notin case.expected /\ i \in {2, 3} /\ ranked[2] \in case.expected
      <4>1. 2 \in DOMAIN ranked /\ 1..(2 - 1) = {1}
        BY <2>1, <3>0, <3>3
      <4>2. 2 \in First(case, ranked)
        BY <3>3, <4>1 DEF First
      <4> QED
        BY <4>2
    <3>4. CASE ranked[1] \notin case.expected /\ i = 3 /\ ranked[2] \notin case.expected
      <4>1. 3 \in DOMAIN ranked /\ 1..(3 - 1) = {1, 2}
        BY <2>1, <3>4
      <4>2. 3 \in First(case, ranked)
        BY <2>1, <3>4, <4>1 DEF First
      <4> QED
        BY <4>2
    <3> QED
      BY <2>1, <3>1, <3>2, <3>3, <3>4
  <2>2. First(case, ranked) # {} => \E i \in DOMAIN ranked : ranked[i] \in case.expected
    BY DEF First
  <2> QED
    BY <2>1, <2>2
<1> QED
  BY <1>1, <1>3, <1>4, <1>5

\* Two expected files.
LEMMA PairIsFinite == IsFiniteSet({1, 2})
<1>0. 1 \in Int /\ 2 \in Int
  OBVIOUS
<1>1. IsFiniteSet(1..2)
  BY <1>0, FS_Interval, Zenon
<1>2. {1, 2} = 1..2
  OBVIOUS
<1> QED
  BY <1>1, <1>2

\* A better first answer never scores less (score_case).
LEMMA ScoresHold == ScoresAreMonotone
<1> SUFFICES ASSUME NEW ranked \in {<<1, 2, 3>>, <<3, 1, 2>>, <<3, 2>>, <<>>},
                    NEW expected \in SUBSET {1, 2},
                    NEW s \in score_case([query |-> "q", expected |-> expected], ranked)
             PROVE  /\ s.recall_at_5 <= s.recall_at_10 /\ s.recall_at_10 <= Cardinality(expected)
                    /\ s.any_hit <=> s.recall_at_10 > 0
                    /\ expected # {}
  BY DEF ScoresAreMonotone
<1> DEFINE case == [query |-> "q", expected |-> expected]
<1>1. case.expected = expected
  OBVIOUS
<1>2. expected # {} /\ s = [recall_at_5 |-> recall_at(case, ranked, 5),
                            recall_at_10 |-> recall_at(case, ranked, 10),
                            first |-> First(case, ranked), any_hit |-> First(case, ranked) # {}]
  BY DEF score_case, validate
<1>3. ranked \in Seq({1, 2, 3}) /\ Len(ranked) <= 3
  <2>1. CASE ranked = <<1, 2, 3>>
    BY <2>1
  <2>2. CASE ranked = <<3, 1, 2>>
    BY <2>2
  <2>3. CASE ranked = <<3, 2>>
    BY <2>3
  <2>4. CASE ranked = <<>>
    BY <2>4
  <2> QED
    BY <2>1, <2>2, <2>3, <2>4
<1>4. IsFiniteSet(expected)
  <2>1. IsFiniteSet({1, 2})
    BY PairIsFinite
  <2> QED
    BY <2>1, FS_Subset
<1> HIDE DEF case
<1>5. /\ recall_at(case, ranked, 5) <= recall_at(case, ranked, 10)
      /\ recall_at(case, ranked, 10) <= Cardinality(expected)
  BY <1>1, <1>3, <1>4, RecallGrows
<1>6. First(case, ranked) # {} <=> recall_at(case, ranked, 10) > 0
  BY <1>1, <1>3, <1>4, HitIsFirst
<1>7. /\ s.recall_at_5 = recall_at(case, ranked, 5) /\ s.recall_at_10 = recall_at(case, ranked, 10)
      /\ s.any_hit = (First(case, ranked) # {})
  BY <1>2
<1> QED
  BY <1>2, <1>5, <1>6, <1>7

-----------------------------------------------------------------------------
(* Theorems of the searches.                                               *)

\* What the invariant says of a search.
LEMMA SearchSound ==
  ASSUME SearchInv, PinHolds
  PROVE  SearchHolds
<1>1. /\ PassesHold /\ MergedPassesCompact /\ OneEmbedder /\ NeverTooEarly /\ TextFollows
  BY TableIsSound DEF SearchInv
<1>2. NothingLost /\ KeptAreWhole /\ DeltasBounded
  BY DEF SearchInv, TableInv
<1> QED
  BY <1>1, <1>2, CutIsLate, FactorsCover, ScoresHold DEF SearchInv, SearchHolds

\* The steps of the table, of the writer and of the search keep what each of them
\* relies on: the inductive invariant (optimize_indices, write_files, search_with_k).
THEOREM SearchInvariant == HSSpec => [](SearchInv /\ PinHolds)
<1>1. HSInit => SearchInv /\ PinHolds
  BY SearchStarts, PinStarts
<1>2. SearchInv /\ PinHolds /\ [HSNext]_searchVars => (SearchInv /\ PinHolds)'
  BY SearchGoesOn, PinGoesOn
<1> QED
  BY <1>1, <1>2, PTL DEF HSSpec

\* Through syncs, deletes, merges, index passes, prunes and deaths the newest version
\* of the table holds the chunks that were written, and what a prune leaves can be
\* read whole; a search answers only with chunks that were there while it ran, each
\* once, within its limit, in the order both sides agree on; a reader is cut off only
\* from a version that is neither the newest nor younger than Keep; and the resilient
\* search fails only after four attempts (lancedb.rs, search/mod.rs, resilient.rs).
THEOREM SearchIsTrustworthy == PartsSpec => []SearchIsSound
<1> DEFINE Inv == component = "search" => SearchInv /\ PinHolds
<1>1. PartsInit => Inv
  BY SearchStarts, PinStarts DEF PartsInit
<1>2. Inv /\ [PartsNext]_partsVars => Inv'
  <2> SUFFICES ASSUME Inv, [PartsNext]_partsVars PROVE Inv'
    OBVIOUS
  <2>1. component' = component
    BY DEF PartsNext, partsVars
  <2>2. component = "search" => [HSNext]_searchVars
    BY DEF PartsNext, partsVars
  <2> QED
    BY <2>1, <2>2, SearchGoesOn, PinGoesOn
<1>3. Inv => SearchIsSound
  BY SearchSound DEF SearchIsSound
<1> QED
  BY <1>1, <1>2, <1>3, PTL DEF PartsSpec
=============================================================================
