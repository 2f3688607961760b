------------------------------ MODULE MCServer ------------------------------
(***************************************************************************)
(* The memory watchdog, the searches, the calls for vectors and the health *)
(* check side by side: a behaviour runs one of them, the others keep       *)
(* still.  They share no state, so this checks each of them as it would be *)
(* checked alone.                                                          *)
(*                                                                         *)
(* The machine of the watchdog has twelve units of memory; the searches    *)
(* are over two files, chunks of one row and a full fragment of two; the   *)
(* texts to embed have up to six tokens, more than the model reads.        *)
(***************************************************************************)
EXTENDS Watchdog, HybridSearch, EmbeddingRequests, IndexHealth, TLC

VARIABLE component

-----------------------------------------------------------------------------
(* The searches *)

MCDim == [e \in Embedders |-> IF e = "bge" THEN 8 ELSE 16]
Search(k, limit, t, v, g) ==
  [kind |-> k, limit |-> limit, text |-> t, vectors |-> v, generator |-> g]
Hybrid == Search("hybrid", 2, TRUE, TRUE, TRUE)
Vectors == Search("hybrid", 1, FALSE, TRUE, TRUE)
Resilient == Search("resilient", 1, TRUE, TRUE, TRUE)
Partial == {Search("resilient", 1, FALSE, TRUE, TRUE), Search("resilient", 1, TRUE, FALSE, FALSE)}
Bound(chunks, syncs, passes, time, deaths, searches, embedders) ==
  [chunks |-> chunks, syncs |-> syncs, passes |-> passes, time |-> time,
   deaths |-> deaths, searches |-> searches, embedders |-> embedders]
MCBounds == {Bound(4, 3, 3, 1, 0, {}, {"bge"}), Bound(2, 2, 1, 1, 1, {}, Embedders),
             Bound(2, 2, 1, 1, 0, {Hybrid}, {"bge"}), Bound(2, 2, 0, 0, 1, {Hybrid}, {"bge"}),
             Bound(2, 2, 0, 0, 0, {Vectors, Resilient} \cup Partial, {"bge"})}

-----------------------------------------------------------------------------
(* The calls for vectors *)

Text(raw) == [raw |-> raw, chars |-> 3 * raw]
Env(inputs, tokens, concurrency) ==
  [inputs |-> inputs, tokens |-> tokens, concurrency |-> concurrency,
   encoding |-> <<"word", "base64">>, sort |-> <<"junk">>,
   throughput |-> <<"n", 5>>, latency |-> <<"absent">>]
Envs == {Env(<<"absent">>, <<"unreadable">>, <<"n", 0>>), Env(<<"n", 9>>, <<"n", 9>>, <<"n", 1>>),
         Env(<<"n", 2>>, <<"n", 1>>, <<"n", 9>>)}
Key == <<<<"absent">>, <<"word", "key">>>>
Call(side, runtime, texts, counter, rows, tokens, env, key) ==
  [side |-> side, runtime |-> runtime, texts |-> texts, counter |-> counter,
   rows |-> rows, tokens |-> tokens, env |-> env, key |-> key]
Plain == Env(<<"absent">>, <<"absent">>, <<"absent">>)
MCRequests ==
  {Call("Documents", "OpenRouter", <<Text(a), Text(1), Text(b)>>, counter, 1, 1, env, Key) :
     a \in {2, 6}, b \in {1, 2}, counter \in BOOLEAN, env \in Envs} \cup
  {Call("Queries", "OpenRouter", <<Text(2)>>, TRUE, 1, 1, Plain, key) :
     key \in {Key, <<<<"junk">>, <<"word", "key">>>>, <<<<"unreadable">>, <<"absent">>>>}} \cup
  {Call("Documents", runtime, <<Text(6), Text(1), Text(2)>>, counter, rows, tokens, Plain, Key) :
     runtime \in {"Cpu", "Migraphx"}, counter \in BOOLEAN, rows \in {0, 2}, tokens \in {0, 4, 8}} \cup
  {Call("Queries", "Directml", <<Text(2)>>, TRUE, 1, 1, Plain, Key),
   Call("Documents", "Cpu", <<>>, TRUE, 1, 1, Plain, Key),
   Call("Documents", "OpenRouter", <<>>, TRUE, 1, 1, Plain, Key)}

-----------------------------------------------------------------------------
(* The components side by side *)

\* The clients of the watchdog, the files of the searches and the contents that
\* the health check meets are interchangeable; they are the same model values,
\* since only one of the components runs.
Symmetric == Permutations(Clients)

partsVars == <<component, wdVars, searchVars, erVars, healthVars>>

\* A variable the component that runs does not have.
Off(x) == x = {}

WatchdogOff ==
    /\ Off(loop) /\ Off(due) /\ Off(age) /\ Off(baseline) /\ Off(daemon) /\ Off(live)
    /\ Off(client) /\ Off(context) /\ Off(free) /\ Off(others) /\ Off(session)
    /\ Off(replaced) /\ Off(bound) /\ Off(seen)

SearchOff ==
    /\ Off(store) /\ Off(log) /\ Off(kept) /\ Off(disk) /\ Off(content) /\ Off(made)
    /\ Off(limits)
    /\ Off(job) /\ Off(now) /\ Off(text) /\ Off(staged) /\ Off(loaded) /\ Off(q) /\ Off(fails)

CallOff ==
    /\ Off(call) /\ Off(at) /\ Off(config) /\ Off(batches) /\ Off(worker) /\ Off(gathered)
    /\ Off(answer) /\ Off(stats) /\ Off(flaws)

HealthOff ==
    /\ Off(tree) /\ Off(written) /\ Off(saved) /\ Off(snapshot) /\ Off(cache) /\ Off(vectors)
    /\ Off(bm25) /\ Off(buffer) /\ Off(pc) /\ Off(kind) /\ Off(merkle) /\ Off(walked)
    /\ Off(todo) /\ Off(prepared) /\ Off(gone) /\ Off(cleared) /\ Off(recorded) /\ Off(retry)
    /\ Off(faults) /\ Off(probe)

PartsInit ==
    \/ /\ component = "watchdog" /\ WatchdogInit
       /\ SearchOff /\ CallOff /\ HealthOff
    \/ /\ component = "search" /\ HSInit
       /\ WatchdogOff /\ CallOff /\ HealthOff
    \/ /\ component = "embeddings" /\ ERInit
       /\ WatchdogOff /\ SearchOff /\ HealthOff
    \/ /\ component = "health" /\ HealthInit
       /\ WatchdogOff /\ SearchOff /\ CallOff

PartsNext ==
    \/ /\ component = "watchdog" /\ WatchdogNext
       /\ UNCHANGED <<component, searchVars, erVars, healthVars>>
    \/ /\ component = "search" /\ HSNext
       /\ UNCHANGED <<component, wdVars, erVars, healthVars>>
    \/ /\ component = "embeddings" /\ ERNext
       /\ UNCHANGED <<component, wdVars, searchVars, healthVars>>
    \/ /\ component = "health" /\ HealthNext
       /\ UNCHANGED <<component, wdVars, searchVars, erVars>>

PartsSpec == PartsInit /\ [][PartsNext]_partsVars

-----------------------------------------------------------------------------
\* Watchdog: the daemon retires and leaves only when it may, unloads only what nobody
\* uses, and gives back the memory it should.
WatchdogIsSound == component = "watchdog" => WatchdogHolds

\* HybridSearch: a search answers from what was written and is not gone, ranks as it
\* should, and the version it reads stays whole as long as that is the newest or younger
\* than Keep.  A search of an older version may lose it (lancedb.rs:1102-1110), which
\* unified.rs:68-71 denies.
SearchIsSound == component = "search" => SearchHolds

\* EmbeddingRequests: every text gets its own vector, in the order of the texts,
\* whatever the service answers, and the limits are kept.
EmbeddingsAreSound == component = "embeddings" => EmbeddingsHold

\* EmbeddingPlans: base64 decoding undoes encoding, and reads no text that is cut short
\* or goes on behind its padding.  It depends on no state: it is looked at once per call.
CodingIsSound == component = "embeddings" /\ at = "asked" => Base64RoundTrips

\* IndexHealth: HEALTHY means indexed, and a warning has a cause.
HealthIsSound == component = "health" => HealthHolds
=============================================================================
