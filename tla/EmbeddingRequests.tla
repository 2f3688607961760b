-------------------------- MODULE EmbeddingRequests -------------------------
(***************************************************************************)
(* One call for vectors (rmc-engine, embeddings/mod.rs and openrouter/     *)
(* client.rs; rmc-indexing, embedding_batcher.rs).  A remote call plans    *)
(* its batches, keeps several requests in flight, tries again, cuts a      *)
(* batch the service finds too large in two, and puts what came back in    *)
(* the order of the texts; the first request that fails ends the call and  *)
(* drops the others.  A local call runs its batches one by one on a        *)
(* session (GpuBroker) and recomputes text by text what the GPU spoiled.   *)
(*                                                                         *)
(* A vector is [text, side, finite]: whose it is, for which side it was    *)
(* computed, and whether all its numbers are.                              *)
(***************************************************************************)
EXTENDS EmbeddingPlans

CONSTANTS
  Requests,        \* [side, runtime, texts, counter, rows, tokens, env, key]
  MaxRetries,   \* MAX_RETRIES
  MaxFlaws     \* bounds the answers that are not what was asked for

VARIABLES
  call,      \* what was asked
  at,        \* "asked", "remote", "local", "ok" or "failed"
  config,    \* the settings the call runs under
  batches,   \* the batches planned, as sequences of inputs
  worker,    \* remote: per batch [at, pending, attempt, got]
  gathered,  \* [index, vector] of the batches that are done
  answer,    \* {} or the vectors
  stats,     \* the metrics of the call
  flaws

ASSUME RequestsAssumption ==
  /\ {MaxLen, GpuRows} \subseteq Nat \ {0} /\ MaxRetries \in Nat /\ MaxFlaws \in Nat
  /\ \A r \in Requests :
       /\ r.side \in {"Documents", "Queries"} /\ r.runtime \in Runtimes /\ r.counter \in BOOLEAN
       /\ r.texts \in Seq([raw : Nat, chars : Nat]) /\ (r.side = "Queries" => r.texts # <<>>)
       /\ r.rows \in Nat /\ r.tokens \in Nat
       /\ \A e \in {r.env.inputs, r.env.tokens, r.env.concurrency} : e[1] = "n" => e[2] \in Nat

erVars == <<call, at, config, batches, worker, gathered, answer, stats, flaws>>

Count == Len(call.texts)
Waiting == [at |-> "waiting", pending |-> <<>>, attempt |-> 0, got |-> <<>>]
NoStats == [requests |-> 0, retries |-> 0, splits |-> 0, failed |-> 0, vectors |-> 0]
Bump(counts) == stats' = [s \in DOMAIN stats |-> stats[s] + (IF s \in DOMAIN counts THEN counts[s] ELSE 0)]
Faulty(n) == flaws + n <= MaxFlaws /\ flaws' = flaws + n

ERInit ==
  /\ call \in Requests /\ at = "asked"
  /\ config = resolve_openrouter_runtime_config(call.env)
  /\ batches = <<>> /\ worker = <<>> /\ gathered = <<>> /\ answer = {}
  /\ stats = NoStats /\ flaws = 0

-----------------------------------------------------------------------------
(* The remote side. *)

NoKey == /\ at = "asked" /\ call.runtime = "OpenRouter"
         /\ resolve_api_key(call.key[1], call.key[2]) = {}
         /\ at' = "failed"
         /\ UNCHANGED <<call, config, batches, worker, gathered, answer, stats, flaws>>

plan_remote_batches ==
  /\ at = "asked" /\ call.runtime = "OpenRouter"
  /\ resolve_api_key(call.key[1], call.key[2]) # {}
  /\ \E counted \in {call.counter, FALSE} :
       batches' = plan_remote_input_batches(estimate_token_lengths(call.texts, counted), config)
  /\ worker' = [b \in DOMAIN batches' |-> Waiting]
  /\ at' = "remote"
  /\ UNCHANGED <<call, config, gathered, answer, stats, flaws>>

InFlight == {b \in DOMAIN worker : worker[b].at \in {"sent", "asleep"}}

\* buffer_unordered starts the next batch while a slot is free.
Starts(b) ==
  /\ at = "remote" /\ worker[b].at = "waiting"
  /\ \A c \in 1..(b - 1) : worker[c].at # "waiting"
  /\ Cardinality(InFlight) < config.concurrency
  /\ worker' = [worker EXCEPT ![b].at = "sent", ![b].pending = <<batches[b]>>]
  /\ Bump([requests |-> 1])
  /\ UNCHANGED <<call, at, config, batches, gathered, answer, flaws>>

CallFails(b) == /\ at' = "failed" /\ Bump([failed |-> 1])
            /\ UNCHANGED <<call, config, batches, worker, gathered, answer>>

\* What the service may send for a batch: its vectors in any order, or
\* something else.
Vector(i, side, finite) == [text |-> i, side |-> side, finite |-> finite]
Items(batch) == [k \in DOMAIN batch |->
  [index |-> k - 1, vector |-> Vector(batch[k].index + 1, call.side, TRUE), fits |-> TRUE, broken |-> FALSE]]
Served(batch) == {Items(batch), Reverse(Items(batch))}
Garbled(batch) ==
  LET n == Len(batch) IN
  {Tail(Items(batch))} \cup
  {[Items(batch) EXCEPT ![1] = i] : i \in
     {[Items(batch)[1] EXCEPT !.index = n], [Items(batch)[1] EXCEPT !.index = n - 1],
      [Items(batch)[1] EXCEPT !.fits = FALSE], [Items(batch)[1] EXCEPT !.broken = TRUE],
      [Items(batch)[1] EXCEPT !.vector.finite = FALSE]}}

\* A batch is done: the next of the worker's, or its vectors to the call.
Received(b, vectors) ==
  LET batch == Head(worker[b].pending)
      rest == Tail(worker[b].pending)
      got == worker[b].got \o [k \in DOMAIN batch |-> [index |-> batch[k].index, vector |-> vectors[k]]] IN
  IF rest # <<>>
  THEN /\ worker' = [worker EXCEPT ![b] = [at |-> "sent", pending |-> rest, attempt |-> 0, got |-> got]]
       /\ Bump([vectors |-> Len(batch), requests |-> 1])
       /\ UNCHANGED gathered
  ELSE /\ worker' = [worker EXCEPT ![b] = [at |-> "done", pending |-> <<>>, attempt |-> 0, got |-> <<>>]]
       /\ gathered' = gathered \o got
       /\ Bump([vectors |-> Len(batch)])

Replied(b) ==
  /\ at = "remote" /\ worker[b].at = "sent"
  /\ LET batch == Head(worker[b].pending) IN
     \E items \in Served(batch) \cup Garbled(batch) :
       /\ IF items \in Served(batch) THEN UNCHANGED flaws ELSE Faulty(1)
       /\ LET parsed == parse_embeddings_response(items, Len(batch)) IN
          IF parsed = {} THEN CallFails(b)
          ELSE /\ \E vectors \in parsed : Received(b, vectors)
               /\ UNCHANGED <<call, at, config, batches, answer>>

Sleeps(b) == /\ worker' = [worker EXCEPT ![b].at = "asleep"]
             /\ Bump([failed |-> 1, retries |-> 1])
             /\ UNCHANGED <<call, at, config, batches, gathered, answer>>

Splits(b) ==
  LET batch == Head(worker[b].pending)
      halves == split_at(batch, Len(batch) \div 2) IN
  /\ worker' = [worker EXCEPT ![b].pending = halves \o Tail(@), ![b].attempt = 0]
  /\ Bump([failed |-> 1, splits |-> 1, requests |-> 1])
  /\ UNCHANGED <<call, at, config, batches, gathered, answer>>

MayRetry(b) == worker[b].attempt < MaxRetries

Rejected(b) ==
  /\ at = "remote" /\ worker[b].at = "sent" /\ Faulty(1)
  /\ \E status \in {413, 400, 429, 529, 401}, says_too_large \in BOOLEAN :
       IF is_payload_too_large(status, says_too_large)
       THEN IF Len(Head(worker[b].pending)) > 1 THEN Splits(b) ELSE CallFails(b)
       ELSE IF is_retryable_status(status) /\ MayRetry(b) THEN Sleeps(b) ELSE CallFails(b)

Lost(b) ==
  /\ at = "remote" /\ worker[b].at = "sent" /\ Faulty(1)
  /\ \E error \in {"connect", "timeout", "body", "other"} :
       IF is_retryable_reqwest_error(error) /\ MayRetry(b) THEN Sleeps(b) ELSE CallFails(b)

WakesUp(b) == /\ at = "remote" /\ worker[b].at = "asleep"
            /\ worker' = [worker EXCEPT ![b].at = "sent", ![b].attempt = @ + 1]
            /\ Bump([requests |-> 1])
            /\ UNCHANGED <<call, at, config, batches, gathered, answer, flaws>>

-----------------------------------------------------------------------------
(* Both sides. *)

AllFinite(vectors) == \A k \in DOMAIN vectors : vectors[k].finite

guard_finite(runtime, vectors, again) ==
  IF AllFinite(vectors) THEN {vectors}
  ELSE IF retries_non_finite(runtime) /\ AllFinite(again) THEN {again}
  ELSE {}

Returns(vectors) == /\ answer' = vectors
                    /\ at' = IF vectors = {} THEN "failed" ELSE "ok"
                    /\ UNCHANGED <<call, config, batches, worker, gathered, stats, flaws>>

RemoteEnds ==
  /\ at = "remote" /\ \A b \in DOMAIN worker : worker[b].at = "done"
  /\ Returns(UNION {guard_finite(call.runtime, vectors, vectors) :
                      vectors \in restore_original_embedding_order(Count, gathered)})

-----------------------------------------------------------------------------
(* The local side. *)

\* A search embeds its query as it is; only chunks are cut into batches.
plan_local_batches ==
  /\ at = "asked" /\ call.runtime # "OpenRouter" /\ Opens(call.runtime)
  /\ \E counted \in {call.counter, FALSE} :
       LET lens == local_lengths(call.texts, counted) IN
       batches' = IF call.side = "Queries" THEN <<Inputs(lens)>>
                  ELSE plan_embedding_batches(lens, BatchingPolicy(call.runtime, call.rows, call.tokens))
  /\ at' = "local"
  /\ UNCHANGED <<call, config, worker, gathered, answer, stats, flaws>>

\* One run of the session; rows in `bad` come back with NaN.
embed_raw(batch, side, bad) ==
  [k \in DOMAIN batch |-> Vector(batch[k].index + 1, side, k \notin bad)]

Local(b) ==
  /\ at = "local" /\ Len(FlattenSeq(SubSeq(batches, 1, b - 1))) = Len(gathered)
  /\ \E bad, worse \in SUBSET DOMAIN batches[b] :
       /\ bad = {} => worse = {}
       /\ IF bad = {} THEN UNCHANGED flaws ELSE Faulty(IF worse = {} THEN 1 ELSE 2)
       /\ LET result == guard_finite(call.runtime, embed_raw(batches[b], call.side, bad),
                                     embed_raw(batches[b], call.side, worse)) IN
          IF result = {} THEN at' = "failed" /\ UNCHANGED gathered
          ELSE /\ \E vectors \in result :
                    gathered' = gathered \o [k \in DOMAIN batches[b] |->
                                  [index |-> batches[b][k].index, vector |-> vectors[k]]]
               /\ UNCHANGED at
  /\ UNCHANGED <<call, config, batches, worker, answer, stats>>

\* The session fails, or its task does.
LocalFails == /\ at = "local" /\ Len(gathered) < Count /\ Faulty(1) /\ at' = "failed"
              /\ UNCHANGED <<call, config, batches, worker, gathered, answer, stats>>

LocalEnds == /\ at = "local" /\ Len(gathered) = Count
             /\ Returns(restore_original_embedding_order(Count, gathered))

Returned == at \in {"ok", "failed"} /\ UNCHANGED erVars

ERNext ==
  \/ NoKey \/ plan_remote_batches \/ RemoteEnds
  \/ plan_local_batches \/ LocalFails \/ LocalEnds \/ Returned
  \/ \E b \in DOMAIN worker : Starts(b) \/ Replied(b) \/ Rejected(b) \/ Lost(b) \/ WakesUp(b)
  \/ \E b \in DOMAIN batches : Local(b)

ERSpec == ERInit /\ [][ERNext]_erVars

-----------------------------------------------------------------------------
(* Properties. *)

\* The i-th vector of an answer is the one of the i-th text, computed for
\* the side that asked, and finite.
VectorsBelong == at = "ok" => answer = {[i \in 1..Count |-> Vector(i, call.side, TRUE)]}

\* No text is lost, asked for twice or answered twice: each is with the
\* vectors of the call, with those of one worker, or in one batch that a
\* worker asks for, and stands there once.
AskedFor(b) == IF worker[b].at = "waiting" THEN <<batches[b]>> ELSE worker[b].pending
Shelves == {<<0, 0>>} \cup UNION {{<<b, j>> : j \in 0..Len(AskedFor(b))} : b \in DOMAIN worker}
ShelvedAt(p) == IF p[1] = 0 THEN gathered
           ELSE IF p[2] = 0 THEN worker[p[1]].got ELSE AskedFor(p[1])[p[2]]
IndexesOf(s) == {s[k].index : k \in DOMAIN s}
OneEach(s) == \A j, k \in DOMAIN s : s[j].index = s[k].index => j = k
EachTextOnce ==
  at = "remote" => /\ \A p \in Shelves : OneEach(ShelvedAt(p))
                   /\ \A p, q \in Shelves : p # q => IndexesOf(ShelvedAt(p)) \cap IndexesOf(ShelvedAt(q)) = {}
                   /\ UNION {IndexesOf(ShelvedAt(p)) : p \in Shelves} = 0..(Count - 1)

\* A request has at most the rows and padded tokens the settings allow,
\* unless it is a single text, where an empty text counts as one token; a batch
\* ends only where the next text does not fit; the settings are ones a request can meet.
Fits(batch, rows, tokens) ==
  Len(batch) <= rows /\ (Len(batch) = 1 \/ Most(Len(batch), padded_tokens(batch)) <= tokens)
Allowed(batch) ==
  IF call.runtime = "OpenRouter" THEN Fits(batch, config.max_batch_inputs, config.max_batch_tokens)
  ELSE IF is_fastembed_onnx_gpu(call.runtime) THEN Len(batch) <= GpuRows
  ELSE Fits(batch, AtLeastOne(call.rows), AtLeastOne(call.tokens))
BatchesFit ==
  /\ \A b \in DOMAIN batches : batches[b] # <<>> /\ (call.side = "Documents" => Allowed(batches[b]))
  /\ \A b \in DOMAIN batches : b > 1 => ~ Allowed(Append(batches[b - 1], Head(batches[b])))
  /\ \A b \in InFlight : Allowed(Head(worker[b].pending))
  /\ config.max_batch_inputs \in 1..3 /\ config.max_batch_tokens \in 1..6 /\ config.concurrency \in 1..3

\* Requests in flight and requests in all stay within what retries and
\* splits allow, and the metrics add up while the call goes on.
RequestsBounded ==
  LET tries == [b \in DOMAIN worker |-> (MaxRetries + 1) * (2 * Len(batches[b]) - 1)]
      received == [b \in DOMAIN worker |-> Len(worker[b].got)] IN
  /\ Cardinality(InFlight) <= config.concurrency
  /\ stats.requests <= SumFunctionOnSet(tries, DOMAIN tries)
  /\ \A b \in DOMAIN worker : worker[b].attempt <= MaxRetries
  /\ at = "remote" => /\ stats.failed = stats.retries + stats.splits
                      /\ stats.vectors = Len(gathered) + SumFunctionOnSet(received, DOMAIN received)

\* What the log calls padded is never less than what was read.
PaddingCovers ==
  at = "local" /\ call.side = "Documents" =>
    LET s == summarize_token_lengths(local_lengths(call.texts, TRUE),
               plan_embedding_batches(local_lengths(call.texts, TRUE),
                                      BatchingPolicy(call.runtime, call.rows, call.tokens)), call.runtime)
    IN s.capped <= s.padded

\* Base64 decoding undoes encoding, whatever whitespace stands between, and
\* reads no text that is cut short or goes on behind its padding.
Encode(bytes) ==
  LET Byte(k) == IF k <= Len(bytes) THEN bytes[k] ELSE 0
      Group(g) == LET n == Len(bytes) - 3 * (g - 1)
                      triple == Byte(3*g - 2) * 65536 + Byte(3*g - 1) * 256 + Byte(3*g) IN
                  <<triple \div 262144, (triple \div 4096) % 64,
                    IF n > 1 THEN (triple \div 64) % 64 ELSE Pad, IF n > 2 THEN triple % 64 ELSE Pad>>
  IN FlattenSeq([g \in 1..((Len(bytes) + 2) \div 3) |-> Group(g)])
Base64RoundTrips ==
  \A bytes \in SeqOf({0, 77, 255}, 4) :
    LET chars == Encode(bytes) IN
    /\ decode_base64_standard(chars) = bytes
    /\ \A k \in 0..Len(chars) : decode_base64_standard(InsertAt(chars, k + 1, Space)) = bytes
    /\ bytes # <<>> => /\ decode_base64_standard(Tail(chars)) = Failed
                       /\ decode_base64_standard(<<Invalid>> \o Tail(chars)) = Failed
    /\ Len(bytes) % 3 # 0 => decode_base64_standard(chars \o Encode(<<0, 0, 0>>)) = Failed
    /\ decode_base64_f32_embedding(chars) = IF Len(bytes) = 4 THEN {<<bytes>>}
                                            ELSE IF bytes = <<>> THEN {<<>>} ELSE {}

\* There is always a batch to take, and never more than a hundred.
BatchesAreSane == \A mb \in {0, 14, 15, 30, 9000}, cores \in {1, 2, 128} :
                    calculate_safe_batch_size(mb, cores) \in 1..100

\* What depends on no state is looked at once per call.
EmbeddingsHold == /\ VectorsBelong /\ EachTextOnce /\ BatchesFit /\ RequestsBounded
                  /\ PaddingCovers
                  /\ at = "asked" => BatchesAreSane
=============================================================================
