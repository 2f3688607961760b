--------------------------- MODULE EmbeddingPlans ---------------------------
(***************************************************************************)
(* What turns texts into requests for vectors and answers into vectors     *)
(* (rmc-engine, embeddings: batching.rs, token_lengths.rs, openrouter/     *)
(* batch.rs, config.rs, response.rs, retry.rs; rmc-indexing,               *)
(* embedding_batcher.rs): lengths, the order of the inputs, the cuts       *)
(* between batches, settings from the environment, the reading of one      *)
(* response and base64.                                                    *)
(*                                                                         *)
(* A text is [raw, chars], its tokens and its bytes; an input is           *)
(* [index, len], its place among the texts of the call and its length.     *)
(* An environment variable holds <<"absent">>, <<"unreadable">>,           *)
(* <<"junk">>, <<"n", number>> or <<"word", word>>.                        *)
(***************************************************************************)
EXTENDS Integers, Sequences, FiniteSets, TLC, SequencesExt

CONSTANTS MaxLen,    \* tokens the model reads of a text
          GpuRows    \* rows of a GPU session's input

Unset == -1
AtLeastOne(n) == IF n > 1 THEN n ELSE 1
Most(a, b) == IF a > b THEN a ELSE b
Fewest(a, b) == IF a < b THEN a ELSE b

-----------------------------------------------------------------------------
(* Backends. *)

Runtimes == {"Cpu", "Migraphx", "Directml", "OpenRouter"}
is_fastembed_onnx_gpu(runtime) == runtime \in {"Migraphx", "Directml"}
fixed_input_shape(runtime) ==
  IF runtime \in {"Migraphx", "Directml"} THEN [rows |-> GpuRows, seq_len |-> MaxLen]
  ELSE [rows |-> Unset, seq_len |-> Unset]
retries_non_finite(runtime) == runtime \in {"Migraphx", "Directml"}

\* A session is opened for a GPU only with the shape it compiles for.
Opens(runtime) == is_fastembed_onnx_gpu(runtime) => fixed_input_shape(runtime).rows # Unset

-----------------------------------------------------------------------------
(* Lengths. *)

len_from_raw(raw) == Fewest(raw, MaxLen)
fallback_token_estimate(text) == AtLeastOne((text.chars + 3) \div 4)

\* What a remote batch is planned by, and what a local one is.
estimate_token_lengths(texts, counted) ==
  [i \in DOMAIN texts |-> AtLeastOne(IF counted THEN len_from_raw(texts[i].raw)
                                     ELSE fallback_token_estimate(texts[i]))]
local_lengths(texts, counted) ==
  [i \in DOMAIN texts |-> IF counted THEN len_from_raw(texts[i].raw) ELSE texts[i].chars]

Inputs(lens) == [i \in DOMAIN lens |-> [index |-> i - 1, len |-> lens[i]]]
Shorter(a, b) == a.len < b.len \/ (a.len = b.len /\ a.index < b.index)
sort_inputs(inputs) ==
  [k \in DOMAIN inputs |->
     CHOOSE a \in ToSet(inputs) : Cardinality({b \in ToSet(inputs) : Shorter(b, a)}) = k - 1]

padded_tokens(batch) ==
  Len(batch) * FoldSeq(LAMBDA input, longest : Most(input.len, longest), 0, batch)

-----------------------------------------------------------------------------
(* Cuts: [start, end) from zero. *)

NoPlans == [plans |-> <<>>, start |-> 0, rows |-> 0, longest |-> 0]
Planned(acc, i, len, max_rows, max_tokens) ==
  LET rows == acc.rows + 1
      longest == Most(acc.longest, len) IN
  IF acc.rows > 0 /\ (rows > max_rows \/ rows * longest > max_tokens)
  THEN [plans |-> Append(acc.plans, [start |-> acc.start, end |-> i - 1]),
        start |-> i - 1, rows |-> 1, longest |-> len]
  ELSE [plans |-> acc.plans, start |-> acc.start, rows |-> rows, longest |-> longest]
plan_batches(lens, max_rows, max_tokens) ==
  LET all == FoldLeftDomain(LAMBDA acc, i : Planned(acc, i, AtLeastOne(lens[i]),
                                              AtLeastOne(max_rows), AtLeastOne(max_tokens)),
                            NoPlans, lens)
  IN IF lens = <<>> THEN <<>> ELSE Append(all.plans, [start |-> all.start, end |-> Len(lens)])

plan_fixed_rows(len, rows) ==
  LET height == AtLeastOne(rows) IN
  [k \in 1..((len + height - 1) \div height) |->
     [start |-> (k - 1) * height, end |-> Fewest(k * height, len)]]

BatchingPolicy(runtime, rows, tokens) ==
  IF fixed_input_shape(runtime).rows # Unset
  THEN [fixed |-> TRUE, rows |-> fixed_input_shape(runtime).rows, tokens |-> Unset]
  ELSE [fixed |-> FALSE, rows |-> AtLeastOne(rows), tokens |-> AtLeastOne(tokens)]

Lens(inputs) == [i \in DOMAIN inputs |-> inputs[i].len]
plan_by(policy, inputs) ==
  IF policy.fixed THEN plan_fixed_rows(Len(inputs), policy.rows)
  ELSE plan_batches(Lens(inputs), policy.rows, policy.tokens)

Cut(inputs, plans) ==
  [k \in DOMAIN plans |-> SubSeq(inputs, plans[k].start + 1, plans[k].end)]

plan_remote_input_batches(lens, config) ==
  LET inputs == sort_inputs(Inputs(lens)) IN
  Cut(inputs, plan_batches(Lens(inputs), config.max_batch_inputs, config.max_batch_tokens))

plan_embedding_batches(lens, policy) ==
  LET inputs == IF policy.fixed THEN Inputs(lens) ELSE sort_inputs(Inputs(lens)) IN
  Cut(inputs, plan_by(policy, inputs))

\* Mutant: the input in the middle goes with neither half.
split_at_Loses(batch, mid) == <<SubSeq(batch, 1, mid), SubSeq(batch, mid + 2, Len(batch))>>
split_at(batch, mid) == <<SubSeq(batch, 1, mid), SubSeq(batch, mid + 1, Len(batch))>>

\* What the log says a pass will pad: [capped, padded].
summarize_token_lengths(lens, batches, runtime) ==
  [capped |-> SumFunctionOnSet(lens, DOMAIN lens),
   padded |-> LET shape == fixed_input_shape(runtime)
                  padding == [k \in DOMAIN batches |->
                                IF shape.rows # Unset THEN shape.rows * shape.seq_len
                                ELSE padded_tokens(batches[k])]
              IN SumFunctionOnSet(padding, DOMAIN padding)]

\* How many texts to take at a time, from the free memory and the cores.
calculate_safe_batch_size(available_mb, cores) ==
  Fewest(Fewest(AtLeastOne(available_mb \div 15), cores), 100)

-----------------------------------------------------------------------------
(* Settings. *)

positive_usize_from_env(raw, default, max) ==
  IF raw[1] = "n" /\ raw[2] > 0 THEN Fewest(raw[2], max) ELSE default
optional_usize_from_env(raw) == IF raw[1] = "n" /\ raw[2] > 0 THEN raw[2] ELSE Unset
encoding_format_from_env(raw) == IF raw = <<"word", "base64">> THEN "base64" ELSE "float"
provider_sort_from_env(raw) ==
  IF raw[1] = "word" /\ raw[2] \in {"price", "throughput", "latency"} THEN raw[2] ELSE "none"

\* Nothing is asked of the provider unless one preference is valid.
provider_preferences_from_env(sort, throughput, latency) ==
  LET asked == [sort |-> provider_sort_from_env(sort),
                throughput |-> optional_usize_from_env(throughput),
                latency |-> optional_usize_from_env(latency)] IN
  IF asked = [sort |-> "none", throughput |-> Unset, latency |-> Unset] THEN {} ELSE {asked}

\* Defaults and caps, shrunk with the texts.
resolve_openrouter_runtime_config(env) ==
  [max_batch_inputs |-> positive_usize_from_env(env.inputs, 2, 3),
   max_batch_tokens |-> positive_usize_from_env(env.tokens, 4, 6),
   concurrency      |-> positive_usize_from_env(env.concurrency, 2, 3),
   encoding_format  |-> encoding_format_from_env(env.encoding),
   provider         |-> provider_preferences_from_env(env.sort, env.throughput, env.latency)]

\* The second variable is read only when the first cannot be.
resolve_api_key(first, second) ==
  LET raw == IF first[1] \in {"absent", "unreadable"} THEN second ELSE first IN
  IF raw[1] = "word" THEN {raw[2]} ELSE {}

-----------------------------------------------------------------------------
(* Base64: a character is its value, Pad, Space or Invalid. *)

Pad == 64
Space == 65
Invalid == 66
Failed == <<-1>>

\* Four values to at most three bytes.
Quartet(q) ==
  LET pads == Cardinality({k \in 1..4 : q[k] = Pad})
      Value(k) == IF q[k] = Pad THEN 0 ELSE q[k]
      triple == Value(1) * 262144 + Value(2) * 4096 + Value(3) * 64 + Value(4) IN
  IF \/ pads > 2 \/ q[1] = Pad \/ q[2] = Pad
     \/ (pads = 1 /\ q[4] # Pad) \/ (pads = 2 /\ (q[3] # Pad \/ q[4] # Pad))
  THEN Failed
  ELSE SubSeq(<<(triple \div 65536) % 256, (triple \div 256) % 256, triple % 256>>, 1, 3 - pads)

decode_base64_standard(chars) ==
  LET read == SelectSeq(chars, LAMBDA c : c # Space)
      quartets == [k \in 1..(Len(read) \div 4) |-> Quartet(SubSeq(read, 4 * k - 3, 4 * k))] IN
  IF \/ Len(read) % 4 # 0
     \/ \E k \in DOMAIN read : read[k] = Invalid
     \/ \E k, l \in DOMAIN read : k < l /\ read[k] = Pad /\ read[l] # Pad
     \/ \E k \in DOMAIN quartets : quartets[k] = Failed
  THEN Failed ELSE FlattenSeq(quartets)

\* Mutant: bytes behind the last whole number are left out.
decode_base64_f32_embedding_Truncates(chars) ==
  LET bytes == decode_base64_standard(chars) IN
  IF bytes = Failed THEN {}
  ELSE {[k \in 1..(Len(bytes) \div 4) |-> SubSeq(bytes, 4 * k - 3, 4 * k)]}

\* Four bytes a number; a number is kept as its bytes.
decode_base64_f32_embedding(chars) ==
  LET bytes == decode_base64_standard(chars) IN
  IF bytes = Failed \/ Len(bytes) % 4 # 0 THEN {}
  ELSE {[k \in 1..(Len(bytes) \div 4) |-> SubSeq(bytes, 4 * k - 3, 4 * k)]}

-----------------------------------------------------------------------------
(* One response: its items, each [index, vector, fits, broken].  What may   *)
(* fail is a set of at most one result.                                    *)

parse_embeddings_response(items, count) ==
  IF \/ Len(items) # count
     \/ \E k \in DOMAIN items : items[k].index >= count \/ items[k].broken \/ ~ items[k].fits
     \/ \E i \in 0..(count - 1) : \A k \in DOMAIN items : items[k].index # i
  THEN {}
  ELSE {[i \in 1..count |->
                 items[CHOOSE k \in DOMAIN items :
                          /\ items[k].index = i - 1
                          /\ \A l \in DOMAIN items : items[l].index = i - 1 => l <= k].vector]}

is_payload_too_large(status, says_too_large) == status = 413 \/ (status = 400 /\ says_too_large)
is_retryable_status(status) == status \in {429, 500, 502, 503, 504, 529}
is_retryable_reqwest_error(error) == error \in {"connect", "timeout"}

restore_original_embedding_order(count, gathered) ==
  IF \/ \E k \in DOMAIN gathered : gathered[k].index >= count
     \/ \E i \in 0..(count - 1) : \A k \in DOMAIN gathered : gathered[k].index # i
  THEN {}
  ELSE {[i \in 1..count |->
                 gathered[CHOOSE k \in DOMAIN gathered :
                             /\ gathered[k].index = i - 1
                             /\ \A l \in DOMAIN gathered : gathered[l].index = i - 1 => l <= k].vector]}
=============================================================================
