---------------------------- MODULE HybridSearch ----------------------------
(***************************************************************************)
(* Searches over the table of chunks and the BM25 index while a sync       *)
(* writes both and maintenance rewrites the table (rmc-engine,             *)
(* search/mod.rs, resilient.rs, bm25.rs; rmc-indexing, tantivy_adapter.rs  *)
(* and UnifiedIndexer::write_files).  A search holds no lock: it reads the *)
(* version of the table it opened, the BM25 commit its reader has loaded,  *)
(* fuses the two rankings, cuts them to the limit, and only then fetches   *)
(* the chunks the vector side did not bring.                               *)
(*                                                                         *)
(* Which chunks a query matches, and in what order, is left open; scores   *)
(* of one side are its ranks.                                              *)
(***************************************************************************)
EXTENDS VectorTable

CONSTANTS
  Candidates,  \* HybridSearchConfig::candidate_count
  K,           \* rrf_k
  MaxFails     \* bounds the failures to embed the query or to parse it

ASSUME SearchAssumption ==
  /\ Candidates \in Nat /\ K \in Nat
  /\ \A b \in Bounds : b.searches \subseteq
       [kind : {"hybrid", "resilient"}, limit : Nat, text : BOOLEAN, vectors : BOOLEAN, generator : BOOLEAN]

\* limits.searches: [kind, limit, text, vectors, generator], what may be asked
\* and which parts there are.
VARIABLES
  text,      \* the committed documents of the BM25 index
  staged,    \* the documents its writer would commit
  loaded,    \* the commit before it: the reader of the searches may not have the newest
  q,         \* the search
  fails

hsVars == <<text, staged, loaded, q, fails>>
searchVars == <<vtVars, hsVars>>

\* Only the id is stored; the path is what deletes go by.
document(c) == Id(c)

Todo == <<"todo">>
SideFailed == <<"failed">>
NoSearch == [ask |-> {}, at |-> "none", start |-> 0, began |-> 0, pin |-> 0,
             vec |-> Todo, bm |-> Todo, fused |-> <<>>, answer |-> <<>>,
             fallback |-> FALSE, bmTried |-> 0, vecTried |-> 0]

HSInit == /\ VTInit
          /\ text = {} /\ staged = {} /\ loaded = {}
          /\ q = NoSearch /\ fails = 0

-----------------------------------------------------------------------------
(* The writer. *)

\* A writer starts from the last commit; an empty index is refilled from the
\* store (open_stores, scan_chunks).
open_text ==
  /\ Ready
  /\ staged' = IF text = {} /\ log # <<>> THEN {document(c) : c \in Rows(Latest)} ELSE text
  /\ text' = IF text = {} THEN staged' ELSE text
  /\ job' = [job EXCEPT !.op = "sync", !.at = "open"]
  /\ UNCHANGED <<store, log, kept, disk, content, made, limits, now, loaded, q, fails>>

Syncing(at) == job.op = "sync" /\ job.at = at

\* Mutant: the documents are committed before the rows are written.
delete_files_chunks_Commits ==
  /\ Syncing("open") /\ made.syncs < limits.syncs
  /\ made' = [made EXCEPT !.syncs = @ + 1]
  /\ \E changed \in SUBSET Files \ {{}} :
       /\ made.chunks + Cardinality(changed) <= limits.chunks
       /\ delete_by_file_paths(changed)
       /\ staged' = {d \in staged : d.file \notin changed}
                    \cup {[n |-> made'.syncs, file |-> f] : f \in changed}
       /\ text' = staged' /\ loaded' = text
       /\ job' = [job EXCEPT !.at = "insert", !.files = changed]
  /\ UNCHANGED <<store, disk, limits, now, q, fails>>

\* The documents go when the commit says so, the rows at once.
delete_files_chunks ==
  /\ Syncing("open") /\ made.syncs < limits.syncs
  /\ made' = [made EXCEPT !.syncs = @ + 1]
  /\ \E removed, changed \in SUBSET Files :
       /\ removed \cap changed = {} /\ removed \cup changed # {}
       /\ made.chunks + Cardinality(changed) <= limits.chunks
       /\ delete_by_file_paths(removed \cup changed)
       /\ staged' = {d \in staged : d.file \notin removed \cup changed}
       /\ job' = [job EXCEPT !.at = "insert", !.files = changed]
  /\ UNCHANGED <<store, disk, limits, now, text, loaded, q, fails>>

\* Documents are staged before the rows are written; an empty batch is no
\* write.
index_chunks ==
  /\ Syncing("insert")
  /\ \/ /\ job.files # {} /\ insert_chunks(job.files)
        /\ staged' = staged \cup {document(c) : c \in content' \ content}
        /\ job' = [job EXCEPT !.at = "commit"]
     \/ /\ job.files = {}
        /\ job' = [job EXCEPT !.at = "commit"]
        /\ UNCHANGED <<log, kept, disk, content, made, staged>>
     \/ /\ job.files # {} /\ store.dim # Dim[job.by]
        /\ staged' = text /\ job' = NoJob
        /\ UNCHANGED <<log, kept, disk, content, made>>
  /\ UNCHANGED <<store, limits, now, text, loaded, q, fails>>

commit == /\ Syncing("commit")
          /\ text' = staged /\ loaded' = text
          /\ job' = [job EXCEPT !.op = "open", !.at = "open", !.files = {}]
          /\ UNCHANGED <<store, log, kept, disk, content, made, limits, now, staged, q, fails>>

WriterSteps ==
  \/ open_text \/ delete_files_chunks \/ index_chunks \/ commit
TableSteps ==
  /\ \/ new \/ create_table \/ create_indices \/ table_exists \/ check_identity
     \/ maintain \/ drop_unused \/ extend_indices \/ compact \/ ensure_ann_index
     \/ prune \/ closes \/ Dies \/ Tick
  /\ UNCHANGED hsVars

-----------------------------------------------------------------------------
(* Fusion. *)

\* The sequences of up to most of the ids, none of them twice.
Rankings(ids, most) ==
  {s \in UNION {[1..n -> ids] : n \in 0..most} : \A i, j \in DOMAIN s : s[i] = s[j] => i = j}

\* The sum of 1 / (K + rank) over the sides, both weights equal: a fraction.
Rank(hits, n) == CHOOSE i \in DOMAIN hits : hits[i] = n
rrf_score(vec, bm, n) ==
  LET a == K + Rank(vec, n)
      b == K + Rank(bm, n)
  IN CASE n \in ToSet(vec) /\ n \in ToSet(bm) -> <<a + b, a * b>>
       [] n \in ToSet(vec) /\ n \notin ToSet(bm) -> <<1, a>>
       [] OTHER -> <<1, b>>
AtLeast(s, t) == s[1] * t[2] >= t[1] * s[2]

\* Best first; equal scores in any order (they come out of a HashMap).
reciprocal_rank_fusion(vec, bm) ==
  {f \in Rankings(ToSet(vec) \cup ToSet(bm), Len(vec) + Len(bm)) :
     /\ ToSet(f) = ToSet(vec) \cup ToSet(bm)
     /\ \A i, j \in DOMAIN f : i < j => AtLeast(rrf_score(vec, bm, f[i]), rrf_score(vec, bm, f[j]))}

Truncate(s, limit) == SubSeq(s, 1, IF Len(s) < limit THEN Len(s) ELSE limit)

\* The hits that have a chunk, in order.
attach_chunks(fused, chunks) ==
  LET ids == {Id(c) : c \in chunks}
      hits == Picked(fused, {i \in DOMAIN fused : fused[i] \in ids})
  IN [i \in DOMAIN hits |-> CHOOSE c \in chunks : Id(c) = hits[i]]

IdsOf(results) == [i \in DOMAIN results |-> Id(results[i])]

-----------------------------------------------------------------------------
(* A search. *)

\* Bound: the search is asked when the first sync is over.
Ask == /\ q.at = "none" /\ made.syncs > 0 /\ text # {}
       /\ \E ask \in limits.searches : q' = [NoSearch EXCEPT !.ask = {ask}, !.at = "sides",
                                        !.start = Len(log), !.began = now, !.fallback = q.fallback]
       /\ UNCHANGED <<vtVars, text, staged, loaded, fails>>

Asked == CHOOSE a \in q.ask : TRUE
Depth == IF Asked.kind = "hybrid" THEN Candidates ELSE Asked.limit
BmIsOn == q.at = "sides" \/ q.at = "fallback bm"
VecIsOn == q.at = "sides" \/ q.at = "fallback vec"

AtMost(n, m) == IF n < m THEN n ELSE m

\* The query is embedded, then the newest version of the table is opened.
open_vectors ==
  /\ VecIsOn /\ q.vec = Todo
  /\ \/ /\ Asked.vectors /\ Asked.generator
        /\ q' = [q EXCEPT !.vec = <<"open">>, !.pin = get_table]
        /\ UNCHANGED fails
     \/ /\ ~(Asked.vectors /\ Asked.generator)
        /\ q' = [q EXCEPT !.vec = SideFailed, !.vecTried = @ + 1]
        /\ UNCHANGED fails
     \/ /\ Asked.vectors /\ Asked.generator /\ fails < MaxFails
        /\ fails' = fails + 1
        /\ q' = [q EXCEPT !.vec = SideFailed, !.vecTried = @ + 1]
  /\ UNCHANGED <<vtVars, text, staged, loaded>>

search_vectors ==
  /\ q.vec = <<"open">>
  /\ q' = IF FragIds(log[q.pin]) \subseteq disk THEN [q EXCEPT !.vec = <<"read">>, !.vecTried = @ + 1]
          ELSE [q EXCEPT !.vec = SideFailed, !.vecTried = @ + 1]
  /\ UNCHANGED <<vtVars, text, staged, loaded, fails>>

\* Hybrid search may run without a BM25 index; the resilient one calls that
\* a failure.
search_text ==
  /\ BmIsOn /\ q.bm = Todo
  /\ \/ /\ Asked.text
        /\ \E docs \in {text, loaded} :
             q' = [q EXCEPT !.bm = <<IF Asked.kind = "resilient" THEN "found" ELSE "read", docs>>]
        /\ UNCHANGED fails
     \/ /\ Asked.text /\ fails < MaxFails
        /\ fails' = fails + 1
        /\ q' = [q EXCEPT !.bm = SideFailed, !.bmTried = @ + 1]
     \/ /\ ~Asked.text
        /\ q' = IF Asked.kind = "resilient" THEN [q EXCEPT !.bm = SideFailed, !.bmTried = @ + 1]
                ELSE [q EXCEPT !.bm = <<"read", {}>>]
        /\ UNCHANGED fails
  /\ UNCHANGED <<vtVars, text, staged, loaded>>

\* ResilientHybridSearch::bm25_search reads the chunks at once.
bm25_chunks ==
  /\ q.bm[1] = "found"
  /\ q' = [q EXCEPT !.bmTried = @ + 1,
             !.bm = IF Asked.vectors THEN <<"read", q.bm[2], get_table>> ELSE SideFailed]
  /\ UNCHANGED <<vtVars, text, staged, loaded, fails>>

\* What a side found.  The exact scan finds the nearest; the ANN index may
\* miss some; a query may match any of the documents.
VectorHits ==
  LET rows == Rows(log[q.pin]) IN
  {s \in Rankings(rows, Depth) : log[q.pin].ann = <<>> => Len(s) = Depth \/ ToSet(s) = rows}
TextHits == Rankings(q.bm[2], Depth)
TextResults == {attach_chunks(s, chunks_by_ids(q.bm[3], ToSet(s))) : s \in TextHits}

Came(side) == side[1] \in {"read", "failed"}
SearchEnds(at, answer) == q' = [q EXCEPT !.at = at, !.answer = answer]

\* HybridSearch::search_with_k.
fuse ==
  /\ q.at = "sides" /\ Asked.kind = "hybrid" /\ Came(q.vec) /\ Came(q.bm)
  /\ IF q.vec = SideFailed \/ q.bm = SideFailed THEN SearchEnds("error", <<>>)
     ELSE \E vec \in VectorHits, bm \in TextHits :
          \E f \in reciprocal_rank_fusion(IdsOf(vec), bm) :
            q' = [q EXCEPT !.at = "fused", !.vec = <<"hits", vec>>, !.bm = <<"hits", bm>>,
                           !.fused = Truncate(f, Asked.limit)]
  /\ UNCHANGED <<vtVars, text, staged, loaded, fails>>

fetch_missing ==
  /\ q.at = "fused"
  /\ LET near == ToSet(q.vec[2])
         missing == ToSet(q.fused) \ {Id(c) : c \in near}
     IN SearchEnds("ok", attach_chunks(q.fused, near \cup chunks_by_ids(get_table, missing)))
  /\ UNCHANGED <<vtVars, text, staged, loaded, fails>>

\* ResilientHybridSearch::search.
merge_results ==
  /\ q.at = "sides" /\ Asked.kind = "resilient" /\ Came(q.vec) /\ Came(q.bm)
  /\ \/ /\ q.vec = SideFailed /\ q.bm = SideFailed
        /\ q' = [q EXCEPT !.at = "fallback bm", !.fallback = TRUE, !.bm = Todo, !.vec = Todo]
     \/ /\ q.vec = SideFailed /\ q.bm # SideFailed
        /\ \E bm \in TextResults : q' = [q EXCEPT !.at = "ok", !.answer = bm, !.fallback = FALSE]
     \/ /\ q.vec # SideFailed /\ q.bm = SideFailed
        /\ \E vec \in VectorHits : q' = [q EXCEPT !.at = "ok", !.answer = vec, !.fallback = FALSE]
     \/ /\ q.vec # SideFailed /\ q.bm # SideFailed
        /\ \E vec \in VectorHits, bm \in TextResults :
           \E f \in reciprocal_rank_fusion(IdsOf(vec), IdsOf(bm)) :
             q' = [q EXCEPT !.at = "ok", !.fallback = FALSE, !.fused = f,
                     !.answer = attach_chunks(f, ToSet(vec) \cup ToSet(bm))]
  /\ UNCHANGED <<vtVars, text, staged, loaded, fails>>

fallback_search ==
  /\ \/ /\ q.at = "fallback bm" /\ q.bm[1] = "read"
        /\ \E bm \in TextResults : SearchEnds("ok", bm)
     \/ q.at = "fallback bm" /\ q.bm = SideFailed /\ q' = [q EXCEPT !.at = "fallback vec"]
     \/ /\ q.at = "fallback vec" /\ q.vec = <<"read">>
        /\ \E vec \in VectorHits : SearchEnds("ok", vec)
     \/ q.at = "fallback vec" /\ q.vec = SideFailed /\ SearchEnds("error", <<>>)
  /\ UNCHANGED <<vtVars, text, staged, loaded, fails>>

\* Bound: nothing is written after the answer of the search.
SearchDone == q.at \in {"ok", "error"}

HSNext ==
  \/ ~SearchDone /\ TableSteps
  \/ ~SearchDone /\ WriterSteps
  \/ Ask \/ open_vectors \/ search_vectors \/ search_text \/ bm25_chunks
  \/ fuse \/ fetch_missing \/ merge_results \/ fallback_search

HSSpec == HSInit /\ [][HSNext]_searchVars

-----------------------------------------------------------------------------
(* Relevance of an answer to a labelled query (search/relevance.rs). *)

validate(case) == case.query # "" /\ case.expected # {}
recall_at(case, ranked, k) ==
  Cardinality(ToSet(SubSeq(ranked, 1, AtMost(k, Len(ranked)))) \cap case.expected)
First(case, ranked) == {i \in DOMAIN ranked : ranked[i] \in case.expected
                                              /\ \A j \in 1..(i - 1) : ranked[j] \notin case.expected}
\* The empty set for a case that cannot be scored; recalls are counts.
score_case(case, ranked) ==
  IF ~validate(case) THEN {}
  ELSE {[recall_at_5 |-> recall_at(case, ranked, 5), recall_at_10 |-> recall_at(case, ranked, 10),
         first |-> First(case, ranked), any_hit |-> First(case, ranked) # {}]}

-----------------------------------------------------------------------------
(* Properties. *)

Ended == q.at \in {"ok", "error"}
Before(s, m, n) == \E i, j \in DOMAIN s : i < j /\ s[i] = m /\ s[j] = n

\* Each result carries its own chunk, one the table held at some moment of
\* the search, and no chunk comes twice.
ResultsWereThere ==
  q.at = "ok" =>
    /\ \A i \in DOMAIN q.answer : \E v \in q.start..Len(log) : q.answer[i] \in Rows(log[v])
    /\ \A i, j \in DOMAIN q.answer : Id(q.answer[i]) = Id(q.answer[j]) => i = j

\* The answer keeps to the limit; the resilient search adds the two sides up.
LimitHolds ==
  q.at = "ok" => Len(q.answer) <= (IF Asked.kind = "hybrid" THEN 1 ELSE 2) * Asked.limit

\* A chunk ahead on both sides is ahead in the answer; one that is first on
\* both is the first; and a hit of the vector side is only ever cut off by
\* the limit, never for want of a chunk.
AgreementWins ==
  (q.at = "ok" /\ Asked.kind = "hybrid") =>
    LET vec == IdsOf(q.vec[2])
        got == IdsOf(q.answer)
    IN /\ \A m, n \in ToSet(vec) \cap ToSet(q.bm[2]) :
            Before(vec, m, n) /\ Before(q.bm[2], m, n) => ~Before(got, n, m)
       /\ (vec # <<>> /\ q.bm[2] # <<>> /\ vec[1] = q.bm[2][1] /\ Asked.limit > 0) =>
            got # <<>> /\ got[1] = vec[1]
       /\ ToSet(vec) \cap ToSet(q.fused) \subseteq ToSet(got)

\* The resilient search fails only when either side failed twice, and its
\* flag says that neither side answered at first.
FallbackIsLast ==
  (q.ask # {} /\ Asked.kind = "resilient") =>
    /\ q.at = "error" => q.bmTried = 2 /\ q.vecTried = 2
    /\ q.at = "ok" => (q.fallback <=> q.bmTried + q.vecTried > 2)

\* The BM25 index never names a chunk the table has not held: rows are
\* written before the commit, so a hit without a chunk is one that is gone.
NeverTooEarly == \A d \in text \cup loaded : \E v \in DOMAIN log : d \in {Id(c) : c \in Rows(log[v])}

\* Between syncs, after no death, both hold the same chunks.
TextFollows == (made.deaths = 0 /\ job.op = "open" /\ made.chunks > 0 /\ store.meta # {}) =>
                 text = {document(c) : c \in content}

\* A better first answer never scores less.
ScoresAreMonotone ==
  \A ranked \in {<<1, 2, 3>>, <<3, 1, 2>>, <<3, 2>>, <<>>}, expected \in SUBSET {1, 2} :
    \A s \in score_case([query |-> "q", expected |-> expected], ranked) :
      /\ s.recall_at_5 <= s.recall_at_10 /\ s.recall_at_10 <= Cardinality(expected)
      /\ s.any_hit <=> s.recall_at_10 > 0
      /\ expected # {}

\* A version that a prune may drop: neither the newest nor younger than Keep.
Outdated(v) == v # Len(log) /\ now - log[v].made > Keep

\* A reader is cut off from such a version only: until it is outdated, all that the
\* version needs is on disk, whatever is merged, dropped and written while the reader
\* has it open; and a hybrid search whose vectors failed after it had opened the
\* table had opened a version that is outdated (lancedb.rs:1102-1110).
ReadersAreCutLate ==
  /\ q.vec = <<"open">> => Outdated(q.pin) \/ FragIds(log[q.pin]) \subseteq disk
  /\ (q.ask # {} /\ Asked.kind = "hybrid" /\ q.vec = SideFailed /\ q.pin # 0) => Outdated(q.pin)

\* What unified.rs:68-73 promises: a search that runs no longer than Keep never loses
\* its version.  It does, since a prune goes by the age of the version and not by the
\* time for which it has not been the newest: TLC finds this violated, and it is no
\* part of SearchHolds.
NoReaderIsCut ==
  (q.vec = <<"open">> /\ now - q.began <= Keep) => FragIds(log[q.pin]) \subseteq disk

SearchHolds ==
  /\ NothingLost /\ KeptAreWhole /\ PassesHold /\ DeltasBounded /\ MergedPassesCompact
  /\ OneEmbedder
  /\ ResultsWereThere /\ LimitHolds /\ AgreementWins /\ FallbackIsLast
  /\ ReadersAreCutLate /\ NeverTooEarly /\ TextFollows
  /\ store = NoStore => RefineCovers /\ ScoresAreMonotone   \* they depend on no state

-----------------------------------------------------------------------------
(* What the proofs add. *)

DocId == [n : Nat, file : Files]
SearchTypes ==
  /\ text \subseteq DocId /\ staged \subseteq DocId /\ loaded \subseteq DocId /\ fails \in Nat
  /\ q = [ask |-> q.ask, at |-> q.at, start |-> q.start, began |-> q.began, pin |-> q.pin,
          vec |-> q.vec, bm |-> q.bm, fused |-> q.fused, answer |-> q.answer,
          fallback |-> q.fallback, bmTried |-> q.bmTried, vecTried |-> q.vecTried]
  /\ q.start \in Nat /\ q.pin \in Nat /\ q.bmTried \in Nat /\ q.vecTried \in Nat

\* A document was of a chunk that was there.  As long as nobody died, what
\* the writer would commit is what the store holds, and between syncs that
\* is what was committed.
Docs(version) == {Id(c) : c \in Rows(version)}
DocumentsHold ==
  /\ job.op = "sync" => job.at \in {"open", "insert", "commit"}
  /\ \A d \in text \cup loaded \cup staged : \E v \in DOMAIN log : d \in Docs(log[v])
  /\ made.deaths = 0 =>
       /\ store.meta = {} => content = {} /\ (log = <<>> \/ (job.op = "new" /\ store.dim = Dim[job.by]))
       /\ \A e \in store.meta : store.dim = Dim[e]
       /\ IF job.op = "sync" THEN staged = {Id(c) : c \in content} ELSE text = {Id(c) : c \in content}

\* What the search has in hand, by where it is.
InOrder(hits) == \A i, j \in DOMAIN hits : hits[i] = hits[j] => i = j
Ranked(hits, ids, most) ==
  hits \in Seq(ids) /\ Len(hits) <= most /\ InOrder(hits)
Pinned(v) == v \in q.start..Len(log)
Tried(side) == IF side = SideFailed \/ side[1] = "read" THEN 1 ELSE 0
UnderWay == q.at \in {"sides", "fallback bm", "fallback vec"}
SearchStands ==
  /\ UnderWay \/ q.at \in {"none", "fused", "ok", "error"}
  /\ q.at = "none" => q = NoSearch
  /\ q.at # "none" => q.start \in 1..Len(log) /\ \E a \in limits.searches : q.ask = {a}
  /\ UnderWay /\ Asked.kind = "hybrid" => q.at = "sides"
VectorSide ==
  IF UnderWay
  THEN /\ q.vec \in {Todo, SideFailed, <<"open">>, <<"read">>}
       /\ q.vec \in {<<"open">>, <<"read">>} => Pinned(q.pin)
  ELSE q.vec # <<"open">>
TextSide ==
  IF UnderWay
  THEN \/ q.bm \in {Todo, SideFailed}
       \/ /\ q.bm[2] \subseteq DocId
          /\ \/ Asked.kind = "hybrid" /\ q.bm = <<"read", q.bm[2]>>
             \/ Asked.kind = "resilient" /\ q.bm = <<"found", q.bm[2]>>
             \/ Asked.kind = "resilient" /\ q.bm = <<"read", q.bm[2], q.bm[3]>> /\ Pinned(q.bm[3])
  ELSE q.bm[1] # "found"
Attempts ==
  /\ q.at = "sides" => ~q.fallback /\ (Asked.kind = "resilient" => q.bmTried = Tried(q.bm))
                       /\ q.vecTried = Tried(q.vec)
  /\ q.at = "fallback bm" => q.fallback /\ q.vec = Todo /\ q.vecTried = 1 /\ q.bmTried = 1 + Tried(q.bm)
  /\ q.at = "fallback vec" => q.fallback /\ q.bm = SideFailed /\ q.bmTried = 2 /\ q.vecTried = 1 + Tried(q.vec)
SidesHold == SearchStands /\ VectorSide /\ TextSide /\ Attempts

\* What the fused ranking keeps of the two.
Agrees(vec, bm, got, limit) ==
  /\ \A m, n \in ToSet(vec) \cap ToSet(bm) : Before(vec, m, n) /\ Before(bm, m, n) => ~Before(got, n, m)
  /\ (vec # <<>> /\ bm # <<>> /\ vec[1] = bm[1] /\ limit > 0) => got # <<>> /\ got[1] = vec[1]
FusedHolds ==
  q.at = "fused" =>
    /\ Asked.kind = "hybrid" /\ Pinned(q.pin)
    /\ q.vec[1] = "hits" /\ Ranked(q.vec[2], Rows(log[q.pin]), Candidates)
    /\ q.bm[1] = "hits" /\ Ranked(q.bm[2], DocId, Candidates)
    /\ Ranked(q.fused, DocId, Asked.limit)
    /\ Agrees(IdsOf(q.vec[2]), q.bm[2], q.fused, Asked.limit)

\* The version a search opened, and why a hybrid one lost it.
PinHolds ==
  /\ q.pin \in 0..Len(log) /\ (q.vec = <<"open">> => q.pin # 0)
  /\ (q.ask # {} /\ Asked.kind = "hybrid") =>
       /\ q.vec = Todo => q.pin = 0
       /\ (q.vec = SideFailed /\ q.pin # 0) => Outdated(q.pin)

SearchInv ==
  /\ TableInv /\ SearchTypes /\ DocumentsHold /\ SidesHold /\ FusedHolds
  /\ ResultsWereThere /\ LimitHolds /\ AgreementWins /\ FallbackIsLast
=============================================================================
