-------------------------- MODULE SemanticOverlaps --------------------------
(***************************************************************************)
(* Vectors of items and what is similar to what (rmc-graph,                *)
(* graph/embedding_cache.rs and graph/query/similarity.rs; rmc-server,     *)
(* tools/graph/similarity.rs).  Vectors are kept in the snapshot, under    *)
(* the hash of the text they were made from and the model that made them.  *)
(*                                                                         *)
(* A text is a number, which is also its hash; 0 is no text.  A vector is  *)
(* the model's image of a text.  Scores are whole tenths.                  *)
(***************************************************************************)
EXTENDS GraphQueries, TLC

CONSTANTS EmbedChunk,   \* EMBED_CHUNK: texts sent to the model at once
          Place         \* the lines of an item: [file, first, last]

Vector(version, text) == [by |-> version, of |-> text]
NoRecord == [hash |-> 0, vector |-> Vector("none", 0), version |-> "none"]

\* What the model makes of two texts: the nearer, the more alike.
Nearness(a, b) == IF a > b THEN 10 - 3 * (a - b) ELSE 10 - 3 * (b - a)
cosine(v, w) == IF v.by = w.by THEN Nearness(v.of, w.of) ELSE 0

-----------------------------------------------------------------------------
(* The cache. *)

HasSource(g, disk, id) ==
  Has(g, id) /\ node_by_id(g, id).file # "none" /\ disk[id] # 0

Vouched(cache, disk, id, version) ==
  cache[id].hash = disk[id] /\ cache[id].version = version

\* Vectors of the text as it is now, and the texts that need one.
prepare_embeddings_for(g, disk, cache, ids, version) ==
  LET usable == {id \in ids : HasSource(g, disk, id)}
      fresh  == {id \in usable : Vouched(cache, disk, id, version)}
  IN  [resolved |-> [id \in fresh |-> [vector |-> cache[id].vector,
                                       hash |-> disk[id]]],
       pending  |-> [i \in 1 .. Cardinality(usable \ fresh) |->
                       LET id == InOrder(usable \ fresh)[i]
                       IN  [nid |-> id, hash |-> disk[id]]],
       version  |-> version]

\* Mutant: a chunk starts with the last text of the one before.
Chunk_Overlapping(pending, k) ==
  SubSeq(pending, IF k = 1 THEN 1 ELSE (k - 1) * EmbedChunk,
         Min({k * EmbedChunk, Len(pending)}))

Chunk(pending, k) ==
  SubSeq(pending, (k - 1) * EmbedChunk + 1, Min({k * EmbedChunk, Len(pending)}))

\* The texts go to the model a chunk at a time; the vectors come back in one
\* row, and the n-th belongs to the n-th text.
embed_prepared_embeddings(prepared) ==
  LET n == Len(prepared.pending)
      vectors == FlattenSeq([k \in 1 .. (n + EmbedChunk - 1) \div EmbedChunk |->
                   LET texts == Chunk(prepared.pending, k)
                   IN  [i \in 1 .. Len(texts) |->
                          Vector(prepared.version, texts[i].hash)]])
      writes == {[nid |-> prepared.pending[i].nid, hash |-> prepared.pending[i].hash,
                  vector |-> vectors[i]] : i \in 1 .. n}
  IN  [embeddings |->
         [id \in {w.nid : w \in writes} |->
            LET w == CHOOSE x \in writes : x.nid = id
            IN  [vector |-> w.vector, hash |-> w.hash]] @@ prepared.resolved,
       writes |-> writes, version |-> prepared.version]

write_embedding_cache(cache, batch) ==
  [id \in DOMAIN cache |->
     IF \E w \in batch.writes : w.nid = id
     THEN LET w == CHOOSE x \in batch.writes : x.nid = id
          IN  [hash |-> w.hash, vector |-> w.vector, version |-> batch.version]
     ELSE cache[id]]

-----------------------------------------------------------------------------
(* Overlaps.  opts is what the caller asked for: [crate, kind, skipTests,  *)
(* crossCrate, threshold, maxCluster, mode, offset, limit].                *)

NoFilter == "any"

enumerate_similarity_seeds(g, crate, kind, skipTests) ==
  {n.id : n \in {x \in g.nodes :
     /\ x.kind = "Item" /\ x.file # "none"
     /\ crate # NoId => x.crate = crate
     /\ kind # NoFilter => x.item = kind
     /\ ~ (skipTests /\ "tests" \in Range(x.qual))}}

\* An edge has no direction.  Items of one text score full marks without
\* their vectors.
score_pairs(g, seeds, opts) ==
  LET same(a, b)  == seeds[a].hash = seeds[b].hash
      score(a, b) == IF same(a, b) THEN 10 ELSE cosine(seeds[a].vector, seeds[b].vector)
      scored      == {q \in (DOMAIN seeds) \X (DOMAIN seeds) :
                        /\ q[1] # q[2]
                        /\ opts.crossCrate => CrateOf(g, q[1]) # CrateOf(g, q[2])
                        /\ same(q[1], q[2]) \/ score(q[1], q[2]) >= opts.threshold}
  IN  {[of |-> {q[1], q[2]}, score |-> score(q[1], q[2])] : q \in scored}

\* Union-find, seen by the representative `find` returns for each node.
join(rep, a, b) == [n \in DOMAIN rep |-> IF rep[n] = rep[a] THEN rep[b] ELSE rep[n]]

build_clusters(pairs) ==
  LET nodes == UNION {p.of : p \in pairs}
      end(p) == CHOOSE n \in p.of : TRUE
      rep   == FoldSet(LAMBDA p, acc : join(acc, end(p), CHOOSE n \in p.of : n # end(p)),
                       [n \in nodes |-> n], pairs)
      group(r)  == {n \in nodes : rep[n] = r}
      inside(r) == {p \in pairs : p.of \subseteq group(r)}
  IN  {[members |-> group(r), size |-> Cardinality(group(r)),
        sum |-> MapThenSumSet(LAMBDA p : p.score, inside(r)),
        count |-> Cardinality(inside(r)),
        min |-> Min({p.score : p \in inside(r)}), truncated |-> FALSE] :
       r \in {rep[n] : n \in nodes}}

\* The best average first, then the largest, then the best worst pair.  What
\* is still equal comes out of a hash map, in any order.
Better(a, b) ==
  LET x == a.sum * b.count
      y == b.sum * a.count
  IN  x > y \/ (x = y /\ (a.size > b.size \/ (a.size = b.size /\ a.min > b.min)))

\* The orders of S that keep to the pairs of a relation.
Orders(S, before) ==
  {s \in SetToSeqs(S) : \A i, j \in DOMAIN s : <<s[i], s[j]>> \in before => i < j}

Drop(s, n) == SubSeq(s, n + 1, Len(s))
Take(s, n) == SubSeq(s, 1, IF n < Len(s) THEN n ELSE Len(s))

\* The limit is on members: the cluster that exceeds it is cut, and is the last.
page_clusters_by_member_limit(clusters, offset, limit) ==
  LET rest == Drop(clusters, offset)
      used(k) == FoldLeft(LAMBDA acc, c : acc + c.size, 0, SubSeq(rest, 1, k))
      shown == {k \in 1 .. Len(rest) : used(k - 1) < limit}
      cut(k) == IF used(k) <= limit THEN rest[k]
                ELSE [rest[k] EXCEPT !.truncated = TRUE, !.size = limit - used(k - 1)]
  IN  [k \in 1 .. Cardinality(shown) |-> cut(k)]

\* What a finished call may answer: one page, and the totals of all.
score_semantic_overlaps(g, seeds, opts) ==
  LET pairs == score_pairs(g, seeds, opts)
      clusters == {c \in build_clusters(pairs) :
                     opts.maxCluster > 0 => c.size <= opts.maxCluster}
      answer(page) == [page |-> page, pairs |-> Cardinality(pairs),
                       clusters |-> Cardinality(clusters)]
  IN  IF opts.mode = "pairs"
      THEN {answer(Take(Drop(s, opts.offset), opts.limit)) :
              s \in Orders(pairs, {<<p, q>> \in pairs \X pairs : p.score > q.score})}
      ELSE {answer(page_clusters_by_member_limit(s, opts.offset, opts.limit)) :
              s \in Orders(clusters, {<<c, d>> \in clusters \X clusters : Better(c, d)})}

-----------------------------------------------------------------------------
(* What looks like one item: the chunks the index finds for its text, best *)
(* first, without those that overlap the item itself.                      *)

Overlaps(c, seed) == /\ c.file = Place[seed].file
                     /\ c.first <= Place[seed].last /\ c.last >= Place[seed].first

similar_to_item(found, seed, opts) ==
  LET asked == Take(found, opts.limit + 1)
  IN  Take(SelectSeq(asked, LAMBDA c : /\ ~ Overlaps(c, seed) /\ c.score >= opts.threshold
                                       /\ opts.kind \in {NoFilter, c.kind}),
           opts.limit)
=============================================================================
