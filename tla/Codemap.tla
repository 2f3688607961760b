------------------------------- MODULE Codemap ------------------------------
(***************************************************************************)
(* build_codemap (rmc-graph, graph/codemap; rmc-server,                    *)
(* tools/graph/codemap.rs) and semantic_overlaps as calls of several       *)
(* steps: a map of the items around a prompt or around named items, grown  *)
(* from seeds along usages, scored, cut to a budget and laid over the      *)
(* module tree.  Both tools may make vectors on the way, and between two   *)
(* of their steps sources are edited and a process that does not share     *)
(* this one's locks may put another snapshot in place.                     *)
(***************************************************************************)
EXTENDS SemanticOverlaps

CONSTANTS Starts,       \* <<snapshot, texts>>: the workspaces
          Rebuilds,     \* snapshots another process may put in place
          Texts,        \* what an edit may leave of an item; 0 is nothing
          Asked,        \* the calls callers make
          Similar,      \* calls of similar_to_item, with what the index finds
          Lines,        \* lines of a file
          MaxEdits

VARIABLES graph,        \* the current snapshot
          disk,         \* the text of each item
          built,        \* the texts the snapshot was built from
          cache,        \* the snapshot's vectors
          edits,
          call,         \* the call under way
          answer        \* the last call and what it returned

codemapVars == <<graph, disk, built, cache, edits, call, answer>>

-----------------------------------------------------------------------------
(* Seeds.  A position is a line's start, 2 * line, or its last byte,       *)
(* 2 * line + 1.  A hit is a chunk of a file: [file, first, last, score].  *)

OutsideWorkspace == "outside"

line_to_byte(file) == [l \in 1 .. Lines[file] |-> 2 * l]

SpanOf(id) == <<2 * Place[id].first, 2 * Place[id].last + 1>>

\* The narrowest item whose span holds the lines of a hit.
enclosing_item_for_line_range(g, hit) ==
  LET table == line_to_byte(hit.file)
      from  == table[hit.first]
      to    == IF hit.last < Len(table) THEN table[hit.last + 1] - 1 ELSE table[Len(table)]
      width(n) == SpanOf(n.id)[2] - SpanOf(n.id)[1]
      around == {n \in g.nodes : n.kind = "Item" /\ n.file = hit.file
                                 /\ SpanOf(n.id)[1] <= from /\ SpanOf(n.id)[2] >= to}
  IN  IF \/ hit.first = 0 \/ hit.last < hit.first \/ hit.first > Len(table) \/ around = {}
      THEN NoId
      ELSE (CHOOSE n \in around : \A m \in around : width(n) <= width(m)).id

\* Names that resolve, and a diagnostic for each that does not.
resolve_override_seeds(g, names) ==
  LET known == {n \in names : lookup_by_qualified_name(g, n) \notin NoName}
      hint(n) == LET above == lookup_by_qualified_name(g, [n EXCEPT !.path = Front(@)])
                 IN  IF Len(n.path) > 1 /\ above \notin NoName
                         /\ node_by_id(g, above).kind \in {"Module", "Crate"}
                     THEN "typo or not indexed" ELSE "unresolved"
  IN  [seeds |-> {lookup_by_qualified_name(g, n) : n \in known},
       told |-> {<<hint(n), n.path>> : n \in names \ known}]

Callable == {"Function", "AssocFunction", "Method"}
TypeLike == {"Struct", "Enum", "Union", "Trait", "TypeAlias"}

\* What one hit adds to the seeds found so far, or why it is dropped.
resolve_search_seeds(g, hits, opts) ==
  LET place(h) == enclosing_item_for_line_range(g, h)
      fate(h) == CASE h.file = OutsideWorkspace -> "path-norm"
                   [] h.file # OutsideWorkspace /\ place(h) = NoId -> "line-resolve"
                   [] OTHER -> IF node_by_id(g, place(h)).item \in Callable \cup TypeLike
                               THEN "seed" ELSE "kind-filter"
      take(acc, h) ==
        IF Cardinality(acc.seeds) >= opts.topK THEN acc
        ELSE IF fate(h) = "seed" THEN [acc EXCEPT !.seeds = @ \cup {place(h)}]
        ELSE [acc EXCEPT !.dropped = Append(@, fate(h))]
      all == FoldLeft(take, [seeds |-> {}, dropped |-> <<>>], Take(hits, 3 * opts.topK))
  IN  [seeds |-> all.seeds,
       told |-> {<<d>> : d \in {all.dropped} \ {<<>>}}
                \cup {<<"no hit resolved">> : x \in {all.seeds} \cap {{}}}]

\* The scores of the hits in an item add up.
build_bm25_by_node(g, hits) ==
  LET at(h) == IF h.file = OutsideWorkspace THEN NoId ELSE enclosing_item_for_line_range(g, h)
  IN  [id \in {at(hits[i]) : i \in DOMAIN hits} \ {NoId} |->
         FoldLeft(LAMBDA acc, h : IF at(h) = id THEN acc + h.score ELSE acc, 0, hits)]

-----------------------------------------------------------------------------
(* Growth, scores and the budget. *)

Worth(f, id) == IF id \in DOMAIN f THEN f[id] ELSE 0

\* Names in their order, whatever that order is.
NameBefore(g, a, b) ==
  LET names == InOrder({n.qual : n \in g.nodes} \cup {<<>>})
      at(id) == CHOOSE i \in DOMAIN names : names[i] = Qual(g, id)
  IN  at(a) < at(b)

\* The first n of S by a worth, names breaking ties.
BestBy(g, S, worth, n) ==
  {x \in S : Cardinality({y \in S : \/ worth[y] > worth[x]
                                    \/ worth[y] = worth[x] /\ NameBefore(g, y, x)}) < n}

edge_kind(rel) ==
  CASE rel = "Call" -> "Calls"          [] rel = "TypeRef" -> "TypeRef"
    [] rel = "Construct" -> "Constructs" [] rel = "Read" -> "Reads"
    [] rel = "Write" -> "Writes"        [] rel \in {"Use", "Unknown"} -> "Uses"
    [] OTHER -> rel

Outgoing(g, n) == {<<n, u.target, edge_kind(u.rel)>> : u \in usages_from_item(g, n)}

\* Of the items that use n, so many as are let in: the best found by the
\* search first.
Incoming(g, n, bm25, most) ==
  LET refs == {<<u.item, n, edge_kind(u.rel)>> :
                 u \in {x \in usages_for_target(g, n) : x.item # NoId}}
      kinds == InOrder({"Calls", "TraitDispatch", "FunctionReference", "TypeRef",
                        "Constructs", "Reads", "Writes", "Implements", "Uses"})
      kindAt(e) == CHOOSE i \in DOMAIN kinds : kinds[i] = e[3]
      ahead(e, d) == \/ Worth(bm25, e[1]) > Worth(bm25, d[1])
                     \/ /\ Worth(bm25, e[1]) = Worth(bm25, d[1])
                        /\ \/ NameBefore(g, e[1], d[1])
                           \/ e[1] = d[1] /\ kindAt(e) < kindAt(d)
  IN  {d \in refs : Cardinality({e \in refs : ahead(e, d)}) < most}

\* Breadth first from the seeds, along usages in both directions; a node's
\* distance is the level it is met at.
expand(g, seeds, bm25, opts) ==
  LET step(st, d) ==
        LET edges == UNION {Outgoing(g, n) \cup Incoming(g, n, bm25, opts.maxIncoming) :
                              n \in st.frontier}
            met   == UNION {{e[1], e[2]} : e \in edges} \ DOMAIN st.dist
        IN  [dist |-> [n \in met |-> d] @@ st.dist, frontier |-> met,
             edges |-> st.edges \cup edges]
      level[d \in 0 .. opts.depth] ==
        IF d = 0 THEN [dist |-> [n \in seeds |-> 0], frontier |-> seeds, edges |-> {}]
        ELSE step(level[d - 1], d)
  IN  level[opts.depth]

\* Vectors the snapshot already has from this model are taken as they are.
cached_vectors(snapVectors, ids, version) ==
  [id \in {i \in ids : snapVectors[i].version = version} |-> snapVectors[id].vector]

\* Shares of the best hit, of the nearness to a seed and, where a vector is
\* at hand, of its likeness to the prompt, in hundredths.
relevance(grown, bm25, prompt, vectors, id) ==
  LET best == Max({bm25[x] : x \in DOMAIN bm25} \cup {0})
      bm   == IF best = 0 THEN 0 ELSE (100 * Worth(bm25, id)) \div best
      near == 100 \div (1 + grown.dist[id])
  IN  IF prompt # NoRecord.vector /\ id \in DOMAIN vectors
      THEN 40 * 10 * cosine(prompt, vectors[id]) + 35 * bm + 25 * near
      ELSE 60 * bm + 40 * near

\* Seeds stay whatever the budget; the best of the others fill it.
prune_to_budget(g, seeds, retained, worth, maxNodes) ==
  LET n == Cardinality(seeds)
  IN  seeds \cup BestBy(g, retained \ seeds, worth, IF maxNodes > n THEN maxNodes - n ELSE 0)

-----------------------------------------------------------------------------
(* The answer. *)

\* A branch stays when it leads to a kept item.
filter_module_tree(g, tree, kept) ==
  LET RECURSIVE holds(_), cut(_)
      holds(t) == Qual(g, t.node) \in kept \/ \E c \in t.children : holds(c)
      cut(t) == [node |-> t.node,
                 children |-> {cut(c) : c \in {x \in t.children : holds(x)}}]
  IN  IF holds(tree) THEN {cut(tree)} ELSE {}

\* A tree for each crate of which something is kept, under one root when
\* there are several, or none.
project_hierarchy(g, retained) ==
  LET crates == {CrateOf(g, id) : id \in retained} \cap CrateIds(g)
      kept(c) == {Qual(g, id) : id \in {x \in retained : CrateOf(g, x) = c}}
      trees == UNION {filter_module_tree(g, module_tree(g, c, Cardinality(g.nodes)), kept(c)) :
                        c \in crates}
  IN  IF Cardinality(trees) = 1 THEN CHOOSE t \in trees : TRUE
      ELSE [node |-> <<"<workspace>">>, children |-> trees]

\* The line of an item and its first five lines, as far as the file goes.
line_of_byte(id) == Place[id].first
extract_snippet(id) ==
  Place[id].first .. Min({Place[id].first + 4, Lines[Place[id].file]})

\* Seeds, then their surroundings, then scores, then the budget, then the tree.
Grown(g, a) ==
  LET bm25 == IF a.names = {} THEN build_bm25_by_node(g, a.hits) ELSE <<>>
      from == IF a.names = {} THEN resolve_search_seeds(g, a.hits, a)
              ELSE resolve_override_seeds(g, a.names)
  IN  [bm25 |-> bm25, from |-> from, map |-> expand(g, from.seeds, bm25, a)]

\* What every item met is worth.
score_relevances(a, grown, vectors) ==
  LET prompt == IF a.policy = "NoRerank" \/ a.prompt = 0 THEN NoRecord.vector
                ELSE Vector(a.version, a.prompt)
  IN  [id \in DOMAIN grown.map.dist |->
         relevance(grown.map, grown.bm25, prompt, vectors, id)]

\* The items that are kept, those that have a node shown with what they are.
assemble(g, grown, worth, final, told) ==
  [seeds |-> grown.from.seeds,
   nodes |-> {[id |-> id, is_seed |-> id \in grown.from.seeds, relevance |-> worth[id],
               line |-> line_of_byte(id), snippet |-> extract_snippet(id)] :
                id \in {x \in final : Has(g, x)}},
   edges |-> {e \in grown.map.edges : e[1] \in final /\ e[2] \in final},
   hierarchy |-> project_hierarchy(g, final),
   told |-> told \cup grown.from.told]

scored_codemap(g, a, grown, worth, told) ==
  assemble(g, grown, worth,
           prune_to_budget(g, grown.from.seeds, DOMAIN worth, worth, a.maxNodes), told)

grown_codemap(g, a, grown, vectors, told) ==
  scored_codemap(g, a, grown, score_relevances(a, grown, vectors), told)

build_codemap(g, a, vectors, told) == grown_codemap(g, a, Grown(g, a), vectors, told)

\* A box for each module holding kept items, an arrow for each edge.
render_mermaid(g, m) ==
  LET above(id) == IF Len(Qual(g, id)) > 1 THEN Front(Qual(g, id)) ELSE <<"_orphans">>
      ids == {n.id : n \in m.nodes}
  IN  [groups |-> [p \in {above(id) : id \in ids} |-> {id \in ids : above(id) = p}],
       arrows |-> {e \in m.edges : e[3] \notin {"Imports", "Contains"}}]

\* The tree, a line for each name that a kept item has.
render_outline(g, m) ==
  LET RECURSIVE lines(_, _)
      lines(t, d) ==
        {[name |-> Qual(g, t.node), depth |-> d,
          of |-> {n \in m.nodes : Qual(g, n.id) = Qual(g, t.node)}] :
         x \in {n \in m.nodes : Qual(g, n.id) = Qual(g, t.node)}}
        \cup UNION {lines(c, d + 1) : c \in t.children}
  IN  lines(m.hierarchy, 0)

-----------------------------------------------------------------------------
(* Calls. *)

Idle == [pc |-> "idle"]
Ids == DOMAIN disk

Fail(why) == answer' = [outcome |-> why] /\ call' = Idle

\* The items whose vectors a call needs.
Wanted(g, a) ==
  CASE a.tool = "overlaps" -> enumerate_similarity_seeds(g, a.crate, a.kind, a.skipTests)
    [] a.tool = "codemap" /\ a.policy = "ComputeMissing" ->
         LET ids == DOMAIN Grown(g, a).map.dist
         IN  ids \ DOMAIN cached_vectors(cache, ids, a.version)
    [] OTHER -> {}

\* A map has at least one node and at most 500, and five levels.
Clamped(a) ==
  IF a.tool # "codemap" THEN a
  ELSE [a EXCEPT !.maxNodes = Max({1, Min({@, 500})}), !.depth = Min({@, 5})]

handle_build_codemap_refuses(a) == a.tool = "codemap" /\ a.names = {} /\ a.prompt = 0

\* The call reads the snapshot and the sources, then lets go of both.
Ask ==
  /\ call.pc = "idle"
  /\ \E a \in {Clamped(x) : x \in Asked} :
       IF handle_build_codemap_refuses(a) THEN Fail("refused")
       ELSE /\ call' = [pc |-> "embed", asked |-> a, g |-> graph, read |-> disk,
                        stale |-> FALSE, at |-> cache,
                        prepared |-> prepare_embeddings_for(graph, disk, cache,
                                                            Wanted(graph, a), a.version)]
            /\ answer' = [outcome |-> "none"]
  /\ UNCHANGED <<graph, disk, built, cache, edits>>

\* similar_to_item answers from the index at once: the item must have a
\* source that is still there.
SimilarTo ==
  /\ call.pc = "idle"
  /\ \E a \in Similar :
       LET id == lookup_by_qualified_name(graph, a.name) IN
       IF id \in NoName \/ ~ HasSource(graph, disk, id) THEN Fail("refused")
       ELSE /\ answer' = [outcome |-> "similar", asked |-> a, seed |-> id,
                          matches |-> similar_to_item(a.found, id, a)]
            /\ UNCHANGED call
  /\ UNCHANGED <<graph, disk, built, cache, edits>>

\* Nothing pending, nothing asked of the model; otherwise it may fail.
Embed ==
  /\ call.pc = "embed"
  /\ \/ /\ call' = [call EXCEPT !.pc = "write",
                                !.prepared = embed_prepared_embeddings(call.prepared)]
        /\ UNCHANGED answer
     \/ /\ call.prepared.pending # <<>>
        /\ Fail("embedding failed")
  /\ UNCHANGED <<graph, disk, built, cache, edits>>

\* semantic_overlaps opens the snapshot anew, build_codemap still holds the
\* one it read.
WriteBack ==
  /\ call.pc = "write"
  /\ cache' = IF call.asked.tool = "codemap" /\ call.stale THEN cache
              ELSE write_embedding_cache(cache, call.prepared)
  /\ call' = [call EXCEPT !.pc = "answer"]
  /\ UNCHANGED <<graph, disk, built, edits, answer>>

\* The answer is made from what was read at the start.
Finish ==
  /\ call.pc = "answer"
  /\ LET a == call.asked
         made == call.prepared.embeddings
     IN  \E r \in (IF a.tool = "overlaps" THEN score_semantic_overlaps(call.g, made, a)
                   ELSE {build_codemap(call.g, a,
                           [id \in DOMAIN made |-> made[id].vector] @@
                           (IF a.policy = "NoRerank" THEN <<>>
                            ELSE cached_vectors(call.at, Ids, a.version)), {})}) :
           answer' = [outcome |-> "answered", asked |-> a, result |-> r, read |-> call.read, of |-> call.g]
  /\ call' = Idle
  /\ UNCHANGED <<graph, disk, built, cache, edits>>

\* The source of an item is edited, or removed.
Edit ==
  /\ edits < MaxEdits
  /\ \E id \in Ids, t \in Texts : disk' = [disk EXCEPT ![id] = t]
  /\ edits' = edits + 1
  /\ UNCHANGED <<graph, built, cache, call, answer>>

\* A full build starts with no vectors; an incremental one keeps those of
\* the crates it has not read again.
Rebuild ==
  /\ edits < MaxEdits
  /\ graph' \in Rebuilds
  /\ \E full \in BOOLEAN :
       cache' = [id \in Ids |->
                   IF ~ full /\ Has(graph', id)
                      /\ \A x \in Ids : CrateOf(graph, x) = CrateOf(graph, id) => disk[x] = built[x]
                   THEN cache[id] ELSE NoRecord]
  /\ built' = disk
  /\ edits' = edits + 1
  /\ call' = IF call.pc = "idle" THEN call ELSE [call EXCEPT !.stale = TRUE]
  /\ UNCHANGED <<disk, answer>>

CodemapInit ==
  /\ \E s \in Starts : graph = s[1] /\ disk = s[2]
  /\ built = disk
  /\ cache = [id \in DOMAIN disk |-> NoRecord]
  /\ edits = 0
  /\ call = Idle
  /\ answer = [outcome |-> "none"]

CodemapNext == Ask \/ SimilarTo \/ Embed \/ WriteBack \/ Finish \/ Edit \/ Rebuild

CodemapSpec == CodemapInit /\ [][CodemapNext]_codemapVars

-----------------------------------------------------------------------------
(* Properties. *)

\* A vector in the cache is the image of the text whose hash stands beside
\* it, however calls, edits and builds interleave (the zip of
\* embed_prepared_embeddings, write_embedding_cache into a newer snapshot).
VectorsMatchTexts ==
  \A id \in Ids : cache[id] # NoRecord =>
    cache[id].vector = Vector(cache[id].version, cache[id].hash)

\* Pairs are those of the texts as the call read them; clusters are the
\* connected parts of the pairs, each once, the largest left out; a page
\* shows no more members than the limit (score_semantic_overlaps).
OverlapsOf(g, read, a) ==
  LET seeds == {id \in enumerate_similarity_seeds(g, a.crate, a.kind, a.skipTests) :
                  read[id] # 0}
  IN  {{p[1], p[2]} : p \in {q \in seeds \X seeds :
         /\ q[1] # q[2]
         /\ a.crossCrate => CrateOf(g, q[1]) # CrateOf(g, q[2])
         /\ Nearness(read[q[1]], read[q[2]]) >= Min({a.threshold, 10})}}

ConnectedParts(edges) ==
  LET closed == {S \in SUBSET UNION edges : S # {} /\
                   \A e \in edges : e \cap S # {} => e \subseteq S}
  IN  {S \in closed : \A T \in closed : T \subseteq S => T = S}

OverlapsAnswer(g, read, a, r) ==
  LET edges == OverlapsOf(g, read, a)
      parts == {S \in ConnectedParts(edges) :
                  a.maxCluster > 0 => Cardinality(S) <= a.maxCluster}
  IN  /\ r.pairs = Cardinality(edges) /\ r.clusters = Cardinality(parts)
      /\ a.mode = "clusters" =>
           /\ \A i \in DOMAIN r.page : r.page[i].members \in parts
           /\ \A i, j \in DOMAIN r.page : i # j => r.page[i].members # r.page[j].members
           /\ \A i \in DOMAIN r.page : ~ r.page[i].truncated =>
                r.page[i].size = Cardinality(r.page[i].members)
           /\ FoldLeft(LAMBDA acc, c : acc + c.size, 0, r.page) <= a.limit
           /\ a.offset = 0 /\ a.limit >= Cardinality(UNION parts) =>
                {r.page[i].members : i \in DOMAIN r.page} = parts

\* The items within so many usages of the seeds, either way.
Ball(g, seeds, k) ==
  LET near[d \in 0 .. k] ==
        IF d = 0 THEN seeds
        ELSE near[d - 1]
             \cup {u.target : u \in {x \in g.usages : x.item \in near[d - 1]}}
             \cup ({u.item : u \in {x \in g.usages : x.target \in near[d - 1]}} \ {NoId})
  IN  near[k]

RECURSIVE TreeNodes(_)
TreeNodes(t) == {t.node} \cup UNION {TreeNodes(c) : c \in t.children}

\* The seeds are all there; nothing is further from them than asked, and with
\* room for every user nothing nearer is missed; no item left out is worth
\* more than one kept; edges run between kept items; and every kept item of a
\* crate is in the tree, the outline and a box of the drawing.
CodemapAnswer(g, a, m) ==
  LET ids    == {n.id : n \in m.nodes}
      ball   == Ball(g, m.seeds, a.depth)
      others == {n \in m.nodes : ~ n.is_seed}
      wide   == a.maxIncoming >= Cardinality(g.usages)
  IN  /\ m.seeds \subseteq ids /\ ids \subseteq ball
      /\ Cardinality(ids) <= Max({a.maxNodes, Cardinality(m.seeds)})
      /\ wide => Cardinality(ids) = Max({Cardinality(m.seeds),
                                         Min({a.maxNodes, Cardinality(ball)})})
      /\ a.names # {} /\ a.policy = "NoRerank" /\ wide =>
           \A d \in 1 .. a.depth : \A n \in others :
             n.id \notin Ball(g, m.seeds, d) => Ball(g, m.seeds, d) \subseteq ids
      /\ \A e \in m.edges : {e[1], e[2]} \subseteq ids
           /\ \E u \in g.usages : u.item = e[1] /\ u.target = e[2]
      /\ {id \in ids : CrateOf(g, id) # NoId} \subseteq TreeNodes(m.hierarchy)
      /\ \A n \in m.nodes : \E x \in render_outline(g, m) : n \in x.of
      /\ LET drawn == render_mermaid(g, m) IN
         /\ UNION {drawn.groups[p] : p \in DOMAIN drawn.groups} = ids
         /\ drawn.arrows = m.edges

\* A seed found by search is the innermost item around the hit's lines.
SeedsAreInnermost(g, a, m) ==
  a.names = {} => \A id \in m.seeds : \E i \in DOMAIN a.hits :
    LET h == a.hits[i]
        within(x) == /\ x.kind = "Item" /\ x.file = h.file
                     /\ Place[x.id].first <= h.first /\ h.last <= Place[x.id].last
    IN  /\ within(node_by_id(g, id))
        /\ \A x \in g.nodes : within(x) /\ x.id # id =>
             Place[x.id].first <= Place[id].first /\ Place[id].last <= Place[x.id].last

\* One more than the limit is asked for, so that the item's own chunk does
\* not cost a match.
SimilarAnswer(a, seed, matches) ==
  LET own == {i \in DOMAIN a.found : Overlaps(a.found[i], seed)}
      fit == {i \in DOMAIN a.found \ own : a.found[i].score >= a.threshold}
  IN  /\ Len(matches) <= a.limit
      /\ \A i \in DOMAIN matches : ~ Overlaps(matches[i], seed)
      /\ Cardinality(own) <= 1 /\ a.kind = NoFilter =>
           Len(matches) = Min({a.limit, Cardinality(fit)})

\* What the tools answered holds of what they read.
VectorAnswersHold ==
  /\ answer.outcome = "similar" => SimilarAnswer(answer.asked, answer.seed, answer.matches)
  /\ answer.outcome = "answered" =>
    IF answer.asked.tool = "overlaps"
    THEN OverlapsAnswer(answer.of, answer.read, answer.asked, answer.result)
    ELSE /\ CodemapAnswer(answer.of, answer.asked, answer.result)
         /\ SeedsAreInnermost(answer.of, answer.asked, answer.result)
=============================================================================
