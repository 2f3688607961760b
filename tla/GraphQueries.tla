---------------------------- MODULE GraphQueries ----------------------------
(***************************************************************************)
(* The questions asked of a graph snapshot: names, scopes, imports and     *)
(* exports, usages, calls, crate edges, public surface and statistics      *)
(* (rmc-graph, graph/query).                                               *)
(*                                                                         *)
(* A snapshot is the model GraphExtraction writes: nodes, bindings,        *)
(* containments, usages, signatures, statics and unresolved calls.  The    *)
(* index tables are those sets seen from one of their columns.  Results    *)
(* the code sorts for display are sets here; where a first element or a    *)
(* traversal depends on an order, the order is kept.  The tools that ask   *)
(* these questions are in GraphTools.                                      *)
(***************************************************************************)
EXTENDS Naturals, Sequences, FiniteSets, SequencesExt, FiniteSetsExt

NoId == <<"none">>
None == <<>>

MAX_REEXPORT_HOPS == 8

-----------------------------------------------------------------------------
(* Lookups. *)

Has(g, id)  == \E n \in g.nodes : n.id = id
node_by_id(g, id) == CHOOSE n \in g.nodes : n.id = id
Qual(g, id) == IF Has(g, id) THEN node_by_id(g, id).qual ELSE <<>>
CrateOf(g, id) == IF Has(g, id) THEN node_by_id(g, id).crate ELSE NoId

\* A set in the order of its keys, whatever that order is.
InOrder(S) == FoldSet(LAMBDA x, acc : Append(acc, x), <<>>, S)

display_name(n) == IF n.qual = <<>> THEN "" ELSE Last(n.qual)

\* The kind and the root file of a target are components of its identity.
CrateIds(g)   == {n.id : n \in {x \in g.nodes : x.kind = "Crate"}}
crate_target_kind(c) == c[2][2]
TargetRoot(c) == c[2][3]

bindings_for_from_module(g, m) == {b \in g.bindings : b.from = m}
bindings_for_target(g, t)      == {b \in g.bindings : b.target = t}
usages_for_target(g, t)        == {u \in g.usages : u.target = t}
usages_for_consumer(g, m)      == {u \in g.usages : u.mod = m}
usages_for_consumer_function(g, f) == {u \in g.usages : u.fn = f}
usages_from_item(g, i)         == {u \in g.usages : u.item = i}
Children(g, id)                == {e[2] : e \in {x \in g.contains : x[1] = id}}
Ambiguous(g, c) == \E d \in CrateIds(g) \ {c} : Qual(g, d) = Qual(g, c)

\* A crate is labelled by its name, and by its target as well when several
\* targets have the name.
target_labels(g) ==
  [c \in CrateIds(g) |->
     IF Ambiguous(g, c)
     THEN Qual(g, c) \o <<crate_target_kind(c), TargetRoot(c)>>
     ELSE Qual(g, c)]

Label(g, id) == LET l == target_labels(g) IN IF id \in DOMAIN l THEN l[id] ELSE <<>>

\* The visibility an item was declared with: of several declarations, the
\* one in the module the item hangs under.
DeclaredVisibility(g, id) ==
  LET decl == {b \in bindings_for_target(g, id) : b.kind = "Declared"}
      home == {b \in decl : b.from = node_by_id(g, id).parent}
  IN  IF decl = {} THEN <<"none">>
      ELSE (CHOOSE b \in (IF home # {} THEN home ELSE decl) : TRUE).vis

format_binding_visibility(g, vis) ==
  CASE vis[1] = "Public"       -> <<"pub">>
    [] vis[1] = "Private"      -> <<"pub(self)">>
    [] vis[1] = "Crate"        -> <<"pub(crate)">>
    [] vis[1] = "RestrictedTo" -> <<"pub(in)">> \o Qual(g, vis[2])
    [] OTHER                   -> None

declared_visibility_map(g, ids) ==
  [id \in {i \in ids : DeclaredVisibility(g, i) # <<"none">>} |->
     format_binding_visibility(g, DeclaredVisibility(g, id))]

\* All crates, the libraries and binaries, or those outside vendor/ only.
crate_scope_allows(g, scope, c) ==
  \/ scope = "All"
  \/ /\ crate_target_kind(c) \in {"lib", "bin"}
     /\ scope = "LocalNoVendor" =>
          ~ \E n \in g.nodes : n.crate = c /\ n.file = "vendor"

\* The module, crate or external symbol a reference to `id` depends on.
dependency_node_for(g, id) ==
  LET walk[k \in 0 .. 32] ==
        IF k = 0 THEN id
        ELSE LET at == walk[k - 1]
                 n  == node_by_id(g, at)
             IN  IF ~Has(g, at) \/ n.kind # "Item" THEN at
                 ELSE IF n.decl # NoId THEN n.decl ELSE n.parent
      end == walk[32]
  IN  IF Has(g, end) /\ node_by_id(g, end).kind
                          \in {"Module", "Crate", "ExternalSymbol"}
      THEN end ELSE NoId

\* The modules around a node, and itself.
module_ancestors(g, m) ==
  LET up[k \in 0 .. Cardinality(g.nodes)] ==
        IF k = 0 THEN {m}
        ELSE LET s == up[k - 1] IN
             s \cup ({node_by_id(g, x).parent : x \in {y \in s : Has(g, y)}} \ {NoId})
  IN  up[Cardinality(g.nodes)]

\* The module at the root of a crate shares the crate's name.
find_root_module_of(g, c) ==
  LET roots == {n \in g.nodes : /\ n.kind = "Module" /\ n.parent = c
                                /\ n.qual = Qual(g, c)}
  IN  IF c \in CrateIds(g) /\ roots # {} THEN (CHOOSE n \in roots : TRUE).id
      ELSE NoId

-----------------------------------------------------------------------------
(* Names.  A name is [path, kind, root]; kind and root select a target,    *)
(* "any" leaves them open.                                                 *)

Named(g, name) ==
  {n \in g.nodes :
     /\ n.qual = name.path
     /\ name.kind # "any" => /\ n.crate # NoId
                             /\ crate_target_kind(n.crate) = name.kind
                             /\ name.root = "any" \/ TargetRoot(n.crate) = name.root}

\* A crate and its root module share a name and the module is meant; any
\* other two nodes of a name make it ambiguous.
RootPair(a, b) == a.crate = b.crate /\ {a.kind, b.kind} = {"Crate", "Module"}

Plain(path) == [path |-> path, kind |-> "any", root |-> "any"]

\* Members of an impl block, named through the module the impl is in: the
\* type's crate and file are the module's and its path ends in the type.
is_impl_module_item_alias_candidate(n, m, type, member) ==
  /\ n.kind = "Item"
  /\ n.item \in {"Method", "AssocFunction", "AssocConst", "AssocType"}
  /\ display_name(n) = member
  /\ m.crate # NoId => n.crate = m.crate
  /\ m.file # "none" => n.file = m.file
  /\ Len(n.qual) > 2 /\ n.qual[Len(n.qual) - 1] = type

\* The node a name means, or why there is none: first by its qualified
\* name, then as a member of an impl in a module, then as something the
\* module imports.
Ambiguity == <<"ambiguous">>
NoName    == {NoId, Ambiguity}

\* The member of an impl in module m that the last of a name's path means.
impl_member_of(g, name, m) ==
  LET k == Len(name.path)
      members == {n \in g.nodes :
                    is_impl_module_item_alias_candidate(
                      n, node_by_id(g, m), name.path[k - 1], name.path[k])}
  IN  CASE m \in NoName -> m
        [] m \notin NoName ->
             IF node_by_id(g, m).kind = "Module" /\ Cardinality(members) = 1
             THEN (CHOOSE n \in members : TRUE).id ELSE NoId

RECURSIVE lookup_inner(_, _, _)
lookup_impl_module_item_alias(g, name, hops) ==
  LET k == Len(name.path) IN
  IF k < 3 THEN NoId
  ELSE impl_member_of(g, name,
         lookup_inner(g, [name EXCEPT !.path = SubSeq(@, 1, k - 2)], hops - 1))

\* What a module imports under a name.
ImportedAs(g, m, name) ==
  {b \in bindings_for_from_module(g, m) :
     b.name = name /\ b.kind # "Declared" /\ Has(g, b.target)}

\* What the module the front of a path means imports under its last.
imported_into(g, up, name) ==
  LET seen == ImportedAs(g, up, Last(name.path)) IN
  CASE up \in NoName -> up
    [] up \notin NoName -> IF seen = {} THEN NoId ELSE (CHOOSE b \in seen : TRUE).target

alias_or_import(g, name, alias, hops) ==
  IF alias # NoId THEN alias
  ELSE IF Len(name.path) < 2 THEN NoId
  ELSE imported_into(g, lookup_inner(g, [name EXCEPT !.path = Front(@)], hops - 1), name)

lookup_inner(g, name, hops) ==
  LET found == Named(g, name) IN
  CASE found # {} ->
         IF \A a, b \in found : a = b \/ RootPair(a, b)
         THEN (CHOOSE n \in found : n.kind # "Crate" \/ found = {n}).id
         ELSE Ambiguity
    [] found = {} /\ hops = 0 -> NoId
    [] found = {} /\ hops > 0 ->
         alias_or_import(g, name, lookup_impl_module_item_alias(g, name, hops), hops)

lookup_by_qualified_name(g, name) == lookup_inner(g, name, MAX_REEXPORT_HOPS)

\* A crate filter names a crate or its root module.
crate_around(g, id) ==
  CASE id \in NoName -> NoId
    [] Has(g, id) /\ node_by_id(g, id).kind = "Crate" -> id
    [] Has(g, id) /\ node_by_id(g, id).kind = "Module" ->
         IF CrateOf(g, id) # NoId THEN CrateOf(g, id)
         ELSE node_by_id(g, id).parent
    [] OTHER -> NoId

resolve_crate_filter(g, name) == crate_around(g, lookup_by_qualified_name(g, name))

-----------------------------------------------------------------------------
(* Imports and exports. *)

imports_of(g, m) == {b \in bindings_for_from_module(g, m) : b.kind # "Declared"}
who_imports(g, t) == {b \in bindings_for_target(g, t) : b.kind # "Declared"}

is_visible_from(vis, crate, ancestry) ==
  CASE vis[1] = "Public"       -> TRUE
    [] vis[1] = "Private"      -> FALSE
    [] vis[1] = "Crate"        -> crate = vis[2]
    [] vis[1] = "RestrictedTo" -> vis[2] \in ancestry

exports_of(g, m, consumer) ==
  {b \in bindings_for_from_module(g, m) :
     is_visible_from(b.vis, CrateOf(g, consumer), module_ancestors(g, consumer))}

reexports_of(g, m, consumer) ==
  {b \in exports_of(g, m, consumer) : b.kind # "Declared"}

declared_reexports_of(g, m) == {b \in imports_of(g, m) : b.explicit}

\* The other modules, crates and external symbols a module depends on, with
\* the imports and the references that reach each.
module_dependencies(g, m) ==
  LET of(t)    == dependency_node_for(g, t)
      imports  == imports_of(g, m)
      usages   == usages_for_consumer(g, m)
      targets  == {x.target : x \in imports} \cup {x.target : x \in usages}
      deps     == {of(t) : t \in targets} \ {NoId, m}
      through(d, xs) == {x \in xs : of(x.target) = d}
      symbol(t) ==
        [target |-> t,
         imports |-> Cardinality({b \in imports : b.target = t}),
         usages  |-> Cardinality({u \in usages : u.target = t}),
         kinds   |-> {b.kind : b \in {x \in imports : x.target = t}}]
  IN  {[module  |-> d, crate |-> Label(g, CrateOf(g, d)),
        imports |-> Cardinality(through(d, imports)),
        usages  |-> Cardinality(through(d, usages)),
        symbols |-> {symbol(t) : t \in {x \in targets : of(x) = d}}] : d \in deps}

\* The links of a chain of re-exports: the explicit public imports of the
\* target, those of the modules they are in, and so on, from a stack.
re_export_chain(g, target) ==
  LET RECURSIVE walk(_, _, _)
      walk(stack, visited, links) ==
        IF stack = <<>> THEN links
        ELSE LET top   == Last(stack)
                 fresh == {b \in bindings_for_target(g, top[1]) :
                             b.explicit /\ <<b.from, b.name>> \notin visited}
                 once  == {b \in fresh : b = CHOOSE x \in fresh :
                             <<x.from, x.name>> = <<b.from, b.name>>}
             IN  IF top[2] > MAX_REEXPORT_HOPS
                 THEN walk(Front(stack), visited, links)
                 ELSE walk(Front(stack) \o
                             (IF top[2] < MAX_REEXPORT_HOPS
                              THEN InOrder({<<b.from, top[2] + 1>> : b \in once})
                              ELSE <<>>),
                           visited \cup {<<b.from, b.name>> : b \in once},
                           links \cup {[module |-> b.from, name |-> b.name,
                                        depth |-> top[2]] : b \in once})
  IN  walk(<<<<target, 1>>>>, {}, {})

-----------------------------------------------------------------------------
(* Usages and calls. *)

IsCall(u) == u.rel \in {"Call", "TraitDispatch"}

unresolved_calls_from(g, owner) ==
  {k \in g.unresolved : owner = IF k.item = NoId THEN k.mod ELSE k.item}

\* The references to a target, counted per module and category.
who_uses_summary(g, t) ==
  LET of(m) == {u \in usages_for_target(g, t) : u.mod = m}
  IN  {[mod |-> m, consumer |-> Qual(g, m), crate |-> Qual(g, CrateOf(g, m)),
        total |-> Cardinality(of(m)),
        breakdown |-> [c \in {u.cat : u \in of(m)} |->
                         Cardinality({u \in of(m) : u.cat = c})]] :
         m \in {u.mod : u \in usages_for_target(g, t)}}

CallSite(g, u) == [caller |-> Qual(g, u.fn), callee |-> Qual(g, u.target), use |-> u]

who_calls(g, t) ==
  {CallSite(g, u) : u \in {x \in usages_for_target(g, t) :
                             IsCall(x) /\ x.fn # NoId}}
calls_from(g, f) ==
  {CallSite(g, u) : u \in {x \in usages_for_consumer_function(g, f) : IsCall(x)}}

callers_in_crate(g, t, c) ==
  {CallSite(g, u) : u \in {x \in usages_for_target(g, t) :
                             IsCall(x) /\ x.fn # NoId /\ CrateOf(g, x.fn) = c}}

Callees(g, f) == {u.target : u \in {x \in usages_for_consumer_function(g, f) :
                                      IsCall(x)}}
Callers(g, f) == {u.fn : u \in {x \in usages_for_target(g, f) : IsCall(x)}} \ {NoId}

\* The tree of calls below a function.  One set of visited functions is
\* shared by the whole walk, so that each is expanded at most once.
call_graph(g, root, depth) ==
  LET RECURSIVE rec(_, _, _)
      rec(f, d, visited) ==
        LET leaf == [fn |-> f, callees |-> <<>>, at_cycle |-> FALSE, at_depth |-> FALSE]
            below(acc, c) ==
              LET sub == rec(c, d - 1, acc.visited)
              IN  [tree    |-> [acc.tree EXCEPT !.callees = Append(@, sub.tree)],
                   visited |-> sub.visited]
        IN  CASE f \in visited ->
                   [tree |-> [leaf EXCEPT !.at_cycle = TRUE], visited |-> visited]
              [] f \notin visited /\ d = 0 ->
                   [tree |-> [leaf EXCEPT !.at_depth = Callees(g, f) # {}],
                    visited |-> visited \cup {f}]
              [] OTHER ->
                   FoldLeft(below, [tree |-> leaf, visited |-> visited \cup {f}],
                            InOrder(Callees(g, f)))
  IN  rec(root, depth, {}).tree

\* Mutant: the target is taken for a caller of itself from the start.
recursive_callers_count_SeenTarget(g, t, depth) ==
  LET bfs[hop \in 1 .. depth] ==
        IF hop = 1 THEN [visited |-> Callers(g, t) \cup {t}, frontier |-> Callers(g, t)]
        ELSE LET b    == bfs[hop - 1]
                 next == UNION {Callers(g, f) : f \in b.frontier} \ b.visited
             IN  [visited |-> b.visited \cup next, frontier |-> next]
  IN  [direct |-> IF depth = 0 THEN 0 ELSE Cardinality(Callers(g, t)),
       transitive |-> IF depth = 0 THEN 0 ELSE Cardinality(bfs[depth].visited),
       reached |-> 0, truncated |-> FALSE]

\* The functions from which a target is reached in at most `depth` calls.
recursive_callers_count(g, t, depth) ==
  LET bfs[hop \in 1 .. depth] ==
        IF hop = 1
        THEN [visited |-> Callers(g, t), frontier |-> Callers(g, t),
              reached |-> IF Callers(g, t) = {} THEN 0 ELSE 1]
        ELSE LET b    == bfs[hop - 1]
                 next == UNION {Callers(g, f) : f \in b.frontier} \ b.visited
             IN  [visited |-> b.visited \cup next, frontier |-> next,
                  reached |-> IF next = {} THEN b.reached ELSE hop]
      end == bfs[depth]
  IN  IF depth = 0
      THEN [direct |-> 0, transitive |-> 0, reached |-> 0, truncated |-> FALSE]
      ELSE [direct     |-> Cardinality(bfs[1].visited),
            transitive |-> Cardinality(end.visited),
            reached    |-> end.reached,
            truncated  |-> \E f \in end.frontier : ~ (Callers(g, f) \subseteq end.visited)]

clamp_cycle_length(requested) == Max({1, Min({requested, 12})})

\* Simple paths from `start` that close on it, by depth-first search.
find_cycles_from(g, start, longest) ==
  LET RECURSIVE dfs(_)
      dfs(path) ==
        LET out == Callees(g, Last(path)) IN
        (IF start \in out THEN {path} ELSE {})
        \cup (IF Len(path) >= longest THEN {}
              ELSE UNION {dfs(Append(path, n)) : n \in out \ ToSet(path)})
  IN  dfs(<<start>>)

Rotate(s, k) == SubSeq(s, k, Len(s)) \o SubSeq(s, 1, k - 1)

\* The rotation that starts at the least id; any fixed choice would do.
canonicalize_cycle(cycle) ==
  LET first == CHOOSE id \in ToSet(cycle) : TRUE
  IN  Rotate(cycle, CHOOSE k \in DOMAIN cycle : cycle[k] = first)

Signed(g) == {x[1] : x \in g.signatures}

\* Cycles through functions with a signature, each once; with a filter,
\* those with a member in the crate.
recursion_check(g, crate, longest) ==
  LET scope  == {f \in Signed(g) : Has(g, f)}
      cycles == {canonicalize_cycle(c) :
                   c \in UNION {find_cycles_from(g, f, longest) : f \in scope}}
  IN  {c \in cycles : crate = NoId \/
                      \E f \in ToSet(c) : f \in scope /\ CrateOf(g, f) = crate}

-----------------------------------------------------------------------------
(* Crates. *)

\* Every pair of crates with an import or a reference from one to the other.
crate_edges(g) ==
  LET crate(id)  == CrateOf(g, id)
      Crosses(from, t) == /\ crate(from) # NoId /\ crate(t) # NoId
                          /\ crate(from) # crate(t)
      imports == {b \in g.bindings : b.kind # "Declared" /\ Crosses(b.from, b.target)}
      usages  == {u \in g.usages : Crosses(u.mod, u.target)}
      pairs   == {<<crate(b.from), crate(b.target)>> : b \in imports}
                   \cup {<<crate(u.mod), crate(u.target)>> : u \in usages}
      edge(c, p) ==
        LET bs == {b \in imports : crate(b.from) = c /\ crate(b.target) = p}
            us == {u \in usages : crate(u.mod) = c /\ crate(u.target) = p}
        IN  [consumer |-> Label(g, c), producer |-> Label(g, p),
             symbols |-> {[target |-> t,
                           imports |-> Cardinality({b \in bs : b.target = t}),
                           usages |-> Cardinality({u \in us : u.target = t})] :
                            t \in {b.target : b \in bs} \cup {u.target : u \in us}},
             imports |-> Cardinality(bs), usages |-> Cardinality(us)]
  IN  {edge(x[1], x[2]) : x \in pairs}

\* Crates are found in the edges by their labels.  The ratios are kept as
\* their numerator and denominator.  The public type aliases that crates.rs:49
\* counts with the traits are never found: the node of an item is stored without
\* a visibility (bindings.rs:290, impls.rs:246).
crate_dependency_metric(g) ==
  LET edges == crate_edges(g)
      items(c) == {n \in g.nodes : n.kind = "Item" /\ n.crate = c}
      out(c) == {e.producer : e \in {x \in edges : x.consumer = Label(g, c)}}
      into(c) == {e.consumer : e \in {x \in edges : x.producer = Label(g, c)}}
  IN  {[crate |-> c, efferent |-> Cardinality(out(c)),
        afferent |-> Cardinality(into(c)),
        abstract |-> Cardinality({n \in items(c) : n.item = "Trait"}),
        items |-> Cardinality(items(c))] : c \in CrateIds(g)}

\* Patterns are the parts between their stars, texts the tokens of a label.
HasPrefix(part, text, at) ==
  /\ at + Len(part) <= Len(text) + 1
  /\ SubSeq(text, at, at + Len(part) - 1) = part

\* The first part is a prefix, the last a suffix, and those between are
\* looked for from left to right.
glob_match(parts, text) ==
  LET last == Len(parts)
      step(at, k) ==
        CASE at = 0 \/ parts[k] = <<>> -> at
          [] at > 0 /\ parts[k] # <<>> /\ k = 1 ->
               IF HasPrefix(parts[1], text, 1) THEN 1 + Len(parts[1]) ELSE 0
          [] at > 0 /\ parts[k] # <<>> /\ k > 1 /\ k = last ->
               IF at <= Len(text) - Len(parts[k]) + 1
                  /\ HasPrefix(parts[k], text, Len(text) - Len(parts[k]) + 1)
               THEN Len(text) + 1 ELSE 0
          [] OTHER ->
               LET hits == {i \in at .. Len(text) : HasPrefix(parts[k], text, i)}
               IN  IF hits = {} THEN 0 ELSE Min(hits) + Len(parts[k])
  IN  IF last = 1 THEN parts[1] = text
      ELSE FoldLeft(step, 1, [k \in 1 .. last |-> k]) # 0

rule_allows_consumer_kind(rule, kind) ==
  IF rule.kinds = {} THEN kind \in {"lib", "bin"}
  ELSE "*" \in rule.kinds \/ kind \in rule.kinds

crate_target_kind_by_name(g, label) ==
  LET cs == {c \in CrateIds(g) : Label(g, c) = label}
  IN  IF cs = {} THEN "lib" ELSE crate_target_kind(CHOOSE c \in cs : TRUE)

forbidden_dependency_check(g, rules) ==
  {<<r, e>> \in rules \X crate_edges(g) :
     /\ rule_allows_consumer_kind(r, crate_target_kind_by_name(g, e.consumer))
     /\ glob_match(r.consumer, e.consumer)
     /\ glob_match(r.producer, e.producer)
     /\ r.except # None => ~ glob_match(r.except, e.consumer)}

-----------------------------------------------------------------------------
(* Functions, types, modules. *)

\* A filter gives for each field what is wanted of it, or nothing.
filter_matches(filter, sig) ==
  /\ filter.is_async # None => sig.is_async = filter.is_async[1]
  /\ filter.min_params # None => Len(sig.params) >= filter.min_params[1]
  /\ filter.has_param # None => filter.has_param[1] \in ToSet(sig.params)
  /\ filter.returns # None => sig.returns = filter.returns[1]
  /\ filter.self # None => sig.self = filter.self[1]

functions_with_filter(g, c, filter) ==
  {x[1] : x \in {y \in g.signatures : Has(g, y[1]) /\ CrateOf(g, y[1]) = c
                                      /\ filter_matches(filter, y[2])}}

Items(g, c) == {n \in g.nodes : n.kind = "Item" /\ n.crate = c}
InTests(n)  == \E i \in 2 .. Len(n.qual) - 1 : n.qual[i] = "tests"

crate_types(g, c, kinds, pubOnly, skipTests) ==
  LET vis == declared_visibility_map(g, {n.id : n \in Items(g, c)}) IN
  {n.id : n \in {x \in Items(g, c) :
     /\ x.item \in kinds
     /\ ~ (skipTests /\ InTests(x))
     /\ pubOnly => x.id \in DOMAIN vis /\ vis[x.id] = <<"pub">>}}

\* The tree below a node, by containment, to a depth; with each node the
\* visibility it was declared with.
module_tree(g, c, depth) ==
  LET vis == declared_visibility_map(g, {n.id : n \in {x \in g.nodes :
               x.kind \in {"Item", "Module"} /\ x.crate = c}})
      RECURSIVE build(_, _)
      build(id, d) ==
        [node |-> id,
         vis  |-> IF id \in DOMAIN vis THEN vis[id] ELSE None,
         children |-> IF d >= depth THEN {}
                      ELSE {build(x, d + 1) : x \in Children(g, id)}]
  IN  build(c, 0)

\* Declarations counted by visibility: one restricted to its own module is
\* private to it.
count_declared_visibility(b) ==
  CASE b.vis[1] = "Public" -> "pub"
    [] b.vis[1] = "Crate"  -> "pub_crate"
    [] b.vis[1] = "Private" \/ b.vis = <<"RestrictedTo", b.from>> -> "module_private"
    [] OTHER -> "restricted_to"

workspace_stats(g) ==
  LET decl == {b \in g.bindings : b.kind = "Declared"}
      tally(xs, key(_)) == [k \in {key(x) : x \in xs} |->
                              Cardinality({x \in xs : key(x) = k})]
  IN  [nodes      |-> tally(g.nodes, LAMBDA n : n.kind),
       items      |-> tally({n \in g.nodes : n.kind = "Item"}, LAMBDA n : n.item),
       bindings   |-> tally(g.bindings, LAMBDA b : b.kind),
       visibility |-> tally(decl, count_declared_visibility)]

-----------------------------------------------------------------------------
(* Surface. *)

enum_variants(g, e) ==
  {x \in Children(g, e) : Has(g, x) /\ node_by_id(g, x).item = "EnumVariant"}

\* An attribute matches by its path, a doc comment by how it starts.
items_with_attribute(g, c, pattern) ==
  IF pattern = "" THEN {} ELSE {n.id : n \in {x \in Items(g, c) : pattern \in x.attrs}}

\* Type aliases beside a public import of the same name.
pub_use_pub_type_audit(g, c) ==
  UNION {{<<n.id, b.target>> :
            b \in {x \in bindings_for_from_module(g, n.parent) :
                     x.explicit /\ x.name = display_name(n) /\ x.target # n.id}} :
           n \in {x \in Items(g, c) : x.item = "TypeAlias" /\ x.parent # NoId}}

\* Public items that no other crate imports or refers to.
dead_pub_in_crate(g, c) ==
  LET declared(id) == {b \in bindings_for_target(g, id) : b.kind = "Declared"}
  IN  {n.id : n \in {x \in Items(g, c) :
         /\ declared(x.id) # {}
         /\ (CHOOSE b \in declared(x.id) : TRUE).vis = <<"Public">>
         /\ \A b \in who_imports(g, x.id) : Has(g, b.from) => CrateOf(g, b.from) = c
         /\ \A u \in usages_for_target(g, x.id) :
               Has(g, u.mod) => CrateOf(g, u.mod) = c}}

dead_pub_report(g) == [c \in CrateIds(g) |-> dead_pub_in_crate(g, c)]

\* What a binding or a usage is shown as; a node it names that is not in the
\* snapshot fails the whole answer.
Dangling == [error |-> "dangling"]
visibility_label(g, vis) == IF vis[1] \in {"Crate", "RestrictedTo"}
                            THEN <<vis[1]>> \o Qual(g, vis[2]) ELSE vis

enrich_bindings(g, bindings) ==
  LET needs(b) == {b.target, b.from} \cup
                  (IF Len(b.vis) > 1 THEN {b.vis[2]} ELSE {})
  IN  IF \E b \in bindings : \E id \in needs(b) : ~Has(g, id) THEN Dangling
      ELSE [rows |-> {[name |-> b.name, ns |-> b.ns, kind |-> b.kind,
                       vis |-> visibility_label(g, b.vis), from |-> Qual(g, b.from),
                       target |-> Qual(g, b.target)] : b \in bindings}]

enrich_usages(g, usages) ==
  LET needs(u) == {u.mod, u.fn, u.item} \ {NoId}
  IN  IF \E u \in usages : \E id \in needs(u) : ~Has(g, id) THEN Dangling
      ELSE [rows |-> {[mod |-> Qual(g, u.mod), fn |-> Qual(g, u.fn),
                       item |-> Qual(g, u.item), cat |-> u.cat, rel |-> u.rel,
                       at |-> u.at] : u \in usages}]

\* Findings are shown like bindings.
enrich_crate_dead_pub(g, c) ==
  enrich_bindings(g, {CHOOSE b \in bindings_for_target(g, id) : b.kind = "Declared" :
                        id \in dead_pub_in_crate(g, c)})

-----------------------------------------------------------------------------
(* Names in several places, and statics. *)

overlaps_with_scope(g, scope) ==
  LET allowed == {c \in CrateIds(g) : crate_scope_allows(g, scope, c)}
      name(c) == display_name(node_by_id(g, c))
      here    == {n \in g.nodes : n.crate \in allowed}
      types   == {n \in here : n.kind = "Item" /\ n.item \in
                                 {"Struct", "Enum", "Trait", "TypeAlias"}}
      fns     == {n \in here : n.kind = "Item" /\ n.item = "Function"}
      called(xs, s) == {n \in xs : display_name(n) = s}
      names(xs)     == {display_name(n) : n \in xs}
  IN  [collisions |-> {s \in names(types) :
                         Cardinality({n.crate : n \in called(types, s)}) > 1},
       duplicates |-> {<<c, s>> \in allowed \X names(types) :
                         Cardinality({n \in called(types, s) : n.crate = c}) > 1},
       shadows    |-> {n.id : n \in {x \in here :
                         /\ x.kind = "Module"
                         /\ display_name(x) # name(x.crate)
                         /\ \E c \in allowed : name(c) = display_name(x)}},
       common     |-> {s \in names(fns) :
                         Cardinality({name(n.crate) : n \in called(fns, s)}) >= 4}]

\* A static's metadata names the shared-state wrappers in its type.
classify_metadata(meta) == meta \cap {"static mut", "LazyLock", "OnceLock", "OnceCell"}

mut_static_audit(g) ==
  UNION {{<<x[1], label>> : label \in classify_metadata(x[2])} :
           x \in {y \in g.statics : /\ Has(g, y[1])
                                    /\ node_by_id(g, y[1]).kind = "Item"
                                    /\ node_by_id(g, y[1]).item = "Static"}}

=============================================================================
