----------------------------- MODULE GraphTools -----------------------------
(***************************************************************************)
(* The graph tools a client calls (rmc-server, tools/graph): each opens    *)
(* the current snapshot, resolves the names it was given, asks one query   *)
(* of GraphQueries and returns its rows.  Besides the tools that answer in *)
(* one call, a client exports a table over several: page by page, under    *)
(* the id of one snapshot.  Between any two calls a build may put another  *)
(* snapshot in the place of the current one.                               *)
(***************************************************************************)
EXTENDS GraphQueries

CONSTANTS Graphs,       \* the snapshots a tool may find current, by their ids
          Replacements, \* <<i, j>>: a build may replace snapshot i by j
          Depths,       \* the depths and cycle lengths callers pass
          Rules,        \* the dependency rules callers pass
          Filters,      \* the function filters callers pass
          TreeBudget,   \* MODULE_TREE_DEFAULT_NODE_BUDGET
          PageLimit     \* the rows of a page of an export

VARIABLES current,      \* the id of the current snapshot
          answer,       \* the last call and what was returned
          export        \* the export in progress

toolVars == <<current, answer, export>>

graph == Graphs[current]

Refused(why) == [refused |-> why]

-----------------------------------------------------------------------------
(* Resolving what a caller names, and the error when it is nothing. *)

WithNode(id, res) == IF id \in NoName THEN Refused(id) ELSE res

\* A crate's name where a module is expected means its root module.
module_meant(g, id) ==
  CASE id \in NoName -> id
    [] id \notin NoName /\ node_by_id(g, id).kind = "Module" -> id
    [] id \notin NoName /\ node_by_id(g, id).kind = "Crate" -> find_root_module_of(g, id)
    [] OTHER -> NoId

resolve_required_node(g, name) == module_meant(g, lookup_by_qualified_name(g, name))

WithModule(id, res) == IF id \in NoName THEN Refused("not a module") ELSE res

resolve_crate_or_root_module(g, name) == resolve_crate_filter(g, name)

WithCrate(id, res) == IF id = NoId THEN Refused("not a crate") ELSE res

MAX_DEPTH == 8
Clamped(depth) == Min({depth, MAX_DEPTH})

-----------------------------------------------------------------------------
(* The tools.  A call is a record with the fields its tool reads. *)

get_imports(g, p) ==
  LET m == resolve_required_node(g, p.name) IN
  WithModule(m, enrich_bindings(g, imports_of(g, m)))

tool_module_dependencies(g, p) ==
  LET m == resolve_required_node(g, p.name) IN
  WithModule(m, [rows |-> module_dependencies(g, m)])

get_exports(g, p) ==
  LET m == resolve_required_node(g, p.name)
      c == resolve_required_node(g, p.consumer)
  IN  WithModule(m, WithModule(c, enrich_bindings(g, exports_of(g, m, c))))

get_reexports(g, p) ==
  LET m == resolve_required_node(g, p.name)
      c == resolve_required_node(g, p.consumer)
  IN  WithModule(m, WithModule(c, enrich_bindings(g, reexports_of(g, m, c))))

get_declared_reexports(g, p) ==
  LET m == resolve_required_node(g, p.name) IN
  WithModule(m, enrich_bindings(g, declared_reexports_of(g, m)))

tool_who_imports(g, p) ==
  LET t == lookup_by_qualified_name(g, p.name) IN
  WithNode(t, enrich_bindings(g, who_imports(g, t)))

who_uses(g, p) ==
  LET t == lookup_by_qualified_name(g, p.name) IN
  WithNode(t, enrich_usages(g, usages_for_target(g, t)))

tool_who_uses_summary(g, p) ==
  LET t == lookup_by_qualified_name(g, p.name) IN
  WithNode(t, [rows |-> who_uses_summary(g, t)])

tool_who_calls(g, p) ==
  LET t == lookup_by_qualified_name(g, p.name) IN
  WithNode(t, [rows |-> who_calls(g, t)])

\* Calls with no target are listed beside the page, all of them.
tool_calls_from(g, p) ==
  LET f == lookup_by_qualified_name(g, p.name) IN
  WithNode(f, [rows |-> calls_from(g, f),
               unresolved |-> unresolved_calls_from(g, f)])

tool_call_graph(g, p) ==
  LET f == lookup_by_qualified_name(g, p.name) IN
  WithNode(f, [tree |-> call_graph(g, f, Clamped(p.depth))])

\* A crate name that means nothing gives no callers, and no error.
tool_callers_in_crate(g, p) ==
  LET t == lookup_by_qualified_name(g, p.name) IN
  WithNode(t,
    LET c == lookup_by_qualified_name(g, p.consumer) IN
    [rows |-> IF c = NoId THEN {} ELSE callers_in_crate(g, t, CrateOf(g, c))])

tool_recursive_callers_count(g, p) ==
  LET t == lookup_by_qualified_name(g, p.name) IN
  WithNode(t, recursive_callers_count(g, t, Clamped(p.depth)))

RECURSIVE count_tree_nodes_to(_, _)
count_tree_nodes_to(t, depth) ==
  1 + (IF depth = 0 THEN 0
       ELSE FoldSet(LAMBDA x, acc : acc + count_tree_nodes_to(x, depth - 1),
                    0, t.children))

\* Deeper than any tree of a snapshot.
Unlimited == 20

\* Without a depth, the deepest levels that fit the budget.
tool_module_tree(g, p) ==
  LET c     == lookup_by_qualified_name(g, p.name)
      whole == module_tree(g, CrateOf(g, c), Unlimited)
      fits  == {d \in 0 .. Unlimited :
                  \A e \in 1 .. d : count_tree_nodes_to(whole, e) <= TreeBudget}
  IN  CASE c \in NoName -> Refused(c)
        [] c \notin NoName /\ node_by_id(g, c).kind \notin {"Crate", "Module"} ->
             Refused("not a crate")
        [] OTHER -> [tree  |-> IF count_tree_nodes_to(whole, Unlimited) <= TreeBudget
                               THEN whole ELSE module_tree(g, CrateOf(g, c), Max(fits)),
                     total |-> count_tree_nodes_to(whole, Unlimited)]

tool_dead_pub_in_crate(g, p) ==
  LET c == resolve_crate_or_root_module(g, p.name) IN
  WithCrate(c, enrich_crate_dead_pub(g, c))

\* The report is flattened to be paged, and grouped again by the crate's
\* name, so that targets of one name become one entry.
tool_dead_pub_report(g) ==
  LET report == dead_pub_report(g)
      name(c) == Qual(g, c)
  IN  {[crate |-> n, findings |-> UNION {report[c] : c \in {x \in DOMAIN report : name(x) = n}}] :
         n \in {name(c) : c \in {x \in DOMAIN report : report[x] # {}}}}

tool_enum_variants(g, p) ==
  LET e == lookup_by_qualified_name(g, p.name) IN
  WithNode(e,
    IF node_by_id(g, e).item # "Enum" THEN Refused("not an enum")
    ELSE [rows |-> enum_variants(g, e)])

item_attributes(g, p) ==
  LET t == lookup_by_qualified_name(g, p.name) IN
  WithNode(t, [rows |-> node_by_id(g, t).attrs])

tool_items_with_attribute(g, p) ==
  LET c == resolve_crate_or_root_module(g, p.name) IN
  WithCrate(c, [rows |-> items_with_attribute(g, c, "doc")])

function_signature(g, p) ==
  LET t == lookup_by_qualified_name(g, p.name) IN
  WithNode(t, [rows |-> {x \in g.signatures : x[1] = t}])

tool_functions_with_filter(g, p) ==
  LET c == resolve_crate_or_root_module(g, p.name) IN
  WithCrate(c,
    [rows |-> UNION {functions_with_filter(g, c, f) : f \in Filters}])

parse_crate_type_kind_filter(assoc) ==
  {"Struct", "Enum", "Union", "Trait", "TypeAlias"}
  \cup (IF assoc THEN {"AssocType"} ELSE {})

tool_crate_types(g, p) ==
  LET c == resolve_crate_or_root_module(g, p.name) IN
  WithCrate(c,
    [rows |-> crate_types(g, c, parse_crate_type_kind_filter(FALSE), FALSE, TRUE)])

tool_pub_use_pub_type_audit(g, p) ==
  LET c == resolve_crate_or_root_module(g, p.name) IN
  WithCrate(c, [rows |-> pub_use_pub_type_audit(g, c)])

tool_re_export_chain(g, p) ==
  LET t == lookup_by_qualified_name(g, p.name) IN
  WithNode(t, [rows |-> re_export_chain(g, t)])

\* Without a crate the whole workspace is searched for cycles.
tool_recursion_check(g, p) ==
  IF p.name = None
  THEN [rows |-> recursion_check(g, NoId, clamp_cycle_length(p.depth))]
  ELSE LET c == resolve_crate_or_root_module(g, p.name) IN
  WithCrate(c,
         [rows |-> recursion_check(g, c, clamp_cycle_length(p.depth))])

-----------------------------------------------------------------------------
(* The router: one tool for each question. *)

ModuleTools == {"get_imports", "module_dependencies", "get_declared_reexports"}
PairTools   == {"get_exports", "get_reexports", "callers_in_crate"}
DepthTools  == {"call_graph", "recursive_callers_count", "recursion_check"}
NodeTools   == {"who_imports", "who_uses", "who_uses_summary", "who_calls",
                "calls_from", "enum_variants", "item_attributes",
                "function_signature", "re_export_chain"}
CrateTools  == {"module_tree", "dead_pub_in_crate", "items_with_attribute",
                "functions_with_filter", "crate_types", "pub_use_pub_type_audit"}
WholeTools  == {"workspace_stats", "crate_edges", "crate_dependency_metric",
                "forbidden_dependency_check", "dead_pub_report", "overlaps",
                "mut_static_audit"}

RouterModule(g, p) ==
  CASE p.tool = "get_imports"            -> get_imports(g, p)
    [] p.tool = "module_dependencies"    -> tool_module_dependencies(g, p)
    [] p.tool = "get_exports"            -> get_exports(g, p)
    [] p.tool = "get_reexports"          -> get_reexports(g, p)
    [] p.tool = "get_declared_reexports" -> get_declared_reexports(g, p)
    [] p.tool = "callers_in_crate"       -> tool_callers_in_crate(g, p)

RouterNode(g, p) ==
  CASE p.tool = "who_imports"        -> tool_who_imports(g, p)
    [] p.tool = "who_uses"           -> who_uses(g, p)
    [] p.tool = "who_uses_summary"   -> tool_who_uses_summary(g, p)
    [] p.tool = "who_calls"          -> tool_who_calls(g, p)
    [] p.tool = "calls_from"         -> tool_calls_from(g, p)
    [] p.tool = "call_graph"         -> tool_call_graph(g, p)
    [] p.tool = "recursive_callers_count" -> tool_recursive_callers_count(g, p)
    [] p.tool = "enum_variants"      -> tool_enum_variants(g, p)
    [] p.tool = "item_attributes"    -> item_attributes(g, p)
    [] p.tool = "function_signature" -> function_signature(g, p)
    [] p.tool = "re_export_chain"    -> tool_re_export_chain(g, p)

RouterCrate(g, p) ==
  CASE p.tool = "module_tree"            -> tool_module_tree(g, p)
    [] p.tool = "dead_pub_in_crate"      -> tool_dead_pub_in_crate(g, p)
    [] p.tool = "items_with_attribute"   -> tool_items_with_attribute(g, p)
    [] p.tool = "functions_with_filter"  -> tool_functions_with_filter(g, p)
    [] p.tool = "crate_types"            -> tool_crate_types(g, p)
    [] p.tool = "pub_use_pub_type_audit" -> tool_pub_use_pub_type_audit(g, p)
    [] p.tool = "recursion_check"        -> tool_recursion_check(g, p)

RouterWhole(g, tool) ==
  CASE tool = "workspace_stats"            -> workspace_stats(g)
    [] tool = "crate_edges"                -> [rows |-> crate_edges(g)]
    [] tool = "crate_dependency_metric"    -> [rows |-> crate_dependency_metric(g)]
    [] tool = "forbidden_dependency_check" -> [rows |-> forbidden_dependency_check(g, Rules)]
    [] tool = "dead_pub_report"            -> [rows |-> tool_dead_pub_report(g)]
    [] tool = "overlaps" -> [s \in {"All", "Local", "LocalNoVendor"} |->
                               overlaps_with_scope(g, s)]
    [] tool = "mut_static_audit"           -> [rows |-> mut_static_audit(g)]

-----------------------------------------------------------------------------
(* Calls. *)

Modules(g)   == {n.id : n \in {x \in g.nodes : x.kind = "Module"}}
Functions(g) == {f \in Signed(g) : Has(g, f)}

\* The names callers type: of nodes, with and without the target, and of
\* what modules import.
Names(g) ==
  {Plain(n.qual) : n \in g.nodes}
  \cup {[path |-> n.qual, kind |-> crate_target_kind(n.crate),
         root |-> TargetRoot(n.crate)] : n \in {x \in g.nodes : x.crate # NoId}}
  \cup {Plain(Append(Qual(g, b.from), b.name)) :
          b \in {x \in g.bindings : x.kind # "Declared"}}

ModuleNames(g) == {x \in Names(g) : x.kind # "any" /\
                     resolve_required_node(g, x) \notin NoName}

Return(call, res) == answer' = [call |-> call, res |-> res]

CallOnNames ==
  \E name \in Names(graph) :
    \/ \E t \in ModuleTools : LET p == [tool |-> t, name |-> name] IN
         Return(p, RouterModule(graph, p))
    \/ \E t \in NodeTools : LET p == [tool |-> t, name |-> name] IN
         Return(p, RouterNode(graph, p))
    \/ \E t \in CrateTools : LET p == [tool |-> t, name |-> name] IN
         Return(p, RouterCrate(graph, p))

CallOnPairs ==
  \E t \in PairTools, name, consumer \in ModuleNames(graph) :
    LET p == [tool |-> t, name |-> name, consumer |-> consumer] IN
    Return(p, RouterModule(graph, p))

CallWithDepth ==
  \E name \in {x \in Names(graph) : x.kind = "any"}, d \in Depths :
    \/ \E t \in DepthTools \ {"recursion_check"} :
         LET p == [tool |-> t, name |-> name, depth |-> d] IN
         Return(p, RouterNode(graph, p))
    \/ LET p == [tool |-> "recursion_check", name |-> name, depth |-> d] IN
         Return(p, RouterCrate(graph, p))

CallOnWorkspace ==
  \/ \E t \in WholeTools : Return([tool |-> t], RouterWhole(graph, t))
  \/ \E d \in Depths :
       LET p == [tool |-> "recursion_check", name |-> None, depth |-> d] IN
       Return(p, RouterCrate(graph, p))

Call == /\ answer = None /\ export = None
        /\ CallOnNames \/ CallOnPairs \/ CallWithDepth \/ CallOnWorkspace
        /\ UNCHANGED <<current, export>>

Done == answer # None /\ answer' = None /\ UNCHANGED <<current, export>>

-----------------------------------------------------------------------------
(* Export: a table in the order of its keys, a page at a time. *)

TABLES == {"nodes", "bindings", "usages", "contains", "unresolved", "signatures", "statics"}

\* A table's rows in the order of their keys.
database(g, table) ==
  InOrder(CASE table = "nodes"      -> g.nodes
             [] table = "bindings"   -> g.bindings
             [] table = "usages"     -> g.usages
             [] table = "contains"   -> g.contains
             [] table = "unresolved" -> g.unresolved
             [] table = "signatures" -> g.signatures
             [] table = "statics"    -> g.statics)

\* The metadata comes first: it has the id every page must be asked with.
export_metadata ==
  /\ answer = None /\ export = None
  /\ \E i \in DOMAIN Graphs : <<current, i>> \in Replacements
  /\ \E table \in TABLES :
       export' = [id |-> current, table |-> table, cursor |-> None,
                  got |-> <<>>, state |-> "open"]
  /\ UNCHANGED <<current, answer>>

\* One page: the rows after the cursor's, and a cursor only if more remain.
\* Of another snapshot than the one the export began with, an error.
export_graph ==
  LET rows   == database(graph, export.table)
      after  == IF export.cursor = None THEN 0
                ELSE CHOOSE i \in DOMAIN rows : rows[i] = export.cursor[1]
      page   == SubSeq(rows, after + 1, Min({after + PageLimit, Len(rows)}))
      more   == after + PageLimit < Len(rows)
  IN  /\ export # None /\ export.state = "open"
      /\ IF current # export.id THEN export' = [export EXCEPT !.state = "restart"]
         ELSE export' = [export EXCEPT !.got    = @ \o page,
                                       !.cursor = IF more THEN <<Last(page)>> ELSE None,
                                       !.state  = IF more THEN "open" ELSE "whole"]
      /\ UNCHANGED <<current, answer>>

ExportEnds == /\ export # None /\ export.state # "open"
              /\ export' = None /\ UNCHANGED <<current, answer>>

\* A build publishes another snapshot.
Rebuild == /\ export # None
           /\ \E i \in DOMAIN Graphs : <<current, i>> \in Replacements /\ current' = i
           /\ UNCHANGED <<answer, export>>

ToolsInit == current \in DOMAIN Graphs /\ answer = None /\ export = None

ToolsNext == \/ Call \/ Done \/ export_metadata \/ export_graph \/ ExportEnds
             \/ Rebuild

ToolsSpec == ToolsInit /\ [][ToolsNext]_toolVars

-----------------------------------------------------------------------------
(* Properties. *)

Called(tool) == answer # None /\ answer.call.tool = tool
Meant == lookup_by_qualified_name(graph, answer.call.name)

\* What calls lead to in at most k steps.
Reach(g, k) ==
  LET fs == Functions(g)
      r[n \in 1 .. k] ==
        IF n = 1 THEN {<<f, t>> \in fs \X fs : t \in Callees(g, f)}
        ELSE r[n - 1] \cup {<<f, t>> \in fs \X fs :
               \E m \in fs : <<f, m>> \in r[n - 1] /\ t \in Callees(g, m)}
  IN  IF k = 0 THEN {} ELSE r[k]

RECURSIVE TreeNodes(_)
TreeNodes(t) == {t} \cup UNION {TreeNodes(x) : x \in ToSet(t.callees)}

\* Counting callers, drawing call trees and finding cycles agree with what
\* the calls themselves say, cycles among them or not: as many functions
\* reach the target within the depth as are counted, and more exist just
\* when the count says it was cut; a tree has no function that the root does
\* not reach, expands none twice, and leaves none out unless it says so; and
\* the cycles reported are the simple cycles up to the length, each once
\* whichever function it was met from.  (calls.rs:113-343,
\* recursion_check.rs:39-210.)
CallAnswersHold ==
  /\ Called("recursive_callers_count") /\ Meant \in Functions(graph) =>
       LET f == Meant
           d == Clamped(answer.call.depth)
           c == answer.res
           near(k) == {x \in Functions(graph) : <<x, f>> \in Reach(graph, k)}
       IN  /\ c.transitive = Cardinality(near(d))
           /\ c.truncated = (d > 0 /\ near(d + 1) # near(d))
           /\ \A k \in 0 .. d : k >= c.reached => near(k) = near(d)
  /\ Called("call_graph") /\ Meant \in Functions(graph) =>
       LET f == Meant
           all  == TreeNodes(answer.res.tree)
           open == {x \in all : ~x.at_cycle /\ ~x.at_depth}
       IN  /\ \A x \in all : x.fn = f \/ <<f, x.fn>> \in Reach(graph, Clamped(answer.call.depth))
           /\ \A x, y \in open : x.fn = y.fn => x = y
           /\ (\A x \in all : ~x.at_depth) =>
                {x.fn : x \in all} \ {f} =
                  {t \in Functions(graph) : <<f, t>> \in Reach(graph, 4)} \ {f}
  /\ Called("recursion_check") /\ answer.call.name = None =>
       LET longest == Min({clamp_cycle_length(answer.call.depth), Cardinality(Functions(graph))})
           simple == {s \in BoundedSeq(Functions(graph), longest) :
                        /\ s # <<>> /\ Cardinality(ToSet(s)) = Len(s)
                        /\ \A i \in DOMAIN s :
                             s[IF i = Len(s) THEN 1 ELSE i + 1] \in Callees(graph, s[i])}
           turns(s) == {Rotate(s, k) : k \in DOMAIN s}
       IN  /\ UNION {turns(s) : s \in answer.res.rows} = simple
           /\ \A s, t \in answer.res.rows : t \in turns(s) => s = t

SumOver(S, f(_)) == FoldSet(LAMBDA x, acc : acc + f(x), 0, S)

\* The answers about crates agree with one another and with the modules': an
\* edge carries as many imports and references as the modules of its
\* consumer have towards its producer, every edge is counted once as an
\* outgoing and once as an incoming one whatever the crates are called, and
\* a public item is reported dead exactly when no edge into its crate
\* carries it.  (crates.rs:25-258, imports.rs:41-104, surface.rs:295-426,
\* shared.rs:107-123: targets of one name are told apart.)
CrateAnswersAgree ==
  Called("crate_edges") =>
    LET g == graph
        edges == answer.res.rows
        metric == crate_dependency_metric(g)
        deps(c) == UNION {module_dependencies(g, m) :
                            m \in {x \in Modules(g) : CrateOf(g, x) = c}}
        sum(c, p, field) ==
          SumOver({m \in Modules(g) : CrateOf(g, m) = c},
                  LAMBDA m : SumOver({d \in module_dependencies(g, m) :
                                        CrateOf(g, d.module) = p},
                                     LAMBDA d : d[field]))
        carried(c) == UNION {{s.target : s \in e.symbols} :
                               e \in {x \in edges : x.consumer # Label(g, c)}}
    IN  /\ \A c, p \in CrateIds(g) : c # p =>
             LET es == {e \in edges : e.consumer = Label(g, c) /\ e.producer = Label(g, p)}
             IN  /\ Cardinality(es) <= 1
                 /\ SumOver(es, LAMBDA e : e.imports) = sum(c, p, "imports")
                 /\ SumOver(es, LAMBDA e : e.usages) = sum(c, p, "usages")
        /\ SumOver(metric, LAMBDA m : m.efferent) = Cardinality(edges)
        /\ SumOver(metric, LAMBDA m : m.afferent) = Cardinality(edges)
        /\ \A c \in CrateIds(g) :
             dead_pub_in_crate(g, c) =
               {n.id : n \in {x \in Items(g, c) :
                  DeclaredVisibility(g, x.id) = <<"Public">> /\ x.id \notin carried(c)}}

RECURSIVE Flatten(_)
Flatten(t) == {t.node} \cup UNION {Flatten(x) : x \in t.children}

\* Names, trees and rows hold together: a name given with its target means
\* the only node of that target that has it, the name of an import means
\* something that is imported there, every item is in exactly one crate's
\* tree, and no row of an answer names a node the snapshot lacks.
\* (navigation.rs:79-221, modules.rs:28-165, enrichment.rs:16-99.)
NamesAndTreesHold ==
  /\ Called("item_attributes") =>
       LET name == answer.call.name
           same == Named(graph, name)
           imported == {b \in graph.bindings :
                          /\ b.kind # "Declared" /\ b.name = Last(name.path)
                          /\ Qual(graph, b.from) = Front(name.path)}
       IN  /\ Cardinality(same) = 1 => Meant \in {n.id : n \in same}
           /\ same = {} /\ Meant \notin NoName
                => \/ Meant \in {b.target : b \in imported}
                   \/ display_name(node_by_id(graph, Meant)) = Last(name.path)
           /\ same = {} /\ imported # {} => Meant # NoId
  /\ Called("module_tree") /\ "tree" \in DOMAIN answer.res =>
       \A id \in Flatten(answer.res.tree) :
         node_by_id(graph, id).kind \in {"Crate", "Module"} =>
           CrateOf(graph, id) = CrateOf(graph, Meant)
  /\ Called("workspace_stats") =>
       \A n \in graph.nodes : n.kind = "Item" =>
         Cardinality({c \in CrateIds(graph) :
                        n.id \in Flatten(module_tree(graph, c, Unlimited))}) = 1
  /\ answer # None => answer.res # Dangling

\* A call tree marks a function as "already expanded elsewhere in the tree"
\* only if it is: some other node of the tree has its callees.  (calls.rs:
\* 109-110, "the same callees would have appeared".)
CycleMeansExpanded ==
  Called("call_graph") /\ Meant \notin NoName =>
    LET all == TreeNodes(answer.res.tree) IN
    \A x \in all : x.at_cycle =>
      \E y \in all : y.fn = x.fn /\ ~y.at_cycle /\ ~y.at_depth

\* An export that says it is whole is: each row of the table of one snapshot,
\* the one its metadata named, once, whatever was built between the pages.
\* (export.rs:78-105, core.rs:27-41; key and value together make the cursor,
\* as "contains" has several rows under one key.)
ExportIsOneGraph ==
  export # None /\ export.state = "whole" =>
    export.got = database(Graphs[export.id], export.table)

=============================================================================
