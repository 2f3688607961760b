-------------------------- MODULE GraphExtraction --------------------------
(***************************************************************************)
(* How a Rust workspace becomes the rows of a graph snapshot: the skeleton *)
(* of crates and modules, the passes over bindings, impls, structure,      *)
(* attributes, signatures and usages, and the tables they are written to,  *)
(* whole or one crate at a time (rmc-graph, graph/extract.rs and what it   *)
(* calls).                                                                 *)
(*                                                                         *)
(* A program is what rust-analyzer resolved: a record of crates, modules,  *)
(* definitions, impls, scope entries, name tokens and calls.  A node id is *)
(* the tuple of the components the code hashes, so that two ids are equal  *)
(* exactly when the hashed components are.                                 *)
(***************************************************************************)
EXTENDS Naturals, Sequences, FiniteSets

CONSTANT Programs      \* the workspaces an edit may lead to

VARIABLES prog,        \* the sources on disk
          built,       \* {} or {the sources the tables were last completed for}
          rows,        \* the rows of every table but the ownership record
          owned,       \* the ownership record: <<crate, table, key, dup>>
          todo,        \* the crate groups the running build has still to write
          bailed       \* a consistency check of the writer failed

vars == <<prog, built, rows, owned, todo, bailed>>

NoId  == <<"none">>
NoDef == [kind |-> "none"]

-----------------------------------------------------------------------------
(* Programs.  A module is [c, path, block]; a definition is                *)
(* [kind, name, at, within, file, nav, attrs, sig] where `within` says     *)
(* what it is declared in: <<"module">>, <<"trait", t>>, <<"impl", i>>,    *)
(* <<"enum", e>>, <<"adt", d>> or <<"block", owner, ordinal>>.             *)

IsAssoc(d) == d.within[1] \in {"trait", "impl"}
IsAdt(d)   == d.kind \in {"Struct", "Enum", "Union"}

\* The module a definition is filed under: block modules count as the module
\* around them.
Nearest(m) == [m EXCEPT !.block = 0]

ModulesOf(p, cs) == {m \in p.modules : m.c \in cs /\ m.block = 0}

ItemKind(d) ==
  CASE IsAssoc(d) /\ d.kind = "Function"  -> "Method"
    [] IsAssoc(d) /\ d.kind = "Const"     -> "AssocConst"
    [] IsAssoc(d) /\ d.kind = "TypeAlias" -> "AssocType"
    [] OTHER                              -> d.kind

-----------------------------------------------------------------------------
(* Identities. *)

\* The display name, the target kind and the root file: a lib and a bin of
\* one package are two targets.
target_key(p, c) == <<p.name[c], p.target[c], p.root[c]>>

crate_node_id(p, c)  == <<"crate", target_key(p, c)>>
module_node_id(p, m) == <<"module", crate_node_id(p, m.c), m.path>>

module_qualified_path(p, m) == <<p.name[m.c]>> \o m.path

local_item_node_id(p, d) ==
  <<"item", module_node_id(p, Nearest(d.at)), ItemKind(d), d.name>>

\* The module, the name and the header of the trait or impl around the item.
assoc_item_node_id(p, d) ==
  <<"assoc", module_node_id(p, Nearest(d.at)), ItemKind(d), d.name,
    IF d.within[1] = "trait" THEN <<"trait", d.within[2].name>>
                             ELSE <<"impl", d.within[2].header>>>>

stub_id(p, d) ==
  <<"external_symbol", module_qualified_path(p, d.at),
    IF d.kind = "Module" THEN "" ELSE d.name>>

\* TargetIds: the id of a definition seen from a use of it, found without
\* any row of the crate that declares it.  NoId for what that crate's passes
\* do not turn into a node.
TargetIds(p, local) ==
  LET id[d \in p.defs] ==
        CASE d.within[1] = "adt" ->
               IF id[d.within[2]] = NoId THEN NoId
               ELSE <<"field", id[d.within[2]], d.name>>
          [] d.within[1] = "enum" ->
               IF id[d.within[2]] = NoId THEN NoId
               ELSE <<"enum_variant", id[d.within[2]], d.name>>
          [] d.within[1] = "block" ->
               IF Nearest(d.at) \notin local \/ ~d.nav
                    \/ id[d.within[2]] = NoId THEN NoId
               ELSE <<"block_item", id[d.within[2]], d.within[3],
                      ItemKind(d), d.name>>
          [] d.within[1] = "trait" ->
               IF d.within[2].at \notin local THEN NoId
               ELSE assoc_item_node_id(p, d)
          [] d.within[1] = "impl" ->
               IF \/ Nearest(d.within[2].at) \notin local
                  \/ ~d.within[2].listed THEN NoId
               ELSE assoc_item_node_id(p, d)
          [] OTHER ->
               IF d.at \notin local THEN NoId ELSE local_item_node_id(p, d)
  IN  id

\* The id of a use's target; NoDef is what rust-analyzer could not resolve.
of_definition(ids, d) == IF d \in DOMAIN ids THEN ids[d] ELSE NoId

-----------------------------------------------------------------------------
(* The skeleton: the workspace, the crates in scope and their modules. *)

WorkspaceNode ==
  [id |-> <<"workspace">>, kind |-> "Workspace", item |-> "none",
   qual |-> <<"workspace">>, crate |-> NoId, parent |-> NoId,
   decl |-> NoId, file |-> "none", attrs |-> {}]

\* The parent of a root module is its crate, of another the module around it.
emit_crate(p, c) ==
  {[WorkspaceNode EXCEPT
      !.id = crate_node_id(p, c), !.kind = "Crate", !.qual = <<p.name[c]>>,
      !.crate = crate_node_id(p, c), !.parent = <<"workspace">>,
      !.file = p.root[c]]}
  \cup
  {[WorkspaceNode EXCEPT
      !.id = module_node_id(p, m), !.kind = "Module",
      !.qual = module_qualified_path(p, m), !.crate = crate_node_id(p, c),
      !.parent = IF m.path = <<>> THEN crate_node_id(p, c)
                 ELSE module_node_id(p, [m EXCEPT !.path =
                                           SubSeq(@, 1, Len(@) - 1)]),
      !.decl = module_node_id(p, m), !.file = p.file[m]] :
     m \in ModulesOf(p, {c})}

emit_skeleton(p, scope) ==
  {WorkspaceNode} \cup UNION {emit_crate(p, c) : c \in scope}

-----------------------------------------------------------------------------
(* The bindings pass: what each module's scope names. *)

\* A binding's target: the module or item when its module is in scope, a
\* stub of the external symbol otherwise.
resolve_or_create_target(p, local, d) ==
  CASE d.at \notin local  -> stub_id(p, d)
    [] d.kind = "Module"  -> module_node_id(p, d.at)
    [] OTHER              -> local_item_node_id(p, d)

\* The node of a declaration; its attributes and file come from later passes.
ItemNode(p, d, id, qual, parent) ==
  [WorkspaceNode EXCEPT
     !.id = id, !.kind = "Item", !.item = ItemKind(d), !.qual = qual,
     !.crate = crate_node_id(p, d.at.c), !.parent = parent,
     !.decl = module_node_id(p, Nearest(d.at))]

create_local_item_node(p, d) ==
  ItemNode(p, d, local_item_node_id(p, d),
           module_qualified_path(p, d.at) \o <<d.name>>,
           module_node_id(p, d.at))

StubNode(p, d) ==
  [WorkspaceNode EXCEPT !.id = stub_id(p, d), !.kind = "ExternalSymbol",
                        !.qual = Append(module_qualified_path(p, d.at), d.name)]

classify_provenance(import) ==
  CASE import = "none"   -> "Declared"
    [] import = "use"    -> "NamedImport"
    [] import = "glob"   -> "GlobImport"
    [] import = "extern" -> "ExternCrateImport"

\* A restriction to a module outside the scope is recorded as private.
encode_visibility(p, local, vis) ==
  CASE vis[1] = "pub"    -> <<"Public">>
    [] vis[1] = "crate"  -> IF \E m \in local : m.c = vis[2]
                            THEN <<"Crate", crate_node_id(p, vis[2])>>
                            ELSE <<"Private">>
    [] vis[1] = "module" -> IF vis[2] \in local
                            THEN <<"RestrictedTo", module_node_id(p, vis[2])>>
                            ELSE <<"Private">>

\* Macros, builtin types and enum variants bind nothing.
Entries(p, crates) ==
  {e \in p.scope : /\ e.mod.c \in crates /\ e.mod.block = 0
                   /\ e.def.kind \notin {"Macro", "Builtin", "EnumVariant"}}

process_entry(p, local, e) ==
  [from |-> module_node_id(p, e.mod), ns |-> e.ns, name |-> e.name,
   target |-> resolve_or_create_target(p, local, e.def),
   kind |-> classify_provenance(e.import),
   vis |-> encode_visibility(p, local, e.vis),
   explicit |-> e.import \in {"use", "glob"} /\ e.explicit]

\* The type namespace is walked before the value namespace, and of two
\* bindings of one name, target and kind the first is kept.
extract_bindings(p, local, crates) ==
  LET all == {process_entry(p, local, e) : e \in Entries(p, crates)}
  IN  {b \in all : b.ns = "Type" \/
         ~ \E a \in all : /\ a.ns = "Type" /\ a.from = b.from
                          /\ a.name = b.name /\ a.target = b.target
                          /\ a.kind = b.kind}

\* def_to_node after the pass: the scope's modules, and what was bound.
BoundDefs(p, local, crates) ==
  {e.def : e \in Entries(p, crates)}

-----------------------------------------------------------------------------
(* Impls, traits, enums and what is nested in declarations. *)

\* Associated items of an impl hang under the type they are for, when the
\* bindings pass met that type, and under the impl's module otherwise.
impl_parent(p, local, bound, i) ==
  IF i.self \in bound THEN resolve_or_create_target(p, local, i.self)
                      ELSE module_node_id(p, Nearest(i.at))

\* What the impls pass emits for the crates it walks.  A declaration that
\* cannot be placed in a file of the workspace is left out.
extract_impl_items(p, bound, crates) ==
  {d \in p.defs :
     /\ d.at.c \in crates /\ d.nav
     /\ \/ d.within[1] = "impl" /\ d.within[2].listed
        \/ d.within[1] = "trait" /\ d.within[2] \in bound
        \/ d.within[1] = "enum" /\ d.within[2] \in bound}

\* Declarations inside declarations: the ones written in a file, and fields
\* whoever wrote them; each needs the node of the declaration around it.
extract_structural_items(p, ids, before, crates) ==
  LET made[d \in p.defs] ==
        \/ d \in before
        \/ /\ ids[d] # NoId /\ d.nav /\ d.at.c \in crates
           /\ d.written \/ d.within[1] = "adt"
           /\ d.within[1] \in {"adt", "enum", "block"} => made[d.within[2]]
  IN  {d \in p.defs : made[d]} \ before

\* Qualified names: of a trait's implementation the module and the header
\* come first, of any other the name of the node above.
QualifiedNames(p, bound) ==
  LET qual[d \in p.defs] ==
        CASE d.within[1] = "module" ->
               module_qualified_path(p, d.at) \o <<d.name>>
          [] d.within[1] = "impl" ->
               (IF d.within[2].trait # NoDef
                THEN module_qualified_path(p, Nearest(d.within[2].at))
                       \o <<d.within[2].header>>
                ELSE IF d.within[2].self \in bound
                THEN qual[d.within[2].self]
                ELSE module_qualified_path(p, Nearest(d.within[2].at)))
               \o <<d.name>>
          [] OTHER -> qual[d.within[2]] \o <<d.name>>
  IN  qual

emit_assoc_item(p, local, bound, ids, quals, d) ==
  ItemNode(p, d, assoc_item_node_id(p, d), quals[d],
           IF d.within[1] = "trait" THEN ids[d.within[2]]
           ELSE impl_parent(p, local, bound, d.within[2]))

emit_enum_variant(p, ids, quals, d) ==
  ItemNode(p, d, <<"enum_variant", ids[d.within[2]], d.name>>, quals[d],
           ids[d.within[2]])

\* Fields, and what a body declares, under the declaration around them.
emit_nested(p, ids, quals, d) ==
  ItemNode(p, d, ids[d], quals[d],
           IF d.within[1] \in {"adt", "enum", "block", "trait"}
           THEN ids[d.within[2]] ELSE module_node_id(p, Nearest(d.at)))

\* The file of a declaration, once rust-analyzer has placed it.
backfill_item_spans(d) == IF d.nav THEN d.file ELSE "none"

\* Outer attributes and doc comments, of what a walk over the modules'
\* declarations and impls meets: neither fields nor what a body declares.
extract_attributes(crates, d) ==
  IF /\ d.at.c \in crates /\ d.at.block = 0
     /\ \/ d.within[1] \in {"module", "impl"}
        \/ d.within[1] \in {"trait", "enum"} /\ d.within[2].within[1] = "module"
  THEN d.attrs ELSE {}

\* Signatures of functions and the types of statics, of every definition a
\* pass gave a node, external ones included.
extract_signatures(defs, idOf) ==
  {<<idOf[d], d.sig>> : d \in {f \in defs : f.kind = "Function"}}

extract_statics(defs, idOf) ==
  {<<idOf[d], d.sig>> : d \in {s \in defs : s.kind = "Static" /\ s.sig # ""}}

-----------------------------------------------------------------------------
(* Usages: every name token, classified by rust-analyzer. *)

\* A call through a trait whose implementation is known is a call of it.
concrete_function(t) == IF t.concrete # NoDef THEN t.concrete ELSE t.to

relation(d, ctx) ==
  CASE d.kind = "Function" ->
         IF ctx \notin {"callee", "method"} THEN "FunctionReference"
         ELSE IF d.within[1] = "trait" THEN "TraitDispatch" ELSE "Call"
    [] IsAdt(d) \/ d.kind = "EnumVariant" ->
         IF ctx \in {"callee", "expr"} THEN "Construct" ELSE "TypeRef"
    [] d.kind \in {"Trait", "TypeAlias"} -> "TypeRef"
    [] d.kind = "Field" ->
         CASE ctx = "assigned" -> "Write" [] ctx = "field" -> "Read"
           [] OTHER -> "Use"
    [] OTHER -> "Use"

\* The item of the trait that an item of its implementation implements.
convert_to_def_in_trait(p, d) ==
  IF d \in p.defs /\ d.within[1] = "impl" /\
     \E x \in p.defs : /\ x.within = <<"trait", d.within[2].trait>>
                       /\ x.name = d.name /\ x.kind = d.kind
  THEN CHOOSE x \in p.defs : /\ x.within = <<"trait", d.within[2].trait>>
                             /\ x.name = d.name /\ x.kind = d.kind
  ELSE d

category(t, rel) ==
  CASE rel \in {"Read", "Write"} -> rel [] t.test -> "Test" [] OTHER -> "Other"

\* The definitions one token refers to: what it names, and the trait's
\* contract behind an implementation.  Names in a use tree are bindings.
scan_ident(p, t) ==
  LET d   == concrete_function(t)
      up  == convert_to_def_in_trait(p, d)
      cat == category(t, relation(d, t.ctx))
  IN  CASE t.form = "ref" ->
             IF t.ctx = "use" THEN {}
             ELSE {<<d, cat, relation(d, t.ctx)>>} \cup
                  (IF up # d THEN {<<up, cat, "Implements">>} ELSE {})
        [] t.form = "pattern" -> {<<d, "Other", "Use">>}
        [] t.form = "declares" ->
             IF up # d THEN {<<up, "Other", "Implements">>} ELSE {}

scan_format_string(t) == {<<t.to, "Read", "Use">>}

Hits(p, t) ==
  CASE ~t.active                   -> {}
    [] t.active /\ t.form = "format" -> scan_format_string(t)
    [] OTHER                       -> scan_ident(p, t)

\* One row per hit whose target is in the graph, filed under the module the
\* token is in, the declaration around it and, inside a body, the function.
usages_from_consumers(p, local, ids, crates) ==
  LET usage(t, h) ==
        [target |-> of_definition(ids, h[1]),
         mod |-> module_node_id(p, Nearest(t.mod)), file |-> t.file,
         at |-> t.at, cat |-> h[2], rel |-> h[3],
         item |-> of_definition(ids, t.owner),
         fn |-> IF t.inBody /\ t.owner.kind = "Function"
                THEN of_definition(ids, t.owner) ELSE NoId,
         exp |-> t.exp]
      walked == {t \in p.tokens : t.mod.c \in crates
                                  /\ Nearest(t.mod) \in local}
  IN  UNION {{usage(t, h) : h \in {x \in Hits(p, t) :
                                     of_definition(ids, x[1]) # NoId}} :
               t \in walked}

\* Calls that lead to no node of the graph, with the reason.
unresolved_reason(ids, t) ==
  LET d == concrete_function(t) IN
  CASE t.indirect                            -> "IndirectCallable"
    [] ~t.indirect /\ d = NoDef              -> "Unresolved"
    [] d.kind = "Function" /\ of_definition(ids, d) = NoId
                                             -> "TargetOutsideGraph"
    [] OTHER                                 -> "none"

scan_unresolved(p, local, ids, crates) ==
  {[mod |-> module_node_id(p, Nearest(t.mod)),
    item |-> of_definition(ids, t.owner),
    at |-> <<t.file, t.at>>, reason |-> unresolved_reason(ids, t)] :
     t \in {x \in p.tokens : /\ x.active /\ x.ctx \in {"callee", "method"}
                             /\ x.mod.c \in crates /\ Nearest(x.mod) \in local
                             /\ unresolved_reason(ids, x) # "none"}}

-----------------------------------------------------------------------------
(* The model of the crates a pass walks, within the skeleton of its scope. *)

run_passes(p, scope, crates) ==
  LET local  == ModulesOf(p, scope)
      ids    == TargetIds(p, local)
      bound  == BoundDefs(p, local, crates)
      items  == {d \in bound : d.at \in local /\ d.kind # "Module"}
      assoc  == extract_impl_items(p, bound, crates)
      nested == extract_structural_items(p, ids, items \cup assoc, crates)
      all    == items \cup assoc \cup nested
      quals  == QualifiedNames(p, bound)
      bare(d) == CASE d \in items -> create_local_item_node(p, d)
                   [] d \in assoc /\ d.kind = "EnumVariant" ->
                        emit_enum_variant(p, ids, quals, d)
                   [] d \in assoc /\ d.kind # "EnumVariant" ->
                        emit_assoc_item(p, local, bound, ids, quals, d)
                   [] OTHER -> emit_nested(p, ids, quals, d)
      node(d) == [bare(d) EXCEPT !.file = backfill_item_spans(d),
                                 !.attrs = extract_attributes(crates, d)]
      nodes  == emit_skeleton(p, scope)
                  \cup {StubNode(p, d) : d \in {b \in bound : b.at \notin local}}
                  \cup {node(d) : d \in all}
      binds  == extract_bindings(p, local, crates)
      named  == bound \cup (all \ {d \in all : d.kind = "Field"})
      idOf   == [d \in named |-> IF d \in bound
                                 THEN resolve_or_create_target(p, local, d)
                                 ELSE ids[d]]
  IN  [nodes      |-> nodes,
       bindings   |-> binds,
       contains   |-> {<<n.parent, n.id>> :
                         n \in {x \in nodes :
                                  x.kind \in {"Crate", "Module"} \/
                                  x.id \in {ids[d] : d \in assoc \cup nested}}}
                      \cup {<<b.from, b.target>> :
                              b \in {x \in binds :
                                       x.kind = "Declared" /\
                                       \E n \in nodes :
                                         /\ n.kind = "Item" /\ n.id = x.target
                                         /\ n.parent = x.from}},
       usages     |-> usages_from_consumers(p, local, ids, crates),
       unresolved |-> scan_unresolved(p, local, ids, crates),
       signatures |-> extract_signatures(named, idOf),
       statics    |-> extract_statics(named, idOf)]

-----------------------------------------------------------------------------
(* The tables.  A row is [tab, key, val]; a table with duplicates holds    *)
(* several values under a key, in the others a put replaces the value.     *)

DupSort == {"children_by_parent", "bindings_by_from_module",
            "bindings_by_target", "usages_by_target", "usages_by_consumer",
            "usages_by_consumer_function", "usages_by_consumer_item",
            "stub_owners"}

Row(tab, key, val) == <<tab, key, val>>
Tab(r) == r[1]
Key(r) == r[2]
Val(r) == r[3]

\* An entry of the ownership record: the duplicate is named where the table
\* has several.
OwnedRow(c, r) ==
  <<c, Tab(r), Key(r), IF Tab(r) \in DupSort THEN Val(r) ELSE NoId>>

Put(table, new) ==
  {r \in table : Tab(r) \in DupSort \/
                 ~ \E n \in new : Tab(n) = Tab(r) /\ Key(n) = Key(r)} \cup new

\* A row's owner is the crate of the node it is filed under.
owner_of(m, id) == (CHOOSE n \in m.nodes : n.id = id).crate

binding_id_for(b) == <<b.from, b.ns, b.name, b.target>>
usage_id_for(u)   == <<u.target, u.mod, u.file, u.at, u.cat, u.rel, u.item, u.exp>>

BindingRows(b) ==
  {Row("bindings_by_id", binding_id_for(b), b),
   Row("bindings_by_from_module", b.from, binding_id_for(b)),
   Row("bindings_by_target", b.target, binding_id_for(b))}

UsageRows(u) ==
  {Row("usages_by_id", usage_id_for(u), u),
   Row("usages_by_target", u.target, usage_id_for(u)),
   Row("usages_by_consumer", u.mod, usage_id_for(u))}
  \cup (IF u.fn = NoId THEN {}
        ELSE {Row("usages_by_consumer_function", u.fn, usage_id_for(u))})
  \cup (IF u.item = NoId THEN {}
        ELSE {Row("usages_by_consumer_item", u.item, usage_id_for(u))})

\* Unresolved calls are one row per declaration, or per module outside any.
UnresolvedRows(calls) ==
  LET key(k) == IF k.item = NoId THEN k.mod ELSE k.item
  IN  {Row("unresolved_calls_by_owner", key(k),
           {x \in calls : key(x) = key(k)}) : k \in calls}

IsStub(m, id) == \E n \in m.nodes : n.id = id /\ n.kind = "ExternalSymbol"

\* The rows of the crates in `keep`, each with its owner; NoId owns the rows
\* that crates share: the workspace node, and the nodes and records of stubs.
OwnRows(m, keep) ==
  LET by(c, rs)  == {<<c, r>> : r \in rs}
      kept(id)   == owner_of(m, id) \in keep
      binds      == {b \in m.bindings : kept(b.from)}
      stubs      == {b.target : b \in {x \in binds : IsStub(m, x.target)}}
      record(tab, x) ==
        CASE IsStub(m, x[1]) /\ x[1] \in stubs ->
               {<<NoId, Row(tab, x[1], x[2])>>}
          [] ~IsStub(m, x[1]) /\ kept(x[1]) ->
               {<<owner_of(m, x[1]), Row(tab, x[1], x[2])>>}
          [] OTHER -> {}
      calls      == {k \in m.unresolved : kept(k.mod)}
  IN  {<<n.crate, Row("nodes_by_id", n.id, n)>> :
         n \in {x \in m.nodes : x.kind \in {"Crate", "Module", "Item"}
                                /\ x.crate \in keep}}
      \cup {<<NoId, Row("nodes_by_id", n.id, n)>> :
              n \in {x \in m.nodes : x.kind = "Workspace" \/ x.id \in stubs}}
      \cup UNION {by(owner_of(m, b.from), BindingRows(b)) : b \in binds}
      \cup {<<owner_of(m, b.from),
              Row("stub_owners", b.target, owner_of(m, b.from))>> :
              b \in {x \in binds : x.target \in stubs}}
      \cup {<<owner_of(m, e[2]), Row("children_by_parent", e[1], e[2])>> :
              e \in {x \in m.contains : kept(x[2])}}
      \cup UNION {by(owner_of(m, u.mod), UsageRows(u)) :
                    u \in {x \in m.usages : kept(x.mod)}}
      \cup {<<owner_of(m, (CHOOSE k \in Val(r) : TRUE).mod), r>> :
              r \in UnresolvedRows(calls)}
      \cup UNION {record("signatures_by_target", x) : x \in m.signatures}
      \cup UNION {record("static_metadata_by_target", x) : x \in m.statics}

write_owned_rows(m, keep, table, record) ==
  LET new == OwnRows(m, keep)
  IN  [rows  |-> Put(table, {x[2] : x \in new}),
       owned |-> record \cup {OwnedRow(x[1], x[2]) :
                                x \in {y \in new : y[1] # NoId}}]

Matches(r, o) ==
  Tab(r) = o[2] /\ Key(r) = o[3] /\ (Tab(r) \in DupSort => Val(r) = o[4])

\* Mutant: the stubs only this crate named stay behind.
delete_crate_rows_KeepStubs(c, table, record) ==
  LET mine == {o \in record : o[1] = c}
      left == {r \in table : ~ \E o \in mine : Matches(r, o)}
  IN  [rows |-> left, owned |-> record \ mine,
       lost |-> \E o \in mine : ~ \E r \in table : Matches(r, o)]

\* Every row the crate owns goes, then the stubs no other crate names.  A
\* listed row that is not in its table stops the build.
delete_crate_rows(c, table, record) ==
  LET mine == {o \in record : o[1] = c}
      left == {r \in table : ~ \E o \in mine : Matches(r, o)}
      dead == {o[3] : o \in {x \in mine : x[2] = "stub_owners"}}
                \ {Key(r) : r \in {x \in left : Tab(x) = "stub_owners"}}
  IN  [rows  |-> {r \in left : ~ (Key(r) \in dead /\ Tab(r) \in
                    {"nodes_by_id", "signatures_by_target",
                     "static_metadata_by_target"})},
       owned |-> record \ mine,
       lost  |-> \E o \in mine : ~ \E r \in table : Matches(r, o)]

-----------------------------------------------------------------------------
(* Builds. *)

local_dependency_closure(p, cs) ==
  LET reach[n \in 0 .. Cardinality(p.crates)] ==
        IF n = 0 THEN cs
        ELSE reach[n - 1] \cup UNION {p.deps[c] : c \in reach[n - 1]}
  IN  reach[Cardinality(p.crates)]

\* Crates that share a node are one group; the groups come in dependency
\* order, which nothing but the log depends on.
crate_groups(p, dirty) ==
  {{c \in p.crates : crate_node_id(p, c) = crate_node_id(p, d)} : d \in dirty}

\* The crates whose package was edited, and every crate that depends on one.
DirtyCrates(p, q) ==
  LET source(x, c) ==
        <<{d \in x.defs : d.at.c = c}, {e \in x.scope : e.mod.c = c},
          {t \in x.tokens : t.mod.c = c}, {m \in x.modules : m.c = c},
          {i \in x.impls : i.at.c = c}>>
      changed == {p.package[c] : c \in {x \in p.crates :
                                          source(p, x) # source(q, x)}}
  IN  {c \in p.crates : \E d \in local_dependency_closure(p, {c}) :
                          p.package[d] \in changed}

\* Full builds and incremental ones differ in the crates they walk: the
\* tables of an incremental build start as a copy of the base's.
Dirty == IF built = {} THEN prog.crates
         ELSE DirtyCrates(prog, CHOOSE p \in built : TRUE)

Init == /\ prog \in Programs /\ built = {}
        /\ rows = {} /\ owned = {} /\ todo = {} /\ bailed = FALSE

\* An editor saves other sources.
Edit == /\ todo = {} /\ built = {prog}
        /\ prog' \in Programs \ {prog}
        /\ UNCHANGED <<built, rows, owned, todo, bailed>>

StartBuild == /\ todo = {} /\ built # {prog} /\ ~bailed
              /\ todo' = crate_groups(prog, Dirty)
              /\ built' = IF todo' = {} THEN {prog} ELSE built
              /\ UNCHANGED <<prog, rows, owned, bailed>>

\* The nodes a group's write must have put: its own and the shared ones.
Written(m, keep) == {Key(x[2]) : x \in {y \in OwnRows(m, keep) :
                                         Tab(y[2]) = "nodes_by_id"}}
Expected(m, keep) == {n.id : n \in {x \in m.nodes :
                        x.kind \in {"Workspace", "ExternalSymbol"}
                          \/ x.crate \in keep}}

\* One transaction per group: what the group owned goes, what its passes
\* found is put.
WriteGroup(g) ==
  /\ g \in todo /\ ~bailed
  /\ LET m    == run_passes(prog, local_dependency_closure(prog, Dirty), g)
         c    == crate_node_id(prog, CHOOSE x \in g : TRUE)
         cut  == delete_crate_rows(c, rows, owned)
         new  == write_owned_rows(m, {c}, cut.rows, cut.owned)
         fine == ~cut.lost /\ Written(m, {c}) = Expected(m, {c})
     IN  IF fine
         THEN /\ rows' = new.rows /\ owned' = new.owned
              /\ todo' = todo \ {g}
              /\ built' = IF todo' = {} THEN {prog} ELSE built
              /\ UNCHANGED bailed
         ELSE bailed' = TRUE /\ UNCHANGED <<rows, owned, todo, built>>
  /\ UNCHANGED prog

Next == Edit \/ StartBuild \/ \E g \in todo : WriteGroup(g)

Spec == Init /\ [][Next]_vars

-----------------------------------------------------------------------------
(* Properties. *)

\* What extract() of the whole workspace, written at once, leaves.
WholeRows(p) ==
  {x[2] : x \in OwnRows(run_passes(p, p.crates, p.crates),
                        {crate_node_id(p, c) : c \in p.crates})}

\* What each crate would own if it were walked with nothing but its local
\* dependencies loaded, together with what crates share.
AloneRows(p) ==
  UNION {{x[2] : x \in OwnRows(run_passes(p, local_dependency_closure(p, {c}),
                                          {c}),
                               {crate_node_id(p, c)})} : c \in p.crates}

\* An incremental build is a full build: after any history of edits and
\* builds the tables hold the rows a build from nothing would write, row for
\* row, whichever crates were left alone and in whatever order the others
\* were written, and no check of the writer fails.  (incremental.rs:
\* rebuilding the dirty crates and their dependents is enough;
\* ownership.rs: every row has one owner, stubs go with their last one.)
IncrementalIsFull ==
  /\ ~bailed
  /\ built = {prog} => rows = AloneRows(prog)

\* A usage never dangles and never lies: the id a consumer computes for its
\* target, without any row of the crate that declares it, is the id that
\* crate's own passes gave the node, and no two declarations share an id.
\* (usages.rs, TargetIds: an id for exactly the definitions the producer
\* passes turn into nodes; identity.rs: the module and the header tell
\* implementations apart.)
TargetsAreNodes ==
  LET ids == TargetIds(prog, ModulesOf(prog, prog.crates)) IN
  /\ built = {prog} =>
       \A r \in rows : Tab(r) = "usages_by_id" =>
         \A id \in {Val(r).target, Val(r).mod, Val(r).item} \ {NoId} :
           \E n \in rows : Tab(n) = "nodes_by_id" /\ Key(n) = id
  /\ \A d, e \in prog.defs : ids[d] = ids[e] /\ ids[d] # NoId => d = e

\* The build of each crate alone equals the build of the whole workspace,
\* row for row (a test of extract.rs states it of its fixture).
ByCrateIsWhole == built = {prog} => rows = WholeRows(prog)

=============================================================================
