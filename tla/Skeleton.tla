------------------------------ MODULE Skeleton ------------------------------
(***************************************************************************)
(* Skeletons of crates (rmc-graph, graph/skeleton; rmc-server,             *)
(* tools/graph/skeleton.rs): the declarations of a snapshot, with the text *)
(* their files have when they are rendered, written file by file below     *)
(* .skeleton.  Nothing keeps two calls apart.                              *)
(*                                                                         *)
(* A source is [len, broken, syntax]: its text is the places 1 .. len, and *)
(* its syntax the declarations [k, name, first, last, head, body]; `head`  *)
(* is how many places its attributes and docs take, `body` the places of   *)
(* its body or initializer.  A node has its span too.                      *)
(***************************************************************************)
EXTENDS GraphQueries

CONSTANTS Sources(_),   \* the source of <<file, version>>
          Snapshots,    \* the snapshots a call may open
          Span(_),      \* the span of a node when it was extracted
          Package(_),   \* the package directory a file is under, or ""
          Asked,        \* what callers ask
          Clients,
          MaxEdits      \* bounds the edits of sources

VARIABLES version,  \* of each source file; 0 is gone
          edits,
          dir,      \* .skeleton: what each path below it holds
          call      \* each caller's call

skelVars == <<version, edits, dir, call>>

-----------------------------------------------------------------------------
(* What is kept. *)

Buckets == {"pub", "pub(crate)", "restricted", "private"}

\* No filter is the default one; an unknown word refuses the call.
parse_include(raw) == IF raw = {} THEN {"pub", "pub(crate)"}
                      ELSE IF "all" \in raw THEN Buckets ELSE raw
validate_include(raw) == raw \subseteq Buckets \cup {"all"}

visibility_bucket(vis) ==
  CASE vis = <<"pub">> -> "pub"
    [] vis = <<"pub(crate)">> -> "pub(crate)"
    [] vis # None /\ vis[1] = "pub(in)" -> "restricted"
    [] OTHER -> "private"
allows(include, vis) == visibility_bucket(vis) \in parse_include(include)

Visibility(g, id) == format_binding_visibility(g, DeclaredVisibility(g, id))

selected_crates(g, o) ==
  {c \in CrateIds(g) :
     /\ crate_scope_allows(g, IF o.exclude_vendor THEN "LocalNoVendor" ELSE "Local", c)
     /\ o.crates = {} \/ Last(Qual(g, c)) \in o.crates}

is_test_item(n) == InTests(n) \/ <<"test">> \in n.attrs
is_assoc_host(n) == n.item \in {"Struct", "Enum", "Union"}
Associated == {"Method", "AssocConst", "AssocType"}
should_skip_direct_item(n) == n.item \in Associated \cup {"EnumVariant"}

\* From the root down; a module that is not allowed hides what is below it.
ModulesKept(g, o, root) ==
  LET ok(m) == ~ (o.skip_test /\ InTests(node_by_id(g, m)))
      down[k \in 0 .. Cardinality(g.nodes)] ==
        IF k = 0 THEN {root} \cap {m \in {root} : ok(m)}
        ELSE LET s == down[k - 1] IN
             s \cup {m \in UNION {Children(g, p) : p \in s} :
                       /\ Has(g, m) /\ node_by_id(g, m).kind = "Module" /\ ok(m)
                       /\ allows(o.include, Visibility(g, m))}
  IN  down[Cardinality(g.nodes)]

retain_item(o, n, vis) == ~ (o.skip_test /\ is_test_item(n)) /\ allows(o.include, vis)

walk_module(g, o, root) ==
  {n \in g.nodes : /\ n.kind = "Item" /\ ~ should_skip_direct_item(n)
                   /\ \E m \in ModulesKept(g, o, root) : n.id \in Children(g, m)
                   /\ retain_item(o, n, Visibility(g, n.id))}

\* What a kept type carries; without a visibility of its own, the type's.
collect_inherent_assoc_items(g, o, kept) ==
  LET vis(n) == IF DeclaredVisibility(g, n.id) # <<"none">> THEN Visibility(g, n.id)
                ELSE Visibility(g, n.parent)
  IN  {n \in g.nodes : /\ n.item \in Associated
                       /\ \E h \in kept : is_assoc_host(h) /\ h.id = n.parent
                       /\ retain_item(o, n, vis(n))}

collect_skeleton(g, o) ==
  LET roots == {find_root_module_of(g, c) : c \in selected_crates(g, o)} \ {NoId}
      kept  == UNION {walk_module(g, o, r) : r \in roots}
  IN  kept \cup (IF o.include_impls THEN collect_inherent_assoc_items(g, o, kept) ELSE {})

\* Items by the file they are recorded in; one without a file is left out.
bucket_items(items) ==
  [f \in {n.file : n \in items} \ {"none"} |-> {n \in items : n.file = f}]

\* The items of a file that stand alone, and those in an impl of their type.
group_assoc_items(items) == {n \in items : n.item \in Associated}

-----------------------------------------------------------------------------
(* The text of an item. *)

SyntaxOf(kind) == IF kind \in {"Function", "Method", "AssocFunction"} THEN "fn"
                  ELSE IF kind \in {"Const", "AssocConst"} THEN "const" ELSE kind

Length(s) == s.last - s.first
Within(a, b) == b.first <= a.first /\ a.last <= b.last

matches_node_name(n, s) == s.name = display_name(n)

\* The declaration of the node's kind and name at its span; else the smallest
\* around the span, else the largest in it.
find_item_syntax(source, n) ==
  LET fits   == {s \in source.syntax : s.k = SyntaxOf(n.item) /\ matches_node_name(n, s)}
      span   == Span(n.id)
      exact  == {s \in fits : s.first = span.first /\ s.last = span.last}
      around == {s \in fits : Within(span, s)}
      inside == {s \in fits : Within(s, span)}
  IN  IF exact # {} THEN exact
      ELSE IF around # {} THEN {CHOOSE s \in around : \A x \in around : Length(s) <= Length(x)}
      ELSE IF inside # {} THEN {CHOOSE s \in inside : \A x \in inside : Length(s) >= Length(x)}
      ELSE {}

\* Bodies and initializers of what is declared in an item.
collect_body_replacements(source, s) ==
  {d.body : d \in {x \in source.syntax : Within(x, s) /\ x.body # <<>>}}

Overlap(a, b) == a[1] < b[2] /\ b[1] < a[2]

\* The longest first, and of what overlaps only that; from the last place back,
\* so that no replacement moves another.
non_overlapping_replacements(bodies) ==
  LET longest == SetToSortSeq(bodies, LAMBDA a, b : a[2] - a[1] > b[2] - b[1]
                                                  \/ (a[2] - a[1] = b[2] - b[1] /\ a[1] < b[1]))
      kept == FoldLeft(LAMBDA acc, r : IF \E k \in acc : Overlap(k, r) THEN acc ELSE acc \cup {r},
                       {}, longest)
  IN  SetToSortSeq(kept, LAMBDA a, b : a[1] > b[1])

\* The places first .. last - 1, with a 0 for each body, without what leads the
\* declaration.
render_source_item_text(source, s) ==
  LET slice == [i \in 1 .. Length(s) |-> s.first + i - 1]
      cut(text, r) == SubSeq(text, 1, r[1] - s.first) \o <<0>>
                      \o SubSeq(text, r[2] - s.first + 1, Len(text))
      text  == FoldLeft(cut, slice,
                        non_overlapping_replacements(collect_body_replacements(source, s)))
  IN  SubSeq(text, s.head + 1, Len(text))

keep_attr(attr, o) == IF attr = <<"doc">> THEN o.include_docs ELSE o.include_attrs

\* What the snapshot itself has on an item whose text cannot be had.
fallback_declaration(g, n) == [of |-> n.id, from |-> "snapshot", named |-> display_name(n),
                               attrs |-> {}, text |-> <<>>]

render_item(g, v, n, o) ==
  LET source == Sources(<<n.file, v>>)
      found  == IF v = 0 \/ source.broken THEN {} ELSE find_item_syntax(source, n)
  IN  IF found = {} THEN fallback_declaration(g, n)
      ELSE LET s == CHOOSE x \in found : TRUE
           IN  [of |-> n.id, from |-> "source", named |-> s.name,
                attrs |-> {a \in n.attrs : keep_attr(a, o)},
                text |-> render_source_item_text(source, s)]

\* One generated file: each source is read once.
render_source_skeleton(g, versions, o) ==
  LET files == bucket_items(collect_skeleton(g, o))
      free(f) == files[f] \ group_assoc_items(files[f])
  IN  [f \in DOMAIN files |->
         [items |-> {render_item(g, versions[f], n, o) : n \in free(f)},
          impls |-> {<<n.parent, render_item(g, versions[f], n, o)>> :
                       n \in group_assoc_items(files[f])}]]

\* Files under crates/<package> are gathered by package, others by crate.
aggregate_file_name(g, f, items) ==
  <<"aggregate", IF Package(f) # "" THEN Package(f)
                 ELSE Qual(g, (CHOOSE n \in items : TRUE).crate)[1]>>

push_aggregate_files(g, o, files) ==
  LET items == bucket_items(collect_skeleton(g, o))
      name  == [f \in DOMAIN files |-> aggregate_file_name(g, f, items[f])]
  IN  [a \in {name[f] : f \in DOMAIN files} |->
         {<<f, files[f]>> : f \in {x \in DOMAIN files : name[x] = a}}]
-----------------------------------------------------------------------------
(* The calls. *)

NoCall == [stage |-> "none"]
Busy(c) == call[c].stage \notin {"none", "answered", "failed"}
In(c, stage) == call[c].stage = stage
Files(c) == DOMAIN bucket_items(collect_skeleton(call[c].graph, call[c].ask))

\* A word nobody knows in the filter refuses the call before it does anything.
\* The directory is no longer only that of a call before.
Begin(c, a, g) ==
  /\ In(c, "none") /\ validate_include(a.include)
  /\ call' = [d \in Clients |->
                IF d = c THEN [stage |-> "clean", ask |-> a, graph |-> g, versions |-> <<>>,
                               files |-> <<>>, left |-> {},
                               alone |-> \A x \in Clients \ {c} : ~ Busy(x)]
                ELSE IF In(d, "none") THEN call[d] ELSE [call[d] EXCEPT !.alone = FALSE]]
  /\ UNCHANGED <<version, edits, dir>>

Keep(d, S) == [p \in DOMAIN d \cap S |-> d[p]]
Set(c, new) == call' = [call EXCEPT ![c] = new]

Clean(c) ==
  /\ In(c, "clean")
  /\ dir' = IF call[c].ask.clean THEN Keep(dir, {}) ELSE dir
  /\ Set(c, [call[c] EXCEPT !.stage = "read", !.versions = [f \in {} |-> 0], !.left = Files(c)])
  /\ UNCHANGED <<version, edits>>

ReadSource(c, f) ==
  /\ In(c, "read") /\ f \in call[c].left
  /\ Set(c, [call[c] EXCEPT !.left = @ \ {f},
               !.versions = [x \in DOMAIN @ \cup {f} |-> IF x = f THEN version[f] ELSE @[x]]])
  /\ UNCHANGED <<version, edits, dir>>

Rendered(c) ==
  /\ In(c, "read") /\ call[c].left = {}
  /\ LET files == render_source_skeleton(call[c].graph, call[c].versions, call[c].ask) IN
     Set(c, [call[c] EXCEPT !.stage = "write", !.files = files, !.left = DOMAIN files])
  /\ UNCHANGED <<version, edits, dir>>

Put(p, content) == dir' = [x \in DOMAIN dir \cup {p} |-> IF x = p THEN content ELSE dir[x]]

\* One file after the other, each with the directories above it.
write_skeleton_file(c, f) ==
  /\ In(c, "write") /\ f \in call[c].left
  /\ Put(<<"file", f>>, call[c].files[f])
  /\ Set(c, [call[c] EXCEPT !.left = @ \ {f}])
  /\ UNCHANGED <<version, edits>>

Aggregates(c) == push_aggregate_files(call[c].graph, call[c].ask, call[c].files)

write_aggregate_files(c) ==
  /\ In(c, "write") /\ call[c].left = {}
  /\ dir' = LET new == Aggregates(c) IN
            [x \in DOMAIN dir \cup DOMAIN new |-> IF x \in DOMAIN new THEN new[x] ELSE dir[x]]
  /\ Set(c, [call[c] EXCEPT !.stage = "answered"])
  /\ UNCHANGED <<version, edits>>

\* A path that cannot be written, or is a link, ends the call; what was written
\* stays and what was removed stays removed.
WriteFails(c) ==
  /\ In(c, "write")
  /\ Set(c, [call[c] EXCEPT !.stage = "failed"])
  /\ UNCHANGED <<version, edits, dir>>

EditSource(f, v) ==
  /\ edits < MaxEdits /\ v # version[f]
  /\ edits' = edits + 1 /\ version' = [version EXCEPT ![f] = v]
  /\ UNCHANGED <<dir, call>>

SkeletonInit ==
  /\ version = [f \in UNION {{n.file : n \in g.nodes} : g \in Snapshots} \ {"none"} |-> 1]
  /\ edits = 0 /\ dir = [p \in {} |-> <<>>]
  /\ call = [c \in Clients |-> NoCall]

SkeletonNext ==
  \/ \E c \in Clients, a \in Asked, g \in Snapshots : Begin(c, a, g)
  \/ \E c \in Clients, f \in DOMAIN version : ReadSource(c, f) \/ write_skeleton_file(c, f)
  \/ \E c \in Clients : Clean(c) \/ Rendered(c) \/ write_aggregate_files(c) \/ WriteFails(c)
  \/ \E f \in DOMAIN version, v \in {0, 2} : EditSource(f, v)

SkeletonSpec == SkeletonInit /\ [][SkeletonNext]_skelVars

-----------------------------------------------------------------------------
(* What a skeleton must be. *)

\* What is rendered is looked at before the first file is written: it stays as it is.
HasFiles(c) == In(c, "write") /\ call[c].left = DOMAIN call[c].files
ItemsOf(content) == content.items \cup {x[2] : x \in content.impls}

\* No place of a body is left, and nothing else of a declaration is lost; a
\* declaration taken from a source is one of the node's name, also when the
\* source was edited after the snapshot (router.rs:606, source.rs:183).
DeclarationsOnly ==
  \A c \in {x \in Clients : HasFiles(x)} : \A f \in DOMAIN call[c].files :
    LET source == Sources(<<f, call[c].versions[f]>>) IN
    \A x \in {i \in ItemsOf(call[c].files[f]) : i.from = "source"} :
      /\ x.named = display_name(node_by_id(call[c].graph, x.of))
      /\ \E s \in source.syntax :
           /\ s.name = x.named
           /\ LET bodies == UNION {d.body[1] .. d.body[2] - 1 :
                                     d \in {y \in source.syntax : Within(y, s) /\ y.body # <<>>}}
              IN  ToSet(x.text) \ {0} = (s.first + s.head .. s.last - 1) \ bodies

\* An item that stands alone is shown exactly if it and every module down to it
\* but the root are of an asked visibility, and none of them is a test's.
ShownByChain ==
  \A c \in {x \in Clients : HasFiles(x)} :
    LET g == call[c].graph
        o == call[c].ask
        seen(n) == allows(o.include, Visibility(g, n.id)) /\ ~ (o.skip_test /\ is_test_item(n))
        root(n) == find_root_module_of(g, n.crate)
        above(n) == {m \in module_ancestors(g, n.parent) :
                       Has(g, m) /\ node_by_id(g, m).kind = "Module"}
    IN  {x.of : x \in UNION {call[c].files[f].items : f \in DOMAIN call[c].files}}
          = {n.id : n \in {y \in g.nodes :
               /\ y.kind = "Item" /\ y.item \notin Associated \cup {"EnumVariant"}
               /\ y.file # "none" /\ y.crate \in selected_crates(g, o) /\ seen(y)
               /\ \A m \in above(y) :
                    \/ m = root(y)
                    \/ /\ allows(o.include, Visibility(g, m))
                       /\ ~ (o.skip_test /\ InTests(node_by_id(g, m)))}}

\* A call that had the directory to itself leaves what it answers: every file
\* it rendered, the same in the file gathered for its package, and, when it
\* cleaned, nothing else.
AloneIsWhole ==
  \A c \in Clients :
    (In(c, "answered") /\ call[c].alone) =>
      LET mine == {<<"file", f>> : f \in DOMAIN call[c].files} IN
      /\ mine \subseteq DOMAIN dir
      /\ \A f \in DOMAIN call[c].files :
           /\ dir[<<"file", f>>] = call[c].files[f]
           /\ Cardinality({p \in DOMAIN dir : p[1] = "aggregate"
                                              /\ <<f, call[c].files[f]>> \in dir[p]}) = 1
      /\ call[c].ask.clean => \A p \in DOMAIN dir \ mine : p[1] = "aggregate"

SkeletonsHold == DeclarationsOnly /\ ShownByChain /\ AloneIsWhole
=============================================================================
