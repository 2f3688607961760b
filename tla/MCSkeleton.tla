----------------------------- MODULE MCSkeleton -----------------------------
(***************************************************************************)
(* A crate with a public module in a file of its own, a private module     *)
(* with a public item, and tests; functions in functions.                  *)
(***************************************************************************)
EXTENDS GraphQueries

CONSTANT Clients

VARIABLES version, edits, dir, call

A == <<"crate", <<"a", "lib", "a">>>>
Root == <<"module", A, <<>>>>
Mod(n) == <<"module", A, <<n>>>>
Item(m, kind, name) == <<"item", m, kind, name>>
F == Item(Root, "Function", "f")
T == Item(Mod("open"), "Struct", "T")
M == <<"assoc", T, "m">>
K == Item(Root, "Const", "K")
P == Item(Mod("shut"), "Function", "p")
X == Item(Mod("tests"), "Function", "x")

MCSpan(id) ==
  CASE id = F -> [first |-> 1, last |-> 9]
    [] id = K -> [first |-> 9, last |-> 12]
    [] id = P -> [first |-> 12, last |-> 14]
    [] id = X -> [first |-> 14, last |-> 16]
    [] id = T -> [first |-> 1, last |-> 3]
    [] OTHER  -> [first |-> 4, last |-> 7]

D(k, name, first, last, head, body) ==
  [k |-> k, name |-> name, first |-> first, last |-> last, head |-> head, body |-> body]

\* lib: #[doc] fn f { fn inner { } } const K = ..; fn p { } fn x { }, and the
\* same after f has lost its docs and another f has come before it.
MCSources(x) ==
  CASE x = <<"lib", 1>> ->
         [len |-> 15, broken |-> FALSE,
          syntax |-> {D("fn", "f", 1, 9, 1, <<4, 9>>), D("fn", "inner", 5, 8, 0, <<6, 8>>),
                      D("const", "K", 9, 12, 0, <<11, 12>>), D("fn", "p", 12, 14, 0, <<13, 14>>),
                      D("fn", "x", 14, 16, 0, <<15, 16>>)}]
    [] x = <<"lib", 2>> ->
         [len |-> 12, broken |-> FALSE,
          syntax |-> {D("fn", "f", 1, 4, 0, <<2, 4>>), D("fn", "f", 4, 8, 0, <<6, 8>>),
                      D("const", "L", 8, 12, 0, <<11, 12>>)}]
    [] x = <<"open", 1>> ->
         [len |-> 6, broken |-> FALSE,
          syntax |-> {D("Struct", "T", 1, 3, 1, <<>>), D("fn", "m", 4, 7, 0, <<6, 7>>)}]
    [] OTHER -> [len |-> 3, broken |-> TRUE, syntax |-> {}]

Node(id, kind, item, qual, parent, file, attrs) ==
  [id |-> id, kind |-> kind, item |-> item, qual |-> qual, crate |-> A, parent |-> parent,
   decl |-> Root, file |-> file, attrs |-> attrs]
MCNodes ==
  {Node(A, "Crate", "none", <<"a">>, <<"workspace">>, "lib", {}),
   Node(Root, "Module", "none", <<"a">>, A, "lib", {})}
  \cup {Node(Mod(n), "Module", "none", <<"a", n>>, Root, "lib", {}) : n \in {"open", "shut", "tests"}}
  \cup {Node(F, "Item", "Function", <<"a", "f">>, Root, "lib", {<<"doc">>}),
        Node(K, "Item", "Const", <<"a", "K">>, Root, "lib", {}),
        Node(P, "Item", "Function", <<"a", "shut", "p">>, Mod("shut"), "lib", {}),
        Node(X, "Item", "Function", <<"a", "tests", "x">>, Mod("tests"), "lib", {<<"test">>}),
        Node(T, "Item", "Struct", <<"a", "open", "T">>, Mod("open"), "open", {<<"derive">>}),
        Node(M, "Item", "Method", <<"a", "open", "T", "m">>, T, "open", {})}

Declared(from, id, vis) ==
  [from |-> from, target |-> id, kind |-> "Declared", vis |-> vis, name |-> "n", explicit |-> FALSE]
MCGraph ==
  [nodes |-> MCNodes,
   bindings |-> {Declared(Root, F, <<"Public">>), Declared(Root, K, <<"Crate", A>>),
                 Declared(Root, Mod("open"), <<"Public">>), Declared(Root, Mod("shut"), <<"Private">>),
                 Declared(Root, Mod("tests"), <<"Public">>), Declared(Mod("open"), T, <<"Public">>),
                 Declared(Mod("shut"), P, <<"Public">>), Declared(Mod("tests"), X, <<"Public">>)},
   contains |-> {<<n.parent, n.id>> : n \in MCNodes},
   usages |-> {}, unresolved |-> {}, statics |-> {}, signatures |-> {}]
MCSnapshots == {MCGraph}
MCPackage(f) == ""

Default == [crates |-> {}, include |-> {}, include_docs |-> TRUE, include_attrs |-> TRUE,
            include_impls |-> TRUE, skip_test |-> TRUE, exclude_vendor |-> TRUE, clean |-> TRUE]
MCAsked == {[Default EXCEPT !.include = {"pub"}, !.include_docs = FALSE],
            [Default EXCEPT !.include = {"all"}, !.skip_test = FALSE, !.clean = FALSE]}

Sk == INSTANCE Skeleton
        WITH Sources <- MCSources, Snapshots <- MCSnapshots, Span <- MCSpan,
             Package <- MCPackage, Asked <- MCAsked, MaxEdits <- 1
=============================================================================
