----------------------------- MODULE MCCodemap ------------------------------
(***************************************************************************)
(* Two crates: in `a` a function, a trait with a method and a constant, in *)
(* `b` a function of the same shape.                                       *)
(***************************************************************************)
EXTENDS GraphQueries, TLC

VARIABLES graph, disk, built, cache, edits, call, answer

NoFilter == "any"

Crate(n)  == <<"crate", <<n, "lib", n>>>>
Root(n)   == <<"module", Crate(n), <<>>>>
Item(n, kind, name) == <<"item", Root(n), kind, name>>

F == Item("a", "Function", "f")
T == Item("a", "Trait", "T")
M == <<"assoc", T, "m">>
K == Item("a", "Const", "K")
G == Item("b", "Function", "g")

MCPlace == [id \in {F, T, M, K, G, Crate("a"), Root("a"), Crate("b"), Root("b")} |->
  CASE id = F -> [file |-> "a", first |-> 1, last |-> 2]
    [] id = T -> [file |-> "a", first |-> 3, last |-> 7]
    [] id = M -> [file |-> "a", first |-> 4, last |-> 6]
    [] id = K -> [file |-> "a", first |-> 8, last |-> 8]
    [] OTHER  -> [file |-> "b", first |-> 1, last |-> 3]]
MCLines == [file \in {"a", "b"} |-> IF file = "a" THEN 8 ELSE 3]

Node(id, kind, item, qual, n, parent) ==
  [id |-> id, kind |-> kind, item |-> item, qual |-> qual, crate |-> Crate(n),
   parent |-> parent, decl |-> Root(n), file |-> n, attrs |-> {}]

MCNodes ==
  {Node(Crate(n), "Crate", "none", <<n>>, n, <<"workspace">>) : n \in {"a", "b"}}
  \cup {Node(Root(n), "Module", "none", <<n>>, n, Crate(n)) : n \in {"a", "b"}}
  \cup {Node(F, "Item", "Function", <<"a", "f">>, "a", Root("a")),
        Node(T, "Item", "Trait", <<"a", "T">>, "a", Root("a")),
        Node(M, "Item", "Method", <<"a", "T", "m">>, "a", T),
        Node(K, "Item", "Const", <<"a", "K">>, "a", Root("a")),
        Node(G, "Item", "Function", <<"b", "g">>, "b", Root("b"))}

Uses == {<<F, M, "Call">>, <<F, T, "TypeRef">>, <<M, K, "Read">>,
         <<G, F, "Call">>, <<G, M, "TraitDispatch">>}

Graph(uses) ==
  [nodes |-> MCNodes, bindings |-> {},
   contains |-> {<<n.parent, n.id>> : n \in MCNodes},
   usages |-> {[target |-> u[2], rel |-> u[3], item |-> u[1], fn |-> u[1],
                mod |-> Root("a"), file |-> "a", at |-> u, cat |-> "Other",
                exp |-> <<>>] : u \in uses},
   unresolved |-> {}, statics |-> {}, signatures |-> {}]

Texts1 == (F :> 1) @@ (T :> 2) @@ (M :> 2) @@ (K :> 3) @@ (G :> 1)
Texts2 == (F :> 1) @@ (T :> 3) @@ (M :> 5) @@ (K :> 0) @@ (G :> 6)

\* All usages but one, and all over other texts.
MCStarts == {<<Graph(Uses \ {<<F, M, "Call">>}), Texts1>>, <<Graph(Uses), Texts2>>}
MCRebuilds == {Graph(Uses)}

Hit(file, first, last, score) == [file |-> file, first |-> first, last |-> last, score |-> score]

Overlap == [tool |-> "overlaps", version |-> "v1", crate |-> NoId, kind |-> NoFilter,
            skipTests |-> TRUE, crossCrate |-> FALSE, threshold |-> 7, maxCluster |-> 0,
            mode |-> "clusters", offset |-> 0, limit |-> 9]
Map == [tool |-> "codemap", version |-> "v1", names |-> {}, hits |-> <<>>, prompt |-> 1,
        topK |-> 2, depth |-> 2, maxIncoming |-> 9, maxNodes |-> 4, policy |-> "NoRerank"]

MCAsked ==
  {Overlap, [Overlap EXCEPT !.maxCluster = 2, !.threshold = 10],
   [Overlap EXCEPT !.crossCrate = TRUE, !.version = "v2"],
   [Overlap EXCEPT !.mode = "pairs", !.kind = "Function", !.limit = 1],
   [Map EXCEPT !.prompt = 0],
   [Map EXCEPT !.names = {Plain(<<"a", "f">>), Plain(<<"a", "nope">>)}],
   [Map EXCEPT !.names = {Plain(<<"b", "g">>)}, !.depth = 1, !.maxNodes = 1],
   [Map EXCEPT !.hits = <<Hit("a", 5, 5, 4), Hit("outside", 1, 1, 3), Hit("a", 8, 8, 2),
                          Hit("a", 4, 5, 1), Hit("b", 1, 2, 1)>>,
               !.policy = "ComputeMissing"],
   [Map EXCEPT !.hits = <<Hit("a", 3, 5, 4), Hit("b", 4, 4, 3)>>, !.maxIncoming = 1,
               !.depth = 3, !.policy = "UseCachedOnly"]}

Found(file, first, last, score, kind) ==
  [file |-> file, first |-> first, last |-> last, score |-> score, kind |-> kind]

MCSimilar ==
  {[name |-> Plain(<<"a", "f">>), limit |-> l, threshold |-> t, kind |-> k,
    found |-> <<Found("a", 1, 2, 9, "function"), Found("b", 1, 3, 8, "function"),
                Found("a", 3, 7, 6, "trait"), Found("a", 8, 8, 2, "const")>>] :
   l \in 1 .. 3, t \in {0, 5}, k \in {NoFilter, "trait"}}

Cm == INSTANCE Codemap
        WITH EmbedChunk <- 2, Place <- MCPlace, Lines <- MCLines, Starts <- MCStarts,
             Rebuilds <- MCRebuilds, Texts <- {0, 4}, Asked <- MCAsked,
             Similar <- MCSimilar, MaxEdits <- 1
=============================================================================
