---------------------------- MODULE MCGraphAudits ---------------------------
(***************************************************************************)
(* Two crates that share a file; a function with a nested test function, a *)
(* loop, a guard held over an await, an unsafe block in a method that has  *)
(* a namesake: a function of the module with the same name.                *)
(***************************************************************************)
EXTENDS GraphQueries, TLC

VARIABLES disk, edits, job

NoFn == [crate |-> "", mods |-> <<>>, owner |-> "", name |-> ""]

Crate(n) == <<"crate", <<n, "lib", n>>>>
Root(n)  == <<"module", Crate(n), <<>>>>
Fn(c, owner, name) == [crate |-> c, mods |-> <<>>, owner |-> owner, name |-> name]

N(k, name, end, first, last) ==
  [k |-> k, name |-> name, end |-> end, line |-> <<first, last>>, test |-> FALSE,
   body |-> 0, fn |-> NoFn]
Decl(name, fn, end, first, last, body, test) ==
  [N("fn", name, end, first, last) EXCEPT !.body = body, !.fn = fn, !.test = test]
Call(k, name, end, line, fn) == [N(k, name, end, line, line) EXCEPT !.fn = fn]

Outer == Fn("a", "", "outer")
Method == Fn("a", "T", "m")
Free  == Fn("a", "", "m")
Tokio == [crate |-> "tokio", mods |-> <<"sync", "mpsc">>, owner |-> "", name |-> "channel"]
Std   == [Tokio EXCEPT !.crate = "std"]
Transmute == [crate |-> "std", mods |-> <<"mem">>, owner |-> "", name |-> "transmute"]

\* fn outer { let guard; { x.await }; y.await; #[cfg(test)] fn inner { expect },
\* loop { fn in_loop { return } }, loop { unwrap }, outer() }
OuterTree ==
  <<Decl("outer", Outer, 17, 1, 9, 2, FALSE), N("block", "", 17, 1, 9),
    N("let", "guard", 3, 2, 2), N("block", "", 5, 3, 3), N("await", "", 5, 3, 3),
    N("await", "", 6, 4, 4),
    Decl("inner", Fn("a", "", "inner"), 9, 5, 5, 8, TRUE), N("block", "", 9, 5, 5),
    N("method", "expect", 9, 5, 5),
    [N("loop", "", 12, 6, 6) EXCEPT !.body = 11], N("block", "", 12, 6, 6),
    N("return", "", 12, 6, 6),
    [N("loop", "", 15, 7, 8) EXCEPT !.body = 14], N("block", "", 15, 7, 8),
    N("method", "unwrap", 15, 8, 8),
    Call("call", "", 16, 9, Outer), Call("call", "8", 17, 9, Tokio)>>

\* // SAFETY ... impl T { fn m { unsafe { transmute, unwrap_unchecked, m() } } },
\* where m() calls the function of the module,
\* and below, in reach of no comment, mod tests { fn t { unsafe {}, todo!, channel } }
SharedTree ==
  <<N("impl", "T", 6, 2, 4), Decl("m", Method, 6, 2, 4, 3, FALSE), N("block", "unsafe", 6, 3, 3),
    Call("call", "", 4, 3, Transmute), N("method", "unwrap_unchecked", 5, 3, 3),
    Call("call", "", 6, 3, Free),
    [N("mod", "tests", 12, 5, 9) EXCEPT !.test = TRUE],
    Decl("t", Fn("a", "", "t"), 12, 6, 9, 9, FALSE), N("block", "", 12, 6, 9),
    N("block", "unsafe", 10, 7, 7), N("macro", "todo", 11, 8, 8),
    Call("call", "", 12, 9, Std)>>

Lines(n) == [i \in 1 .. n |-> ToString(i)]

MCSource(x) ==
  CASE x = <<"outer", 1>>  -> [tree |-> OuterTree, text |-> Lines(9)]
    [] x = <<"outer", 2>>  -> [tree |-> <<>>, text |-> <<"1", "SAFETY">>]
    [] x = <<"shared", 1>> -> [tree |-> SharedTree, text |-> <<"1", "SAFETY">> \o Lines(7)]
    [] x = <<"shared", 2>> -> [tree |-> <<Decl("m", Method, 2, 1, 7, 2, FALSE),
                                          N("block", "unsafe", 2, 7, 7)>>,
                               text |-> <<"SAFETY">> \o Lines(6)]

MCCrates == <<[name |-> "a", files |-> {"outer", "shared"}], [name |-> "b", files |-> {"shared"}]>>

Node(id, kind, item, qual, n, parent, attrs) ==
  [id |-> id, kind |-> kind, item |-> item, qual |-> qual, crate |-> Crate(n),
   parent |-> parent, decl |-> Root(n), file |-> n, attrs |-> attrs]
Item(n, kind, name) == <<"item", Root(n), kind, name>>
MCNodes ==
  {Node(Crate(n), "Crate", "none", <<n>>, n, <<"workspace">>, {}) : n \in {"a", "b"}}
  \cup {Node(Root(n), "Module", "none", <<n>>, n, Crate(n), {}) : n \in {"a", "b"}}
  \cup {Node(Item("a", "Function", "outer"), "Item", "Function", <<"a", "outer">>, "a",
             Root("a"), {<<"doc">>}),
        Node(Item("a", "Struct", "T"), "Item", "Struct", <<"a", "T">>, "a", Root("a"),
             {<<"derive", {<<"Debug">>, <<"serde", "Clone">>}>>}),
        Node(Item("b", "Enum", "E"), "Item", "Enum", <<"b", "E">>, "b", Root("b"), {}),
        Node(Item("b", "Struct", "P"), "Item", "Struct", <<"b", "P">>, "b", Root("b"), {}),
        Node(Item("b", "Struct", "S"), "Item", "Struct", <<"b", "tests", "S">>, "b", Root("b"), {}),
        Node(<<"assoc", Item("a", "Struct", "T"), "m">>, "Item", "Method", <<"a", "T", "m">>,
             "a", Item("a", "Struct", "T"), {})}
  \cup {Node(Item("a", "Function", "m"), "Item", "Function", <<"a", "m">>, "a", Root("a"), {})}
Declared(from, id, vis) ==
  [from |-> from, target |-> id, kind |-> "Declared", vis |-> vis, name |-> Last(id), explicit |-> FALSE]
MCSnapshot ==
  [nodes |-> MCNodes,
   bindings |-> {Declared(Root("a"), Item("a", "Struct", "T"), <<"Public">>),
                 Declared(Root("a"), Item("a", "Function", "outer"), <<"Public">>),
                 Declared(Root("b"), Item("b", "Enum", "E"), <<"Public">>),
                 Declared(Root("b"), Item("b", "Struct", "S"), <<"Public">>),
                 Declared(Root("b"), Item("b", "Struct", "P"), <<"Private">>),
                 Declared(Root("a"), Item("b", "Struct", "P"), <<"Public">>)},
   contains |-> {<<n.parent, n.id>> : n \in MCNodes},
   usages |-> {}, unresolved |-> {}, statics |-> {}, signatures |-> {}]

Ask(tool) == [tool |-> tool, crate |-> None, skip_test |-> TRUE, patterns |-> {}, kinds |-> {},
              required |-> {"Debug", "PartialEq"}, pub_only |-> TRUE]
MCAudits ==
  {[Ask(t) EXCEPT !.crate = c, !.skip_test = s] :
     t \in {"fn_body_audit", "channel_capacity_audit", "missing_docs_audit", "derive_audit"},
     c \in {None, <<"a">>, <<"b">>}, s \in BOOLEAN}
  \cup {Ask("unsafe_audit"), [Ask("fn_body_audit") EXCEPT !.crate = <<"nope">>],
        [Ask("fn_body_audit") EXCEPT !.patterns = {"unwrap", "todo"}],
        [Ask("fn_body_audit") EXCEPT !.patterns = {"unwrap", "expect"}],
        [Ask("derive_audit") EXCEPT !.required = {}],
        [Ask("derive_audit") EXCEPT !.kinds = {"Struct"}, !.pub_only = FALSE],
        [Ask("missing_docs_audit") EXCEPT !.kinds = {"Method", "Function"}]}

Au == INSTANCE GraphAudits
        WITH Crates <- MCCrates, Source <- MCSource, Snapshot <- MCSnapshot,
             Audits <- MCAudits, MaxEdits <- 2
=============================================================================
