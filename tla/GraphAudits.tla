---------------------------- MODULE GraphAudits -----------------------------
(***************************************************************************)
(* The audits of a workspace (rmc-graph, graph/*_audit.rs and              *)
(* query/audits.rs; rmc-server, tools/graph/audits.rs).  Some ask only the *)
(* snapshot.  Others walk the syntax trees of a workspace loaded for the   *)
(* call, take the texts of its files from the disk as they walk, and the   *)
(* ids of what they find from the snapshot: three views, of three moments. *)
(*                                                                         *)
(* A tree is its nodes in preorder: [k, name, end, line, to, test, body,   *)
(* fn]; `end` is the last node below, `line` the lines it spans, `test`    *)
(* whether a cfg(test) is on it, `body` the block of a function or loop    *)
(* and `fn` what rust-analyzer makes of it, the function a call resolves   *)
(* to or the one that is declared.  A text is its lines.                   *)
(***************************************************************************)
EXTENDS GraphQueries

CONSTANTS Crates,      \* the crates loaded, in order: [name, files]
          Source(_),   \* the tree and the text of <<file, version>>
          Snapshot,    \* the current snapshot, built from all first versions
          Audits,      \* what callers ask
          MaxEdits     \* bounds the edits

VARIABLES disk,   \* the version of each file; 0 once it is removed
          edits,
          job     \* the audit under way, or the last one and what it found

auditVars == <<disk, edits, job>>

NoFn == [crate |-> "", mods |-> <<>>, owner |-> "", name |-> ""]
Tree(f, v) == Source(<<f, v>>).tree
Text(f, v) == Source(<<f, v>>).text

Below(t, n) == n .. t[n].end
Around(t, n) == {m \in DOMAIN t : n \in Below(t, m)}

-----------------------------------------------------------------------------
(* What the walks share. *)

\* The type a method belongs to is not part of its path.
canonical_function_path(fn) == <<fn.crate>> \o fn.mods \o <<fn.name>>

enclosed_by_cfg_test(t, n) == \E m \in Around(t, n) : t[m].test

\* The function around a place and the node the snapshot has by its path.
resolve_enclosing_function(g, t, n) ==
  LET fns == {m \in Around(t, n) : t[m].k = "fn"}
      path == canonical_function_path(t[Max(fns)].fn)
      id   == lookup_by_qualified_name(g, Plain(path))
  IN  IF fns = {} THEN [target |-> NoId, name |-> None]
      ELSE [target |-> IF id \in NoName THEN NoId ELSE id, name |-> path]

\* The filter is resolved to a crate of the snapshot and from then on only its
\* name counts; a file of several crates is walked once.
InScope(c, name) == name = None \/ Crates[c].name = Last(name)
files_in_scope(name) ==
  UNION {Crates[c].files : c \in {x \in DOMAIN Crates : InScope(x, name)}}

\* The crate a file is counted for is the first that has it.
file_to_crate(f, name) ==
  Crates[Min({c \in DOMAIN Crates : InScope(c, name) /\ f \in Crates[c].files})].name

-----------------------------------------------------------------------------
(* Patterns in function bodies: the nodes below `b` that show each. *)

ALL_PATTERNS == {"unwrap", "expect", "panic_macros", "unwrap_unchecked", "transmute",
                 "await_in_guard_scope", "self_recursion", "unbounded_loop"}

\* No names are all names; an unknown one refuses the call.
parse_pattern_filter(asked) ==
  IF asked = {} THEN ALL_PATTERNS ELSE IF asked \subseteq ALL_PATTERNS THEN asked ELSE {}

OfKind(t, b, k, names) == {n \in Below(t, b) : t[n].k = k /\ t[n].name \in names}

match_unwrap(t, b) == OfKind(t, b, "method", {"unwrap"})
match_expect(t, b) == OfKind(t, b, "method", {"expect"})
match_panic_macros(t, b) ==
  OfKind(t, b, "macro", {"panic", "unreachable", "todo", "unimplemented"})
match_unwrap_unchecked(t, b) ==
  OfKind(t, b, "method", {"unwrap_unchecked", "unwrap_err_unchecked"})

\* Any way out below the loop counts, also one out of an inner loop.
match_unbounded_loop(t, b) ==
  {n \in Below(t, b) : /\ t[n].k = "loop" /\ t[n].body # 0
                       /\ ~ \E d \in Below(t, t[n].body) :
                             t[d].k \in {"break", "return", "try"}}

\* A `let` of the innermost block around the await that ends before it and
\* whose text looks like a guard.
match_await_in_guard_scope(t, b) ==
  LET blocks(n) == {m \in Around(t, n) \ {n} : t[m].k = "block"}
      lets(m)   == {s \in Below(t, m) :
                      /\ t[s].k = "let" /\ t[s].name = "guard"
                      /\ Max(Around(t, s) \ {s}) = m}
  IN  {n \in OfKind(t, b, "await", {""}) :
         blocks(n) # {} /\ \E s \in lets(Max(blocks(n))) : t[s].end < n}

match_transmute(t, b) ==
  {n \in Below(t, b) : /\ t[n].k = "call"
                       /\ canonical_function_path(t[n].fn)
                            \in {<<"std", "mem", "transmute">>, <<"core", "mem", "transmute">>}}

match_self_recursion(t, b, self) ==
  {n \in Below(t, b) : /\ t[n].k \in {"call", "method"} /\ t[n].fn # NoFn
                       /\ canonical_function_path(t[n].fn) = self}

matches(t, b, self) ==
  [unwrap |-> match_unwrap(t, b), expect |-> match_expect(t, b),
   panic_macros |-> match_panic_macros(t, b),
   unwrap_unchecked |-> match_unwrap_unchecked(t, b),
   transmute |-> match_transmute(t, b),
   await_in_guard_scope |-> match_await_in_guard_scope(t, b),
   self_recursion |-> match_self_recursion(t, b, self),
   unbounded_loop |-> match_unbounded_loop(t, b)]

\* The lines of a span and one more on each side, of the text there is now.
build_context(text, line) ==
  IF line[1] > Len(text) THEN <<>>
  ELSE SubSeq(text, Max({1, line[1] - 1}), Min({Len(text), line[2] + 1}))

\* Each function with a body in turn; what lies in a function within it is
\* found again there.
fn_body_audit(g, loaded, texts, opts) ==
  UNION {LET t == Tree(f, loaded[f]) IN
         UNION {LET in == resolve_enclosing_function(g, t, t[n].body) IN
                UNION {{[file |-> f, node |-> x, pattern |-> p, under |-> n,
                         target |-> in.target, name |-> in.name,
                         context |-> build_context(Text(f, texts[f]), t[x].line)] :
                          x \in matches(t, t[n].body, in.name)[p]} :
                         p \in parse_pattern_filter(opts.patterns)} :
                  n \in {m \in DOMAIN t :
                           /\ t[m].k = "fn" /\ t[m].body # 0
                           /\ ~ (opts.skip_test /\ enclosed_by_cfg_test(t, m))}} :
           f \in DOMAIN texts}

-----------------------------------------------------------------------------
(* Unsafe blocks, and channels. *)


\* One of the five lines above.
has_safety_comment(text, line) ==
  line <= Len(text) + 1 /\ \E l \in 1 .. line - 1 : l >= line - 5 /\ text[l] = "SAFETY"

unsafe_audit_impl(g, loaded, texts) ==
  UNION {LET t == Tree(f, loaded[f]) IN
         {LET in == resolve_enclosing_function(g, t, n)
              text == Text(f, texts[f])
          IN  [file |-> f, node |-> n, target |-> in.target, name |-> in.name,
               lines |-> Max({1, Min({Len(text), t[n].line[2]}) - t[n].line[1] + 1}),
               safe |-> has_safety_comment(text, t[n].line[1])] :
            n \in {m \in DOMAIN t : t[m].k = "block" /\ t[m].name = "unsafe"}} :
           f \in DOMAIN texts}

Bounded   == {<<"tokio", "sync", "mpsc", "channel">>,
              <<"tokio", "sync", "mpsc", "bounded", "channel">>,
              <<"std", "sync", "mpsc", "sync_channel">>,
              <<"crossbeam_channel", "bounded">>, <<"flume", "bounded">>}
Unbounded == {<<"tokio", "sync", "mpsc", "unbounded_channel">>,
              <<"tokio", "sync", "mpsc", "unbounded", "unbounded_channel">>,
              <<"std", "sync", "mpsc", "channel">>,
              <<"crossbeam_channel", "unbounded">>, <<"flume", "unbounded">>}

classify_channel_path(path) ==
  CASE path \in Bounded -> "bounded" [] path \in Unbounded -> "unbounded" [] OTHER -> "none"

\* The first argument when it is an integer literal; `name` holds it.
extract_int_literal(t, n) == t[n].name

\* Channels made anywhere in a file, also outside of functions.
channel_capacity_audit(g, loaded, opts) ==
  UNION {LET t == Tree(f, loaded[f])
             kind(n) == classify_channel_path(canonical_function_path(t[n].fn))
         IN  {LET in == resolve_enclosing_function(g, t, n)
              IN  [file |-> f, node |-> n, crate |-> file_to_crate(f, opts.crate),
                   bounded |-> kind(n) = "bounded",
                   capacity |-> IF kind(n) = "bounded" THEN extract_int_literal(t, n) ELSE "",
                   target |-> in.target, name |-> in.name] :
                n \in {m \in DOMAIN t :
                         /\ t[m].k = "call" /\ kind(m) # "none"
                         /\ ~ (opts.skip_test /\ enclosed_by_cfg_test(t, m))}} :
           f \in DOMAIN loaded \cap files_in_scope(opts.crate)}

-----------------------------------------------------------------------------
(* Derives and docs, of the snapshot alone.  An attribute is <<"doc">>, or *)
(* <<"derive", the paths>>.                                                *)

\* The attributes of an item: outer ones, then its doc comment; what an
\* earlier source has set stays.
set_attrs_for(node, attrs, docs) ==
  IF node.attrs # {} THEN node
  ELSE [node EXCEPT !.attrs = {a.text : a \in {x \in attrs : x.outer}}
                              \cup (IF docs THEN {<<"doc">>} ELSE {})]

extract_derives(attrs) ==
  {Last(p) : p \in UNION {a[2] : a \in {x \in attrs : x[1] = "derive"}}}

missing_required_derives(n, required) == required \ extract_derives(n.attrs)

\* The declaration in the module the item hangs under counts before others.
PublicItem(g, n) == DeclaredVisibility(g, n.id) = <<"Public">>

candidates(g, crate, kinds, skipTests) ==
  {n \in g.nodes : /\ n.kind = "Item" /\ n.item \in kinds
                   /\ crate # NoId => n.crate = crate
                   /\ ~ (skipTests /\ InTests(n))}

derive_audit(g, crate, kinds, required, pubOnly, skipTests) ==
  {[target |-> n.id, pub |-> PublicItem(g, n),
    missing |-> missing_required_derives(n, required)] :
     n \in {c \in candidates(g, crate, kinds, skipTests) :
              /\ pubOnly => PublicItem(g, c)
              /\ missing_required_derives(c, required) # {}}}

is_undocumented_pub_item(g, n) == PublicItem(g, n) /\ <<"doc">> \notin n.attrs

missing_docs_audit(g, crate, kinds, skipTests) ==
  {n.id : n \in {c \in candidates(g, crate, kinds, skipTests) :
                   is_undocumented_pub_item(g, c)}}

DeriveKinds == {"Struct", "Enum", "Union"}
DocKinds == DeriveKinds \cup {"Function", "Trait", "TypeAlias", "Const", "Static", "Method"}

-----------------------------------------------------------------------------
(* The calls. *)

Refused(why) == [refused |-> why]
Walks == {"fn_body_audit", "unsafe_audit"}
Files == DOMAIN disk
Idle == job.stage = "idle"

\* A list that names a crate the snapshot does not have, an unknown pattern, no
\* derives or a kind that cannot derive: the call ends there.
Invalid(a) ==
  \/ a.crate # None /\ resolve_crate_filter(Snapshot, Plain(a.crate)) = NoId
  \/ a.tool = "fn_body_audit" /\ parse_pattern_filter(a.patterns) = {}
  \/ a.tool = "derive_audit" /\ (a.required = {} \/ ~ a.kinds \subseteq DeriveKinds)

Filter(a) == IF a.crate = None THEN NoId ELSE resolve_crate_filter(Snapshot, Plain(a.crate))
Kinds(a, default) == IF a.kinds = {} THEN default ELSE a.kinds

Job(stage, a, loaded, texts, found) ==
  [stage |-> stage, ask |-> a, loaded |-> loaded, texts |-> texts, found |-> found]
Nothing == [f \in {} |-> 0]

\* The snapshot is opened and the workspace loaded: a file that is there is
\* parsed as it is now.
Load(a) ==
  /\ Idle /\ ~ Invalid(a)
  /\ a.tool \in Walks \cup {"channel_capacity_audit"}
  /\ job' = Job("walking", a, [f \in {x \in Files : disk[x] # 0} |-> disk[f]], Nothing, {})
  /\ UNCHANGED <<disk, edits>>

ToRead == (DOMAIN job.loaded \cap files_in_scope(job.ask.crate)) \ DOMAIN job.texts

\* A file that cannot be read any more is left out.
ReadText(f) ==
  /\ job.stage = "walking" /\ job.ask.tool \in Walks /\ f \in ToRead
  /\ job' = IF disk[f] = 0
            THEN [job EXCEPT !.loaded = [x \in DOMAIN @ \ {f} |-> @[x]]]
            ELSE [job EXCEPT !.texts = [x \in DOMAIN @ \cup {f} |->
                                          IF x = f THEN disk[f] ELSE @[x]]]
  /\ UNCHANGED <<disk, edits>>

Report ==
  /\ job.stage = "walking"
  /\ job.ask.tool \in Walks => ToRead = {}
  /\ job' = [job EXCEPT !.stage = "answered",
               !.found = CASE job.ask.tool = "fn_body_audit" ->
                                fn_body_audit(Snapshot, job.loaded, job.texts, job.ask)
                           [] job.ask.tool = "unsafe_audit" ->
                                unsafe_audit_impl(Snapshot, job.loaded, job.texts)
                           [] OTHER ->
                                channel_capacity_audit(Snapshot, job.loaded, job.ask)]
  /\ UNCHANGED <<disk, edits>>

\* The audits of the snapshot alone answer at once.
AskSnapshot(a) ==
  /\ Idle /\ ~ Invalid(a)
  /\ \/ /\ a.tool = "derive_audit"
        /\ job' = Job("answered", a, Nothing, Nothing,
                      derive_audit(Snapshot, Filter(a), Kinds(a, DeriveKinds), a.required,
                                   a.pub_only, a.skip_test))
     \/ /\ a.tool = "missing_docs_audit"
        /\ job' = Job("answered", a, Nothing, Nothing,
                      missing_docs_audit(Snapshot, Filter(a), Kinds(a, DocKinds), a.skip_test))
  /\ UNCHANGED <<disk, edits>>

Refuse(a) ==
  /\ Idle /\ Invalid(a)
  /\ job' = Job("refused", a, Nothing, Nothing, {})
  /\ UNCHANGED <<disk, edits>>

\* The answer is sent; the next call finds nothing of it.
Sent ==
  /\ job.stage \in {"answered", "refused"}
  /\ job' = Job("idle", job.ask, Nothing, Nothing, {})
  /\ UNCHANGED <<disk, edits>>

\* Somebody edits a file or removes it.
EditFile(f, v) ==
  /\ edits < MaxEdits /\ disk[f] # 0 /\ v # disk[f]
  /\ edits' = edits + 1 /\ disk' = [disk EXCEPT ![f] = v]
  /\ UNCHANGED job

AuditsInit ==
  /\ disk = [f \in UNION {Crates[c].files : c \in DOMAIN Crates} |-> 1]
  /\ edits = 0
  /\ \E a \in Audits : job = Job("idle", a, Nothing, Nothing, {})

AuditsNext ==
  \/ \E a \in Audits : Load(a) \/ AskSnapshot(a) \/ Refuse(a)
  \/ \E f \in Files : ReadText(f)
  \/ Report \/ Sent
  \/ \E f \in Files, v \in {0, 2} : EditFile(f, v)

AuditsSpec == AuditsInit /\ [][AuditsNext]_auditVars

-----------------------------------------------------------------------------
(* What the answers must be. *)

Answered(tool) == job.stage = "answered" /\ job.ask.tool = tool
Walked == \E tool \in Walks \cup {"channel_capacity_audit"} : Answered(tool)
FnsAround(t, n) == {m \in Around(t, n) : t[m].k = "fn"}
FullPath(fn) == <<fn.crate>> \o fn.mods
                \o (IF fn.owner = "" THEN <<>> ELSE <<fn.owner>>) \o <<fn.name>>

\* What a pattern is called in the tree, for the patterns that are a name.
Shows == [unwrap |-> {<<"method", "unwrap">>}, expect |-> {<<"method", "expect">>},
          panic_macros |-> {<<"macro", m>> : m \in {"panic", "todo"}}]

\* The function a finding is counted for: the one whose body is walked, and for
\* the other audits the innermost around it; 0 outside of functions.
InFunction(x) ==
  LET fns == FnsAround(Tree(x.file, job.loaded[x.file]), x.node)
  IN  IF job.ask.tool = "fn_body_audit" THEN x.under ELSE Max(fns \cup {0})

\* The nodes of function fn in the snapshot, and the function of its module that
\* has the name of method fn.
IdsOf(fn) == {n.id : n \in {x \in Snapshot.nodes : x.qual = FullPath(fn)}}
Namesake(fn) == [fn EXCEPT !.owner = ""]

\* A finding in a function that is no method has that function for its target when
\* the snapshot has it, and none when it has not. A finding in a method has none,
\* but where a function of its module has the same name: that one is its target,
\* since the look-up is by a path without the type (unsafe_audit.rs:140-169,
\* audit_util.rs:12), where unsafe_audit.rs:40 promises the enclosing function.
EnclosingIsRight ==
  Walked => \A x \in job.found :
    LET m  == InFunction(x)
        fn == Tree(x.file, job.loaded[x.file])[m].fn
    IN  /\ m = 0 => x.target = NoId
        /\ (m # 0 /\ fn.owner = "") =>
             /\ x.target # NoId <=> IdsOf(fn) # {}
             /\ x.target # NoId => x.target \in IdsOf(fn)
        /\ (m # 0 /\ fn.owner # "" /\ IdsOf(Namesake(fn)) = {}) => x.target = NoId
        /\ (m # 0 /\ fn.owner # "" /\ IdsOf(Namesake(fn)) # {}) =>
             x.target \in IdsOf(Namesake(fn))

\* Every use of a name that is looked for is found in the function it is in,
\* unless it is in tests and those are left out (fn_body_audit.rs:428).
EveryBodyIsSearched ==
  Answered("fn_body_audit") =>
    \A f \in DOMAIN job.texts :
      LET t == Tree(f, job.loaded[f]) IN
      \A n \in DOMAIN t, p \in DOMAIN Shows \cap parse_pattern_filter(job.ask.patterns) :
        LET fns == FnsAround(t, n)
            here == {x \in job.found : x.file = f /\ x.node = n /\ x.pattern = p}
        IN  /\ (/\ <<t[n].k, t[n].name>> \in Shows[p] /\ fns # {}
                /\ job.ask.skip_test => \A m \in Around(t, n) : ~ t[m].test)
               => \E x \in here : x.under = Max(fns)
            /\ \A x \in here : /\ <<t[n].k, t[n].name>> \in Shows[p]
                                /\ x.under \in fns
                                /\ job.ask.skip_test =>
                                     \A m \in Around(t, x.under) : ~ t[m].test

RecursionsAreFound ==
  "self_recursion" \in parse_pattern_filter(job.ask.patterns) =>
    \A f \in DOMAIN job.texts :
      LET t == Tree(f, job.loaded[f]) IN
      \A n \in DOMAIN t : \A m \in FnsAround(t, n) :
        (/\ t[n].k = "call" /\ t[n].fn = t[m].fn
         /\ job.ask.skip_test => \A d \in Around(t, m) : ~ t[d].test)
        => \E x \in job.found : x.file = f /\ x.node = n /\ x.under = m /\ x.pattern = "self_recursion"

\* A loop reported as endless has no way out, and a guard over an await is of the
\* same function. A call reported as recursion is of the function that is walked, or
\* of one whose path differs in the type only, such as the namesake of a method; and
\* every call of a function within itself is reported.
LoopsAndRecursionsAreReal ==
  Answered("fn_body_audit") => RecursionsAreFound /\ \A x \in job.found :
    LET t == Tree(x.file, job.loaded[x.file]) IN
    /\ x.pattern = "unbounded_loop" =>
         \A d \in DOMAIN t : t[d].k \in {"break", "return", "try"} => d \notin Below(t, x.node)
    /\ x.pattern = "self_recursion" => Namesake(t[x.node].fn) = Namesake(t[x.under].fn)
    /\ x.pattern = "await_in_guard_scope" =>
         \E l \in 1 .. x.node : t[l].k = "let" /\ t[l].name = "guard"
                               /\ Max(FnsAround(t, l)) = Max(FnsAround(t, x.node))

\* A finding in a file nobody edited during the walk is shown with its line;
\* a comment within the five lines above an unsafe block is seen, and no other
\* (unsafe_audit.rs:209).
TextsMatchTrees ==
  \A x \in job.found :
    (Walked /\ x.file \in DOMAIN job.texts /\ job.texts[x.file] = job.loaded[x.file]) =>
      LET text == Text(x.file, job.texts[x.file])
          line == Tree(x.file, job.loaded[x.file])[x.node].line
      IN  /\ job.ask.tool = "fn_body_audit" =>
               ToSet(SubSeq(text, line[1], line[2])) \subseteq ToSet(x.context)
          /\ job.ask.tool = "unsafe_audit" =>
               (x.safe <=> "SAFETY" \in ToSet(SubSeq(text, Max({1, line[1] - 5}), line[1] - 1)))

\* A call for one crate reports files of crates of that name only, and each
\* channel once.
FilterIsKept ==
  Walked => \A x \in job.found :
    /\ job.ask.crate # None =>
         \E c \in DOMAIN Crates : /\ x.file \in Crates[c].files
                                  /\ Crates[c].name = Last(job.ask.crate)
    /\ job.ask.tool = "channel_capacity_audit" =>
         /\ \A y \in job.found : (y.file = x.file /\ y.node = x.node) => y = x
         /\ \E c \in DOMAIN Crates : Crates[c].name = x.crate /\ x.file \in Crates[c].files

\* Nothing declared private where it hangs is public surface, whatever else
\* declares it; the audits of the crates add up to the audit of all.
SurfaceIsHome ==
  LET private(id) == \E b \in Snapshot.bindings :
                       /\ b.target = id /\ b.kind = "Declared" /\ b.vis # <<"Public">>
                       /\ b.from = node_by_id(Snapshot, id).parent
      whole(crate) == IF job.ask.tool = "missing_docs_audit"
                      THEN missing_docs_audit(Snapshot, crate, Kinds(job.ask, DocKinds),
                                              job.ask.skip_test)
                      ELSE derive_audit(Snapshot, crate, Kinds(job.ask, DeriveKinds),
                                        job.ask.required, job.ask.pub_only, job.ask.skip_test)
  IN  /\ Answered("missing_docs_audit") => \A id \in job.found : ~ private(id)
      /\ Answered("derive_audit") =>
           \A x \in job.found : job.ask.pub_only => ~ private(x.target)
      /\ (/\ Answered("missing_docs_audit") \/ Answered("derive_audit")
          /\ job.ask.crate = None)
         => job.found = UNION {whole(c) : c \in CrateIds(Snapshot)}

\* What an audit answers.
AuditsHold ==
  /\ EveryBodyIsSearched /\ LoopsAndRecursionsAreReal /\ TextsMatchTrees
  /\ EnclosingIsRight /\ FilterIsKept /\ SurfaceIsHome
=============================================================================
