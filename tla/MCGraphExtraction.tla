-------------------------- MODULE MCGraphExtraction --------------------------
(***************************************************************************)
(* A workspace of three targets: the library alpha, and the library and    *)
(* the binary beta of one package, which compile one file both.  Edits add *)
(* and remove the features below one set at a time.                        *)
(***************************************************************************)
EXTENDS Naturals, Sequences, FiniteSets

CONSTANTS Features,   \* the optional parts of the workspace
          MaxFeatures \* how many are present at once

VARIABLES prog, built, rows, owned, todo, bailed

NoDef == [kind |-> "none"]

Mod(c, path) == [c |-> c, path |-> path, block |-> 0]
A  == Mod("alpha", <<>>)
Am == Mod("alpha", <<"m">>)
B  == Mod("beta", <<>>)
Bs == Mod("beta", <<"shared">>)
X  == Mod("main", <<>>)
Xs == Mod("main", <<"shared">>)
Std == Mod("std", <<"vec">>)

Def(kind, name, at, within) ==
  [kind |-> kind, name |-> name, at |-> at, within |-> within,
   file |-> "file", nav |-> TRUE, written |-> TRUE, attrs |-> {"doc"},
   sig |-> kind]

S    == Def("Struct", "S", A, <<"module">>)
F    == Def("Field", "x", A, <<"adt", S>>)
En   == Def("Enum", "E", A, <<"module">>)
V1   == Def("EnumVariant", "V", A, <<"enum", En>>)
VF   == [Def("Field", "0", A, <<"adt", V1>>) EXCEPT !.written = FALSE]
T    == Def("Trait", "T", Am, <<"module">>)
Tm   == Def("Function", "run", Am, <<"trait", T>>)
I1   == [at |-> A, self |-> S, trait |-> NoDef, header |-> "S",
         listed |-> TRUE]
New  == Def("Function", "run", A, <<"impl", I1>>)
I2   == [I1 EXCEPT !.trait = T, !.header = "T for S"]
Run  == Def("Function", "run", A, <<"impl", I2>>)
G    == [Def("Static", "G", Am, <<"module">>) EXCEPT !.sig = "u8"]
Fb   == Def("Function", "fb", B, <<"module">>)
Help == Def("Function", "help", Bs, <<"module">>)
HelpX == Def("Function", "help", Xs, <<"module">>)
Main == Def("Function", "main", X, <<"module">>)
Vec  == Def("Struct", "Vec", Std, <<"module">>)
Drop == Def("Function", "drop", Std, <<"module">>)

U    == Def("Trait", "U", B, <<"module">>)
Um   == Def("Function", "go", B, <<"trait", U>>)
I3   == [at |-> B, self |-> S, trait |-> U, header |-> "U for S",
         listed |-> TRUE]
Go   == Def("Function", "go", B, <<"impl", I3>>)
In1  == Def("Function", "inner", [B EXCEPT !.block = 1], <<"block", Fb, 0>>)
In2  == Def("Function", "inner", [B EXCEPT !.block = 2], <<"block", Fb, 1>>)
InS  == Def("Struct", "L", [B EXCEPT !.block = 1], <<"block", In1, 0>>)
InF  == Def("Field", "y", [B EXCEPT !.block = 1], <<"adt", InS>>)
I4   == [at |-> [B EXCEPT !.block = 1], self |-> InS, trait |-> NoDef,
         header |-> "L", listed |-> FALSE]
InM  == Def("Function", "hid", [B EXCEPT !.block = 1], <<"impl", I4>>)

ModDef(m, name) == Def("Module", name, m, <<"module">>)

Scope(m, ns, d, vis, import) ==
  [mod |-> m, name |-> d.name, ns |-> ns, def |-> d, vis |-> vis,
   import |-> import, explicit |-> TRUE]
Own(m, ns, d) == Scope(m, ns, d, <<"pub">>, "none")

Tok(n, m, owner, to, ctx) ==
  [form |-> "ref", file |-> m.c, at |-> n, mod |-> m, owner |-> owner,
   to |-> to, concrete |-> NoDef, ctx |-> ctx, test |-> FALSE,
   active |-> TRUE, inBody |-> owner # NoDef, indirect |-> FALSE,
   exp |-> <<>>]

BaseDefs == {S, F, En, V1, VF, T, Tm, New, Run, G, Fb, Help, HelpX, Main,
             Vec, Drop}

BaseScope ==
  {Own(A, "Type", S), Own(A, "Value", S), Own(A, "Type", En),
   Own(A, "Type", ModDef(Am, "m")), Own(Am, "Type", T), Own(Am, "Value", G),
   Own(B, "Value", Fb), Own(B, "Type", ModDef(Bs, "shared")),
   Scope(Bs, "Value", Help, <<"module", B>>, "none"),
   Own(X, "Type", ModDef(Xs, "shared")), Own(Xs, "Value", HelpX),
   Own(X, "Value", Main)}

BaseTokens ==
  {Tok(1, A, Run, F, "assigned"), Tok(2, X, Main, HelpX, "callee"),
   [Tok(3, A, NoDef, Run, "none") EXCEPT !.form = "declares"]}

\* What each feature adds.
FeatureDefs(f) == CASE f = "implU" -> {U, Um, Go}
                    [] f = "inner" -> {In1, In2, InS, InF, InM}
                    [] OTHER -> {}
FeatureScope(f) ==
  CASE f = "calls"  -> {Scope(B, "Type", S, <<"crate", "beta">>, "use"),
                        Scope(B, "Value", S, <<"crate", "beta">>, "use"),
                        Scope(X, "Type", S, <<"module", X>>, "glob")}
    [] f = "vecA"   -> {Scope(A, "Type", Vec, <<"module", A>>, "use"),
                        Scope(A, "Value", Drop, <<"module", A>>, "use")}
    [] f = "vecB"   -> {Scope(B, "Type", Vec, <<"pub">>, "use"),
                        Scope(B, "Type", ModDef(Std, "vec"), <<"pub">>, "extern")}
    [] f = "implU"  -> {Own(B, "Type", U)}
    [] OTHER -> {}
FeatureTokens(f) ==
  CASE f = "calls" ->
         {Tok(11, B, Fb, New, "callee"), Tok(12, B, Fb, En, "type"),
          Tok(13, B, Fb, V1, "callee"), Tok(14, B, Fb, VF, "field"),
          [Tok(15, B, Fb, Tm, "method") EXCEPT !.concrete = Run],
          Tok(16, B, Fb, Tm, "method"), Tok(17, B, Fb, Drop, "callee"),
          [Tok(18, Bs, Help, G, "none") EXCEPT !.form = "format"]}
    [] f = "inner" ->
         {Tok(21, [B EXCEPT !.block = 1], Fb, In1, "callee"),
          Tok(22, [B EXCEPT !.block = 2], Fb, In2, "callee"),
          Tok(23, [B EXCEPT !.block = 1], In1, InF, "field"),
          Tok(24, [B EXCEPT !.block = 1], In1, InM, "method"),
          [Tok(25, B, Fb, In1, "callee") EXCEPT !.active = FALSE],
          [Tok(26, B, Fb, NoDef, "callee") EXCEPT !.indirect = TRUE]}
    [] f = "implU" -> {[Tok(31, B, NoDef, Go, "none") EXCEPT !.form = "declares"]}
    [] OTHER -> {}

Workspace(fs) ==
  LET defs == BaseDefs \cup UNION {FeatureDefs(f) : f \in fs} IN
  [crates  |-> {"alpha", "beta", "main"},
   name    |-> [alpha |-> "alpha", beta |-> "beta", main |-> "beta", std |-> "std"],
   target  |-> [alpha |-> "lib", beta |-> "lib", main |-> "bin", std |-> "lib"],
   root    |-> [alpha |-> "alpha/lib.rs", beta |-> "beta/lib.rs",
                main |-> "beta/main.rs", std |-> "std/lib.rs"],
   package |-> [alpha |-> "alpha", beta |-> "beta", main |-> "beta"],
   deps    |-> [alpha |-> {}, beta |-> {"alpha"}, main |-> {"alpha", "beta"}],
   modules |-> {A, Am, B, Bs, X, Xs},
   file    |-> [m \in {A, Am, B, Bs, X, Xs} |->
                  IF m.path = <<"shared">> THEN "beta/shared.rs" ELSE m.c],
   defs    |-> defs,
   impls   |-> {d.within[2] : d \in {x \in defs : x.within[1] = "impl"}},
   scope   |-> BaseScope \cup UNION {FeatureScope(f) : f \in fs},
   tokens  |-> BaseTokens \cup UNION {FeatureTokens(f) : f \in fs}]

MCPrograms == {Workspace(fs) : fs \in {s \in SUBSET Features :
                                         Cardinality(s) <= MaxFeatures}}

E == INSTANCE GraphExtraction WITH Programs <- MCPrograms
==============================================================================
