--------------------------- MODULE MCGraphTools -----------------------------
(***************************************************************************)
(* Questions asked of two families of snapshots: those GraphExtraction     *)
(* writes for small workspaces, and call graphs over three functions.      *)
(***************************************************************************)
EXTENDS GraphQueries

CONSTANTS Features, MaxFeatures   \* of the workspaces

X == INSTANCE MCGraphExtraction
       WITH prog <- {}, built <- {}, rows <- {}, owned <- {}, todo <- {},
            bailed <- FALSE

Sig(id) == [is_async |-> id[1] = "assoc", params |-> <<"u8">>, returns |-> "()",
            self |-> IF id[1] = "assoc" THEN "Ref" ELSE "None"]

\* What the extraction leaves opaque: signatures and types of statics.
WithTypes(m) ==
  [m EXCEPT !.signatures = {<<x[1], Sig(x[1])>> : x \in m.signatures},
            !.statics = {<<x[1], {"OnceLock"}>> : x \in m.statics}]

Extracted(p) == WithTypes(X!E!run_passes(p, p.crates, p.crates))

C  == <<"crate", <<"a", "lib", "a/lib.rs">>>>
M  == <<"module", C, <<>>>>
Fn(n) == <<"item", M, "Function", n>>
Fs == {"f", "h", "k"}

CallGraph(calls) ==
  LET node(id, kind, item, qual, parent) ==
        [X!E!WorkspaceNode EXCEPT !.id = id, !.kind = kind, !.item = item,
                                !.qual = qual, !.crate = C, !.parent = parent]
  IN  [nodes |-> {node(C, "Crate", "none", <<"a">>, <<"workspace">>),
                  node(M, "Module", "none", <<"a">>, C)}
                 \cup {[node(Fn(n), "Item", "Function", <<"a", n>>, M)
                          EXCEPT !.decl = M] : n \in Fs},
       bindings |-> {}, contains |-> {<<C, M>>} \cup {<<M, Fn(n)>> : n \in Fs},
       usages |-> {[target |-> Fn(e[2]), mod |-> M, file |-> "a", at |-> e,
                    cat |-> "Other", rel |-> "Call", item |-> Fn(e[1]),
                    fn |-> Fn(e[1]), exp |-> <<>>] : e \in calls},
       unresolved |-> {}, statics |-> {},
       signatures |-> {<<Fn(n), Sig(<<"item">>)>> : n \in Fs}]

\* Calls between different functions, and one that may call itself: every
\* cycle there can be, but those that only differ in the names of h and k.
Calls == {<<a, b>> \in Fs \X Fs : (a # b \/ a = "f") /\ <<a, b>> # <<"k", "h">>}

AnyFn == [is_async |-> None, min_params |-> None, has_param |-> None,
          returns |-> None, self |-> None]
MCFilters == {AnyFn, [AnyFn EXCEPT !.is_async = <<TRUE>>, !.min_params = <<1>>],
              [AnyFn EXCEPT !.self = <<"Ref">>, !.has_param = <<"u8">>,
                            !.returns = <<"()">>]}

MCRules == {[consumer |-> <<<<"beta">>, <<>>>>, producer |-> <<<<"alpha">>>>,
             kinds |-> {}, except |-> None],
            [consumer |-> <<<<>>, <<>>>>, producer |-> <<<<>>, <<"l">>, <<>>>>,
             kinds |-> {"bin"}, except |-> <<<<"beta">>>>]}

\* Snapshots are known by what they were made from.
Ids == {<<"workspace", fs>> : fs \in {x \in SUBSET Features : Cardinality(x) <= MaxFeatures}}
       \cup {<<"calls", calls>> : calls \in SUBSET Calls}

MCGraphs == [id \in Ids |-> IF id[1] = "calls" THEN CallGraph(id[2])
                           ELSE Extracted(X!Workspace(id[2]))]

\* A call was added, or removed again.
MCReplacements ==
  LET g == <<"calls", {<<"f", "h">>}>>
      h == <<"calls", {<<"f", "h">>, <<"h", "k">>}>>
  IN  {<<g, h>>, <<h, g>>}
=============================================================================
