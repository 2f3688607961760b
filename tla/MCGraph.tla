------------------------------ MODULE MCGraph -------------------------------
(***************************************************************************)
(* The extraction, the query tools, the codemaps, the audits and the       *)
(* skeleton files of the graph side by side: a behaviour runs one of them, *)
(* the others keep still.  They share no state, so this checks each of     *)
(* them as it would be checked alone; two variables of one name stand for  *)
(* different things in the behaviours of different components.             *)
(***************************************************************************)
EXTENDS Naturals

CONSTANTS Features, MaxFeatures,  \* of the programs that are extracted
          Snapshots,              \* that the tools are asked about: ToolSnapshots
          Clients                 \* of the skeletons

VARIABLES component,
          prog, built, rows, owned, todo, bailed,   \* GraphExtraction
          current, answer, export,                  \* GraphTools
          graph, sources, cache, edits, call,       \* Codemap
          audit,                                    \* GraphAudits, and sources and edits
          version, dir                              \* Skeleton, and edits and call

Extraction == INSTANCE MCGraphExtraction

ToolInputs == INSTANCE MCGraphTools

Tools == INSTANCE GraphTools
           WITH Graphs <- Snapshots, Replacements <- ToolInputs!MCReplacements,
                Depths <- 0 .. 3, Rules <- ToolInputs!MCRules,
                Filters <- ToolInputs!MCFilters, TreeBudget <- 8, PageLimit <- 2

Codemaps == INSTANCE MCCodemap WITH disk <- sources

Audits == INSTANCE MCGraphAudits WITH disk <- sources, job <- audit

Skeletons == INSTANCE MCSkeleton

ToolSnapshots == ToolInputs!MCGraphs

extractionVars == <<prog, built, rows, owned, todo, bailed>>
toolVars == <<current, answer, export>>
codemapVars == <<graph, cache, call>>
partsVars == <<component, extractionVars, toolVars, codemapVars, sources, edits, audit, version, dir>>

-----------------------------------------------------------------------------
\* A variable the component that runs does not have.
Off(x) == x = {}

ExtractionOff == Off(prog) /\ Off(rows) /\ Off(owned) /\ Off(todo) /\ Off(bailed)
ToolsOff == Off(current) /\ Off(export)
CodemapsOff == Off(graph) /\ Off(cache)
AuditsOff == Off(audit)
SkeletonsOff == Off(version) /\ Off(dir)

PartsInit ==
    \/ /\ component = "extraction" /\ Extraction!E!Init
       /\ ToolsOff /\ CodemapsOff /\ AuditsOff /\ SkeletonsOff
       /\ Off(answer) /\ Off(sources) /\ Off(edits) /\ Off(call)
    \/ /\ component = "tools" /\ Tools!ToolsInit
       /\ ExtractionOff /\ CodemapsOff /\ AuditsOff /\ SkeletonsOff
       /\ Off(built) /\ Off(sources) /\ Off(edits) /\ Off(call)
    \/ /\ component = "codemap" /\ Codemaps!Cm!CodemapInit
       /\ ExtractionOff /\ ToolsOff /\ AuditsOff /\ SkeletonsOff
    \/ /\ component = "audits" /\ Audits!Au!AuditsInit
       /\ ExtractionOff /\ ToolsOff /\ CodemapsOff /\ SkeletonsOff
       /\ Off(built) /\ Off(answer) /\ Off(call)
    \/ /\ component = "skeletons" /\ Skeletons!Sk!SkeletonInit
       /\ ExtractionOff /\ ToolsOff /\ CodemapsOff /\ AuditsOff
       /\ Off(built) /\ Off(answer) /\ Off(sources)

PartsNext ==
    \/ /\ component = "extraction" /\ Extraction!E!Next
       /\ UNCHANGED <<component, toolVars, codemapVars, sources, edits, audit, version, dir>>
    \/ /\ component = "tools" /\ Tools!ToolsNext
       /\ UNCHANGED <<component, extractionVars, codemapVars, sources, edits, audit, version, dir>>
    \/ /\ component = "codemap" /\ Codemaps!Cm!CodemapNext
       /\ UNCHANGED <<component, prog, rows, owned, todo, bailed, current, export, audit, version,
                      dir>>
    \/ /\ component = "audits" /\ Audits!Au!AuditsNext
       /\ UNCHANGED <<component, extractionVars, toolVars, codemapVars, version, dir>>
    \/ /\ component = "skeletons" /\ Skeletons!Sk!SkeletonNext
       /\ UNCHANGED <<component, extractionVars, toolVars, graph, cache, sources, audit>>

PartsSpec == PartsInit /\ [][PartsNext]_partsVars

-----------------------------------------------------------------------------
\* GraphExtraction: an incremental build leaves the rows a full build would, and usages
\* and edges lead to nodes.
ExtractionHolds ==
    component = "extraction" => Extraction!E!IncrementalIsFull /\ Extraction!E!TargetsAreNodes

\* GraphTools: what the query tools answer agrees with the graph and with each other.
ToolsHold ==
    component = "tools" =>
        Tools!CallAnswersHold /\ Tools!CrateAnswersAgree /\ Tools!NamesAndTreesHold
        /\ Tools!ExportIsOneGraph

\* Codemap: cached vectors are those of the snapshot's texts, and so are the answers.
CodemapsHold ==
    component = "codemap" => Codemaps!Cm!VectorsMatchTexts /\ Codemaps!Cm!VectorAnswersHold

=============================================================================
