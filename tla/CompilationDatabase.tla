------------------------ MODULE CompilationDatabase ------------------------
(***************************************************************************)
(* The compilation database (incremental/database.py, CompilationDatabase) *)
(* with the caching module loader below it (modules_system/modules.py,     *)
(* ModuleLoader): open overlays over the files on disk, cached analyses,   *)
(* cached module interfaces, and the invalidation of both along imports.   *)
(*                                                                         *)
(* A text decides what it imports, and whether it parses and has errors.   *)
(* The result of an analysis is the set of texts it has seen, its own and  *)
(* those of the modules it imports: whatever it says follows from them.    *)
(* An analysis takes a step for every import it meets, since other         *)
(* programs may write to the disk between any two.                         *)
(***************************************************************************)
EXTENDS Naturals, Sequences, FiniteSets

CONSTANTS
    Files,
    Texts,          \* what sources may contain,
    TextsOf,        \* and what each file may contain
    Unsaved,        \* documents that are not on disk at first
    ImportsOf,      \* <<file, text>>: the files it imports
    Unparsable,     \* <<file, text>>: it does not parse,
    Broken,         \* it has errors of its own,
    Incomplete,     \* or lacks signatures that a circle of imports needs
    Missing,        \* there is no such file
    None

ASSUME DatabaseAssumption ==
    /\ ImportsOf \in [Files \X Texts -> SUBSET Files]
    /\ TextsOf \in [Files -> SUBSET Texts]
    /\ Unparsable \union Broken \union Incomplete \subseteq Files \X Texts
    /\ Missing \notin Texts /\ None \notin Texts \union Files

VARIABLES
    saved,          \* the files on disk
    overlays,       \* _overlays
    cache,          \* ModuleLoader._cache: what a loaded interface has seen
    sources,        \* ModuleLoader._dependency_sources
    hashed,         \* ModuleLoader._dependency_hashes: of which files
    provisional,    \* ModuleLoader._provisional: the text it was made from
    analyses,       \* _analyses
    imports,        \* _imports
    loads           \* _loading_stack: the loads under way, innermost first,
                    \* and below them the analysis they are for

loaderVars == <<cache, sources, hashed, provisional>>
databaseVars == <<overlays, loaderVars, analyses, imports, loads>>
dbVars == <<saved, databaseVars>>

Unknown == [f \in Files |-> None]
NoFiles == [f \in Files |-> {}]

\* source_for
Source(f) == IF overlays[f] # None THEN overlays[f] ELSE saved[f]
ImportsNow(f) == IF Source(f) = Missing THEN {} ELSE ImportsOf[<<f, Source(f)>>]

-----------------------------------------------------------------------------
(* Analyses and loads.                                                     *)

\* The source is read once, when the analysis or the load begins.
Frame(f) ==
    [module |-> f, text |-> Source(f), left |-> ImportsNow(f),
     seen |-> {<<f, Source(f)>>}, ok |-> <<f, Source(f)>> \notin Broken]

Parses(f) == <<f, Source(f)>> \notin Unparsable
IsComplete(f) == <<f, Source(f)>> \notin Incomplete

Inner == Head(loads)
Loading == {loads[i].module : i \in 1..(Len(loads) - 1)}

\* analyse, unless an analysis of the same text is there.
IsCached(f) == analyses[f] # None /\ analyses[f].text = Source(f)
NeedsAnalysis(f) == loads = <<>> /\ Source(f) # Missing /\ ~IsCached(f)

StartAnalysis(f) ==
    /\ NeedsAnalysis(f) /\ Parses(f)
    /\ loads' = <<Frame(f)>>
    /\ UNCHANGED <<saved, overlays, loaderVars, analyses, imports>>

\* An import of the frame that has been dealt with.
Told(frame, d, seen, ok) ==
    [frame EXCEPT !.left = @ \ {d}, !.seen = @ \union seen, !.ok = @ /\ ok]
Answered(d, seen, ok) == loads' = [loads EXCEPT ![1] = Told(@, d, seen, ok)]

\* load, up to where it reads the source: the request is recorded, and
\* answered from the cache or with the contracts of a module under way.
Asks(d) ==
    /\ loads # <<>> /\ d \in Inner.left
    /\ sources' = [sources EXCEPT ![Inner.module] = @ \union {d}]
    /\ UNCHANGED <<saved, overlays, cache, analyses, imports>>
Records(f, d) == hashed' = [hashed EXCEPT ![f] = @ \union {d}]

LoadMissing(d) ==
    /\ Asks(d) /\ Source(d) = Missing
    /\ Answered(d, {<<d, Missing>>}, FALSE)
    /\ UNCHANGED <<hashed, provisional>>

LoadCached(d) ==
    /\ Asks(d) /\ Source(d) # Missing /\ cache[d] # None
    /\ Answered(d, cache[d], TRUE) /\ Records(Inner.module, d)
    /\ UNCHANGED provisional

\* _provisional_exports
LoadProvisional(d) ==
    /\ Asks(d) /\ Source(d) # Missing /\ cache[d] = None /\ d \in Loading
    /\ provisional[d] = None => Parses(d) /\ IsComplete(d)
    /\ provisional' = [provisional EXCEPT ![d] = IF @ = None THEN Source(d) ELSE @]
    /\ Answered(d, {<<d, provisional'[d]>>}, TRUE) /\ Records(Inner.module, d)

LoadIncomplete(d) ==
    /\ Asks(d) /\ Source(d) # Missing /\ cache[d] = None /\ d \in Loading
    /\ provisional[d] = None /\ Parses(d) /\ ~IsComplete(d)
    /\ Answered(d, {<<d, Source(d)>>}, FALSE)
    /\ UNCHANGED <<hashed, provisional>>

LoadSource(d) ==
    /\ Asks(d) /\ Source(d) # Missing /\ cache[d] = None /\ d \notin Loading /\ Parses(d)
    /\ loads' = <<Frame(d)>> \o loads
    /\ UNCHANGED <<hashed, provisional>>

\* Nobody but the caller of analyse catches a parse error: all loads under way
\* are given up, and what was cached and requested stays.
LoadRaises(d) ==
    /\ Asks(d) /\ Source(d) # Missing /\ cache[d] = None /\ ~Parses(d)
    /\ d \in Loading => provisional[d] = None
    /\ loads' = <<>> /\ provisional' = Unknown
    /\ UNCHANGED hashed

\* A load has come back to the module that asked for it.
LoadReturns ==
    /\ Len(loads) > 1 /\ Inner.left = {}
    /\ IF Inner.ok
       THEN /\ cache' = [cache EXCEPT ![Inner.module] = Inner.seen]
            /\ Records(loads[2].module, Inner.module)
       ELSE UNCHANGED <<cache, hashed>>
    /\ provisional' = [provisional EXCEPT ![Inner.module] = None]
    /\ loads' =
        [Tail(loads) EXCEPT ![1] = Told(@, Inner.module, Inner.seen, Inner.ok)]
    /\ UNCHANGED <<saved, overlays, sources, analyses, imports>>

EndAnalysis ==
    /\ Len(loads) = 1 /\ Inner.left = {}
    /\ analyses' =
        [analyses EXCEPT ![Inner.module] = [text |-> Inner.text, seen |-> Inner.seen]]
    /\ imports' = [imports EXCEPT ![Inner.module] = hashed[Inner.module]]
    /\ loads' = <<>>
    /\ UNCHANGED <<saved, overlays, loaderVars>>

LoadStep ==
    \/ LoadReturns
    \/ \E d \in Files :
        \/ LoadMissing(d) \/ LoadCached(d) \/ LoadSource(d)
        \/ LoadProvisional(d) \/ LoadIncomplete(d)

-----------------------------------------------------------------------------
(* Invalidation: the transitive requesters, then the transitive importers.  *)

Requesters(S) == S \union {f \in Files : sources[f] \intersect S # {}}
Importers(S) == S \union {f \in Files : imports[f] \intersect S # {}}

\* The least set around S that Grow adds nothing to.
Closure(Grow(_), S) ==
    {f \in Files : \A C \in SUBSET Files : S \subseteq C /\ Grow(C) \subseteq C => f \in C}

DirectRequesters(S) == Requesters(S)
EveryFile(S) == Files

AllRequesters(S) == Closure(Requesters, S)
Affected(S) == Closure(Importers, AllRequesters(S))

\* _invalidate, when the files in S have changed.
Invalidate(S) ==
    LET dropped == AllRequesters(S)
        affected == Affected(S)
    IN  /\ cache' = [f \in Files |-> IF f \in dropped THEN None ELSE cache[f]]
        /\ sources' = [f \in Files |-> IF f \in dropped THEN {} ELSE sources[f]]
        /\ hashed' = [f \in Files |-> IF f \in dropped THEN {} ELSE hashed[f]]
        /\ analyses' = [f \in Files |-> IF f \in affected THEN None ELSE analyses[f]]

\* open_document, replace_document; close_document with None.
SetOverlay(f, text) ==
    /\ loads = <<>>
    /\ overlays' = [overlays EXCEPT ![f] = text]
    /\ Invalidate({f})
    /\ UNCHANGED <<saved, provisional, imports, loads>>

CloseDocument(f) == SetOverlay(f, None)

DiskChange(f, text) ==
    /\ saved[f] # text
    /\ saved' = [saved EXCEPT ![f] = text]
    /\ UNCHANGED databaseVars

-----------------------------------------------------------------------------
DatabaseInit ==
    /\ saved \in [Files -> Texts \union {Missing}]
    /\ \A f \in Files :
        saved[f] \in (IF f \in Unsaved THEN {} ELSE TextsOf[f]) \union {Missing}
    /\ overlays = Unknown /\ cache = Unknown /\ sources = NoFiles
    /\ hashed = NoFiles /\ provisional = Unknown
    /\ analyses = Unknown /\ imports = NoFiles
    /\ loads = <<>>

-----------------------------------------------------------------------------
(* Properties.                                                             *)

Sights == SUBSET (Files \X (Texts \union {Missing}))
Results == [text : Texts, seen : Sights]
LoadFrames ==
    [module : Files, text : Texts, left : SUBSET Files, seen : Sights, ok : BOOLEAN]

\* Every variable keeps its type; no module is loaded within its own load.
DatabaseTypeOK ==
    /\ saved \in [Files -> Texts \union {Missing}]
    /\ overlays \in [Files -> Texts \union {None}]
    /\ cache \in [Files -> Sights \union {None}]
    /\ sources \in [Files -> SUBSET Files] /\ imports \in [Files -> SUBSET Files]
    /\ hashed \in [Files -> SUBSET Files] /\ provisional \in [Files -> Texts \union {None}]
    /\ analyses \in [Files -> Results \union {None}]
    /\ loads \in Seq(LoadFrames)
    /\ \A i, j \in 1..(Len(loads) - 1) : loads[i].module = loads[j].module => i = j

\* What an analysis rests on, now.
Reached(S) == S \union UNION {ImportsNow(g) : g \in S}
Reaches(f) == Closure(Reached, {f})
=============================================================================
