--------------------------- MODULE LanguageServer ---------------------------
(***************************************************************************)
(* The language server's documents (lsp.py): each notification sets or     *)
(* closes an overlay of the compilation database, and the open documents   *)
(* are analysed again one after another; the diagnostics of each are       *)
(* published as they are found.  Other programs change the files on disk   *)
(* meanwhile, and no one tells the server.                                 *)
(***************************************************************************)
EXTENDS CompilationDatabase

CONSTANT Edited     \* the files that other programs change

ASSUME EditedAssumption == Edited \subseteq Files

VARIABLES
    documents,      \* the text of each open document
    published,      \* what the published diagnostics of a document rest on
    changed,        \* the document _refresh_workspace analyses first, or None
    waiting,        \* the other documents it has still to analyse
    unseen          \* history: files changed on disk since their document was
                    \* last changed or closed

serverVars == <<documents, published, changed, waiting>>
allVars == <<dbVars, serverVars, unseen>>

Open(f) == documents[f] # None
Quiet == changed = None /\ waiting = {}

\* The others are analysed after the changed document.
OtherOpen(f) == {g \in Files \ {f} : Open(g)}

\* didOpen, didChange: an overlay of the same text stays as it is.
DidChange(f, text) ==
    /\ Quiet
    /\ documents' = [documents EXCEPT ![f] = text]
    /\ IF overlays[f] = text THEN UNCHANGED dbVars ELSE SetOverlay(f, text)
    /\ changed' = f /\ waiting' = OtherOpen(f)
    /\ unseen' = (IF overlays[f] = text THEN unseen ELSE unseen \ {f})
    /\ UNCHANGED published

DidClose(f) ==
    /\ Quiet /\ Open(f)
    /\ documents' = [documents EXCEPT ![f] = None]
    /\ CloseDocument(f)
    /\ published' = [published EXCEPT ![f] = None]
    /\ unseen' = unseen \ {f}
    /\ UNCHANGED <<changed, waiting>>

\* Whose turn it is in _refresh_workspace.
Turn(f) == IF changed # None THEN f = changed ELSE f \in waiting

\* _analyse publishes what the database answers, or the error it raises.
Publishes(f, result) ==
    /\ published' = [published EXCEPT ![f] = result]
    /\ IF changed # None
       THEN changed' = None /\ UNCHANGED waiting
       ELSE waiting' = waiting \ {f} /\ UNCHANGED changed
    /\ UNCHANGED <<documents, unseen>>

AnalyseCached(f) ==
    /\ loads = <<>> /\ Turn(f) /\ IsCached(f)
    /\ UNCHANGED dbVars /\ Publishes(f, analyses[f])
Analyse(f) ==
    /\ Turn(f) /\ StartAnalysis(f)
    /\ UNCHANGED <<serverVars, unseen>>
AnalyseUnparsable(f) ==
    /\ Turn(f) /\ NeedsAnalysis(f) /\ ~Parses(f)
    /\ UNCHANGED dbVars
    /\ Publishes(f, [text |-> Source(f), seen |-> {<<f, Source(f)>>}])
Load == LoadStep /\ UNCHANGED <<serverVars, unseen>>
AnalysisReturns == EndAnalysis /\ Publishes(Inner.module, analyses'[Inner.module])

\* The error rests on the module that does not parse and on all that led to it.
Outermost == loads[Len(loads)]
AnalysisRaises(d) ==
    /\ LoadRaises(d)
    /\ Publishes(Outermost.module,
           [text |-> Outermost.text,
            seen |-> (UNION {loads[i].seen : i \in 1..Len(loads)}) \union {<<d, Source(d)>>}])

FileChanges(f, text) ==
    /\ DiskChange(f, text) /\ unseen' = unseen \union {f}
    /\ UNCHANGED serverVars

ServerInit ==
    /\ DatabaseInit
    /\ documents = Unknown /\ published = Unknown /\ changed = None /\ waiting = {}
    /\ unseen = {}

ServerNext ==
    \/ Load
    \/ AnalysisReturns
    \/ \E f \in Files :
        \/ DidClose(f)
        \/ AnalyseCached(f)
        \/ Analyse(f)
        \/ AnalyseUnparsable(f)
        \/ AnalysisRaises(f)
        \/ \E text \in TextsOf[f] : DidChange(f, text)
    \/ \E f \in Edited : \E text \in TextsOf[f] \union {Missing} : FileChanges(f, text)

ServerSpec == ServerInit /\ [][ServerNext]_allVars

-----------------------------------------------------------------------------
(* Properties.                                                             *)

\* Every variable keeps its type, the database's overlays are the documents,
\* and an analysis is under way for the document whose turn it is.
ServerTypeOK ==
    /\ DatabaseTypeOK /\ documents = overlays
    /\ published \in [Files -> Results \union {None}]
    /\ changed \in Files \union {None} /\ waiting \subseteq Files /\ unseen \subseteq Files
    /\ changed # None => changed \notin waiting
    /\ loads # <<>> => Turn(Outermost.module)

SeenNow(seen) == \A sight \in seen : Source(sight[1]) = sight[2]
SeenButUntold(seen) ==
    \A sight \in seen :
        Source(sight[1]) = sight[2] \/ (~Open(sight[1]) /\ sight[1] \in unseen)

\* An analysis that would be returned has seen the present text of every
\* module it rests on, however far away, present, missing or broken, and so
\* has every cached interface; only what other programs changed on disk, while
\* no document showed it, may have been missed.
CachedIsCurrent ==
    /\ \A f \in Files : analyses[f] # None /\ analyses[f].text = Source(f) =>
          SeenButUntold(analyses[f].seen)
    /\ \A f \in Files : cache[f] # None => SeenButUntold(cache[f])

\* A change drops no interface of a module that does not rest on what changed:
\* editing is not paid for by every module (unified-compilation-database.md:16,
\* "without clearing unrelated cache state"); imports of a text that other
\* programs replaced unseen may be remembered a while.
OnlyAffectedDropped ==
    [][\A f \in Files : unseen = {} /\ cache[f] # None /\ cache'[f] = None =>
          \E g \in Reaches(f) : overlays[g] # overlays'[g]]_allVars

\* When the server has answered a notification, every open document's
\* diagnostics were found with the text of every other open document, and
\* its own, though files change on disk between and during the analyses.
OpenDocumentsAgree ==
    Quiet => \A f \in Files : Open(f) =>
        \A sight \in published[f].seen : Open(sight[1]) => sight[2] = documents[sight[1]]

\* What is cached and what is published was found with the present texts.
AnswersAgree == ServerTypeOK /\ CachedIsCurrent /\ OpenDocumentsAgree

\* The published diagnostics rest on what is open and saved now.  They do not:
\* closing a document shows its saved text to the others, which are not analysed.
PublishedIsCurrent ==
    Quiet /\ unseen = {} => \A f \in Files : Open(f) => SeenNow(published[f].seen)
=============================================================================
