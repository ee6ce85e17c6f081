--------------------------- MODULE EditorAnalysis ---------------------------
(***************************************************************************)
(* Live analysis in the editor (terminal_editor/analysis.py,               *)
(* EditorAnalysis): one background analysis at a time for the workspace    *)
(* and the active document, a check of the files on disk that a result     *)
(* read, and the result that the interface shows.                          *)
(*                                                                         *)
(* The interface thread runs the handlers; analysis and disk reads run in  *)
(* threads, and the coroutine that awaits one goes on some time after it.  *)
(***************************************************************************)
EXTENDS Naturals

CONSTANTS
    Documents,      \* identities of documents
    Unset,          \* None
    MaxRevision,    \* bound: edits, saves, documents opened and closed
    MaxDisk         \* bound: changes of files on disk

ASSUME EditorAnalysisAssumption ==
    Documents # {} /\ MaxRevision \in Nat /\ MaxDisk \in Nat

\* None is no key of a workspace.
ASSUME UnsetAssumption == Unset \notin [revision : Nat, active : Documents]

VARIABLES
    opened,         \* EditorWorkspace.documents
    text,           \* their texts, by the number of changes
    revision,       \* EditorWorkspace.revision
    active,         \* EditorWorkspace.active_document
    disk,           \* the files on disk
    snapshot,       \* the result shown
    failed,         \* failure is not ""
    requested, observed,
    task,           \* the _analyse coroutine and its thread
    diskTask,       \* the _check_disk coroutine and its thread
    closed

worldVars == <<opened, text, revision, active, disk>>
analysisVars == <<worldVars, snapshot, failed, requested, observed, task, diskTask, closed>>

-----------------------------------------------------------------------------
Key(r, d) == [revision |-> r, active |-> d]

NoTask == [pc |-> "done"]
NewTask(k, t) == [pc |-> "analysing", key |-> k, text |-> t, disk |-> 0, current |-> FALSE]
NewDiskTask(d) == [pc |-> "reading", disk |-> d, current |-> FALSE, shown |-> TRUE]

\* Objects are compared by identity: a check is about the result shown until
\* that is replaced.
Replaced(check) == IF check.pc = "done" THEN check ELSE [check EXCEPT !.shown = FALSE]

\* poll, at the key k of a workspace whose texts are t.
KeyChanged(k) == observed # k
MayStart(k) == requested # k /\ task.pc = "done"
Poll(k, t) ==
    IF closed
    THEN UNCHANGED <<snapshot, failed, requested, observed, task, diskTask>>
    ELSE /\ observed' = k
         /\ IF KeyChanged(k)
            THEN snapshot' = Unset /\ failed' = FALSE
            ELSE UNCHANGED <<snapshot, failed>>
         /\ IF MayStart(k)
            THEN requested' = k /\ task' = NewTask(k, t)
            ELSE UNCHANGED <<requested, task>>
         /\ \/ /\ snapshot' # Unset /\ diskTask.pc = "done"   \* once a second
               /\ diskTask' = NewDiskTask(snapshot.disk)
            \/ diskTask' = IF KeyChanged(k) THEN Replaced(diskTask) ELSE diskTask

TimerPoll == Poll(Key(revision, active), text) /\ UNCHANGED <<worldVars, closed>>

-----------------------------------------------------------------------------
(* The workspace.                                                          *)

NextRevision == revision + 1

\* source_changed: the document is edited, and poll called in the handler.
Edit ==
    /\ revision < MaxRevision
    /\ text' = text + 1 /\ revision' = NextRevision
    /\ Poll(Key(revision', active), text')
    /\ UNCHANGED <<opened, active, disk, closed>>

ShowsStill == UNCHANGED <<snapshot, failed, requested, observed, task, diskTask, closed>>

\* The caret's handler, selection_changed, may be the first to see an edit, and
\* so may a file action; these, and a reload, leave poll to the timer.
Update ==
    /\ revision < MaxRevision
    /\ text' = text + 1 /\ revision' = NextRevision
    /\ UNCHANGED <<opened, active, disk>> /\ ShowsStill

\* associate_path after a save: a new revision of the same text.
Save ==
    /\ revision < MaxRevision /\ revision' = NextRevision
    /\ UNCHANGED <<opened, text, active, disk>> /\ ShowsStill

\* _activate polls, at once when the document has its widget.
Activate(d) ==
    /\ d \in opened /\ active' = d
    /\ Poll(Key(revision, d), text)
    /\ UNCHANGED <<opened, text, revision, disk, closed>>

\* new_document, open_document: _activate follows when the widget is mounted.
TabOpens(d) ==
    /\ d \notin opened /\ revision < MaxRevision
    /\ opened' = opened \union {d} /\ active' = d
    /\ text' = text + 1 /\ revision' = NextRevision
    /\ UNCHANGED disk /\ ShowsStill

\* close_document: another is active, or a new one; _activate follows likewise.
TabCloses(d) ==
    /\ d \in opened /\ text' = text + 1
    /\ \/ /\ opened # {d} /\ opened' = opened \ {d}
          /\ active' \in (IF active = d THEN opened' ELSE {active})
          /\ revision < MaxRevision /\ revision' = NextRevision
       \/ /\ opened = {d} /\ active' \in Documents /\ opened' = {active'}
          /\ NextRevision < MaxRevision /\ revision' = NextRevision + 1
    /\ UNCHANGED disk /\ ShowsStill

DiskChanges ==
    /\ disk < MaxDisk /\ disk' = disk + 1
    /\ UNCHANGED <<opened, text, revision, active>> /\ ShowsStill

-----------------------------------------------------------------------------
(* _analyse.                                                               *)

\* analyse_sources in its thread, which reads the files, or fails.
Analysed ==
    /\ task.pc = "analysing"
    /\ \/ task' = [task EXCEPT !.pc = "checking", !.disk = disk]
       \/ task' = [task EXCEPT !.pc = "raised"]
    /\ UNCHANGED <<worldVars, snapshot, failed, requested, observed, diskTask, closed>>

\* disk_is_current in its thread.
Checked ==
    /\ task.pc = "checking"
    /\ task' = [task EXCEPT !.pc = "checked", !.current = (task.disk = disk)]
    /\ UNCHANGED <<worldVars, snapshot, failed, requested, observed, diskTask, closed>>

\* The coroutine goes on: current facts are accepted, others dropped.
WantedOpen == task.key.active = active /\ ~closed
WantedKey == task.key = Key(revision, active)
Wanted == ~closed /\ task.key = Key(revision, active)
Product ==
    [text |-> task.text, revision |-> task.key.revision, active |-> task.key.active,
     disk |-> task.disk]
Accept ==
    /\ task.pc = "checked" /\ task' = NoTask
    /\ IF Wanted /\ task.current
       THEN snapshot' = Product /\ diskTask' = Replaced(diskTask)
       ELSE UNCHANGED <<snapshot, diskTask>>
    /\ requested' = (IF Wanted /\ ~task.current THEN Unset ELSE requested)
    /\ UNCHANGED <<worldVars, failed, observed, closed>>

Raised ==
    /\ task.pc = "raised" /\ task' = NoTask
    /\ failed' = (failed \/ Wanted)
    /\ UNCHANGED <<worldVars, snapshot, requested, observed, diskTask, closed>>

-----------------------------------------------------------------------------
(* _check_disk.                                                            *)

DiskRead ==
    /\ diskTask.pc = "reading"
    /\ diskTask' = [diskTask EXCEPT !.pc = "read", !.current = (diskTask.disk = disk)]
    /\ UNCHANGED <<worldVars, snapshot, failed, requested, observed, task, closed>>

Kept == requested
Forgotten == Unset
DiskChecked ==
    /\ diskTask.pc = "read" /\ diskTask' = NoTask
    /\ IF ~diskTask.current /\ ~closed /\ diskTask.shown
       THEN snapshot' = Unset /\ failed' = FALSE /\ requested' = Forgotten
       ELSE UNCHANGED <<snapshot, failed, requested>>
    /\ UNCHANGED <<worldVars, observed, task, closed>>

-----------------------------------------------------------------------------
\* Teardown begins, and close cancels the coroutines.
Unmount ==
    /\ ~closed /\ closed' = TRUE
    /\ UNCHANGED <<worldVars, snapshot, failed, requested, observed, task, diskTask>>

Close ==
    /\ closed' = TRUE
    /\ task' = NoTask /\ diskTask' = NoTask
    /\ UNCHANGED <<worldVars, snapshot, failed, requested, observed>>

AnalysisInit ==
    /\ active \in Documents /\ opened = {active}
    /\ text = 0 /\ revision = 1 /\ disk = 0
    /\ snapshot = Unset /\ failed = FALSE
    /\ requested = Unset /\ observed = Unset
    /\ task = NoTask /\ diskTask = NoTask /\ closed = FALSE

Threads == Analysed \/ Checked \/ DiskRead
Coroutines == Accept \/ Raised \/ DiskChecked
AnalysisNext ==
    \/ TimerPoll \/ Edit \/ Update \/ Save \/ DiskChanges
    \/ \E d \in Documents : Activate(d) \/ TabOpens(d) \/ TabCloses(d)
    \/ Threads \/ Coroutines \/ Unmount \/ Close

AnalysisSpec == AnalysisInit /\ [][AnalysisNext]_analysisVars

\* The timers of the interface run, and once in a while the second for the
\* disk is over; threads come to an end and their coroutines go on.
ChecksDisk == TimerPoll /\ diskTask.pc = "done" /\ diskTask'.pc = "reading"
Fairness ==
    /\ WF_analysisVars(TimerPoll) /\ SF_analysisVars(ChecksDisk)
    /\ WF_analysisVars(Analysed \/ Checked) /\ WF_analysisVars(DiskRead)
    /\ WF_analysisVars(Accept \/ Raised) /\ WF_analysisVars(DiskChecked)
FairSpec == AnalysisSpec /\ Fairness

-----------------------------------------------------------------------------
(* Properties.                                                             *)

Keys == [revision : Nat, active : Documents]
\* Types; and every edit is a revision.
AnalysisTypeOK ==
    /\ text \in Nat /\ revision \in Nat /\ disk \in Nat
    /\ opened \subseteq Documents /\ active \in opened
    /\ text < revision
    /\ snapshot = Unset \/ snapshot \in [text : Nat, revision : Nat, active : Documents, disk : Nat]
    /\ failed \in BOOLEAN /\ closed \in BOOLEAN
    /\ requested = Unset \/ requested \in Keys
    /\ observed = Unset \/ observed \in Keys
    /\ task = NoTask \/ task \in
         [pc : {"analysing", "checking", "checked", "raised"}, key : Keys, text : Nat,
          disk : Nat, current : BOOLEAN]
    /\ diskTask = NoTask \/ diskTask \in
         [pc : {"reading", "read"}, disk : Nat, current : BOOLEAN, shown : BOOLEAN]

\* What is shown is about the workspace that poll saw last; and as long as that
\* has not changed again, without a poll, it was computed from the present texts.
ShownIsCurrent ==
    (snapshot # Unset /\ ~closed) =>
        /\ observed = Key(snapshot.revision, snapshot.active)
        /\ observed = Key(revision, active) => snapshot.text = text

\* After teardown began nothing is shown any more that was not.
NothingAfterClose == [][closed => snapshot' = snapshot]_analysisVars

\* A check of the disk that speaks of the result shown read the same files.
CheckIsAboutShown ==
    (diskTask.pc # "done" /\ diskTask.shown) => snapshot # Unset /\ snapshot.disk = diskTask.disk

\* What is shown, and what is being asked about it, is about the present.
ShownIsRight == AnalysisTypeOK /\ ShownIsCurrent /\ CheckIsAboutShown

\* A result whose files have changed on disk does not stay.
StaleDiskNoticed ==
    (snapshot # Unset /\ snapshot.disk # disk)
        ~> (snapshot = Unset \/ snapshot.disk = disk \/ closed)

\* "Updating..." ends: when the user stays with a document there is, sooner or
\* later, a result, or a failure to show.
AnalysisArrives ==
    (\E d \in Documents : <>[](active = d)) => []<>(snapshot # Unset \/ failed \/ closed)

\* What AnalysisArrives promises, held with any number of documents as long as
\* no answer under way is for a document the user has left: "Updating..." is
\* not forever when the user stays with a document.
AnalysisComesBack ==
    ([](task.pc \in {"checked", "raised"} => task.key.active = active)
        /\ \E d \in Documents : <>[](active = d))
    => []<>(snapshot # Unset \/ failed \/ closed)

\* What is shown follows the disk and the text in the end.
ResultsFollow == StaleDiskNoticed /\ AnalysisComesBack

\* terminal-editor-design.md:687: "Never present older revision facts as if they
\* describe current text"; until the next poll they are shown (Update).
NothingOlderShown ==
    (snapshot # Unset /\ ~closed) => snapshot.text = text /\ snapshot.active = active
=============================================================================
