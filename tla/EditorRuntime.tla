--------------------------- MODULE EditorRuntime ---------------------------
(***************************************************************************)
(* The editor's side of a session (terminal_editor/runtime.py,             *)
(* EditorRuntime, with the parts of app.py and models.py it works on): run *)
(* the file, submit a command, answer program input, apply the session's   *)
(* events, stop, reset, recover from a fault, quit.                        *)
(*                                                                         *)
(* It is composed with SessionWorker, the session it owns and replaces:    *)
(* its actions are the worker's calls with what the editor checks before   *)
(* and does afterwards.  run_file and stop are coroutines; between their   *)
(* awaits the interface thread does anything else.                         *)
(*                                                                         *)
(* A revision stands for a text of the workspace.                          *)
(***************************************************************************)
EXTENDS SessionWorker

CONSTANTS
    MaxText,        \* bound: edits
    Nothing         \* None

ASSUME EditorRuntimeAssumption ==
    MaxText \in Nat /\ Nothing \notin 0..MaxText

VARIABLES
    revision,       \* EditorWorkspace.revision
    run,            \* the run_file coroutine; `preparing` while it is not "none",
                    \* `replaced` when `generation` is no longer the one it took
    pending,        \* the snapshot of the submitted run
    exiting, faulted,
    stops,          \* scheduled stop coroutines that have not begun
    loaded,         \* state.loaded_source, as the interface shows it
    \* history
    submitted,      \* by request of this session, the snapshot it was made with
    serviceLoaded   \* SessionService.loaded_source in the process

editorVars == <<revision, run, pending, exiting, faulted, stops, loaded,
                   submitted, serviceLoaded>>
allVars == <<vars, editorVars>>

NoRun == [pc |-> "none", captured |-> Nothing, replaced |-> FALSE]
Preparing == run.pc # "none"
Closing == closePc # "open"
\* generation += 1: the coroutine under way, if any, belongs to the session before.
Replaced == [run EXCEPT !.replaced = Preparing]

-----------------------------------------------------------------------------
(* The process, and what it has loaded.                                    *)

\* service.execute of a load sets loaded_source; a fault resets the session,
\* and a new process has none.
ServiceLoaded ==
    IF child.pc = "awaitCommit" /\ child'.pc = "executing" THEN submitted[child.request]
    ELSE IF child'.pc = "faulted" THEN Nothing
    ELSE serviceLoaded

\* What a step of the process or of poll brings for the editor.
Follows ==
    /\ serviceLoaded' = ServiceLoaded
    /\ UNCHANGED <<revision, run, pending, exiting, faulted, stops, loaded, submitted>>

Process ==
    /\ Serve \/ Feed \/ Interrupt \/ Crash \/ Killed \/ PollStart
             \/ PollEvent \/ PollEventsDone \/ PollOutput \/ PollEnd \/ Terminate \/ CloseJoined
    /\ Follows

-----------------------------------------------------------------------------
(* Editing.                                                                *)

\* source_changed.
Edit ==
    /\ revision < MaxText /\ revision' = revision + 1
    /\ UNCHANGED <<vars, run, pending, exiting, faulted, stops, loaded, submitted,
                   serviceLoaded>>

-----------------------------------------------------------------------------
(* run_file.                                                               *)

\* Up to the first await: the workspace is told of the text, and captured.
RunFile ==
    /\ UiFree /\ ~Preparing /\ ~busy /\ ~exiting
    /\ run' = [pc |-> "capturing", captured |-> revision, replaced |-> FALSE]
    /\ UNCHANGED <<vars, revision, pending, exiting, faulted, stops, loaded,
                   submitted, serviceLoaded>>

Captured ==
    /\ run.pc = "capturing"
    /\ \/ run' = [run EXCEPT !.pc = "waiting"]
       \/ run' = NoRun                              \* OSError, UnicodeError
    /\ UNCHANGED <<vars, revision, pending, exiting, faulted, stops, loaded,
                   submitted, serviceLoaded>>

\* The loop that waits for the worker ends: it did not start in time, it has
\* been replaced, or the source has changed.
RunGivesUp ==
    /\ pollPc = "idle" /\ run.pc = "waiting"
    /\ \/ ~ready \/ run.replaced
       \/ run.captured # revision
    /\ run' = NoRun
    /\ UNCHANGED <<vars, revision, pending, exiting, faulted, stops, loaded,
                   submitted, serviceLoaded>>

RunStillWanted == ready /\ ~run.replaced /\ run.captured = revision
RunSubmits ==
    /\ pollPc = "idle" /\ run.pc = "waiting" /\ RunStillWanted
    /\ Submit("load")
    /\ pending' = run.captured /\ run' = NoRun
    /\ submitted' = [submitted EXCEPT ![request'] = run.captured]
    /\ UNCHANGED <<revision, exiting, faulted, stops, loaded, serviceLoaded>>

-----------------------------------------------------------------------------
(* submit_command and the completion preview.                              *)

SubmitCommand ==
    /\ UiFree /\ ~waitingInput /\ ~Preparing
    /\ Submit("command")
    /\ submitted' = [submitted EXCEPT ![request'] = Nothing]
    /\ UNCHANGED <<revision, run, pending, exiting, faulted, stops, loaded, serviceLoaded>>

\* While a stop is under way too, until the queues are closed.
AnswerInput ==
    /\ pollPc = "idle" \/ Closing
    /\ closePc # "closed" /\ ProvideInput
    /\ UNCHANGED editorVars

AskPreview ==
    /\ UiFree /\ Complete
    /\ UNCHANGED editorVars

-----------------------------------------------------------------------------
(* poll: the events of a batch, the ends last.                             *)

\* A preparation is committed if the workspace is still at its revision.
StillCurrent == pending # Nothing /\ pending = revision

Ended == \E k \in Ends \cup {"cancelled"} : InBatch(k)
FaultNow == Ended /\ (faulted \/ InBatch("reset"))

ForgetsPending == Ended
SessionInterrupted == InBatch("interrupted")
SessionEnded == InBatch("closed") \/ InBatch("interrupted")
ForgetsDead == SessionEnded
Forgets == SessionEnded \/ InBatch("reset")
Handle ==
    /\ TakeBatch(StillCurrent)
    /\ ready' = (ready /\ ~FaultNow)
    /\ faulted' = ((faulted \/ InBatch("reset")) /\ ~Ended)
    /\ loaded' = IF Forgets THEN Nothing
                 ELSE IF InBatch("loaded") THEN pending ELSE loaded
    /\ pending' = IF ForgetsPending THEN Nothing ELSE pending
    /\ stops' = stops \cup (IF SessionEnded THEN {"stop"} ELSE {})
                      \cup (IF FaultNow THEN {"fault"} ELSE {})
    /\ UNCHANGED <<revision, run, exiting, submitted, serviceLoaded>>

-----------------------------------------------------------------------------
(* stop, reset, recover_runtime_fault, and quit.                           *)

\* The user stops or resets; the coroutine runs later.
AskStop ==
    /\ pollPc = "idle" /\ ~exiting
    /\ stops' = stops \cup {"stop"}
    /\ UNCHANGED <<vars, revision, run, pending, exiting, faulted, loaded, submitted, serviceLoaded>>

StopWhileClosing(kind) ==
    /\ pollPc = "idle" /\ kind \in stops /\ Closing
    /\ stops' = stops \ {kind}
    /\ UNCHANGED <<vars, revision, run, pending, exiting, faulted, loaded, submitted, serviceLoaded>>

StopBegins(kind) ==
    /\ kind \in stops /\ UiFree
    /\ CloseStart
    /\ stops' = stops \ {kind}
    /\ run' = Replaced
    /\ UNCHANGED <<revision, pending, exiting, faulted, loaded, submitted,
                   serviceLoaded>>

\* While the close thread drains, the results go to the transcript only.
StopDrains == CloseTake /\ UNCHANGED editorVars

\* After the close thread: nothing of the old session is kept.
MayReplaceAfterQuit == closePc = "closed"
MayReplace == closePc = "closed" /\ ~exiting
StopReplaces ==
    /\ MayReplace
    /\ Restart
    /\ pending' = Nothing /\ loaded' = Nothing /\ faulted' = FALSE
    /\ submitted' = [r \in 1..MaxRequest |-> Nothing] /\ serviceLoaded' = Nothing
    /\ UNCHANGED <<revision, run, exiting, stops>>

\* on_unmount: close and leave; a stop under way does not start a session.
Quit ==
    /\ pollPc = "idle" \/ Closing
    /\ ~exiting /\ exiting' = TRUE
    /\ run' = Replaced
    /\ IF closePc = "open" THEN CloseStart ELSE UNCHANGED vars
    /\ UNCHANGED <<revision, pending, faulted, stops, loaded,
                   submitted, serviceLoaded>>

-----------------------------------------------------------------------------
EditorInit ==
    /\ Init
    /\ revision = 0 /\ run = NoRun /\ pending = Nothing
    /\ exiting = FALSE /\ faulted = FALSE /\ stops = {}
    /\ loaded = Nothing /\ submitted = [r \in 1..MaxRequest |-> Nothing]
    /\ serviceLoaded = Nothing

StopKinds == {"stop", "fault"}
StopSome == \E kind \in StopKinds : StopBegins(kind) \/ StopWhileClosing(kind)
Coroutines == Captured \/ RunGivesUp \/ RunSubmits
EditorNext ==
    \/ Process \/ Edit \/ RunFile \/ Coroutines
    \/ SubmitCommand \/ AnswerInput \/ AskPreview \/ Handle
    \/ AskStop \/ StopSome
    \/ StopDrains \/ StopReplaces \/ Quit

EditorSpec == EditorInit /\ [][EditorNext]_allVars

\* The interface loop runs its timers, messages and coroutines, the close
\* thread gets on, the process gets on while it lives, and the user answers.
EditorFairness ==
    /\ WF_allVars(Serve /\ Follows) /\ WF_allVars(PollStart /\ Follows)
    /\ WF_allVars(Feed /\ Follows) /\ SF_allVars(AnswerInput)
    /\ WF_allVars((PollEvent \/ PollEventsDone \/ PollOutput \/ PollEnd) /\ Follows)
    /\ WF_allVars((Terminate \/ CloseJoined) /\ Follows)
    /\ WF_allVars(Handle) /\ WF_allVars(StopDrains) /\ WF_allVars(StopReplaces)
    /\ SF_allVars(StopSome) /\ SF_allVars(Coroutines)
FairEditorSpec == EditorSpec /\ EditorFairness

-----------------------------------------------------------------------------
(* Properties, beside those of SessionWorker.                              *)

EditorTypeOK ==
    /\ revision \in 0..MaxText
    /\ run \in [pc : {"none", "capturing", "waiting"}, replaced : BOOLEAN,
                captured : 0..MaxText \cup {Nothing}]
    /\ run.pc = "none" => run = NoRun
    /\ pending \in 0..MaxText \cup {Nothing} /\ loaded \in 0..MaxText \cup {Nothing}
    /\ exiting \in BOOLEAN /\ faulted \in BOOLEAN /\ stops \subseteq StopKinds
    /\ submitted \in [1..MaxRequest -> 0..MaxText \cup {Nothing}]
    /\ serviceLoaded \in 0..MaxText \cup {Nothing}

\* The snapshot that a commit compares with the workspace is the one the
\* process has prepared, whatever was stopped, replaced or given up before.
PendingIsPrepared ==
    /\ (closePc = "open" /\ InBatch("prepared")) => pending = submitted[RequestOf("prepared")]
    /\ (closePc = "open" /\ child.pc = "awaitCommit") => pending = submitted[child.request]

\* A "loaded" event always finds the snapshot it is about.
LoadedIsKnown == (closePc = "open" /\ InBatch("loaded")) => pending # Nothing

\* Commits and loads are decided about the text they belong to.
PendingIsKnown == EditorTypeOK /\ PendingIsPrepared /\ LoadedIsKnown

\* When nothing is under way between a session and the editor, the editor shows
\* as loaded what the session has loaded.
Quiet == /\ child.pc \in {"boot", "idle", "previewing"} /\ commands = <<>>
         /\ events = <<>> /\ batch = <<>> /\ completions = <<>> /\ closePc = "open"
ShownIsLoaded == Quiet => loaded = serviceLoaded

\* PollEnd takes the lock of the drop count.  A process that dies between
\* DropChunk and CountDrop leaves it locked, and the interface waits for good;
\* this is what the properties below have to assume.
DiesUnlocked == [](~Alive => ~dropLock)

\* Every submission is answered, or its session found dead, however output and
\* events overtake each other and whatever is dropped.
SubmissionAnswered == DiesUnlocked => (busy ~> ~busy)

\* Every stop ends in a fresh session that the editor can use, unless it quits.
StopReplacesSession == DiesUnlocked => ((closePc = "joining") ~> (closePc = "open" \/ exiting))

\* A session that was ready and died is noticed, and its replacement begins.
DeathIsNoticed == DiesUnlocked => ((ready /\ ~Alive) ~> Closing)

\* The editor never stays without a session that works: one that dies is
\* noticed, one that is stopped is replaced.
SessionIsReplaced == StopReplacesSession /\ DeathIsNoticed

\* Quit ends without a process left behind.
QuitEnds == exiting ~> [](~Alive)

\* worker.py:376 says of close: "Try interruption, then bound exit using process
\* termination and join."  It is not kept when the process is terminated between
\* DropChunk and CountDrop.
CloseReturns == (closePc = "joining") ~> (closePc = "open" \/ exiting)
=============================================================================
