--------------------------- MODULE SessionWorker ---------------------------
(***************************************************************************)
(* One session process and the object that owns it (sessions/worker.py,    *)
(* SessionWorker and _serve): commands, program input and output through   *)
(* bounded queues, lifecycle events through a pipe, a stop signal, and a   *)
(* shared count of dropped output.                                         *)
(*                                                                         *)
(* The owner is the user interface thread; its methods are atomic to it,   *)
(* but the process runs between any two reads of `poll`.  The process is   *)
(* its main thread and the feeder thread of its output queue.  A client of *)
(* the owner behaves as EditorRuntime does: one poll or call at a time,    *)
(* every "prepared" answered with one commit, every "input" with one line. *)
(***************************************************************************)
EXTENDS Naturals, Sequences, FiniteSets, SequencesExt, Queues

CONSTANTS
    CommandLimit,   \* maxsize of the commands queue; 2 in the code
    OutputLimit,    \* maxsize of the output queue; 128 in the code
    BatchLimit,     \* output events one poll takes; 64 in the code
    MaxRequest,     \* bound: requests of one session
    MaxChunks,      \* bound: writes and input requests of one submission
    Faults          \* what may end the process: "crash" (an exception of the
                    \* loop), "kill" (the system, or a fault in native code)

ASSUME SessionWorkerAssumption ==
    /\ CommandLimit \in Nat \ {0, 1} /\ OutputLimit \in Nat /\ BatchLimit \in Nat \ {0}
    /\ MaxRequest \in Nat /\ MaxChunks \in Nat
    /\ Faults \subseteq {"crash", "kill"}

VARIABLES
    \* SessionWorker
    ready, busy, previewPending,
    request,        \* number of the latest request
    received,       \* _received: output events taken, by request
    completions,    \* _completions: ends that wait for their output
    reportedDrops,  \* _reported_drops
    pollPc,         \* how far the current call of poll is
    batch,          \* its result so far
    closePc,        \* how far close is
    waitingInput,   \* EditorRuntime.waiting_input: a line is asked for
    \* between owner and process
    commands, inputs, events,
    outBuffer,      \* output with the feeder thread, by request
    outPipe,        \* output the owner can take
    stopSignal,
    dropped,        \* the shared count of dropped chunks ...
    dropLock,       \* ... and whether the process holds its lock
    \* _serve
    child

parentVars == <<ready, busy, previewPending, request, received, completions, reportedDrops>>
clientVars == <<pollPc, batch, closePc, waitingInput>>
outVars == <<outBuffer, outPipe, dropped, dropLock>>
vars == <<parentVars, clientVars, commands, inputs, events, outVars, stopSignal, child>>

Message(op, r, current) == [op |-> op, request |-> r, current |-> current]
Event(kind, r, n) == [kind |-> kind, request |-> r, written |-> n]

Ends == {"finished", "failed"}
Alive == child.pc \notin {"exited", "killed"}

-----------------------------------------------------------------------------
(* The process.                                                            *)

Emit(kind) == events' = Append(events, Event(kind, child.request, child.written))
ChildGoes(pc) == child' = [child EXCEPT !.pc = pc]

Boot ==
    /\ child.pc = "boot"
    /\ ChildGoes("idle") /\ Emit("ready")
    /\ UNCHANGED <<parentVars, clientVars, commands, inputs, outVars, stopSignal>>

\* commands.get at the head of the loop: one place of the queue is free again.
Get(op, pc, outcome) ==
    /\ child.pc = "idle" /\ commands # <<>> /\ Head(commands).op = op
    /\ commands' = Tail(commands)
    /\ child' = [pc |-> pc, op |-> op, request |-> Head(commands).request,
                 chunks |-> 0, written |-> 0, outcome |-> outcome, resume |-> "idle"]
    /\ UNCHANGED <<parentVars, clientVars, inputs, outVars, stopSignal>>

GetShutdown == Get("shutdown", "closing", "closed") /\ UNCHANGED events
GetPreview == Get("complete", "previewing", "finished") /\ UNCHANGED events
GetJob ==
    /\ \E op \in {"load", "command"} : Get(op, "preparing", "finished")
    /\ events' = Append(events, Event("started", Head(commands).request, 0))

Preview ==
    /\ child.pc = "previewing"
    /\ ChildGoes("idle") /\ Emit("completion")
    /\ UNCHANGED <<parentVars, clientVars, commands, inputs, outVars, stopSignal>>

\* session.prepare, or a session command, and what is told of it.
Prepare ==
    /\ child.pc = "preparing"
    /\ \/ /\ child.op = "load"
          /\ \/ Emit("blocked") /\ child' = [child EXCEPT !.pc = "reporting", !.outcome = "failed"]
             \/ Emit("prepared") /\ ChildGoes("awaitCommit")
       \/ /\ child.op = "command"
          /\ \/ Emit("accepted") /\ ChildGoes("executing")
             \/ Emit("accepted") /\ ChildGoes("reporting")
             \/ /\ child' = [child EXCEPT !.pc = "reporting", !.outcome = "failed"]
                /\ UNCHANGED events
    /\ UNCHANGED <<parentVars, clientVars, commands, inputs, outVars, stopSignal>>

\* The answer to "prepared".  Execution may still be refused, when a file has
\* changed on disk since the capture.
GetCommit ==
    /\ child.pc = "awaitCommit" /\ commands # <<>>
    /\ commands' = Tail(commands)
    /\ \/ /\ Head(commands) = Message("commit", child.request, TRUE)
          /\ ChildGoes("executing") /\ Emit("loaded")
       \/ ChildGoes("idle") /\ Emit("cancelled")
    /\ UNCHANGED <<parentVars, clientVars, inputs, outVars, stopSignal>>

\* _Output.write of one chunk: queued, or counted as dropped under the lock of
\* the shared counter.
CanWrite == child.pc \in {"executing", "reporting"} /\ child.chunks < MaxChunks
Write ==
    /\ CanWrite /\ Len(outBuffer) + Len(outPipe) < OutputLimit
    /\ outBuffer' = Append(outBuffer, child.request)
    /\ child' = [child EXCEPT !.chunks = @ + 1, !.written = @ + 1]
    /\ UNCHANGED <<parentVars, clientVars, commands, inputs, events, outPipe,
                   dropped, dropLock, stopSignal>>

DropChunk ==
    /\ CanWrite /\ Len(outBuffer) + Len(outPipe) >= OutputLimit
    /\ dropLock' = TRUE
    /\ child' = [child EXCEPT !.pc = "dropping", !.resume = child.pc]
    /\ UNCHANGED <<parentVars, clientVars, commands, inputs, events, outBuffer,
                   outPipe, dropped, stopSignal>>

CountDrop ==
    /\ child.pc = "dropping"
    /\ dropped' = dropped + 1 /\ dropLock' = FALSE
    /\ child' = [child EXCEPT !.pc = child.resume, !.chunks = @ + 1]
    /\ UNCHANGED <<parentVars, clientVars, commands, inputs, events, outBuffer,
                   outPipe, stopSignal>>

AskInput ==
    /\ child.pc = "executing" /\ child.chunks < MaxChunks
    /\ Emit("input") /\ child' = [child EXCEPT !.pc = "awaitInput", !.chunks = @ + 1]
    /\ UNCHANGED <<parentVars, clientVars, commands, inputs, outVars, stopSignal>>

GetInput ==
    /\ child.pc = "awaitInput" /\ inputs > 0
    /\ inputs' = inputs - 1 /\ ChildGoes("executing")
    /\ UNCHANGED <<parentVars, clientVars, commands, events, outVars, stopSignal>>

\* The end of session.execute; a fault resets the session and says so first.  A
\* ValueError of the program itself passes for a load that was refused.
ExecuteDone ==
    /\ child.pc = "executing"
    /\ \/ Emit("finished") /\ ChildGoes("idle")
       \/ child.op = "load" /\ Emit("cancelled") /\ ChildGoes("idle")
       \/ Emit("reset") /\ child' = [child EXCEPT !.pc = "faulted", !.outcome = "failed"]
    /\ UNCHANGED <<parentVars, clientVars, commands, inputs, outVars, stopSignal>>

Report ==
    /\ child.pc \in {"reporting", "faulted"}
    /\ Emit(child.outcome) /\ ChildGoes("idle")
    /\ UNCHANGED <<parentVars, clientVars, commands, inputs, outVars, stopSignal>>

\* KeyboardInterrupt in the main thread.  It does not end a blocking get.
Interruptible == child.pc \in {"previewing", "preparing", "executing", "reporting",
                               "faulted", "dropping"}
Interrupt ==
    /\ stopSignal /\ Interruptible
    /\ child' = [child EXCEPT !.pc = "closing", !.outcome = "interrupted"]
    /\ dropLock' = FALSE
    /\ UNCHANGED <<parentVars, clientVars, commands, inputs, events, outBuffer,
                   outPipe, dropped, stopSignal>>

Crash ==
    /\ "crash" \in Faults
    /\ child.pc \in {"previewing", "preparing", "executing"}
    /\ child' = [child EXCEPT !.pc = "closing", !.outcome = "closed"]
    /\ UNCHANGED <<parentVars, clientVars, commands, inputs, events, outVars, stopSignal>>

\* The finally block: cancel_join_thread gives up what the feeder still holds.
Leave ==
    /\ child.pc = "closing"
    /\ Emit(child.outcome) /\ ChildGoes("exited")
    /\ outBuffer' = <<>>
    /\ UNCHANGED <<parentVars, clientVars, commands, inputs, outPipe, dropped,
                   dropLock, stopSignal>>

\* The process is gone at once, whatever it was doing and holding.
Die ==
    /\ Alive
    /\ ChildGoes("killed")
    /\ outBuffer' = <<>>
    /\ UNCHANGED <<parentVars, clientVars, commands, inputs, events, outPipe,
                   dropped, dropLock, stopSignal>>
Killed == "kill" \in Faults /\ Die

\* The feeder thread of the output queue.
Feed ==
    /\ Alive /\ outBuffer # <<>>
    /\ outPipe' = Append(outPipe, Head(outBuffer)) /\ outBuffer' = Tail(outBuffer)
    /\ UNCHANGED <<parentVars, clientVars, commands, inputs, events, dropped,
                   dropLock, stopSignal, child>>

-----------------------------------------------------------------------------
(* The owner's calls.                                                      *)

\* The interface thread is free, and no Stop is under way.
UiFree == pollPc = "idle" /\ closePc = "open"

Put(message) == commands' = Append(commands, message)

MaySubmitBusy == ready
MaySubmit == ready /\ ~busy
Submit(op) ==
    /\ MaySubmit /\ request < MaxRequest
    /\ request' = request + 1 /\ Put(Message(op, request + 1, TRUE))
    /\ busy' = TRUE
    /\ UNCHANGED <<ready, previewPending, received, completions, reportedDrops,
                   clientVars, inputs, events, outVars, stopSignal, child>>

MayComplete == ready /\ ~busy /\ ~previewPending
Complete ==
    /\ MayComplete /\ request < MaxRequest
    /\ request' = request + 1 /\ Put(Message("complete", request + 1, TRUE))
    /\ previewPending' = TRUE
    /\ UNCHANGED <<ready, busy, received, completions, reportedDrops, clientVars,
                   inputs, events, outVars, stopSignal, child>>

ProvideInput ==
    /\ waitingInput
    /\ inputs' = inputs + 1 /\ waitingInput' = FALSE
    /\ UNCHANGED <<parentVars, pollPc, batch, closePc, commands, events, outVars,
                   stopSignal, child>>

-----------------------------------------------------------------------------
(* poll: all events, then some output, then the ends whose output is in.   *)

PollStart ==
    /\ pollPc = "idle" /\ closePc \in {"open", "draining"}
    /\ pollPc' = "events" /\ batch' = <<>>
    /\ UNCHANGED <<parentVars, closePc, waitingInput, commands, inputs, events,
                   outVars, stopSignal, child>>

\* The events that end a submission, or the session, without output to wait for.
ReleasesLoad(e) == e.kind \in {"cancelled", "interrupted", "closed", "blocked"}
Releases(e) == e.kind \in {"cancelled", "interrupted", "closed"}

PollEvent ==
    /\ pollPc = "events" /\ events # <<>>
    /\ LET e == Head(events) IN
       /\ events' = Tail(events)
       /\ IF e.kind \in Ends
          THEN /\ completions' = Append(completions, e)
               /\ UNCHANGED <<batch, ready, busy, previewPending>>
          ELSE /\ batch' = Append(batch, e)
               /\ previewPending' = (previewPending /\ e.kind # "completion")
               /\ ready' = (ready \/ e.kind = "ready")
               /\ busy' = (busy /\ ~Releases(e))
               /\ UNCHANGED completions
    /\ UNCHANGED <<request, received, reportedDrops, pollPc, closePc, waitingInput,
                   commands, inputs, outVars, stopSignal, child>>

\* Nothing more to read; at the end of the pipe the session is given up.
PollEventsDone ==
    /\ pollPc = "events" /\ events = <<>>
    /\ pollPc' = "output"
    /\ IF Alive
       THEN UNCHANGED <<batch, ready, busy>>
       ELSE /\ batch' = IF ready \/ busy THEN Append(batch, Event("closed", 0, 0)) ELSE batch
            /\ ready' = FALSE /\ busy' = FALSE
    /\ UNCHANGED <<previewPending, request, received, completions, reportedDrops,
                   closePc, waitingInput, commands, inputs, events, outVars, stopSignal, child>>

OutputTaken == Cardinality({i \in 1..Len(batch) : batch[i].kind = "output"})
PollOutput ==
    /\ pollPc = "output" /\ outPipe # <<>> /\ OutputTaken < BatchLimit
    /\ outPipe' = Tail(outPipe)
    /\ received' = [received EXCEPT ![Head(outPipe)] = @ + 1]
    /\ batch' = Append(batch, Event("output", Head(outPipe), 0))
    /\ UNCHANGED <<ready, busy, previewPending, request, completions, reportedDrops,
                   pollPc, closePc, waitingInput, commands, inputs, events, outBuffer,
                   dropped, dropLock, stopSignal, child>>

\* Ends whose output has all been taken, then the count under its lock.
AnyTime(e) == TRUE
MoreIn(e) == received[e.request] > e.written
AllIn(e) == received[e.request] >= e.written
PollEnd ==
    /\ pollPc = "output" /\ (outPipe = <<>> \/ OutputTaken >= BatchLimit)
    /\ ~dropLock
    /\ pollPc' = "report"
    /\ LET done == Kept(completions, {e \in ToSet(completions) : AllIn(e)}) IN
       /\ completions' = Kept(completions, {e \in ToSet(completions) : ~AllIn(e)})
       /\ received' = [r \in DOMAIN received |->
                         IF \E i \in 1..Len(done) : done[i].request = r THEN 0 ELSE received[r]]
       /\ busy' = (busy /\ done = <<>>)
       /\ batch' = batch \o done \o
                   (IF dropped > reportedDrops THEN <<Event("truncated", 0, 0)>> ELSE <<>>)
    /\ reportedDrops' = dropped
    /\ UNCHANGED <<ready, previewPending, request, closePc, waitingInput, commands,
                   inputs, events, outVars, stopSignal, child>>

InBatch(kind) == \E i \in 1..Len(batch) : batch[i].kind = kind
RequestOf(kind) == batch[CHOOSE i \in 1..Len(batch) : batch[i].kind = kind].request

\* What the client does with a result while it does not close the session; the
\* one thing it may change beside what is said here is `ready`.
TakeBatch(current) ==
    /\ pollPc = "report" /\ closePc = "open"
    /\ pollPc' = "idle" /\ batch' = <<>>
    /\ waitingInput' = ( /\ waitingInput \/ InBatch("input")
                         /\ ~\E k \in Ends \cup {"cancelled"} : InBatch(k) )
    /\ IF InBatch("prepared")
       THEN Put(Message("commit", RequestOf("prepared"), current))
       ELSE UNCHANGED commands
    /\ UNCHANGED <<busy, previewPending, request, received, completions, reportedDrops,
                   closePc, inputs, events, outVars, stopSignal, child>>

-----------------------------------------------------------------------------
(* close, in a thread of its own; the interface does not poll meanwhile.   *)

CloseStart ==
    /\ UiFree /\ closePc' = "joining"
    /\ stopSignal' = (Alive /\ busy)
    /\ IF Alive /\ ~busy THEN Put(Message("shutdown", 0, TRUE)) ELSE UNCHANGED commands
    /\ UNCHANGED <<parentVars, pollPc, batch, waitingInput, inputs, events, outVars, child>>

\* The grace period is over: terminate, and kill what survives that.
Terminate == closePc = "joining" /\ Die

CloseJoined ==
    /\ closePc = "joining" /\ ~Alive
    /\ closePc' = "draining"
    /\ UNCHANGED <<parentVars, pollPc, batch, waitingInput, commands, inputs, events,
                   outVars, stopSignal, child>>

\* Polled until a poll brings nothing.
CloseTake ==
    /\ closePc = "draining" /\ pollPc = "report"
    /\ pollPc' = "idle" /\ batch' = <<>>
    /\ closePc' = IF batch = <<>> THEN "closed" ELSE "draining"
    /\ UNCHANGED <<parentVars, waitingInput, commands, inputs, events, outVars,
                   stopSignal, child>>

-----------------------------------------------------------------------------
\* start, on a new SessionWorker: nothing of the old one is left.
NewChild == [pc |-> "boot", op |-> "load", request |-> 0, chunks |-> 0,
             written |-> 0, outcome |-> "finished", resume |-> "idle"]

Init ==
    /\ ready = FALSE /\ busy = FALSE /\ previewPending = FALSE /\ request = 0
    /\ received = [r \in 1..MaxRequest |-> 0] /\ completions = <<>>
    /\ reportedDrops = 0
    /\ pollPc = "idle" /\ batch = <<>> /\ closePc = "open" /\ waitingInput = FALSE
    /\ commands = <<>> /\ inputs = 0 /\ events = <<>>
    /\ outBuffer = <<>> /\ outPipe = <<>> /\ stopSignal = FALSE
    /\ dropped = 0 /\ dropLock = FALSE /\ child = NewChild

Restart ==
    /\ ready' = FALSE /\ busy' = FALSE /\ previewPending' = FALSE /\ request' = 0
    /\ received' = [r \in 1..MaxRequest |-> 0] /\ completions' = <<>>
    /\ reportedDrops' = 0
    /\ pollPc' = "idle" /\ batch' = <<>> /\ closePc' = "open" /\ waitingInput' = FALSE
    /\ commands' = <<>> /\ inputs' = 0 /\ events' = <<>>
    /\ outBuffer' = <<>> /\ outPipe' = <<>> /\ stopSignal' = FALSE
    /\ dropped' = 0 /\ dropLock' = FALSE /\ child' = NewChild

Serve ==
    \/ Boot \/ GetShutdown \/ GetPreview \/ GetJob \/ Preview \/ Prepare \/ GetCommit
    \/ Write \/ DropChunk \/ CountDrop \/ AskInput \/ GetInput \/ ExecuteDone \/ Report
    \/ Leave

-----------------------------------------------------------------------------
(* Properties.                                                             *)

Kinds == {"ready", "started", "completion", "blocked", "prepared", "accepted",
          "loaded", "cancelled", "input", "reset", "finished", "failed",
          "interrupted", "closed", "output", "truncated"}
Working == {"preparing", "awaitCommit", "executing", "awaitInput", "dropping",
            "reporting", "faulted"}
ChildPcs == Working \cup {"boot", "idle", "previewing", "closing", "exited", "killed"}

TypeOK ==
    /\ ready \in BOOLEAN /\ busy \in BOOLEAN /\ previewPending \in BOOLEAN
    /\ request \in 0..MaxRequest /\ received \in [1..MaxRequest -> Nat]
    /\ reportedDrops \in Nat /\ dropped \in Nat /\ dropLock \in BOOLEAN
    /\ pollPc \in {"idle", "events", "output", "report"}
    /\ closePc \in {"open", "joining", "draining", "closed"}
    /\ waitingInput \in BOOLEAN /\ stopSignal \in BOOLEAN /\ inputs \in Nat
    /\ commands \in Seq([op : {"load", "command", "complete", "commit", "shutdown"},
                         request : 0..MaxRequest, current : BOOLEAN])
    /\ \A q \in {events, completions, batch} :
          q \in Seq([kind : Kinds, request : 0..MaxRequest, written : Nat])
    /\ outBuffer \in Seq(1..MaxRequest) /\ outPipe \in Seq(1..MaxRequest)
    /\ child \in [pc : ChildPcs, op : {"load", "command", "complete", "shutdown"},
                  request : 0..MaxRequest, chunks : Nat, written : Nat,
                  outcome : Ends \cup {"closed", "interrupted"}, resume : ChildPcs]

\* No put_nowait of the owner ever raises queue.Full: the two places suffice
\* for a submission and a preview, for a commit, and for a shutdown, and the
\* one place of the input queue for a line.
QueuesNeverFull == Len(commands) <= CommandLimit /\ inputs <= 1

\* At most one submission is under way, and `busy` says so exactly: it is in
\* the queue, in the process, or ended with the end not yet taken by poll.
Serving == child.pc \notin {"closing", "exited", "killed"}
Count(q, kinds, field(_)) == Cardinality({i \in 1..Len(q) : field(q[i]) \in kinds})
Kind(e) == e.kind
OpOf(m) == m.op
Outstanding ==
    Count(commands, {"load", "command"}, OpOf)
    + (IF child.pc \in Working THEN 1 ELSE 0)
    + Count(events, Ends \cup {"cancelled"}, Kind) + Len(completions)
OneSubmission == Serving => Outstanding = (IF busy THEN 1 ELSE 0)

\* Two readers share the queue of commands: the loop never finds a commit
\* there, and what waits for a commit finds nothing but its own.
MessagesFit ==
    commands # <<>> =>
      /\ child.pc = "idle" => Head(commands).op # "commit"
      /\ child.pc = "awaitCommit" =>
            Head(commands).op = "commit" /\ Head(commands).request = child.request

\* The owner's picture of the process is right: what it puts fits the queues,
\* finds the reader it is meant for, and is one submission at a time.
ProtocolHolds == TypeOK /\ QueuesNeverFull /\ OneSubmission /\ MessagesFit

\* When the end of a submission is reported, all of its output has been:
\* none is still with the feeder or in the queue.
OutputBeforeEnd ==
    \A i \in 1..Len(batch) : batch[i].kind \in Ends =>
      \A j \in 1..Len(outBuffer \o outPipe) : (outBuffer \o outPipe)[j] # batch[i].request
=============================================================================
