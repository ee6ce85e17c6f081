---------------------------- MODULE TaskChannels ----------------------------
(***************************************************************************)
(* The tasks of one `concurrent' block that share a channel: the channel   *)
(* of module Channel, the queue of the scheduler, and who owns the values  *)
(* on their way (runtime/vm.py: CHANNEL_SEND, CHANNEL_RECEIVE,             *)
(* CHANNEL_CLOSE, the resumption of both, the frames an ended task leaves; *)
(* runtime/concurrency.py: TaskControlBlock, TaskScope, Channel).          *)
(*                                                                         *)
(* A blocked operation resolves in the quantum of another task and is      *)
(* applied later, when its own task runs again; until then the operands    *)
(* are still on the stack of the blocked frame.  In between its task may   *)
(* be cancelled, by a program or by the failure of a sibling.              *)
(*                                                                         *)
(* Only the reference counts of the values and of the channel are kept of  *)
(* the frames.  Operators named after an original with a slip (KeepPlace,  *)
(* WakeNobody, ...) are twins no action uses.                              *)
(***************************************************************************)
EXTENDS Channel, Integers, FiniteSets

CONSTANTS
    MaxTask,    \* number of tasks the block has spawned
    by,         \* the task whose program contains each operation
    Features    \* what else these programs do

Task == 1..MaxTask
Nobody == 0
NoOp == "no operation"

ASSUME TaskAssumption ==
    /\ MaxTask \in Nat \ {0}
    /\ MaxTask < MaxHandles
    /\ by \in [Op -> Task]
    /\ NoOp \notin Op
    /\ Features \subseteq {"cancel", "panic", "close", "yield", "timeout"}
    /\ OwnWake

VARIABLES
    state,      \* TaskState
    cancelReq,  \* TaskControlBlock.cancellation_requested
    pending,    \* the operation in activation.pending_concurrency
    runnable,   \* Scheduler.runnable
    current,    \* Scheduler.current_task
    holds,      \* the received values each task still has an occurrence of
    refs,       \* reference count of each value sent so far
    rootHandle  \* handles the root frame keeps until the block is joined

chanVars == <<closed, queues, handles, destroyed, status, got, released,
              sendLog, recvLog>>
taskVars == <<state, cancelReq, pending, runnable, current, holds, refs, rootHandle>>
allVars == <<capacity, chanVars, taskVars>>

Ended == {"completed", "failed", "cancelled"}
terminal(t) == state[t] \in Ended
Live == {t \in Task : ~terminal(t)}
Waiting(op) == status[op] = "waiting"

\* Scheduler.schedule for the tasks of some operations, in this order.
schedule(q, ops) == q \o [i \in DOMAIN ops |-> by[ops[i]]]

\* The values discarded with a frame lose one occurrence each.
Discard(V, r) == [v \in SendOp |-> IF v \in V THEN r[v] - 1 ELSE r[v]]

-----------------------------------------------------------------------------
(* The end of a task: _finish and, after a failure, the cancellation of    *)
(* the siblings in spawn order.                                            *)

\* request_cancel of the tasks in T: a blocked one leaves the channel and is
\* queued; one that is queued or not started learns of it when it runs.
KeepPlace(T, st, q) ==
    /\ cancelReq' = [t \in Task |-> cancelReq[t] \/ t \in T]
    /\ status' = st
    /\ runnable' = q
    /\ UNCHANGED <<senders, receivers>>

request_cancel(T, st, q) ==
    LET staying == {op \in Op : by[op] \notin T}
        leaving == {op \in Op : Waiting(op) /\ by[op] \in T}
    IN  /\ cancelReq' = [t \in Task |-> cancelReq[t] \/ t \in T]
        /\ status' = [op \in Op |-> IF op \in leaving THEN "cancelled" ELSE st[op]]
        /\ senders' = Kept(senders, staying)
        /\ receivers' = Kept(receivers, staying)
        /\ runnable' = q \o Ascending(MaxTask, {by[op] : op \in leaving})

KeepBuffer(h, r) ==
    /\ handles' = handles - h
    /\ destroyed' = (destroyed \/ handles' = 0)
    /\ UNCHANGED buffer
    /\ released' = IF handles' = 0 THEN released \o buffer ELSE released
    /\ refs' = IF handles' = 0 THEN Discard(ToSet(buffer), r) ELSE r

\* The function value of the task, with the handle it captured, is released
\* (h = 1) and the last handle takes the buffered values with it.
ReleaseHandles(h, r) ==
    /\ handles' = handles - h
    /\ destroyed' = (destroyed \/ handles' = 0)
    /\ buffer' = IF handles' = 0 THEN <<>> ELSE buffer
    /\ released' = IF handles' = 0 THEN released \o buffer ELSE released
    /\ refs' = IF handles' = 0 THEN Discard(ToSet(buffer), r) ELSE r

\* Task t ends and discards the values V; r, st and q are refs, status and
\* runnable as this step has left them.
_finish(t, outcome, V, h, r, st, q) ==
    /\ state' = [state EXCEPT ![t] = outcome]
    /\ pending' = [pending EXCEPT ![t] = NoOp]
    /\ holds' = [holds EXCEPT ![t] = @ \ V]
    /\ request_cancel(IF outcome = "failed" THEN Live \ {t} ELSE {}, st, q)
    /\ ReleaseHandles(h, Discard(V, r))
    /\ current' = Nobody
    /\ UNCHANGED <<closed, got, rootHandle>>

\* _discard_frame: what is on the stack and in the locals.  The operands of a
\* suspended send are on the stack, whether the send was committed or not.
FrameOf(t) == holds[t] \cup ({pending[t]} \cap SendOp)

Unlogged == UNCHANGED <<sendLog, recvLog>>

-----------------------------------------------------------------------------
(* The scheduler loop.                                                     *)

Driving == current = Nobody /\ Live # {}

\* A cancelled task closes its frames; one that never ran has none, and the
\* function value it was to call is dropped with the thunk.
StepCancelled(t) ==
    /\ cancelReq[t]
    /\ IF state[t] = "pending"
       THEN _finish(t, "cancelled", {}, 0, refs, status, Tail(runnable))
       ELSE _finish(t, "cancelled", FrameOf(t), 1, refs, status, Tail(runnable))
    /\ Unlogged

Runs(t) ==
    /\ state' = [state EXCEPT ![t] = "running"]
    /\ pending' = [pending EXCEPT ![t] = NoOp]
    /\ runnable' = Tail(runnable)
    /\ current' = t
    /\ UNCHANGED <<cancelReq, refs, rootHandle>>
    /\ UNCHANGED chanVars

StepStart(t) ==
    /\ ~cancelReq[t] /\ pending[t] = NoOp
    /\ Runs(t)
    /\ UNCHANGED holds

\* The operands are popped: the value of a send without a release, because it
\* now belongs to the channel or to the receiver.
StepSent(t) ==
    /\ ~cancelReq[t] /\ pending[t] \in SendOp
    /\ status[pending[t]] = "sent"
    /\ Runs(t)
    /\ UNCHANGED holds

ReceiveUnowned(t) ==
    /\ ~cancelReq[t] /\ pending[t] \in RecvOp
    /\ status[pending[t]] \in {"received", "eof"}
    /\ Runs(t)
    /\ UNCHANGED holds

StepReceived(t) ==
    /\ ~cancelReq[t] /\ pending[t] \in RecvOp
    /\ status[pending[t]] \in {"received", "eof"}
    /\ Runs(t)
    /\ holds' = [holds EXCEPT ![t] = @ \cup ({got[pending[t]]} \ {NoValue})]

\* The channel was closed over the blocked send.  The fault is raised before
\* the frame is protected: the frame is popped, but never discarded.
StepFaulted(t) ==
    /\ ~cancelReq[t] /\ pending[t] \in SendOp
    /\ status[pending[t]] = "faulted"
    /\ _finish(t, "failed", {}, 0, refs, status, Tail(runnable))
    /\ Unlogged

step(t) ==
    /\ Driving
    /\ runnable # <<>> /\ t = Head(runnable)
    /\ StepCancelled(t) \/ StepStart(t) \/ StepSent(t) \/ StepReceived(t)
       \/ StepFaulted(t)

\* run_until finds nothing to run: the root frame faults, and its fault
\* cancels the children of the block it closes.
Deadlock ==
    /\ Driving /\ runnable = <<>>
    /\ request_cancel(Live, status, runnable)
    /\ UNCHANGED <<closed, buffer, handles, destroyed, got, released>>
    /\ UNCHANGED <<state, pending, current, holds, refs, rootHandle>>
    /\ Unlogged

-----------------------------------------------------------------------------
(* The instructions of the running task.                                   *)

Idle(t, op) == current = t /\ by[op] = t /\ status[op] = "idle"

\* The value of a send is made when its instruction runs.
Made(v) == refs' = [refs EXCEPT ![v] = 1]

\* The wakes of the operations in q that this step resolved.
WakeNobody(q) == runnable' = runnable

Wake(q) ==
    runnable' = schedule(runnable, Kept(q, {op \in Op : status'[op] # "waiting"}))

\* CHANNEL_SEND that does not block.
Sends(t) ==
    \E v \in SendOp :
        /\ Idle(t, v) /\ Made(v)
        /\ SendToReceiver(v) \/ SendToBuffer(v)
        /\ Wake(receivers)
        /\ UNCHANGED <<state, cancelReq, pending, current, holds, rootHandle>>

SendWaits(t) ==
    \E v \in SendOp :
        /\ Idle(t, v) /\ Made(v)
        /\ SendBlocks(v)
        /\ pending' = [pending EXCEPT ![t] = v]
        /\ current' = Nobody
        /\ UNCHANGED <<state, cancelReq, runnable, holds, rootHandle>>

\* Both operands are popped when ClosedFault is raised: nobody releases them.
SendFaults(t) ==
    \E v \in SendOp :
        /\ Idle(t, v) /\ closed
        /\ sendLog' = Append(sendLog, v) /\ UNCHANGED recvLog
        /\ _finish(t, "failed", holds[t], 0, [refs EXCEPT ![v] = 1],
                   [status EXCEPT ![v] = "faulted"], runnable)

\* CHANNEL_RECEIVE that does not block.
Receives(t) ==
    \E r \in RecvOp :
        /\ Idle(t, r)
        /\ ReceiveBuffered(r) \/ ReceiveFromSender(r) \/ ReceiveClosed(r)
        /\ Wake(senders)
        /\ holds' = [holds EXCEPT ![t] = @ \cup ({got'[r]} \ {NoValue})]
        /\ UNCHANGED <<state, cancelReq, pending, current, refs, rootHandle>>

ReceiveWaits(t) ==
    \E r \in RecvOp :
        /\ Idle(t, r)
        /\ ReceiveBlocks(r)
        /\ pending' = [pending EXCEPT ![t] = r]
        /\ current' = Nobody
        /\ UNCHANGED <<state, cancelReq, runnable, holds, refs, rootHandle>>

\* CHANNEL_CLOSE wakes every blocked operation, the senders first.
CloseChannel(t) ==
    /\ "close" \in Features
    /\ current = t
    /\ Close
    /\ Wake(senders \o receivers)
    /\ UNCHANGED <<state, cancelReq, pending, current, holds, refs, rootHandle>>

\* A received value is consumed: its occurrence is released.
Drop(t) ==
    /\ current = t
    /\ \E v \in holds[t] :
          /\ holds' = [holds EXCEPT ![t] = @ \ {v}]
          /\ refs' = [refs EXCEPT ![v] = @ - 1]
    /\ UNCHANGED chanVars
    /\ UNCHANGED <<state, cancelReq, pending, runnable, current, rootHandle>>

Yield(t) ==
    /\ "yield" \in Features
    /\ current = t
    /\ runnable' = Append(runnable, t)
    /\ current' = Nobody
    /\ UNCHANGED chanVars
    /\ UNCHANGED <<state, cancelReq, pending, holds, refs, rootHandle>>

\* CANCEL_TASK on another task of the block
Cancel(t) ==
    /\ "cancel" \in Features
    /\ current = t
    /\ \E u \in Live \ {t} : request_cancel({u}, status, runnable)
    /\ UNCHANGED <<closed, buffer, handles, destroyed, got, released>>
    /\ UNCHANGED <<state, pending, current, holds, refs, rootHandle>>
    /\ Unlogged

\* The values a task still holds become its outputs.
Return(t) ==
    /\ current = t
    /\ _finish(t, "completed", {}, 1, refs, status, runnable)
    /\ Unlogged

Panic(t) ==
    /\ "panic" \in Features
    /\ current = t
    /\ _finish(t, "failed", FrameOf(t), 1, refs, status, runnable)
    /\ Unlogged

\* TIMEOUT_TASK on an unfinished task.  The driver has no branch for the
\* suspension it returns: it pops the frame and takes the marker for the list
\* of results, which is a TypeError.
Timeout(t) ==
    /\ "timeout" \in Features
    /\ current = t
    /\ Live # {t}
    /\ _finish(t, "failed", {}, 1, refs, status, runnable)
    /\ Unlogged

Instruction(t) ==
    \/ Sends(t)
    \/ SendWaits(t)
    \/ SendFaults(t)
    \/ Receives(t)
    \/ ReceiveWaits(t)
    \/ CloseChannel(t)
    \/ Drop(t)
    \/ Yield(t)
    \/ Cancel(t)
    \/ Return(t)
    \/ Panic(t)
    \/ Timeout(t)

\* The block is joined; the handle the root frame kept is released last.
LeaveBlock ==
    /\ Live = {} /\ rootHandle = 1
    /\ rootHandle' = 0
    /\ ReleaseHandles(1, refs)
    /\ UNCHANGED <<closed, senders, receivers, status, got, sendLog, recvLog>>
    /\ UNCHANGED <<state, cancelReq, pending, runnable, current, holds>>

Left == Live = {} /\ rootHandle = 0
Done == Left /\ UNCHANGED allVars

-----------------------------------------------------------------------------
\* The block has spawned its tasks; the root frame may have moved its own
\* handle into the last of them.
TInit ==
    /\ capacity \in Capacities
    /\ closed = FALSE
    /\ buffer = <<>> /\ senders = <<>> /\ receivers = <<>>
    /\ rootHandle \in {0, 1}
    /\ handles = MaxTask + rootHandle
    /\ destroyed = FALSE
    /\ status = [op \in Op |-> "idle"]
    /\ got = [r \in RecvOp |-> NoValue]
    /\ released = <<>> /\ sendLog = <<>> /\ recvLog = <<>>
    /\ state = [t \in Task |-> "pending"]
    /\ cancelReq = [t \in Task |-> FALSE]
    /\ pending = [t \in Task |-> NoOp]
    /\ runnable = [t \in Task |-> t]
    /\ current = Nobody
    /\ holds = [t \in Task |-> {}]
    /\ refs = [v \in SendOp |-> 0]

Quantum == \E t \in Task : step(t) \/ Instruction(t)
TNext == (Quantum \/ Deadlock \/ LeaveBlock \/ Done) /\ UNCHANGED capacity

TSpec == TInit /\ [][TNext]_allVars

\* The executor goes on while it has something to do.
LiveTSpec ==
    /\ TSpec
    /\ WF_allVars(Quantum /\ UNCHANGED capacity)
    /\ WF_allVars(Deadlock /\ UNCHANGED capacity)
    /\ WF_allVars(LeaveBlock /\ UNCHANGED capacity)

-----------------------------------------------------------------------------
(* Properties                                                              *)

\* Types, those of the channel included, and the discipline of the run queue.
TTypeOK ==
    /\ TypeOK
    /\ state \in [Task -> {"pending", "running"} \cup Ended]
    /\ cancelReq \in [Task -> BOOLEAN]
    /\ pending \in [Task -> Op \cup {NoOp}]
    /\ runnable \in Seq(Task) /\ IsInjective(runnable)
    /\ \A t \in ToSet(runnable) : ~terminal(t) /\ t # current
    /\ current \in Task \cup {Nobody}
    /\ current # Nobody => state[current] = "running" /\ ~cancelReq[current]
    /\ holds \in [Task -> SUBSET SendOp]
    /\ refs \in [SendOp -> Int]
    /\ rootHandle \in {0, 1}

\* A registration in a queue of the channel is that of a live task that is
\* suspended on it and is not being cancelled: no value is ever handed to a
\* task that cannot take it any more, and no sender is woken for nothing.
RegistrationsAreLive ==
    \A op \in ToSet(senders) \cup ToSet(receivers) :
        /\ pending[by[op]] = op
        /\ state[by[op]] = "running" /\ ~cancelReq[by[op]]

\* The channel's queues and the tasks' suspensions agree both ways: who waits
\* is queued once, and who is queued waits and can still be served.
RegistrationsAgree == TTypeOK /\ WaitingIsQueued /\ RegistrationsAreLive

\* What the scheduler reports as a deadlock is one: every live task waits at
\* the channel, it is open, and no two of them could serve each other
\* (docs/language.md 25.14).
DeadlockIsReal ==
    Driving /\ runnable = <<>> =>
        /\ ~closed
        /\ senders = <<>> \/ receivers = <<>>
        /\ \A t \in Live : pending[t] # NoOp /\ Waiting(pending[t])

\* A value is in one place at a time: buffered, still with its sender, on
\* its way to a receiver, or with one task, whatever is cancelled or fails
\* between the commit of a transfer and its application.
Places(v) ==
    [tasks   |-> {t \in Task : v \in holds[t]},
     onItsWay |-> {r \in RecvOp : got[r] = v /\ pending[by[r]] = r},
     stored  |-> {i \in DOMAIN buffer : buffer[i] = v},
     operand |-> {op \in {v} : pending[by[v]] = v /\ status[v] # "sent"}]

Occurrences(v) ==
    Cardinality(Places(v).tasks) + Cardinality(Places(v).onItsWay)
    + Cardinality(Places(v).stored) + Cardinality(Places(v).operand)

OnePlace == \A v \in SendOp : Occurrences(v) <= 1

\* The reference count of a value is the number of its occurrences, unless
\* its send was refused by the close or one of the two sides of its transfer
\* was cancelled.
CountsAgree ==
    \A v \in SendOp :
        \/ refs[v] = Occurrences(v)
        \/ status[v] = "faulted"
        \/ status[v] = "sent" /\ state[by[v]] = "cancelled"
        \/ \E r \in RecvOp : got[r] = v /\ state[by[r]] = "cancelled"

\* A value on its way has one owner, and its count says so; no count is off by
\* more than the one release too many of a refused or cancelled transfer.
ValuesAreOwned ==
    /\ OnePlace
    /\ CountsAgree
    /\ \A v \in SendOp : refs[v] \in {-1, 0, 1}

\* If the tasks do not yield for ever, the block is left in the end: a deadlock
\* is reported, and every blocked task is reached by the cancellation that
\* follows.
BlockIsLeft == <>[][\A t \in Task : ~Yield(t)]_allVars => <>Left

-----------------------------------------------------------------------------
(* What the documentation says and the code does not keep.                 *)

\* docs/language.md:5882: "the destructor fires exactly once, when the true
\* final occurrence [...] releases": what a task holds is not destroyed.
HeldIsAlive == \A t \in Task : \A v \in holds[t] : refs[v] > 0

\* tests/test_concurrency_vm_quanta.py:294: cancelling a task releases the
\* function value it was given, and with it the handles that one captured.
CancelledLetsGo ==
    handles <= rootHandle
               + Cardinality({t \in Task : state[t] # "cancelled"})

\* docs/maintenance/runtime-system.md:2660: after a timeout "the waiter observes
\* the resulting terminal state"; a program of timeouts has no failed task.
TimeoutsWait == \A t \in Task : state[t] # "failed"
=============================================================================
