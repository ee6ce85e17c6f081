----------------------------- MODULE Scheduler -----------------------------
(***************************************************************************)
(* The cooperative task scheduler of the Valiance runtime                  *)
(* (runtime/concurrency.py: TaskControlBlock, TaskScope, Scheduler) driven *)
(* by the concurrency instructions of the virtual machine (runtime/vm.py:  *)
(* SCOPE_BEGIN, SCOPE_END, SPAWN_CALL, WAIT_TASK, WAIT_TASKS_VECTORISED,   *)
(* CANCEL_TASK, the resumption of a suspended activation, and              *)
(* VirtualMachine.run).                                                    *)
(*                                                                         *)
(* One action is one instruction of the running frame or one decision of   *)
(* the scheduler loop.  The program is arbitrary: the running task, or the *)
(* root frame, picks its next instruction nondeterministically.  A task    *)
(* keeps the executor until it blocks, yields or ends (`current'), so a    *)
(* quantum is a run of actions of one task.  The root frame runs only      *)
(* between the quanta it drives itself with run_until.                     *)
(*                                                                         *)
(* A few operators below have a twin that differs by a plausible slip      *)
(* (ClearWakes, FailAlone, FinalizeUsed, ...).  No action uses a twin: it  *)
(* stands in for the original to show that a property would notice.        *)
(***************************************************************************)
EXTENDS Naturals, SequencesExt, Queues

CONSTANTS
    MaxTask,    \* bound: number of tasks the program spawns
    MaxScope,   \* bound: number of `concurrent' blocks entered
    Features    \* the instructions programs of this instance may use

AllFeatures == {"scope", "wait", "group", "cancel", "yield", "panic", "catch",
                "rootCatch"}

ASSUME SchedulerAssumption ==
    /\ MaxTask \in Nat \ {0}
    /\ MaxScope \in Nat
    /\ Features \subseteq AllFeatures

Task  == 1..MaxTask       \* Scheduler.next_task_id counts from 1
Scope == 0..MaxScope
Root  == 0                \* the root frame, in the places a task may stand
RootScope == 0            \* Scheduler.root_scope

VARIABLES
    state,          \* TaskState of each task, "unborn" before its spawn
    scopeOf,        \* TaskControlBlock.scope
    cancelReq,      \* TaskControlBlock.cancellation_requested
    blocked,        \* blocked_reason is not None
    blockedCancel,  \* the suspension whose cleanup blocked_cancel would run
    pending,        \* activation.pending_concurrency of the innermost frame
    activeScopes,   \* TaskControlBlock.active_scopes
    waiters,        \* TaskControlBlock.waiters, as the tasks they requeue
    scopeState,     \* ScopeState, "unborn" before its SCOPE_BEGIN
    children,       \* TaskScope.children; spawn order is the order of ids
    owner,          \* TaskScope.owner_task, Root for None
    closeWaiter,    \* the owner's wake is in TaskScope.close_waiters
    runnable,       \* Scheduler.runnable
    current,        \* Scheduler.current_task, Root for None
    rootPhase,      \* what the root frame is doing
    rootTargets,    \* the tasks the root frame waits for
    rootStack,      \* VirtualMachine._scope_stack
    rootClosing,    \* the scope the root frame is closing
    blocks,         \* how many `concurrent' blocks the running code is inside
    strayed         \* no action reads it: tasks whose code and scopes went apart

taskVars  == <<state, scopeOf, cancelReq, blocked, blockedCancel, pending, waiters>>
scopeVars == <<scopeState, children, owner, closeWaiter>>
rootVars  == <<rootPhase, rootTargets, rootStack, rootClosing>>
blockVars == <<blocks, strayed>>
vars == <<taskVars, activeScopes, scopeVars, runnable, current, rootVars, blockVars>>

-----------------------------------------------------------------------------
(* Suspensions: what the driver yields in a TaskBlocked marker.            *)

NoEvent == [kind |-> "none", targets |-> {}, scopes |-> <<>>, primary |-> FALSE]

TaskWait(T)  == [NoEvent EXCEPT !.kind = "wait",  !.targets = T]
GroupWait(T) == [NoEvent EXCEPT !.kind = "group", !.targets = T]

\* primary: a fail-fast unwind that raises the failure once the scopes joined
ScopeClose(ss, primary) ==
    [NoEvent EXCEPT !.kind = "close", !.scopes = ss, !.primary = primary]

Ended == {"completed", "failed", "cancelled"}
Live  == {"pending", "running"}

terminal(t) == state[t] \in Ended
Born == {t \in Task : state[t] # "unborn"}

LiveChildren(s) == {c \in children[s] : ~terminal(c)}
StartedChildrenTerminal(s) == \A c \in children[s] : state[c] # "running"
children_terminal(s) == LiveChildren(s) = {}

\* child_faults, and pending_failure when it is not None, belong to these
FailedChildren(s) == {c \in children[s] : state[c] = "failed"}

InOrder(T) == Ascending(MaxTask, T)
Nested(ss, F(_)) == FlattenSeq([i \in DOMAIN ss |-> F(ss[i])])

-----------------------------------------------------------------------------
(* Scheduler.schedule, over a sequence of wakes: each task is queued once, *)
(* and only while it can still run.                                        *)

schedule(q, wakes, st) ==
    LET queue[n \in 0..Len(wakes)] ==
            IF n = 0 THEN q
            ELSE LET before == queue[n - 1] IN
                 IF wakes[n] \in ToSet(before) \/ st[wakes[n]] \notin Live
                 THEN before ELSE Append(before, wakes[n])
    IN  queue[Len(wakes)]

(***************************************************************************)
(* The tasks that one request_cancel reaches, in the order they are        *)
(* requeued.  Cancelling a task that is blocked closing scopes first       *)
(* cancels their unfinished children (TaskScope.cancel_close_waiter).      *)
(***************************************************************************)
request_cancel[t \in Task] ==
    LET Kids(s) == Nested(InOrder(LiveChildren(s)), LAMBDA c : request_cancel[c])
    IN  Nested(blockedCancel[t].scopes, Kids) \o <<t>>

Cascade(T) == Nested(InOrder(T), LAMBDA t : request_cancel[t])
WokenBy(C) == Kept(C, {t \in Task : blocked[t]})

\* The cleanups in blocked_cancel: a wake leaves the lists it was put on.
ClearWakes(W, D) ==
    [u \in Task |-> IF \E x \in D : u \in blockedCancel[x].targets
                    THEN <<>> ELSE W[u]]

RemoveWakes(W, D) ==
    [u \in Task |-> Kept(W[u],
        {x \in Task : x \notin D \/ u \notin blockedCancel[x].targets})]
RemoveCloseWakes(W, D) ==
    [s \in Scope |-> W[s] /\ \A x \in D : s \notin ToSet(blockedCancel[x].scopes)]

\* The effect of a cancellation cascade on a step that ends no task.
Cancelling(C, q, W, CW) ==
    /\ cancelReq' = [x \in Task |-> cancelReq[x] \/ x \in ToSet(C)]
    /\ waiters' = RemoveWakes(W, ToSet(C))
    /\ closeWaiter' = RemoveCloseWakes(CW, ToSet(C))
    /\ runnable' = schedule(q, WokenBy(C), state)

\* The blocked metadata a cascade clears when this step suspends no task.
Unblock(C) ==
    /\ blocked' = [x \in Task |-> blocked[x] /\ x \notin ToSet(C)]
    /\ blockedCancel' = [x \in Task |->
            IF x \in ToSet(C) THEN NoEvent ELSE blockedCancel[x]]

\* A failed child requeues the task that owns its scope.
owner_wake(s) == IF owner[s] = Root THEN <<>> ELSE <<owner[s]>>

(***************************************************************************)
(* TaskControlBlock._finish and TaskScope._child_finished.  q is the queue *)
(* left by this step so far, W and CW the wake lists, and C the            *)
(* cancellations the step has made, those of a failure's siblings among    *)
(* them.  A failed child requeues its scope's owner; the last child of a   *)
(* closing scope fires the close waiter; the task's waiters come last.     *)
(***************************************************************************)
_finish(t, outcome, q, W, CW, C) ==
    LET s    == scopeOf[t]
        hit  == ToSet(C)
        after == [state EXCEPT ![t] = outcome]
        W2   == RemoveWakes(W, hit)
        CW2  == RemoveCloseWakes(CW, hit)
        joined == scopeState[s] = "closing" /\ LiveChildren(s) = {t}
        wakes ==
            (IF outcome = "failed" THEN owner_wake(s) ELSE <<>>)
            \o (IF joined /\ CW2[s] THEN <<owner[s]>> ELSE <<>>)
            \o W2[t]
    IN  /\ state' = after
        /\ cancelReq' = [x \in Task |-> cancelReq[x] \/ x \in hit]
        /\ blockedCancel' = [x \in Task |->
                IF x \in hit \cup {t} THEN NoEvent ELSE blockedCancel[x]]
        /\ blocked' = [x \in Task |->
                blocked[x] /\ x \notin hit \cup ToSet(wakes) \cup {t}]
        /\ pending' = [pending EXCEPT ![t] = NoEvent]
        /\ waiters' = [W2 EXCEPT ![t] = <<>>]
        /\ closeWaiter' = [CW2 EXCEPT ![s] = @ /\ ~joined]
        /\ runnable' = schedule(q, WokenBy(C) \o wakes, after)
        /\ current' = Root
        /\ UNCHANGED <<scopeOf, owner>>

Complete(t) == _finish(t, "completed", runnable, waiters, closeWaiter, <<>>)

FailAlone(t, q, W, CW, C) == _finish(t, "failed", q, W, CW, C)

\* A failure cancels the unfinished siblings, in spawn order, after C.
FailAfter(t, q, W, CW, C) ==
    _finish(t, "failed", q, W, CW, C \o Cascade(LiveChildren(scopeOf[t]) \ {t}))

Fail(t, q) == FailAfter(t, q, waiters, closeWaiter, <<>>)

SwallowCancel(t, q, W, CW, C) ==
    /\ Cancelling(C, Append(q, t), W, CW)
    /\ Unblock(C)
    /\ current' = Root
    /\ UNCHANGED <<state, scopeOf, pending, owner>>

\* _finish_cancelled, or a CancelledFault that leaves the task's frames.
FinishCancelled(t, q, W, CW, C) == _finish(t, "cancelled", q, W, CW, C)

\* What waiting for ended tasks raises in task t: the stored fault.
Raise(t, T, q) ==
    IF \E u \in T : state[u] = "failed"
    THEN Fail(t, q)
    ELSE FinishCancelled(t, q, waiters, closeWaiter, <<>>)

Raises(T) == \E u \in T : state[u] \in {"failed", "cancelled"}

(***************************************************************************)
(* A fault raised in the code of x meets a handler of a frame that is       *)
(* inside b of the blocks (_handle_panic, _propagate_frame_error).  Control *)
(* goes on there; the scope stack, now ss, is left as it is, so the ends of *)
(* the blocks jumped over are never reached.  Whether there is a handler,   *)
(* and where, is the program's affair.  lost: the fault also gave up the    *)
(* close of scopes that had left the stack.                                 *)
(***************************************************************************)
Stray(x, apart) == strayed' = IF apart THEN strayed \cup ({x} \cap Task) ELSE strayed

Caught(x, ss, lost) ==
    /\ (IF x = Root THEN "rootCatch" ELSE "catch") \in Features
    /\ \E b \in 0..blocks[x] :
          /\ blocks' = [blocks EXCEPT ![x] = b]
          /\ Stray(x, lost \/ Len(ss) # b + 1)

\* TaskBlocked at the end of a quantum; C as above.
Suspend(t, event, C) ==
    /\ blocked' = [x \in Task |-> IF x = t THEN TRUE
                                  ELSE blocked[x] /\ x \notin ToSet(C)]
    /\ blockedCancel' = [x \in Task |-> IF x = t THEN event
            ELSE IF x \in ToSet(C) THEN NoEvent ELSE blockedCancel[x]]
    /\ pending' = [pending EXCEPT ![t] = event]
    /\ current' = Root

\* TaskScope.begin_close of a set of scopes.
begin_close(S) ==
    scopeState' = [s \in Scope |->
        IF s \in S /\ scopeState[s] # "closed" THEN "closing" ELSE scopeState[s]]

FinalizeUsed(S) ==
    /\ scopeState' = [s \in Scope |->
            IF s \in S /\ children[s] # {} THEN "closed" ELSE scopeState[s]]
    /\ children' = [s \in Scope |-> IF s \in S THEN {} ELSE children[s]]

\* TaskScope.finalize_close of a set of scopes whose children have ended.
finalize_close(S) ==
    /\ scopeState' = [s \in Scope |-> IF s \in S THEN "closed" ELSE scopeState[s]]
    /\ children' = [s \in Scope |-> IF s \in S THEN {} ELSE children[s]]

\* TaskScope.spawn: the next free id, queued as a pending child of s.
Fresh == {t \in Task : state[t] = "unborn" /\ \A u \in Task : u < t => u \in Born}
FreshScope == {s \in Scope : scopeState[s] = "unborn"
                             /\ \A r \in Scope : r < s => scopeState[r] # "unborn"}

Spawned(c, s) ==
    /\ state' = [state EXCEPT ![c] = "pending"]
    /\ scopeOf' = [scopeOf EXCEPT ![c] = s]
    /\ children' = [children EXCEPT ![s] = @ \cup {c}]
    /\ activeScopes' = [activeScopes EXCEPT ![c] = <<s>>]
    /\ runnable' = Append(runnable, c)
    /\ UNCHANGED <<cancelReq, blocked, blockedCancel, pending, waiters,
                   scopeState, owner, closeWaiter>>

SpawnUntilClosed(c, s) == scopeState[s] # "closed" /\ Spawned(c, s)
spawn(c, s) == scopeState[s] = "open" /\ Spawned(c, s)

-----------------------------------------------------------------------------
(* The scheduler loop: run_until, step and the head of TaskControlBlock.run *)

\* The predicate each run_until of the root frame drives to.
predicate ==
    CASE rootPhase \in {"wait", "groupJoin"} -> \A u \in rootTargets : terminal(u)
      [] rootPhase = "group" -> \/ \A u \in rootTargets : terminal(u)
                                \/ \E u \in rootTargets : state[u] = "failed"
      [] rootPhase \in {"scopeEnd", "leave", "exit"} -> children_terminal(rootClosing)
      [] OTHER -> TRUE

Driving == current = Root /\ ~predicate

\* The innermost open scope of t with a pending failure, 0 if there is none.
FailedDepth(t) ==
    SelectLastInSeq(activeScopes[t],
        LAMBDA s : owner[s] = t /\ FailedChildren(s) # {})

\* run() of a task whose cancellation was requested
StepCancelled(t) ==
    /\ cancelReq[t]
    /\ FinishCancelled(t, Tail(runnable), waiters, closeWaiter, <<>>)
    /\ UNCHANGED <<activeScopes, scopeState, children, rootVars, blockVars>>

(***************************************************************************)
(* The head of _run_activation: a failed scope unwinds its owner before     *)
(* anything else, q being the queue without it.  The owner's own suspension *)
(* is cancelled first, then every inner scope.  Once all of them joined the *)
(* failure is raised, and ends the task or is caught in a calling frame.    *)
(***************************************************************************)
Unwinding(t, q) ==
    LET depth  == FailedDepth(t)
        unwind == Reverse(SubSeq(activeScopes[t], depth, Len(activeScopes[t])))
        C      == Front(request_cancel[t])
                  \o Nested(Front(unwind), LAMBDA s : Cascade(LiveChildren(s)))
        open   == {s \in ToSet(unwind) : ~children_terminal(s)}
        W      == RemoveWakes(waiters, {t})
        CW     == RemoveCloseWakes(closeWaiter, {t})
        lost   == pending[t].scopes # <<>>
    IN  /\ ~cancelReq[t]
        /\ depth > 0
        /\ activeScopes' = [activeScopes EXCEPT ![t] = SubSeq(@, 1, depth - 1)]
        /\ \/ /\ open = {}
              /\ finalize_close(ToSet(unwind))
              /\ FailAfter(t, q, W, CW, C)
              /\ UNCHANGED blockVars
           \/ /\ open = {}
              /\ finalize_close(ToSet(unwind))
              /\ Caught(t, SubSeq(activeScopes[t], 1, depth - 1), lost)
              /\ Cancelling(C, q, W, CW)
              /\ Unblock(Append(C, t))
              /\ state' = [state EXCEPT ![t] = "running"]
              /\ pending' = [pending EXCEPT ![t] = NoEvent]
              /\ current' = t
              /\ UNCHANGED <<scopeOf, owner>>
           \/ /\ open # {}
              /\ begin_close(ToSet(unwind))
              /\ Cancelling(C, q, W, [s \in Scope |-> s \in open \/ CW[s]])
              /\ Suspend(t, ScopeClose(unwind, TRUE), C)
              /\ Stray(t, lost)
              /\ UNCHANGED <<state, scopeOf, children, owner, blocks>>
        /\ UNCHANGED rootVars

StepFailFast(t) == Unwinding(t, Tail(runnable))

\* The suspended operation is not ready: the same marker is yielded again.
StepNotReady(t) ==
    LET e == pending[t]
        stop == {u \in e.targets : ~terminal(u)}
        \* a group wait with a failed member cancels the unfinished members
        C == IF e.kind = "group" /\ \E u \in e.targets : state[u] = "failed"
             THEN Cascade(stop) ELSE <<>>
    IN  /\ ~cancelReq[t] /\ FailedDepth(t) = 0
        /\ \/ stop # {}
           \/ \E s \in ToSet(e.scopes) : ~children_terminal(s)
        /\ IF t \in ToSet(C)
           THEN FinishCancelled(t, Tail(runnable), waiters, closeWaiter, C)
           ELSE /\ Cancelling(C, Tail(runnable), waiters, closeWaiter)
                /\ Suspend(t, e, C)
                /\ UNCHANGED <<state, scopeOf, owner>>
        /\ UNCHANGED <<activeScopes, scopeState, children, rootVars, blockVars>>

\* The suspended operation is ready, or the task starts or goes on: it runs,
\* with the result or in the handler that catches the failure.
StepRun(t) ==
    LET e == pending[t]
        joined == ToSet(e.scopes)
        failed == e.primary \/ \E s \in joined : FailedChildren(s) # {}
        Go == /\ state' = [state EXCEPT ![t] = "running"]
              /\ pending' = [pending EXCEPT ![t] = NoEvent]
              /\ runnable' = Tail(runnable)
              /\ current' = t
              /\ UNCHANGED <<scopeOf, cancelReq, blocked, blockedCancel,
                             waiters, owner, closeWaiter>>
    IN  /\ ~cancelReq[t] /\ FailedDepth(t) = 0
        /\ \A u \in e.targets : terminal(u)
        /\ \A s \in joined : children_terminal(s)
        /\ finalize_close(joined)
        /\ \/ /\ IF failed THEN Fail(t, Tail(runnable))
                 ELSE IF Raises(e.targets) THEN Raise(t, e.targets, Tail(runnable))
                 ELSE Go
              /\ UNCHANGED blockVars
           \/ /\ failed \/ \E u \in e.targets : state[u] = "failed"
              /\ Caught(t, activeScopes[t], FALSE)
              /\ Go
        /\ UNCHANGED <<activeScopes, rootVars>>

step(t) ==
    /\ Driving
    /\ runnable # <<>> /\ t = Head(runnable)
    /\ state[t] \in Live
    /\ \/ StepCancelled(t)
       \/ StepFailFast(t)
       \/ StepNotReady(t)
       \/ StepRun(t)

-----------------------------------------------------------------------------
(* The instructions of the task that holds the executor.                   *)

\* A suspending instruction ends the quantum: the task blocks on event, or
\* is cancelled on the spot, with the wake it just registered left behind.
EndQuantum(t, event, W, CW) ==
    IF cancelReq[t]
    THEN FinishCancelled(t, runnable, W, CW, <<>>)
    ELSE /\ waiters' = W
         /\ closeWaiter' = CW
         /\ Suspend(t, event, <<>>)
         /\ UNCHANGED <<state, scopeOf, cancelReq, owner, runnable>>

\* SPAWN_CALL: a task spawns into the innermost scope it is active in.
Spawn(t) ==
    /\ current = t
    /\ \E s \in Scope, c \in Fresh :
          /\ s = Last(activeScopes[t])
          /\ spawn(c, s)
    /\ UNCHANGED <<current, rootVars, blockVars>>

\* "cannot spawn into a closing scope": the spawning task faults.
SpawnRefused(t) ==
    /\ current = t
    /\ scopeState[Last(activeScopes[t])] # "open"
    /\ Fail(t, runnable)
    /\ UNCHANGED <<activeScopes, scopeState, children, rootVars, blockVars>>

\* SCOPE_BEGIN
ScopeBegin(t) ==
    /\ "scope" \in Features
    /\ current = t
    /\ \E s \in FreshScope :
          /\ scopeState' = [scopeState EXCEPT ![s] = "open"]
          /\ owner' = [owner EXCEPT ![s] = t]
          /\ activeScopes' = [activeScopes EXCEPT ![t] = Append(@, s)]
    /\ blocks' = [blocks EXCEPT ![t] = @ + 1]
    /\ UNCHANGED <<taskVars, children, closeWaiter, runnable, current, rootVars, strayed>>

\* SCOPE_END: leave the innermost opened scope and wait for its children.
ScopeEnd(t) ==
    LET s == Last(activeScopes[t]) IN
    /\ current = t
    /\ blocks[t] > 0
    /\ Len(activeScopes[t]) > 1
    /\ activeScopes' = [activeScopes EXCEPT ![t] = Front(@)]
    /\ blocks' = [blocks EXCEPT ![t] = @ - 1]
    /\ IF children_terminal(s)
       THEN /\ finalize_close({s})
            /\ IF FailedChildren(s) # {}
               THEN Fail(t, runnable)
               ELSE UNCHANGED <<taskVars, owner, closeWaiter, runnable, current>>
       ELSE /\ begin_close({s})
            /\ EndQuantum(t, ScopeClose(<<s>>, FALSE), waiters,
                          [closeWaiter EXCEPT ![s] = TRUE])
            /\ UNCHANGED children
    /\ UNCHANGED <<rootVars, strayed>>

\* "scope end without matching begin": the scope of the block went with an
\* unwind whose failure was caught inside the block.
ScopeEndUnmatched(t) ==
    /\ current = t
    /\ blocks[t] > 0
    /\ Len(activeScopes[t]) = 1
    /\ Fail(t, runnable)
    /\ UNCHANGED <<activeScopes, scopeState, children, rootVars, blockVars>>

\* WAIT_TASK and WAIT_TASKS_VECTORISED on tasks T: the stored outcome is
\* observed at once, or a wake is left with every unfinished member.
WaitFor(t, T, event) ==
    /\ current = t
    /\ IF \A u \in T : terminal(u)
       THEN /\ Raises(T)
            /\ Raise(t, T, runnable)
       ELSE EndQuantum(t, event,
                [u \in Task |-> IF u \in T /\ ~terminal(u)
                                THEN Append(waiters[u], t) ELSE waiters[u]],
                closeWaiter)
    /\ UNCHANGED <<activeScopes, scopeState, children, rootVars, blockVars>>

Wait(t) == "wait" \in Features /\ \E u \in Born : WaitFor(t, {u}, TaskWait({u}))

WaitGroup(t) ==
    /\ "group" \in Features
    /\ \E T \in SUBSET Born : Cardinality(T) = 2 /\ WaitFor(t, T, GroupWait(T))

\* CANCEL_TASK
Cancel(t) ==
    /\ "cancel" \in Features
    /\ current = t
    /\ \E u \in Born :
          /\ ~terminal(u)
          /\ Cancelling(request_cancel[u], runnable, waiters, closeWaiter)
          /\ Unblock(request_cancel[u])
    /\ UNCHANGED <<state, scopeOf, pending, activeScopes, scopeState, children,
                   owner, current, rootVars, blockVars>>

YieldFirst(t) ==
    /\ "yield" \in Features /\ current = t /\ ~cancelReq[t]
    /\ runnable' = <<t>> \o runnable
    /\ current' = Root
    /\ UNCHANGED <<taskVars, owner, closeWaiter>>
    /\ UNCHANGED <<activeScopes, scopeState, children, rootVars, blockVars>>

\* The instruction budget is used up, or CANCEL_POLL: go to the queue's end.
Yield(t) ==
    /\ "yield" \in Features
    /\ current = t
    /\ IF cancelReq[t]
       THEN FinishCancelled(t, runnable, waiters, closeWaiter, <<>>)
       ELSE /\ runnable' = schedule(runnable, <<t>>, state)
            /\ current' = Root
            /\ UNCHANGED <<taskVars, owner, closeWaiter>>
    /\ UNCHANGED <<activeScopes, scopeState, children, rootVars, blockVars>>

\* A call returns and finds the cancellation the running task itself caused.
CancelPoll(t) ==
    /\ current = t
    /\ cancelReq[t]
    /\ FinishCancelled(t, runnable, waiters, closeWaiter, <<>>)
    /\ UNCHANGED <<activeScopes, scopeState, children, rootVars, blockVars>>

\* The spawned function returns, outside every block of its body.
Return(t) ==
    /\ current = t
    /\ blocks[t] = 0
    /\ Complete(t)
    /\ UNCHANGED <<activeScopes, scopeState, children, rootVars, blockVars>>

\* A panic, or the failure a wait raised at once, is caught in the same task.
Catch(t) ==
    /\ "panic" \in Features
    /\ current = t
    /\ Caught(t, activeScopes[t], FALSE)
    /\ UNCHANGED <<taskVars, activeScopes, scopeVars, runnable, current, rootVars>>

\* An uncaught panic leaves every frame of the task, SCOPE_END not reached.
Panic(t) ==
    /\ "panic" \in Features
    /\ current = t
    /\ Fail(t, runnable)
    /\ UNCHANGED <<activeScopes, scopeState, children, rootVars, blockVars>>

\* Every frame the task enters first unwinds a failed scope still on its stack.
Instruction(t) ==
    /\ FailedDepth(t) = 0
    /\ \/ Spawn(t)
       \/ SpawnRefused(t)
       \/ ScopeBegin(t)
       \/ ScopeEnd(t)
       \/ ScopeEndUnmatched(t)
       \/ Wait(t)
       \/ WaitGroup(t)
       \/ Cancel(t)
       \/ Yield(t)
       \/ CancelPoll(t)
       \/ Return(t)
       \/ Catch(t)
       \/ Panic(t)

\* A caught failure left another failed scope on the stack.
UnwindNext(t) == current = t /\ Unwinding(t, runnable)

-----------------------------------------------------------------------------
(* The root frame: it runs without an instruction budget, so its waits     *)
(* drive the scheduler on the spot.                                        *)

InRoot(phase) == current = Root /\ rootPhase = phase

RootUnchanged == UNCHANGED <<taskVars, activeScopes, scopeVars, runnable, current>>

\* The wait of the root frame raises, or its failure is caught in the frame.
RootRaises(fault, failed, goOn) ==
    \/ /\ rootPhase' = IF fault THEN "raised" ELSE goOn
       /\ UNCHANGED blockVars
    \/ /\ failed
       /\ Caught(Root, rootStack, FALSE)
       /\ rootPhase' = goOn

\* A caught panic of the root frame's own code.
RootCatch ==
    /\ "panic" \in Features
    /\ InRoot("body")
    /\ Caught(Root, rootStack, FALSE)
    /\ UNCHANGED rootVars
    /\ RootUnchanged

RootSpawn ==
    /\ InRoot("body")
    /\ \E s \in Scope, c \in Fresh :
          /\ s = Last(rootStack)
          /\ spawn(c, s)
    /\ UNCHANGED <<current, rootVars, blockVars>>

RootScopeBegin ==
    /\ "scope" \in Features
    /\ InRoot("body")
    /\ \E s \in FreshScope :
          /\ scopeState' = [scopeState EXCEPT ![s] = "open"]
          /\ owner' = [owner EXCEPT ![s] = Root]
          /\ rootStack' = Append(rootStack, s)
    /\ blocks' = [blocks EXCEPT ![Root] = @ + 1]
    /\ UNCHANGED <<taskVars, activeScopes, children, closeWaiter, runnable,
                   current, rootPhase, rootTargets, rootClosing, strayed>>

\* Scheduler.wait and wait_all start driving until the targets ended.
RootWait ==
    /\ InRoot("body")
    /\ \/ "wait" \in Features /\ rootPhase' = "wait"
          /\ \E u \in Born : rootTargets' = {u}
       \/ "group" \in Features /\ rootPhase' = "group"
          /\ \E T \in SUBSET Born : Cardinality(T) = 2 /\ rootTargets' = T
    /\ UNCHANGED <<rootStack, rootClosing, blockVars>>
    /\ RootUnchanged

RootCancel ==
    /\ "cancel" \in Features
    /\ InRoot("body")
    /\ \E u \in Born :
          /\ ~terminal(u)
          /\ Cancelling(request_cancel[u], runnable, waiters, closeWaiter)
          /\ Unblock(request_cancel[u])
    /\ UNCHANGED <<state, scopeOf, pending, activeScopes, scopeState, children,
                   owner, current, rootVars, blockVars>>

\* The wait is over: its result is pushed, or the stored fault is raised.
RootWaitDone ==
    /\ current = Root
    /\ rootPhase = "wait" \/ (rootPhase = "group" /\ \A u \in rootTargets : terminal(u))
    /\ predicate
    /\ RootRaises(Raises(rootTargets),
                  \E u \in rootTargets : state[u] = "failed", "body")
    /\ rootTargets' = {}
    /\ UNCHANGED <<rootStack, rootClosing>>
    /\ RootUnchanged

\* wait_all saw a failure, or its run_until faulted: cancel the rest, join it.
RootCancelGroup ==
    LET rest == {u \in rootTargets : ~terminal(u)} IN
    /\ rest # {}
    /\ Cancelling(Cascade(rest), runnable, waiters, closeWaiter)
    /\ Unblock(Cascade(rest))
    /\ rootPhase' = "groupJoin"
    /\ UNCHANGED <<state, scopeOf, pending, activeScopes, scopeState, children,
                   owner, current, rootTargets, rootStack, rootClosing, blockVars>>

RootGroupFailed == InRoot("group") /\ predicate /\ RootCancelGroup

RootGroupJoined ==
    /\ InRoot("groupJoin")
    /\ predicate
    /\ RootRaises(TRUE, \E u \in rootTargets : state[u] = "failed", "body")
    /\ rootTargets' = {}
    /\ UNCHANGED <<rootStack, rootClosing>>
    /\ RootUnchanged

\* SCOPE_END in the root frame: TaskScope.close drives to the join.
RootScopeEnd ==
    /\ InRoot("body")
    /\ blocks[Root] > 0 /\ Len(rootStack) > 1
    /\ blocks' = [blocks EXCEPT ![Root] = @ - 1]
    /\ begin_close({Last(rootStack)})
    /\ rootClosing' = Last(rootStack)
    /\ rootStack' = Front(rootStack)
    /\ rootPhase' = "scopeEnd"
    /\ UNCHANGED <<taskVars, activeScopes, children, owner, closeWaiter,
                   runnable, current, rootTargets, strayed>>

RootScopeJoined ==
    LET fault == FailedChildren(rootClosing) # {} IN
    /\ current = Root
    /\ rootPhase \in {"scopeEnd", "leave", "exit"}
    /\ predicate
    /\ finalize_close({rootClosing})
    /\ \/ rootPhase = "scopeEnd" /\ RootRaises(fault, fault, "body")
       \/ /\ rootPhase \in {"leave", "exit"}
          /\ rootPhase' = IF rootPhase = "leave" /\ ~fault THEN "left" ELSE "done"
          /\ UNCHANGED blockVars
    /\ rootClosing' = RootScope
    /\ UNCHANGED <<taskVars, activeScopes, owner, closeWaiter, runnable,
                   current, rootTargets, rootStack>>

\* run_until: nothing is runnable and the predicate does not hold.
RootDeadlock ==
    /\ Driving
    /\ runnable = <<>>
    /\ IF rootPhase = "group"
       THEN RootCancelGroup
       ELSE /\ rootPhase' = IF rootPhase \in {"leave", "exit"} THEN "done" ELSE "raised"
            /\ rootTargets' = {}
            /\ rootClosing' = RootScope
            /\ UNCHANGED <<rootStack, blockVars>>
            /\ RootUnchanged

(***************************************************************************)
(* The end of VirtualMachine.run.  A program that ends normally closes what *)
(* is on the stack, scopes that a caught fault left there and the root      *)
(* scope, one after the other; a failure among their children ends that.    *)
(* A fault closes the innermost scope of the stack with that fault as its   *)
(* body fault; close re-raises it, which leaves the loop: no other scope is *)
(* closed.                                                                  *)
(***************************************************************************)
RootExit ==
    LET s == Last(rootStack)
        C == Cascade(LiveChildren(s)) IN
    /\ current = Root
    /\ \/ /\ rootPhase = "left" \/ (rootPhase = "body" /\ blocks[Root] = 0)
          /\ rootPhase' = IF Len(rootStack) > 1 THEN "leave" ELSE "exit"
          /\ UNCHANGED <<cancelReq, waiters, closeWaiter, runnable,
                         blocked, blockedCancel>>
       \/ /\ rootPhase = "raised" \/ (rootPhase = "body" /\ "panic" \in Features)
          /\ rootPhase' = "exit"
          /\ Cancelling(C, runnable, waiters, closeWaiter)
          /\ Unblock(C)
    /\ begin_close({s})
    /\ rootClosing' = s
    /\ rootStack' = IF Len(rootStack) > 1 THEN Front(rootStack) ELSE rootStack
    /\ UNCHANGED <<state, scopeOf, pending, activeScopes, children, owner,
                   current, rootTargets, blockVars>>

RootFrame ==
    \/ RootSpawn
    \/ RootScopeBegin
    \/ RootWait
    \/ RootCancel
    \/ RootCatch
    \/ RootWaitDone
    \/ RootGroupFailed
    \/ RootGroupJoined
    \/ RootScopeEnd
    \/ RootScopeJoined
    \/ RootDeadlock
    \/ RootExit

-----------------------------------------------------------------------------
Init ==
    /\ state = [t \in Task |-> "unborn"]
    /\ scopeOf = [t \in Task |-> RootScope]
    /\ cancelReq = [t \in Task |-> FALSE]
    /\ blocked = [t \in Task |-> FALSE]
    /\ blockedCancel = [t \in Task |-> NoEvent]
    /\ pending = [t \in Task |-> NoEvent]
    /\ activeScopes = [t \in Task |-> <<>>]
    /\ waiters = [t \in Task |-> <<>>]
    /\ scopeState = [s \in Scope |-> IF s = RootScope THEN "open" ELSE "unborn"]
    /\ children = [s \in Scope |-> {}]
    /\ owner = [s \in Scope |-> Root]
    /\ closeWaiter = [s \in Scope |-> FALSE]
    /\ runnable = <<>>
    /\ current = Root
    /\ rootPhase = "body"
    /\ rootTargets = {}
    /\ rootStack = <<RootScope>>
    /\ rootClosing = RootScope
    /\ blocks = [x \in Task \cup {Root} |-> 0]
    /\ strayed = {}

\* VirtualMachine.run has returned or raised.
Done == rootPhase = "done" /\ UNCHANGED vars

Next ==
    \/ \E t \in Task : step(t) \/ Instruction(t) \/ UnwindNext(t)
    \/ RootFrame
    \/ Done

Spec == Init /\ [][Next]_vars

(***************************************************************************)
(* Fairness.  run_until never stops taking quanta while its predicate is   *)
(* false, and the instruction budget bounds every quantum: a task that     *)
(* keeps running is made to yield.                                         *)
(***************************************************************************)
SchedulerFairness ==
    /\ WF_vars(\E t \in Task : step(t))
    /\ \A t \in Task : WF_vars(Yield(t) \/ UnwindNext(t))

\* For programs whose tasks all leave their blocks and return in the end,
\* and whose root frame goes on after each wait.
ProgramFairness ==
    /\ \A t \in Task : SF_vars(Return(t) \/ ScopeEnd(t) \/ ScopeEndUnmatched(t))
    /\ WF_vars(RootWaitDone \/ RootGroupFailed \/ RootGroupJoined
               \/ RootScopeJoined \/ RootDeadlock)

FairSpec == Spec /\ SchedulerFairness

-----------------------------------------------------------------------------
(* Properties                                                              *)

Queued(t) == t \in ToSet(runnable)

\* Types, and the discipline of the queue: Scheduler.schedule queues a task
\* once, only a live task, never the one that is running, and a queued task
\* carries no blocked metadata.
TypeOK ==
    /\ state \in [Task -> {"unborn"} \cup Live \cup Ended]
    /\ scopeOf \in [Task -> Scope]
    /\ cancelReq \in [Task -> BOOLEAN]
    /\ blocked \in [Task -> BOOLEAN]
    /\ \A t \in Task :
          /\ activeScopes[t] \in Seq(Scope)
          /\ waiters[t] \in Seq(Task)
          /\ \A e \in {pending[t], blockedCancel[t]} :
                /\ e.kind \in {"none", "wait", "group", "close"}
                /\ e.targets \subseteq Task
                /\ e.scopes \in Seq(Scope)
                /\ e.primary \in BOOLEAN
    /\ scopeState \in [Scope -> {"unborn", "open", "closing", "closed"}]
    /\ children \in [Scope -> SUBSET Task]
    /\ owner \in [Scope -> Task \cup {Root}]
    /\ closeWaiter \in [Scope -> BOOLEAN]
    /\ runnable \in Seq(Task) /\ IsInjective(runnable)
    /\ \A t \in ToSet(runnable) : state[t] \in Live /\ t # current /\ ~blocked[t]
    /\ \A t \in Task : state[t] = "pending" => Queued(t)
    /\ current \in Task \cup {Root}
    /\ current # Root => state[current] = "running"
    /\ rootPhase \in {"body", "raised", "wait", "group", "groupJoin",
                      "scopeEnd", "leave", "left", "exit", "done"}
    /\ rootTargets \subseteq Task
    /\ rootStack \in Seq(Scope) /\ rootClosing \in Scope
    /\ blocks \in [Task \cup {Root} -> Nat]
    /\ strayed \subseteq Task

\* No wake is lost: a task that is neither running nor queued waits for
\* something that has not happened yet, its wake is still registered with
\* every task or scope it waits for, and the cleanup a cancellation would
\* run is the one of that very suspension (TaskBlocked, _finish,
\* _child_finished, cancel_close_waiter).
NoLostWakeup ==
    \A t \in Task :
        state[t] = "running" /\ current # t /\ ~Queued(t) =>
            LET e == pending[t]
                awaited == {u \in e.targets : ~terminal(u)}
                joining == {s \in ToSet(e.scopes) : ~children_terminal(s)}
            IN  /\ blocked[t] /\ blockedCancel[t] = e
                /\ awaited # {} \/ joining # {}
                /\ \A u \in awaited : t \in ToSet(waiters[u])
                /\ \A s \in joining : scopeState[s] = "closing" /\ closeWaiter[s]

\* A cancellation request is never parked: whoever made it, through whatever
\* chain of scope closes, the unfinished task is on the queue, where its
\* next quantum ends it (request_cancel).
CancelDelivered ==
    \A t \in Task : cancelReq[t] /\ ~terminal(t) /\ current # t => Queued(t)

\* Nobody is stranded: whoever is not running is queued, or sleeps through
\* nothing it should wake for, be it an end it waits for or its own
\* cancellation.
NobodyIsStranded == TypeOK /\ NoLostWakeup /\ CancelDelivered

\* A scope that finalize_close has closed was joined: no task ever spawned
\* into it is unfinished, those spawned into it by its own children and
\* those cancelled while it closed included.
ClosedScopeJoined ==
    \A t \in Born : scopeState[scopeOf[t]] = "closed" => terminal(t)

\* A task that returned normally left no scope of its own behind, however
\* often it was woken, unwound or suspended on the way, whatever it caught in
\* its frames, unless a handler made it jump over the end of a block or an
\* unwind made it give up the close it was suspended on.
CompletedOwnerJoined ==
    \A s \in Scope :
        owner[s] # Root /\ state[owner[s]] = "completed" /\ owner[s] \notin strayed
            => scopeState[s] = "closed"

\* Fail-fast reaches everybody: once a child of a task's scope failed, every
\* other child has ended or is being cancelled, a child spawned meanwhile
\* included (_child_finished).
FailureStopsSiblings ==
    \A s \in Scope : owner[s] # Root /\ FailedChildren(s) # {} =>
        \A c \in children[s] : terminal(c) \/ cancelReq[c]

\* and so does the failure itself: the owner of the scope has ended, is
\* queued to unwind or unwinds next, or is already suspended on closing that
\* scope, or on the unwind of a scope around it, which raises a failure.  Only
\* a scope whose end the owner jumped over or gave up may fail unnoticed.
FailureReachesOwner ==
    \A s \in Scope : owner[s] # Root /\ FailedChildren(s) # {} =>
        LET t == owner[s]
            onStack == s \in ToSet(activeScopes[t])
        IN  \/ terminal(t) \/ Queued(t) \/ (current = t /\ onStack)
            \/ s \in ToSet(pending[t].scopes) \/ pending[t].primary
            \/ t \in strayed /\ ~onStack

\* A failure spreads at once and completely, sideways and upwards, whatever
\* siblings and owner are doing.
FailFast == FailureStopsSiblings /\ FailureReachesOwner

\* Every step is a step of structured concurrency: a task is born into an
\* open scope and ends once, and a scope closes only after its members.
Structured == INSTANCE StructuredTasks WITH
    First <- RootScope,
    born  <- Born,
    ended <- {t \in Task : terminal(t)},
    home  <- scopeOf,
    phase <- scopeState
StructuredSpec == Structured!SSpec

\* While the root frame drives the scheduler, a cancelled task ends, however
\* the other tasks loop: the queue is FIFO and quanta are bounded.
CancelEventuallyEnds ==
    \A t \in Task :
        (cancelReq[t] /\ Driving) ~> (terminal(t) \/ (current = Root /\ ~Driving))

\* If no task runs forever, every wait of the root frame comes back, with a
\* result, a fault or a deadlock report.
RootWaitReturns ==
    ProgramFairness =>
        ((rootPhase \in {"wait", "group", "groupJoin", "scopeEnd", "leave", "exit"})
            ~> (rootPhase \in {"body", "raised", "left", "done"}))

-----------------------------------------------------------------------------
(* What the documentation says and the code does not keep.                 *)

\* vm.py:1220: run closes "every structured scope on all exits".
ScopesClosedAtExit ==
    rootPhase = "done" => \A s \in Scope : scopeState[s] \in {"unborn", "closed"}

\* docs/concurrency.md:11: a `concurrent' scope "joins all children before it
\* exits", here by the normal return of the task that entered it.
ReturnJoins ==
    \A s \in Scope :
        owner[s] # Root /\ state[owner[s]] = "completed" => LiveChildren(s) = {}

\* The same, by the failure or the cancellation of the task inside it.
OwnerOutlivesChildren ==
    \A s \in Scope : owner[s] # Root /\ terminal(owner[s]) => LiveChildren(s) = {}

\* docs/concurrency.md:11 again, for a block whose end the task had reached: it
\* stays to join it, whatever fails meanwhile in a block around it.
ClosingIsJoined ==
    \A s \in Scope :
        owner[s] # Root /\ scopeState[s] = "closing" /\ terminal(owner[s])
            => LiveChildren(s) = {}

\* docs/concurrency.md:7: spawn "creates a Task owned by the nearest dynamic
\* `concurrent' scope"; a program without panics has no failed task.
SpawnNeverRefused == \A t \in Task : state[t] # "failed"

=============================================================================
