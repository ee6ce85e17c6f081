---------------------------- MODULE NativeCalls ----------------------------
(***************************************************************************)
(* Native calls of scheduled tasks (runtime/vm.py CALL_NATIVE and          *)
(* _invoke_native, runtime/concurrency.py): worker threads run C, publish  *)
(* results and callback requests to the scheduler's external completions,  *)
(* and lease the opaque handle they pass; the scheduler thread drives      *)
(* tasks, fires logical timers and sleeps on a condition when every task   *)
(* waits for C.  Attribute updates of CPython are taken as atomic.         *)
(***************************************************************************)
EXTENDS Naturals, FiniteSets, SequencesExt, Queues

CONSTANTS
    N,              \* tasks 1 .. N, spawned in this order
    MaxWorkers,     \* threads of the executor
    Kinds,          \* native calls a task may make
    RootKinds,      \* native calls the root frame may make
    RootOps,        \* what else the root frame may do
    MaxOps          \* how often it does something

\* "use" and "destroy" pass the handle; "callback" calls its closure from the
\* calling thread, "threaded" from a thread C has made.
AllKinds == {"plain", "use", "destroy", "callback", "threaded"}

ASSUME SizeAssumption == N \in Nat \ {0} /\ MaxWorkers \in Nat \ {0} /\ MaxOps \in Nat
ASSUME KindAssumption == Kinds \subseteq AllKinds /\ RootKinds \subseteq AllKinds
ASSUME OpAssumption == RootOps \subseteq {"wait", "timeout", "cancel"}

Tasks == 1 .. N
Root == 0
Callers == Tasks \union {Root}
Terminal == {"completed", "failed", "cancelled"}

VARIABLES
    kind,           \* caller -> the native call it makes
    \* The scheduler and its tasks.
    state, blocked, cancelling, runnable,
    registered,     \* task -> its wake is registered
    timer,          \* the task a registered logical timer cancels, or Root
    completions,    \* published for the scheduler thread, in order
    notified,       \* the condition has been notified since the sleep began
    at,             \* where the scheduler thread is
    until,          \* the tasks run_until waits for
    committed,      \* something was drained
    closing, bodyFault, ops,
    \* The calls.
    pool,           \* submitted to the executor
    phase, result, answer,
    abandoned, completed,
    faults,         \* vm._callback_faults, by the caller whose callback raised
    \* The handle every "use" and "destroy" passes.
    alive, leases, destroyPending,
    freed           \* how often C has freed it

taskVars == <<state, blocked, cancelling, runnable>>
wakeVars == <<registered, timer, completions, notified>>
driveVars == <<at, until, committed, closing, bodyFault, ops>>
callVars == <<pool, phase, result, answer, abandoned, completed, faults>>
handleVars == <<alive, leases, destroyPending, freed>>
vars == <<kind, taskVars, wakeVars, driveVars, callVars, handleVars>>

TakesHandle(c) == kind[c] \in {"use", "destroy"}
OnWorker == {t \in Tasks : phase[t] \notin {"none", "submitted", "over"}}
AllTerminal(S) == \A t \in S : state[t] \in Terminal

-----------------------------------------------------------------------------
(* Scheduling and cancellation (TaskControlBlock, TaskScope).              *)

\* Scheduler.schedule for some tasks, in order.
Joining(tasks, queue) == Kept(tasks, {t \in Tasks : t \notin ToSet(queue) /\ state[t] \notin Terminal})

ScheduleAll(tasks, queue) ==
    /\ blocked' = [t \in Tasks |-> blocked[t] /\ t \notin ToSet(tasks)]
    /\ runnable' = queue \o Joining(tasks, queue)

\* request_cancel: a call in flight is abandoned and its wake unregistered.
Unfinished(S) == {t \in S : state[t] \notin Terminal}
InFlight(S) == {t \in Unfinished(S) : state[t] = "running"}

RequestCancelQuietly(S, queue) ==
    /\ cancelling' = [t \in Tasks |-> cancelling[t] \/ t \in Unfinished(S)]
    /\ abandoned' = [t \in Tasks |-> abandoned[t] \/ t \in InFlight(S)]
    /\ registered' = [t \in Tasks |-> registered[t] /\ t \notin InFlight(S)]
    /\ runnable' = queue
    /\ UNCHANGED blocked

RequestCancel(S, queue) ==
    /\ cancelling' = [t \in Tasks |-> cancelling[t] \/ t \in Unfinished(S)]
    /\ abandoned' = [t \in Tasks |-> abandoned[t] \/ t \in InFlight(S)]
    /\ registered' = [t \in Tasks |-> registered[t] /\ t \notin InFlight(S)]
    /\ ScheduleAll(Ascending(N, {t \in Unfinished(S) : blocked[t]}), queue)

Driving == at = "loop" /\ ~AllTerminal(until)
CanStep == Driving /\ runnable # <<>>
Current == Head(runnable)
Siblings(t) == Tasks \ {t}

\* _finish and _child_finished: a failure cancels the siblings.
Finish(t, outcome) ==
    /\ state' = [state EXCEPT ![t] = outcome]
    /\ RequestCancel(IF outcome = "failed" THEN Siblings(t) ELSE {}, Tail(runnable))
    /\ UNCHANGED <<kind, timer, completions, notified, driveVars, pool, phase, result, answer,
                   completed, faults, handleVars>>

FinishCancelled ==
    /\ CanStep /\ cancelling[Current]
    /\ Finish(Current, "cancelled")

MakeCall ==
    /\ CanStep /\ ~cancelling[Current] /\ state[Current] = "pending"
    /\ state' = [state EXCEPT ![Current] = "running"]
    /\ blocked' = [blocked EXCEPT ![Current] = TRUE]
    /\ registered' = [registered EXCEPT ![Current] = TRUE]
    /\ pool' = Append(pool, Current)
    /\ phase' = [phase EXCEPT ![Current] = "submitted"]
    /\ runnable' = Tail(runnable)
    /\ UNCHANGED <<kind, cancelling, timer, completions, notified, driveVars,
                   result, answer, abandoned, completed, faults, handleVars>>

\* A wake without a result suspends the task again.
FinishedCall(t) == completed[t]
FinishedUncancelled(t) == ~cancelling[t] /\ completed[t]

Resume ==
    /\ CanStep /\ FinishedUncancelled(Current)
    /\ Finish(Current, IF result[Current] = "value" THEN "completed" ELSE "failed")

-----------------------------------------------------------------------------
(* run_until without a runnable task.                                      *)

Idle == Driving /\ runnable = <<>>
Waitable == \E t \in Tasks : registered[t]

FireTimer ==
    /\ Idle /\ timer # Root
    /\ RequestCancel({timer}, runnable) /\ timer' = Root
    /\ UNCHANGED <<kind, state, completions, notified, driveVars,
                   pool, phase, result, answer, completed, faults, handleVars>>

\* Without a wake to wait for, run_until raises a DeadlockFault.  Otherwise
\* _wait_for_external_completion takes the condition's lock, drains, and sleeps
\* only if nothing was there; woken, it drains again without the lock.
Locked == at \in {"check", "resting"}

TakeLock ==
    /\ Idle /\ timer = Root
    /\ at' = (IF Waitable THEN "check" ELSE "deadlock") /\ committed' = FALSE
    /\ UNCHANGED <<kind, taskVars, wakeVars, until, closing, bodyFault, ops, callVars, handleVars>>

DrainResult ==
    /\ at \in {"check", "drain"} /\ completions # <<>> /\ Head(completions).what = "result"
    /\ LET t == Head(completions).caller
       IN  IF abandoned[t] THEN UNCHANGED <<completed, registered, blocked, runnable>>
           ELSE /\ completed' = [completed EXCEPT ![t] = TRUE]
                /\ registered' = [registered EXCEPT ![t] = FALSE]
                /\ ScheduleAll(<<t>>, runnable)
    /\ completions' = Tail(completions) /\ committed' = TRUE
    /\ UNCHANGED <<kind, state, cancelling, timer, notified, at, until, closing, bodyFault, ops,
                   pool, phase, result, answer, abandoned, faults, handleVars>>

\* The closure of a callback runs on the scheduler thread.
DrainCallback ==
    /\ at \in {"check", "drain"} /\ completions # <<>> /\ Head(completions).what = "callback"
    /\ \E outcome \in {"value", "fault"} :
        answer' = [answer EXCEPT ![Head(completions).caller] = outcome]
    /\ completions' = Tail(completions) /\ committed' = TRUE
    /\ UNCHANGED <<kind, taskVars, registered, timer, notified, at, until, closing, bodyFault, ops,
                   pool, phase, result, abandoned, completed, faults, handleVars>>

Drained ==
    /\ at \in {"check", "drain"} /\ completions = <<>>
    /\ at' = IF committed THEN "loop" ELSE IF at = "check" THEN "resting" ELSE "disappeared"
    /\ UNCHANGED <<kind, taskVars, wakeVars, until, committed, closing, bodyFault, ops, callVars, handleVars>>

\* wait gives up the lock.
Sleep ==
    /\ at = "resting"
    /\ at' = "sleep" /\ notified' = FALSE
    /\ UNCHANGED <<kind, taskVars, registered, timer, completions, until, committed, closing, bodyFault, ops,
                   callVars, handleVars>>

Wake ==
    /\ at = "sleep" /\ notified
    /\ at' = "drain" /\ committed' = FALSE
    /\ UNCHANGED <<kind, taskVars, wakeVars, until, closing, bodyFault, ops, callVars, handleVars>>

-----------------------------------------------------------------------------
(* The root frame: waits, timeouts, cancellations, synchronous native      *)
(* calls, and the close of the root scope.                                 *)

AtRoot == at = "root" /\ ~closing
Operate == AtRoot /\ ops < MaxOps /\ ops' = ops + 1

WaitTask(t) ==
    /\ Operate /\ "wait" \in RootOps
    /\ at' = "loop" /\ until' = {t}
    /\ UNCHANGED <<kind, taskVars, wakeVars, committed, closing, bodyFault, callVars, handleVars>>

TimeoutTask(t) ==
    /\ Operate /\ "timeout" \in RootOps
    /\ at' = "loop" /\ until' = {t} /\ timer' = t
    /\ UNCHANGED <<kind, taskVars, registered, completions, notified, committed, closing, bodyFault, callVars, handleVars>>

CancelTask(t) ==
    /\ Operate /\ "cancel" \in RootOps
    /\ RequestCancel({t}, runnable)
    /\ UNCHANGED <<kind, state, timer, completions, notified, at, until, committed, closing, bodyFault,
                   pool, phase, result, answer, completed, faults, handleVars>>

RootCall ==
    /\ Operate /\ phase[Root] = "none"
    /\ \E k \in RootKinds : kind' = [kind EXCEPT ![Root] = k]
    /\ phase' = [phase EXCEPT ![Root] = "acquire"] /\ at' = "native"
    /\ UNCHANGED <<taskVars, wakeVars, until, committed, closing, bodyFault,
                   pool, result, answer, abandoned, completed, faults, handleVars>>

\* The end of run_until: a failed wait leaves the body of the program.
Return ==
    /\ at = "loop" /\ AllTerminal(until)
    /\ at' = IF closing THEN "over" ELSE "root"
    /\ bodyFault' = (bodyFault \/ (~closing /\ \E t \in until : state[t] # "completed"))
    /\ timer' = Root
    /\ UNCHANGED <<kind, taskVars, registered, completions, notified, until, committed, closing, ops, callVars, handleVars>>

CloseRoot ==
    /\ AtRoot
    /\ closing' = TRUE /\ at' = "loop" /\ until' = Tasks
    /\ RequestCancel(IF bodyFault THEN Tasks ELSE {}, runnable)
    /\ UNCHANGED <<kind, state, timer, completions, notified, committed, bodyFault, ops,
                   pool, phase, result, answer, completed, faults, handleVars>>

\* VirtualMachine.close: what no worker has taken is cancelled.
CloseMachine ==
    /\ at = "over" /\ pool # <<>>
    /\ phase' = [c \in Callers |-> IF c \in ToSet(pool) THEN "over" ELSE phase[c]]
    /\ pool' = <<>>
    /\ UNCHANGED <<kind, taskVars, wakeVars, driveVars, result, answer, abandoned, completed, faults, handleVars>>

-----------------------------------------------------------------------------
(* A native call, on a worker or, for the root frame, on the VM's thread.  *)

Outside == UNCHANGED <<kind, taskVars, registered, timer, until, committed, closing, ops, abandoned, completed>>
Goes(c, where) == phase' = [phase EXCEPT ![c] = where]
Fails(c, why) == result' = [result EXCEPT ![c] = why]

Take ==
    /\ pool # <<>> /\ Cardinality(OnWorker) < MaxWorkers
    /\ Goes(Head(pool), "acquire") /\ pool' = Tail(pool)
    /\ Outside /\ UNCHANGED <<completions, notified, at, bodyFault, result, answer, faults, handleVars>>

\* acquire_lease.
LiveHandle == alive /\ ~destroyPending

Acquire(c) ==
    /\ phase[c] = "acquire"
    /\ \/ /\ ~TakesHandle(c) /\ Goes(c, "enter") /\ UNCHANGED <<result, leases>>
       \/ /\ TakesHandle(c) /\ LiveHandle
          /\ leases' = leases + 1 /\ Goes(c, "enter") /\ UNCHANGED result
       \/ /\ TakesHandle(c) /\ ~LiveHandle
          /\ Fails(c, "not live") /\ Goes(c, "publish") /\ UNCHANGED leases
    /\ Outside
    /\ UNCHANGED <<completions, notified, at, bodyFault, pool, answer, faults, alive, destroyPending, freed>>

Enter(c) ==
    /\ phase[c] = "enter"
    /\ faults' = <<>> /\ Goes(c, "body")
    /\ Outside /\ UNCHANGED <<completions, notified, at, bodyFault, pool, result, answer, handleVars>>

\* C: it frees the handle, calls back, or does something else.
Body(c) ==
    /\ phase[c] = "body" /\ kind[c] \notin {"callback", "threaded"}
    /\ freed' = IF kind[c] = "destroy" THEN freed + 1 ELSE freed
    /\ Goes(c, "return")
    /\ Outside /\ UNCHANGED <<completions, notified, at, bodyFault, pool, result, answer, faults, alive, leases, destroyPending>>

\* enqueue_external_completion puts and notifies under the lock.
EnqueueSilently(what, c) ==
    /\ ~Locked
    /\ completions' = Append(completions, [what |-> what, caller |-> c])
    /\ UNCHANGED notified

Enqueue(what, c) ==
    /\ ~Locked
    /\ completions' = Append(completions, [what |-> what, caller |-> c])
    /\ notified' = (at = "sleep" \/ notified)

\* The trampoline on another thread than the VM's.
CallBack(c) ==
    /\ phase[c] = "body"
    /\ kind[c] = "threaded" \/ (kind[c] = "callback" /\ c # Root)
    /\ Enqueue("callback", c) /\ Goes(c, "waiting")
    /\ Outside /\ UNCHANGED <<at, bodyFault, pool, result, answer, faults, handleVars>>

\* On the VM's own thread the closure is called directly.
CallBackDirectly ==
    /\ phase[Root] = "body" /\ kind[Root] = "callback"
    /\ \E outcome \in {"value", "fault"} : answer' = [answer EXCEPT ![Root] = outcome]
    /\ Goes(Root, "waiting")
    /\ Outside /\ UNCHANGED <<completions, notified, at, bodyFault, pool, result, faults, handleVars>>

Answered(c) ==
    /\ phase[c] = "waiting" /\ answer[c] # "none"
    /\ faults' = IF answer[c] = "fault" THEN Append(faults, c) ELSE faults
    /\ Goes(c, "return")
    /\ Outside /\ UNCHANGED <<completions, notified, at, bodyFault, pool, result, answer, handleVars>>

\* C has returned: a callback's fault is raised, or the result converted.
TakeFault(c) ==
    /\ phase[c] = "return" /\ faults # <<>>
    /\ faults' = Tail(faults) /\ Fails(c, "callback") /\ Goes(c, "release")
    /\ Outside /\ UNCHANGED <<completions, notified, at, bodyFault, pool, answer, handleVars>>

Convert(c) ==
    /\ phase[c] = "return" /\ faults = <<>> /\ kind[c] # "destroy"
    /\ \/ UNCHANGED result
       \/ kind[c] = "plain" /\ Fails(c, "conversion")
    /\ Goes(c, "release")
    /\ Outside /\ UNCHANGED <<completions, notified, at, bodyFault, pool, answer, faults, handleVars>>

\* request_destroy; a lease is held, so the handle is not invalid yet.
RequestDestroy(c) ==
    /\ phase[c] = "return" /\ faults = <<>> /\ kind[c] = "destroy"
    /\ IF LiveHandle THEN destroyPending' = TRUE /\ UNCHANGED result
       ELSE Fails(c, "released") /\ UNCHANGED destroyPending
    /\ Goes(c, "release")
    /\ Outside
    /\ UNCHANGED <<completions, notified, at, bodyFault, pool, answer, faults, alive, leases, freed>>

\* release_lease.
AfterAnyLease == destroyPending
AfterLastLease == leases = 1 /\ destroyPending

Release(c) ==
    /\ phase[c] = "release"
    /\ IF TakesHandle(c)
       THEN leases' = leases - 1 /\ alive' = (alive /\ ~AfterLastLease)
       ELSE UNCHANGED <<leases, alive>>
    /\ Goes(c, "publish")
    /\ Outside
    /\ UNCHANGED <<completions, notified, at, bodyFault, pool, result, answer, faults, destroyPending, freed>>

Publish(t) ==
    /\ phase[t] = "publish" /\ t # Root
    /\ Enqueue("result", t) /\ Goes(t, "over")
    /\ Outside /\ UNCHANGED <<at, bodyFault, pool, result, answer, faults, handleVars>>

RootReturns ==
    /\ phase[Root] = "publish"
    /\ Goes(Root, "over") /\ at' = "root"
    /\ bodyFault' = (bodyFault \/ result[Root] # "value")
    /\ Outside /\ UNCHANGED <<completions, notified, pool, result, answer, faults, handleVars>>

-----------------------------------------------------------------------------
Init ==
    /\ kind \in {k \in [Callers -> Kinds \union {"plain"}] : k[Root] = "plain" /\ \A t \in Tasks : k[t] \in Kinds}
    /\ state = [t \in Tasks |-> "pending"] /\ blocked = [t \in Tasks |-> FALSE]
    /\ cancelling = blocked /\ runnable = [t \in Tasks |-> t]
    /\ registered = blocked /\ timer = Root /\ completions = <<>> /\ notified = FALSE
    /\ at = "root" /\ until = {} /\ committed = FALSE
    /\ closing = FALSE /\ bodyFault = FALSE /\ ops = 0
    /\ pool = <<>> /\ phase = [c \in Callers |-> "none"]
    /\ result = [c \in Callers |-> "value"] /\ answer = [c \in Callers |-> "none"]
    /\ abandoned = blocked /\ completed = blocked /\ faults = <<>>
    /\ alive = TRUE /\ leases = 0 /\ destroyPending = FALSE /\ freed = 0

SchedulerThread ==
    \/ FinishCancelled \/ MakeCall \/ Resume \/ FireTimer
    \/ TakeLock \/ DrainResult \/ DrainCallback \/ Drained \/ Sleep \/ Wake
    \/ \E t \in Tasks : WaitTask(t) \/ TimeoutTask(t) \/ CancelTask(t)
    \/ RootCall \/ Return \/ CloseRoot \/ CloseMachine

CallStep(c) ==
    \/ Acquire(c) \/ Enter(c) \/ Body(c) \/ CallBack(c) \/ Answered(c)
    \/ TakeFault(c) \/ Convert(c) \/ RequestDestroy(c) \/ Release(c) \/ Publish(c)

RootStep == CallStep(Root) \/ CallBackDirectly \/ RootReturns

Next ==
    \/ SchedulerThread \/ Take \/ RootStep
    \/ \E t \in Tasks : CallStep(t)

Spec == Init /\ [][Next]_vars

\* The host runs every thread, and C returns unless it waits for a callback.
LiveSpec ==
    /\ Spec
    /\ WF_vars(SchedulerThread) /\ WF_vars(RootStep) /\ WF_vars(Take)
    /\ \A t \in Tasks : WF_vars(CallStep(t))

-----------------------------------------------------------------------------
(* Properties.                                                             *)

\* The calls that have the handle's address.
HasAddress(c) == TakesHandle(c) /\ phase[c] \in {"enter", "body", "waiting", "return", "release"}
Holders == {c \in Callers : HasAddress(c)}

\* A task is queued at most once, and only while it can run; a lease is held
\* for every call that has the handle's address.
TypeOK ==
    /\ IsInjective(runnable)
    /\ \A t \in ToSet(runnable) : state[t] \in {"pending", "running"} /\ ~blocked[t]
    /\ leases = Cardinality(Holders)

\* run_until reports neither a deadlock nor a vanished wake source while C
\* still works for a task: every blocked task has a registered wake whose
\* completion is under way.
NoFalseFault == at \notin {"deadlock", "disappeared"}

\* The scheduler thread does not sleep over a completion (concurrency.py:620).
NotAsleep == at = "sleep" /\ completions # <<>> => notified

\* No completion is missed: while C works for a task the scheduler thread
\* neither gives up on it, nor sleeps over what C has published.
NothingMissed == TypeOK /\ NoFalseFault /\ NotAsleep

\* A task that has resumed had its own, finished call, and no result reaches
\* a task after its cancellation has been requested, however the worker's
\* publication and the cancellation cross.
OnlyOwnResult ==
    \A t \in Tasks :
        /\ state[t] = "completed" => phase[t] = "over" /\ ~abandoned[t] /\ result[t] = "value"
        /\ state[t] = "failed" => phase[t] = "over" /\ ~abandoned[t] /\ result[t] # "value"
        /\ abandoned[t] => ~registered[t] /\ state[t] \in {"running", "cancelled"}

\* The handle's identity is not invalid while a call leases it, also for
\* calls of cancelled tasks (runtime-system.md:2547).
PinnedWhileLeased ==
    Holders # {} => alive

\* C frees the handle once, and not while another call has its address
\* (language.md:6097, runtime-system.md:2547).
FreedOnceUnused ==
    /\ freed <= 1
    /\ freed = 1 => \A c \in Callers : ~(kind[c] = "use" /\ phase[c] = "body")

\* A fault of a callback is reported by the call that contains it.
FaultsStayWithCalls ==
    \A c \in Callers : phase[c] = "over" => (result[c] = "callback" <=> answer[c] = "fault")

\* The program comes to its end.
ProgramEnds == <>(at = "over")

\* A callback from another thread is answered.
CallbacksAnswered == \A c \in Callers : (phase[c] = "waiting") ~> (phase[c] # "waiting")
=============================================================================
