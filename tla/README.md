# Valiance: a TLA+ verification project

Valiance is a statically typed, stack-based array language written in Python:
a parser and type analyser, a bytecode compiler and optimiser, a virtual
machine with structured concurrency, a package and module system with
incremental builds, and a terminal editor and language server that talk to a
session process. This project specifies the parts of it whose correctness
depends on the order in which things happen, checks them with TLC on small
instances, and proves the results that matter most for every instance.

Paths below are relative to the repository root, `src/`.

Contents: [inventory](#inventory) · [modules](#modules-and-how-they-correspond-to-the-code) ·
[runs](#what-each-run-checks) · [fairness](#fairness) · [proofs](#what-is-proved) ·
[disagreements](#where-the-code-and-its-documentation-disagree) ·
[not modelled](#what-is-not-modelled-and-why) · [plan](#plan)

## Inventory

### Execution

| Component | State | Operations | Made correct by |
|---|---|---|---|
| **Task scheduler** `runtime/concurrency.py` `TaskControlBlock`, `TaskScope`, `Scheduler` | task states, cancellation flags, blocked metadata, wake lists; scope states, children, faults, close waiters; FIFO run queue, current task | spawn, step/run, wait, wait_all, request_cancel, begin_close/finalize_close, run_until | no wake is lost; a cancellation is delivered; a scope closes only when joined; failure reaches siblings and owner; waits return |
| **VM concurrency instructions** `runtime/vm.py` `_run_activation`, `_drive_frames_runner`, `run` | pending suspension of the innermost frame, dynamic scope stacks, root scope stack | SCOPE_BEGIN/END, SPAWN_CALL, WAIT_TASK, WAIT_TASKS_VECTORISED, CANCEL_TASK, CANCEL_POLL, TIMEOUT_TASK, CHANNEL_*, resumption, fail-fast unwind, program end | a suspension registers its wakes exactly once and withdraws them exactly when it is cancelled |
| **Channels** `Channel`, `ChannelSender`, `ChannelReceiver` | buffer, two FIFO queues of registrations, closed flag, handle count | send, receive, cancel, close, retain, release | FIFO, no loss or duplication, back-pressure, drain after close, reclamation only when unreachable |
| **Timers and external wakes** `SuspensionRegistration`, `register_timer`, `register_external`, the completion queue | timer heap, active registrations, logical time, thread-safe queue | register, fire, cancel, enqueue, drain, host wait | a wake fires at most once; the host thread sleeps only when a worker is still to report |
| **Native calls and callbacks** `vm.py` CALL_NATIVE, FFI trampolines | worker threads, abandoned flag, callback requests, leases of opaque handles | submit, complete, publish, abandon, lease, destroy, call back | results reach their own task and never an abandoned call; a leased handle stays valid; the program ends |
| **Value ownership** `_retain_*`, `_release_value`, `retain_handle`, `release_handle` | handle counts, `scope_owned`, `destroyed` | retain, release, reclaim | nothing used after it is reclaimed, everything reclaimed once |
| **Sequential VM, values, numbers** `vm.py`, `runtime_values.py`, `bigdecimal.py`, `reflection.py` | frames, stacks | all other instructions | language semantics |
| **Compiler, optimiser, formats** `compiler.py`, `optimizer.py`, `serialization.py`, `compiled_module.py`, `interface_serialization.py` | none between calls | lowering, rewriting, encoding, decoding | meaning preserved; decode after encode is the identity |

### Front end

`parsing/`, `asts/`, `analysis/`, `vtypes/` and `elements/` turn source text
into a typed tree: large pure functions over trees, with a type lattice
(`vtypes/relations.py`) whose laws (reflexivity, transitivity, join) are what
makes them right. `std/` is a library of wrappers, `source_tools/` the
formatter, `lsp.py`, `repl.py` and `main.py` the entry points, `testing/` the
test runner.

### Sessions and editor

| Component | State | Operations | Made correct by |
|---|---|---|---|
| **Session worker** `sessions/worker.py` | process, bounded queues (2 commands, 1 input, 128 outputs), event pipe, `busy`/`ready`/`preview_pending` | start, submit, commit, complete, provide_input, poll, close; the serving loop | one submission at a time; a completion is reported after its output; Stop always ends the process |
| **Session service** `sessions/service.py` | REPL frames, branches, prepared-submission tokens, generation | prepare, execute, reset, branches, completion | only a preparation of the present state is executed; a failed command leaves the session as it was |
| **Editor runtime** `terminal_editor/runtime.py`, `analysis.py`, `completion.py`, `files.py` | workspace revision, running capture, outstanding requests | run, stop, poll, edit, save | stale results are never shown as current; no external change is overwritten silently |

### Building

| Component | State | Operations | Made correct by |
|---|---|---|---|
| **Artifact store** `incremental/store.py` | objects by digest, two indexes, writer lock | put, read, publish_index, update_index_record, collect_garbage | an index never names a missing object; no update is lost |
| **Coordinator, database, graph** `incremental/*.py` | overlays, revisions, cached snapshots, module graph | build, analyse, replace, refresh, invalidate | a cached result is used only while its inputs are unchanged; strongly connected components are exact |
| **Modules and packages** `modules_system/*.py` | manifest, lockfile, installed trees | resolve, install, add, remove, commit | manifest, lock and tree agree, or the change is rolled back |

### How the parts interact

The compiled program runs in one `VirtualMachine` with one `Scheduler`, on one
executor. The root frame runs without an instruction budget: its waits and its
scope ends drive the scheduler on the spot (`run_until`). A spawned task runs
as a generator (`_drive_frames_runner`) that gives the executor back at a
suspension (`TaskBlocked`) or when its budget of instructions is used up
(`TaskYield`). Nothing pre-empts it, so the interleaving is that of *quanta*;
what makes the code hard is that every registration (a wake in a task's
`waiters`, in a scope's `close_waiters`, in a channel's queue, in the timer
heap) is made in one quantum, fires in another and may be withdrawn in a third,
and that one instruction can cascade: a failing child cancels its siblings, a
cancelled sibling that is closing a scope cancels that scope's children, and so
on, all inside the quantum of the task that failed. Only the completion queue
crosses host threads. The editor owns a session process through the worker's
queues; the session service drives a VM inside it. The builder shares a
directory with other builder processes through the writer lock.

### Which behaviours are hard

Lost or stale wakes; cancellation of a task at each of its suspensions, and of
the running task by itself; a child spawned while its scope closes; fail-fast
while the owner waits, closes an inner scope, or runs; ends of tasks inside
blocks they opened, and faults caught outside of them; root-frame faults; fairness between looping tasks and a
cancelled one; hand-over between buffered, blocked and cancelled channel
operations; the last handle released with operations still blocked. `PROJECT.json`
lists each hazard at its line, with the properties about it.

## Modules, and how they correspond to the code

| Module | Models | State ↔ code |
|---|---|---|
| `Scheduler` | tasks, scopes, the concurrency instructions, program end (`runtime/concurrency.py`, `runtime/vm.py`) | one variable per field, named in the declaration; `blocks` is how deep in `concurrent` blocks the running code is, `strayed` is history |
| `StructuredTasks` | abstract: tasks are born into open scopes, end once, scopes are joined before they count as closed | implemented by `Scheduler` (`StructuredSpec`) |
| `Channel` | every method of one channel | one variable per field; `status`/`got` are the registration's fields; `sendLog`/`recvLog` are history |
| `FifoChannel` | abstract: one line of values, takers wait only while it is empty | implemented by the channel among its tasks (`OneLine`) |
| `TaskChannels` | the tasks of a block that share a `Channel`: channel instructions, resumption, discarded frames, reference counts | `pending[t]` is the operation of `activation.pending_concurrency`, `holds`/`refs` are the occurrences on the frames and their counts |
| `NativeCalls` | CALL_NATIVE on workers and in the root frame, external completions, logical timers, sleeping, callbacks, leases | `phase[c]` is where the thread of a call is, `at` where the scheduler thread is |
| `SessionWorker` | one session process and its owner (`sessions/worker.py`): queues, pipe, feeder thread, drop count with its lock | owner fields by name; `child` is the serving loop |
| `EditorRuntime` | the editor's side (`terminal_editor/runtime.py`), composed with `SessionWorker`; coroutines and close thread are separate steps | `run`, `stops` are the coroutines under way; `submitted`, `serviceLoaded` are history |
| `SessionService` | the session inside the process (`sessions/service.py`) | two stacks per frame: types (analysis) and values (machine); `torn` is history |
| `EditorAnalysis` | live analysis and the disk check (`terminal_editor/analysis.py`) | `opened`, `active`, `revision` are the workspace; `task`, `diskTask` the two coroutines with their threads |
| `ArtifactStore`, `Coordinator` | the store's operations as steps of processes that share a directory; `build_module`/`build_executable` with nested builds, on top of it | `coordinator[p].stack` are the builds under way in a process |
| `CompilationDatabase`, `LanguageServer` | overlays, analyses, the caching loader and its invalidation; the server's notifications on top of it | `loads` is `_loading_stack` with the analysis below it; `seen` is the set of texts a result rests on |
| `PackageCommit` | install, locked install, and transactional manifest changes (`modules_system/packages.py`) | `jobs` is the recursion of the resolver, `journal` the backups |
| `Queues` | the subsequence in a set (`Kept`) and the ascending sequence of a set of numbers, with which queues are described | |
| `SchedulerProofs`, `TaskChannelsProofs`, `NativeCallsProofs`, `EditorRuntimeProofs`, `CoordinatorProofs`, `PackageCommitProofs` | theorems about the module of that name, and what it extends, with their proofs | |
| `AnalysisProofs` | the same about `SessionService`, `EditorAnalysis` and `LanguageServer` with its database | |
| `QueueLemmas` | facts on queues of any length: what is kept of them, and how many of their elements are in a set; for the proofs about channels, the scheduler, the editor and packages | |
| `MC*` | instances for TLC | |

Compositions: `TaskChannels` EXTENDS `Channel`; `Scheduler`, `Channel`,
`SessionWorker` and `PackageCommit` use `Queues`;
`EditorRuntime` EXTENDS `SessionWorker`, `Coordinator` EXTENDS `ArtifactStore`,
`LanguageServer` EXTENDS `CompilationDatabase`. `Scheduler`, `TaskChannels` and `NativeCalls`
are three views of one executor: each keeps the parts of the loop that its
instructions interact with.

In several modules an operator has a *twin* that differs by a plausible slip
(`ClearWakes` for `RemoveWakes`, ...). No action uses a twin. Put in the place of the original, each
makes a property fail; `PROJECT.json` lists the pairs under `mutants`.

`Coordinator` and `PackageCommit` are checked over several projects at once:
`project` and `world` are variables that no step changes, chosen in `Init` from
the constants `Projects` and `Worlds`. `Channel`'s `capacity` is chosen the
same way from `Capacities`.

### Scheduler

*One action is one instruction of the running frame, or one decision of the
scheduler loop, with everything the code does in it.* The program is arbitrary:
whoever holds the executor picks any next instruction. `current` is
`Scheduler.current_task`; `step(t)` is `popleft` and the head of
`TaskControlBlock.run`, split by what `run` and `_run_activation` decide first:

* `StepCancelled`: `cancellation_requested` is set, `_finish_cancelled`;
* `StepFailFast`: an own scope has a pending failure; the suspension is
  cancelled, the scopes from the innermost to the failed one are closed, and
  the failure is raised now or after they joined (`Unwinding`; a frame that the
  running task enters unwinds likewise, `UnwindNext`);
* `StepNotReady`: the pending suspension is not ready, it is yielded again
  (a group wait cancels the rest of a group with a failed member);
* `StepRun`: the suspension is ready (the result is used or its fault raised),
  or the task starts or goes on.

`_finish` is one operator that every ending uses: it commits the state, records
the failure, cancels the siblings, requeues the owner, fires the close waiter
and then the waiters, in that order. It needs the order in which tasks are
requeued, so a *cascade* of cancellations is the sequence `request_cancel[t]`,
depth first in spawn order, as the code recurses. `Cancelling` is what a
cascade does, `Unblock` the metadata it clears. `request_cancel` and `schedule`
are recursive functions, not RECURSIVE operators, and can be proved about.

A `TaskBlocked` marker is the record `pending[t]`; `blockedCancel[t]` is the
suspension whose clean-up `blocked_cancel` would run. They are kept apart
because the code keeps them apart: `Scheduler.schedule` clears
`blocked_reason` and leaves `blocked_cancel`, and a woken task may be cancelled
before it runs.

*Faults that are caught.* A fault raised in a frame is offered to the handlers of
that frame and of its callers (`_raise_activation_error`, `_handle_panic`,
`_propagate_frame_error`). Where a handler stands is the program's affair: it is
inside some number of the blocks the code is in, and control goes on there
(`Caught`), while `active_scopes` stays as it is. Code and scopes then count
different depths, `blocks[t]` and `Len(activeScopes[t]) - 1`: a block that was
jumped over leaves its scope on the stack, the next `SCOPE_END` closes that one
instead of its own, and if the scope of a block went with an unwind whose failure
was caught inside the block, its end faults (`ScopeEndUnmatched`). `strayed`, which
no action reads, remembers the tasks this happened to, and those where an unwind
gave up the close the task was suspended on. Panics are caught, failures of
children that `wait`, a block's end or an unwind raises, and so are these in the
root frame (`RootCatch`, `RootRaises`); cancellations are not (`is_recoverable_fault`).
A child that failed by a `RuntimeError` rather than by a panic cannot be caught
either; the model does not tell the two apart and lets programs catch both.

The root frame is the actor `Root`. `rootPhase` says which `run_until` it is in
and `predicate` what that one drives to; the tasks run only while
`Driving`. `RootExit` is the end of `VirtualMachine.run`.

Abstracted: values, results and fault contents (a fault is the state `failed`,
a `CancelledFault` the state `cancelled`), and call frames (a task has one body;
of its handlers only the number of blocks around them counts). A failed child's entry
in `child_faults` and the `pending_failure` flag are `FailedChildren(s) # {}`,
which is the same set since `finalize_close` empties both together.

### Channel and TaskChannels

Every method of `Channel` is atomic (one executor, no suspension inside), so an
action is a whole method, split by outcome: `SendToReceiver`, `SendToBuffer`,
`SendBlocks` and so on. An operation is used once and a value *is* the send
that carries it, so each delivery can be told apart. `Settle` is
`_reclaim_if_unowned`, which ends every action that can leave the channel
unowned. `OwnWake` says whether registrations carry wakes: with wakes of their
own (the VM), equality of registrations is identity; without,
`deque.remove` compares fields.

`TaskChannels` uses these actions as the channel instructions of tasks. A
blocked operation is resolved in the quantum of another task and applied when
its own task runs again (`StepReceived` and its like); between the two its task
may be cancelled by a program or by a failed sibling, and its frame, with the
operands still on it, is discarded or kept as `vm.py` does.
`ReleaseHandles` releases the function value of a task with the handle it
captured, `LeaveBlock` is the join and what follows it. `Deadlock` is the report
of `run_until`.

### NativeCalls

A call goes through `Take` (a worker picks it up), `Acquire` (lease), `Enter`,
`Body`, `CallBack`, `Convert`, `RequestDestroy`, `Release`, `Publish`; the
scheduler thread through `TakeLock`, `DrainResult`, `DrainCallback`, `Sleep`,
`Wake`. Attribute updates of CPython are taken as atomic, and so is whatever
runs under the condition's lock. A callback is answered on the calling thread
or, from another thread, by the scheduler thread when it drains. One logical
timer may be registered (`TimeoutTask`); a timer that fires cancels its target.

### SessionWorker and EditorRuntime

The interface thread's methods are atomic to itself, but the process runs
between any two reads of one `poll`, so `poll` is four steps (`PollStart`,
`PollEvent`, `PollOutput`, `PollEnd`) and `close` three. The process is its
main thread (`Boot`, `Get...`, `Prepare`, `Write`, `Report`, ...) and the feeder
thread of the output queue (`Feed`). It may be terminated, killed or crash at
any step, also between `DropChunk` and `CountDrop`, with the lock of the shared
count held. `EditorRuntime` adds what the editor checks before each call and
does with each event; `run_file` and `stop` are coroutines that go on at an
await (`Coroutines`, `StopDrains`, `StopReplaces`). `SessionWorker` has no
specification of its own: its client decides which calls are legal, and the
client is `EditorRuntime`. What a process brings is followed in the same step by
what the editor will make of it (`Follows`).

A line of input is also answered while a stop is under way (`AnswerInput`), until
the queues are closed; between that and the return of the stop's coroutine
`put_nowait` would raise in the interface thread, which is not modelled. When a
program loaded from a file raises a plain `ValueError`, the process reports the
load as `cancelled` after `loaded` (`worker.py:179`, in `ExecuteDone`); any other
exception that `execute` does not catch ends the process, which is a crash.

### SessionService and EditorAnalysis

A source of `SessionService` pushes a value or drops one; a value is named by
its type, so a frame is sound exactly when its two stacks are equal. Clients
hold any number of preparations (`tokens`) and present any of them at any
time. `execute` commits the analysis, then runs the program; `Fault` is what it
catches (`VMError`, `PanicSignal`, `OSError`, `RuntimeError`) and answers with a
reset if the session was made so, `Unhandled` what passes by without one: a
`ConcurrencyFault` of the root frame, a plain `ValueError`, an interrupt. Either
leaves a frame whose types are those of a source that did not end; it is marked
`torn` until a reset, or until a branch like that is left for its parent.

In `EditorAnalysis` a text is its number of changes and the disk a counter; an
analysis is a thread that ends at any time and a coroutine that goes on some
time after it. What changes text and documents does not always poll at once:
`Edit`, `Save` and a switch to a tab that is mounted do; the caret's handler, which
may be the first to see an edit (`app.py:503`), file actions, which read the widget
(`app.py:1019`, `1153`, `1187`, `1207`), and a reload do not (`Update`), nor do
opening and closing documents (`TabOpens`, `TabCloses`), where the poll comes with
the mounted widget or with the timer.

### ArtifactStore and Coordinator

A build is the sequence of steps between which another process can run:
read the source, restore or check the output, load the imports, compile (with
nested builds), put the object under the writer lock, write it, publish the
output, verify, merge the record under the lock, write the index. A process
may die between any two. An executable is looked for, then read (`CheckOutput`,
`CompareOutput`), and may be gone in between. `flock` is what the kernel makes of
it: the lock goes when its holder dies, and a removed lock file is another file
(`stale`). A project says whether its platform has `flock` (`HasFlock`); where it has
not, `writer_lock` locks nothing (`store.py:56`). That Windows also refuses to replace a
file that is open is not modelled.
Contents are records of what was compiled, so a wrong reuse is visible.

The loader prefers a compiled interface (`.vbcm`) to the source
(`modules.py:252`), but takes it only if the hashes of the source and of all its
dependencies are the present ones, so it loads what the source gives; modules
without a source are left out. In a circle an import gives a provisional
interface that is recorded without the hash of an implementation
(`modules.py:454`, `518`); the imports of a unit that was built end up loaded,
and `_record_dependency` writes their final hashes over it, so `LoadedDeps` is
what a finished load records.

### CompilationDatabase and LanguageServer

A text decides what it imports, whether it parses, whether it has errors, and whether
its contracts are complete enough for a circle; an analysis is the set
of `<<file, text>>` it has seen. The loader's recursion is the sequence `loads`, innermost
load first: a frame has read its source and goes through its imports, in any order. For
each, `load` records who requested it and finds it missing (`LoadMissing`), cached
(`LoadCached`) or under way (`LoadProvisional`: the contracts of a circle; `LoadIncomplete`
where they do not suffice), or begins a
load of its own (`LoadSource`), which `LoadReturns` ends. A module that does not parse ends
all loads under way at once, up to the caller of `analyse`, who publishes the error
(`LoadRaises`, `AnalysisRaises`, `AnalyseUnparsable`); `StartAnalysis` and `EndAnalysis` are
the two ends of `analyse`. The server is one thread, so no notification comes between
these steps, but a change on disk may. `SetOverlay` and
`CloseDocument` invalidate along `AllRequesters` and `Importers`, the least sets that
the two loops of the code reach. The language server sets or
closes one overlay per notification and analyses the open documents one after
another.

### PackageCommit

The resolver's recursion is the sequence `jobs` (resolve a declaration, restore
a locked package, place a staged one); placing is the two steps of the code,
the removal of the old tree and the replacement (`DropOld`, `Place`), and every
step can fail. `_commit_manifest_change` surrounds them with the journal and the
rollback in its order (manifest, lock, trees). An interrupt passes the handler
by, as `except Exception` lets it; a tree is put back in one step (`UndoTree`), and of
a copy that fails half way nothing is kept. A locked install sorts the records by depth;
which of two records of one depth comes first is left open (`LockedOrders`).

## What each run checks

All passing runs together take every action and disjunct of the next-state
relations. Sizes are distinct states.

| Run | Instance | What it asks |
|---|---|---|
| `tasks` | 3 tasks, 2 blocks; vectorised waits, cancellations, panics, caught or not (1.83 million) | nobody sleeps through a wake, a cancellation or a failure; no block is left with a child running; refinement of `StructuredTasks` |
| `waits` | 2 tasks, 2 blocks, every instruction, caught faults, fairness of the loop (225,025) | a cancelled task ends; if programs end, every wait of the root frame comes back |
| `channels` | 3 sends and 2 receives of 3 tasks, capacity 0 or 1; cancellation, panics, closes, handles released, an early end of the block (343,342) | order, no waiting in vain, agreement of queues and suspensions, ownership of values; refinement of `FifoChannel`; the block is left |
| `native` | 2 tasks and the root frame, five kinds of calls, two workers, waits, timeouts, cancellations (767,383) | no false deadlock, no sleep with work to do, no foreign result, no leased handle invalid; the program ends |
| `editor` | 2 requests with more output than the queue holds, one edit, commands, stops, resets, quits; crash at any step (6.2 million) | the owner's picture of the process is right; commits and loads are about their own text; ends come after output |
| `recovery` | 1 request with output that is dropped, the process may be killed, fairness of the interface loop (215,060) | submissions are answered, stops and deaths end in a new session, a quit leaves no process |
| `session` | branches of depth 2, transfers, loads, faults that are caught or not, resets, preparations held across all (2.3 million up to symmetry) | nothing stale is used; every frame has the types of its values and its own machine |
| `shown` | 2 documents opened, edited, saved and closed, 4 revisions, 2 changes on disk, fairness of the interface loop (131,024) | what is shown is about what the last poll saw; stale results go and new ones come; nothing after close |
| `builds` | five projects, see below (621,021 up to symmetry) | records are true and their objects exist; no record is lost; outputs are what their sources compile to |
| `documents` | 3 documents that import each other, perhaps in a circle; one changes on disk at any moment, also within an analysis; files that do not parse (880,375) | caches and diagnostics agree with what is open; no needless invalidation |
| `packages` | three projects, layered, circular and over a live package; 2 commands, failures, failing rollbacks, interrupts (663,330) | what is installed is what is locked; failed changes are undone; locked installs only restore; commands end |
| `orphans` | 2 tasks, 1 block, panics that are caught | violation: a documented promise the code does not keep, see below |

### The properties

Each run's properties are conjunctions of named parts; the parts carry the
comments in the modules.

* `NobodyIsStranded` (`TypeOK`, `NoLostWakeup`, `CancelDelivered`): a task that
  neither runs nor is queued is blocked on something that has not happened, its
  wake is registered with *all* of it, the clean-up of a cancellation is the one
  of *this* suspension, and no chain of scope closes parks a cancellation. This
  is what every hand-written combination of wake, cancel and re-block must keep.
* `ClosedScopeJoined`, `CompletedOwnerJoined`: `finalize_close` leaves nobody
  behind, including grandchildren spawned during the close and children of
  scopes unwound by a failure; a normally returned task closed all its scopes, if no
  handler made it jump over a block's end and no unwind over a close (`strayed`;
  without that exception the property is `ReturnJoins`, which does not hold).
* `FailFast` (`FailureStopsSiblings`, `FailureReachesOwner`): fail-fast is
  complete in both directions. The owner of a scope with a failed child has
  ended, is queued, unwinds next, or is suspended on closing that scope or on the unwind of a
  scope around it, which raises a failure; or it has strayed from that scope. The unwind of a
  scope around it is a case the runs do not reach: an owner closes an inner scope in which a child failed, then a
  child of an outer scope of the same owner fails, and `StepFailFast` replaces the
  suspension. It takes two scopes of one task with two children each, five tasks
  in all, and came to light in the proof.
* `StructuredSpec`: the whole scheduler is a refinement of `StructuredTasks`.
* `CancelEventuallyEnds`, `RootWaitReturns`: liveness of the loop.
* `NobodyWaitsInVain`: back-pressure is exact; a receive and a send are never
  blocked at the same time, nor a receive on a buffered value.
* `EndsLast` (`EndIsDrained`, `DestroyedIsEmpty`), `Fifo`, `OneLine`: the end of
  the stream and of the channel come last; accepted sends are what the receives
  got, in call order; buffer and blocked senders together are one line.
* `RegistrationsAgree` (`WaitingIsQueued`, `RegistrationsAreLive`): who waits is
  queued once, and no value is handed to a task that cannot take it any more.
* `ValuesAreOwned` (`OnePlace`, `CountsAgree`): a value in transfer has one
  owner, and its reference count says so, except where a send was refused or one
  side was cancelled (see the disagreements), and then it is off by one at most.
* `DeadlockIsReal`, `BlockIsLeft`: a reported deadlock is one, and the
  cancellation that follows reaches everybody.
* `NothingMissed` (`NoFalseFault`, `NotAsleep`), `OnlyOwnResult`,
  `PinnedWhileLeased`, `ProgramEnds`: the scheduler thread neither gives up on a
  call nor sleeps over a completion; results reach their own task; a handle is
  valid while a call leases it; the program ends.
* `ProtocolHolds` (`QueuesNeverFull`, `OneSubmission`, `MessagesFit`): no
  `put_nowait` raises, `busy` is exact, and two readers of one queue never take
  each other's message. `OutputBeforeEnd`: an end is reported after its output.
* `PendingIsKnown` (`PendingIsPrepared`, `LoadedIsKnown`), `ShownIsLoaded`: a
  commit is decided about the snapshot the process prepared; the editor shows
  as loaded what the session has loaded.
* `SubmissionAnswered`, `SessionIsReplaced` (`StopReplacesSession`,
  `DeathIsNoticed`), `QuitEnds`: liveness of the editor.
* `NothingIsStale` (`PreparedForThis`, `HintIsExact`), `FramesAreSound`
  (`StackIsTyped`, `MachinesInUse`): counters make every stale token and hint
  unusable; types describe the values in every frame that no fault left `torn`.
* `ShownIsRight` (`ShownIsCurrent`, `CheckIsAboutShown`), `NothingAfterClose`,
  `ResultsFollow` (`StaleDiskNoticed`, `AnalysisComesBack`). What is shown is about the
  document and revision that the last poll saw, and about the present text unless
  something changed since; the check of the disk is about the files it was made from.
* `RecordsStand` (`IndexClosed`, `RecordsTruthful`), `NoLostUpdate`,
  `OutputsAreRight` (`ReusedIsFresh`, `BuildStands`): under two processes, crashes
  at every step, edits during builds, lost outputs and damaged objects.
  `NoLostUpdate` says so only where merges take turns (`MergesTakeTurns`): with `flock`,
  and while nobody cleans the cache.
* `AnswersAgree` (`CachedIsCurrent`, `OpenDocumentsAgree`),
  `OnlyAffectedDropped`: invalidation is neither too small nor too large.
* `InstalledAsLocked` (`DoneIsReproducible`), `ChangesAreUndone`
  (`FailureRestores`, `IncompleteIsReported`), `LockedOnlyRestores`,
  `CommandsEnd`. `ChangesAreUndone` leaves out the trees of live packages to which only
  managed ones lead (`Unjournaled`): the journal does not have them.

### Bounds, and why they are enough

* `tasks`, `waits`: three tasks (two in `waits`) give an owner, its child and a sibling or an outsider that waits or
  cancels: the longest interaction one step can have (a cascade through a
  closing sibling to that sibling's own child) needs exactly three. Two blocks
  besides the root scope: they nest, or belong to different tasks. Group waits
  have two members, the smallest with one wake in several lists. `Features`
  selects the instructions of a run's programs; `waits` has all of them, caught
  faults of the root frame included, and `tasks` those of tasks that a single wait or a
  yield does not add to.
* `channels`: capacity 0 hands over directly, capacity 1 has a buffer that is
  full or empty; two senders block to tell the first from the last. The second
  task both receives and sends. `MaxHandles` bounds `retain_handle`.
* `native`: two calls of tasks and one of the root frame; one may lease, one
  destroy, one call back. `MaxOps` bounds what the root frame does besides.
* `editor`, `recovery`: the queue of commands has its real size, 2; the output
  queue 1 instead of 128 and a batch 1 instead of 64, with two writes per request
  (`MaxChunks`), so that the queue fills and output is dropped and counted in both.
  `MaxRequest` and `MaxText` bound requests and edits. A process crashes in
  `editor` and is killed in `recovery`; the theorems have both.
* `session`: two values, so that types can differ; `ResetOnFault` is TRUE, the editor's
  setting (the theorems have both); `MaxVersion` 6 and
  `MaxPreparation` 4 allow a branch to be opened, worked in and left with
  preparations of before.
* `shown`: two documents to switch between and back; four revisions, enough to open both,
  edit one, close it and go on.
* `builds`: `Targets` (two executables, two processes that die anywhere),
  `ImportsEdited` (one target built twice at once while it and its import are
  edited and outputs disappear), `Modules` (a circle of imports, crashes, lost
  outputs), `Store` (one target; crash, lost output, damaged object, garbage
  collection, damaged index, cleaned cache), `Flockless` (two targets, no `flock`).
* `documents`: a chain of three with a second path and a circle, each file with
  two texts, or missing, in all 27 ways on disk; of the texts one has errors, one does not
  parse, and one has contracts too incomplete for the circle. The file
  that both others rest on is the one that changes on disk (`Edited`); with all three
  changing, the analyses in steps are out of TLC's reach in the time of a run, and the
  theorems, which hold for any `Edited`, take its place.
* `packages`: a local package over a git package and a live path package over
  the same (`Changed`); a circle of live and one of managed packages (`Circular`), where
  every install that has something to do ends in the cycle error, so that world is about
  `CommandsEnd` and about undoing; a local package over a live one that is over a local one
  (`Unseen`), whose tree the journal does not have. Two commands, so that
  a lock of the first meets the second.

Deadlock is checked wherever the system may not stop: `tasks`, `waits`,
`channels`, `builds`, `documents`, `orphans`. The other systems may have used
up their bounds, or ended.

## Fairness

* `SchedulerFairness`: `run_until` takes quanta as long as its predicate is
  false (`WF` of a step), and the instruction budget
  (`task_instruction_quantum`) bounds each quantum, so a task that keeps running
  is made to yield, or to take the unwind it comes to (`WF` of `Yield \/ UnwindNext`).
  The code guarantees both.
* `ProgramFairness` is about the program, not the scheduler: each task
  eventually leaves its blocks and returns if it can again and again (`SF` of
  `Return \/ ScopeEnd \/ ScopeEndUnmatched`), and
  the root frame goes on after its waits. It is an assumption of
  `RootWaitReturns`, not of the specification. A deadlock report counts as an
  answer.
* `LiveTSpec`: the executor goes on (`WF` of a quantum, of the deadlock report
  and of leaving the block); `BlockIsLeft` assumes that tasks do not yield for ever.
* `NativeCalls!LiveSpec`: the host runs every thread, and C returns unless it
  waits for a callback.
* `EditorFairness`: the interface loop runs its timers and messages, the close
  thread and a living process get on; a coroutine that waits for an idle worker,
  and the user who is asked for a line, come to it in the end (`SF`). The
  properties assume `DiesUnlocked`.
* `EditorAnalysis!Fairness`: timers fire, threads end and their coroutines go
  on; the one-second check of the disk comes round (`SF`).
* `PackageCommit!LiveSpec`: a command's steps follow one another.

## What is proved

Every theorem holds for every value of the constants that satisfies the named
assumptions of its module: any number of tasks, operations, processes, units,
documents or versions, any capacity and any bound. Each step proof has one
case per action. TLC confirmed the inductive invariants on the runs' instances
before they were proved.

| Theorems | Of | What they say |
|---|---|---|
| `SchedulerProofs`: `Inductive`, `ClosedIsJoined`, `ImplementsStructured`, `CompletedOwnersJoin`, `NobodyIsEverStranded`, `FailuresSpreadAtOnce` | `Scheduler` | `[]IInv`, `[]ClosedScopeJoined`, the refinement of `StructuredTasks`, `[]CompletedOwnerJoined`, `[]NobodyIsStranded`, `[]FailFast` |
| `TaskChannelsProofs`: `TypeCorrect`, `NobodyWaits`, `ReclaimedEmpty`, `EndAfterDrain`, `EndsComeLast` | the channel with any client (`Channel!Spec`: any method at any time while a handle is left) | `[]` of `TypeOK`, `NobodyWaitsInVain`, `DestroyedIsEmpty`, `EndIsDrained`, `EndsLast` |
| `TaskChannelsProofs`: `WaitersAreQueued`, `FirstInFirstOut`, `ChannelIsOneLine` | the same, if `OwnWake` | `[]WaitingIsQueued`, `[]Fifo`, the refinement of `FifoChannel` |
| `TaskChannelsProofs`: `TasksAndChannel`, `RegistrationsAlwaysAgree`, `DeadlocksAreReal`, `NoTaskWaitsInVain`, `EndsLastForTasks`, `FifoForTasks`, `TasksUseOneLine`, `ValuesAlwaysOwned` | the channel among tasks (`TSpec`) | `[]TaskInv`, `[]RegistrationsAgree`, `[]DeadlockIsReal`, `[]ValuesAreOwned`, and the channel's own properties again |
| `NativeCallsProofs`: `CallsAndTasksAgree`, `NothingEverMissed`, `OnlyOwnResults`, `PinnedForEveryLease` | `NativeCalls` | `[]NativeInv`, `[]NothingMissed`, `[]OnlyOwnResult`, `[]PinnedWhileLeased` |
| `EditorRuntimeProofs`: `EditorInvariant`, `EditorProtocol`, `EditorOutput`, `EditorPending`, `EditorShown` | the editor with the sessions it owns and replaces (`EditorSpec`) | `[]EditorInv`, `[]ProtocolHolds`, `[]OutputBeforeEnd`, `[]PendingIsKnown`, `[]ShownIsLoaded` |
| `AnalysisProofs`: `SessionTypes`, `NothingEverStale`, `MachinesAreInUse`, `FramesAlwaysSound` | `SessionService` | `[]TInv`, `[]NothingIsStale`, `[]MachinesInUse`, `[]FramesAreSound` |
| `AnalysisProofs`: `ShownIsAlwaysRight`, `NothingLate` | `EditorAnalysis` | `[]ShownIsRight`, the action property `NothingAfterClose` |
| `AnalysisProofs`: `AnswersAlwaysAgree`, `OnlyAffectedAreDropped` | `LanguageServer` with `CompilationDatabase`, any graph of imports | `[]AnswersAgree`, the action property `OnlyAffectedDropped` |
| `CoordinatorProofs`: `BuildsAgree`, `RecordsAlwaysStand`, `UpdatesAreKept`, `OutputsAlwaysRight` | `Coordinator` on `ArtifactStore` | `[]BuildInv`, `[]RecordsStand`, `[]NoLostUpdate`, `[]OutputsAreRight` |
| `PackageCommitProofs`: `LocksOnlyRestore`, `JournalsHold`, `ChangesAlwaysUndone` | `PackageCommit` | the action property `LockedOnlyRestores`, `[]ChangeInv`, the action property `ChangesAreUndone` |
| `PackageCommitProofs`: `LocksReproduce` | the same | `[](LiveAboveManaged /\ LiveNeededOnce => InstalledAsLocked)` |

`QueueLemmas` holds the facts on queues the others cite.

### The assumptions

`OwnWake`: every registration carries a wake of its own. The VM always supplies
one, so `TaskAssumption` contains it; for direct users of the class the three
theorems say it, since without it `WaitingIsQueued` and `Fifo` are false (`CancelLeavesPeers`, below).
`MaxTask < MaxHandles`: the bound on the handle count leaves room
for the handles of the tasks. `CommandLimit >= 2`: the code's `maxsize` is 2
(`sessions/worker.py`), and with 1 a submission behind a preview would find the
queue full, so `ProtocolHolds` says why it is 2. `NoOp`, `NoValue`, `None` and `Unset` stand for
Python's `None` and are no member of what they are an alternative to. `DatabaseAssumption` and
`EditedAssumption` say no more than what the constants are: which texts import what, and
that other programs change some of the files, perhaps all.

`OrderAssumption`: the packages have an order, the one `sorted` gives their
names. Two predicates on the world are hypotheses of `LocksReproduce` alone, and parts
of its statement. `LiveAboveManaged`: no git or local package that may be installed needs a
live package. `LiveNeededOnce`: no live package may be declared by two others; otherwise
`DoneIsReproducible` is false (below). The code asks for neither. Of the worlds of the run
`packages`, `Changed` satisfies both; `Circular`, where one live package is needed twice, and
`Unseen`, where a local package needs one, do not: for them `InstalledAsLocked` rests on TLC.

### The arguments

*Scheduler.* `ClosedScopeJoined` is not inductive: closing looks
at `children`, membership is `scopeOf`, and the scopes to close are remembered
in a suspension made many steps earlier. `IInv` adds what is missing. `Base`:
types, and that the task on the executor has been spawned. `Places`: every scope on a task's
or the root frame's stack, in a suspension, or being closed by the root frame
has been entered, so that what is closed later is never an unborn scope.
`Homes`: a scope that is not closed still lists every task spawned into it, so
`children_terminal`, which looks at the list, speaks of every member. Steps
that end a task share one lemma on `_finish`, those that cancel one on
`Cancelling`. The refinement maps a step to a birth, an entry, one `Advance` or
a stutter.

`Owners` accounts for the scopes a task opened (`Accounted`): each is on its stack behind the
one it was spawned into, closed, or in the suspension that closes it; or the task is in an
unwind that raises a failure, has strayed, or has failed or been cancelled. Unless a task has strayed,
its stack is as deep as its code (`Fits`), through faults caught at any depth. A return is at depth 0, so
the account is empty and `CompletedOwnerJoined` follows.

`NobodyIsStranded` needs to know what a cancellation does that goes down the tree
of tasks. `Lineage` gives it an order: whoever opened a scope is older than
every task in it, and only the owner has it on a stack or in a suspension; so
`request_cancel`, a recursive function, goes from a task to younger ones and its value
is a sequence of live tasks (`OneCancel`, by induction on the age). What
the cascade does is then stated for sets: its tasks are queued, flagged and
without wakes, everybody else keeps what they had (`Cancelled`). `Wakes` says of
each task where it is (`Placed`): running, on the queue, or asleep with a wake on the list
of everything it still waits for; who ends or joins takes its list
with it only by queueing everybody on it.

`FailFast` follows from the same step lemmas (`Spreads`: a step that makes a task
fail flags its siblings and queues the owner, and takes no task off the queue
but its own) and from `RunnerUnfailed`: no sibling of whoever runs has failed. A quantum
starts only if the task was not cancelled, and a failed sibling would have flagged it. In its
own scopes the runner may have failed children, for a handler that caught one failure lets it go on
before it looks at the next; but it unwinds for them before it spawns anybody, or it
has strayed from that scope (`Reached`, and `OwnReached` for its own steps).

*Channel.* The shape of the three queues (`NobodyWaitsInVain`) is inductive
relative to `TypeOK`, since every method looks at the queues in the order that
keeps at most one of them relevant; reclamation and the end of the stream
follow, with the fact that only the holder of a handle can call.
`WaitingIsQueued` says that a registration stands in its queue once, exactly
while it waits. `Fifo` compares histories that grow in the middle: what a
receive got is entered at the place of its *call*. `LineInv` therefore adds that
the receives that were served are called before those that wait, and that logs
repeat nothing; every step then appends to, or takes from the end of, each of
the sequences. What `Kept` (the elements of a queue that are in a set) does
when the set changes, for queues of any length, is in `QueueLemmas`; these are
inductions over sequences, in set form.

*Channel among tasks.* A cancellation here withdraws an operation, resumes
its task and discards a frame in one step; a close resumes a whole queue. `TaskInv` is `ChannelInv`, all the
channel's invariants together, and `Counts`, `RunQueue`, `Suspensions`,
`HandlesHeld`: a waiting operation is the one its task is suspended on, that
task is not queued, who has not ended is queued, runs or waits, and every
such task keeps the channel alive. A deadlock is then real, as all
that is left are waiting operations of one kind on an open channel.

`ValuesAreOwned` counts the places of a value; `Ownership` is its inductive
form, with the reasons in it. `Receipts`: what a task holds it received by an
operation of its own that it has resumed from. With `Fifo`, which has no value
twice in what was received, released and is buffered, no value is in two places
(`Apart`). `CountFits`, for each value: the count is one or none as the value is
present or not; it can be one too low only after the sender was cancelled with
the sent value still on its stack, and one too high only after a receiver was
cancelled with the value on its way to it. Each deviation is tied to its cause
because a bare bound on the count is not inductive: nothing would stop a second
release too many. All ways to let go of values (a frame that is discarded, a
value that is consumed, the buffer that goes with the last handle) are
instances of one lemma, `LossOwned`.

*Native calls.* `Queued` makes the run queue and the blocked flag complement
each other; `CallsInOrder` ties the phase of a call's thread to its task's
flags (`completed`, `abandoned`, `registered`); `Leased` counts the leases as
the calls that have the handle's address, a call back into the VM included;
`Awake` is what the condition variable guarantees: a sleeper has been notified
exactly if a completion is queued. `PinnedWhileLeased` follows from the count,
`NothingMissed` from the last two with `Queued`.

*Session worker and editor.* `WorkerInv` counts. A submission is a command that
waits, what the process works on, an end among the events, or an end that waits
for its output: together as many as `busy` says (`OneAtATime`), which is why no
`put_nowait` finds the queue full. Previews, lines of input and commits are
counted likewise (`Previews`, `Lines`, `Commits`); a commit is about the load in
the process (`OwnCommit`). Once the process is dead and the owner has taken
what it left, `busy` speaks of nothing any more (`GivenUp`, `DeathIsLast`), so the counts are
tied to it only until then. `OutputIsCounted` does not follow an output from step
to step: it bounds what was sent, in the feeder's buffer, the pipe and with the
owner, by what the process has counted, and an end carries that count.

`EditorInv` adds what the editor knows. A load or a reset is told before the end
of its submission, a load before the fault that undoes it, and nothing of it is
left when the next submission begins (`MarksInOrder`). What the process prepares
or has prepared is the pending text (`LoadsArePending`); this needs that a run
captured a text (`RunHasText`) and that one whose session was closed under it is
told so before it submits (`RunIsTold`). `ShownIsLoaded` speaks of quiet states only;
its inductive form (`ShowsWhatIsLoaded`) says at every moment what the editor will
show once it has been told everything that is under way. Its proof reduces every step
of the process to one of few forms (`ChildStep`: it goes on, takes a submission,
loads, resets), and every call of the owner that takes nothing from the process
to one (`PassesOn`).

*Session.* `NothingIsStale` is inductive with `TInv`, whose part on the counters
is that no preparation or hint handed out is ahead of the present version:
versions only grow, so one that was left never comes back. `MachinesInUse`
needs that no two frames share a machine; `FramesAreSound` needs both, and
`TokensTyped`: the types a preparation would leave are its source's effect on
the types it was made from, which are the present ones when it is used. A fault tears the
present frame only; values moved from a torn frame tear the one they go to, and a reset
or a return to a parent that was suspended whole mends it.

*Live analysis.* Keys of an earlier revision never come back (`ObservedIsPast`,
`TaskIsPast`), which is why comparing keys suffices: a snapshot is set only under the key
that the last poll observed, and the next poll that sees another takes it away. `NothingAfterClose` is an
action property and needs no invariant.

*Compilation database.* That a cached result is current, or stale only where a change on
disk went unnoticed, is not inductive: a document changes, and what was seen of it must
be gone. `Known` ties the two together: whoever has seen a file is among those that
`AllRequesters` drops when it changes. `ServerInv` says so of the cache and the analyses
(`TablesKnown`), of every load under way, each requested by the one below it
(`LoadsKnown`), and of the contracts handed into a circle (`ProvisionalKnown`).
Requests only grow while loads run (`RequestersGrow`), so what is known stays known; an
invalidation forgets the requests of whom it drops, and who is not dropped keeps every
chain of requests to what it rests on (`RequestersStay`). `RequestsAreImports`, the
converse, gives `OnlyAffectedDropped`: without unnoticed changes a chain of requests is a
chain of present imports. `ServedAgree` follows the diagnostics: who has had its turn
since the last notification agrees with all that is open, because no overlay changes
until everybody has.

*Builds.* `BuildInv` says of each process what its innermost call knows (of the
objects unless objects can go, of the index while it holds the lock, of
the outputs if it builds alone), and of every call that waits for a nested
build what it already compiled from. It is stated with the process's state as
arguments, so that the steps of another process are shown to disturb at most
one kind of knowledge, and the lock to exclude those that would. Only the last part of
it, that merges take turns, asks for `flock`: without it records are still truthful and
their objects there.

*Packages.* `ChangeInv` follows a change through its phases: the journal has, of
both files and of the trees the change may touch (`Managed`), what was there before; all jobs,
staged packages and changed trees are within those; and a rollback has restored exactly what
it no longer lists. A resolution stays within them because `PathRoots` is closed under what
live packages need, or it is beneath a managed package, and then in `Unjournaled`.

`InstallInv` says what stands whatever command runs (`Standing`: what is above an
installed or recorded package is installed or recorded too, and a place has one record), and
in an install what is done and what is left.
Resolving (`Resolution`): each recorded package is fetched and the job that places it is to come,
or it is installed and no job touches its place or one above it; of two jobs
neither undoes the other (`Apart`), because a manifest declares a name once and a live
package is needed once. Restoring (`Restoration`): shallow records come first, so no job is
left that would remove a tree in which a deeper package was already
restored. Pruning (`Pruning`) removes only what no record is in. `LocksOnlyRestore`
needs little of this (`RestoreInv`): the jobs of a locked install are records of the lock,
and so is what is put into a tree.

### What stays with TLC

* Liveness, `ENABLED`, and what rests on fairness: `CancelEventuallyEnds`,
  `RootWaitReturns`, `BlockIsLeft`, `ProgramEnds`, `SubmissionAnswered`,
  `SessionIsReplaced`, `QuitEnds`, `ResultsFollow`, `CommandsEnd`.

Every other property of the passing runs is stated by a theorem.

## Where the code and its documentation disagree

The run `orphans` checks the first of these; each of the others is a property in
its module that TLC finds violated under the constants given, and each was
also reproduced by running a program or the class itself, unless it says
otherwise.

Tasks and scopes (`Scheduler`, `SPECIFICATION Spec`):

* `ReturnJoins` (run `orphans`: 2 tasks, 1 block, `{"scope", "panic", "catch"}`): "A
  `concurrent` scope joins all children before it exits" (`docs/concurrency.md:11`). A panic in
  a block that a handler of the same task outside the block catches goes on at the
  handler's target (`vm.py:4747`, `2943`), past SCOPE_END, with the scope still on
  `active_scopes`; the task then returns normally and the children run on.
* `OwnerOutlivesChildren` (3 tasks, 1 block, `{"scope", "wait", "cancel"}`; 2, 1,
  `{"scope", "panic"}`): the same sentence. A task that faults, or
  is cancelled, inside a block it opened ends without closing the scope; its
  children run on (the driver discards frames, `vm.py:2842`;
  `_finish_cancelled` closes the generator, `concurrency.py:323`).
* `ClosingIsJoined` (3 tasks, 2 blocks, `{"scope", "panic", "yield"}`): the same
  sentence. SCOPE_END takes the inner scope off `active_scopes` before it
  suspends (`vm.py:4296`); when a child of the outer scope fails meanwhile, the
  unwinding at 3277-3297 closes only the scopes still on the stack, and the
  inner one is never finalized.
* `ScopesClosedAtExit` (2, 1, `{"scope", "panic"}`): `run` says it closes "every
  structured scope on all exits" (`vm.py:1220`). When the body faults inside a
  block, `close(body_error)` of the innermost scope re-raises that error, which
  leaves the loop at 1230: outer scopes and the root scope stay open.
* `SpawnNeverRefused` (2, 1, `{"scope", "yield"}`): "`spawn` creates a
  `Task[...]` owned by the nearest dynamic `concurrent` scope"
  (`docs/concurrency.md:7`). A child that spawns after its scope began to close
  faults with "cannot spawn into a closing scope" (`concurrency.py:434`).

Channels and values (`Channel`, `TaskChannels` with capacity 0, two sends,
two receives, three tasks):

* `CancelLeavesPeers` (`Channel!Spec`, `OwnWake = FALSE`, one send, two
  receives): cancelling removes one registration "without disturbing FIFO peers" (`concurrency.py:1015`).
  `deque.remove` compares dataclasses by fields, so without wakes of their own a *peer's* registration
  is removed and the cancelled one stays to swallow a value. The VM always
  supplies a wake, so only direct users of the class are affected.
* `HeldIsAlive` (`{"cancel"}`): "the destructor fires exactly once, when the
  true final occurrence [...] releases" (`docs/language.md:5882`). The value of a
  blocked send stays on the sender's stack until the sender runs again
  (`vm.py:4575`), also after a receiver has taken it; a cancellation in between
  releases the occurrence the receiver holds.
* `CancelledLetsGo` (`{"cancel"}`): after a cancellation
  "callable_value.refcount" is 0 (`tests/test_concurrency_vm_quanta.py:294`).
  The release is in the runner (`vm.py:2919`), which a task cancelled before its
  first quantum never creates.
* `TimeoutsWait` (`{"timeout"}`): "deadline expiry requests target cancellation
  and the waiter observes the resulting terminal state"
  (`docs/maintenance/runtime-system.md:2660`). The driver of a task has no branch
  for `_ActivationTaskTimeout`: the marker is taken for a result (`vm.py:2829`) and the task
  fails.

Native calls (`NativeCalls`, two workers):

* `FreedOnceUnused` (two tasks, `{"use", "destroy"}`): "the handle cannot become
  invalid while C is still using it" (`runtime-system.md:2547`). The
  destroying call runs the C destructor while it leases the handle like any other call, and
  requests the destruction only then (`vm.py:11836`): it frees what another
  worker's call uses, and two destroying calls free it twice.
* `FaultsStayWithCalls` (two tasks, `{"callback"}`): the "containing native call
  raises after C returns" (`runtime-system.md:2645`). The faults are in one list
  of the machine that every call clears (`vm.py:11999`).
* `CallbacksAnswered` (root frame `"threaded"`; or a cancelled task's
  `"callback"`): requests from other threads are answered by the VM thread
  (`docs/language.md:6207`). For a call of the root frame that thread is itself
  inside C; for a call whose task was cancelled nobody drains any more.

Sessions and editor:

* `CloseReturns` (`EditorRuntime`, `FairEditorSpec`, `OutputLimit = 1`,
  `MaxChunks = 2`, `MaxText = 0`): close is to "bound exit using process
  termination and join" (`worker.py:376`). A process terminated while it holds
  the lock of the shared count (`worker.py:56`) leaves it locked, and the poll
  that close drains with waits for it without bound (`worker.py:368`).
* `StatePersists` (`SessionService`): "Stack state,
  variables, definitions, and imports persist between entered lines"
  (`README.md:66`). The command line's REPL passes `reset_on_fault=False`
  (`main.py:1388`): a line that faults has its analysis committed and its values
  dropped. With `ResetOnFault = TRUE` the same follows a fault that `execute` does not
  catch (`service.py:605`): the analysis is committed at 574, and nothing resets.
* `NothingOlderShown` (`EditorAnalysis`, `MaxRevision = 2`): "Never present older revision
  facts as if they describe current text" (`terminal-editor-design.md:687`).
  `selection_changed` takes the new text over and shows the inspection of the old snapshot
  (`app.py:503-513`) until the next poll, at most a tick later.
* `AnalysisArrives` (`EditorAnalysis`, 2 documents, 2 revisions): "Updating..."
  is shown while analysis runs (`terminal-editor-design.md:685`). Switching to
  another document and back between a dropped result and the next timer leaves
  `requested` at the present key (`analysis.py:57`): no analysis starts until the
  next edit.

Builds (`Coordinator`, projects with the fault named):

* `IndexAlwaysClosed` (`"collect"`): "Reachability-based garbage collection
  retains every object referenced" (`docs/maintenance/architecture.md:285`);
  the indexes are read before the lock is taken (`store.py:161`).
* `NeverLosesUpdate` (`"clean"`): "without losing concurrent updates"
  (`store.py:140`); `clean_cache` removes the lock file with the tree.
  Likewise without any fault in a project without `flock`, such as `Flockless`: where
  `fcntl` is missing, `writer_lock` yields without a lock (`store.py:56-60`), and of two
  processes that read, change and write an index one loses the other's record. The project
  ships for Windows (`install.ps1`). `NoLostUpdate` makes no claim there.
* `StoreIsRebuilt` (`"index"`): "rebuilding from source if it is corrupt"
  (`coordinator.py:66`); `update_index_record` parses the damaged file again and
  raises. With `"delete"`, an executable that goes between `is_file` and the read that
  follows it raises too (`coordinator.py:317-320`).
* `FailureLeavesOutput` (`"delete"`, a broken version): a failed parse "leaves the
  previous index and output intact" (`architecture.md:283`); a missing output is
  restored from the last record before the source is parsed
  (`coordinator.py:293`).

Language server and packages:

* `PublishedIsCurrent` (`LanguageServer`): "Closing an overlay restores the saved
  source view" (`unified-compilation-database.md:9`); `didClose` analyses no
  other document (`lsp.py:131`).
* `refresh_disk` (not in the model; nothing but tests calls it) compares with the
  hash of the last refresh (`database.py:150`): a file that changed, was analysed
  by an importer, and changed back leaves the analysis of a text that is gone.
* `AllOrNothing` (`PackageCommit`, `"interrupt"`): "Apply a package mutation
  transactionally" (`packages.py:1002`); the rollback is an `except Exception`.
* `AllOrNothing` also in the world `Unseen`, without any interrupt: "failures restore all
  touched managed trees" (`docs/language.md:4876`). The journal has the trees of live
  packages that live ones lead to (`_path_managed_roots`, `packages.py:979`); where a
  *local or git* package needs a live one, an install changes that one's tree too, and a
  rollback leaves it changed. `ChangesAreUndone` exempts these trees (`Unjournaled`).
* `DoneIsReproducible` where *two* packages need one live package (then
  `LiveNeededOnce` is false): `locked` "reproduces only the recorded graph"
  (`packages.py:561`). The live package is resolved once for each; if the source of
  a package it needs is edited in between, the lock gets two records of one place with different
  contents (`packages.py:672-687`), of which only one can be installed.

## What is not modelled, and why

* Front end, compiler, optimiser, formats, values, numbers, the type system and the
  standard library: pure functions over large trees and unbounded data; a model
  would restate them. Their state does not outlive a call.
* `run_until` nested in a task's quantum (a vectorised spawn that waits,
  `vm.py:2883`): a stack of drivers would be a model of its own. The reclamation
  of a terminal task's outcome (`concurrency.py:230`), the rendering of wait
  cycles, which handler of a `try` takes a fault, timer order beyond one timer.
* `refresh_disk`, the module graph and `publish_index`, which nothing but tests
  calls; modules that have only a compiled interface, and native modules.
* Windows' refusal to replace an open file; `put_nowait` on queues that a stop has closed
  (see above).
* Manifest syntax, templates, module path resolution; two package commands at
  once on one project, for which nothing in the code or its documentation
  provides.
* The operating system's containment of a session's grandchildren; widgets, layout, the
  transcript; queries of the language server; the command line.

## Plan

What the model says, in the order in which it was built: scheduler, channels and their
proofs; tasks with channels; native calls; session worker and editor; session
service; live analysis; store and coordinator; compilation database and language
server; packages. The proofs followed: channels (`OneLine` included), tasks with
channels, native calls, session service, live analysis, builds, the rest of the scheduler,
session worker and editor, packages, compilation database and language server.
