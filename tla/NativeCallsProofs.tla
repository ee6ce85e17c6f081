------------------------- MODULE NativeCallsProofs -------------------------
(***************************************************************************)
(* Native calls of scheduled tasks (NativeCalls): the handle of a call is  *)
(* pinned, a task resumes with its own result and with none after its      *)
(* cancellation, and the scheduler thread misses no completion.            *)
(***************************************************************************)
EXTENDS NativeCalls, QueueLemmas

-----------------------------------------------------------------------------
(* The inductive invariant.                                                *)

States == {"pending", "running"} \union Terminal
Phases == {"none", "submitted", "acquire", "enter", "body", "waiting", "return", "release",
           "publish", "over"}
Outcomes == {"value", "not live", "callback", "conversion", "released"}
Completion == [what : {"result", "callback"}, caller : Callers]
Spots == {"root", "loop", "check", "resting", "sleep", "drain", "native", "over",
          "deadlock", "disappeared"}

Types ==
    /\ kind \in [Callers -> AllKinds]
    /\ state \in [Tasks -> States]
    /\ blocked \in [Tasks -> BOOLEAN] /\ cancelling \in [Tasks -> BOOLEAN]
    /\ registered \in [Tasks -> BOOLEAN]
    /\ abandoned \in [Tasks -> BOOLEAN] /\ completed \in [Tasks -> BOOLEAN]
    /\ runnable \in Seq(Tasks) /\ pool \in Seq(Tasks)
    /\ completions \in Seq(Completion)
    /\ timer \in Callers /\ until \subseteq Tasks
    /\ at \in Spots /\ notified \in BOOLEAN /\ committed \in BOOLEAN
    /\ phase \in [Callers -> Phases] /\ result \in [Callers -> Outcomes]
    /\ alive \in BOOLEAN /\ destroyPending \in BOOLEAN

\* A task that is not over is queued, or blocked with a registered wake.
Queued ==
    /\ IsInjective(runnable)
    /\ \A t \in Tasks :
          /\ t \in ToSet(runnable) => state[t] \in {"pending", "running"} /\ ~blocked[t]
          /\ state[t] \notin Terminal => t \in ToSet(runnable) \/ blocked[t]
          /\ blocked[t] => state[t] = "running" /\ registered[t]

\* Each call goes through its phases once: it is submitted, worked on,
\* published and, unless its task has been cancelled, finished.
CallsInOrder ==
    /\ IsInjective(pool)
    /\ \A t \in ToSet(pool) : phase[t] = "submitted"
    /\ \A i \in DOMAIN completions : completions[i].what = "result" =>
          completions[i].caller \in Tasks /\ phase[completions[i].caller] = "over"
    /\ \A t \in Tasks :
          /\ state[t] = "pending" => phase[t] = "none"
          /\ completed[t] => phase[t] = "over"
          /\ abandoned[t] => /\ cancelling[t] /\ ~registered[t] /\ ~blocked[t]
                             /\ state[t] \in {"running", "cancelled"}
          /\ state[t] = "completed" => completed[t] /\ ~abandoned[t] /\ result[t] = "value"
          /\ state[t] = "failed" => completed[t] /\ ~abandoned[t] /\ result[t] # "value"

\* A lease is held for each call that has the handle's address, and none once
\* the handle's identity is gone.
Leased == leases = Cardinality(Holders) /\ (~alive => leases = 0)

\* What the scheduler thread knows of the completions when it sleeps and wakes.
Awake ==
    /\ at \notin {"deadlock", "disappeared"}
    /\ at = "resting" => completions = <<>>
    /\ at = "sleep" => (notified <=> completions # <<>>)
    /\ at = "drain" /\ ~committed => completions # <<>>

NativeInv == Types /\ Queued /\ CallsInOrder /\ Leased /\ Awake

-----------------------------------------------------------------------------
(* Scheduling and cancellation.                                            *)

\* A queue of tasks that can run, to which tasks that can run then are added.
LEMMA Scheduled ==
    ASSUME Types, NEW queue \in Seq(Tasks), IsInjective(queue),
           NEW tasks \in Seq(Tasks), IsInjective(tasks)
    PROVE  /\ queue \o Joining(tasks, queue) \in Seq(Tasks)
           /\ IsInjective(queue \o Joining(tasks, queue))
           /\ ToSet(queue \o Joining(tasks, queue)) =
                  ToSet(queue) \union {t \in ToSet(tasks) : state[t] \notin Terminal}
<1> DEFINE joining == Joining(tasks, queue)
           S == {t \in Tasks : t \notin ToSet(queue) /\ state[t] \notin Terminal}
<1>1. /\ joining \in Seq(Tasks) /\ IsInjective(joining)
      /\ ToSet(joining) = ToSet(tasks) \cap S
    BY KeptType, KeptInjective, KeptRange DEF Joining
<1>2. ToSet(tasks) \subseteq Tasks
    BY RangeIn
<1> HIDE DEF joining
<1>3. queue \o joining \in Seq(Tasks) /\ ToSet(queue \o joining) = ToSet(queue) \union ToSet(joining)
    BY <1>1, RangeConcat, ConcatProperties
<1>4. ToSet(queue) \cap ToSet(joining) = {}
    BY <1>1
<1>5. IsInjective(queue \o joining)
    BY <1>1, <1>4, InjectiveConcat
<1> QED
    BY <1>1, <1>2, <1>3, <1>5 DEF joining

\* The blocked tasks among those of S that are not over.
Woken(S) == {t \in Unfinished(S) : blocked[t]}

LEMMA Cancelling ==
    ASSUME Types, NEW S \in SUBSET Tasks, NEW queue \in Seq(Tasks), IsInjective(queue),
           RequestCancel(S, queue)
    PROVE  /\ runnable' \in Seq(Tasks) /\ IsInjective(runnable')
           /\ ToSet(runnable') = ToSet(queue) \union Woken(S)
           /\ blocked' = [t \in Tasks |-> blocked[t] /\ t \notin Woken(S)]
           /\ cancelling' = [t \in Tasks |-> cancelling[t] \/ t \in Unfinished(S)]
           /\ abandoned' = [t \in Tasks |-> abandoned[t] \/ t \in InFlight(S)]
           /\ registered' = [t \in Tasks |-> registered[t] /\ t \notin InFlight(S)]
<1> DEFINE W == Woken(S)
           tasks == Ascending(N, W)
<1>1. tasks \in Seq(Tasks) /\ IsInjective(tasks) /\ ToSet(tasks) = W
  <2>1. N \in Nat /\ W \subseteq 1 .. N /\ Tasks = 1 .. N
      BY SizeAssumption DEF Woken, Unfinished, Tasks
  <2> HIDE DEF W
  <2> QED
      BY <2>1, AscendingOf
<1>2. /\ blocked' = [t \in Tasks |-> blocked[t] /\ t \notin ToSet(tasks)]
      /\ runnable' = queue \o Joining(tasks, queue)
      /\ cancelling' = [t \in Tasks |-> cancelling[t] \/ t \in Unfinished(S)]
      /\ abandoned' = [t \in Tasks |-> abandoned[t] \/ t \in InFlight(S)]
      /\ registered' = [t \in Tasks |-> registered[t] /\ t \notin InFlight(S)]
    BY DEF RequestCancel, ScheduleAll, Woken
<1> HIDE DEF tasks
<1>3. /\ runnable' \in Seq(Tasks) /\ IsInjective(runnable')
      /\ ToSet(runnable') = ToSet(queue) \union {t \in ToSet(tasks) : state[t] \notin Terminal}
    BY <1>1, <1>2, Scheduled
<1>4. {t \in ToSet(tasks) : state[t] \notin Terminal} = W
    BY <1>1 DEF Woken, Unfinished
<1> QED
    BY <1>1, <1>2, <1>3, <1>4

\* The tasks of S are asked to end, one task that is not among them perhaps
\* ending now: what it leaves of the queue is given.
LEMMA CancelStep ==
    ASSUME Types, Queued, CallsInOrder, NEW S \in SUBSET Tasks,
           NEW over \in SUBSET Tasks, over \cap S = {},
           NEW queue \in Seq(Tasks), IsInjective(queue), ToSet(queue) = ToSet(runnable) \ over,
           over \subseteq ToSet(runnable),
           NEW outcome \in Terminal,
           \A t \in over :
               /\ outcome = "completed" => ~cancelling[t] /\ completed[t] /\ result[t] = "value"
               /\ outcome = "failed" => ~cancelling[t] /\ completed[t] /\ result[t] # "value",
           RequestCancel(S, queue),
           state' = [t \in Tasks |-> IF t \in over THEN outcome ELSE state[t]],
           UNCHANGED <<pool, phase, completions, completed, result>>
    PROVE  /\ Queued' /\ CallsInOrder'
           /\ state' \in [Tasks -> States] /\ runnable' \in Seq(Tasks)
           /\ blocked' \in [Tasks -> BOOLEAN] /\ cancelling' \in [Tasks -> BOOLEAN]
           /\ registered' \in [Tasks -> BOOLEAN] /\ abandoned' \in [Tasks -> BOOLEAN]
<1>1. /\ runnable' \in Seq(Tasks) /\ IsInjective(runnable')
      /\ ToSet(runnable') = ToSet(queue) \union Woken(S)
      /\ blocked' = [t \in Tasks |-> blocked[t] /\ t \notin Woken(S)]
      /\ cancelling' = [t \in Tasks |-> cancelling[t] \/ t \in Unfinished(S)]
      /\ abandoned' = [t \in Tasks |-> abandoned[t] \/ t \in InFlight(S)]
      /\ registered' = [t \in Tasks |-> registered[t] /\ t \notin InFlight(S)]
    BY Cancelling
<1>2. /\ state \in [Tasks -> States]
      /\ blocked \in [Tasks -> BOOLEAN] /\ cancelling \in [Tasks -> BOOLEAN]
      /\ registered \in [Tasks -> BOOLEAN] /\ abandoned \in [Tasks -> BOOLEAN]
    BY DEF Types
<1>3. /\ state' \in [Tasks -> States]
      /\ blocked' \in [Tasks -> BOOLEAN] /\ cancelling' \in [Tasks -> BOOLEAN]
      /\ registered' \in [Tasks -> BOOLEAN] /\ abandoned' \in [Tasks -> BOOLEAN]
    BY <1>1, <1>2 DEF States
<1>4. Queued'
  <2>1. ASSUME NEW t \in Tasks
        PROVE  /\ t \in ToSet(runnable)' => state'[t] \in {"pending", "running"} /\ ~blocked'[t]
               /\ state'[t] \notin Terminal => t \in ToSet(runnable)' \/ blocked'[t]
               /\ blocked'[t] => state'[t] = "running" /\ registered'[t]
    <3>1. /\ t \in ToSet(runnable) => state[t] \in {"pending", "running"} /\ ~blocked[t]
          /\ state[t] \notin Terminal => t \in ToSet(runnable) \/ blocked[t]
          /\ blocked[t] => state[t] = "running" /\ registered[t]
        BY DEF Queued
    <3>2. /\ t \in Woken(S) <=> t \in S /\ state[t] \notin Terminal /\ blocked[t]
          /\ t \in InFlight(S) <=> t \in S /\ state[t] \notin Terminal /\ state[t] = "running"
        BY DEF Woken, Unfinished, InFlight
    <3>3. t \in ToSet(runnable)' <=> (t \in ToSet(runnable) /\ t \notin over) \/ t \in Woken(S)
        BY <1>1
    <3>4. /\ blocked'[t] <=> blocked[t] /\ t \notin Woken(S)
          /\ registered'[t] <=> registered[t] /\ t \notin InFlight(S)
          /\ state'[t] = IF t \in over THEN outcome ELSE state[t]
        BY <1>1
    <3>5. "running" \notin Terminal
        BY DEF Terminal
    <3> QED
        BY <3>1, <3>2, <3>3, <3>4, <3>5
  <2>2. IsInjective(runnable)'
      BY <1>1
  <2> QED
      BY <2>1, <2>2 DEF Queued
<1>5. CallsInOrder'
  <2>1. /\ pool' = pool /\ phase' = phase /\ completions' = completions
        /\ completed' = completed /\ result' = result
      OBVIOUS
  <2>2. ASSUME NEW t \in Tasks
        PROVE  /\ state'[t] = "pending" => phase[t] = "none"
               /\ completed[t] => phase[t] = "over"
               /\ abandoned'[t] => /\ cancelling'[t] /\ ~registered'[t] /\ ~blocked'[t]
                                   /\ state'[t] \in {"running", "cancelled"}
               /\ state'[t] = "completed" => completed[t] /\ ~abandoned'[t] /\ result[t] = "value"
               /\ state'[t] = "failed" => completed[t] /\ ~abandoned'[t] /\ result[t] # "value"
    <3>1. /\ state[t] = "pending" => phase[t] = "none"
          /\ completed[t] => phase[t] = "over"
          /\ abandoned[t] => /\ cancelling[t] /\ ~registered[t] /\ ~blocked[t]
                             /\ state[t] \in {"running", "cancelled"}
          /\ state[t] = "completed" => completed[t] /\ ~abandoned[t] /\ result[t] = "value"
          /\ state[t] = "failed" => completed[t] /\ ~abandoned[t] /\ result[t] # "value"
        BY DEF CallsInOrder
    <3>2. /\ t \in Woken(S) <=> t \in S /\ state[t] \notin Terminal /\ blocked[t]
          /\ t \in InFlight(S) <=> t \in S /\ state[t] \notin Terminal /\ state[t] = "running"
          /\ t \in Unfinished(S) <=> t \in S /\ state[t] \notin Terminal
        BY DEF Woken, Unfinished, InFlight
    <3>3. /\ blocked'[t] <=> blocked[t] /\ t \notin Woken(S)
          /\ registered'[t] <=> registered[t] /\ t \notin InFlight(S)
          /\ cancelling'[t] <=> cancelling[t] \/ t \in Unfinished(S)
          /\ abandoned'[t] <=> abandoned[t] \/ t \in InFlight(S)
          /\ state'[t] = IF t \in over THEN outcome ELSE state[t]
        BY <1>1
    <3>4. t \in over => state[t] \in {"pending", "running"} /\ ~(t \in S)
        BY DEF Queued
    <3>5. Terminal = {"completed", "failed", "cancelled"}
        BY DEF Terminal
    <3> QED
        BY <3>1, <3>2, <3>3, <3>4, <3>5
  <2> QED
      BY <2>1, <2>2 DEF CallsInOrder
<1> QED
    BY <1>1, <1>3, <1>4, <1>5

-----------------------------------------------------------------------------
(* The steps of the scheduler thread.                                      *)

LEMMA LeasesStay ==
    ASSUME Leased, leases' = leases, alive' = alive,
           \A c \in Callers : HasAddress(c)' <=> HasAddress(c)
    PROVE  Leased'
<1>1. Holders' = Holders
    BY DEF Holders
<1> QED
    BY <1>1 DEF Leased

LEMMA AddressesStay ==
    ASSUME kind' = kind, phase' = phase
    PROVE  \A c \in Callers : HasAddress(c)' <=> HasAddress(c)
BY DEF HasAddress, TakesHandle

LEMMA AwakeStays ==
    ASSUME Awake, at' = at, completions' = completions, notified' = notified,
           committed' = committed
    PROVE  Awake'
BY DEF Awake

\* The task at the head of the queue ends.
LEMMA FinishStep ==
    ASSUME NativeInv, CanStep, NEW outcome \in Terminal, Finish(Current, outcome),
           outcome = "completed" =>
               ~cancelling[Current] /\ completed[Current] /\ result[Current] = "value",
           outcome = "failed" =>
               ~cancelling[Current] /\ completed[Current] /\ result[Current] # "value"
    PROVE  NativeInv'
<1> DEFINE t == Current
           S == IF outcome = "failed" THEN Siblings(t) ELSE {}
           queue == Tail(runnable)
<1>1. /\ Types /\ Queued /\ CallsInOrder /\ Leased /\ Awake /\ runnable # <<>>
      /\ runnable \in Seq(Tasks) /\ IsInjective(runnable) /\ state \in [Tasks -> States]
    BY DEF NativeInv, CanStep, Types, Queued
<1>2. /\ t \in Tasks /\ t \in ToSet(runnable) /\ queue \in Seq(Tasks) /\ IsInjective(queue)
      /\ ToSet(queue) = ToSet(runnable) \ {t}
  <2>1. /\ t \in Tasks /\ queue \in Seq(Tasks) /\ t \in ToSet(runnable)
        /\ ToSet(runnable) = {t} \union ToSet(queue)
        /\ IsInjective(queue) /\ t \notin ToSet(queue)
      BY <1>1, Behead DEF Current
  <2> QED
      BY <2>1
<1>3. /\ state' = [state EXCEPT ![t] = outcome] /\ RequestCancel(S, queue)
      /\ UNCHANGED <<kind, timer, completions, notified, driveVars, pool, phase, result, answer,
                     completed, faults, handleVars>>
    BY DEF Finish
<1>4. /\ kind' = kind /\ timer' = timer /\ completions' = completions /\ notified' = notified
      /\ at' = at /\ until' = until /\ committed' = committed /\ pool' = pool
      /\ phase' = phase /\ result' = result /\ completed' = completed
      /\ alive' = alive /\ leases' = leases /\ destroyPending' = destroyPending
    BY <1>3 DEF driveVars, handleVars
<1> DEFINE over == {t}
<1>5. state' = [r \in Tasks |-> IF r \in over THEN outcome ELSE state[r]]
    BY <1>1, <1>3
<1>6. /\ S \in SUBSET Tasks /\ over \in SUBSET Tasks /\ over \cap S = {}
      /\ ToSet(queue) = ToSet(runnable) \ over /\ over \subseteq ToSet(runnable)
    BY <1>2 DEF Siblings
<1>7. \A r \in over :
          /\ outcome = "completed" => ~cancelling[r] /\ completed[r] /\ result[r] = "value"
          /\ outcome = "failed" => ~cancelling[r] /\ completed[r] /\ result[r] # "value"
    OBVIOUS
<1>8. UNCHANGED <<pool, phase, completions, completed, result>>
    BY <1>4
<1>9. RequestCancel(S, queue)
    BY <1>3
<1> HIDE DEF t, S, queue, over
<1>10. /\ Queued' /\ CallsInOrder'
       /\ state' \in [Tasks -> States] /\ runnable' \in Seq(Tasks)
       /\ blocked' \in [Tasks -> BOOLEAN] /\ cancelling' \in [Tasks -> BOOLEAN]
       /\ registered' \in [Tasks -> BOOLEAN] /\ abandoned' \in [Tasks -> BOOLEAN]
    BY <1>1, <1>2, <1>5, <1>6, <1>7, <1>8, <1>9, CancelStep
<1>11. Types'
    BY <1>1, <1>4, <1>10 DEF Types
<1>12. Leased'
    BY <1>1, <1>4, LeasesStay, AddressesStay
<1>13. Awake'
    BY <1>1, <1>4, AwakeStays
<1> QED
    BY <1>10, <1>11, <1>12, <1>13 DEF NativeInv

LEMMA FinishCancelledStep == ASSUME NativeInv, FinishCancelled PROVE NativeInv'
<1> DEFINE outcome == "cancelled"
<1>1. outcome \in Terminal /\ outcome # "completed" /\ outcome # "failed"
    BY DEF Terminal
<1>2. CanStep /\ Finish(Current, "cancelled")
    BY DEF FinishCancelled
<1> QED
    BY <1>1, <1>2, FinishStep

LEMMA ResumeStep == ASSUME NativeInv, Resume PROVE NativeInv'
<1>1. CanStep /\ ~cancelling[Current] /\ completed[Current]
      /\ Finish(Current, IF result[Current] = "value" THEN "completed" ELSE "failed")
    BY DEF Resume, FinishedUncancelled
<1>2. {"completed", "failed"} \subseteq Terminal
    BY DEF Terminal
<1>3. CASE result[Current] = "value"
  <2>1. Finish(Current, "completed")
      BY <1>1, <1>3
  <2> QED
      BY <1>1, <1>2, <1>3, <2>1, FinishStep
<1>4. CASE result[Current] # "value"
  <2>1. Finish(Current, "failed")
      BY <1>1, <1>4
  <2> QED
      BY <1>1, <1>2, <1>4, <2>1, FinishStep
<1> QED
    BY <1>3, <1>4

\* A cancellation from the root frame, a timer, or the close of the scope.
LEMMA CancelledFromOutside ==
    ASSUME NativeInv, NEW S \in SUBSET Tasks, RequestCancel(S, runnable), state' = state,
           UNCHANGED <<kind, completions, completed, result, pool, phase, alive, leases,
                       destroyPending>>
    PROVE  /\ Queued' /\ CallsInOrder' /\ Leased'
           /\ state' \in [Tasks -> States] /\ runnable' \in Seq(Tasks)
           /\ blocked' \in [Tasks -> BOOLEAN] /\ cancelling' \in [Tasks -> BOOLEAN]
           /\ registered' \in [Tasks -> BOOLEAN] /\ abandoned' \in [Tasks -> BOOLEAN]
<1>1. /\ Types /\ Queued /\ CallsInOrder /\ Leased
      /\ runnable \in Seq(Tasks) /\ IsInjective(runnable) /\ state \in [Tasks -> States]
    BY DEF NativeInv, Types, Queued
<1>2. /\ kind' = kind /\ phase' = phase /\ alive' = alive /\ leases' = leases
    OBVIOUS
<1> DEFINE queue == runnable
           over == {}
           outcome == "cancelled"
<1>3. /\ queue \in Seq(Tasks) /\ IsInjective(queue) /\ outcome \in Terminal
      /\ over \in SUBSET Tasks /\ over \cap S = {}
      /\ ToSet(queue) = ToSet(runnable) \ over /\ over \subseteq ToSet(runnable)
    BY <1>1 DEF Terminal
<1>4. state' = [t \in Tasks |-> IF t \in over THEN outcome ELSE state[t]]
    BY <1>1
<1>5. \A t \in over :
          /\ outcome = "completed" => ~cancelling[t] /\ completed[t] /\ result[t] = "value"
          /\ outcome = "failed" => ~cancelling[t] /\ completed[t] /\ result[t] # "value"
    OBVIOUS
<1>6. RequestCancel(S, queue)
    OBVIOUS
<1>7. UNCHANGED <<pool, phase, completions, completed, result>>
    OBVIOUS
<1> HIDE DEF queue, over, outcome
<1>8. /\ Queued' /\ CallsInOrder'
      /\ state' \in [Tasks -> States] /\ runnable' \in Seq(Tasks)
      /\ blocked' \in [Tasks -> BOOLEAN] /\ cancelling' \in [Tasks -> BOOLEAN]
      /\ registered' \in [Tasks -> BOOLEAN] /\ abandoned' \in [Tasks -> BOOLEAN]
    BY <1>1, <1>3, <1>4, <1>5, <1>6, <1>7, CancelStep
<1>9. Leased'
    BY <1>1, <1>2, LeasesStay, AddressesStay
<1> QED
    BY <1>8, <1>9

LEMMA CancelledAt ==
    ASSUME NativeInv, NEW S \in SUBSET Tasks, RequestCancel(S, runnable), state' = state,
           UNCHANGED <<kind, completions, completed, result, pool, phase, alive, leases,
                       destroyPending>>,
           timer' \in Callers, until' \subseteq Tasks, at' \in {at, "loop"},
           UNCHANGED <<notified, committed>>
    PROVE  NativeInv'
<1>1. /\ Queued' /\ CallsInOrder' /\ Leased'
      /\ state' \in [Tasks -> States] /\ runnable' \in Seq(Tasks)
      /\ blocked' \in [Tasks -> BOOLEAN] /\ cancelling' \in [Tasks -> BOOLEAN]
      /\ registered' \in [Tasks -> BOOLEAN] /\ abandoned' \in [Tasks -> BOOLEAN]
    BY CancelledFromOutside
<1>2. Types /\ Awake
    BY DEF NativeInv
<1>3. /\ kind' = kind /\ completions' = completions /\ completed' = completed /\ result' = result
      /\ pool' = pool /\ phase' = phase /\ alive' = alive /\ leases' = leases
      /\ destroyPending' = destroyPending /\ notified' = notified /\ committed' = committed
    OBVIOUS
<1>4. Types'
    BY <1>1, <1>2, <1>3 DEF Types, Spots
<1>5. Awake'
    BY <1>2, <1>3 DEF Awake
<1> QED
    BY <1>1, <1>4, <1>5 DEF NativeInv

LEMMA FireTimerStep == ASSUME NativeInv, FireTimer PROVE NativeInv'
<1> DEFINE S == {timer}
<1>1. /\ S \in SUBSET Tasks
    BY DEF FireTimer, NativeInv, Types, Callers
<1>2. /\ RequestCancel(S, runnable) /\ state' = state /\ timer' = Root
      /\ UNCHANGED <<kind, completions, completed, result, pool, phase, alive, leases,
                     destroyPending>>
      /\ UNCHANGED <<notified, committed>> /\ at' = at /\ until' = until
    BY DEF FireTimer, driveVars, handleVars
<1>3. timer' \in Callers /\ until' \subseteq Tasks /\ at' \in {at, "loop"}
    BY <1>2 DEF Callers, NativeInv, Types
<1> HIDE DEF S
<1> QED
    BY <1>1, <1>2, <1>3, CancelledAt

LEMMA CancelTaskStep == ASSUME NativeInv, NEW t \in Tasks, CancelTask(t) PROVE NativeInv'
<1> DEFINE S == {t}
<1>1. S \in SUBSET Tasks
    OBVIOUS
<1>2. /\ RequestCancel(S, runnable) /\ state' = state /\ timer' = timer
      /\ UNCHANGED <<kind, completions, completed, result, pool, phase, alive, leases,
                     destroyPending>>
      /\ UNCHANGED <<notified, committed>> /\ at' = at /\ until' = until
    BY DEF CancelTask, handleVars
<1>3. timer' \in Callers /\ until' \subseteq Tasks /\ at' \in {at, "loop"}
    BY <1>2 DEF NativeInv, Types
<1> HIDE DEF S
<1> QED
    BY <1>1, <1>2, <1>3, CancelledAt

LEMMA CloseRootStep == ASSUME NativeInv, CloseRoot PROVE NativeInv'
<1> DEFINE S == IF bodyFault THEN Tasks ELSE {}
<1>1. S \in SUBSET Tasks
    OBVIOUS
<1>2. /\ RequestCancel(S, runnable) /\ state' = state /\ timer' = timer
      /\ UNCHANGED <<kind, completions, completed, result, pool, phase, alive, leases,
                     destroyPending>>
      /\ UNCHANGED <<notified, committed>> /\ at' = "loop" /\ until' = Tasks
    BY DEF CloseRoot, handleVars
<1>3. timer' \in Callers /\ until' \subseteq Tasks /\ at' \in {at, "loop"}
    BY <1>2 DEF NativeInv, Types
<1> HIDE DEF S
<1> QED
    BY <1>1, <1>2, <1>3, CancelledAt

LEMMA MakeCallStep == ASSUME NativeInv, MakeCall PROVE NativeInv'
<1> DEFINE t == Current
           queue == Tail(runnable)
<1>1. /\ Types /\ Queued /\ CallsInOrder /\ Leased /\ Awake /\ runnable # <<>>
      /\ runnable \in Seq(Tasks) /\ IsInjective(runnable) /\ pool \in Seq(Tasks) /\ IsInjective(pool)
    BY DEF NativeInv, MakeCall, CanStep, Types, Queued, CallsInOrder
<1>2. /\ t \in Tasks /\ t \in ToSet(runnable) /\ queue \in Seq(Tasks) /\ IsInjective(queue)
      /\ ToSet(queue) = ToSet(runnable) \ {t}
  <2>1. /\ t \in Tasks /\ queue \in Seq(Tasks) /\ t \in ToSet(runnable)
        /\ ToSet(runnable) = {t} \union ToSet(queue)
        /\ IsInjective(queue) /\ t \notin ToSet(queue)
      BY <1>1, Behead DEF Current
  <2> QED
      BY <2>1
<1>3. /\ ~cancelling[t] /\ state[t] = "pending"
      /\ state' = [state EXCEPT ![t] = "running"] /\ blocked' = [blocked EXCEPT ![t] = TRUE]
      /\ registered' = [registered EXCEPT ![t] = TRUE] /\ pool' = Append(pool, t)
      /\ phase' = [phase EXCEPT ![t] = "submitted"] /\ runnable' = queue
      /\ kind' = kind /\ cancelling' = cancelling /\ timer' = timer /\ completions' = completions
      /\ notified' = notified /\ at' = at /\ until' = until /\ committed' = committed
      /\ result' = result /\ abandoned' = abandoned /\ completed' = completed
      /\ alive' = alive /\ leases' = leases /\ destroyPending' = destroyPending
    BY DEF MakeCall, driveVars, handleVars
<1> HIDE DEF t, queue
<1>4. /\ t \in Callers /\ t # Root /\ phase[t] = "none"
  <2>1. t \in Callers /\ t # Root
      BY <1>2 DEF Callers, Tasks, Root
  <2> QED
      BY <1>1, <1>2, <1>3, <2>1 DEF CallsInOrder
<1>5. /\ pool' \in Seq(Tasks) /\ ToSet(pool') = ToSet(pool) \union {t} /\ IsInjective(pool')
  <2>1. t \notin ToSet(pool)
      BY <1>1, <1>4 DEF CallsInOrder
  <2> QED
      BY <1>1, <1>2, <1>3, <2>1, AppendProperties, RangeAppend, InjectiveAppend
<1>6. Types'
    BY <1>1, <1>2, <1>3, <1>4, <1>5 DEF Types, States, Phases
<1>7. Queued'
  <2>1. ASSUME NEW r \in Tasks
        PROVE  /\ r \in ToSet(queue) => state'[r] \in {"pending", "running"} /\ ~blocked'[r]
               /\ state'[r] \notin Terminal => r \in ToSet(queue) \/ blocked'[r]
               /\ blocked'[r] => state'[r] = "running" /\ registered'[r]
      BY <1>1, <1>2, <1>3 DEF Types, Queued
  <2> QED
      BY <1>2, <1>3, <2>1 DEF Queued
<1>8. CallsInOrder'
  <2>1. \A r \in ToSet(pool') : phase'[r] = "submitted"
    <3>1. \A r \in ToSet(pool) : r \in Callers
        BY <1>1, RangeIn DEF Callers
    <3> QED
        BY <1>1, <1>3, <1>4, <1>5, <3>1 DEF Types, CallsInOrder
  <2>2. \A i \in DOMAIN completions : completions[i].what = "result" =>
            completions[i].caller \in Tasks /\ phase'[completions[i].caller] = "over"
      BY <1>1, <1>3, <1>4 DEF CallsInOrder, Types, Callers
  <2>3. ASSUME NEW r \in Tasks
        PROVE  /\ state'[r] = "pending" => phase'[r] = "none"
               /\ completed[r] => phase'[r] = "over"
               /\ abandoned[r] => /\ cancelling[r] /\ ~registered'[r] /\ ~blocked'[r]
                                  /\ state'[r] \in {"running", "cancelled"}
               /\ state'[r] = "completed" => completed[r] /\ ~abandoned[r] /\ result[r] = "value"
               /\ state'[r] = "failed" => completed[r] /\ ~abandoned[r] /\ result[r] # "value"
      BY <1>1, <1>2, <1>3, <1>4 DEF CallsInOrder, Types, Callers
  <2> QED
      BY <1>3, <1>5, <2>1, <2>2, <2>3 DEF CallsInOrder
<1>9. Leased'
  <2>1. \A c \in Callers : HasAddress(c)' <=> HasAddress(c)
      BY <1>1, <1>3, <1>4 DEF HasAddress, TakesHandle, Types
  <2> QED
      BY <1>1, <1>3, <2>1, LeasesStay
<1>10. Awake'
    BY <1>1, <1>3, AwakeStays
<1> QED
    BY <1>6, <1>7, <1>8, <1>9, <1>10 DEF NativeInv

-----------------------------------------------------------------------------
(* What the scheduler thread drains.                                       *)

LEMMA TailIsOld ==
    ASSUME NEW X, NEW q \in Seq(X), q # <<>>
    PROVE  /\ Tail(q) \in Seq(X)
           /\ \A i \in DOMAIN Tail(q) : \E j \in DOMAIN q : q[j] = Tail(q)[i]
BY Behead DEF ToSet

LEMMA HeadCompletion ==
    ASSUME Types, CallsInOrder, completions # <<>>
    PROVE  /\ Head(completions) \in Completion
           /\ Head(completions).what = "result" =>
                  Head(completions).caller \in Tasks /\ phase[Head(completions).caller] = "over"
<1>1. completions \in Seq(Completion)
    BY DEF Types
<1>2. Head(completions) \in Completion /\ Head(completions) \in ToSet(completions)
    BY <1>1, Behead
<1>3. PICK i \in DOMAIN completions : completions[i] = Head(completions)
    BY <1>2 DEF ToSet
<1> QED
    BY <1>2, <1>3 DEF CallsInOrder

\* The scheduler thread takes the first completion.
LEMMA DrainStep ==
    ASSUME NativeInv, completions # <<>>, at \in {"check", "drain"},
           completions' = Tail(completions), committed' = TRUE, at' = at,
           UNCHANGED <<kind, state, cancelling, timer, notified, until, pool, phase, result,
                       abandoned, alive, leases, destroyPending>>,
           blocked' \in [Tasks -> BOOLEAN], registered' \in [Tasks -> BOOLEAN],
           completed' \in [Tasks -> BOOLEAN], runnable' \in Seq(Tasks),
           Queued',
           \A t \in Tasks : /\ completed'[t] => completed[t] \/ phase[t] = "over"
                            /\ completed[t] => completed'[t]
                            /\ registered'[t] => registered[t]
                            /\ blocked'[t] => blocked[t]
    PROVE  NativeInv'
<1>1. /\ Types /\ CallsInOrder /\ Leased
      /\ completions \in Seq(Completion)
    BY DEF NativeInv, Types
<1>2. /\ kind' = kind /\ state' = state /\ cancelling' = cancelling /\ timer' = timer
      /\ notified' = notified /\ until' = until /\ pool' = pool /\ phase' = phase
      /\ result' = result /\ abandoned' = abandoned /\ alive' = alive /\ leases' = leases
      /\ destroyPending' = destroyPending
    OBVIOUS
<1>3. /\ completions' \in Seq(Completion)
      /\ \A i \in DOMAIN completions' : \E j \in DOMAIN completions : completions[j] = completions'[i]
    BY <1>1, TailIsOld
<1>4. Types'
    BY <1>1, <1>2, <1>3 DEF Types
<1>5. CallsInOrder'
  <2>1. /\ IsInjective(pool)
        /\ \A t \in ToSet(pool) : phase[t] = "submitted"
        /\ \A i \in DOMAIN completions' : completions'[i].what = "result" =>
              completions'[i].caller \in Tasks /\ phase[completions'[i].caller] = "over"
      BY <1>1, <1>3 DEF CallsInOrder
  <2>2. ASSUME NEW t \in Tasks
        PROVE  /\ state[t] = "pending" => phase[t] = "none"
               /\ completed'[t] => phase[t] = "over"
               /\ abandoned[t] => /\ cancelling[t] /\ ~registered'[t] /\ ~blocked'[t]
                                  /\ state[t] \in {"running", "cancelled"}
               /\ state[t] = "completed" => completed'[t] /\ ~abandoned[t] /\ result[t] = "value"
               /\ state[t] = "failed" => completed'[t] /\ ~abandoned[t] /\ result[t] # "value"
      BY <1>1 DEF CallsInOrder
  <2> QED
      BY <1>2, <2>1, <2>2 DEF CallsInOrder
<1>6. Leased'
    BY <1>1, <1>2, LeasesStay, AddressesStay
<1>7. Awake'
    BY DEF Awake
<1> QED
    BY <1>4, <1>5, <1>6, <1>7 DEF NativeInv

LEMMA DrainResultStep == ASSUME NativeInv, DrainResult PROVE NativeInv'
<1> DEFINE t == Head(completions).caller
<1>1. /\ Types /\ Queued /\ CallsInOrder
      /\ at \in {"check", "drain"} /\ completions # <<>> /\ Head(completions).what = "result"
      /\ completions' = Tail(completions) /\ committed' = TRUE /\ at' = at
      /\ UNCHANGED <<kind, state, cancelling, timer, notified, until, pool, phase, result,
                     abandoned, alive, leases, destroyPending>>
    BY DEF DrainResult, NativeInv, handleVars
<1>2. t \in Tasks /\ phase[t] = "over"
    BY <1>1, HeadCompletion
<1>3. /\ blocked \in [Tasks -> BOOLEAN] /\ registered \in [Tasks -> BOOLEAN]
      /\ completed \in [Tasks -> BOOLEAN] /\ runnable \in Seq(Tasks) /\ state \in [Tasks -> States]
    BY <1>1 DEF Types
<1>4. CASE abandoned[t]
  <2>1. UNCHANGED <<completed, registered, blocked, runnable>>
      BY <1>4 DEF DrainResult
  <2>2. /\ blocked' = blocked /\ registered' = registered /\ completed' = completed
        /\ runnable' = runnable /\ state' = state
      BY <1>1, <2>1
  <2>3. Queued'
      BY <1>1, <2>2 DEF Queued
  <2>4. /\ blocked' \in [Tasks -> BOOLEAN] /\ registered' \in [Tasks -> BOOLEAN]
        /\ completed' \in [Tasks -> BOOLEAN] /\ runnable' \in Seq(Tasks)
        /\ \A r \in Tasks : /\ completed'[r] => completed[r] \/ phase[r] = "over"
                            /\ completed[r] => completed'[r]
                            /\ registered'[r] => registered[r]
                            /\ blocked'[r] => blocked[r]
      BY <1>3, <2>2
  <2> QED
      BY <1>1, <2>3, <2>4, DrainStep
<1>5. CASE ~abandoned[t]
  <2>1. /\ completed' = [completed EXCEPT ![t] = TRUE]
        /\ registered' = [registered EXCEPT ![t] = FALSE]
        /\ ScheduleAll(<<t>>, runnable)
      BY <1>5 DEF DrainResult
  <2> DEFINE tasks == <<t>>
  <2>2. /\ blocked' = [r \in Tasks |-> blocked[r] /\ r \notin ToSet(tasks)]
        /\ runnable' = runnable \o Joining(tasks, runnable)
      BY <2>1 DEF ScheduleAll
  <2>3. tasks \in Seq(Tasks) /\ ToSet(tasks) = {t} /\ IsInjective(tasks)
      BY <1>2, OneElement
  <2>4. runnable \in Seq(Tasks) /\ IsInjective(runnable)
      BY <1>1 DEF Types, Queued
  <2> HIDE DEF tasks, t
  <2>5. /\ runnable' \in Seq(Tasks) /\ IsInjective(runnable')
        /\ ToSet(runnable') = ToSet(runnable) \union {r \in ToSet(tasks) : state[r] \notin Terminal}
      BY <1>1, <2>2, <2>3, <2>4, Scheduled
  <2>6. Queued'
    <3>1. ASSUME NEW r \in Tasks
          PROVE  /\ r \in ToSet(runnable') => state[r] \in {"pending", "running"} /\ ~blocked'[r]
                 /\ state[r] \notin Terminal => r \in ToSet(runnable') \/ blocked'[r]
                 /\ blocked'[r] => state[r] = "running" /\ registered'[r]
      <4>1. /\ r \in ToSet(runnable) => state[r] \in {"pending", "running"} /\ ~blocked[r]
            /\ state[r] \notin Terminal => r \in ToSet(runnable) \/ blocked[r]
            /\ blocked[r] => state[r] = "running" /\ registered[r]
          BY <1>1 DEF Queued
      <4>2. state[r] \notin Terminal => state[r] \in {"pending", "running"}
          BY <1>3 DEF States
      <4>3. /\ r \in ToSet(runnable') <=> r \in ToSet(runnable) \/ (r = t /\ state[r] \notin Terminal)
            /\ blocked'[r] <=> blocked[r] /\ r # t
            /\ r # t => registered'[r] = registered[r]
          BY <1>2, <1>3, <2>1, <2>2, <2>3, <2>5
      <4> QED
          BY <4>1, <4>2, <4>3
    <3>2. state' = state
        BY <1>1
    <3> QED
        BY <2>5, <3>1, <3>2 DEF Queued
  <2>7. /\ blocked' \in [Tasks -> BOOLEAN] /\ registered' \in [Tasks -> BOOLEAN]
        /\ completed' \in [Tasks -> BOOLEAN]
        /\ \A r \in Tasks : /\ completed'[r] => completed[r] \/ phase[r] = "over"
                            /\ completed[r] => completed'[r]
                            /\ registered'[r] => registered[r]
                            /\ blocked'[r] => blocked[r]
      BY <1>2, <1>3, <2>1, <2>2
  <2> QED
      BY <1>1, <2>5, <2>6, <2>7, DrainStep
<1> QED
    BY <1>4, <1>5

LEMMA DrainCallbackStep == ASSUME NativeInv, DrainCallback PROVE NativeInv'
<1>1. /\ Types /\ Queued
      /\ at \in {"check", "drain"} /\ completions # <<>>
      /\ completions' = Tail(completions) /\ committed' = TRUE /\ at' = at
      /\ UNCHANGED <<kind, state, cancelling, timer, notified, until, pool, phase, result,
                     abandoned, alive, leases, destroyPending>>
      /\ state' = state /\ blocked' = blocked /\ registered' = registered
      /\ completed' = completed /\ runnable' = runnable
    BY DEF DrainCallback, NativeInv, handleVars, taskVars
<1>2. Queued'
    BY <1>1 DEF Queued
<1>3. /\ blocked' \in [Tasks -> BOOLEAN] /\ registered' \in [Tasks -> BOOLEAN]
      /\ completed' \in [Tasks -> BOOLEAN] /\ runnable' \in Seq(Tasks)
    BY <1>1 DEF Types
<1>4. \A r \in Tasks : /\ completed'[r] => completed[r] \/ phase[r] = "over"
                       /\ completed[r] => completed'[r]
                       /\ registered'[r] => registered[r]
                       /\ blocked'[r] => blocked[r]
    BY <1>1
<1> QED
    BY <1>1, <1>2, <1>3, <1>4, DrainStep

-----------------------------------------------------------------------------
(* The scheduler thread without a task to step.                            *)

\* A step that changes nothing but where the scheduler thread is, what it
\* waits for and what it knows.
LEMMA DriveStep ==
    ASSUME NativeInv,
           UNCHANGED <<kind, taskVars, registered, callVars, handleVars>>, completions' = completions,
           timer' \in Callers, until' \subseteq Tasks, at' \in Spots, notified' \in BOOLEAN,
           committed' \in BOOLEAN, Awake'
    PROVE  NativeInv'
<1>1. /\ Types /\ Queued /\ CallsInOrder /\ Leased
    BY DEF NativeInv
<1>2. /\ kind' = kind /\ state' = state /\ blocked' = blocked /\ cancelling' = cancelling
      /\ runnable' = runnable /\ registered' = registered /\ completions' = completions
      /\ pool' = pool /\ phase' = phase /\ result' = result /\ abandoned' = abandoned
      /\ completed' = completed /\ alive' = alive /\ leases' = leases
      /\ destroyPending' = destroyPending
    BY DEF taskVars, callVars, handleVars
<1>3. Types'
    BY <1>1, <1>2 DEF Types
<1>4. Queued'
    BY <1>1, <1>2 DEF Queued
<1>5. CallsInOrder'
    BY <1>1, <1>2 DEF CallsInOrder
<1>6. Leased'
    BY <1>1, <1>2, LeasesStay, AddressesStay
<1> QED
    BY <1>3, <1>4, <1>5, <1>6 DEF NativeInv

LEMMA StutteringStep == ASSUME NativeInv, UNCHANGED vars PROVE NativeInv'
<1>1. /\ UNCHANGED <<kind, taskVars, registered, callVars, handleVars>> /\ completions' = completions
      /\ timer' = timer /\ until' = until /\ at' = at /\ notified' = notified
      /\ committed' = committed
    BY DEF vars, wakeVars, driveVars
<1>2. Awake'
    BY <1>1, AwakeStays DEF NativeInv
<1>3. /\ timer' \in Callers /\ until' \subseteq Tasks /\ at' \in Spots /\ notified' \in BOOLEAN
      /\ committed' \in BOOLEAN
    BY <1>1 DEF NativeInv, Types
<1> QED
    BY <1>1, <1>2, <1>3, DriveStep

\* Nobody can run and somebody is not over, so somebody waits for C.
LEMMA SomebodyWaits == ASSUME NativeInv, Idle PROVE Waitable
<1>1. PICK t \in until : state[t] \notin Terminal
    BY DEF Idle, Driving, AllTerminal
<1>2. t \in Tasks /\ t \notin ToSet(runnable)
    BY RangeEmpty DEF NativeInv, Types, Idle
<1>3. registered[t]
    BY <1>1, <1>2 DEF NativeInv, Queued
<1> QED
    BY <1>2, <1>3 DEF Waitable

LEMMA TakeLockStep == ASSUME NativeInv, TakeLock PROVE NativeInv'
<1>1. Waitable
    BY SomebodyWaits DEF TakeLock
<1>2. /\ UNCHANGED <<kind, taskVars, registered, callVars, handleVars>> /\ completions' = completions
      /\ timer' = timer /\ until' = until /\ at' = "check" /\ notified' = notified
      /\ committed' = FALSE
    BY <1>1 DEF TakeLock, wakeVars
<1>3. /\ timer' \in Callers /\ until' \subseteq Tasks /\ at' \in Spots /\ notified' \in BOOLEAN
      /\ committed' \in BOOLEAN
    BY <1>2 DEF NativeInv, Types, Spots
<1>4. Awake'
    BY <1>2 DEF Awake
<1> QED
    BY <1>2, <1>3, <1>4, DriveStep

LEMMA DrainedStep == ASSUME NativeInv, Drained PROVE NativeInv'
<1>1. /\ UNCHANGED <<kind, taskVars, registered, callVars, handleVars>> /\ completions' = completions
      /\ timer' = timer /\ until' = until /\ notified' = notified /\ committed' = committed
      /\ at \in {"check", "drain"} /\ completions = <<>>
      /\ at' = IF committed THEN "loop" ELSE IF at = "check" THEN "resting" ELSE "disappeared"
    BY DEF Drained, wakeVars
<1>2. at' \in {"loop", "resting"}
    BY <1>1 DEF NativeInv, Awake
<1>3. /\ timer' \in Callers /\ until' \subseteq Tasks /\ at' \in Spots /\ notified' \in BOOLEAN
      /\ committed' \in BOOLEAN
    BY <1>1, <1>2 DEF NativeInv, Types, Spots
<1>4. Awake'
    BY <1>1, <1>2 DEF Awake
<1> QED
    BY <1>1, <1>3, <1>4, DriveStep

LEMMA SleepStep == ASSUME NativeInv, Sleep PROVE NativeInv'
<1>1. /\ UNCHANGED <<kind, taskVars, registered, callVars, handleVars>> /\ completions' = completions
      /\ timer' = timer /\ until' = until /\ committed' = committed
      /\ at = "resting" /\ at' = "sleep" /\ notified' = FALSE
    BY DEF Sleep
<1>2. /\ timer' \in Callers /\ until' \subseteq Tasks /\ at' \in Spots /\ notified' \in BOOLEAN
      /\ committed' \in BOOLEAN
    BY <1>1 DEF NativeInv, Types, Spots
<1>3. Awake'
    BY <1>1 DEF NativeInv, Awake
<1> QED
    BY <1>1, <1>2, <1>3, DriveStep

LEMMA WakeStep == ASSUME NativeInv, Wake PROVE NativeInv'
<1>1. /\ UNCHANGED <<kind, taskVars, registered, callVars, handleVars>> /\ completions' = completions
      /\ timer' = timer /\ until' = until /\ notified' = notified /\ committed' = FALSE
      /\ at = "sleep" /\ notified /\ at' = "drain"
    BY DEF Wake, wakeVars
<1>2. /\ timer' \in Callers /\ until' \subseteq Tasks /\ at' \in Spots /\ notified' \in BOOLEAN
      /\ committed' \in BOOLEAN
    BY <1>1 DEF NativeInv, Types, Spots
<1>3. Awake'
    BY <1>1 DEF NativeInv, Awake
<1> QED
    BY <1>1, <1>2, <1>3, DriveStep

\* The root frame waits for a task, or a wait has returned.
LEMMA RootStepsAside ==
    ASSUME NativeInv,
           UNCHANGED <<kind, taskVars, registered, callVars, handleVars, completions, notified, committed>>,
           timer' \in Callers, until' \subseteq Tasks, at' \in {"loop", "root", "over"}
    PROVE  NativeInv'
<1>1. /\ UNCHANGED <<kind, taskVars, registered, callVars, handleVars>> /\ completions' = completions
      /\ notified' = notified /\ committed' = committed
    OBVIOUS
<1>2. at' \in Spots /\ notified' \in BOOLEAN /\ committed' \in BOOLEAN
    BY <1>1 DEF NativeInv, Types, Spots
<1>3. Awake'
    BY DEF Awake
<1> QED
    BY <1>1, <1>2, <1>3, DriveStep

LEMMA WaitTaskStep == ASSUME NativeInv, NEW t \in Tasks, WaitTask(t) PROVE NativeInv'
<1>1. /\ UNCHANGED <<kind, taskVars, registered, callVars, handleVars, completions, notified, committed>>
      /\ timer' = timer /\ until' = {t} /\ at' = "loop"
    BY DEF WaitTask, wakeVars
<1>2. timer' \in Callers /\ until' \subseteq Tasks /\ at' \in {"loop", "root", "over"}
    BY <1>1 DEF NativeInv, Types
<1> QED
    BY <1>1, <1>2, RootStepsAside

LEMMA TimeoutTaskStep == ASSUME NativeInv, NEW t \in Tasks, TimeoutTask(t) PROVE NativeInv'
<1>1. /\ UNCHANGED <<kind, taskVars, registered, callVars, handleVars, completions, notified, committed>>
      /\ timer' = t /\ until' = {t} /\ at' = "loop"
    BY DEF TimeoutTask
<1>2. timer' \in Callers /\ until' \subseteq Tasks /\ at' \in {"loop", "root", "over"}
    BY <1>1 DEF Callers
<1> QED
    BY <1>1, <1>2, RootStepsAside

LEMMA ReturnStep == ASSUME NativeInv, Return PROVE NativeInv'
<1>1. /\ UNCHANGED <<kind, taskVars, registered, callVars, handleVars, completions, notified, committed>>
      /\ timer' = Root /\ until' = until /\ at' \in {"root", "over"}
    BY DEF Return
<1>2. timer' \in Callers /\ until' \subseteq Tasks /\ at' \in {"loop", "root", "over"}
    BY <1>1 DEF Callers, NativeInv, Types
<1> QED
    BY <1>1, <1>2, RootStepsAside

\* The machine is closed: the calls no worker has taken are over.
LEMMA CloseMachineStep == ASSUME NativeInv, CloseMachine PROVE NativeInv'
<1>1. /\ Types /\ Queued /\ CallsInOrder /\ Leased /\ Awake
    BY DEF NativeInv
<1>2. /\ kind' = kind /\ state' = state /\ blocked' = blocked /\ cancelling' = cancelling
      /\ runnable' = runnable /\ registered' = registered /\ completions' = completions
      /\ timer' = timer /\ notified' = notified /\ at' = at /\ until' = until
      /\ committed' = committed /\ result' = result /\ abandoned' = abandoned
      /\ completed' = completed /\ alive' = alive /\ leases' = leases
      /\ destroyPending' = destroyPending
      /\ phase' = [c \in Callers |-> IF c \in ToSet(pool) THEN "over" ELSE phase[c]]
      /\ pool' = <<>>
    BY DEF CloseMachine, taskVars, wakeVars, driveVars, handleVars
<1>3. pool' \in Seq(Tasks) /\ ToSet(pool') = {} /\ IsInjective(pool')
  <2>1. <<>> \in Seq(Tasks) /\ ToSet(<<>>) = {}
      BY EmptySeq, RangeEmpty
  <2>2. DOMAIN pool' = {}
      BY <1>2, <2>1 DEF ToSet
  <2> QED
      BY <1>2, <2>1, <2>2 DEF IsInjective
<1>4. Types'
    BY <1>1, <1>2, <1>3 DEF Types, Phases
<1>5. Queued'
    BY <1>1, <1>2 DEF Queued
<1>6. \A t \in ToSet(pool) : phase[t] = "submitted"
    BY <1>1 DEF CallsInOrder
<1>7. CallsInOrder'
  <2>1. \A i \in DOMAIN completions : completions[i].what = "result" =>
            completions[i].caller \in Tasks /\ phase'[completions[i].caller] = "over"
      BY <1>1, <1>2 DEF CallsInOrder, Callers
  <2>2. ASSUME NEW t \in Tasks
        PROVE  /\ state[t] = "pending" => phase'[t] = "none"
               /\ completed[t] => phase'[t] = "over"
               /\ abandoned[t] => /\ cancelling[t] /\ ~registered[t] /\ ~blocked[t]
                                  /\ state[t] \in {"running", "cancelled"}
               /\ state[t] = "completed" => completed[t] /\ ~abandoned[t] /\ result[t] = "value"
               /\ state[t] = "failed" => completed[t] /\ ~abandoned[t] /\ result[t] # "value"
    <3>1. phase'[t] = IF t \in ToSet(pool) THEN "over" ELSE phase[t]
        BY <1>2 DEF Callers
    <3> QED
        BY <1>1, <1>6, <3>1 DEF CallsInOrder
  <2> QED
      BY <1>2, <1>3, <2>1, <2>2 DEF CallsInOrder
<1>8. Leased'
  <2>1. \A c \in Callers : HasAddress(c)' <=> HasAddress(c)
      BY <1>2, <1>6 DEF HasAddress, TakesHandle
  <2> QED
      BY <1>1, <1>2, <2>1, LeasesStay
<1>9. Awake'
    BY <1>1, <1>2, AwakeStays
<1> QED
    BY <1>4, <1>5, <1>7, <1>8, <1>9 DEF NativeInv

-----------------------------------------------------------------------------
(* The steps of a call, on a worker or on the VM's thread.                 *)

\* A call that is not over moves on; one that is published is over.
LEMMA MoveStep ==
    ASSUME NativeInv, NEW c \in Callers, NEW where \in Phases \ {"none", "submitted"},
           phase[c] # "over", c # Root => phase[c] # "none",
           phase' = [phase EXCEPT ![c] = where],
           kind' \in [Callers -> AllKinds],
           UNCHANGED <<taskVars, registered, timer, until, committed, abandoned, completed>>,
           pool' \in Seq(Tasks), IsInjective(pool'), ToSet(pool') \subseteq ToSet(pool), c \notin ToSet(pool'),
           result' \in [Callers -> Outcomes], \A t \in Tasks : t # c => result'[t] = result[t],
           completions' \in Seq(Completion),
           \A i \in DOMAIN completions' :
               \/ \E j \in DOMAIN completions : completions[j] = completions'[i]
               \/ completions'[i].what = "callback"
               \/ completions'[i].caller = c /\ c \in Tasks /\ where = "over",
           at' \in Spots, notified' \in BOOLEAN, alive' \in BOOLEAN, destroyPending' \in BOOLEAN,
           Awake', Leased'
    PROVE  NativeInv'
<1>1. /\ Types /\ Queued /\ CallsInOrder
    BY DEF NativeInv
<1>2. /\ state' = state /\ blocked' = blocked /\ cancelling' = cancelling /\ runnable' = runnable
      /\ registered' = registered /\ timer' = timer /\ until' = until /\ committed' = committed
      /\ abandoned' = abandoned /\ completed' = completed
    BY DEF taskVars
<1>3. phase \in [Callers -> Phases] /\ result \in [Callers -> Outcomes] /\ Tasks \subseteq Callers
    BY <1>1 DEF Types, Callers
<1>4. Types'
    BY <1>1, <1>2, <1>3 DEF Types
<1>5. Queued'
    BY <1>1, <1>2 DEF Queued
<1>6. CallsInOrder'
  <2>1. ASSUME NEW t \in ToSet(pool') PROVE phase'[t] = "submitted"
    <3>1. t \in ToSet(pool) /\ t \in Callers /\ t # c
        BY <1>3, RangeIn
    <3>2. phase[t] = "submitted"
        BY <1>1, <3>1 DEF CallsInOrder
    <3> QED
        BY <1>3, <3>1, <3>2
  <2>2. ASSUME NEW i \in DOMAIN completions', completions'[i].what = "result"
        PROVE  completions'[i].caller \in Tasks /\ phase'[completions'[i].caller] = "over"
    <3>1. CASE \E j \in DOMAIN completions : completions[j] = completions'[i]
      <4>1. PICK j \in DOMAIN completions : completions[j] = completions'[i]
          BY <3>1
      <4>2. completions'[i].caller \in Tasks /\ phase[completions'[i].caller] = "over"
          BY <1>1, <2>2, <4>1 DEF CallsInOrder
      <4> QED
          BY <1>3, <4>2
    <3>2. CASE completions'[i].caller = c /\ c \in Tasks /\ where = "over"
        BY <1>3, <3>2
    <3> QED
        BY <2>2, <3>1, <3>2
  <2>3. ASSUME NEW t \in Tasks
        PROVE  /\ state[t] = "pending" => phase'[t] = "none"
               /\ completed[t] => phase'[t] = "over"
               /\ abandoned[t] => /\ cancelling[t] /\ ~registered[t] /\ ~blocked[t]
                                  /\ state[t] \in {"running", "cancelled"}
               /\ state[t] = "completed" => completed[t] /\ ~abandoned[t] /\ result'[t] = "value"
               /\ state[t] = "failed" => completed[t] /\ ~abandoned[t] /\ result'[t] # "value"
    <3>1. /\ state[t] = "pending" => phase[t] = "none"
          /\ completed[t] => phase[t] = "over"
          /\ abandoned[t] => /\ cancelling[t] /\ ~registered[t] /\ ~blocked[t]
                             /\ state[t] \in {"running", "cancelled"}
          /\ state[t] = "completed" => completed[t] /\ ~abandoned[t] /\ result[t] = "value"
          /\ state[t] = "failed" => completed[t] /\ ~abandoned[t] /\ result[t] # "value"
        BY <1>1 DEF CallsInOrder
    <3>2. t # Root
        BY DEF Tasks, Root
    <3>3. CASE t = c
        BY <3>1, <3>2, <3>3
    <3>4. CASE t # c
      <4>1. phase'[t] = phase[t] /\ result'[t] = result[t]
          BY <1>3, <3>4
      <4> QED
          BY <3>1, <4>1
    <3> QED
        BY <3>3, <3>4
  <2> QED
      BY <1>2, <2>1, <2>2, <2>3 DEF CallsInOrder
<1> QED
    BY <1>4, <1>5, <1>6 DEF NativeInv

LEMMA StillLeased ==
    ASSUME Leased, NEW c \in Callers, \A d \in Callers : d # c => (HasAddress(d)' <=> HasAddress(d)),
           HasAddress(c)' <=> HasAddress(c), leases' = leases, alive' = alive
    PROVE  Leased'
BY LeasesStay

\* The address of a handle is handed out to one call more, or given back.
LEMMA CountOfCallers == ASSUME Types, NEW S \in SUBSET Callers PROVE IsFiniteSet(S) /\ Cardinality(S) \in Nat
<1>1. 0 \in Int /\ N \in Int /\ S \subseteq 0..N
    BY SizeAssumption DEF Callers, Tasks, Root
<1>2. IsFiniteSet(0..N)
    BY <1>1, FS_Interval
<1>3. IsFiniteSet(S)
    BY <1>1, <1>2, FS_Subset
<1> QED
    BY <1>3, FS_CardinalityType

LEMMA LeaseTaken ==
    ASSUME Types, Leased, NEW c \in Callers, ~HasAddress(c), HasAddress(c)', alive, alive' = alive,
           \A d \in Callers : d # c => (HasAddress(d)' <=> HasAddress(d)),
           leases' = leases + 1
    PROVE  Leased'
<1> DEFINE H == Holders
<1>1. H \in SUBSET Callers /\ c \notin H /\ Holders' = H \union {c}
    BY DEF Holders
<1>2. IsFiniteSet(H) /\ leases = Cardinality(H)
    BY <1>1, CountOfCallers DEF Leased
<1> HIDE DEF H
<1>3. Cardinality(H \union {c}) = Cardinality(H) + 1
    BY <1>1, <1>2, FS_AddElement
<1> QED
    BY <1>1, <1>2, <1>3 DEF Leased

LEMMA LeaseGiven ==
    ASSUME Types, Leased, NEW c \in Callers, HasAddress(c), ~HasAddress(c)',
           \A d \in Callers : d # c => (HasAddress(d)' <=> HasAddress(d)),
           leases' = leases - 1, alive' = (alive /\ ~AfterLastLease)
    PROVE  Leased'
<1> DEFINE H == Holders
<1>1. H \in SUBSET Callers /\ c \in H /\ Holders' = H \ {c}
    BY DEF Holders
<1>2. IsFiniteSet(H) /\ leases = Cardinality(H) /\ (~alive => leases = 0)
    BY <1>1, CountOfCallers DEF Leased
<1> HIDE DEF H
<1>3. Cardinality(H \ {c}) = Cardinality(H) - 1 /\ Cardinality(H) \in Nat /\ Cardinality(H) # 0
    BY <1>1, <1>2, FS_RemoveElement, FS_EmptySet, FS_CardinalityType
<1>4. alive /\ alive \in BOOLEAN
    BY <1>2, <1>3 DEF Types
<1>5. ~alive' => leases = 1
    BY <1>4 DEF AfterLastLease
<1> QED
    BY <1>1, <1>2, <1>3, <1>5 DEF Leased

\* Publishing wakes the scheduler thread.
LEMMA EnqueueStep ==
    ASSUME Types, Awake, NEW what \in {"result", "callback"}, NEW c \in Callers, Enqueue(what, c),
           at' = at, committed' = committed
    PROVE  /\ completions' \in Seq(Completion) /\ notified' \in BOOLEAN /\ Awake'
           /\ \A i \in DOMAIN completions' :
                  \/ \E j \in DOMAIN completions : completions[j] = completions'[i]
                  \/ completions'[i] = [what |-> what, caller |-> c]
<1> DEFINE e == [what |-> what, caller |-> c]
<1>1. /\ completions \in Seq(Completion) /\ e \in Completion /\ notified \in BOOLEAN
      /\ completions' = Append(completions, e) /\ notified' = (at = "sleep" \/ notified)
      /\ at \notin {"check", "resting"}
    BY DEF Types, Completion, Enqueue, Locked
<1> HIDE DEF e
<1>2. /\ completions' \in Seq(Completion) /\ completions' # <<>>
      /\ ToSet(completions') = ToSet(completions) \union {e}
    BY <1>1, AppendProperties, RangeAppend
<1>3. \A i \in DOMAIN completions' :
          \/ \E j \in DOMAIN completions : completions[j] = completions'[i]
          \/ completions'[i] = e
    BY <1>2 DEF ToSet
<1>4. Awake'
    BY <1>1, <1>2 DEF Awake
<1> QED
    BY <1>1, <1>2, <1>3, <1>4 DEF e

\* Who has the address once a call has moved on.
LEMMA AddressAt ==
    ASSUME Types, NEW c \in Callers, NEW where \in Phases, Goes(c, where), kind' = kind
    PROVE  /\ \A d \in Callers : d # c => (HasAddress(d)' <=> HasAddress(d))
           /\ HasAddress(c)' <=>
                  TakesHandle(c) /\ where \in {"enter", "body", "waiting", "return", "release"}
<1>1. phase' = [phase EXCEPT ![c] = where] /\ phase \in [Callers -> Phases]
    BY DEF Goes, Types
<1>2. phase'[c] = where /\ \A d \in Callers : d # c => phase'[d] = phase[d]
    BY <1>1
<1> QED
    BY <1>2 DEF HasAddress, TakesHandle

\* A call that is neither waiting for a worker nor over moves on, unseen by
\* the scheduler thread.
LEMMA UnseenStep ==
    ASSUME NativeInv, NEW c \in Callers, NEW where \in Phases \ {"none", "submitted"},
           phase[c] \notin {"none", "submitted", "over"}, Goes(c, where), Outside,
           UNCHANGED <<completions, notified, at, pool>>,
           result' = result \/ \E why \in Outcomes : Fails(c, why),
           alive' \in BOOLEAN, destroyPending' \in BOOLEAN, Leased'
    PROVE  NativeInv'
<1>1. /\ Types /\ CallsInOrder /\ Awake
    BY DEF NativeInv
<1>2. /\ kind' = kind /\ committed' = committed
      /\ completions' = completions /\ notified' = notified /\ at' = at /\ pool' = pool
      /\ phase' = [phase EXCEPT ![c] = where]
      /\ UNCHANGED <<taskVars, registered, timer, until, committed, abandoned, completed>>
    BY DEF Outside, Goes
<1>3. /\ kind' \in [Callers -> AllKinds] /\ pool' \in Seq(Tasks) /\ completions' \in Seq(Completion)
      /\ at' \in Spots /\ notified' \in BOOLEAN
    BY <1>1, <1>2 DEF Types
<1>4. IsInjective(pool') /\ ToSet(pool') \subseteq ToSet(pool) /\ c \notin ToSet(pool')
    BY <1>1, <1>2 DEF CallsInOrder
<1>5. result' \in [Callers -> Outcomes] /\ \A t \in Tasks : t # c => result'[t] = result[t]
  <2>1. result \in [Callers -> Outcomes] /\ Tasks \subseteq Callers
      BY <1>1 DEF Types, Callers
  <2>2. CASE result' = result
      BY <2>1, <2>2
  <2>3. CASE \E why \in Outcomes : Fails(c, why)
    <3>1. PICK why \in Outcomes : result' = [result EXCEPT ![c] = why]
        BY <2>3 DEF Fails
    <3> QED
        BY <2>1, <3>1
  <2> QED
      BY <2>2, <2>3
<1>6. \A i \in DOMAIN completions' : \E j \in DOMAIN completions : completions[j] = completions'[i]
    BY <1>2
<1>7. Awake'
    BY <1>1, <1>2, AwakeStays
<1>8. phase[c] # "over" /\ (c # Root => phase[c] # "none")
    OBVIOUS
<1> QED
    BY <1>2, <1>3, <1>4, <1>5, <1>6, <1>7, <1>8, MoveStep

LEMMA AcquireStep == ASSUME NativeInv, NEW c \in Callers, Acquire(c) PROVE NativeInv'
<1>1. /\ Types /\ Leased /\ phase[c] = "acquire" /\ Outside /\ kind' = kind
      /\ UNCHANGED <<completions, notified, at, pool>>
      /\ alive' = alive /\ destroyPending' = destroyPending
    BY DEF NativeInv, Acquire, Outside
<1>2. /\ alive' \in BOOLEAN /\ destroyPending' \in BOOLEAN /\ ~HasAddress(c)
      /\ phase[c] \notin {"none", "submitted", "over"}
    BY <1>1 DEF Types, HasAddress
<1>3. {"enter", "publish"} \subseteq Phases \ {"none", "submitted"} /\ "not live" \in Outcomes
    BY DEF Phases, Outcomes
<1>4. CASE ~TakesHandle(c) /\ Goes(c, "enter") /\ UNCHANGED <<result, leases>>
  <2>1. /\ \A d \in Callers : d # c => (HasAddress(d)' <=> HasAddress(d))
        /\ ~HasAddress(c)'
      BY <1>1, <1>3, <1>4, AddressAt
  <2>2. Leased'
      BY <1>1, <1>2, <1>4, <2>1, LeasesStay
  <2> QED
      BY <1>1, <1>2, <1>3, <1>4, <2>2, UnseenStep
<1>5. CASE TakesHandle(c) /\ LiveHandle /\ leases' = leases + 1 /\ Goes(c, "enter") /\ UNCHANGED result
  <2>1. /\ \A d \in Callers : d # c => (HasAddress(d)' <=> HasAddress(d))
        /\ HasAddress(c)'
      BY <1>1, <1>3, <1>5, AddressAt
  <2>2. Leased'
      BY <1>1, <1>2, <1>5, <2>1, LeaseTaken DEF LiveHandle
  <2> QED
      BY <1>1, <1>2, <1>3, <1>5, <2>2, UnseenStep
<1>6. CASE TakesHandle(c) /\ ~LiveHandle /\ Fails(c, "not live") /\ Goes(c, "publish") /\ UNCHANGED leases
  <2>1. /\ \A d \in Callers : d # c => (HasAddress(d)' <=> HasAddress(d))
        /\ ~HasAddress(c)'
      BY <1>1, <1>3, <1>6, AddressAt
  <2>2. Leased'
      BY <1>1, <1>2, <1>6, <2>1, LeasesStay
  <2> QED
      BY <1>1, <1>2, <1>3, <1>6, <2>2, UnseenStep
<1> QED
    BY <1>4, <1>5, <1>6 DEF Acquire

\* A step of a call that neither takes nor gives back a lease.
LEMMA AmidStep ==
    ASSUME NativeInv, NEW c \in Callers, NEW where \in Phases \ {"none", "submitted"},
           phase[c] \in {"enter", "body", "waiting", "return"}, where \in {"body", "waiting", "return", "release"},
           Goes(c, where), Outside, UNCHANGED <<completions, notified, at, pool, alive, leases>>,
           result' = result \/ \E why \in Outcomes : Fails(c, why),
           destroyPending' \in BOOLEAN
    PROVE  NativeInv'
<1>1. /\ Types /\ Leased /\ alive' = alive /\ leases' = leases /\ kind' = kind
      /\ UNCHANGED <<completions, notified, at, pool>>
    BY DEF NativeInv, Outside
<1>2. /\ \A d \in Callers : d # c => (HasAddress(d)' <=> HasAddress(d))
      /\ HasAddress(c)' <=> TakesHandle(c)
      /\ HasAddress(c) <=> TakesHandle(c)
    BY <1>1, AddressAt DEF HasAddress
<1>3. Leased'
    BY <1>1, <1>2, LeasesStay
<1>4. alive' \in BOOLEAN /\ phase[c] \notin {"none", "submitted", "over"}
    BY <1>1 DEF Types
<1> QED
    BY <1>1, <1>3, <1>4, UnseenStep

LEMMA CallGoesOn ==
    ASSUME NativeInv, NEW c \in Callers,
           \/ Enter(c) \/ Body(c) \/ Answered(c) \/ TakeFault(c) \/ Convert(c) \/ RequestDestroy(c)
           \/ c = Root /\ CallBackDirectly
    PROVE  NativeInv'
<1> DEFINE Places == {"body", "waiting", "return", "release"}
<1>1. /\ Places \subseteq Phases \ {"none", "submitted"}
      /\ {"callback", "conversion", "released"} \subseteq Outcomes
    BY DEF Phases, Outcomes
<1>2. PICK where \in Places : Goes(c, where)
    BY DEF Enter, Body, Answered, TakeFault, Convert, RequestDestroy, CallBackDirectly
<1>3. /\ phase[c] \in {"enter", "body", "waiting", "return"} /\ Outside
      /\ UNCHANGED <<completions, notified, at, pool, alive, leases>>
    BY DEF Enter, Body, Answered, TakeFault, Convert, RequestDestroy, CallBackDirectly, handleVars
<1>4. result' = result \/ \E why \in Outcomes : Fails(c, why)
    BY <1>1 DEF Enter, Body, Answered, TakeFault, Convert, RequestDestroy, CallBackDirectly
<1>5. destroyPending' \in BOOLEAN
    BY DEF Enter, Body, Answered, TakeFault, Convert, RequestDestroy, CallBackDirectly, handleVars,
           NativeInv, Types
<1> QED
    BY <1>1, <1>2, <1>3, <1>4, <1>5, AmidStep

LEMMA ReleaseStep == ASSUME NativeInv, NEW c \in Callers, Release(c) PROVE NativeInv'
<1>1. /\ Types /\ Leased /\ phase[c] = "release" /\ Outside /\ Goes(c, "publish") /\ kind' = kind
      /\ UNCHANGED <<completions, notified, at, pool>> /\ result' = result
      /\ destroyPending' = destroyPending
    BY DEF NativeInv, Release, Outside
<1>2. /\ "publish" \in Phases /\ "publish" \in Phases \ {"none", "submitted"}
      /\ phase[c] \notin {"none", "submitted", "over"}
    BY <1>1 DEF Phases
<1>3. /\ \A d \in Callers : d # c => (HasAddress(d)' <=> HasAddress(d))
      /\ ~HasAddress(c)'
      /\ HasAddress(c) <=> TakesHandle(c)
    BY <1>1, <1>2, AddressAt DEF HasAddress
<1>4. alive' \in BOOLEAN /\ destroyPending' \in BOOLEAN
    BY <1>1 DEF Types, Release
<1>5. CASE TakesHandle(c)
  <2>1. leases' = leases - 1 /\ alive' = (alive /\ ~AfterLastLease)
      BY <1>5 DEF Release
  <2>2. Leased'
      BY <1>1, <1>3, <1>5, <2>1, LeaseGiven
  <2> QED
      BY <1>1, <1>2, <1>4, <2>2, UnseenStep
<1>6. CASE ~TakesHandle(c)
  <2>1. leases' = leases /\ alive' = alive
      BY <1>6 DEF Release
  <2>2. \A d \in Callers : HasAddress(d)' <=> HasAddress(d)
      BY <1>3, <1>6
  <2>3. Leased'
      BY <1>1, <2>1, <2>2, LeasesStay
  <2> QED
      BY <1>1, <1>2, <1>4, <2>3, UnseenStep
<1> QED
    BY <1>5, <1>6

\* A call publishes a callback request, or its result.
LEMMA PublishingStep ==
    ASSUME NativeInv, NEW c \in Callers, NEW what \in {"result", "callback"},
           NEW where \in {"waiting", "over"}, what = "result" => c \in Tasks /\ where = "over",
           phase[c] \in {"body", "publish"}, where = "waiting" => ~TakesHandle(c),
           phase[c] = "body" => where = "waiting",
           Enqueue(what, c), Goes(c, where), Outside,
           UNCHANGED <<at, pool, result, handleVars>>
    PROVE  NativeInv'
<1>1. /\ Types /\ CallsInOrder /\ Leased /\ Awake /\ kind' = kind /\ committed' = committed
      /\ at' = at /\ pool' = pool /\ result' = result /\ alive' = alive /\ leases' = leases
      /\ destroyPending' = destroyPending /\ phase' = [phase EXCEPT ![c] = where]
      /\ UNCHANGED <<taskVars, registered, timer, until, committed, abandoned, completed>>
    BY DEF NativeInv, Outside, Goes, handleVars
<1>2. /\ completions' \in Seq(Completion) /\ notified' \in BOOLEAN /\ Awake'
      /\ \A i \in DOMAIN completions' :
             \/ \E j \in DOMAIN completions : completions[j] = completions'[i]
             \/ completions'[i] = [what |-> what, caller |-> c]
    BY <1>1, EnqueueStep
<1>3. \A i \in DOMAIN completions' :
          \/ \E j \in DOMAIN completions : completions[j] = completions'[i]
          \/ completions'[i].what = "callback"
          \/ completions'[i].caller = c /\ c \in Tasks /\ where = "over"
    BY <1>2
<1>4. where \in Phases /\ where \in Phases \ {"none", "submitted"}
    BY DEF Phases
<1>5. /\ \A d \in Callers : d # c => (HasAddress(d)' <=> HasAddress(d))
      /\ HasAddress(c)' <=> HasAddress(c)
  <2>1. /\ \A d \in Callers : d # c => (HasAddress(d)' <=> HasAddress(d))
        /\ HasAddress(c)' <=>
               TakesHandle(c) /\ where \in {"enter", "body", "waiting", "return", "release"}
      BY <1>1, <1>4, AddressAt
  <2> QED
      BY <2>1 DEF HasAddress
<1>6. Leased'
    BY <1>1, <1>5, LeasesStay
<1>7. /\ kind' \in [Callers -> AllKinds] /\ pool' \in Seq(Tasks) /\ at' \in Spots
      /\ alive' \in BOOLEAN /\ destroyPending' \in BOOLEAN
      /\ result' \in [Callers -> Outcomes] /\ \A t \in Tasks : t # c => result'[t] = result[t]
      /\ phase[c] # "over" /\ (c # Root => phase[c] # "none")
    BY <1>1 DEF Types
<1>8. IsInjective(pool') /\ ToSet(pool') \subseteq ToSet(pool) /\ c \notin ToSet(pool')
    BY <1>1 DEF CallsInOrder
<1> QED
    BY <1>1, <1>2, <1>3, <1>4, <1>6, <1>7, <1>8, MoveStep

LEMMA CallBackStep == ASSUME NativeInv, NEW c \in Callers, CallBack(c) PROVE NativeInv'
<1> DEFINE what == "callback"
           where == "waiting"
<1>1. /\ what \in {"result", "callback"} /\ where \in {"waiting", "over"}
      /\ (what = "result" => c \in Tasks /\ where = "over")
      /\ phase[c] \in {"body", "publish"} /\ (where = "waiting" => ~TakesHandle(c))
      /\ (phase[c] = "body" => where = "waiting")
      /\ Enqueue(what, c) /\ Goes(c, where) /\ Outside
      /\ UNCHANGED <<at, pool, result, handleVars>>
    BY DEF CallBack, TakesHandle
<1> HIDE DEF what, where
<1> QED
    BY <1>1, PublishingStep

LEMMA PublishStep == ASSUME NativeInv, NEW c \in Callers, Publish(c) PROVE NativeInv'
<1> DEFINE what == "result"
           where == "over"
<1>1. /\ what \in {"result", "callback"} /\ where \in {"waiting", "over"}
      /\ (what = "result" => c \in Tasks /\ where = "over")
      /\ phase[c] \in {"body", "publish"} /\ (where = "waiting" => ~TakesHandle(c))
      /\ (phase[c] = "body" => where = "waiting")
      /\ Enqueue(what, c) /\ Goes(c, where) /\ Outside
      /\ UNCHANGED <<at, pool, result, handleVars>>
    BY DEF Publish, Callers
<1> HIDE DEF what, where
<1> QED
    BY <1>1, PublishingStep

\* The root frame starts a call and takes its result.
LEMMA RootMoves ==
    ASSUME NativeInv, NEW where \in {"acquire", "over"}, phase[Root] \in {"none", "publish"},
           Goes(Root, where), at' \in {"native", "root"},
           kind' \in [Callers -> AllKinds], \A c \in Tasks : kind'[c] = kind[c],
           UNCHANGED <<taskVars, wakeVars, until, committed, pool, result, abandoned, completed, handleVars>>
    PROVE  NativeInv'
<1>1. /\ Types /\ CallsInOrder /\ Leased /\ Awake /\ committed' = committed
      /\ pool' = pool /\ result' = result /\ alive' = alive /\ leases' = leases
      /\ completions' = completions /\ notified' = notified
      /\ destroyPending' = destroyPending /\ phase' = [phase EXCEPT ![Root] = where]
      /\ UNCHANGED <<taskVars, registered, timer, until, committed, abandoned, completed>>
    BY DEF NativeInv, Goes, handleVars, wakeVars
<1>2. Root \in Callers /\ Root \notin Tasks /\ Callers = Tasks \union {Root}
    BY DEF Callers, Tasks, Root
<1>3. \A c \in Callers : HasAddress(c)' <=> HasAddress(c)
  <2>1. phase'[Root] = where /\ \A c \in Tasks : phase'[c] = phase[c]
      BY <1>1, <1>2 DEF Types
  <2>2. ~HasAddress(Root) /\ ~HasAddress(Root)'
      BY <2>1 DEF HasAddress
  <2>3. \A c \in Tasks : HasAddress(c)' <=> HasAddress(c)
      BY <2>1 DEF HasAddress, TakesHandle
  <2> QED
      BY <1>2, <2>2, <2>3
<1>4. Leased'
    BY <1>1, <1>3, LeasesStay
<1>5. Awake'
    BY <1>1 DEF Awake
<1>6. /\ pool' \in Seq(Tasks) /\ at' \in Spots /\ completions' \in Seq(Completion)
      /\ notified' \in BOOLEAN /\ alive' \in BOOLEAN /\ destroyPending' \in BOOLEAN
      /\ result' \in [Callers -> Outcomes] /\ \A t \in Tasks : t # Root => result'[t] = result[t]
      /\ phase[Root] # "over"
    BY <1>1 DEF Types, Spots
<1>7. IsInjective(pool') /\ ToSet(pool') \subseteq ToSet(pool) /\ Root \notin ToSet(pool')
    BY <1>1 DEF CallsInOrder
<1>8. where \in Phases \ {"none", "submitted"}
    BY DEF Phases
<1>9. \A i \in DOMAIN completions' : \E j \in DOMAIN completions : completions[j] = completions'[i]
    BY <1>1
<1> QED
    BY <1>1, <1>2, <1>4, <1>5, <1>6, <1>7, <1>8, <1>9, MoveStep

LEMMA RootCallStep == ASSUME NativeInv, RootCall PROVE NativeInv'
<1>1. /\ phase[Root] \in {"none", "publish"} /\ Goes(Root, "acquire") /\ at' \in {"native", "root"}
      /\ UNCHANGED <<taskVars, wakeVars, until, committed, pool, result, abandoned, completed, handleVars>>
    BY DEF RootCall, Goes
<1>2. PICK k \in RootKinds : kind' = [kind EXCEPT ![Root] = k]
    BY DEF RootCall
<1>3. kind' \in [Callers -> AllKinds] /\ \A c \in Tasks : kind'[c] = kind[c]
  <2>1. k \in AllKinds /\ Root \in Callers /\ Root \notin Tasks /\ Tasks \subseteq Callers
      BY KindAssumption DEF Callers, Tasks, Root
  <2> QED
      BY <1>2, <2>1 DEF NativeInv, Types
<1> QED
    BY <1>1, <1>3, RootMoves

LEMMA RootReturnsStep == ASSUME NativeInv, RootReturns PROVE NativeInv'
<1>1. /\ phase[Root] \in {"none", "publish"} /\ Goes(Root, "over") /\ at' \in {"native", "root"}
      /\ UNCHANGED <<taskVars, wakeVars, until, committed, pool, result, abandoned, completed, handleVars>>
      /\ kind' = kind
    BY DEF RootReturns, Outside, wakeVars
<1>2. kind' \in [Callers -> AllKinds] /\ \A c \in Tasks : kind'[c] = kind[c]
    BY <1>1 DEF NativeInv, Types
<1> QED
    BY <1>1, <1>2, RootMoves

\* A worker takes the first call submitted.
LEMMA TakeStep == ASSUME NativeInv, Take PROVE NativeInv'
<1> DEFINE where == "acquire"
<1>0. PICK c \in Tasks : c = Head(pool) /\ c \in ToSet(pool)
    BY Behead DEF NativeInv, Types, Take
<1>1. /\ Types /\ CallsInOrder /\ Leased /\ Awake /\ kind' = kind /\ committed' = committed
      /\ pool # <<>> /\ pool \in Seq(Tasks) /\ IsInjective(pool) /\ pool' = Tail(pool)
      /\ phase' = [phase EXCEPT ![c] = where] /\ Goes(c, where)
      /\ completions' = completions /\ notified' = notified /\ at' = at /\ result' = result
      /\ alive' = alive /\ leases' = leases /\ destroyPending' = destroyPending
      /\ UNCHANGED <<taskVars, registered, timer, until, committed, abandoned, completed>>
    BY <1>0 DEF NativeInv, Types, CallsInOrder, Take, Goes, Outside, handleVars
<1>2. /\ pool' \in Seq(Tasks) /\ IsInjective(pool')
      /\ ToSet(pool') \subseteq ToSet(pool) /\ c \notin ToSet(pool')
    BY <1>0, <1>1, Behead
<1>3. c \in Callers /\ phase[c] = "submitted"
    BY <1>0, <1>1 DEF Callers, CallsInOrder
<1>4. where \in Phases /\ where \in Phases \ {"none", "submitted"}
      /\ where \notin {"enter", "body", "waiting", "return", "release"}
    BY DEF Phases
<1> HIDE DEF where
<1>5. /\ \A d \in Callers : d # c => (HasAddress(d)' <=> HasAddress(d))
      /\ ~HasAddress(c)' /\ ~HasAddress(c)
  <2>1. /\ \A d \in Callers : d # c => (HasAddress(d)' <=> HasAddress(d))
        /\ HasAddress(c)' <=>
               TakesHandle(c) /\ where \in {"enter", "body", "waiting", "return", "release"}
      BY <1>1, <1>3, <1>4, AddressAt
  <2> QED
      BY <1>3, <1>4, <2>1 DEF HasAddress
<1>6. Leased'
    BY <1>1, <1>5, LeasesStay
<1>7. Awake'
    BY <1>1, AwakeStays
<1>8. /\ kind' \in [Callers -> AllKinds] /\ completions' \in Seq(Completion) /\ at' \in Spots
      /\ notified' \in BOOLEAN /\ alive' \in BOOLEAN /\ destroyPending' \in BOOLEAN
      /\ result' \in [Callers -> Outcomes] /\ \A t \in Tasks : t # c => result'[t] = result[t]
      /\ \A i \in DOMAIN completions' : \E j \in DOMAIN completions : completions[j] = completions'[i]
    BY <1>1 DEF Types
<1>9. phase[c] # "over" /\ (c # Root => phase[c] # "none")
    BY <1>3
<1> QED
    BY <1>1, <1>2, <1>3, <1>4, <1>6, <1>7, <1>8, <1>9, MoveStep

-----------------------------------------------------------------------------
(* The theorems.                                                           *)

LEMMA NativeStarts == ASSUME Init PROVE NativeInv
<1>1. /\ kind \in [Callers -> Kinds \union {"plain"}]
      /\ state = [t \in Tasks |-> "pending"] /\ blocked = [t \in Tasks |-> FALSE]
      /\ cancelling = [t \in Tasks |-> FALSE] /\ runnable = [t \in Tasks |-> t]
      /\ registered = [t \in Tasks |-> FALSE] /\ timer = Root /\ completions = <<>>
      /\ notified = FALSE /\ at = "root" /\ until = {} /\ committed = FALSE
      /\ pool = <<>> /\ phase = [c \in Callers |-> "none"]
      /\ result = [c \in Callers |-> "value"]
      /\ abandoned = [t \in Tasks |-> FALSE] /\ completed = [t \in Tasks |-> FALSE]
      /\ alive = TRUE /\ leases = 0 /\ destroyPending = FALSE
    BY DEF Init
<1>2. Kinds \union {"plain"} \subseteq AllKinds
    BY KindAssumption DEF AllKinds
<1>3. runnable \in Seq(Tasks) /\ IsInjective(runnable) /\ ToSet(runnable) = Tasks
  <2>1. /\ N \in Nat /\ Tasks = 1..N /\ runnable = [t \in 1..N |-> t]
      BY <1>1, SizeAssumption DEF Tasks
  <2>2. runnable \in Seq(Tasks)
      BY <2>1, IsASeq
  <2>3. DOMAIN runnable = 1..N /\ \A i \in 1..N : runnable[i] = i
      BY <2>1
  <2> QED
      BY <2>1, <2>2, <2>3 DEF ToSet, IsInjective
<1>4. /\ <<>> \in Seq(Tasks) /\ <<>> \in Seq(Completion) /\ ToSet(<<>>) = {}
    BY EmptySeq, RangeEmpty
<1>5. /\ DOMAIN completions = {} /\ IsInjective(pool) /\ ToSet(pool) = {}
  <2>1. DOMAIN completions = {} /\ DOMAIN pool = {}
      BY <1>1, <1>4 DEF ToSet
  <2> QED
      BY <1>1, <1>4, <2>1 DEF IsInjective
<1>6. Types
    BY <1>1, <1>2, <1>3, <1>4 DEF Types, States, Phases, Outcomes, Spots, Callers
<1>7. Queued
    BY <1>1, <1>3 DEF Queued, Terminal
<1>8. CallsInOrder
    BY <1>1, <1>5 DEF CallsInOrder, Callers
<1>9. Leased
  <2>1. Holders = {}
      BY <1>1 DEF Holders, HasAddress
  <2> QED
      BY <1>1, <2>1, FS_EmptySet DEF Leased
<1>10. Awake
    BY <1>1 DEF Awake
<1> QED
    BY <1>6, <1>7, <1>8, <1>9, <1>10 DEF NativeInv

LEMMA CallStepKeeps == ASSUME NativeInv, NEW c \in Callers, CallStep(c) PROVE NativeInv'
<1>1. CASE Acquire(c)
    BY <1>1, AcquireStep
<1>2. CASE Enter(c) \/ Body(c) \/ Answered(c) \/ TakeFault(c) \/ Convert(c) \/ RequestDestroy(c)
    BY <1>2, CallGoesOn
<1>3. CASE CallBack(c)
    BY <1>3, CallBackStep
<1>4. CASE Release(c)
    BY <1>4, ReleaseStep
<1>5. CASE Publish(c)
    BY <1>5, PublishStep
<1> QED
    BY <1>1, <1>2, <1>3, <1>4, <1>5 DEF CallStep

LEMMA SchedulerThreadKeeps == ASSUME NativeInv, SchedulerThread PROVE NativeInv'
<1>1. CASE FinishCancelled \/ MakeCall \/ Resume \/ FireTimer
    BY <1>1, FinishCancelledStep, MakeCallStep, ResumeStep, FireTimerStep
<1>2. CASE TakeLock \/ DrainResult \/ DrainCallback \/ Drained \/ Sleep \/ Wake
    BY <1>2, TakeLockStep, DrainResultStep, DrainCallbackStep, DrainedStep, SleepStep, WakeStep
<1>3. ASSUME NEW t \in Tasks, WaitTask(t) \/ TimeoutTask(t) \/ CancelTask(t) PROVE NativeInv'
    BY <1>3, WaitTaskStep, TimeoutTaskStep, CancelTaskStep
<1>4. CASE RootCall \/ Return \/ CloseRoot \/ CloseMachine
    BY <1>4, RootCallStep, ReturnStep, CloseRootStep, CloseMachineStep
<1> QED
    BY <1>1, <1>2, <1>3, <1>4 DEF SchedulerThread

LEMMA NativeStep == ASSUME NativeInv, [Next]_vars PROVE NativeInv'
<1>1. Root \in Callers /\ Tasks \subseteq Callers
    BY DEF Callers
<1>2. CASE SchedulerThread
    BY <1>2, SchedulerThreadKeeps
<1>3. CASE Take
    BY <1>3, TakeStep
<1>4. CASE CallStep(Root)
    BY <1>1, <1>4, CallStepKeeps
<1>5. CASE CallBackDirectly
    BY <1>1, <1>5, CallGoesOn
<1>6. CASE RootReturns
    BY <1>6, RootReturnsStep
<1>7. ASSUME NEW t \in Tasks, CallStep(t) PROVE NativeInv'
    BY <1>1, <1>7, CallStepKeeps
<1>8. CASE UNCHANGED vars
    BY <1>8, StutteringStep
<1> QED
    BY <1>2, <1>3, <1>4, <1>5, <1>6, <1>7, <1>8 DEF Next, RootStep

\* Each task and each call is where the others take it to be, for any number of
\* tasks and workers: the inductive invariant of vm.py's CALL_NATIVE, the
\* scheduler's completions and the leases of native handles.
THEOREM CallsAndTasksAgree == Spec => []NativeInv
<1> QED
    BY NativeStarts, NativeStep, PTL DEF Spec

\* The scheduler thread misses no completion (concurrency.py:620): it queues no
\* task twice, holds a lease for each call that has the handle's address, never
\* reports a deadlock or a vanished wake source while C works for a task it
\* waits for, and does not sleep over a completion.
THEOREM NothingEverMissed == Spec => []NothingMissed
<1>1. NativeInv => NothingMissed
  <2> SUFFICES ASSUME NativeInv PROVE NothingMissed
      OBVIOUS
  <2>1. /\ Types /\ Queued /\ Leased /\ Awake
      BY DEF NativeInv
  <2>2. \A t \in ToSet(runnable) : t \in Tasks
      BY <2>1, RangeIn DEF Types
  <2>3. TypeOK
      BY <2>1, <2>2 DEF Queued, Leased, TypeOK
  <2>4. NoFalseFault /\ NotAsleep
      BY <2>1 DEF Awake, NoFalseFault, NotAsleep
  <2> QED
      BY <2>3, <2>4 DEF NothingMissed
<1> QED
    BY <1>1, CallsAndTasksAgree, PTL

\* A task that has resumed had its own finished call, and no result reaches a
\* task whose cancellation was requested while the call was in flight: the
\* worker publishes to an abandoned call and the drain drops it.
THEOREM OnlyOwnResults == Spec => []OnlyOwnResult
<1>1. NativeInv => OnlyOwnResult
    BY DEF NativeInv, CallsInOrder, OnlyOwnResult
<1> QED
    BY <1>1, CallsAndTasksAgree, PTL

\* The identity of the handle stays valid while any call leases it, also the
\* calls of cancelled tasks (acquire_lease, release_lease, request_destroy).
THEOREM PinnedForEveryLease == Spec => []PinnedWhileLeased
<1>1. NativeInv => PinnedWhileLeased
  <2> SUFFICES ASSUME NativeInv, Holders # {} PROVE alive
      BY DEF PinnedWhileLeased
  <2>1. Types /\ leases = Cardinality(Holders) /\ (~alive => leases = 0) /\ Holders \in SUBSET Callers
      BY DEF NativeInv, Leased, Holders
  <2>2. IsFiniteSet(Holders)
      BY <2>1, CountOfCallers
  <2>3. Cardinality(Holders) # 0
      BY <2>2, FS_EmptySet
  <2> QED
      BY <2>1, <2>3 DEF Types
<1> QED
    BY <1>1, CallsAndTasksAgree, PTL
=============================================================================
