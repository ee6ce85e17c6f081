-------------------------- MODULE SchedulerProofs --------------------------
(***************************************************************************)
(* Proofs about Scheduler, for any number of tasks and scopes and any set  *)
(* of instructions: the scheduler implements structured concurrency        *)
(* (StructuredTasks), so a scope that was closed was joined; a task that   *)
(* returned left no scope of its own behind; nobody is stranded; and a     *)
(* failure spreads at once.                                                *)
(***************************************************************************)
EXTENDS Scheduler, QueueLemmas, SequenceTheorems, WellFoundedInduction, TLAPS

-----------------------------------------------------------------------------
(* Sequences.                                                              *)

\* The innermost scope of a stack is one of its scopes.
LEMMA LastIn ==
    ASSUME NEW S, NEW s \in Seq(S), s # <<>>
    PROVE  Last(s) \in S /\ Len(s) \in Nat \ {0}
<1>1. Len(s) \in Nat \ {0}
    BY EmptySeq
<1> QED
    BY <1>1, ElementOfSeq DEF Last

\* A prefix.
LEMMA PrefixIn ==
    ASSUME NEW S, NEW s \in Seq(S), NEW n \in Int, n <= Len(s)
    PROVE  SubSeq(s, 1, n) \in Seq(S)
<1>1. Len(s) \in Nat
    BY LenProperties
<1>2. \A i \in 1..n : s[i] \in S
    BY <1>1, ElementOfSeq
<1> QED
    BY <1>2, SubSeqProperties

\* A stack without its innermost scope is a stack of the same scopes.
LEMMA FrontIn ==
    ASSUME NEW S, NEW s \in Seq(S), s # <<>>
    PROVE  /\ Front(s) \in Seq(S)
           /\ Len(s) > 1 => Front(s) # <<>>
<1>1. Len(s) \in Nat \ {0}
    BY EmptySeq
<1>2. \A i \in 1..(Len(s) - 1) : s[i] \in S
    BY <1>1, ElementOfSeq
<1>3. Len(s) - 1 \in Int /\ 1 \in Int
    BY <1>1
<1>4. /\ SubSeq(s, 1, Len(s) - 1) \in Seq(S)
      /\ Len(SubSeq(s, 1, Len(s) - 1)) = IF 1 <= Len(s) - 1 THEN Len(s) - 1 - 1 + 1 ELSE 0
    BY <1>2, <1>3, SubSeqProperties
<1> DEFINE f == SubSeq(s, 1, Len(s) - 1)
<1>5. f = Front(s)
    BY DEF Front
<1>6. Len(s) > 1 => f # <<>>
  <2>1. f = <<>> => Len(f) = 0
    BY EmptySeq
  <2>2. Len(s) > 1 => Len(f) = Len(s) - 1 - 1 + 1
    BY <1>1, <1>4
  <2> HIDE DEF f
  <2> QED
    BY <1>1, <2>1, <2>2
<1> QED
    BY <1>4, <1>5, <1>6

\* What a sequence holds comes from the set it is a sequence over.
LEMMA ToSetIn ==
    ASSUME NEW S, NEW s \in Seq(S)
    PROVE  ToSet(s) \subseteq S
<1>1. DOMAIN s = 1..Len(s)
    BY LenProperties
<1> QED
    BY <1>1, ElementOfSeq DEF ToSet

\* fail-fast closes a stack from the inside out: the same scopes, reversed.
LEMMA ReverseIn ==
    ASSUME NEW S, NEW s \in Seq(S)
    PROVE  Reverse(s) \in Seq(S)
<1>1. Len(s) \in Nat
    BY LenProperties
<1>2. \A i \in 1..Len(s) : (Len(s) - i) + 1 \in 1..Len(s)
    BY <1>1
<1>3. \A i \in 1..Len(s) : s[(Len(s) - i) + 1] \in S
    BY <1>2, ElementOfSeq
<1>4. Reverse(s) \in [1..Len(s) -> S]
    BY <1>3 DEF Reverse
<1> QED
    BY <1>1, <1>4, SeqDef

\* The stack of a new task: the one scope it is spawned into.
LEMMA SingletonIn ==
    ASSUME NEW S, NEW e \in S
    PROVE  <<e>> \in Seq(S) /\ ToSet(<<e>>) = {e}
<1>1. <<e>> \in Seq(S) /\ Len(<<e>>) = 1 /\ <<e>>[1] = e
    OBVIOUS
<1>2. DOMAIN <<e>> = 1..1
    BY <1>1, LenProperties
<1>3. 1..1 = {1}
    OBVIOUS
<1> DEFINE one == <<e>>
<1>4. one[1] = e /\ DOMAIN one = {1}
    BY <1>1, <1>2, <1>3
<1> HIDE DEF one
<1>5. {one[i] : i \in DOMAIN one} = {e}
    BY <1>4
<1> USE DEF one
<1> QED
    BY <1>1, <1>5 DEF ToSet

\* What SelectLastInSeq points at is a place of the sequence.
LEMMA GreatestPlace ==
    ASSUME NEW n \in Nat, NEW I \in SUBSET (1..n), I # {}
    PROVE  Max(I) \in I
<1> DEFINE less == {p \in Nat \X Nat : p[1] < p[2]}
           D == {n - i : i \in I}
<1>0. \A i \in I : i \in Nat /\ i <= n
    OBVIOUS
<1>1. D \subseteq Nat /\ D # {}
  <2>1. \A i \in I : n - i \in Nat
    BY <1>0
  <2> QED
    BY <2>1
<1>2. IsWellFoundedOn(less, Nat)
    BY NatLessThanWellFounded DEF OpToRel
<1>3. PICK d \in D : \A e \in D : <<e, d>> \notin less
  <2> HIDE DEF D, less
  <2> QED
    BY <1>1, <1>2, WFMin
<1>4. \A e \in D : <<e, d>> \in Nat \X Nat /\ ~(e < d)
    BY <1>1, <1>3
<1>5. PICK m \in I : d = n - m
    OBVIOUS
<1>6. \A i \in I : ~(n - i < n - m)
    BY <1>4, <1>5
<1>7. \A i \in I : m >= i
    BY <1>0, <1>6
<1>8. \E x \in I : \A y \in I : x >= y
    BY <1>7
<1> QED
    BY <1>8, Zenon DEF Max

-----------------------------------------------------------------------------
(* The inductive invariant.                                                *)

States == {"unborn"} \cup Live \cup Ended
ScopeStates == {"unborn", "open", "closing", "closed"}
Entered == {s \in Scope : scopeState[s] # "unborn"}

\* The task that holds the executor was started.
Runs == current # Root => current \in Task /\ state[current] = "running"

Base ==
    /\ state \in [Task -> States]
    /\ scopeOf \in [Task -> Scope]
    /\ scopeState \in [Scope -> ScopeStates]
    /\ children \in [Scope -> SUBSET Task]
    /\ Runs

\* Wherever the program may still close a scope from, the scope was entered.
Places ==
    /\ activeScopes \in [Task -> Seq(Entered)]
    /\ pending = [t \in Task |-> pending[t]]
    /\ \A t \in Task : pending[t].scopes \in Seq(Entered)
    /\ rootStack \in Seq(Entered) /\ rootStack # <<>>
    /\ rootClosing \in Entered /\ RootScope \in Entered

\* A scope keeps every task spawned into it until it is closed.
Homes == \A t \in Born :
    scopeState[scopeOf[t]] # "closed" => t \in children[scopeOf[t]]

IInv == Base /\ Places /\ Homes

(* A step, seen through the variables the invariant is about.              *)

BirthStep == \E c \in Task, s \in Scope :
    /\ scopeState[s] = "open" /\ state[c] = "unborn"
    /\ state' = [state EXCEPT ![c] = "pending"]
    /\ scopeOf' = [scopeOf EXCEPT ![c] = s]
    /\ children' = [children EXCEPT ![s] = @ \cup {c}]
    /\ scopeState' = scopeState

EnterStep == \E s \in Scope :
    /\ scopeState[s] = "unborn"
    /\ scopeState' = [scopeState EXCEPT ![s] = "open"]
    /\ UNCHANGED <<state, scopeOf, children>>

TasksMove ==
    /\ scopeOf' = scopeOf
    /\ state' \in [Task -> States]
    /\ \A t \in Task : state[t] = "unborn" <=> state'[t] = "unborn"
    /\ \A t \in Task : terminal(t) => terminal(t)'

ScopesMove ==
    /\ scopeState' \in [Scope -> ScopeStates]
    /\ children' \in [Scope -> SUBSET Task]
    /\ \A s \in Scope :
          \/ scopeState'[s] = scopeState[s]
          \/ scopeState[s] \in {"open", "closing"} /\ scopeState'[s] = "closing"
          \/ /\ scopeState[s] \in {"open", "closing"} /\ scopeState'[s] = "closed"
             /\ children_terminal(s)
    /\ \A s \in Scope : scopeState'[s] # "closed" => children'[s] = children[s]

Move == TasksMove /\ ScopesMove

\* begin_close takes entered scopes to closing, or leaves them closed.
LEMMA BeginMoves ==
    ASSUME Base, NEW S \in SUBSET Entered, begin_close(S), UNCHANGED children
    PROVE  ScopesMove
    BY DEF Base, Entered, begin_close, ScopesMove, ScopeStates

\* finalize_close of joined scopes closes scopes whose children all ended.
LEMMA FinalizeMoves ==
    ASSUME Base, NEW S \in SUBSET Entered, finalize_close(S),
           \A s \in S : children_terminal(s)
    PROVE  ScopesMove
    BY DEF Base, Entered, finalize_close, ScopesMove, ScopeStates

\* A step that writes no scope is a move of the scopes.
LEMMA ScopesStay ==
    ASSUME Base, UNCHANGED <<scopeState, children>>
    PROVE  ScopesMove
    BY DEF Base, ScopesMove

\* A step that writes no task state is a move of the tasks.
LEMMA TasksStay ==
    ASSUME Base, UNCHANGED <<state, scopeOf>>
    PROVE  TasksMove
    BY DEF Base, TasksMove, terminal

\* _finish ends the task it is given and no other.
LEMMA FinishMoves ==
    ASSUME Base, NEW t \in Task, NEW outcome \in Ended,
           NEW q, NEW W, NEW CW, NEW C,
           state[t] # "unborn", _finish(t, outcome, q, W, CW, C)
    PROVE  /\ TasksMove
           /\ current' = Root
           /\ pending' = [pending EXCEPT ![t] = NoEvent]
           /\ owner' = owner
<1>1. /\ state' = [state EXCEPT ![t] = outcome]
      /\ scopeOf' = scopeOf
      /\ current' = Root
      /\ pending' = [pending EXCEPT ![t] = NoEvent]
      /\ owner' = owner
    BY DEF _finish
<1> QED
    BY <1>1 DEF Base, TasksMove, terminal, States, Ended

\* Entered scopes stay entered.
LEMMA EnteredGrows ==
    ASSUME Base, BirthStep \/ EnterStep \/ Move
    PROVE  Entered \subseteq Entered'
<1>1. CASE BirthStep
    BY <1>1 DEF BirthStep, Entered
<1>2. CASE EnterStep
    BY <1>2 DEF EnterStep, Entered, Base
<1>3. CASE Move
    BY <1>3 DEF Move, ScopesMove, Entered
<1> QED
    BY <1>1, <1>2, <1>3

\* The invariant's facts about tasks and scopes survive every such step.
LEMMA StepKeepsHomes ==
    ASSUME Base, Homes, BirthStep \/ EnterStep \/ Move
    PROVE  /\ state' \in [Task -> States] /\ scopeOf' \in [Task -> Scope]
           /\ scopeState' \in [Scope -> ScopeStates]
           /\ children' \in [Scope -> SUBSET Task]
           /\ Homes'
           /\ Born \subseteq Born'
<1>1. CASE BirthStep
    BY <1>1 DEF BirthStep, Base, Homes, Born, States, Live
<1>2. CASE EnterStep
    BY <1>2 DEF EnterStep, Base, Homes, Born, ScopeStates
<1>3. CASE Move
    BY <1>3 DEF Move, TasksMove, ScopesMove, Base, Homes, Born
<1> QED
    BY <1>1, <1>2, <1>3

\* Such a step is a step of structured concurrency.
LEMMA StepIsStructured ==
    ASSUME Base, Homes, BirthStep \/ EnterStep \/ Move
    PROVE  Structured!SNext
<1>1. CASE BirthStep
  <2>1. PICK c \in Task, s \in Scope :
            /\ scopeState[s] = "open" /\ state[c] = "unborn"
            /\ state' = [state EXCEPT ![c] = "pending"]
            /\ scopeOf' = [scopeOf EXCEPT ![c] = s]
            /\ scopeState' = scopeState
    BY <1>1 DEF BirthStep
  <2>2. Born' = Born \cup {c} /\ c \notin Born
    BY <2>1 DEF Base, Born
  <2>3. {t \in Task : terminal(t)}' = {t \in Task : terminal(t)}
    BY <2>1 DEF Base, terminal, Ended
  <2>4. Structured!Birth(c, s)
    BY <2>1, <2>2, <2>3 DEF Structured!Birth
  <2> QED
    BY <2>4 DEF Structured!SNext
<1>2. CASE EnterStep
  <2>1. PICK s \in Scope :
            /\ scopeState[s] = "unborn"
            /\ scopeState' = [scopeState EXCEPT ![s] = "open"]
            /\ UNCHANGED <<state, scopeOf>>
    BY <1>2 DEF EnterStep
  <2>2. Born' = Born /\ {t \in Task : terminal(t)}' = {t \in Task : terminal(t)}
    BY <2>1 DEF Born, terminal
  <2>3. Structured!Enter(s)
    BY <2>1, <2>2 DEF Structured!Enter
  <2> QED
    BY <2>3 DEF Structured!SNext
<1>3. CASE Move
  <2> DEFINE E == {t \in Born : terminal(t)'}
             leave == {s \in Scope : /\ scopeState[s] \in {"open", "closing"}
                                     /\ scopeState'[s] = "closing"}
             join == {s \in Scope : /\ scopeState[s] \in {"open", "closing"}
                                    /\ scopeState'[s] = "closed"}
  <2>1. Born' = Born /\ scopeOf' = scopeOf
    BY <1>3 DEF Move, TasksMove, Born
  <2>2. {t \in Task : terminal(t)}' = {t \in Task : terminal(t)} \cup E
    <3>1. \A t \in Task : terminal(t)' => t \in Born
      BY <1>3 DEF Move, TasksMove, Born, terminal, Ended
    <3> QED
      BY <1>3, <3>1 DEF Move, TasksMove, Born
  <2>3. scopeState' = [s \in Scope |-> IF s \in join THEN "closed"
                                       ELSE IF s \in leave THEN "closing"
                                       ELSE scopeState[s]]
    BY <1>3 DEF Move, ScopesMove, Base
  <2>4. ASSUME NEW s \in join PROVE Structured!Members(s) \subseteq {t \in Task : terminal(t)}
    <3>1. children_terminal(s) /\ scopeState[s] # "closed"
      BY <1>3 DEF Move, ScopesMove
    <3>2. \A c \in children[s] : terminal(c)
      BY <3>1 DEF children_terminal, LiveChildren
    <3>3. \A t \in Born : scopeOf[t] = s => t \in children[s]
      BY <3>1 DEF Homes
    <3> QED
      BY <3>2, <3>3 DEF Structured!Members, Born
  <2>5. Structured!Advance(E, leave, join)
    <3> HIDE DEF join, leave, E
    <3>1. E \subseteq Born /\ \A s \in leave \cup join : scopeState[s] \in {"open", "closing"}
      BY DEF join, leave, E
    <3> QED
      BY <2>1, <2>2, <2>3, <2>4, <3>1 DEF Structured!Advance
  <2>6. E \in SUBSET Task /\ leave \in SUBSET Scope /\ join \in SUBSET Scope
    BY DEF Born
  <2> HIDE DEF E, leave, join
  <2> QED
    BY <2>5, <2>6 DEF Structured!SNext
<1> QED
    BY <1>1, <1>2, <1>3

\* The invariant from the parts a step leaves.
LEMMA Assemble ==
    ASSUME IInv, BirthStep \/ EnterStep \/ Move,
           \/ activeScopes' = activeScopes
           \/ \E t \in Task : \E ss \in Seq(Entered') :
                 activeScopes' = [activeScopes EXCEPT ![t] = ss],
           \/ pending' = pending
           \/ \E t \in Task : /\ pending' = [pending EXCEPT ![t] = pending'[t]]
                              /\ pending'[t].scopes \in Seq(Entered'),
           rootStack' \in Seq(Entered'), rootStack' # <<>>,
           rootClosing' \in Entered',
           Runs'
    PROVE  IInv'
<1>1. Base /\ Homes /\ Places
    BY DEF IInv
<1>2. \A ss \in Seq(Entered) : ss \in Seq(Entered')
    BY <1>1, EnteredGrows, SeqMonotonic
<1>3. Base' /\ Homes'
    BY <1>1, StepKeepsHomes DEF Base
<1> HIDE DEF Entered
<1>4. activeScopes' \in [Task -> Seq(Entered')]
  <2>1. activeScopes \in [Task -> Seq(Entered')]
    BY <1>1, <1>2 DEF Places
  <2> QED
    BY <2>1
<1>5. /\ pending' = [t \in Task |-> pending'[t]]
      /\ \A t \in Task : pending'[t].scopes \in Seq(Entered')
  <2>1. /\ pending = [t \in Task |-> pending[t]]
        /\ \A t \in Task : pending[t].scopes \in Seq(Entered')
    BY <1>1, <1>2 DEF Places
  <2> QED
    BY <2>1
<1>6. RootScope \in Entered'
    BY <1>1, EnteredGrows DEF Places
<1> QED
    BY <1>3, <1>4, <1>5, <1>6 DEF IInv, Places

-----------------------------------------------------------------------------
(* The three ways a step of a task ends: the task ends, it is suspended, or *)
(* it goes on.  What the step did to the scopes is given.                  *)

Good == IInv' /\ (BirthStep \/ EnterStep \/ Move)

ActiveMoves ==
    \/ activeScopes' = activeScopes
    \/ \E t \in Task : \E ss \in Seq(Entered) :
          activeScopes' = [activeScopes EXCEPT ![t] = ss]

\* A step that only moves tasks and scopes keeps the invariant, if what it
\* leaves on stacks and in suspensions has been entered.
LEMMA MoveKeeps ==
    ASSUME IInv, Move, ActiveMoves,
           \/ pending' = pending
           \/ \E t \in Task : /\ pending' = [pending EXCEPT ![t] = pending'[t]]
                              /\ pending'[t].scopes \in Seq(Entered),
           rootStack' \in Seq(Entered), rootStack' # <<>>,
           rootClosing' \in Entered,
           Runs'
    PROVE  Good
<1>1. Base /\ Entered \subseteq Entered'
    BY EnteredGrows DEF IInv
<1>2. \A ss \in Seq(Entered) : ss \in Seq(Entered')
    BY <1>1, SeqMonotonic
<1> HIDE DEF Entered
<1> QED
    BY <1>1, <1>2, Assemble DEF Good, ActiveMoves

\* A step of a task leaves what the root frame remembers alone.
LEMMA RootKept ==
    ASSUME IInv, UNCHANGED rootVars
    PROVE  /\ rootStack' \in Seq(Entered) /\ rootStack' # <<>>
           /\ rootClosing' \in Entered
    BY DEF IInv, Places, rootVars

\* Whatever way a task ends (_finish), the invariant is kept.
LEMMA EndKeeps ==
    ASSUME IInv, NEW t \in Task, NEW outcome \in Ended,
           NEW q, NEW W, NEW CW, NEW C,
           state[t] # "unborn", _finish(t, outcome, q, W, CW, C),
           ScopesMove, ActiveMoves, UNCHANGED rootVars
    PROVE  Good
<1>1. TasksMove /\ current' = Root /\ pending' = [pending EXCEPT ![t] = NoEvent]
    BY FinishMoves DEF IInv
<1>2. pending'[t] = NoEvent
    BY <1>1 DEF IInv, Places
<1>3. NoEvent.scopes \in Seq(Entered)
    BY EmptySeq DEF NoEvent
<1> QED
    BY <1>1, <1>2, <1>3, RootKept, MoveKeeps DEF Move, Runs

\* In particular when it fails,
LEMMA FailKeeps ==
    ASSUME IInv, NEW t \in Task, NEW q, state[t] # "unborn", Fail(t, q),
           ScopesMove, ActiveMoves, UNCHANGED rootVars
    PROVE  Good
<1>1. "failed" \in Ended
    BY DEF Ended
<1> QED
    BY <1>1, EndKeeps DEF Fail, FailAfter

\* when it is cancelled (_finish_cancelled),
LEMMA FinishCancelledKeeps ==
    ASSUME IInv, NEW t \in Task, NEW q, NEW W, NEW CW, NEW C,
           state[t] # "unborn", FinishCancelled(t, q, W, CW, C),
           ScopesMove, ActiveMoves, UNCHANGED rootVars
    PROVE  Good
<1>1. "cancelled" \in Ended
    BY DEF Ended
<1> QED
    BY <1>1, EndKeeps DEF FinishCancelled

\* and when a wait raises what the awaited task left.
LEMMA RaiseKeeps ==
    ASSUME IInv, NEW t \in Task, NEW T, NEW q, state[t] # "unborn",
           Raise(t, T, q), ScopesMove, ActiveMoves, UNCHANGED rootVars
    PROVE  Good
    BY FailKeeps, FinishCancelledKeeps DEF Raise

\* A task that blocks on entered scopes (TaskBlocked) keeps the invariant.
LEMMA SuspendKeeps ==
    ASSUME IInv, NEW t \in Task, NEW event, NEW C, Suspend(t, event, C),
           event.scopes \in Seq(Entered), UNCHANGED <<state, scopeOf>>,
           ScopesMove, ActiveMoves, UNCHANGED rootVars
    PROVE  Good
<1>1. pending' = [pending EXCEPT ![t] = event] /\ current' = Root
    BY DEF Suspend
<1>2. pending'[t] = event
    BY <1>1 DEF IInv, Places
<1>3. TasksMove
    BY TasksStay DEF IInv
<1> QED
    BY <1>1, <1>2, <1>3, RootKept, MoveKeeps DEF Move, Runs

\* So does a suspending instruction, which blocks or is cancelled on the spot.
LEMMA EndQuantumKeeps ==
    ASSUME IInv, NEW t \in Task, NEW event, NEW W, NEW CW,
           state[t] # "unborn", EndQuantum(t, event, W, CW),
           event.scopes \in Seq(Entered),
           ScopesMove, ActiveMoves, UNCHANGED rootVars
    PROVE  Good
<1>1. CASE cancelReq[t]
    BY <1>1, FinishCancelledKeeps DEF EndQuantum
<1>2. CASE ~cancelReq[t]
    BY <1>2, SuspendKeeps DEF EndQuantum
<1> QED
    BY <1>1, <1>2

\* A step that ends no task and suspends none keeps the invariant, if the root
\* frame remembers entered scopes only.
LEMMA GoesOn ==
    ASSUME IInv, UNCHANGED <<state, scopeOf, pending>>, ScopesMove, ActiveMoves,
           rootStack' \in Seq(Entered), rootStack' # <<>>,
           rootClosing' \in Entered,
           current' = Root \/ current' = current
    PROVE  Good
<1>1. TasksMove
    BY TasksStay DEF IInv
<1>2. Runs'
    BY DEF IInv, Base, Runs
<1> QED
    BY <1>1, <1>2, MoveKeeps DEF Move

-----------------------------------------------------------------------------
(* The instructions of the running task.                                   *)

\* The running task has been spawned.
LEMMA RunningIsBorn ==
    ASSUME IInv, NEW t \in Task, current = t
    PROVE  t \in Born /\ state[t] # "unborn"
<1>1. t # Root
    BY DEF Task, Root
<1> QED
    BY <1>1 DEF IInv, Base, Born, Runs

\* Steps that leave scopes and stacks alone move neither.
LEMMA NothingElse ==
    ASSUME IInv, UNCHANGED <<activeScopes, scopeState, children>>
    PROVE  ScopesMove /\ ActiveMoves
    BY ScopesStay DEF IInv, ActiveMoves

\* SPAWN_CALL: the child joins the children of an open scope.
LEMMA SpawnKeeps ==
    ASSUME IInv, NEW c \in Fresh, NEW s \in Scope, spawn(c, s),
           UNCHANGED <<current, rootVars>>
    PROVE  Good
<1>1. c \in Task /\ state[c] = "unborn" /\ scopeState[s] = "open"
    BY DEF Fresh, spawn
<1>2. BirthStep
    BY <1>1 DEF spawn, Spawned, BirthStep
<1>3. Entered \subseteq Entered'
    BY <1>2, EnteredGrows DEF IInv
<1>4. s \in Entered'
    BY <1>1, <1>3 DEF Entered
<1>5. activeScopes' = [activeScopes EXCEPT ![c] = <<s>>] /\ pending' = pending
    BY DEF spawn, Spawned
<1>6. Runs'
  <2>1. current' = current /\ state' = [state EXCEPT ![c] = "pending"]
    BY DEF spawn, Spawned
  <2> QED
    BY <1>1, <2>1 DEF IInv, Base, Runs
<1>7. /\ rootStack' \in Seq(Entered') /\ rootStack' # <<>>
      /\ rootClosing' \in Entered'
    BY <1>3, RootKept, SeqMonotonic
<1> HIDE DEF Entered
<1>8. <<s>> \in Seq(Entered')
    BY <1>4, SingletonIn
<1> QED
    BY <1>1, <1>2, <1>5, <1>6, <1>7, <1>8, Assemble DEF Good

\* SPAWN_CALL into a closing scope and an unmatched SCOPE_END only end the task.
LEMMA SpawnRefusedKeeps ==
    ASSUME IInv, NEW t \in Task, SpawnRefused(t) \/ ScopeEndUnmatched(t)
    PROVE  Good
    BY RunningIsBorn, NothingElse, FailKeeps DEF SpawnRefused, ScopeEndUnmatched

\* SCOPE_BEGIN enters a scope before it is put on the stack.
LEMMA ScopeBeginKeeps ==
    ASSUME IInv, NEW t \in Task, ScopeBegin(t)
    PROVE  Good
<1>1. PICK s \in FreshScope :
          /\ scopeState' = [scopeState EXCEPT ![s] = "open"]
          /\ activeScopes' = [activeScopes EXCEPT ![t] = Append(@, s)]
    BY DEF ScopeBegin
<1>2. s \in Scope /\ scopeState[s] = "unborn"
    BY DEF FreshScope
<1>3. EnterStep
    BY <1>1, <1>2 DEF EnterStep, ScopeBegin, taskVars
<1>4. Entered \subseteq Entered'
    BY <1>3, EnteredGrows DEF IInv
<1>5. s \in Entered'
    BY <1>1, <1>2 DEF Entered, IInv, Base
<1>6. /\ rootStack' \in Seq(Entered') /\ rootStack' # <<>>
      /\ rootClosing' \in Entered'
    BY <1>4, RootKept, SeqMonotonic DEF ScopeBegin
<1>7. Runs'
    BY DEF IInv, Base, Runs, ScopeBegin, taskVars
<1>8. pending' = pending
    BY DEF ScopeBegin, taskVars
<1>9. activeScopes' = [activeScopes EXCEPT ![t] = Append(activeScopes[t], s)]
    BY <1>1
<1> HIDE DEF Entered
<1>10. Append(activeScopes[t], s) \in Seq(Entered')
  <2>1. activeScopes[t] \in Seq(Entered')
    BY <1>4, SeqMonotonic DEF IInv, Places
  <2> QED
    BY <1>5, <2>1, AppendProperties
<1> QED
    BY <1>3, <1>6, <1>7, <1>8, <1>9, <1>10, Assemble DEF Good

\* SCOPE_END closes a joined scope at once, or blocks on it.
LEMMA ScopeEndKeeps ==
    ASSUME IInv, NEW t \in Task, ScopeEnd(t)
    PROVE  Good
<1> DEFINE s == Last(activeScopes[t])
<1>1. activeScopes[t] \in Seq(Entered) /\ activeScopes[t] # <<>>
  <2>1. Len(<<>>) = 0
    OBVIOUS
  <2> QED
    BY <2>1 DEF IInv, Places, ScopeEnd
<1>2. s \in Entered /\ Front(activeScopes[t]) \in Seq(Entered)
    BY <1>1, LastIn, FrontIn
<1>3. ActiveMoves
    BY <1>2 DEF ActiveMoves, ScopeEnd
<1>4. UNCHANGED rootVars
    BY DEF ScopeEnd
<1> HIDE DEF s
<1>5. CASE children_terminal(s)
  <2>1. finalize_close({s})
    BY <1>5 DEF ScopeEnd, s
  <2>2. ScopesMove
    BY <1>2, <1>5, <2>1, FinalizeMoves DEF IInv
  <2>3. CASE FailedChildren(s) # {}
    BY <1>3, <1>4, <1>5, <2>2, <2>3, RunningIsBorn, FailKeeps DEF ScopeEnd, s
  <2>4. CASE ~(FailedChildren(s) # {})
    <3>1. UNCHANGED <<state, scopeOf, pending, current>>
      BY <1>5, <2>4 DEF ScopeEnd, s, taskVars
    <3> QED
      BY <1>3, <1>4, <2>2, <3>1, RootKept, GoesOn
  <2> QED
    BY <2>3, <2>4
<1>6. CASE ~children_terminal(s)
  <2>1. begin_close({s}) /\ UNCHANGED children
    BY <1>6 DEF ScopeEnd, s
  <2>2. ScopesMove
    BY <1>2, <2>1, BeginMoves DEF IInv
  <2> DEFINE e == ScopeClose(<<s>>, FALSE)
  <2>3. \E CW : EndQuantum(t, e, waiters, CW)
    BY <1>6 DEF ScopeEnd, s
  <2>4. e.scopes \in Seq(Entered)
    BY <1>2, SingletonIn DEF ScopeClose, NoEvent
  <2> HIDE DEF e
  <2>5. state[t] # "unborn"
    BY RunningIsBorn DEF ScopeEnd
  <2> QED
    BY <1>3, <1>4, <2>2, <2>3, <2>4, <2>5, EndQuantumKeeps
<1> QED
    BY <1>5, <1>6

\* WAIT_TASK and WAIT_TASKS_VECTORISED raise, go on or block.
LEMMA WaitForKeeps ==
    ASSUME IInv, NEW t \in Task, NEW T, NEW event, WaitFor(t, T, event),
           event.scopes = <<>>
    PROVE  Good
<1>1. ScopesMove /\ ActiveMoves /\ UNCHANGED rootVars /\ state[t] # "unborn"
    BY RunningIsBorn, NothingElse DEF WaitFor
<1>2. CASE \A u \in T : terminal(u)
    BY <1>1, <1>2, RaiseKeeps DEF WaitFor
<1>3. CASE ~(\A u \in T : terminal(u))
  <2>1. \E W : EndQuantum(t, event, W, closeWaiter)
    BY <1>3 DEF WaitFor
  <2>2. event.scopes \in Seq(Entered)
    BY EmptySeq
  <2> QED
    BY <1>1, <2>1, <2>2, EndQuantumKeeps
<1> QED
    BY <1>2, <1>3

\* Both are instances of WaitFor.
LEMMA WaitKeeps ==
    ASSUME IInv, NEW t \in Task, Wait(t) \/ WaitGroup(t)
    PROVE  Good
<1>1. \A T : TaskWait(T).scopes = <<>> /\ GroupWait(T).scopes = <<>>
    BY DEF TaskWait, GroupWait, NoEvent
<1>2. \E T : WaitFor(t, T, TaskWait(T)) \/ WaitFor(t, T, GroupWait(T))
    BY DEF Wait, WaitGroup
<1> QED
    BY <1>1, <1>2, WaitForKeeps

\* CANCEL_TASK ends no task and closes no scope.
LEMMA CancelKeeps ==
    ASSUME IInv, NEW t \in Task, Cancel(t)
    PROVE  Good
<1>1. /\ UNCHANGED <<state, scopeOf, pending, activeScopes, scopeState, children,
                     current, rootVars>>
    BY DEF Cancel
<1> QED
    BY <1>1, NothingElse, RootKept, GoesOn

\* A panic caught in the same task moves only its code.
LEMMA CatchKeeps ==
    ASSUME IInv, NEW t \in Task, Catch(t)
    PROVE  Good
<1>1. UNCHANGED <<state, scopeOf, pending, activeScopes, scopeState, children,
                  current, rootVars>>
    BY DEF Catch, taskVars, scopeVars
<1> QED
    BY <1>1, NothingElse, RootKept, GoesOn

\* A yield goes to the end of the queue, or ends a cancelled task.
LEMMA YieldKeeps ==
    ASSUME IInv, NEW t \in Task, Yield(t)
    PROVE  Good
<1>1. ScopesMove /\ ActiveMoves /\ UNCHANGED rootVars /\ state[t] # "unborn"
    BY RunningIsBorn, NothingElse DEF Yield
<1>2. CASE cancelReq[t]
    BY <1>1, <1>2, FinishCancelledKeeps DEF Yield
<1>3. CASE ~cancelReq[t]
  <2>1. UNCHANGED <<state, scopeOf, pending>> /\ current' = Root
    BY <1>3 DEF Yield, taskVars
  <2> QED
    BY <1>1, <2>1, RootKept, GoesOn
<1> QED
    BY <1>2, <1>3

\* CANCEL_POLL, the return and a panic end the task.
LEMMA TaskEndKeeps ==
    ASSUME IInv, NEW t \in Task, CancelPoll(t) \/ Return(t) \/ Panic(t)
    PROVE  Good
<1>1. current = t /\ UNCHANGED <<activeScopes, scopeState, children, rootVars>>
    BY DEF CancelPoll, Return, Panic
<1>2. ScopesMove /\ ActiveMoves /\ state[t] # "unborn"
    BY <1>1, RunningIsBorn, NothingElse
<1>3. "completed" \in Ended
    BY DEF Ended
<1> QED
    BY <1>1, <1>2, <1>3, FinishCancelledKeeps, FailKeeps, EndKeeps
       DEF CancelPoll, Return, Panic, Complete

-----------------------------------------------------------------------------
(* The quanta the scheduler loop starts.                                   *)

\* run() of a cancelled task ends it.
LEMMA StepCancelledKeeps ==
    ASSUME IInv, NEW t \in Task, state[t] # "unborn", StepCancelled(t)
    PROVE  Good
    BY NothingElse, FinishCancelledKeeps DEF StepCancelled

\* FailedDepth is a place of active_scopes, or 0.
LEMMA FailedDepthPlace ==
    ASSUME IInv, NEW t \in Task, FailedDepth(t) > 0
    PROVE  FailedDepth(t) \in 1..Len(activeScopes[t])
<1> DEFINE n == Len(activeScopes[t])
           I == {i \in 1..n : /\ owner[activeScopes[t][i]] = t
                              /\ FailedChildren(activeScopes[t][i]) # {}}
<1>1. n \in Nat
    BY LenProperties DEF IInv, Places
<1>2. FailedDepth(t) = IF I # {} THEN Max(I) ELSE 0
    BY DEF FailedDepth, SelectLastInSeq
<1>3. I # {} => Max(I) \in I
    BY <1>1, GreatestPlace
<1>4. I \subseteq 1..Len(activeScopes[t])
    OBVIOUS
<1> HIDE DEF I
<1>5. CASE I # {}
    BY <1>2, <1>3, <1>4, <1>5
<1>6. CASE I = {}
  <2>1. FailedDepth(t) = 0
    BY <1>2, <1>6
  <2> QED
    BY <2>1
<1> QED
    BY <1>5, <1>6

\* A task that goes on after its suspension or an unwind keeps the invariant.
LEMMA RunsKeeps ==
    ASSUME IInv, NEW t \in Task, state[t] \in Live,
           state' = [state EXCEPT ![t] = "running"],
           pending' = [pending EXCEPT ![t] = NoEvent],
           current' = t, scopeOf' = scopeOf,
           ScopesMove, ActiveMoves, UNCHANGED rootVars
    PROVE  Good
<1>1. TasksMove
    BY DEF IInv, Base, TasksMove, terminal, States, Live, Ended
<1>2. pending' = [pending EXCEPT ![t] = pending'[t]] /\ pending'[t] = NoEvent
    BY DEF IInv, Places
<1>3. NoEvent.scopes \in Seq(Entered)
    BY EmptySeq DEF NoEvent
<1>4. Runs'
    BY DEF IInv, Base, Runs
<1> QED
    BY <1>1, <1>2, <1>3, <1>4, RootKept, MoveKeeps DEF Move

\* The fail-fast unwind closes scopes of the stack, now if they are joined,
\* else through the suspension it leaves.
LEMMA UnwindingKeeps ==
    ASSUME IInv, NEW t \in Task, state[t] \in Live, NEW q, Unwinding(t, q)
    PROVE  Good
<1> DEFINE ss == activeScopes[t]
           depth == FailedDepth(t)
           tail == SubSeq(ss, depth, Len(ss))
           unwind == Reverse(tail)
           open == {s \in ToSet(unwind) : ~children_terminal(s)}
<1>1. ss \in Seq(Entered) /\ Len(ss) \in Nat
    BY LenProperties DEF IInv, Places
<1>2. depth \in 1..Len(ss)
    BY FailedDepthPlace DEF Unwinding
<1>3. unwind \in Seq(Entered)
  <2>1. \A i \in depth..Len(ss) : i \in 1..Len(ss)
    BY <1>1, <1>2
  <2>2. \A i \in depth..Len(ss) : ss[i] \in Entered
    BY <1>1, <2>1, ElementOfSeq
  <2>3. depth \in Int /\ Len(ss) \in Int
    BY <1>1, <1>2
  <2> HIDE DEF depth, ss
  <2>4. tail \in Seq(Entered)
    BY <2>2, <2>3, SubSeqProperties
  <2> QED
    BY <2>4, ReverseIn
<1>4. ToSet(unwind) \in SUBSET Entered
    BY <1>3, ToSetIn
<1>5. activeScopes' = [activeScopes EXCEPT ![t] = SubSeq(ss, 1, depth - 1)]
    BY DEF Unwinding
<1>6. SubSeq(ss, 1, depth - 1) \in Seq(Entered)
  <2>1. depth - 1 \in Int /\ depth - 1 <= Len(ss)
    BY <1>1, <1>2
  <2> HIDE DEF depth, ss
  <2> QED
    BY <1>1, <2>1, PrefixIn
<1>7. ActiveMoves /\ UNCHANGED rootVars
    BY <1>5, <1>6 DEF ActiveMoves, Unwinding
<1>8. CASE open = {}
  <2>1. finalize_close(ToSet(unwind))
    BY <1>8 DEF Unwinding
  <2>2. \A s \in ToSet(unwind) : children_terminal(s)
    BY <1>8
  <2>3. ScopesMove
    BY <1>4, <2>1, <2>2, FinalizeMoves DEF IInv
  <2>4. \/ \E W, CW, C : FailAfter(t, q, W, CW, C)
        \/ /\ state' = [state EXCEPT ![t] = "running"]
           /\ pending' = [pending EXCEPT ![t] = NoEvent]
           /\ current' = t
           /\ scopeOf' = scopeOf
    BY <1>8 DEF Unwinding
  <2>5. "failed" \in Ended /\ state[t] # "unborn"
    BY DEF Ended, Live
  <2> QED
    BY <1>7, <2>3, <2>4, <2>5, EndKeeps, RunsKeeps DEF FailAfter
<1>9. CASE ~(open = {})
  <2>1. /\ begin_close(ToSet(unwind))
        /\ UNCHANGED <<state, scopeOf, children>>
        /\ \E C : Suspend(t, ScopeClose(unwind, TRUE), C)
    BY <1>9 DEF Unwinding
  <2>2. ScopesMove
    BY <1>4, <2>1, BeginMoves DEF IInv
  <2>3. ScopeClose(unwind, TRUE).scopes = unwind
    BY DEF ScopeClose, NoEvent
  <2> HIDE DEF unwind
  <2> QED
    BY <1>3, <1>7, <2>1, <2>2, <2>3, SuspendKeeps
<1> QED
    BY <1>8, <1>9

\* An unready suspension is suspended on again.
LEMMA StepNotReadyKeeps ==
    ASSUME IInv, NEW t \in Task, state[t] # "unborn", StepNotReady(t)
    PROVE  Good
<1>1. ScopesMove /\ ActiveMoves /\ UNCHANGED rootVars
    BY NothingElse DEF StepNotReady
<1>2. pending[t].scopes \in Seq(Entered)
    BY DEF IInv, Places
<1>3. \E C : \/ FinishCancelled(t, Tail(runnable), waiters, closeWaiter, C)
             \/ /\ Suspend(t, pending[t], C)
                /\ UNCHANGED <<state, scopeOf>>
    BY DEF StepNotReady
<1> QED
    BY <1>1, <1>2, <1>3, FinishCancelledKeeps, SuspendKeeps

\* A ready suspension closes the scopes it waited for, all of them joined.
LEMMA StepRunKeeps ==
    ASSUME IInv, NEW t \in Task, state[t] \in Live, StepRun(t)
    PROVE  Good
<1> DEFINE joined == ToSet(pending[t].scopes)
<1>1. joined \in SUBSET Entered
    BY ToSetIn DEF IInv, Places
<1>2. finalize_close(joined) /\ \A s \in joined : children_terminal(s)
    BY DEF StepRun
<1>3. ScopesMove
    BY <1>1, <1>2, FinalizeMoves DEF IInv
<1>4. ActiveMoves /\ UNCHANGED rootVars
    BY DEF StepRun, ActiveMoves
<1>5. state[t] # "unborn"
    BY DEF Live
<1>6. CASE Fail(t, Tail(runnable)) \/ Raise(t, pending[t].targets, Tail(runnable))
    BY <1>3, <1>4, <1>5, <1>6, FailKeeps, RaiseKeeps
<1>7. CASE /\ state' = [state EXCEPT ![t] = "running"]
           /\ pending' = [pending EXCEPT ![t] = NoEvent]
           /\ current' = t
           /\ scopeOf' = scopeOf
    BY <1>3, <1>4, <1>7, RunsKeeps
<1> QED
    BY <1>6, <1>7 DEF StepRun

\* Every quantum the scheduler starts keeps the invariant,
LEMMA StepKeeps ==
    ASSUME IInv, NEW t \in Task, step(t)
    PROVE  Good
<1>1. state[t] \in Live /\ state[t] # "unborn"
    BY DEF step, Live
<1>2. CASE StepFailFast(t)
    BY <1>1, <1>2, UnwindingKeeps DEF StepFailFast
<1> QED
    BY <1>1, <1>2, StepCancelledKeeps, StepNotReadyKeeps, StepRunKeeps DEF step

\* and every instruction of the running task.
LEMMA InstructionKeeps ==
    ASSUME IInv, NEW t \in Task, Instruction(t)
    PROVE  Good
    BY SpawnKeeps, SpawnRefusedKeeps, ScopeBeginKeeps, ScopeEndKeeps, WaitKeeps,
       CancelKeeps, YieldKeeps, TaskEndKeeps, CatchKeeps DEF Instruction, Spawn

-----------------------------------------------------------------------------
(* The root frame.                                                         *)

\* A step of the root frame alone keeps the invariant.
LEMMA RootStays ==
    ASSUME IInv, RootUnchanged,
           rootStack' \in Seq(Entered), rootStack' # <<>>,
           rootClosing' \in Entered
    PROVE  Good
<1>1. UNCHANGED <<state, scopeOf, pending, activeScopes, scopeState, children, current>>
    BY DEF RootUnchanged, taskVars, scopeVars
<1> QED
    BY <1>1, NothingElse, GoesOn

\* The root frame remembers entered scopes.
LEMMA RootFacts ==
    ASSUME IInv
    PROVE  /\ rootStack \in Seq(Entered) /\ rootStack # <<>>
           /\ rootClosing \in Entered /\ RootScope \in Entered
           /\ Last(rootStack) \in Entered /\ Front(rootStack) \in Seq(Entered)
           /\ Len(rootStack) > 1 => Front(rootStack) # <<>>
<1>1. /\ rootStack \in Seq(Entered) /\ rootStack # <<>>
      /\ rootClosing \in Entered /\ RootScope \in Entered
    BY DEF IInv, Places
<1> QED
    BY <1>1, LastIn, FrontIn

\* SCOPE_BEGIN of the root frame.
LEMMA RootScopeBeginKeeps ==
    ASSUME IInv, RootScopeBegin
    PROVE  Good
<1>1. PICK s \in FreshScope :
          /\ scopeState' = [scopeState EXCEPT ![s] = "open"]
          /\ rootStack' = Append(rootStack, s)
    BY DEF RootScopeBegin
<1>2. s \in Scope /\ scopeState[s] = "unborn"
    BY DEF FreshScope
<1>3. EnterStep
    BY <1>1, <1>2 DEF EnterStep, RootScopeBegin, taskVars
<1>4. Entered \subseteq Entered'
    BY <1>3, EnteredGrows DEF IInv
<1>5. s \in Entered'
    BY <1>1, <1>2 DEF Entered, IInv, Base
<1>6. rootClosing' \in Entered'
    BY <1>4, RootFacts DEF RootScopeBegin
<1>7. Runs'
    BY DEF IInv, Base, Runs, RootScopeBegin, taskVars
<1>8. pending' = pending /\ activeScopes' = activeScopes
    BY DEF RootScopeBegin, taskVars
<1> HIDE DEF Entered
<1>9. rootStack' \in Seq(Entered') /\ rootStack' # <<>>
  <2>1. rootStack \in Seq(Entered')
    BY <1>4, RootFacts, SeqMonotonic
  <2> QED
    BY <1>1, <1>5, <2>1, AppendProperties
<1> QED
    BY <1>3, <1>6, <1>7, <1>8, <1>9, Assemble DEF Good

\* wait_all cancels the rest of its group.
LEMMA RootCancelGroupKeeps ==
    ASSUME IInv, RootCancelGroup
    PROVE  Good
<1>1. UNCHANGED <<state, scopeOf, pending, activeScopes, scopeState, children,
                  current, rootStack, rootClosing>>
    BY DEF RootCancelGroup
<1> QED
    BY <1>1, RootFacts, NothingElse, GoesOn

\* SCOPE_END of the root frame begins to close the innermost scope,
LEMMA RootScopeEndKeeps ==
    ASSUME IInv, RootScopeEnd
    PROVE  Good
<1>1. begin_close({Last(rootStack)}) /\ UNCHANGED children
    BY DEF RootScopeEnd
<1>2. ScopesMove
    BY <1>1, RootFacts, BeginMoves DEF IInv
<1>3. UNCHANGED <<state, scopeOf, pending, activeScopes, current>>
    BY DEF RootScopeEnd, taskVars
<1>4. rootStack' = Front(rootStack) /\ rootClosing' = Last(rootStack)
    BY DEF RootScopeEnd
<1>5. Len(rootStack) > 1
    BY DEF RootScopeEnd
<1> QED
    BY <1>2, <1>3, <1>4, <1>5, RootFacts, GoesOn DEF ActiveMoves

\* and finishes when every child has ended.
LEMMA RootScopeJoinedKeeps ==
    ASSUME IInv, RootScopeJoined
    PROVE  Good
<1>1. children_terminal(rootClosing)
    BY DEF RootScopeJoined, predicate
<1>2. finalize_close({rootClosing})
    BY DEF RootScopeJoined
<1>3. ScopesMove
    BY <1>1, <1>2, RootFacts, FinalizeMoves DEF IInv
<1>4. UNCHANGED <<state, scopeOf, pending, activeScopes, current, rootStack>>
    BY DEF RootScopeJoined, taskVars
<1>5. rootClosing' = RootScope
    BY DEF RootScopeJoined
<1> QED
    BY <1>3, <1>4, <1>5, RootFacts, GoesOn DEF ActiveMoves

\* A deadlock report gives up the wait and closes nothing.
LEMMA RootDeadlockKeeps ==
    ASSUME IInv, RootDeadlock
    PROVE  Good
<1>1. CASE RootCancelGroup
    BY <1>1, RootCancelGroupKeeps
<1>2. CASE RootUnchanged /\ rootStack' = rootStack /\ rootClosing' = RootScope
    BY <1>2, RootFacts, RootStays
<1> QED
    BY <1>1, <1>2 DEF RootDeadlock

\* The end of VirtualMachine.run begins to close the innermost scope.
LEMMA RootExitKeeps ==
    ASSUME IInv, RootExit
    PROVE  Good
<1>1. begin_close({Last(rootStack)}) /\ UNCHANGED children
    BY DEF RootExit
<1>2. ScopesMove
    BY <1>1, RootFacts, BeginMoves DEF IInv
<1>3. UNCHANGED <<state, scopeOf, pending, activeScopes, current>>
    BY DEF RootExit
<1>4. /\ rootStack' = IF Len(rootStack) > 1 THEN Front(rootStack) ELSE rootStack
      /\ rootClosing' = Last(rootStack)
    BY DEF RootExit
<1> QED
    BY <1>2, <1>3, <1>4, RootFacts, GoesOn DEF ActiveMoves

\* Every step of the root frame keeps the invariant.
LEMMA RootFrameKeeps ==
    ASSUME IInv, RootFrame
    PROVE  Good
<1>1. CASE RootSpawn
    BY <1>1, SpawnKeeps DEF RootSpawn
<1>2. CASE RootWait \/ RootWaitDone \/ RootGroupJoined \/ RootCatch
  <2>1. RootUnchanged /\ UNCHANGED <<rootStack, rootClosing>>
    BY <1>2 DEF RootWait, RootWaitDone, RootGroupJoined, RootCatch, rootVars
  <2> QED
    BY <2>1, RootFacts, RootStays
<1>3. CASE RootCancel
  <2>1. UNCHANGED <<state, scopeOf, pending, activeScopes, scopeState, children,
                    current, rootVars>>
    BY <1>3 DEF RootCancel
  <2> QED
    BY <2>1, NothingElse, RootKept, GoesOn
<1>4. CASE RootGroupFailed
    BY <1>4, RootCancelGroupKeeps DEF RootGroupFailed
<1> QED
    BY <1>1, <1>2, <1>3, <1>4, RootScopeBeginKeeps, RootScopeEndKeeps,
       RootScopeJoinedKeeps, RootDeadlockKeeps, RootExitKeeps DEF RootFrame

-----------------------------------------------------------------------------
(* The theorems.                                                           *)

\* The invariant holds when VirtualMachine.run starts.
LEMMA Initially == Init => IInv
<1> SUFFICES ASSUME Init PROVE IInv
    OBVIOUS
<1>1. RootScope \in Scope /\ scopeState[RootScope] = "open"
    BY SchedulerAssumption DEF Init, Scope, RootScope, SchedulerAssumption
<1>2. RootScope \in Entered
    BY <1>1 DEF Entered
<1>3. Base
    BY <1>1 DEF Init, Base, Runs, States, ScopeStates
<1>4. Homes
    BY DEF Init, Homes, Born
<1>5. <<>> \in Seq(Entered)
    BY EmptySeq
<1>6. <<RootScope>> \in Seq(Entered) /\ <<RootScope>> # <<>>
    BY <1>2, SingletonIn
<1>7. activeScopes = [t \in Task |-> <<>>] /\ pending = [t \in Task |-> NoEvent]
    BY DEF Init
<1>8. rootStack = <<RootScope>> /\ rootClosing = RootScope
    BY DEF Init
<1>9. NoEvent.scopes = <<>>
    BY DEF NoEvent
<1> HIDE DEF Entered
<1>10. Places
    BY <1>2, <1>5, <1>6, <1>7, <1>8, <1>9 DEF Places
<1> QED
    BY <1>3, <1>4, <1>10 DEF IInv

\* Every step keeps the invariant and is a step of structured concurrency.
LEMMA NextKeeps ==
    ASSUME IInv, [Next]_vars
    PROVE  Good
<1>1. CASE UNCHANGED vars
  <2>1. UNCHANGED <<state, scopeOf, pending, activeScopes, scopeState, children,
                    current, rootVars>>
    BY <1>1 DEF vars, taskVars, scopeVars
  <2> QED
    BY <2>1, NothingElse, RootKept, GoesOn
<1>2. CASE Next
  <2>1. CASE \E t \in Task : UnwindNext(t)
    <3>1. PICK t \in Task : current = t /\ Unwinding(t, runnable)
      BY <2>1 DEF UnwindNext
    <3>2. state[t] \in Live
      BY <3>1 DEF IInv, Base, Runs, Live, Task, Root
    <3> QED
      BY <3>1, <3>2, UnwindingKeeps
  <2> QED
    BY <1>1, <1>2, <2>1, StepKeeps, InstructionKeeps, RootFrameKeeps DEF Next, Done
<1> QED
    BY <1>1, <1>2

\* In every state of every program: the types, the running task is a spawned
\* one, a scope that may still be closed by a stack, a suspension or the root
\* frame was entered (SCOPE_BEGIN), and a scope lists every task spawned into
\* it until finalize_close drops its children.
THEOREM Inductive == Spec => []IInv
<1>1. IInv /\ [Next]_vars => IInv'
    BY NextKeeps DEF Good
<1> QED
    BY <1>1, Initially, PTL DEF Spec

\* A birth, an entry or a move keeps the closed scopes joined.
LEMMA ClosedKept ==
    ASSUME IInv, ClosedScopeJoined, Good
    PROVE  ClosedScopeJoined'
<1>1. Base /\ Homes
    BY DEF IInv
<1>2. CASE BirthStep
    BY <1>1, <1>2 DEF BirthStep, ClosedScopeJoined, Base, Born, terminal, Ended
<1>3. CASE EnterStep
    BY <1>1, <1>3 DEF EnterStep, ClosedScopeJoined, Base, Born, terminal
<1>4. CASE Move
  <2> SUFFICES ASSUME NEW t \in Born', scopeState'[scopeOf'[t]] = "closed"
               PROVE  terminal(t)'
    BY DEF ClosedScopeJoined
  <2>1. t \in Born /\ scopeOf'[t] = scopeOf[t] /\ scopeOf[t] \in Scope /\ t \in Task
    BY <1>1, <1>4 DEF Move, TasksMove, Born, Base
  <2>2. CASE scopeState[scopeOf[t]] = "closed"
    BY <1>4, <2>1, <2>2 DEF ClosedScopeJoined, Move, TasksMove
  <2>3. CASE scopeState[scopeOf[t]] # "closed"
    <3>1. children_terminal(scopeOf[t])
      BY <1>4, <2>1, <2>3 DEF Move, ScopesMove
    <3>2. t \in children[scopeOf[t]]
      BY <1>1, <2>1, <2>3 DEF Homes
    <3>3. terminal(t)
      BY <3>1, <3>2 DEF children_terminal, LiveChildren
    <3> QED
      BY <1>4, <2>1, <3>3 DEF Move, TasksMove
  <2> QED
    BY <2>2, <2>3
<1> QED
    BY <1>2, <1>3, <1>4 DEF Good

\* A closed scope was joined (Scheduler.ClosedScopeJoined): whoever closes it,
\* the SCOPE_END of a task, its resumption, a fail-fast unwind or the root
\* frame, finds every task ever spawned into it ended, because a scope keeps
\* its children until it is closed (Homes) and finalize_close is reached only
\* under children_terminal.
THEOREM ClosedIsJoined == Spec => []ClosedScopeJoined
<1>1. Init => ClosedScopeJoined
    BY DEF Init, ClosedScopeJoined, Born
<1>2. IInv /\ ClosedScopeJoined /\ [Next]_vars => ClosedScopeJoined'
    BY NextKeeps, ClosedKept
<1> QED
    BY <1>1, <1>2, Inductive, PTL DEF Spec

\* The scheduler implements structured concurrency (Scheduler.StructuredSpec):
\* under the mapping of tasks and scopes to StructuredTasks, the initial state
\* is an initial state and every step is a step of the abstract specification.
THEOREM ImplementsStructured == Spec => StructuredSpec
<1>1. Init => Structured!SInit
  <2> SUFFICES ASSUME Init PROVE Structured!SInit
    OBVIOUS
  <2>1. Born = {} /\ {t \in Task : terminal(t)} = {}
    BY DEF Init, Born, terminal, Ended
  <2> QED
    BY <2>1 DEF Init, Structured!SInit
<1>2. IInv /\ [Next]_vars => [Structured!SNext]_(Structured!svars)
    BY NextKeeps, StepIsStructured DEF Good, IInv
<1> QED
    BY <1>1, <1>2, Inductive, PTL DEF Spec, StructuredSpec, Structured!SSpec

-----------------------------------------------------------------------------
(* Who owns a scope (CompletedOwnerJoined).  A task that runs has the scopes *)
(* it opened on its stack, behind the one it was spawned into, one for each  *)
(* block its code is inside; a task that closes them has them in its         *)
(* suspension, which a failure of an outer scope may replace.  A task that   *)
(* strayed is the exception, and a suspended unwind raises a failure, which  *)
(* a handler must bring back to as many blocks as there are scopes.          *)

Accounted(s, t) ==
    \/ scopeState[s] = "closed"
    \/ state[t] \in {"failed", "cancelled"}
    \/ t \in strayed
    \/ s \in ToSet(pending[t].scopes)
    \/ \E i \in 2..Len(activeScopes[t]) : activeScopes[t][i] = s

Fits(t) == t \in strayed \/ Len(activeScopes[t]) = blocks[t] + 1

InBlocks(t) ==
    state[t] \in {"failed", "cancelled"} \/ pending[t].primary \/ Fits(t)

AtHome(t) ==
    /\ Len(activeScopes[t]) >= 1 /\ activeScopes[t][1] = scopeOf[t]
    /\ scopeOf[t] \in Entered /\ owner[scopeOf[t]] # t
    /\ InBlocks(t)
    /\ state[t] = "completed" => blocks[t] = 0 /\ pending[t] = NoEvent

OwnersSpawned == \A s \in Scope, t \in Task : owner[s] = t => t \in Born
ScopesAccounted == \A s \in Scope, t \in Task : owner[s] = t => Accounted(s, t)
TasksAtHome == \A t \in Born : AtHome(t)
BlocksCounted ==
    /\ blocks \in [Task \cup {Root} -> Nat]
    /\ \A t \in Task : state[t] = "unborn" => blocks[t] = 0
RunnerIsFree == \A t \in Task : current = t => state[t] = "running" /\ pending[t] = NoEvent

Owners ==
    /\ owner \in [Scope -> Task \cup {Root}]
    /\ OwnersSpawned /\ ScopesAccounted /\ TasksAtHome /\ RunnerIsFree
    /\ BlocksCounted

\* What completed owners are asked for.
LEMMA OwnersJoined == Owners => CompletedOwnerJoined
<1> SUFFICES ASSUME Owners, NEW s \in Scope, owner[s] # Root,
                    state[owner[s]] = "completed", owner[s] \notin strayed
             PROVE  scopeState[s] = "closed"
    BY DEF CompletedOwnerJoined
<1>1. PICK t \in Task : t = owner[s]
    BY DEF Owners
<1>2. t \in Born /\ Accounted(s, t) /\ AtHome(t)
    BY <1>1 DEF Owners, OwnersSpawned, ScopesAccounted, TasksAtHome
<1>3. blocks[t] = 0 /\ pending[t] = NoEvent
    BY <1>1, <1>2 DEF AtHome
<1>4. ~NoEvent.primary /\ NoEvent.scopes = <<>> /\ ToSet(<<>>) = {}
    BY DEF NoEvent, ToSet
<1>5. Len(activeScopes[t]) = 1 /\ s \notin ToSet(pending[t].scopes)
    BY <1>1, <1>2, <1>3, <1>4 DEF AtHome, InBlocks, Fits
<1>6. ~\E i \in 2..Len(activeScopes[t]) : activeScopes[t][i] = s
    BY <1>5
<1> QED
    BY <1>1, <1>2, <1>5, <1>6 DEF Accounted

\* Every step leaves closed what is closed, and entered what is entered.
LEMMA Onward ==
    ASSUME IInv, Good
    PROVE  /\ \A s \in Scope : scopeState[s] = "closed" => scopeState'[s] = "closed"
           /\ Entered \subseteq Entered' /\ Born \subseteq Born'
<1>1. Base /\ Homes /\ (BirthStep \/ EnterStep \/ Move)
    BY DEF IInv, Good
<1>2. \A s \in Scope : scopeState[s] = "closed" => scopeState'[s] = "closed"
    BY <1>1 DEF BirthStep, EnterStep, Move, ScopesMove, Base
<1> QED
    BY <1>1, <1>2, EnteredGrows, StepKeepsHomes

\* A step that concerns the stack, the suspension and the state of t only.
OthersKeep(t) ==
    /\ \A u \in Task : u # t => /\ state'[u] = state[u] /\ pending'[u] = pending[u]
                                /\ activeScopes'[u] = activeScopes[u]
    /\ owner' = owner /\ scopeOf' = scopeOf /\ Born' = Born
    /\ blocks' \in [Task \cup {Root} -> Nat] /\ strayed \subseteq strayed'
    /\ \A u \in Task : u # t => blocks'[u] = blocks[u]

\* What such a step leaves of the task itself.
LeavesWell(t) ==
    /\ Len(activeScopes'[t]) >= 1 /\ activeScopes'[t][1] = activeScopes[t][1]
    /\ InBlocks(t)'
    /\ state'[t] = "completed" => blocks'[t] = 0 /\ pending'[t] = NoEvent
    /\ \A s \in Scope : owner[s] = t => Accounted(s, t)'
    /\ \A u \in Task : current' = u =>
            u = t /\ state'[t] = "running" /\ pending'[t] = NoEvent

LEMMA OneTaskOwns ==
    ASSUME IInv, Good, Owners, NEW t \in Born, OthersKeep(t), LeavesWell(t)
    PROVE  Owners'
<1>0. t \in Task
    BY DEF Born
<1>1. /\ \A s \in Scope : scopeState[s] = "closed" => scopeState'[s] = "closed"
      /\ Entered \subseteq Entered'
    BY Onward
<1>2. /\ owner' = owner /\ scopeOf' = scopeOf /\ Born' = Born
      /\ \A u \in Task : u # t => /\ state'[u] = state[u] /\ pending'[u] = pending[u]
                                  /\ activeScopes'[u] = activeScopes[u]
                                  /\ blocks'[u] = blocks[u]
      /\ blocks' \in [Task \cup {Root} -> Nat] /\ strayed \subseteq strayed'
    BY DEF OthersKeep
<1>3. owner' \in [Scope -> Task \cup {Root}] /\ OwnersSpawned'
    BY <1>2 DEF Owners, OwnersSpawned
<1>4. ASSUME NEW s \in Scope, NEW u \in Task, owner[s] = u PROVE Accounted(s, u)'
  <2>1. CASE u = t
    BY <1>4, <2>1 DEF LeavesWell
  <2>2. CASE u # t
    <3>1. Accounted(s, u)
      BY <1>4 DEF Owners, ScopesAccounted
    <3>2. /\ state'[u] = state[u] /\ pending'[u] = pending[u]
          /\ activeScopes'[u] = activeScopes[u]
      BY <1>2, <2>2
    <3> QED
      BY <1>1, <1>2, <3>1, <3>2 DEF Accounted
  <2> QED
    BY <2>1, <2>2
<1>5. ASSUME NEW u \in Born PROVE AtHome(u)'
  <2>1. u \in Task /\ AtHome(u)
    BY DEF Born, Owners, TasksAtHome
  <2>2. CASE u = t
    BY <1>1, <1>2, <2>1, <2>2 DEF AtHome, LeavesWell
  <2>3. CASE u # t
    <3>1. /\ state'[u] = state[u] /\ pending'[u] = pending[u]
          /\ activeScopes'[u] = activeScopes[u] /\ blocks'[u] = blocks[u]
      BY <1>2, <2>1, <2>3
    <3> QED
      BY <1>1, <1>2, <2>1, <3>1 DEF AtHome, InBlocks, Fits
  <2> QED
    BY <2>2, <2>3
<1>6. ScopesAccounted'
    BY <1>2, <1>4 DEF ScopesAccounted
<1>7. TasksAtHome'
    BY <1>2, <1>5 DEF TasksAtHome
<1>8. RunnerIsFree'
    BY DEF RunnerIsFree, LeavesWell
<1>9. BlocksCounted'
  <2>1. \A u \in Task : state'[u] = "unborn" => u # t /\ state[u] = "unborn"
    BY <1>2 DEF Born
  <2> QED
    BY <1>2, <2>1 DEF BlocksCounted, Owners
<1> QED
    BY <1>3, <1>6, <1>7, <1>8, <1>9 DEF Owners

\* A step that touches no task, no stack and the code of no task.
BlocksStay ==
    /\ blocks' \in [Task \cup {Root} -> Nat] /\ strayed \subseteq strayed'
    /\ \A u \in Task : blocks'[u] = blocks[u]

LEMMA BlocksAlone ==
    ASSUME Owners, UNCHANGED blockVars
    PROVE  BlocksStay
    BY DEF Owners, BlocksCounted, BlocksStay, blockVars

LEMMA AllStay ==
    ASSUME IInv, Good, Owners,
           UNCHANGED <<state, pending, activeScopes, owner, scopeOf>>,
           BlocksStay, current' = Root \/ current' = current
    PROVE  Owners'
<1>1. /\ \A s \in Scope : scopeState[s] = "closed" => scopeState'[s] = "closed"
      /\ Entered \subseteq Entered'
    BY Onward
<1>2. /\ state' = state /\ pending' = pending /\ activeScopes' = activeScopes
      /\ owner' = owner /\ scopeOf' = scopeOf
      /\ blocks' \in [Task \cup {Root} -> Nat] /\ strayed \subseteq strayed'
      /\ \A u \in Task : blocks'[u] = blocks[u]
    BY DEF BlocksStay
<1>3. Born' = Born
    BY <1>2 DEF Born
<1>4. ScopesAccounted'
  <2> SUFFICES ASSUME NEW s \in Scope, NEW u \in Task, owner[s] = u PROVE Accounted(s, u)'
    BY <1>2 DEF ScopesAccounted
  <2>1. Accounted(s, u)
    BY DEF Owners, ScopesAccounted
  <2> QED
    BY <1>1, <1>2, <2>1 DEF Accounted
<1>5. TasksAtHome'
  <2> SUFFICES ASSUME NEW u \in Born PROVE AtHome(u)'
    BY <1>3 DEF TasksAtHome
  <2>1. AtHome(u)
    BY DEF Owners, TasksAtHome
  <2>2. u \in Task
    BY DEF Born
  <2> QED
    BY <1>1, <1>2, <2>1, <2>2 DEF AtHome, InBlocks, Fits
<1>6. RunnerIsFree'
  <2>1. Root \notin Task
    BY DEF Root, Task
  <2> QED
    BY <1>2, <2>1 DEF Owners, RunnerIsFree
<1>7. BlocksCounted'
    BY <1>2 DEF BlocksCounted, Owners
<1> QED
    BY <1>2, <1>3, <1>4, <1>5, <1>6, <1>7 DEF Owners, OwnersSpawned

\* The stack a step leaves: of t only, with the scope t was spawned into below,
\* as with its code and the blocks that is inside.
StackKept(t) ==
    /\ activeScopes' = [activeScopes EXCEPT ![t] = activeScopes'[t]]
    /\ Len(activeScopes'[t]) >= 1 /\ activeScopes'[t][1] = activeScopes[t][1]
    /\ blocks' = [blocks EXCEPT ![t] = blocks'[t]] /\ blocks'[t] \in Nat
    /\ strayed \subseteq strayed'

\* Where a handler takes the code of a task.
LEMMA CaughtFits ==
    ASSUME Owners, NEW t \in Task, NEW ss, NEW lost, Caught(t, ss, lost)
    PROVE  /\ blocks' = [blocks EXCEPT ![t] = blocks'[t]] /\ blocks'[t] \in Nat
           /\ strayed \subseteq strayed'
           /\ t \in strayed' \/ (Len(ss) = blocks'[t] + 1 /\ ~lost)
<1>1. PICK c \in 0..blocks[t] :
          /\ blocks' = [blocks EXCEPT ![t] = c]
          /\ Stray(t, lost \/ Len(ss) # c + 1)
    BY DEF Caught
<1>2. blocks'[t] = c
    BY <1>1 DEF Owners, BlocksCounted
<1>3. strayed' = IF lost \/ Len(ss) # c + 1 THEN strayed \cup ({t} \cap Task) ELSE strayed
    BY <1>1 DEF Stray
<1>4. c \in Nat
    BY DEF Owners, BlocksCounted, Root
<1>5. blocks' = [blocks EXCEPT ![t] = blocks'[t]] /\ blocks'[t] \in Nat
    BY <1>1, <1>2, <1>4
<1>6. CASE lost \/ Len(ss) # c + 1
    BY <1>3, <1>5, <1>6
<1>7. CASE ~(lost \/ Len(ss) # c + 1)
    BY <1>2, <1>3, <1>5, <1>7
<1> QED
    BY <1>6, <1>7

\* A step that leaves every stack alone leaves that of a spawned task well.
LEMMA SameStack ==
    ASSUME IInv, Owners, NEW t \in Born, activeScopes' = activeScopes,
           UNCHANGED blockVars
    PROVE  StackKept(t)
<1>1. t \in Task
    BY DEF Born
<1> QED
    BY <1>1 DEF Owners, TasksAtHome, AtHome, StackKept, IInv, Places, BlocksCounted, blockVars

\* What the blocks of the tasks are after such a step.
LEMMA OthersInBlocks ==
    ASSUME Owners, NEW t \in Task, StackKept(t)
    PROVE  /\ blocks' \in [Task \cup {Root} -> Nat] /\ strayed \subseteq strayed'
           /\ \A u \in Task : u # t => blocks'[u] = blocks[u]
    BY DEF StackKept, Owners, BlocksCounted

\* A task that fails or is cancelled owes its scopes nothing any more.
LEMMA EndOwns ==
    ASSUME IInv, Good, Owners, NEW t \in Born, NEW outcome \in {"failed", "cancelled"},
           NEW q, NEW W, NEW CW, NEW C, _finish(t, outcome, q, W, CW, C), StackKept(t)
    PROVE  Owners'
<1>1. /\ state' = [state EXCEPT ![t] = outcome] /\ scopeOf' = scopeOf
      /\ current' = Root /\ pending' = [pending EXCEPT ![t] = NoEvent] /\ owner' = owner
    BY DEF _finish
<1>2. t \in Task /\ state[t] # "unborn" /\ state \in [Task -> States]
      /\ pending = [u \in Task |-> pending[u]] /\ Root \notin Task
      /\ activeScopes = [u \in Task |-> activeScopes[u]]
    BY DEF Born, IInv, Base, Places, Root, Task
<1>3. state'[t] = outcome
    BY <1>1, <1>2
<1>4. Born' = Born
    BY <1>1, <1>2 DEF Born
<1>5. OthersKeep(t)
    BY <1>1, <1>2, <1>4, OthersInBlocks DEF OthersKeep, StackKept
<1>6. \A s \in Scope : Accounted(s, t)'
    BY <1>3 DEF Accounted
<1>7. LeavesWell(t)
    BY <1>1, <1>2, <1>3, <1>6 DEF LeavesWell, StackKept, InBlocks
<1> QED
    BY <1>2, <1>5, <1>7, OneTaskOwns

\* As Fail, as FinishCancelled and as what a wait raises.
LEMMA WaysToEnd ==
    ASSUME IInv, Good, Owners, NEW t \in Born, StackKept(t),
           NEW q, NEW W, NEW CW, NEW C, NEW T,
           \/ Fail(t, q) \/ Raise(t, T, q)
           \/ FinishCancelled(t, q, W, CW, C) \/ FailAfter(t, q, W, CW, C)
    PROVE  Owners'
<1>1. CASE FinishCancelled(t, q, W, CW, C)
    BY <1>1, EndOwns DEF FinishCancelled
<1>2. CASE FailAfter(t, q, W, CW, C)
    BY <1>2, EndOwns DEF FailAfter
<1>3. CASE Fail(t, q)
    BY <1>3, EndOwns DEF Fail, FailAfter
<1>4. CASE Raise(t, T, q)
  <2>1. CASE Fail(t, q)
    BY <2>1, <1>3, EndOwns DEF Fail, FailAfter
  <2>2. CASE FinishCancelled(t, q, waiters, closeWaiter, <<>>)
    BY <2>2, EndOwns DEF FinishCancelled
  <2> QED
    BY <1>4, <2>1, <2>2 DEF Raise
<1> QED
    BY <1>1, <1>2, <1>3, <1>4

\* A task that is suspended: its scopes are on the stack it keeps, closed, or
\* in the suspension, unless it strayed.
LEMMA SuspendOwns ==
    ASSUME IInv, Good, Owners, NEW t \in Born, state[t] \in Live, NEW event, NEW C,
           Suspend(t, event, C), UNCHANGED <<state, scopeOf, owner>>, StackKept(t),
           event.primary \/ Fits(t)',
           \/ t \in strayed'
           \/ \A s \in Scope : owner[s] = t =>
                 \/ scopeState'[s] = "closed"
                 \/ s \in ToSet(event.scopes)
                 \/ \E i \in 2..Len(activeScopes'[t]) : activeScopes'[t][i] = s
    PROVE  Owners'
<1>1. pending' = [pending EXCEPT ![t] = event] /\ current' = Root
    BY DEF Suspend
<1>2. t \in Task /\ pending = [u \in Task |-> pending[u]] /\ Root \notin Task
      /\ activeScopes = [u \in Task |-> activeScopes[u]]
    BY DEF Born, IInv, Places, Root, Task
<1>3. pending'[t] = event /\ state'[t] # "completed"
    BY <1>1, <1>2 DEF Live
<1>4. OthersKeep(t)
    BY <1>1, <1>2, OthersInBlocks DEF OthersKeep, StackKept, Born
<1>5. \A s \in Scope : owner[s] = t => Accounted(s, t)'
    BY <1>3 DEF Accounted
<1>6. LeavesWell(t)
    BY <1>1, <1>2, <1>3, <1>5 DEF LeavesWell, StackKept, InBlocks
<1> QED
    BY <1>2, <1>4, <1>6, OneTaskOwns

\* A suspending instruction of a running task, cancelled on the spot or not.
LEMMA EndQuantumOwns ==
    ASSUME IInv, Good, Owners, NEW t \in Born, state[t] \in Live, NEW event,
           NEW W, NEW CW, EndQuantum(t, event, W, CW), StackKept(t), Fits(t)',
           \/ t \in strayed'
           \/ \A s \in Scope : owner[s] = t =>
                 \/ scopeState'[s] = "closed"
                 \/ s \in ToSet(event.scopes)
                 \/ \E i \in 2..Len(activeScopes'[t]) : activeScopes'[t][i] = s
    PROVE  Owners'
<1>1. CASE cancelReq[t]
    BY <1>1, EndOwns DEF EndQuantum, FinishCancelled
<1>2. CASE ~cancelReq[t]
    BY <1>2, SuspendOwns DEF EndQuantum
<1> QED
    BY <1>1, <1>2

\* The running task: its scopes are closed or on its stack, unless it strayed.
LEMMA RunnerOwns ==
    ASSUME IInv, Owners, NEW t \in Task, current = t
    PROVE  /\ t \in Born /\ state[t] = "running" /\ pending[t] = NoEvent /\ Fits(t)
           /\ t \in strayed \/ \A s \in Scope : owner[s] = t =>
                 \/ scopeState[s] = "closed"
                 \/ \E i \in 2..Len(activeScopes[t]) : activeScopes[t][i] = s
<1>1. t \in Born
    BY RunningIsBorn
<1>2. state[t] = "running" /\ pending[t] = NoEvent
    BY DEF Owners, RunnerIsFree
<1>3. ~NoEvent.primary /\ NoEvent.scopes = <<>> /\ ToSet(<<>>) = {}
    BY DEF NoEvent, ToSet
<1>4. \A s \in Scope : owner[s] = t => Accounted(s, t)
    BY DEF Owners, ScopesAccounted
<1>5. Fits(t)
    BY <1>1, <1>2, <1>3 DEF Owners, TasksAtHome, AtHome, InBlocks
<1> QED
    BY <1>1, <1>2, <1>3, <1>4, <1>5 DEF Accounted

\* SPAWN_CALL: a task that is born owns nothing, and starts in the scope it is
\* spawned into, which somebody else opened.
LEMMA SpawnOwns ==
    ASSUME IInv, Good, Owners, NEW c \in Fresh, NEW s \in Scope, spawn(c, s),
           current' = current, UNCHANGED blockVars
    PROVE  Owners'
<1>1. /\ c \in Task /\ state[c] = "unborn" /\ scopeState[s] = "open"
      /\ state' = [state EXCEPT ![c] = "pending"]
      /\ scopeOf' = [scopeOf EXCEPT ![c] = s]
      /\ activeScopes' = [activeScopes EXCEPT ![c] = <<s>>]
      /\ pending' = pending /\ scopeState' = scopeState /\ owner' = owner
      /\ blocks' = blocks /\ strayed' = strayed
    BY DEF Fresh, spawn, Spawned, blockVars
<1>2. /\ state \in [Task -> States] /\ scopeOf \in [Task -> Scope]
      /\ activeScopes = [u \in Task |-> activeScopes[u]]
    BY DEF IInv, Base, Places
<1>3. Born' = Born \cup {c} /\ c \notin Born
    BY <1>1, <1>2 DEF Born
<1>4. Entered' = Entered /\ s \in Entered
    BY <1>1 DEF Entered
<1>5. \A r \in Scope : owner[r] # c
    BY <1>1, <1>3 DEF Owners, OwnersSpawned
<1>6. \A u \in Task : u # c => /\ state'[u] = state[u] /\ scopeOf'[u] = scopeOf[u]
                               /\ activeScopes'[u] = activeScopes[u]
    BY <1>1, <1>2
<1>7. OwnersSpawned'
    BY <1>1, <1>3 DEF Owners, OwnersSpawned
<1>8. ScopesAccounted'
  <2> SUFFICES ASSUME NEW r \in Scope, NEW u \in Task, owner[r] = u PROVE Accounted(r, u)'
    BY <1>1 DEF ScopesAccounted
  <2>1. Accounted(r, u) /\ u # c
    BY <1>5 DEF Owners, ScopesAccounted
  <2>2. state'[u] = state[u] /\ activeScopes'[u] = activeScopes[u]
    BY <1>6, <2>1
  <2> QED
    BY <1>1, <2>1, <2>2 DEF Accounted
<1>9. ASSUME NEW u \in Born PROVE AtHome(u)'
  <2>1. AtHome(u) /\ u \in Task /\ u # c
    BY <1>3 DEF Owners, TasksAtHome, Born
  <2>2. /\ state'[u] = state[u] /\ scopeOf'[u] = scopeOf[u]
        /\ activeScopes'[u] = activeScopes[u]
    BY <1>6, <2>1
  <2> QED
    BY <1>1, <1>4, <2>1, <2>2 DEF AtHome, InBlocks, Fits
<1>10. AtHome(c)'
  <2>1. activeScopes'[c] = <<s>> /\ scopeOf'[c] = s /\ state'[c] = "pending"
    BY <1>1, <1>2
  <2>2. Len(<<s>>) = 1 /\ <<s>>[1] = s
    OBVIOUS
  <2>3. blocks[c] = 0
    BY <1>1 DEF Owners, BlocksCounted
  <2> QED
    BY <1>1, <1>4, <1>5, <2>1, <2>2, <2>3 DEF AtHome, InBlocks, Fits
<1>11. TasksAtHome'
    BY <1>3, <1>9, <1>10 DEF TasksAtHome
<1>12. RunnerIsFree'
  <2> SUFFICES ASSUME NEW u \in Task, current = u
               PROVE  state'[u] = "running" /\ pending'[u] = NoEvent
    BY DEF RunnerIsFree
  <2>1. state[u] = "running" /\ pending[u] = NoEvent
    BY DEF Owners, RunnerIsFree
  <2> QED
    BY <1>1, <1>6, <2>1
<1>13. BlocksCounted'
    BY <1>1, <1>2, <1>6 DEF Owners, BlocksCounted
<1> QED
    BY <1>1, <1>7, <1>8, <1>11, <1>12, <1>13 DEF Owners

\* A scope nobody entered is neither home to a task nor owned by anyone it
\* would be taken from: whoever enters it may become its owner.
LEMMA EnterKeepsHome ==
    ASSUME IInv, Good, Owners, NEW s \in Scope, scopeState[s] = "unborn",
           NEW o \in Task \cup {Root}, owner' = [owner EXCEPT ![s] = o],
           UNCHANGED <<state, pending, scopeOf>>,
           \A u \in Born : /\ Len(activeScopes'[u]) >= 1
                           /\ activeScopes'[u][1] = activeScopes[u][1]
                           /\ InBlocks(u)'
                           /\ state[u] = "completed" => blocks'[u] = 0
    PROVE  TasksAtHome' /\ owner' \in [Scope -> Task \cup {Root}]
<1>1. Entered \subseteq Entered' /\ s \notin Entered
    BY Onward DEF Entered
<1>2. owner \in [Scope -> Task \cup {Root}] /\ scopeOf \in [Task -> Scope]
    BY DEF Owners, IInv, Base
<1>3. Born' = Born /\ state' = state /\ pending' = pending /\ scopeOf' = scopeOf
    BY DEF Born
<1>4. ASSUME NEW u \in Born PROVE AtHome(u)'
  <2>1. AtHome(u) /\ u \in Task
    BY DEF Owners, TasksAtHome, Born
  <2>2. scopeOf[u] # s /\ scopeOf[u] \in Scope
    BY <1>1, <1>2, <2>1 DEF AtHome
  <2>3. owner'[scopeOf[u]] = owner[scopeOf[u]]
    BY <1>2, <2>2
  <2> QED
    BY <1>1, <1>3, <2>1, <2>3 DEF AtHome
<1> QED
    BY <1>2, <1>3, <1>4 DEF TasksAtHome

\* SCOPE_BEGIN puts the scope on the stack of the task that owns it.
LEMMA ScopeBeginOwns ==
    ASSUME IInv, Good, Owners, NEW t \in Task, ScopeBegin(t)
    PROVE  Owners'
<1>1. PICK s \in FreshScope :
          /\ scopeState' = [scopeState EXCEPT ![s] = "open"]
          /\ owner' = [owner EXCEPT ![s] = t]
          /\ activeScopes' = [activeScopes EXCEPT ![t] = Append(@, s)]
    BY DEF ScopeBegin
<1>2. /\ current = t /\ current' = current /\ state' = state /\ scopeOf' = scopeOf
      /\ pending' = pending /\ blocks' = [blocks EXCEPT ![t] = @ + 1]
      /\ strayed' = strayed
    BY DEF ScopeBegin, taskVars
<1>3. s \in Scope /\ scopeState[s] = "unborn" /\ t \in Born
    BY <1>2, RunningIsBorn DEF FreshScope
<1>4. state[t] = "running" /\ Fits(t)
    BY <1>2, RunnerOwns
<1>13. /\ blocks' \in [Task \cup {Root} -> Nat] /\ blocks'[t] = blocks[t] + 1
       /\ \A u \in Task : u # t => blocks'[u] = blocks[u]
    BY <1>2 DEF Owners, BlocksCounted
<1> DEFINE ss == activeScopes[t]
<1>5. /\ ss \in Seq(Entered) /\ activeScopes \in [Task -> Seq(Entered)]
      /\ Len(ss) \in Nat /\ Len(ss) >= 1
    BY <1>3, LenProperties DEF IInv, Places, Owners, TasksAtHome, AtHome
<1>6. /\ activeScopes'[t] = Append(ss, s)
      /\ \A u \in Task : u # t => activeScopes'[u] = activeScopes[u]
    BY <1>1, <1>5
<1>7. /\ Len(Append(ss, s)) = Len(ss) + 1 /\ Append(ss, s)[Len(ss) + 1] = s
      /\ \A i \in 1..Len(ss) : Append(ss, s)[i] = ss[i]
  <2>1. s \in Scope /\ ss \in Seq(Scope)
    <3>1. \A r \in Seq(Entered) : r \in Seq(Scope)
      BY SeqMonotonic DEF Entered
    <3> QED
      BY <1>3, <1>5, <3>1
  <2> HIDE DEF ss
  <2> QED
    BY <2>1, AppendProperties
<1>8. TasksAtHome' /\ owner' \in [Scope -> Task \cup {Root}]
  <2>1. ASSUME NEW u \in Born
        PROVE  /\ Len(activeScopes'[u]) >= 1
               /\ activeScopes'[u][1] = activeScopes[u][1]
               /\ InBlocks(u)'
               /\ state[u] = "completed" => blocks'[u] = 0
    <3>1. CASE u = t
      <4>1. Fits(t)'
        BY <1>2, <1>4, <1>5, <1>6, <1>7, <1>13 DEF Fits, Owners, BlocksCounted
      <4> QED
        BY <1>4, <1>5, <1>6, <1>7, <3>1, <4>1 DEF InBlocks
    <3>2. CASE u # t
      <4>1. u \in Task /\ AtHome(u)
        BY DEF Owners, TasksAtHome, Born
      <4> QED
        BY <1>2, <1>6, <1>13, <3>2, <4>1 DEF AtHome, InBlocks, Fits
    <3> QED
      BY <3>1, <3>2
  <2> QED
    BY <1>1, <1>2, <1>3, <2>1, EnterKeepsHome
<1>9. \A r \in Scope : scopeState[r] = "closed" => scopeState'[r] = "closed"
    BY Onward
<1>10. ScopesAccounted'
  <2> SUFFICES ASSUME NEW r \in Scope, NEW u \in Task, owner'[r] = u PROVE Accounted(r, u)'
    BY DEF ScopesAccounted
  <2>1. owner \in [Scope -> Task \cup {Root}]
    BY DEF Owners
  <2>2. CASE r = s
    <3>1. u = t
      BY <1>1, <1>3, <2>1, <2>2
    <3>2. Len(ss) + 1 \in 2..Len(activeScopes'[t]) /\ activeScopes'[t][Len(ss) + 1] = s
      BY <1>5, <1>6, <1>7
    <3> QED
      BY <2>2, <3>1, <3>2 DEF Accounted
  <2>3. CASE r # s
    <3>1. Accounted(r, u)
      BY <1>1, <2>1, <2>3 DEF Owners, ScopesAccounted
    <3>2. CASE u # t
      BY <1>2, <1>6, <1>9, <3>1, <3>2 DEF Accounted
    <3>3. CASE u = t
      <4>1. \A i \in 2..Len(ss) : i \in 2..Len(activeScopes'[t]) /\ activeScopes'[t][i] = ss[i]
        BY <1>5, <1>6, <1>7
      <4> QED
        BY <1>2, <1>9, <3>1, <3>3, <4>1 DEF Accounted
    <3> QED
      BY <3>2, <3>3
  <2> QED
    BY <2>2, <2>3
<1>11. RunnerIsFree'
    BY <1>2 DEF Owners, RunnerIsFree
<1>12. OwnersSpawned'
    BY <1>1, <1>2, <1>3 DEF Owners, OwnersSpawned, Born
<1>14. BlocksCounted'
    BY <1>2, <1>4, <1>13 DEF Owners, BlocksCounted
<1> QED
    BY <1>8, <1>10, <1>11, <1>12, <1>14 DEF Owners

\* SCOPE_BEGIN of the root frame gives no task a scope.
LEMMA RootScopeBeginOwns ==
    ASSUME IInv, Good, Owners, RootScopeBegin
    PROVE  Owners'
<1>1. PICK s \in FreshScope : owner' = [owner EXCEPT ![s] = Root]
    BY DEF RootScopeBegin
<1>2. /\ current' = current /\ state' = state /\ scopeOf' = scopeOf
      /\ pending' = pending /\ activeScopes' = activeScopes
      /\ blocks' = [blocks EXCEPT ![Root] = @ + 1] /\ strayed' = strayed
    BY DEF RootScopeBegin, taskVars
<1>9. blocks' \in [Task \cup {Root} -> Nat] /\ \A u \in Task : blocks'[u] = blocks[u]
    BY <1>2 DEF Owners, BlocksCounted, Root, Task
<1>3. s \in Scope /\ scopeState[s] = "unborn"
    BY DEF FreshScope
<1>4. TasksAtHome' /\ owner' \in [Scope -> Task \cup {Root}]
  <2>1. \A u \in Born : u \in Task /\ AtHome(u)
    BY DEF Owners, TasksAtHome, Born
  <2>2. ASSUME NEW u \in Born
        PROVE  /\ Len(activeScopes'[u]) >= 1
               /\ activeScopes'[u][1] = activeScopes[u][1]
               /\ InBlocks(u)'
               /\ state[u] = "completed" => blocks'[u] = 0
    BY <1>2, <1>9, <2>1 DEF AtHome, InBlocks, Fits
  <2> QED
    BY <1>1, <1>2, <1>3, <2>2, EnterKeepsHome
<1>5. \A r \in Scope, u \in Task : owner'[r] = u => owner[r] = u
    BY <1>1, <1>3 DEF Owners, Task, Root
<1>6. \A r \in Scope : scopeState[r] = "closed" => scopeState'[r] = "closed"
    BY Onward
<1>7. ScopesAccounted'
  <2> SUFFICES ASSUME NEW r \in Scope, NEW u \in Task, owner'[r] = u PROVE Accounted(r, u)'
    BY DEF ScopesAccounted
  <2>1. Accounted(r, u)
    BY <1>5 DEF Owners, ScopesAccounted
  <2> QED
    BY <1>2, <1>6, <2>1 DEF Accounted
<1>8. OwnersSpawned' /\ RunnerIsFree'
    BY <1>2, <1>5 DEF Owners, OwnersSpawned, RunnerIsFree, Born
<1>10. BlocksCounted'
    BY <1>2, <1>9 DEF Owners, BlocksCounted
<1> QED
    BY <1>4, <1>7, <1>8, <1>10 DEF Owners

\* SCOPE_END closes the innermost scope at once, or leaves it in the suspension.
LEMMA ScopeEndOwns ==
    ASSUME IInv, Good, Owners, NEW t \in Task, ScopeEnd(t)
    PROVE  Owners'
<1> DEFINE ss == activeScopes[t]
           last == Last(ss)
           event == ScopeClose(<<last>>, FALSE)
<1>1. /\ t \in Born /\ state[t] = "running" /\ pending[t] = NoEvent /\ Fits(t)
      /\ t \in strayed \/ \A s \in Scope : owner[s] = t =>
            \/ scopeState[s] = "closed"
            \/ \E i \in 2..Len(ss) : ss[i] = s
    BY RunnerOwns DEF ScopeEnd
<1>2. /\ ss \in Seq(Entered) /\ Len(ss) \in Nat /\ Len(ss) > 1
      /\ activeScopes \in [Task -> Seq(Entered)]
    BY LenProperties DEF IInv, Places, ScopeEnd
<1>3. activeScopes'[t] = Front(ss)
    BY <1>2 DEF ScopeEnd
<1>4. /\ Len(Front(ss)) = Len(ss) - 1
      /\ \A i \in 1..(Len(ss) - 1) : Front(ss)[i] = ss[i]
  <2>1. \A i \in 1..(Len(ss) - 1) : ss[i] \in Entered
    BY <1>2, ElementOfSeq
  <2>2. Len(ss) - 1 \in Int /\ 1 \in Int
    BY <1>2
  <2> HIDE DEF ss
  <2>3. /\ Len(SubSeq(ss, 1, Len(ss) - 1)) =
              IF 1 <= Len(ss) - 1 THEN Len(ss) - 1 - 1 + 1 ELSE 0
        /\ \A i \in 1..(Len(ss) - 1 - 1 + 1) : SubSeq(ss, 1, Len(ss) - 1)[i] = ss[1 + i - 1]
    BY <2>1, <2>2, SubSeqProperties
  <2> QED
    BY <1>2, <2>3 DEF Front
<1>12. /\ blocks' = [blocks EXCEPT ![t] = blocks'[t]] /\ blocks'[t] = blocks[t] - 1
       /\ blocks[t] \in Nat /\ blocks'[t] \in Nat /\ strayed' = strayed
  <2>1. blocks' = [blocks EXCEPT ![t] = blocks[t] - 1] /\ blocks[t] > 0 /\ strayed' = strayed
    BY DEF ScopeEnd
  <2> QED
    BY <2>1 DEF Owners, BlocksCounted
<1>13. Fits(t)'
    BY <1>1, <1>2, <1>3, <1>4, <1>12 DEF Fits
<1>5. StackKept(t)
  <2>1. activeScopes' = [activeScopes EXCEPT ![t] = activeScopes'[t]]
    BY <1>2 DEF ScopeEnd
  <2> HIDE DEF ss
  <2>2. Len(Front(ss)) >= 1 /\ Front(ss)[1] = ss[1]
    BY <1>2, <1>4
  <2> QED
    BY <1>3, <1>12, <2>1, <2>2 DEF StackKept, ss
<1>6. last = ss[Len(ss)] /\ last \in Scope
    BY <1>2, ElementOfSeq DEF Last, Entered
<1>7. ASSUME t \notin strayed, NEW s \in Scope, owner[s] = t
      PROVE  \/ scopeState[s] = "closed"
             \/ s = last
             \/ \E i \in 2..Len(activeScopes'[t]) : activeScopes'[t][i] = s
  <2>1. CASE scopeState[s] = "closed"
    BY <2>1
  <2>2. CASE \E i \in 2..Len(ss) : ss[i] = s
    <3>1. PICK i \in 2..Len(ss) : ss[i] = s
      BY <2>2
    <3>2. CASE i = Len(ss)
      BY <1>6, <3>1, <3>2
    <3>3. CASE i # Len(ss)
      <4>1. i \in 2..(Len(ss) - 1) /\ i \in 1..(Len(ss) - 1)
        BY <1>2, <3>1, <3>3
      <4> QED
        BY <1>3, <1>4, <3>1, <4>1
    <3> QED
      BY <3>2, <3>3
  <2> QED
    BY <1>1, <1>7, <2>1, <2>2
<1>8. state[t] \in Live /\ ~NoEvent.primary /\ NoEvent.scopes = <<>>
    BY <1>1 DEF Live, NoEvent
<1>9. \A s \in Scope : scopeState[s] = "closed" => scopeState'[s] = "closed"
    BY Onward
<1>10. CASE children_terminal(last)
  <2>1. scopeState'[last] = "closed"
    BY <1>6, <1>10 DEF ScopeEnd, finalize_close
  <2>2. CASE FailedChildren(last) # {}
    <3>1. Fail(t, runnable)
      BY <1>10, <2>2 DEF ScopeEnd
    <3> QED
      BY <1>1, <1>5, <3>1, WaysToEnd
  <2>3. CASE ~(FailedChildren(last) # {})
    <3>1. /\ state' = state /\ scopeOf' = scopeOf /\ pending' = pending
          /\ owner' = owner /\ current' = current /\ current = t
      BY <1>10, <2>3 DEF ScopeEnd, taskVars
    <3>2. OthersKeep(t)
      BY <1>2, <1>5, <3>1, OthersInBlocks DEF OthersKeep, StackKept, Born
    <3>3. \A s \in Scope : owner[s] = t => Accounted(s, t)'
      BY <1>7, <1>9, <1>12, <2>1 DEF Accounted
    <3>4. LeavesWell(t)
      BY <1>1, <1>5, <1>13, <3>1, <3>3 DEF LeavesWell, StackKept, InBlocks
    <3> QED
      BY <1>1, <3>2, <3>4, OneTaskOwns
  <2> QED
    BY <2>2, <2>3
<1>11. CASE ~children_terminal(last)
  <2>1. PICK CW : EndQuantum(t, event, waiters, CW)
    BY <1>11 DEF ScopeEnd
  <2>2. event.scopes = <<last>>
    BY DEF ScopeClose, NoEvent
  <2>3. last \in ToSet(<<last>>)
    BY <1>6, SingletonIn
  <2> HIDE DEF event, ss, last
  <2>4. t \in strayed' \/ \A s \in Scope : owner[s] = t =>
            \/ scopeState'[s] = "closed"
            \/ s \in ToSet(event.scopes)
            \/ \E i \in 2..Len(activeScopes'[t]) : activeScopes'[t][i] = s
    BY <1>7, <1>9, <1>12, <2>2, <2>3
  <2> QED
    BY <1>1, <1>5, <1>8, <1>13, <2>1, <2>4, EndQuantumOwns
<1> QED
    BY <1>10, <1>11

\* WAIT_TASK and WAIT_TASKS_VECTORISED leave the stack to the suspension.
LEMMA WaitForOwns ==
    ASSUME IInv, Good, Owners, NEW t \in Task, NEW T, NEW event, WaitFor(t, T, event)
    PROVE  Owners'
<1>1. /\ current = t /\ activeScopes' = activeScopes /\ scopeState' = scopeState
      /\ UNCHANGED blockVars /\ blocks' = blocks /\ strayed' = strayed
    BY DEF WaitFor, blockVars
<1>2. /\ t \in Born /\ state[t] = "running" /\ Fits(t)'
      /\ t \in strayed' \/ \A s \in Scope : owner[s] = t =>
            \/ scopeState'[s] = "closed"
            \/ \E i \in 2..Len(activeScopes'[t]) : activeScopes'[t][i] = s
    BY <1>1, RunnerOwns DEF Fits
<1>3. StackKept(t) /\ state[t] \in Live
    BY <1>1, <1>2, SameStack DEF Live
<1>4. CASE \A u \in T : terminal(u)
  <2>1. Raise(t, T, runnable)
    BY <1>4 DEF WaitFor
  <2> QED
    BY <1>2, <1>3, <2>1, WaysToEnd
<1>5. CASE ~(\A u \in T : terminal(u))
  <2>1. \E W : EndQuantum(t, event, W, closeWaiter)
    BY <1>5 DEF WaitFor
  <2> QED
    BY <1>2, <1>3, <2>1, EndQuantumOwns
<1> QED
    BY <1>4, <1>5

\* CANCEL_POLL, a panic, a refused spawn and the yield of a cancelled task end
\* the task without its result.
LEMMA BadEndOwns ==
    ASSUME IInv, Good, Owners, NEW t \in Task, current = t, activeScopes' = activeScopes,
           UNCHANGED blockVars,
           Fail(t, runnable) \/ FinishCancelled(t, runnable, waiters, closeWaiter, <<>>)
    PROVE  Owners'
<1>1. t \in Born
    BY RunningIsBorn
<1> QED
    BY <1>1, SameStack, WaysToEnd

\* The return comes with every block left, each closed as it was left.
LEMMA ReturnOwns ==
    ASSUME IInv, Good, Owners, NEW t \in Task, Return(t)
    PROVE  Owners'
<1>1. /\ current = t /\ blocks[t] = 0 /\ activeScopes' = activeScopes
      /\ UNCHANGED blockVars /\ blocks' = blocks /\ strayed' = strayed
      /\ state' = [state EXCEPT ![t] = "completed"] /\ scopeOf' = scopeOf
      /\ current' = Root /\ pending' = [pending EXCEPT ![t] = NoEvent] /\ owner' = owner
    BY DEF Return, Complete, _finish, blockVars
<1>2. /\ t \in Born /\ state[t] = "running" /\ Fits(t)
      /\ t \in strayed \/ \A s \in Scope : owner[s] = t => scopeState[s] = "closed"
  <2>1. t \in strayed \/ Len(activeScopes[t]) = 1
    <3>1. Fits(t)
      BY <1>1, RunnerOwns
    <3> QED
      BY <1>1, <3>1 DEF Fits
  <2> QED
    BY <1>1, <2>1, RunnerOwns
<1>3. \A s \in Scope : owner[s] = t => Accounted(s, t)'
    BY <1>1, <1>2, Onward DEF Accounted
<1>4. StackKept(t)
    BY <1>1, <1>2, SameStack
<1>5. /\ state \in [Task -> States] /\ pending = [u \in Task |-> pending[u]]
      /\ Root \notin Task
    BY DEF IInv, Base, Places, Root, Task
<1>6. pending'[t] = NoEvent /\ Born' = Born
    BY <1>1, <1>2, <1>5 DEF Born
<1>7. OthersKeep(t)
    BY <1>1, <1>2, <1>4, <1>5, <1>6, OthersInBlocks DEF OthersKeep
<1>8. LeavesWell(t)
    BY <1>1, <1>2, <1>3, <1>4, <1>5, <1>6 DEF LeavesWell, StackKept, InBlocks, Fits
<1> QED
    BY <1>2, <1>7, <1>8, OneTaskOwns

\* A caught panic takes the code to a handler, and nothing else anywhere.
LEMMA CatchOwns ==
    ASSUME IInv, Good, Owners, NEW t \in Task, Catch(t)
    PROVE  Owners'
<1>1. /\ current = t /\ Caught(t, activeScopes[t], FALSE)
      /\ state' = state /\ scopeOf' = scopeOf /\ pending' = pending
      /\ activeScopes' = activeScopes /\ owner' = owner /\ current' = current
    BY DEF Catch, taskVars, scopeVars
<1>2. /\ t \in Born /\ state[t] = "running" /\ pending[t] = NoEvent
      /\ \A s \in Scope : owner[s] = t => Accounted(s, t)
    BY <1>1, RunnerOwns DEF Owners, ScopesAccounted
<1>3. /\ blocks' = [blocks EXCEPT ![t] = blocks'[t]] /\ blocks'[t] \in Nat
      /\ strayed \subseteq strayed' /\ Fits(t)'
    BY <1>1, CaughtFits DEF Fits
<1>4. StackKept(t)
    BY <1>1, <1>2, <1>3 DEF StackKept, Owners, TasksAtHome, AtHome, IInv, Places
<1>5. OthersKeep(t)
    BY <1>1, <1>4, OthersInBlocks DEF OthersKeep, Born
<1>6. \A s \in Scope : owner[s] = t => Accounted(s, t)'
    BY <1>1, <1>2, <1>3, Onward DEF Accounted
<1>7. LeavesWell(t)
    BY <1>1, <1>2, <1>3, <1>4, <1>6 DEF LeavesWell, StackKept, InBlocks
<1> QED
    BY <1>2, <1>5, <1>7, OneTaskOwns

\* Every instruction of the running task keeps the accounts.
LEMMA InstructionOwns ==
    ASSUME IInv, Good, Owners, NEW t \in Task, Instruction(t)
    PROVE  Owners'
<1>1. CASE Spawn(t)
    BY <1>1, SpawnOwns DEF Spawn
<1>2. CASE SpawnRefused(t) \/ ScopeEndUnmatched(t) \/ CancelPoll(t) \/ Panic(t)
    BY <1>2, BadEndOwns DEF SpawnRefused, ScopeEndUnmatched, CancelPoll, Panic
<1>3. CASE Wait(t) \/ WaitGroup(t)
    BY <1>3, WaitForOwns DEF Wait, WaitGroup
<1>4. CASE Cancel(t)
    BY <1>4, AllStay, BlocksAlone DEF Cancel
<1>5. CASE Yield(t)
  <2>1. CASE cancelReq[t]
    BY <1>5, <2>1, BadEndOwns DEF Yield
  <2>2. CASE ~cancelReq[t]
    BY <1>5, <2>2, AllStay, BlocksAlone DEF Yield, taskVars
  <2> QED
    BY <2>1, <2>2
<1> QED
    BY <1>1, <1>2, <1>3, <1>4, <1>5, ScopeBeginOwns, ScopeEndOwns, ReturnOwns,
       CatchOwns
       DEF Instruction

\* FailedDepth points at a scope the task opened itself.
LEMMA FailedDepthOwned ==
    ASSUME IInv, NEW t \in Task, FailedDepth(t) > 0
    PROVE  owner[activeScopes[t][FailedDepth(t)]] = t
<1> DEFINE n == Len(activeScopes[t])
           I == {i \in 1..n : /\ owner[activeScopes[t][i]] = t
                              /\ FailedChildren(activeScopes[t][i]) # {}}
<1>1. n \in Nat
    BY LenProperties DEF IInv, Places
<1>2. FailedDepth(t) = IF I # {} THEN Max(I) ELSE 0
    BY DEF FailedDepth, SelectLastInSeq
<1>3. I # {} => Max(I) \in I
    BY <1>1, GreatestPlace
<1>4. \A i \in I : owner[activeScopes[t][i]] = t
    OBVIOUS
<1> HIDE DEF I
<1> QED
    BY <1>2, <1>3, <1>4

\* An unwind takes every scope from the failed one inwards.
LEMMA UnwindHolds ==
    ASSUME NEW S, NEW ss \in Seq(S), NEW d \in 1..Len(ss), NEW i \in d..Len(ss)
    PROVE  ss[i] \in ToSet(Reverse(SubSeq(ss, d, Len(ss))))
<1> DEFINE tail == SubSeq(ss, d, Len(ss))
           n == Len(tail)
           k == (n - ((i - d) + 1)) + 1
<1>1. Len(ss) \in Nat
    BY LenProperties
<1>2. /\ n = (Len(ss) - d) + 1 /\ tail \in Seq(S)
      /\ \A j \in 1..((Len(ss) - d) + 1) : tail[j] = ss[(d + j) - 1]
  <2>1. \A j \in d..Len(ss) : ss[j] \in S
    BY <1>1, ElementOfSeq
  <2>2. d \in Int /\ Len(ss) \in Int /\ d <= Len(ss)
    BY <1>1
  <2> QED
    BY <2>1, <2>2, SubSeqProperties
<1> HIDE DEF tail
<1>3. k \in 1..n /\ (n - k) + 1 = (i - d) + 1
    BY <1>1, <1>2
<1>4. tail[(n - k) + 1] = ss[i]
  <2>1. (i - d) + 1 \in 1..((Len(ss) - d) + 1) /\ (d + ((i - d) + 1)) - 1 = i
    BY <1>1
  <2> QED
    BY <1>2, <1>3, <2>1
<1> HIDE DEF k
<1>5. Reverse(tail)[k] = ss[i] /\ DOMAIN Reverse(tail) = 1..n
    BY <1>3, <1>4 DEF Reverse
<1> QED
    BY <1>3, <1>5 DEF ToSet, tail

\* The fail-fast unwind ends the task now or leaves a suspension, with the
\* scopes it took in it, or the task goes on in a handler and they are closed.
LEMMA UnwindingOwns ==
    ASSUME IInv, Good, Owners, NEW t \in Task, state[t] \in Live, NEW q, Unwinding(t, q)
    PROVE  Owners'
<1> DEFINE ss == activeScopes[t]
           depth == FailedDepth(t)
           unwind == Reverse(SubSeq(ss, depth, Len(ss)))
           open == {s \in ToSet(unwind) : ~children_terminal(s)}
<1>1. ss \in Seq(Entered) /\ Len(ss) \in Nat /\ activeScopes \in [Task -> Seq(Entered)]
    BY LenProperties DEF IInv, Places
<1>2. depth \in 1..Len(ss) /\ owner[ss[depth]] = t
    BY FailedDepthPlace, FailedDepthOwned DEF Unwinding
<1>3. t \in Born
    BY DEF Born, Live
<1>4. depth # 1
    BY <1>2, <1>3 DEF Owners, TasksAtHome, AtHome
<1>5. activeScopes' = [activeScopes EXCEPT ![t] = SubSeq(ss, 1, depth - 1)]
    BY DEF Unwinding
<1> DEFINE prefix == SubSeq(ss, 1, depth - 1)
           lost == pending[t].scopes # <<>>
<1>6. /\ activeScopes' = [activeScopes EXCEPT ![t] = activeScopes'[t]]
      /\ activeScopes'[t] = prefix
      /\ Len(prefix) = depth - 1 /\ Len(prefix) >= 1 /\ prefix[1] = ss[1]
      /\ \A i \in 1..(depth - 1) : prefix[i] = ss[i]
  <2>1. activeScopes' = [activeScopes EXCEPT ![t] = activeScopes'[t]]
        /\ activeScopes'[t] = SubSeq(ss, 1, depth - 1)
    BY <1>1, <1>5
  <2>2. depth - 1 \in Int /\ depth - 1 >= 1 /\ depth - 1 <= Len(ss) /\ 1 \in Int
    BY <1>1, <1>2, <1>4
  <2> HIDE DEF depth, ss
  <2>3. \A i \in 1..(depth - 1) : ss[i] \in Entered
    BY <1>1, <2>2, ElementOfSeq
  <2>4. /\ Len(SubSeq(ss, 1, depth - 1)) =
              IF 1 <= depth - 1 THEN depth - 1 - 1 + 1 ELSE 0
        /\ \A i \in 1..(depth - 1 - 1 + 1) : SubSeq(ss, 1, depth - 1)[i] = ss[1 + i - 1]
    BY <2>2, <2>3, SubSeqProperties
  <2>5. /\ Len(prefix) = depth - 1 /\ Len(prefix) >= 1 /\ prefix[1] = ss[1]
        /\ \A i \in 1..(depth - 1) : prefix[i] = ss[i]
    BY <2>2, <2>4
  <2> QED
    BY <2>1, <2>5 DEF ss
<1>9. ASSUME t \notin strayed, ~lost, NEW s \in Scope, owner[s] = t
      PROVE  \/ scopeState[s] = "closed"
             \/ s \in ToSet(unwind)
             \/ \E i \in 2..Len(activeScopes'[t]) : activeScopes'[t][i] = s
  <2>1. Accounted(s, t) /\ s \notin ToSet(pending[t].scopes)
    <3>1. ToSet(<<>>) = {}
      BY DEF ToSet
    <3> QED
      BY <1>9, <3>1 DEF Owners, ScopesAccounted
  <2>2. SUFFICES ASSUME NEW i \in 2..Len(ss), ss[i] = s
                 PROVE  \/ s \in ToSet(unwind)
                        \/ \E j \in 2..Len(activeScopes'[t]) : activeScopes'[t][j] = s
    BY <1>9, <2>1 DEF Accounted, Live
  <2> HIDE DEF depth, ss, prefix
  <2>3. CASE i < depth
    <3>1. i \in 1..(depth - 1) /\ i \in 2..Len(prefix)
      BY <1>1, <1>2, <1>6, <2>3
    <3> QED
      BY <1>6, <2>2, <3>1
  <2>4. CASE i >= depth
    <3>1. i \in depth..Len(ss)
      BY <1>1, <1>2, <2>4
    <3> QED
      BY <1>1, <1>2, <2>2, <3>1, UnwindHolds
  <2> QED
    BY <1>1, <1>2, <2>3, <2>4
<1>10. \A s \in Scope : scopeState[s] = "closed" => scopeState'[s] = "closed"
    BY Onward
<1> HIDE DEF unwind, ss, depth, prefix
<1>7. CASE open = {} /\ (\E W, CW, C : FailAfter(t, q, W, CW, C)) /\ UNCHANGED blockVars
  <2>1. StackKept(t)
    BY <1>6, <1>7 DEF StackKept, ss, Owners, BlocksCounted, blockVars
  <2> QED
    BY <1>3, <1>7, <2>1, WaysToEnd
<1>11. CASE /\ open = {} /\ finalize_close(ToSet(unwind)) /\ Caught(t, prefix, lost)
            /\ state' = [state EXCEPT ![t] = "running"]
            /\ pending' = [pending EXCEPT ![t] = NoEvent]
            /\ current' = t
            /\ UNCHANGED <<scopeOf, owner>>
  <2>1. /\ state \in [Task -> States] /\ pending = [u \in Task |-> pending[u]]
        /\ activeScopes = [u \in Task |-> activeScopes[u]]
    BY DEF IInv, Base, Places
  <2>2. state'[t] = "running" /\ pending'[t] = NoEvent
    BY <1>11, <2>1
  <2>3. /\ blocks' = [blocks EXCEPT ![t] = blocks'[t]] /\ blocks'[t] \in Nat
        /\ strayed \subseteq strayed'
        /\ t \in strayed' \/ (Len(prefix) = blocks'[t] + 1 /\ ~lost)
    BY <1>11, CaughtFits
  <2>4. StackKept(t) /\ Fits(t)'
    BY <1>6, <2>3 DEF StackKept, ss, Fits
  <2>5. Born' = Born
    BY <1>3, <1>11, <2>1 DEF Born
  <2>6. OthersKeep(t)
    BY <1>6, <1>11, <2>1, <2>4, <2>5, OthersInBlocks DEF OthersKeep
  <2>7. \A s \in ToSet(unwind) : s \in Scope => scopeState'[s] = "closed"
    BY <1>11 DEF finalize_close
  <2>8. \A s \in Scope : owner[s] = t => Accounted(s, t)'
    BY <1>9, <1>10, <2>3, <2>7 DEF Accounted
  <2>9. LeavesWell(t)
    BY <1>11, <2>2, <2>4, <2>8 DEF LeavesWell, StackKept, InBlocks
  <2> QED
    BY <1>3, <2>6, <2>9, OneTaskOwns
<1>8. CASE /\ \E C : Suspend(t, ScopeClose(unwind, TRUE), C)
           /\ Stray(t, lost) /\ blocks' = blocks /\ UNCHANGED <<state, scopeOf, owner>>
  <2>1. /\ ScopeClose(unwind, TRUE).primary
        /\ ScopeClose(unwind, TRUE).scopes = unwind
    BY DEF ScopeClose, NoEvent
  <2>2. strayed \subseteq strayed' /\ (lost => t \in strayed')
    BY <1>8 DEF Stray
  <2>3. StackKept(t)
    BY <1>6, <1>8, <2>2 DEF StackKept, ss, Owners, BlocksCounted
  <2>4. t \in strayed' \/ \A s \in Scope : owner[s] = t =>
            \/ scopeState'[s] = "closed"
            \/ s \in ToSet(ScopeClose(unwind, TRUE).scopes)
            \/ \E i \in 2..Len(activeScopes'[t]) : activeScopes'[t][i] = s
    BY <1>9, <1>10, <2>1, <2>2
  <2> QED
    BY <1>3, <1>8, <2>1, <2>3, <2>4, SuspendOwns
<1> QED
    BY <1>7, <1>8, <1>11 DEF Unwinding, unwind, ss, depth, prefix

\* A suspension that is not ready is suspended on again, or cancelled.
LEMMA StepNotReadyOwns ==
    ASSUME IInv, Good, Owners, NEW t \in Task, state[t] \in Live, StepNotReady(t)
    PROVE  Owners'
<1>1. t \in Born
    BY DEF Born, Live
<1>2. /\ activeScopes' = activeScopes /\ StackKept(t)
      /\ blocks' = blocks /\ strayed' = strayed
    BY <1>1, SameStack DEF StepNotReady, blockVars
<1>7. pending[t].primary \/ Fits(t)'
    BY <1>1, <1>2 DEF Owners, TasksAtHome, AtHome, InBlocks, Fits, Live
<1>3. \A s \in Scope : owner[s] = t => Accounted(s, t)
    BY DEF Owners, ScopesAccounted
<1>4. \A s \in Scope : scopeState[s] = "closed" => scopeState'[s] = "closed"
    BY Onward
<1>5. \E C : \/ FinishCancelled(t, Tail(runnable), waiters, closeWaiter, C)
             \/ /\ Suspend(t, pending[t], C)
                /\ UNCHANGED <<state, scopeOf, owner>>
    BY DEF StepNotReady
<1>6. \/ t \in strayed'
      \/ \A s \in Scope : owner[s] = t =>
            \/ scopeState'[s] = "closed"
            \/ s \in ToSet(pending[t].scopes)
            \/ \E i \in 2..Len(activeScopes'[t]) : activeScopes'[t][i] = s
    BY <1>2, <1>3, <1>4 DEF Accounted, Live
<1> QED
    BY <1>1, <1>2, <1>5, <1>6, <1>7, WaysToEnd, SuspendOwns

\* A suspension that is ready has closed its scopes when the task goes on.
LEMMA StepRunOwns ==
    ASSUME IInv, Good, Owners, NEW t \in Task, state[t] \in Live, StepRun(t)
    PROVE  Owners'
<1>1. t \in Born
    BY DEF Born, Live
<1>2. activeScopes' = activeScopes
    BY DEF StepRun
<1>3. CASE /\ Fail(t, Tail(runnable)) \/ Raise(t, pending[t].targets, Tail(runnable))
           /\ UNCHANGED blockVars
    BY <1>1, <1>2, <1>3, SameStack, WaysToEnd
<1>4. CASE /\ \/ UNCHANGED blockVars /\ ~pending[t].primary
              \/ Caught(t, activeScopes[t], FALSE)
           /\ state' = [state EXCEPT ![t] = "running"]
           /\ pending' = [pending EXCEPT ![t] = NoEvent]
           /\ current' = t
           /\ UNCHANGED <<scopeOf, owner>>
  <2>1. /\ state \in [Task -> States] /\ pending = [u \in Task |-> pending[u]]
        /\ activeScopes = [u \in Task |-> activeScopes[u]]
    BY DEF IInv, Base, Places
  <2>2. state'[t] = "running" /\ pending'[t] = NoEvent
    BY <1>4, <2>1
  <2>3. Born' = Born
    BY <1>1, <1>4, <2>1 DEF Born
  <2>8. /\ blocks' = [blocks EXCEPT ![t] = blocks'[t]] /\ blocks'[t] \in Nat
        /\ strayed \subseteq strayed' /\ Fits(t)'
    <3>1. CASE UNCHANGED blockVars /\ ~pending[t].primary
      BY <1>1, <1>2, <3>1 DEF Owners, TasksAtHome, AtHome, InBlocks, Fits, Live,
         BlocksCounted, blockVars
    <3>2. CASE Caught(t, activeScopes[t], FALSE)
      BY <1>2, <3>2, CaughtFits DEF Fits
    <3> QED
      BY <1>4, <3>1, <3>2
  <2>9. StackKept(t)
    BY <1>1, <1>2, <2>1, <2>8 DEF StackKept, Owners, TasksAtHome, AtHome
  <2>4. OthersKeep(t)
    BY <1>2, <1>4, <2>1, <2>3, <2>9, OthersInBlocks DEF OthersKeep
  <2>5. \A s \in ToSet(pending[t].scopes) : s \in Scope => scopeState'[s] = "closed"
    BY DEF StepRun, finalize_close
  <2>6. ASSUME NEW s \in Scope, owner[s] = t PROVE Accounted(s, t)'
    <3>1. Accounted(s, t)
      BY <2>6 DEF Owners, ScopesAccounted
    <3>2. scopeState[s] = "closed" => scopeState'[s] = "closed"
      BY Onward
    <3> QED
      BY <1>2, <1>4, <2>5, <2>8, <3>1, <3>2 DEF Accounted, Live
  <2>7. LeavesWell(t)
    BY <1>2, <1>4, <2>2, <2>6, <2>8, <2>9 DEF LeavesWell, StackKept, InBlocks
  <2> QED
    BY <1>1, <2>4, <2>7, OneTaskOwns
<1> QED
    BY <1>3, <1>4 DEF StepRun

\* Every quantum the scheduler starts keeps the accounts,
LEMMA StepOwns ==
    ASSUME IInv, Good, Owners, NEW t \in Task, step(t)
    PROVE  Owners'
<1>1. state[t] \in Live /\ t \in Born
    BY DEF step, Live, Born
<1>2. CASE StepCancelled(t)
    BY <1>1, <1>2, SameStack, WaysToEnd DEF StepCancelled
<1>3. CASE StepFailFast(t)
    BY <1>1, <1>3, UnwindingOwns DEF StepFailFast
<1> QED
    BY <1>1, <1>2, <1>3, StepNotReadyOwns, StepRunOwns DEF step

\* and every step of the root frame, whose handlers concern no task.
LEMMA RootFrameOwns ==
    ASSUME IInv, Good, Owners, RootFrame
    PROVE  Owners'
<1>1. CASE RootSpawn
    BY <1>1, SpawnOwns DEF RootSpawn
<1>2. CASE RootScopeBegin
    BY <1>2, RootScopeBeginOwns
<1>3. CASE ~RootSpawn /\ ~RootScopeBegin
  <2>1. UNCHANGED <<state, pending, activeScopes, owner, scopeOf, current>>
    BY <1>3 DEF RootFrame, RootWait, RootCancel, RootCatch, RootWaitDone, RootGroupFailed,
       RootCancelGroup, RootGroupJoined, RootScopeEnd, RootScopeJoined,
       RootDeadlock, RootExit, RootUnchanged, taskVars, scopeVars
  <2>2. \/ UNCHANGED blockVars
        \/ Caught(Root, rootStack, FALSE)
        \/ /\ blocks[Root] > 0 /\ blocks' = [blocks EXCEPT ![Root] = @ - 1]
           /\ strayed' = strayed
    BY <1>3 DEF RootFrame, RootWait, RootCancel, RootCatch, RootWaitDone, RootGroupFailed,
       RootCancelGroup, RootGroupJoined, RootScopeEnd, RootScopeJoined,
       RootDeadlock, RootExit, RootRaises, blockVars
  <2>3. BlocksStay
    <3>1. CASE UNCHANGED blockVars
      BY <3>1, BlocksAlone
    <3>2. Root \notin Task /\ blocks \in [Task \cup {Root} -> Nat]
      BY DEF Root, Task, Owners, BlocksCounted
    <3>3. CASE Caught(Root, rootStack, FALSE)
      BY <3>2, <3>3 DEF Caught, Stray, BlocksStay
    <3>4. CASE /\ blocks[Root] > 0 /\ blocks' = [blocks EXCEPT ![Root] = @ - 1]
               /\ strayed' = strayed
      BY <3>2, <3>4 DEF BlocksStay
    <3> QED
      BY <2>2, <3>1, <3>3, <3>4
  <2> QED
    BY <2>1, <2>3, AllStay
<1> QED
    BY <1>1, <1>2, <1>3

\* The accounts are kept from the first state on.
LEMMA OwnersAlways == Spec => []Owners
<1>1. Init => Owners
  <2> SUFFICES ASSUME Init PROVE Owners
    OBVIOUS
  <2>1. \A s \in Scope, t \in Task : owner[s] # t
    BY DEF Init, Root, Task
  <2>2. Born = {} /\ \A t \in Task : current # t
    BY DEF Init, Born, Root, Task
  <2> QED
    BY <2>1, <2>2 DEF Init, Owners, OwnersSpawned, ScopesAccounted, TasksAtHome, RunnerIsFree,
       BlocksCounted
<1>2. IInv /\ Owners /\ [Next]_vars => Owners'
  <2> SUFFICES ASSUME IInv, Owners, [Next]_vars PROVE Owners'
    OBVIOUS
  <2>1. Good
    BY NextKeeps
  <2>2. CASE UNCHANGED vars
    BY <2>1, <2>2, AllStay, BlocksAlone DEF vars, taskVars, scopeVars
  <2>3. CASE Next
    <3>1. CASE \E t \in Task : UnwindNext(t)
      <4>1. PICK t \in Task : current = t /\ Unwinding(t, runnable)
        BY <3>1 DEF UnwindNext
      <4>2. state[t] \in Live
        BY <4>1 DEF Owners, RunnerIsFree, Live
      <4> QED
        BY <2>1, <4>1, <4>2, UnwindingOwns
    <3> QED
      BY <2>1, <2>2, <2>3, <3>1, StepOwns, InstructionOwns, RootFrameOwns DEF Next, Done
  <2> QED
    BY <2>2, <2>3
<1> QED
    BY <1>1, <1>2, Inductive, PTL DEF Spec

\* A task that returned left no scope of its own behind
\* (Scheduler.CompletedOwnerJoined), unless a handler made it jump over the end
\* of a block or an unwind replaced the close it was suspended on: the scopes a
\* task opened are on its stack behind the one it was spawned into, one for each
\* block its code is inside, closed, or in the suspension that closes them; the
\* return comes outside every block and with no suspension, and a failure that
\* is caught brings the code back to as many blocks as scopes are left.
THEOREM CompletedOwnersJoin == Spec => []CompletedOwnerJoined
    BY OwnersAlways, OwnersJoined, PTL
-----------------------------------------------------------------------------
(* The queue and the cascade of cancellations.                             *)

\* Scheduler.schedule queues the live wakes that are not queued yet, once.
LEMMA Scheduled ==
    ASSUME NEW q \in Seq(Task), NEW wakes \in Seq(Task), NEW st, IsInjective(q)
    PROVE  /\ schedule(q, wakes, st) \in Seq(Task)
           /\ IsInjective(schedule(q, wakes, st))
           /\ \A x : x \in ToSet(schedule(q, wakes, st)) <=>
                x \in ToSet(q) \/ (x \in ToSet(wakes) /\ st[x] \in Live)
<1> DEFINE n == Len(wakes)
           More(p, x) == IF x \in ToSet(p) \/ st[x] \notin Live THEN p ELSE Append(p, x)
           Then(f) == [i \in 0..n |-> IF i = 0 THEN q ELSE More(f[i - 1], wakes[i])]
           queue == CHOOSE f : f = Then(f)
           Upto(m, f) == f[0] = q /\ \A i \in 1..m : f[i] = More(f[i - 1], wakes[i])
           N == {m \in Nat : m <= n => \E f \in [0..n -> Seq(Task)] : Upto(m, f)}
           Wakes(m) == {x \in {wakes[i] : i \in 1..m} : st[x] \in Live}
           R == {m \in Nat : m <= n =>
                    /\ queue[m] \in Seq(Task) /\ IsInjective(queue[m])
                    /\ ToSet(queue[m]) = ToSet(q) \cup Wakes(m)}
<1>1. n \in Nat /\ \A i \in 1..n : wakes[i] \in Task
    BY LenProperties, ElementOfSeq
<1>2. \A p \in Seq(Task), x \in Task : More(p, x) \in Seq(Task)
    BY AppendProperties
<1>3. 0 \in N
  <2> DEFINE g == [i \in 0..n |-> q]
  <2>1. g \in [0..n -> Seq(Task)] /\ g[0] = q
    BY <1>1
  <2>2. 1..0 = {} /\ 0 \in Nat
    OBVIOUS
  <2> HIDE DEF g, More, n
  <2> QED
    BY <2>1, <2>2
<1>4. ASSUME NEW m \in Nat, m \in N PROVE m + 1 \in N
  <2>0. m + 1 \in Nat
    OBVIOUS
  <2> SUFFICES ASSUME m + 1 <= n PROVE \E f \in [0..n -> Seq(Task)] : Upto(m + 1, f)
    <3> HIDE DEF Upto, n
    <3> QED
      BY <2>0
  <2>1. PICK f \in [0..n -> Seq(Task)] : Upto(m, f)
    BY <1>1, <1>4
  <2>2. m \in 0..n /\ m + 1 \in 0..n /\ m + 1 \in 1..n
    BY <1>1
  <2> DEFINE last == More(f[m], wakes[m + 1])
             g == [f EXCEPT ![m + 1] = last]
  <2>3. last \in Seq(Task)
    <3> HIDE DEF More, n
    <3> QED
      BY <1>1, <1>2, <2>2
  <2> HIDE DEF last
  <2>4. g \in [0..n -> Seq(Task)] /\ g[m + 1] = last /\ \A i \in 0..m : g[i] = f[i]
    BY <2>2, <2>3
  <2> HIDE DEF g, More
  <2>5. ASSUME NEW i \in 1..(m + 1) PROVE g[i] = More(g[i - 1], wakes[i])
    <3>1. CASE i = m + 1
      <4>1. i - 1 = m /\ m \in 0..m
        BY <3>1
      <4> QED
        BY <2>4, <3>1, <4>1 DEF last
    <3>2. CASE i # m + 1
      <4>1. i \in 1..m /\ i - 1 \in 0..m /\ i \in 0..m
        BY <3>2
      <4> QED
        BY <2>1, <2>4, <4>1
    <3> QED
      BY <3>1, <3>2
  <2>6. g[0] = q
    BY <2>1, <2>4
  <2> QED
    BY <2>4, <2>5, <2>6
<1>5. n \in N
  <2> HIDE DEF N, n
  <2> QED
    BY <1>1, <1>3, <1>4, Counting
<1>6. PICK f \in [0..n -> Seq(Task)] : Upto(n, f)
    BY <1>1, <1>5
<1>7. f = Then(f)
  <2>1. \A i \in 0..n : f[i] = IF i = 0 THEN q ELSE More(f[i - 1], wakes[i])
    <3>1. \A i \in 0..n : i # 0 => i \in 1..n
      OBVIOUS
    <3> HIDE DEF More
    <3> QED
      BY <1>6, <3>1
  <2> HIDE DEF More
  <2> QED
    BY <2>1
<1>8. queue = Then(queue)
    BY <1>7
<1>9. schedule(q, wakes, st) = queue[n]
    BY DEF schedule
<1> HIDE DEF queue
<1>10. /\ \A i \in 0..n : queue[i] = IF i = 0 THEN q ELSE More(queue[i - 1], wakes[i])
  <2> HIDE DEF More
  <2> QED
    BY <1>8
<1>11. 0 \in R
  <2>1. queue[0] = q /\ Wakes(0) = {}
    BY <1>1, <1>10
  <2> QED
    BY <2>1
<1>12. ASSUME NEW m \in Nat, m \in R PROVE m + 1 \in R
  <2>1. m + 1 \in Nat
    OBVIOUS
  <2> SUFFICES ASSUME m + 1 <= n
               PROVE  /\ queue[m + 1] \in Seq(Task) /\ IsInjective(queue[m + 1])
                      /\ ToSet(queue[m + 1]) = ToSet(q) \cup Wakes(m + 1)
    <3> HIDE DEF n, Wakes
    <3> QED
      BY <2>1
  <2>2. m + 1 \in 0..n /\ m + 1 # 0 /\ (m + 1) - 1 = m /\ m + 1 \in 1..n /\ m <= n
    BY <1>1
  <2> DEFINE p == queue[m]
             x == wakes[m + 1]
  <2>3. p \in Seq(Task) /\ IsInjective(p) /\ ToSet(p) = ToSet(q) \cup Wakes(m) /\ x \in Task
    <3> HIDE DEF Wakes, n
    <3> QED
      BY <1>1, <1>12, <2>2
  <2>4. queue[m + 1] = More(p, x)
    <3> HIDE DEF More
    <3> QED
      BY <1>10, <2>2
  <2>5. Wakes(m + 1) = Wakes(m) \cup (IF st[x] \in Live THEN {x} ELSE {})
    <3>1. 1..(m + 1) = (1..m) \cup {m + 1}
      OBVIOUS
    <3> QED
      BY <3>1
  <2> HIDE DEF p, x, Wakes, queue
  <2>6. CASE x \in ToSet(p) \/ st[x] \notin Live
    <3>1. queue[m + 1] = p
      BY <2>4, <2>6
    <3> QED
      BY <2>3, <2>5, <2>6, <3>1
  <2>7. CASE ~(x \in ToSet(p) \/ st[x] \notin Live)
    <3>1. queue[m + 1] = Append(p, x)
      BY <2>4, <2>7
    <3>2. ToSet(Append(p, x)) = ToSet(p) \cup {x} /\ Append(p, x) \in Seq(Task)
      BY <2>3, RangeAppend, AppendProperties
    <3>3. IsInjective(Append(p, x))
      BY <2>3, <2>7, InjectiveAppend
    <3> QED
      BY <2>3, <2>5, <2>7, <3>1, <3>2, <3>3
  <2> QED
    BY <2>6, <2>7
<1>13. n \in R
  <2> HIDE DEF R, n
  <2> QED
    BY <1>1, <1>11, <1>12, Counting
<1>14. Wakes(n) = {x \in ToSet(wakes) : st[x] \in Live}
  <2>1. DOMAIN wakes = 1..n
    BY LenProperties
  <2> QED
    BY <2>1 DEF ToSet
<1> QED
    BY <1>1, <1>9, <1>13, <1>14

(* request_cancel, as the recursion it is: what the tasks T reach when each  *)
(* task reaches rc of it, and what a task reaches through the scopes it is   *)
(* blocked closing.                                                          *)
CancelAll(rc, T) == Nested(InOrder(T), LAMBDA c : rc[c])
Inside(rc, t) == Nested(blockedCancel[t].scopes, LAMBDA s : CancelAll(rc, LiveChildren(s)))
Reaches(rc, t) == Inside(rc, t) \o <<t>>

LEMMA CancelIs ==
    /\ request_cancel = CHOOSE rc : rc = [t \in Task |-> Reaches(rc, t)]
    /\ \A T : Cascade(T) = CancelAll(request_cancel, T)
<1>1. request_cancel = CHOOSE rc : rc = [t \in Task |-> Reaches(rc, t)]
    BY DEF request_cancel, Reaches, Inside, CancelAll, Nested
<1>2. \A T : Cascade(T) = CancelAll(request_cancel, T)
    BY DEF Cascade, CancelAll, Nested
<1> QED
    BY <1>1, <1>2

\* What the tasks of a set reach, in the order of their ids.
LEMMA CancelAllOf ==
    ASSUME NEW rc, NEW T \in SUBSET Task, \A c \in T : rc[c] \in Seq(Task)
    PROVE  /\ CancelAll(rc, T) \in Seq(Task)
           /\ ToSet(CancelAll(rc, T)) = UNION {ToSet(rc[c]) : c \in T}
<1> DEFINE q == InOrder(T)
           ss == [i \in DOMAIN q |-> rc[q[i]]]
<1>1. q \in Seq(Task) /\ ToSet(q) = T
  <2>1. MaxTask \in Nat /\ Task = 1..MaxTask
    BY SchedulerAssumption DEF SchedulerAssumption, Task
  <2> QED
    BY <2>1, AscendingOf DEF InOrder
<1>2. CancelAll(rc, T) = FlattenSeq(ss)
    BY DEF CancelAll, Nested
<1> HIDE DEF q
<1>3. DOMAIN q = 1..Len(q) /\ Len(q) \in Nat /\ \A i \in DOMAIN q : q[i] \in T
    BY <1>1, LenProperties DEF ToSet
<1>4. ss \in Seq(Seq(Task)) /\ Len(ss) = Len(q)
  <2>1. \A i \in 1..Len(q) : rc[q[i]] \in Seq(Task)
    BY <1>3
  <2> QED
    BY <1>3, <2>1, IsASeq
<1>5. {ToSet(ss[i]) : i \in 1..Len(ss)} = {ToSet(rc[c]) : c \in T}
  <2>1. {q[i] : i \in DOMAIN q} = T
    BY <1>1 DEF ToSet
  <2> QED
    BY <1>3, <1>4, <2>1
<1> HIDE DEF ss
<1> QED
    BY <1>2, <1>4, <1>5, Flattened

\* Whoever is blocked closing a scope is older than its unfinished children:
\* the recursion of request_cancel goes from a task to younger ones.
Younger(t) == {c \in Task : c > t /\ state[c] \in Live}
Ranked == \A t \in Task :
    /\ blockedCancel[t].scopes \in Seq(Scope)
    /\ \A s \in ToSet(blockedCancel[t].scopes) : LiveChildren(s) \subseteq Younger(t)

\* What is inside the scopes of t comes from younger tasks.
LEMMA InsideOf ==
    ASSUME Ranked, NEW rc, NEW t \in Task,
           \A c \in Task : c > t => /\ rc[c] \in Seq(Task)
                                    /\ ToSet(rc[c]) \subseteq {c} \cup Younger(c)
    PROVE  /\ Inside(rc, t) \in Seq(Task) /\ Reaches(rc, t) \in Seq(Task)
           /\ ToSet(Inside(rc, t)) \subseteq Younger(t)
           /\ ToSet(Reaches(rc, t)) = ToSet(Inside(rc, t)) \cup {t}
<1> DEFINE scopes == blockedCancel[t].scopes
           F(s) == CancelAll(rc, LiveChildren(s))
           ss == [i \in DOMAIN scopes |-> F(scopes[i])]
<1>1. scopes \in Seq(Scope) /\ DOMAIN scopes = 1..Len(scopes) /\ Len(scopes) \in Nat
    BY LenProperties DEF Ranked
<1>2. ASSUME NEW i \in 1..Len(scopes)
      PROVE  /\ F(scopes[i]) \in Seq(Task)
             /\ ToSet(F(scopes[i])) \subseteq Younger(t)
  <2> DEFINE T == LiveChildren(scopes[i])
  <2>0. T \subseteq Younger(t)
    BY <1>1 DEF Ranked, ToSet
  <2> HIDE DEF T
  <2>1. T \subseteq Task /\ \A c \in T : c > t
    BY <2>0 DEF Younger
  <2>2. \A c \in T : rc[c] \in Seq(Task) /\ ToSet(rc[c]) \subseteq {c} \cup Younger(c)
    BY <2>1
  <2>3. /\ CancelAll(rc, T) \in Seq(Task)
        /\ ToSet(CancelAll(rc, T)) = UNION {ToSet(rc[c]) : c \in T}
    BY <2>1, <2>2, CancelAllOf
  <2>4. \A c \in T : Younger(c) \subseteq Younger(t)
    BY <2>1 DEF Task, Younger
  <2> QED
    BY <2>0, <2>2, <2>3, <2>4 DEF T
<1>3. Inside(rc, t) = FlattenSeq(ss)
    BY DEF Inside, Nested
<1> HIDE DEF F, scopes
<1>4. ss \in Seq(Seq(Task)) /\ Len(ss) = Len(scopes) /\ \A i \in 1..Len(ss) : ss[i] = F(scopes[i])
    BY <1>1, <1>2, IsASeq
<1> HIDE DEF ss
<1>5. /\ Inside(rc, t) \in Seq(Task)
      /\ ToSet(Inside(rc, t)) = UNION {ToSet(ss[i]) : i \in 1..Len(ss)}
    BY <1>3, <1>4, Flattened
<1>6. ToSet(Inside(rc, t)) \subseteq Younger(t)
    BY <1>2, <1>4, <1>5
<1>7. <<t>> \in Seq(Task) /\ ToSet(<<t>>) = {t}
    BY OneElement
<1> DEFINE inside == Inside(rc, t)
           own == <<t>>
<1>8. inside \in Seq(Task) /\ own \in Seq(Task)
    BY <1>5, <1>7
<1> HIDE DEF inside, own
<1>9. ToSet(inside \o own) = ToSet(inside) \cup ToSet(own) /\ inside \o own \in Seq(Task)
    BY <1>8, RangeConcat, ConcatProperties
<1> QED
    BY <1>5, <1>6, <1>7, <1>9 DEF Reaches, inside, own

\* and depends on what younger tasks reach only.
LEMMA InsideSame ==
    ASSUME Ranked, NEW f, NEW g, NEW t \in Task, \A c \in Task : c > t => f[c] = g[c]
    PROVE  Inside(f, t) = Inside(g, t)
<1> DEFINE scopes == blockedCancel[t].scopes
<1>1. scopes \in Seq(Scope) /\ DOMAIN scopes = 1..Len(scopes) /\ Len(scopes) \in Nat
    BY LenProperties DEF Ranked
<1>2. ASSUME NEW i \in DOMAIN scopes
      PROVE  CancelAll(f, LiveChildren(scopes[i])) = CancelAll(g, LiveChildren(scopes[i]))
  <2> DEFINE T == LiveChildren(scopes[i])
             q == InOrder(T)
  <2>1. T \subseteq Task /\ \A c \in T : c > t
    BY DEF Ranked, ToSet, Younger
  <2> HIDE DEF T
  <2>2. ToSet(q) = T
    <3>1. MaxTask \in Nat /\ Task = 1..MaxTask
      BY SchedulerAssumption DEF SchedulerAssumption, Task
    <3> QED
      BY <2>1, <3>1, AscendingOf DEF InOrder
  <2> HIDE DEF q
  <2>3. \A j \in DOMAIN q : f[q[j]] = g[q[j]]
    BY <2>1, <2>2 DEF ToSet
  <2>4. [j \in DOMAIN q |-> f[q[j]]] = [j \in DOMAIN q |-> g[q[j]]]
    BY <2>3
  <2>5. CancelAll(f, T) = CancelAll(g, T)
    BY <2>4 DEF CancelAll, Nested, q
  <2> QED
    BY <2>5 DEF T
<1> HIDE DEF scopes
<1>3. [i \in DOMAIN scopes |-> CancelAll(f, LiveChildren(scopes[i]))]
        = [i \in DOMAIN scopes |-> CancelAll(g, LiveChildren(scopes[i]))]
    BY <1>2
<1> QED
    BY <1>3 DEF Inside, Nested, scopes

\* There is such a function,
LEMMA CancelExists ==
    ASSUME Ranked
    PROVE  request_cancel = [t \in Task |-> Reaches(request_cancel, t)]
<1> DEFINE Fine(f, c) == /\ f[c] = Reaches(f, c) /\ f[c] \in Seq(Task)
                         /\ ToSet(f[c]) \subseteq {c} \cup Younger(c)
           N == {m \in Nat : \E f \in [Task -> Seq(Task)] :
                                \A c \in Task : c > MaxTask - m => Fine(f, c)}
<1>1. MaxTask \in Nat /\ Task = 1..MaxTask
    BY SchedulerAssumption DEF SchedulerAssumption, Task
<1>2. 0 \in N
  <2> DEFINE f == [c \in Task |-> <<>>]
  <2>1. f \in [Task -> Seq(Task)]
    BY EmptySeq
  <2>2. \A c \in Task : ~(c > MaxTask - 0)
    BY <1>1
  <2> HIDE DEF f, Fine
  <2> QED
    BY <2>1, <2>2
<1>3. ASSUME NEW m \in Nat, m \in N PROVE m + 1 \in N
  <2>1. PICK f \in [Task -> Seq(Task)] : \A c \in Task : c > MaxTask - m => Fine(f, c)
    BY <1>3
  <2> DEFINE t == MaxTask - m
  <2>2. CASE t \notin Task
    <3>1. \A c \in Task : c > MaxTask - (m + 1) => c > MaxTask - m
      BY <1>1, <2>2
    <3> HIDE DEF Fine, t
    <3> QED
      BY <2>1, <3>1
  <2>3. CASE t \in Task
    <3> DEFINE g == [f EXCEPT ![t] = Reaches(f, t)]
    <3> HIDE DEF t
    <3>1. \A c \in Task : c > t => /\ f[c] \in Seq(Task)
                                   /\ ToSet(f[c]) \subseteq {c} \cup Younger(c)
      BY <2>1 DEF t
    <3>2. /\ Reaches(f, t) \in Seq(Task)
          /\ ToSet(Inside(f, t)) \subseteq Younger(t)
          /\ ToSet(Reaches(f, t)) = ToSet(Inside(f, t)) \cup {t}
      BY <2>3, <3>1, InsideOf
    <3>3. /\ g \in [Task -> Seq(Task)] /\ g[t] = Reaches(f, t)
          /\ \A c \in Task : c # t => g[c] = f[c]
      BY <2>3, <3>2
    <3> HIDE DEF g
    <3>4. ASSUME NEW c \in Task, c > MaxTask - (m + 1) PROVE Fine(g, c)
      <4>1. c >= t
        BY <1>1, <3>4 DEF t
      <4>2. Inside(g, c) = Inside(f, c)
        <5>1. \A d \in Task : d > c => g[d] = f[d]
          BY <1>1, <2>3, <3>3, <4>1
        <5> QED
          BY <5>1, InsideSame
      <4>3. CASE c = t
        <5>1. g[c] = Reaches(g, c)
          BY <3>3, <4>2, <4>3 DEF Reaches
        <5>2. ToSet(g[c]) \subseteq {c} \cup Younger(c)
          BY <3>2, <3>3, <4>3
        <5> QED
          BY <3>3, <5>1, <5>2
      <4>4. CASE c # t
        <5>1. c > MaxTask - m
          BY <1>1, <2>3, <4>1, <4>4 DEF t
        <5>2. Fine(f, c) /\ g[c] = f[c]
          BY <2>1, <3>3, <4>4, <5>1
        <5> QED
          BY <4>2, <5>2 DEF Reaches
      <4> QED
        BY <4>3, <4>4
    <3> HIDE DEF Fine
    <3>5. m + 1 \in Nat
      OBVIOUS
    <3>6. \E h \in [Task -> Seq(Task)] : \A c \in Task : c > MaxTask - (m + 1) => Fine(h, c)
      BY <3>3, <3>4
    <3> QED
      BY <3>5, <3>6
  <2> QED
    BY <2>2, <2>3
<1>4. MaxTask \in N
  <2> HIDE DEF N
  <2> QED
    BY <1>1, <1>2, <1>3, Counting
<1>5. PICK f \in [Task -> Seq(Task)] : \A c \in Task : c > MaxTask - MaxTask => Fine(f, c)
    BY <1>4
<1>6. \A c \in Task : f[c] = Reaches(f, c)
    BY <1>1, <1>5
<1>7. f = [t \in Task |-> Reaches(f, t)]
    BY <1>5, <1>6
<1> QED
    BY <1>7, CancelIs

\* and it gives each task a cascade of younger tasks that ends with itself.
LEMMA CancelReaches ==
    ASSUME Ranked, NEW t \in Task
    PROVE  /\ request_cancel[t] \in Seq(Task)
           /\ request_cancel[t] = Inside(request_cancel, t) \o <<t>>
           /\ Inside(request_cancel, t) \in Seq(Task)
           /\ ToSet(Inside(request_cancel, t)) \subseteq Younger(t)
           /\ ToSet(request_cancel[t]) = ToSet(Inside(request_cancel, t)) \cup {t}
<1> DEFINE Fine(c) == /\ request_cancel[c] \in Seq(Task)
                      /\ ToSet(request_cancel[c]) \subseteq {c} \cup Younger(c)
           N == {m \in Nat : \A c \in Task : c > MaxTask - m => Fine(c)}
<1>1. MaxTask \in Nat /\ Task = 1..MaxTask
    BY SchedulerAssumption DEF SchedulerAssumption, Task
<1>2. \A c \in Task : request_cancel[c] = Reaches(request_cancel, c)
    BY CancelExists
<1>3. 0 \in N
    BY <1>1
<1>4. ASSUME NEW m \in Nat, m \in N PROVE m + 1 \in N
  <2> SUFFICES ASSUME NEW c \in Task, c > MaxTask - (m + 1) PROVE Fine(c)
    OBVIOUS
  <2>1. \A d \in Task : d > c => Fine(d)
    BY <1>1, <1>4
  <2>2. /\ Reaches(request_cancel, c) \in Seq(Task)
        /\ ToSet(Inside(request_cancel, c)) \subseteq Younger(c)
        /\ ToSet(Reaches(request_cancel, c)) = ToSet(Inside(request_cancel, c)) \cup {c}
    BY <2>1, InsideOf
  <2> QED
    BY <1>1, <1>2, <2>2
<1>5. MaxTask + 1 \in N
  <2>1. MaxTask + 1 \in Nat
    BY <1>1
  <2> HIDE DEF N
  <2> QED
    BY <1>3, <1>4, <2>1, Counting
<1>6. \A c \in Task : Fine(c)
    BY <1>1, <1>5
<1>7. /\ Reaches(request_cancel, t) \in Seq(Task) /\ Inside(request_cancel, t) \in Seq(Task)
      /\ ToSet(Inside(request_cancel, t)) \subseteq Younger(t)
      /\ ToSet(Reaches(request_cancel, t)) = ToSet(Inside(request_cancel, t)) \cup {t}
    BY <1>6, InsideOf
<1> QED
    BY <1>2, <1>7 DEF Reaches

\* What one request after the other reaches: live tasks, those themselves
\* among them, and nobody older.
LEMMA CascadeOf ==
    ASSUME Ranked, NEW T \in SUBSET Task, \A c \in T : state[c] \in Live
    PROVE  /\ Cascade(T) \in Seq(Task) /\ T \subseteq ToSet(Cascade(T))
           /\ \A x \in ToSet(Cascade(T)) : state[x] \in Live /\ \E c \in T : x >= c
<1> DEFINE rc == request_cancel
<1>1. \A c \in T : /\ rc[c] \in Seq(Task) /\ c \in ToSet(rc[c])
                   /\ \A x \in ToSet(rc[c]) : state[x] \in Live /\ x >= c
  <2> SUFFICES ASSUME NEW c \in T
               PROVE  /\ rc[c] \in Seq(Task) /\ c \in ToSet(rc[c])
                      /\ \A x \in ToSet(rc[c]) : state[x] \in Live /\ x >= c
    OBVIOUS
  <2>1. /\ rc[c] \in Seq(Task)
        /\ ToSet(Inside(rc, c)) \subseteq Younger(c)
        /\ ToSet(rc[c]) = ToSet(Inside(rc, c)) \cup {c}
    BY CancelReaches
  <2> HIDE DEF rc
  <2>2. \A x \in Younger(c) : state[x] \in Live /\ x >= c
    BY DEF Task, Younger
  <2>3. c >= c /\ state[c] \in Live
    BY DEF Task
  <2> QED
    BY <2>1, <2>2, <2>3
<1>2. Cascade(T) = CancelAll(rc, T)
    BY CancelIs
<1> HIDE DEF rc
<1>3. /\ CancelAll(rc, T) \in Seq(Task)
      /\ ToSet(CancelAll(rc, T)) = UNION {ToSet(rc[c]) : c \in T}
    BY <1>1, CancelAllOf
<1> QED
    BY <1>1, <1>2, <1>3
-----------------------------------------------------------------------------
(* Who wakes whom (NobodyIsStranded), and how a failure spreads (FailFast). *)

BornInOrder == \A t \in Born, u \in Task : u < t => u \in Born
ChildrenAtHome == \A s \in Scope : \A c \in children[s] : c \in Born /\ scopeOf[c] = s
ClosedIsEmpty == \A s \in Scope : scopeState[s] = "closed" => children[s] = {}
ChildrenYounger ==
    \A s \in Scope, t \in Task : owner[s] = t => \A c \in children[s] : c > t
StacksOwned ==
    \A t \in Task : \A i \in 2..Len(activeScopes[t]) : owner[activeScopes[t][i]] = t
Closes(t, ss) ==
    \A s \in Scope : s \in ToSet(ss) =>
        owner[s] = t /\ scopeState[s] \in {"closing", "closed"}
EventsOwned ==
    \A t \in Task :
        /\ Closes(t, pending[t].scopes) /\ Closes(t, blockedCancel[t].scopes)
        /\ pending[t].targets \subseteq Born
RootStackOwned == \A s \in Scope : s \in ToSet(rootStack) => owner[s] = Root

\* Scopes and tasks are ordered: who opened a scope is older than who is in
\* it, has it on the stack or in a suspension, and nobody else has.
Lineage ==
    /\ BornInOrder /\ ChildrenAtHome /\ ClosedIsEmpty /\ ChildrenYounger
    /\ StacksOwned /\ EventsOwned /\ RootStackOwned

Event == [kind : {"none", "wait", "group", "close"}, targets : SUBSET Task,
          scopes : Seq(Scope), primary : BOOLEAN]

WakeTypes ==
    /\ cancelReq \in [Task -> BOOLEAN] /\ blocked \in [Task -> BOOLEAN]
    /\ pending \in [Task -> Event] /\ blockedCancel \in [Task -> Event]
    /\ waiters \in [Task -> Seq(Task)] /\ closeWaiter \in [Scope -> BOOLEAN]
    /\ runnable \in Seq(Task) /\ IsInjective(runnable)
    /\ current \in Task \cup {Root}

Awaited(t) == {u \in pending[t].targets : ~terminal(u)}
Joining(t) == {s \in ToSet(pending[t].scopes) : ~children_terminal(s)}

\* The wakes of what the task still waits for are in place.
Registered(t) ==
    /\ \A u \in Awaited(t) : t \in ToSet(waiters[u])
    /\ \A s \in Joining(t) : closeWaiter[s]

\* Where a task is: running, on the queue, or asleep until something happens.
Placed(t) ==
    /\ blocked[t] => /\ state[t] = "running" /\ t # current /\ ~Queued(t)
                     /\ blockedCancel[t] = pending[t]
    /\ Queued(t) => state[t] \in Live /\ t # current
    /\ state[t] = "pending" => Queued(t)
    /\ state[t] = "running" /\ t # current /\ ~Queued(t) =>
          blocked[t] /\ (Awaited(t) # {} \/ Joining(t) # {})
    /\ state[t] = "running" /\ t # current /\ ~cancelReq[t] => Registered(t)
    /\ cancelReq[t] /\ ~terminal(t) /\ t # current => Queued(t)
    /\ state[t] \in {"unborn", "pending"} =>
          pending[t] = NoEvent /\ blockedCancel[t] = NoEvent /\ Len(activeScopes[t]) <= 1

\* Only a task waits for a scope to be joined.
WakeOwners == \A s \in Scope : closeWaiter[s] => owner[s] # Root /\ s \in Entered

Wakes == WakeTypes /\ WakeOwners /\ \A t \in Task : Placed(t)

\* No sibling of the running task has failed.
RunnerUnfailed ==
    \A t \in Task : current = t /\ owner[scopeOf[t]] # Root =>
        FailedChildren(scopeOf[t]) = {}

Failures == FailureStopsSiblings /\ FailureReachesOwner /\ RunnerUnfailed

\* What a step of t leaves of the other tasks: their states, suspensions and
\* places on the queue, and every request and end there was.
Passes(t) ==
    \A x \in Task :
        /\ terminal(x) => terminal(x)'
        /\ cancelReq[x] => cancelReq'[x]
        /\ x # t => /\ state'[x] = state[x] /\ pending'[x] = pending[x]
                    /\ Queued(x) => Queued(x)'

\* A task that fails has cancelled its siblings and woken who owns its scope.
Heard(t) ==
    /\ \A c \in children[scopeOf[t]] : terminal(c)' \/ cancelReq'[c]
    /\ \A o \in Task : owner[scopeOf[t]] = o => terminal(o)' \/ Queued(o)'

\* A step of t that spawns nobody: scopes lose their children or keep them,
\* and who owns them, and a failure of t is heard at once.
Spreads(t) ==
    /\ Passes(t)
    /\ \A s \in Scope : /\ children'[s] \subseteq children[s]
                        /\ owner'[s] = owner[s] \/ children'[s] = {}
    /\ t \in Task /\ state'[t] = "failed" /\ state[t] # "failed" => Heard(t)

\* Of a scope that was left, nothing is opened again.
LEMMA StillClosing ==
    ASSUME IInv, Good
    PROVE  \A s \in Scope : scopeState[s] \in {"closing", "closed"}
                                => scopeState'[s] \in {"closing", "closed"}
<1>1. Base /\ (BirthStep \/ EnterStep \/ Move)
    BY DEF IInv, Good
<1>2. CASE BirthStep
    BY <1>2 DEF BirthStep
<1>3. CASE EnterStep
    BY <1>1, <1>3 DEF EnterStep, Base
<1>4. CASE Move
    BY <1>4 DEF Move, ScopesMove
<1> QED
    BY <1>1, <1>2, <1>3, <1>4

\* The suspensions a step leaves: those there were, none, or one on tasks that
\* were spawned and on scopes that the suspended task owns and is leaving.
EventsStay(u) ==
    /\ \/ pending'[u] \in {pending[u], NoEvent}
       \/ Closes(u, pending[u].scopes)' /\ pending'[u].targets \subseteq Born
    /\ blockedCancel'[u] \in {blockedCancel[u], NoEvent, pending'[u]}

LEMMA EventsKept ==
    ASSUME IInv, Good, Lineage, owner' = owner, \A u \in Task : EventsStay(u)
    PROVE  EventsOwned'
<1> SUFFICES ASSUME NEW u \in Task
             PROVE  /\ Closes(u, pending[u].scopes)' /\ Closes(u, blockedCancel[u].scopes)'
                    /\ (pending[u].targets \subseteq Born)'
    BY DEF EventsOwned
<1>1. \A s \in Scope : scopeState[s] \in {"closing", "closed"}
                           => scopeState'[s] \in {"closing", "closed"}
    BY StillClosing
<1>2. ASSUME NEW e, e \in {pending[u], blockedCancel[u], NoEvent}, NEW s \in Scope, s \in ToSet(e.scopes)
      PROVE  owner[s] = u /\ scopeState[s] \in {"closing", "closed"}
  <2>1. NoEvent.scopes = <<>> /\ ToSet(<<>>) = {}
    BY RangeEmpty DEF NoEvent
  <2>2. Closes(u, pending[u].scopes) /\ Closes(u, blockedCancel[u].scopes)
    BY DEF Lineage, EventsOwned
  <2> QED
    BY <1>2, <2>1, <2>2 DEF Closes
<1>3. Closes(u, pending[u].scopes)'
  <2>1. CASE pending'[u] \in {pending[u], NoEvent}
    BY <1>1, <1>2, <2>1 DEF Closes
  <2> QED
    BY <2>1 DEF EventsStay
<1>4. Closes(u, blockedCancel[u].scopes)'
  <2>1. CASE blockedCancel'[u] \in {blockedCancel[u], NoEvent}
    BY <1>1, <1>2, <2>1 DEF Closes
  <2>2. CASE blockedCancel'[u] = pending'[u]
    BY <1>3, <2>2 DEF Closes
  <2> QED
    BY <2>1, <2>2 DEF EventsStay
<1>5. pending'[u].targets \subseteq Born'
  <2>1. pending[u].targets \subseteq Born /\ NoEvent.targets = {}
    BY DEF Lineage, EventsOwned, NoEvent
  <2> QED
    BY <2>1, Onward DEF EventsStay
<1> QED
    BY <1>3, <1>4, <1>5

\* A step that enters no scope and spawns no task keeps the lineage: what is
\* on a stack behind its first scope was there before.
LEMMA LineageKept ==
    ASSUME IInv, Good, Lineage, UNCHANGED <<owner, scopeOf>>, Born' = Born,
           \A s \in Scope : /\ children'[s] \subseteq children[s]
                            /\ scopeState'[s] = "closed" => children'[s] = {},
           \A u \in Task : \A i \in 2..Len(activeScopes'[u]) :
                \E j \in 2..Len(activeScopes[u]) : activeScopes'[u][i] = activeScopes[u][j],
           \A u \in Task : EventsStay(u),
           ToSet(rootStack') \subseteq ToSet(rootStack)
    PROVE  Lineage'
<1>1. EventsOwned'
    BY EventsKept
<1>2. BornInOrder' /\ ChildrenAtHome' /\ ClosedIsEmpty' /\ ChildrenYounger'
    BY DEF Lineage, BornInOrder, ChildrenAtHome, ClosedIsEmpty, ChildrenYounger
<1>3. StacksOwned'
  <2>1. owner' = owner
    OBVIOUS
  <2> SUFFICES ASSUME NEW u \in Task, NEW i \in 2..Len(activeScopes'[u])
               PROVE  owner[activeScopes'[u][i]] = u
    BY <2>1 DEF StacksOwned
  <2> QED
    BY DEF Lineage, StacksOwned
<1>4. RootStackOwned'
    BY DEF Lineage, RootStackOwned
<1> QED
    BY <1>1, <1>2, <1>3, <1>4 DEF Lineage

\* A child is younger than everybody born, the owner of its scope among them.
LEMMA SpawnLineage ==
    ASSUME IInv, Good, Owners, Lineage, NEW c \in Fresh, NEW s \in Scope, spawn(c, s),
           rootStack' = rootStack
    PROVE  Lineage'
<1>1. /\ c \in Task /\ state[c] = "unborn" /\ scopeState[s] = "open"
      /\ \A u \in Task : u < c => u \in Born
      /\ state' = [state EXCEPT ![c] = "pending"]
      /\ scopeOf' = [scopeOf EXCEPT ![c] = s]
      /\ children' = [children EXCEPT ![s] = @ \cup {c}]
      /\ activeScopes' = [activeScopes EXCEPT ![c] = <<s>>]
      /\ pending' = pending /\ blockedCancel' = blockedCancel
      /\ scopeState' = scopeState /\ owner' = owner
    BY DEF Fresh, spawn, Spawned
<1>2. /\ state \in [Task -> States] /\ scopeOf \in [Task -> Scope]
      /\ children \in [Scope -> SUBSET Task]
      /\ activeScopes = [u \in Task |-> activeScopes[u]]
    BY DEF IInv, Base, Places
<1>3. Born' = Born \cup {c} /\ c \notin Born
    BY <1>1, <1>2 DEF Born
<1>4. \A u \in Born : u < c
  <2> SUFFICES ASSUME NEW u \in Born PROVE u < c
    OBVIOUS
  <2>1. u \in Task /\ u # c /\ ~(c < u)
    BY <1>1, <1>3 DEF Born, Lineage, BornInOrder
  <2> QED
    BY <1>1, <2>1 DEF Task
<1>5. BornInOrder'
  <2>1. \A t \in Born : \A u \in Task : u < t => u \in Born
    BY DEF Lineage, BornInOrder
  <2> QED
    BY <1>1, <1>3, <2>1 DEF BornInOrder
<1>6. ChildrenAtHome'
  <2> SUFFICES ASSUME NEW r \in Scope, NEW d \in children'[r]
               PROVE  d \in Born' /\ scopeOf'[d] = r
    BY DEF ChildrenAtHome
  <2>1. CASE d = c /\ r = s
    BY <1>1, <1>2, <1>3, <2>1
  <2>2. CASE d \in children[r]
    <3>1. d \in Born /\ scopeOf[d] = r /\ d \in Task
      BY <2>2 DEF Lineage, ChildrenAtHome, Born
    <3> QED
      BY <1>1, <1>2, <1>3, <3>1
  <2> QED
    BY <1>1, <1>2, <2>1, <2>2
<1>7. ClosedIsEmpty'
    BY <1>1, <1>2 DEF Lineage, ClosedIsEmpty
<1>8. ChildrenYounger'
  <2>1. owner' = owner
    BY <1>1
  <2> SUFFICES ASSUME NEW r \in Scope, NEW t \in Task, owner[r] = t, NEW d \in children'[r]
               PROVE  d > t
    BY <2>1 DEF ChildrenYounger
  <2>2. CASE d \in children[r]
    BY <2>2 DEF Lineage, ChildrenYounger
  <2>3. CASE d = c
    <3>1. t \in Born
      BY DEF Owners, OwnersSpawned
    <3> QED
      BY <1>1, <1>4, <2>3, <3>1 DEF Task
  <2> QED
    BY <1>1, <1>2, <2>2, <2>3
<1>9. StacksOwned'
  <2>1. owner' = owner
    BY <1>1
  <2> SUFFICES ASSUME NEW u \in Task, NEW i \in 2..Len(activeScopes'[u])
               PROVE  owner[activeScopes'[u][i]] = u
    BY <2>1 DEF StacksOwned
  <2>2. CASE u = c
    <3>1. activeScopes'[u] = <<s>> /\ Len(<<s>>) = 1
      BY <1>1, <1>2, <2>2
    <3> QED
      BY <3>1
  <2>3. CASE u # c
    <3>1. activeScopes'[u] = activeScopes[u]
      BY <1>1, <1>2, <2>3
    <3> QED
      BY <3>1 DEF Lineage, StacksOwned
  <2> QED
    BY <2>2, <2>3
<1>10. EventsOwned' /\ RootStackOwned'
    BY <1>1, <1>3 DEF Lineage, EventsOwned, Closes, RootStackOwned
<1> QED
    BY <1>5, <1>6, <1>7, <1>8, <1>9, <1>10 DEF Lineage

\* A scope nobody entered holds no task and is nowhere: its owner is new to it.
LEMMA EnterLineage ==
    ASSUME IInv, Good, Owners, Lineage, NEW s \in Scope, scopeState[s] = "unborn",
           NEW o \in Task \cup {Root}, owner' = [owner EXCEPT ![s] = o],
           scopeState' = [scopeState EXCEPT ![s] = "open"],
           UNCHANGED <<state, pending, blockedCancel, scopeOf, children>>,
           \A u \in Task : \A i \in 2..Len(activeScopes'[u]) :
                \/ activeScopes'[u][i] = s /\ u = o
                \/ i \in 2..Len(activeScopes[u]) /\ activeScopes'[u][i] = activeScopes[u][i],
           \A r \in ToSet(rootStack') : r \in ToSet(rootStack) \/ (r = s /\ o = Root)
    PROVE  Lineage'
<1>1. /\ owner \in [Scope -> Task \cup {Root}] /\ scopeOf \in [Task -> Scope]
      /\ children \in [Scope -> SUBSET Task] /\ scopeState \in [Scope -> ScopeStates]
    BY DEF Owners, IInv, Base
<1>2. children[s] = {}
  <2>1. ASSUME NEW d \in children[s] PROVE FALSE
    <3>1. d \in Born /\ scopeOf[d] = s
      BY DEF Lineage, ChildrenAtHome
    <3>2. s \in Entered
      BY <3>1 DEF Owners, TasksAtHome, AtHome
    <3> QED
      BY <3>2 DEF Entered
  <2> QED
    BY <2>1
<1>3. \A r \in Scope : r # s => owner'[r] = owner[r] /\ scopeState'[r] = scopeState[r]
    BY <1>1
<1>4. BornInOrder' /\ ChildrenAtHome' /\ ClosedIsEmpty'
    BY <1>1, <1>2 DEF Lineage, BornInOrder, ChildrenAtHome, ClosedIsEmpty, Born
<1>5. ChildrenYounger'
  <2>1. children' = children
    OBVIOUS
  <2> SUFFICES ASSUME NEW r \in Scope, NEW t \in Task, owner'[r] = t, NEW d \in children[r]
               PROVE  d > t
    BY <2>1 DEF ChildrenYounger
  <2>2. r # s
    BY <1>2
  <2> QED
    BY <1>3, <2>2 DEF Lineage, ChildrenYounger
<1>6. \A u \in Task : \A i \in 2..Len(activeScopes[u]) :
            activeScopes[u][i] \in Scope /\ activeScopes[u][i] # s
  <2> SUFFICES ASSUME NEW u \in Task, NEW i \in 2..Len(activeScopes[u])
               PROVE  activeScopes[u][i] \in Entered
    BY DEF Entered
  <2>1. activeScopes[u] \in Seq(Entered) /\ Len(activeScopes[u]) \in Nat
    BY LenProperties DEF IInv, Places
  <2>2. i \in 1..Len(activeScopes[u])
    BY <2>1
  <2> QED
    BY <2>1, <2>2, ElementOfSeq
<1>7. StacksOwned'
  <2> SUFFICES ASSUME NEW u \in Task, NEW i \in 2..Len(activeScopes'[u])
               PROVE  owner'[activeScopes'[u][i]] = u
    BY DEF StacksOwned
  <2>1. CASE activeScopes'[u][i] = s /\ u = o
    BY <1>1, <2>1
  <2>2. CASE i \in 2..Len(activeScopes[u]) /\ activeScopes'[u][i] = activeScopes[u][i]
    <3>1. owner[activeScopes[u][i]] = u
      BY <2>2 DEF Lineage, StacksOwned
    <3> QED
      BY <1>3, <1>6, <2>2, <3>1
  <2> QED
    BY <2>1, <2>2
<1>8. EventsOwned'
  <2>1. pending' = pending /\ blockedCancel' = blockedCancel /\ Born' = Born
        /\ \A u \in Task : pending[u].targets \subseteq Born
    BY DEF Born, Lineage, EventsOwned
  <2> SUFFICES ASSUME NEW u \in Task, NEW e, e = pending[u] \/ e = blockedCancel[u],
                      NEW r \in Scope, r \in ToSet(e.scopes)
               PROVE  owner'[r] = u /\ scopeState'[r] \in {"closing", "closed"}
    BY <2>1 DEF EventsOwned, Closes
  <2>2. owner[r] = u /\ scopeState[r] \in {"closing", "closed"}
    BY DEF Lineage, EventsOwned, Closes
  <2> QED
    BY <1>3, <2>2
<1>9. RootStackOwned'
  <2> SUFFICES ASSUME NEW r \in Scope, r \in ToSet(rootStack') PROVE owner'[r] = Root
    BY DEF RootStackOwned
  <2>1. CASE r = s /\ o = Root
    BY <1>1, <2>1
  <2>2. CASE r \in ToSet(rootStack)
    <3>1. r \in Entered
      <4>1. rootStack \in Seq(Entered)
        BY DEF IInv, Places
      <4> QED
        BY <2>2, <4>1, RangeIn
    <3> QED
      BY <1>3, <2>2, <3>1 DEF Entered, Lineage, RootStackOwned
  <2> QED
    BY <2>1, <2>2
<1> QED
    BY <1>4, <1>5, <1>7, <1>8, <1>9 DEF Lineage

\* Who is blocked closing a scope is older than those it would cancel.
LEMMA LineageRanks ==
    ASSUME IInv, Lineage, WakeTypes
    PROVE  /\ Ranked
           /\ \A s \in Scope : \A c \in LiveChildren(s) : c \in Task /\ state[c] \in Live
<1>1. /\ state \in [Task -> States] /\ children \in [Scope -> SUBSET Task]
      /\ blockedCancel \in [Task -> Event]
    BY DEF IInv, Base, WakeTypes
<1>2. ASSUME NEW s \in Scope, NEW c \in LiveChildren(s)
      PROVE  c \in Task /\ state[c] \in Live
  <2>1. c \in Born /\ ~terminal(c) /\ c \in children[s]
    BY DEF LiveChildren, Lineage, ChildrenAtHome
  <2> QED
    BY <1>1, <2>1 DEF Born, States, terminal
<1>3. Ranked
  <2> SUFFICES ASSUME NEW t \in Task
               PROVE  /\ blockedCancel[t].scopes \in Seq(Scope)
                      /\ \A s \in ToSet(blockedCancel[t].scopes) : LiveChildren(s) \subseteq Younger(t)
    BY DEF Ranked
  <2>1. blockedCancel[t].scopes \in Seq(Scope)
    BY <1>1 DEF Event
  <2>2. ASSUME NEW s \in ToSet(blockedCancel[t].scopes), NEW c \in LiveChildren(s)
        PROVE  c \in Younger(t)
    <3>1. s \in Scope
      BY <2>1, RangeIn
    <3>2. owner[s] = t
      BY <3>1 DEF Lineage, EventsOwned, Closes
    <3>3. c > t
      BY <3>1, <3>2 DEF Lineage, ChildrenYounger, LiveChildren
    <3> QED
      BY <1>2, <3>1, <3>3 DEF Younger
  <2> QED
    BY <2>1, <2>2
<1> QED
    BY <1>2, <1>3

(* What a step does to the tasks other than t: it cancels those of hit and   *)
(* wakes those of woken, which are those that an end or a join concerns.     *)

Moved(x, hit, woken) ==
    /\ state'[x] = state[x] /\ pending'[x] = pending[x]
    /\ activeScopes'[x] = activeScopes[x]
    /\ current' = x <=> current = x
    /\ cancelReq'[x] <=> cancelReq[x] \/ x \in hit
    /\ blocked'[x] <=> blocked[x] /\ x \notin hit /\ x \notin woken
    /\ blockedCancel'[x] = IF x \in hit THEN NoEvent ELSE blockedCancel[x]
    /\ x \in ToSet(runnable') <=>
          \/ x \in ToSet(runnable)
          \/ state[x] \in Live /\ (x \in woken \/ (x \in hit /\ blocked[x]))
    /\ x \in woken => current # x
    /\ x \in hit => state[x] \in Live

WakesKept(x, hit, woken) == x \notin hit =>
    /\ \A u \in Task : x \in ToSet(waiters[u]) /\ ~terminal(u) =>
          IF terminal(u)' THEN x \in woken ELSE x \in ToSet(waiters'[u])
    /\ \A s \in Scope :
          owner[s] = x /\ scopeState[s] = "closing" /\ closeWaiter[s] /\ LiveChildren(s) # {} =>
          IF LiveChildren(s)' = {} THEN x \in woken ELSE closeWaiter'[s]

Others(t, hit, woken) ==
    /\ \A x \in Task : x # t => Moved(x, hit, woken) /\ WakesKept(x, hit, woken)
    /\ \A u \in Task : terminal(u) => terminal(u)'
    /\ \A s \in Scope : scopeState[s] = "closing" => LiveChildren(s)' \subseteq LiveChildren(s)
    /\ \A s \in Scope : scopeState[s] = "closed" => LiveChildren(s)' = {}

\* What a task joins is closing: nothing is spawned into it any more.
LEMMA JoiningCloses ==
    ASSUME Lineage, WakeTypes, NEW x \in Task, NEW s \in Joining(x)
    PROVE  s \in Scope /\ owner[s] = x /\ scopeState[s] = "closing" /\ LiveChildren(s) # {}
<1>1. pending[x].scopes \in Seq(Scope) /\ s \in ToSet(pending[x].scopes) /\ ~children_terminal(s)
    BY DEF WakeTypes, Event, Joining
<1>2. s \in Scope
    BY <1>1, RangeIn
<1>3. LiveChildren(s) # {}
    BY <1>1 DEF children_terminal
<1>4. owner[s] = x /\ scopeState[s] \in {"closing", "closed"}
    BY <1>1, <1>2 DEF Lineage, EventsOwned, Closes
<1>5. scopeState[s] # "closed"
    BY <1>2, <1>3 DEF Lineage, ClosedIsEmpty, LiveChildren
<1> QED
    BY <1>2, <1>3, <1>4, <1>5

\* Such a step leaves every other task where it should be: those it cancels
\* and those whose wait it ends are on the queue, the others sleep on.
LEMMA OthersPlaced ==
    ASSUME IInv, Lineage, Wakes, NEW t, NEW hit, NEW woken, Others(t, hit, woken),
           NEW x \in Task, x # t
    PROVE  Placed(x)'
<1>1. Moved(x, hit, woken) /\ WakesKept(x, hit, woken) /\ Placed(x) /\ WakeTypes
    BY DEF Others, Wakes
<1>2. /\ state'[x] = state[x] /\ pending'[x] = pending[x]
      /\ activeScopes'[x] = activeScopes[x] /\ (current' = x <=> current = x)
    BY <1>1 DEF Moved
<1>3. /\ cancelReq'[x] <=> cancelReq[x] \/ x \in hit
      /\ blocked'[x] <=> blocked[x] /\ x \notin hit /\ x \notin woken
      /\ blockedCancel'[x] = IF x \in hit THEN NoEvent ELSE blockedCancel[x]
      /\ Queued(x)' <=> \/ Queued(x)
                        \/ state[x] \in Live /\ (x \in woken \/ (x \in hit /\ blocked[x]))
      /\ x \in woken => current # x
      /\ x \in hit => state[x] \in Live
    BY <1>1 DEF Moved, Queued
<1>4. terminal(x)' <=> terminal(x)
    BY <1>2 DEF terminal
<1>5. blocked'[x] => /\ state'[x] = "running" /\ x # current' /\ ~Queued(x)'
                     /\ blockedCancel'[x] = pending'[x]
    BY <1>1, <1>2, <1>3 DEF Placed
<1>6. Queued(x)' => state'[x] \in Live /\ x # current'
    BY <1>1, <1>2, <1>3 DEF Placed
<1>7. state'[x] = "pending" => Queued(x)'
    BY <1>1, <1>2, <1>3 DEF Placed
<1>8. cancelReq'[x] /\ ~terminal(x)' /\ x # current' => Queued(x)'
    BY <1>1, <1>2, <1>3, <1>4 DEF Placed, Live
<1>9. ASSUME state'[x] = "running", x # current', ~Queued(x)'
      PROVE  blocked'[x] /\ (Awaited(x)' # {} \/ Joining(x)' # {})
  <2>1. /\ state[x] = "running" /\ x # current /\ ~Queued(x) /\ blocked[x]
        /\ x \notin woken /\ x \notin hit /\ ~cancelReq[x] /\ ~terminal(x)
        /\ Awaited(x) # {} \/ Joining(x) # {}
        /\ Registered(x)
    BY <1>1, <1>2, <1>3, <1>9 DEF Placed, Live, terminal, Ended
  <2>2. ASSUME NEW u \in Awaited(x) PROVE u \in Awaited(x)'
    <3>1. u \in Task /\ u \in pending[x].targets /\ ~terminal(u) /\ x \in ToSet(waiters[u])
      BY <1>1, <2>1 DEF Awaited, Registered, WakeTypes, Event
    <3>2. ~terminal(u)'
      BY <1>1, <2>1, <3>1 DEF WakesKept
    <3> QED
      BY <1>2, <3>1, <3>2 DEF Awaited
  <2>3. ASSUME NEW s \in Joining(x) PROVE s \in Joining(x)'
    <3>1. s \in Scope /\ owner[s] = x /\ scopeState[s] = "closing" /\ LiveChildren(s) # {}
      BY <1>1, JoiningCloses
    <3>2. closeWaiter[s] /\ s \in ToSet(pending[x].scopes)
      BY <2>1 DEF Registered, Joining
    <3>3. LiveChildren(s)' # {}
      BY <1>1, <2>1, <3>1, <3>2 DEF WakesKept
    <3> QED
      BY <1>2, <3>2, <3>3 DEF Joining, children_terminal
  <2> QED
    BY <1>3, <2>1, <2>2, <2>3
<1>10. ASSUME state'[x] = "running", x # current', ~cancelReq'[x] PROVE Registered(x)'
  <2>1. Registered(x) /\ x \notin hit
    BY <1>1, <1>2, <1>3, <1>10 DEF Placed
  <2>2. ASSUME NEW u \in Awaited(x)' PROVE x \in ToSet(waiters'[u])
    <3>1. u \in pending[x].targets /\ ~terminal(u)' /\ u \in Task
      BY <1>1, <1>2 DEF Awaited, WakeTypes, Event
    <3>2. ~terminal(u)
      BY <3>1 DEF Others
    <3>3. x \in ToSet(waiters[u])
      BY <2>1, <3>1, <3>2 DEF Registered, Awaited
    <3> QED
      BY <1>1, <2>1, <3>1, <3>2, <3>3 DEF WakesKept
  <2>3. ASSUME NEW s \in Joining(x)' PROVE closeWaiter'[s]
    <3>1. s \in ToSet(pending[x].scopes) /\ LiveChildren(s)' # {}
      BY <1>2 DEF Joining, children_terminal
    <3>2. s \in Scope
      <4>1. pending[x].scopes \in Seq(Scope)
        BY <1>1 DEF WakeTypes, Event
      <4> QED
        BY <3>1, <4>1, RangeIn
    <3>3. owner[s] = x /\ scopeState[s] \in {"closing", "closed"}
      BY <3>1, <3>2 DEF Lineage, EventsOwned, Closes
    <3>4. scopeState[s] = "closing" /\ LiveChildren(s) # {}
      BY <3>1, <3>2, <3>3 DEF Others
    <3>5. closeWaiter[s]
      BY <2>1, <3>1, <3>4 DEF Registered, Joining, children_terminal
    <3> QED
      BY <1>1, <2>1, <3>1, <3>2, <3>3, <3>4, <3>5 DEF WakesKept
  <2> QED
    BY <2>2, <2>3 DEF Registered
<1>11. state'[x] \in {"unborn", "pending"} =>
          pending'[x] = NoEvent /\ blockedCancel'[x] = NoEvent /\ Len(activeScopes'[x]) <= 1
    BY <1>1, <1>2, <1>3 DEF Placed
<1> QED
    BY <1>5, <1>6, <1>7, <1>8, <1>9, <1>10, <1>11 DEF Placed

\* What a step leaves unfinished in a scope: all but the tasks it ends.
LEMMA LivesLeft ==
    ASSUME IInv, Good, Lineage, ClosedIsEmpty', Born' = Born, NEW ended,
           \A x \in Task : terminal(x)' <=> terminal(x) \/ x \in ended
    PROVE  \A s \in Scope : LiveChildren(s)' = LiveChildren(s) \ ended
<1>1. /\ state \in [Task -> States] /\ scopeState \in [Scope -> ScopeStates]
      /\ children \in [Scope -> SUBSET Task]
    BY DEF IInv, Base
<1>2. \A s \in Scope :
          \/ children'[s] = children[s]
          \/ scopeState'[s] = "closed" /\ (scopeState[s] = "closed" \/ children_terminal(s))
  <2>1. BirthStep \/ EnterStep \/ Move
    BY DEF Good
  <2>2. ~BirthStep
    <3>1. ASSUME BirthStep PROVE FALSE
      <4>1. PICK c \in Task : state[c] = "unborn" /\ state' = [state EXCEPT ![c] = "pending"]
        BY <3>1 DEF BirthStep
      <4> QED
        BY <1>1, <4>1 DEF Born
    <3> QED
      BY <3>1
  <2>3. CASE EnterStep
    BY <2>3 DEF EnterStep
  <2>4. CASE Move
    BY <2>4 DEF Move, ScopesMove
  <2> QED
    BY <2>1, <2>2, <2>3, <2>4
<1> SUFFICES ASSUME NEW s \in Scope PROVE LiveChildren(s)' = LiveChildren(s) \ ended
    OBVIOUS
<1>3. CASE children'[s] = children[s]
    BY <1>1, <1>3 DEF LiveChildren
<1>4. CASE scopeState'[s] = "closed" /\ (scopeState[s] = "closed" \/ children_terminal(s))
  <2>1. LiveChildren(s)' = {}
    BY <1>4 DEF ClosedIsEmpty, LiveChildren
  <2>2. LiveChildren(s) = {}
    BY <1>4 DEF Lineage, ClosedIsEmpty, LiveChildren, children_terminal
  <2> QED
    BY <2>1, <2>2
<1> QED
    BY <1>2, <1>3, <1>4

LEMMA WokenByOf ==
    ASSUME NEW C \in Seq(Task)
    PROVE  WokenBy(C) \in Seq(Task) /\ ToSet(WokenBy(C)) = {x \in ToSet(C) : blocked[x]}
<1>1. ToSet(C) \subseteq Task
    BY RangeIn
<1> QED
    BY <1>1, KeptType, KeptRange DEF WokenBy

\* The cleanup of cancelled tasks takes out wakes of theirs only.
LEMMA WakesRemoved ==
    ASSUME NEW W \in [Task -> Seq(Task)], NEW D
    PROVE  /\ RemoveWakes(W, D) \in [Task -> Seq(Task)]
           /\ \A u \in Task, x \in Task :
                x \notin D /\ x \in ToSet(W[u]) => x \in ToSet(RemoveWakes(W, D)[u])
<1> DEFINE S(u) == {x \in Task : x \notin D \/ u \notin blockedCancel[x].targets}
<1>1. RemoveWakes(W, D) = [u \in Task |-> Kept(W[u], S(u))]
    BY DEF RemoveWakes
<1>2. \A u \in Task : \A x \in Task : x \notin D => x \in S(u)
    OBVIOUS
<1> HIDE DEF S
<1>3. \A u \in Task : Kept(W[u], S(u)) \in Seq(Task) /\ ToSet(Kept(W[u], S(u))) = ToSet(W[u]) \cap S(u)
    BY KeptType, KeptRange
<1> QED
    BY <1>1, <1>2, <1>3

LEMMA CloseWakesRemoved ==
    ASSUME Lineage, NEW CW \in [Scope -> BOOLEAN], NEW D \in SUBSET Task
    PROVE  /\ RemoveCloseWakes(CW, D) \in [Scope -> BOOLEAN]
           /\ \A s \in Scope : CW[s] /\ owner[s] \notin D => RemoveCloseWakes(CW, D)[s]
           /\ \A s \in Scope : RemoveCloseWakes(CW, D)[s] => CW[s]
<1>1. \A s \in Scope : RemoveCloseWakes(CW, D)[s] =
            (CW[s] /\ \A x \in D : s \notin ToSet(blockedCancel[x].scopes))
    BY DEF RemoveCloseWakes
<1>2. RemoveCloseWakes(CW, D) \in [Scope -> BOOLEAN]
    BY DEF RemoveCloseWakes
<1>3. \A s \in Scope, x \in Task : s \in ToSet(blockedCancel[x].scopes) => owner[s] = x
    BY DEF Lineage, EventsOwned, Closes
<1> QED
    BY <1>1, <1>2, <1>3

\* What a step of t may hand to the end of t: a queue without it, and wake
\* lists that still hold every wake of the others.
QueueWithout(q, t) == q \in Seq(Task) /\ IsInjective(q) /\ ToSet(q) = ToSet(runnable) \ {t}
WakesOf(W, CW, t) ==
    /\ W \in [Task -> Seq(Task)] /\ CW \in [Scope -> BOOLEAN]
    /\ \A u \in Task : \A x \in ToSet(waiters[u]) : x # t => x \in ToSet(W[u])
    /\ \A s \in Scope : closeWaiter[s] /\ owner[s] # t => CW[s]
    /\ \A s \in Scope : CW[s] => owner[s] \in Task /\ s \in Entered

\* The end of a task (_finish) wakes everybody who waits for it or joins it.
LEMMA FinishWakes ==
    ASSUME IInv, Good, Lineage, Wakes, ClosedIsEmpty',
           NEW t \in Task, state[t] \in Live, current \in {t, Root},
           NEW outcome \in Ended, NEW q, QueueWithout(q, t), NEW W, NEW CW, WakesOf(W, CW, t),
           NEW C \in Seq(Task), \A x \in ToSet(C) : state[x] \in Live,
           owner \in [Scope -> Task \cup {Root}],
           _finish(t, outcome, q, W, CW, C), \A x \in Task : x # t => activeScopes'[x] = activeScopes[x]
    PROVE  /\ Wakes' /\ Passes(t)
           /\ \A o \in Task : outcome = "failed" /\ owner[scopeOf[t]] = o /\ o # t /\ state[o] \in Live
                             => Queued(o)'
<1> DEFINE s    == scopeOf[t]
           hit  == ToSet(C)
           after == [state EXCEPT ![t] = outcome]
           W2   == RemoveWakes(W, hit)
           CW2  == RemoveCloseWakes(CW, hit)
           joined == scopeState[s] = "closing" /\ LiveChildren(s) = {t}
           first == IF outcome = "failed" THEN owner_wake(s) ELSE <<>>
           second == IF joined /\ CW2[s] THEN <<owner[s]>> ELSE <<>>
           last == W2[t]
           wakes == first \o second \o last
           woken == ToSet(wakes)
<1>1. /\ state' = after
      /\ cancelReq' = [x \in Task |-> cancelReq[x] \/ x \in hit]
      /\ blockedCancel' = [x \in Task |->
                IF x \in hit \cup {t} THEN NoEvent ELSE blockedCancel[x]]
      /\ blocked' = [x \in Task |-> blocked[x] /\ x \notin hit \cup woken \cup {t}]
      /\ pending' = [pending EXCEPT ![t] = NoEvent]
      /\ waiters' = [W2 EXCEPT ![t] = <<>>]
      /\ closeWaiter' = [CW2 EXCEPT ![s] = @ /\ ~joined]
      /\ runnable' = schedule(q, WokenBy(C) \o wakes, after)
      /\ current' = Root
      /\ owner' = owner
    BY DEF _finish
<1>2. /\ state \in [Task -> States] /\ scopeOf \in [Task -> Scope]
      /\ cancelReq \in [Task -> BOOLEAN] /\ blocked \in [Task -> BOOLEAN]
      /\ pending \in [Task -> Event] /\ blockedCancel \in [Task -> Event]
      /\ s \in Scope /\ hit \subseteq Task /\ Root \notin Task
  <2>1. Root \notin Task
    BY DEF Task, Root
  <2>2. hit \subseteq Task
    BY RangeIn
  <2> HIDE DEF hit
  <2> QED
    BY <2>1, <2>2 DEF IInv, Base, Wakes, WakeTypes
<1>3. /\ W2 \in [Task -> Seq(Task)]
      /\ \A u \in Task, x \in Task : x \notin hit /\ x \in ToSet(W[u]) => x \in ToSet(W2[u])
  <2>1. W \in [Task -> Seq(Task)]
    BY DEF WakesOf
  <2> HIDE DEF hit
  <2> QED
    BY <2>1, WakesRemoved
<1>4. /\ CW2 \in [Scope -> BOOLEAN]
      /\ \A r \in Scope : CW[r] /\ owner[r] \notin hit => CW2[r]
      /\ \A r \in Scope : CW2[r] => CW[r]
  <2>1. CW \in [Scope -> BOOLEAN]
    BY DEF WakesOf
  <2> HIDE DEF hit
  <2> QED
    BY <1>2, <2>1, CloseWakesRemoved
<1> HIDE DEF W2, CW2
<1>5. /\ first \in Seq(Task) /\ second \in Seq(Task) /\ last \in Seq(Task)
      /\ joined /\ CW2[s] => owner[s] \in ToSet(second)
      /\ outcome = "failed" /\ owner[s] # Root => owner[s] \in ToSet(first)
  <2>1. /\ first \in Seq(Task)
        /\ outcome = "failed" /\ owner[s] # Root => owner[s] \in ToSet(first)
    BY <1>2, EmptySeq, OneElement DEF owner_wake
  <2>2. CASE joined /\ CW2[s]
    <3>1. owner[s] \in Task
      BY <1>2, <1>4, <2>2 DEF WakesOf
    <3> QED
      BY <1>3, <2>1, <2>2, <3>1, OneElement
  <2>3. CASE ~(joined /\ CW2[s])
    BY <1>3, <2>1, <2>3, EmptySeq
  <2> QED
    BY <2>2, <2>3
<1> HIDE DEF first, second, last, joined
<1>6. /\ wakes \in Seq(Task) /\ woken \subseteq Task
      /\ ToSet(last) \subseteq woken /\ ToSet(second) \subseteq woken /\ ToSet(first) \subseteq woken
  <2> DEFINE both == first \o second
  <2>1. both \in Seq(Task) /\ ToSet(both) = ToSet(first) \cup ToSet(second)
    BY <1>5, RangeConcat, ConcatProperties
  <2> HIDE DEF both
  <2>2. both \o last \in Seq(Task) /\ ToSet(both \o last) = ToSet(both) \cup ToSet(last)
    BY <1>5, <2>1, RangeConcat, ConcatProperties
  <2> QED
    BY <2>1, <2>2, RangeIn DEF both
<1> HIDE DEF wakes
<1>7. /\ runnable' \in Seq(Task) /\ IsInjective(runnable')
      /\ \A x \in Task : x \in ToSet(runnable') <=>
            \/ x \in ToSet(runnable) /\ x # t
            \/ after[x] \in Live /\ (x \in woken \/ (x \in hit /\ blocked[x]))
  <2> DEFINE c == WokenBy(C)
             all == c \o wakes
  <2>1. c \in Seq(Task) /\ ToSet(c) = {x \in hit : blocked[x]}
    BY WokenByOf
  <2> HIDE DEF c
  <2>2. all \in Seq(Task) /\ ToSet(all) = ToSet(c) \cup woken
    BY <1>6, <2>1, RangeConcat, ConcatProperties
  <2> HIDE DEF all, after
  <2>3. q \in Seq(Task) /\ IsInjective(q) /\ ToSet(q) = ToSet(runnable) \ {t}
    BY DEF QueueWithout
  <2>4. /\ schedule(q, all, after) \in Seq(Task) /\ IsInjective(schedule(q, all, after))
        /\ \A x : x \in ToSet(schedule(q, all, after)) <=>
                x \in ToSet(q) \/ (x \in ToSet(all) /\ after[x] \in Live)
    BY <2>2, <2>3, Scheduled
  <2>5. runnable' = schedule(q, all, after)
    BY <1>1 DEF all, c
  <2> HIDE DEF hit, woken
  <2> QED
    BY <2>1, <2>2, <2>3, <2>4, <2>5
<1> HIDE DEF hit, woken
<1>8. \A x \in Task : x # t => after[x] = state[x] /\ state'[x] = state[x]
    BY <1>1, <1>2
<1>9. state'[t] = outcome /\ after[t] \notin Live /\ terminal(t)' /\ state'[t] \notin {"unborn", "pending", "running"}
    BY <1>1, <1>2 DEF terminal, Ended, Live
<1>10. \A x \in Task : terminal(x)' <=> terminal(x) \/ x \in {t}
    BY <1>8, <1>9 DEF terminal
<1> HIDE DEF after
<1>11. \A r \in Scope : LiveChildren(r)' = LiveChildren(r) \ {t}
  <2>1. Born' = Born
    BY <1>8, <1>9 DEF Born, Live
  <2> QED
    BY <1>10, <2>1, LivesLeft
<1>12. ASSUME NEW x \in Task, x # t PROVE Moved(x, hit, woken)
  <2>1. /\ state'[x] = state[x] /\ pending'[x] = pending[x]
        /\ activeScopes'[x] = activeScopes[x]
    BY <1>1, <1>2, <1>8, <1>12
  <2>2. current' # x /\ current # x
    BY <1>1, <1>2, <1>12
  <2>3. /\ cancelReq'[x] <=> cancelReq[x] \/ x \in hit
        /\ blocked'[x] <=> blocked[x] /\ x \notin hit /\ x \notin woken
    BY <1>1, <1>2, <1>12
  <2>4. blockedCancel'[x] = IF x \in hit THEN NoEvent ELSE blockedCancel[x]
    BY <1>1, <1>2, <1>12
  <2>5. x \in ToSet(runnable') <=>
          \/ x \in ToSet(runnable)
          \/ state[x] \in Live /\ (x \in woken \/ (x \in hit /\ blocked[x]))
    BY <1>7, <1>8, <1>12
  <2>6. x \in hit => state[x] \in Live
    BY DEF hit
  <2> QED
    BY <2>1, <2>2, <2>3, <2>4, <2>5, <2>6 DEF Moved
<1>13. ~terminal(t) /\ \A r \in Scope : t \in LiveChildren(r) => r = s
    BY DEF Live, terminal, Ended, LiveChildren, Lineage, ChildrenAtHome
<1>14. ASSUME NEW x \in Task, x # t, x \notin hit PROVE WakesKept(x, hit, woken)
  <2>1. ASSUME NEW u \in Task, x \in ToSet(waiters[u]), ~terminal(u)
        PROVE  IF terminal(u)' THEN x \in woken ELSE x \in ToSet(waiters'[u])
    <3>1. x \in ToSet(W2[u])
      BY <1>3, <1>14, <2>1 DEF WakesOf
    <3>2. CASE u = t
      BY <1>6, <1>9, <3>1, <3>2 DEF last
    <3>3. CASE u # t
      <4>1. ~terminal(u)'
        BY <1>10, <2>1, <3>3
      <4>2. waiters'[u] = W2[u]
        BY <1>1, <1>3, <3>3
      <4> QED
        BY <3>1, <4>1, <4>2
    <3> QED
      BY <3>2, <3>3
  <2>2. ASSUME NEW r \in Scope, owner[r] = x, scopeState[r] = "closing", closeWaiter[r],
               LiveChildren(r) # {}
        PROVE  IF LiveChildren(r)' = {} THEN x \in woken ELSE closeWaiter'[r]
    <3>1. CW2[r]
      BY <1>4, <1>14, <2>2 DEF WakesOf
    <3>2. CASE LiveChildren(r)' = {}
      <4>1. LiveChildren(r) = {t} /\ r = s
        BY <1>11, <1>13, <2>2, <3>2
      <4>2. joined
        BY <2>2, <4>1 DEF joined
      <4> QED
        BY <1>5, <1>6, <2>2, <3>1, <3>2, <4>1, <4>2
    <3>3. CASE ~(LiveChildren(r)' = {})
      <4>1. r = s => ~joined
        BY <1>11, <3>3 DEF joined
      <4> QED
        BY <1>1, <1>4, <3>1, <3>3, <4>1
    <3> QED
      BY <3>2, <3>3
  <2> QED
    BY <2>1, <2>2 DEF WakesKept
<1>15. Others(t, hit, woken)
    BY <1>10, <1>11, <1>12, <1>14 DEF Others, WakesKept, Lineage, ClosedIsEmpty, LiveChildren
<1>16. \A x \in Task : x # t => Placed(x)'
    BY <1>15, OthersPlaced
<1>17. Placed(t)'
  <2>1. ~blocked'[t] /\ ~Queued(t)'
    BY <1>1, <1>2, <1>7, <1>9 DEF Queued
  <2> QED
    BY <1>9, <2>1 DEF Placed
<1>18. NoEvent \in Event
    BY EmptySeq DEF NoEvent, Event
<1>19. WakeTypes'
  <2>1. cancelReq' \in [Task -> BOOLEAN] /\ blocked' \in [Task -> BOOLEAN]
    BY <1>1, <1>2
  <2>2. pending' \in [Task -> Event] /\ blockedCancel' \in [Task -> Event]
    BY <1>1, <1>2, <1>18
  <2>3. waiters' \in [Task -> Seq(Task)]
    BY <1>1, <1>3, EmptySeq
  <2>4. closeWaiter' \in [Scope -> BOOLEAN]
    BY <1>1, <1>4
  <2> QED
    BY <1>1, <1>7, <2>1, <2>2, <2>3, <2>4 DEF WakeTypes
<1>20. WakeOwners'
  <2>1. \A r \in Scope : closeWaiter'[r] => CW2[r]
    BY <1>1, <1>4
  <2>2. \A r \in Scope : CW[r] => owner[r] \in Task /\ r \in Entered
    BY DEF WakesOf
  <2>3. Entered \subseteq Entered'
    BY Onward
  <2> QED
    BY <1>1, <1>2, <1>4, <2>1, <2>2, <2>3 DEF WakeOwners
<1>21. Passes(t)
  <2>1. \A x \in Task : x # t => (Queued(x) => Queued(x)') /\ pending'[x] = pending[x]
    BY <1>1, <1>2, <1>7 DEF Queued
  <2> QED
    BY <1>1, <1>2, <1>8, <1>10, <2>1 DEF Passes
<1>22. ASSUME NEW o \in Task, outcome = "failed", owner[scopeOf[t]] = o, o # t, state[o] \in Live
       PROVE  Queued(o)'
  <2>1. o \in woken
    BY <1>2, <1>5, <1>6, <1>22
  <2>2. after[o] \in Live
    BY <1>8, <1>22
  <2> QED
    BY <1>7, <1>22, <2>1, <2>2 DEF Queued
<1> QED
    BY <1>16, <1>17, <1>19, <1>20, <1>21, <1>22 DEF Wakes

\* What a cascade over hit makes of a queue q and of wake lists W and CW.
Cancelled(hit, q, W, CW) ==
    /\ cancelReq' = [x \in Task |-> cancelReq[x] \/ x \in hit]
    /\ runnable' \in Seq(Task) /\ IsInjective(runnable')
    /\ \A x \in Task : x \in ToSet(runnable') <=>
          x \in ToSet(q) \/ (state[x] \in Live /\ x \in hit /\ blocked[x])
    /\ waiters' \in [Task -> Seq(Task)]
    /\ \A u \in Task, x \in Task : x \notin hit /\ x \in ToSet(W[u]) => x \in ToSet(waiters'[u])
    /\ closeWaiter' \in [Scope -> BOOLEAN]
    /\ \A s \in Scope : /\ CW[s] /\ owner[s] \notin hit => closeWaiter'[s]
                        /\ closeWaiter'[s] => CW[s]

LEMMA CancellingDoes ==
    ASSUME Lineage, NEW t, NEW q, QueueWithout(q, t), NEW W, NEW CW, WakesOf(W, CW, t),
           NEW C \in Seq(Task), Cancelling(C, q, W, CW)
    PROVE  Cancelled(ToSet(C), q, W, CW)
<1> DEFINE hit == ToSet(C)
           c == WokenBy(C)
<1>1. /\ cancelReq' = [x \in Task |-> cancelReq[x] \/ x \in hit]
      /\ waiters' = RemoveWakes(W, hit)
      /\ closeWaiter' = RemoveCloseWakes(CW, hit)
      /\ runnable' = schedule(q, c, state)
    BY DEF Cancelling
<1>2. hit \subseteq Task
    BY RangeIn
<1>3. c \in Seq(Task) /\ ToSet(c) = {x \in hit : blocked[x]}
    BY WokenByOf
<1>4. q \in Seq(Task) /\ IsInjective(q) /\ W \in [Task -> Seq(Task)] /\ CW \in [Scope -> BOOLEAN]
    BY DEF QueueWithout, WakesOf
<1> HIDE DEF hit, c
<1>5. /\ runnable' \in Seq(Task) /\ IsInjective(runnable')
      /\ \A x : x \in ToSet(runnable') <=>
            x \in ToSet(q) \/ (x \in ToSet(c) /\ state[x] \in Live)
  <2>1. /\ schedule(q, c, state) \in Seq(Task) /\ IsInjective(schedule(q, c, state))
        /\ \A x : x \in ToSet(schedule(q, c, state)) <=>
              x \in ToSet(q) \/ (x \in ToSet(c) /\ state[x] \in Live)
    BY <1>3, <1>4, Scheduled
  <2> QED
    BY <1>1, <2>1
<1>6. /\ waiters' \in [Task -> Seq(Task)]
      /\ \A u \in Task, x \in Task : x \notin hit /\ x \in ToSet(W[u]) => x \in ToSet(waiters'[u])
    BY <1>1, <1>4, WakesRemoved
<1>7. /\ closeWaiter' \in [Scope -> BOOLEAN]
      /\ \A s \in Scope : /\ CW[s] /\ owner[s] \notin hit => closeWaiter'[s]
                          /\ closeWaiter'[s] => CW[s]
    BY <1>1, <1>2, <1>4, CloseWakesRemoved
<1>8. \A x \in Task : x \in ToSet(runnable') <=>
          x \in ToSet(q) \/ (state[x] \in Live /\ x \in hit /\ blocked[x])
    BY <1>3, <1>5
<1> QED
    BY <1>1, <1>5, <1>6, <1>7, <1>8 DEF Cancelled, hit

\* A step that cancels nobody leaves queue and wakes to their new values.
LEMMA NobodyCancelled ==
    ASSUME IInv, Wakes, NEW t, NEW q, QueueWithout(q, t), NEW W, NEW CW, WakesOf(W, CW, t),
           cancelReq' = cancelReq, runnable' = q, waiters' = W, closeWaiter' = CW
    PROVE  Cancelled({}, q, W, CW)
<1>1. cancelReq \in [Task -> BOOLEAN]
    BY DEF Wakes, WakeTypes
<1>2. cancelReq = [x \in Task |-> cancelReq[x] \/ x \in {}]
    BY <1>1
<1> QED
    BY <1>1, <1>2 DEF Cancelled, QueueWithout, WakesOf

\* What a step that ends nobody and suspends at most t does to the others.
OnlyUnblocks(t, hit) == \A x \in Task : x # t =>
    /\ state'[x] = state[x] /\ pending'[x] = pending[x] /\ activeScopes'[x] = activeScopes[x]
    /\ blocked'[x] <=> blocked[x] /\ x \notin hit
    /\ blockedCancel'[x] = IF x \in hit THEN NoEvent ELSE blockedCancel[x]

LEMMA OthersOn ==
    ASSUME IInv, Good, Lineage, Wakes, ClosedIsEmpty', Born' = Born,
           \A x \in Task : terminal(x)' <=> terminal(x),
           NEW t, NEW q, QueueWithout(q, t), NEW W, NEW CW, WakesOf(W, CW, t),
           NEW hit \in SUBSET Task, \A x \in hit : state[x] \in Live,
           Cancelled(hit, q, W, CW), OnlyUnblocks(t, hit),
           current \in {t, Root}, current' \in {t, Root}
    PROVE  /\ \A x \in Task : x # t => Placed(x)'
           /\ \A s \in Scope : LiveChildren(s)' = LiveChildren(s)
<1>1. \A s \in Scope : LiveChildren(s)' = LiveChildren(s)
  <2>1. \A x \in Task : terminal(x)' <=> terminal(x) \/ x \in {}
    OBVIOUS
  <2>2. \A s \in Scope : LiveChildren(s)' = LiveChildren(s) \ {}
    BY <2>1, LivesLeft
  <2> QED
    BY <2>2
<1>2. Root \notin Task
    BY DEF Root, Task
<1>3. ASSUME NEW x \in Task, x # t PROVE Moved(x, hit, {})
  <2>1. current # x /\ current' # x
    BY <1>2, <1>3
  <2>2. /\ state'[x] = state[x] /\ pending'[x] = pending[x] /\ activeScopes'[x] = activeScopes[x]
        /\ blocked'[x] <=> blocked[x] /\ x \notin hit
        /\ blockedCancel'[x] = IF x \in hit THEN NoEvent ELSE blockedCancel[x]
    BY <1>3 DEF OnlyUnblocks
  <2>3. x \in ToSet(runnable') <=>
          x \in ToSet(runnable) \/ (state[x] \in Live /\ x \in hit /\ blocked[x])
    BY <1>3 DEF Cancelled, QueueWithout
  <2>4. cancelReq'[x] <=> cancelReq[x] \/ x \in hit
    BY DEF Cancelled
  <2> QED
    BY <2>1, <2>2, <2>3, <2>4 DEF Moved
<1>4. ASSUME NEW x \in Task, x # t PROVE WakesKept(x, hit, {})
  <2> SUFFICES ASSUME x \notin hit
               PROVE  /\ \A u \in Task : x \in ToSet(waiters[u]) /\ ~terminal(u) =>
                            ~terminal(u)' /\ x \in ToSet(waiters'[u])
                      /\ \A s \in Scope : owner[s] = x /\ closeWaiter[s] /\ LiveChildren(s) # {} =>
                            LiveChildren(s)' # {} /\ closeWaiter'[s]
    BY DEF WakesKept
  <2> QED
    BY <1>1, <1>4 DEF Cancelled, WakesOf
<1>5. Others(t, hit, {})
  <2>1. \A s \in Scope : scopeState[s] = "closed" => LiveChildren(s)' = {}
    BY <1>1 DEF Lineage, ClosedIsEmpty, LiveChildren
  <2> QED
    BY <1>1, <1>3, <1>4, <2>1 DEF Others
<1> QED
    BY <1>1, <1>5, OthersPlaced

\* The wake lists of a suspension: the task itself is on every one it needs.
Awaits(t, event, W, CW) ==
    /\ \A u \in event.targets : ~terminal(u) => t \in ToSet(W[u])
    /\ \A s \in ToSet(event.scopes) : s \in Scope /\ owner[s] = t
    /\ \A s \in ToSet(event.scopes) : LiveChildren(s) # {} => CW[s]
    /\ \/ \E u \in event.targets : ~terminal(u)
       \/ \E s \in ToSet(event.scopes) : LiveChildren(s) # {}

\* A task that blocks (TaskBlocked) sleeps with its wakes in place, whoever it
\* cancels as it does.
LEMMA SuspendWakes ==
    ASSUME IInv, Good, Lineage, Wakes, ClosedIsEmpty',
           NEW t \in Task, state[t] = "running", ~cancelReq[t], current \in {t, Root},
           NEW q, QueueWithout(q, t), NEW W, NEW CW, WakesOf(W, CW, t),
           NEW C \in Seq(Task), t \notin ToSet(C), \A x \in ToSet(C) : state[x] \in Live,
           Cancelled(ToSet(C), q, W, CW),
           NEW event \in Event, Suspend(t, event, C), Awaits(t, event, W, CW),
           state' = state, owner' = owner,
           \A x \in Task : x # t => activeScopes'[x] = activeScopes[x]
    PROVE  Wakes'
<1> DEFINE hit == ToSet(C)
<1>1. /\ blocked' = [x \in Task |-> IF x = t THEN TRUE ELSE blocked[x] /\ x \notin hit]
      /\ blockedCancel' = [x \in Task |-> IF x = t THEN event
            ELSE IF x \in hit THEN NoEvent ELSE blockedCancel[x]]
      /\ pending' = [pending EXCEPT ![t] = event]
      /\ current' = Root
    BY DEF Suspend
<1>2. /\ blocked \in [Task -> BOOLEAN] /\ cancelReq \in [Task -> BOOLEAN]
      /\ pending \in [Task -> Event] /\ blockedCancel \in [Task -> Event] /\ Root \notin Task
    BY DEF Wakes, WakeTypes, Task, Root
<1>3. hit \subseteq Task
    BY RangeIn
<1> HIDE DEF hit
<1>4. OnlyUnblocks(t, hit)
    BY <1>1, <1>2 DEF OnlyUnblocks
<1>5. /\ \A x \in Task : x # t => Placed(x)'
      /\ \A s \in Scope : LiveChildren(s)' = LiveChildren(s)
  <2>1. Cancelled(hit, q, W, CW) /\ \A x \in hit : state[x] \in Live
    BY DEF hit
  <2>2. Born' = Born /\ \A x \in Task : terminal(x)' <=> terminal(x)
    BY DEF Born, terminal
  <2>3. current' \in {t, Root}
    BY <1>1
  <2> QED
    BY <1>3, <1>4, <2>1, <2>2, <2>3, OthersOn
<1>6. /\ cancelReq' = [x \in Task |-> cancelReq[x] \/ x \in hit]
      /\ runnable' \in Seq(Task) /\ IsInjective(runnable')
      /\ \A x \in Task : x \in ToSet(runnable') <=>
            x \in ToSet(q) \/ (state[x] \in Live /\ x \in hit /\ blocked[x])
      /\ waiters' \in [Task -> Seq(Task)] /\ closeWaiter' \in [Scope -> BOOLEAN]
      /\ \A u \in Task, x \in Task : x \notin hit /\ x \in ToSet(W[u]) => x \in ToSet(waiters'[u])
      /\ \A s \in Scope : /\ CW[s] /\ owner[s] \notin hit => closeWaiter'[s]
                          /\ closeWaiter'[s] => CW[s]
    BY DEF Cancelled, hit
<1>7. Placed(t)'
  <2>1. /\ blocked'[t] /\ blockedCancel'[t] = event /\ pending'[t] = event
        /\ state'[t] = "running" /\ t # current' /\ t \notin hit
    BY <1>1, <1>2 DEF hit
  <2>2. ~Queued(t)' /\ ~cancelReq'[t]
    BY <1>2, <1>6, <2>1 DEF Queued, QueueWithout
  <2>3. Registered(t)'
    <3>1. ASSUME NEW u \in Awaited(t)' PROVE t \in ToSet(waiters'[u])
      <4>1. u \in event.targets /\ ~terminal(u) /\ u \in Task
        BY <2>1 DEF Awaited, terminal, Event
      <4> QED
        BY <1>6, <2>1, <4>1 DEF Awaits
    <3>2. ASSUME NEW s \in Joining(t)' PROVE closeWaiter'[s]
      <4>1. s \in ToSet(event.scopes) /\ s \in Scope /\ LiveChildren(s) # {} /\ owner[s] = t
        BY <1>5, <2>1 DEF Joining, children_terminal, Awaits
      <4> QED
        BY <1>6, <2>1, <4>1 DEF Awaits
    <3> QED
      BY <3>1, <3>2 DEF Registered
  <2>4. Awaited(t)' # {} \/ Joining(t)' # {}
    <3>1. CASE \E u \in event.targets : ~terminal(u)
      BY <2>1, <3>1 DEF Awaited, terminal
    <3>2. CASE \E s \in ToSet(event.scopes) : LiveChildren(s) # {}
      <4>1. PICK s \in ToSet(event.scopes) : LiveChildren(s) # {}
        BY <3>2
      <4>2. s \in Scope /\ LiveChildren(s)' # {}
        BY <1>5, <4>1 DEF Awaits
      <4> QED
        BY <2>1, <4>1, <4>2 DEF Joining, children_terminal
    <3> QED
      BY <3>1, <3>2 DEF Awaits
  <2> QED
    BY <2>1, <2>2, <2>3, <2>4 DEF Placed
<1>8. WakeTypes'
  <2>1. NoEvent \in Event
    BY EmptySeq DEF NoEvent, Event
  <2>2. cancelReq' \in [Task -> BOOLEAN] /\ blocked' \in [Task -> BOOLEAN]
    BY <1>1, <1>2, <1>6
  <2>3. pending' \in [Task -> Event] /\ blockedCancel' \in [Task -> Event]
    BY <1>1, <1>2, <2>1
  <2> QED
    BY <1>1, <1>6, <2>2, <2>3 DEF WakeTypes
<1>9. WakeOwners'
  <2>1. Entered \subseteq Entered'
    BY Onward
  <2> QED
    BY <1>2, <1>6, <2>1 DEF WakeOwners, WakesOf
<1> QED
    BY <1>5, <1>7, <1>8, <1>9 DEF Wakes

\* The wake lists as they are, and the queue without the running task.
LEMMA WakesAsTheyAre ==
    ASSUME Wakes, owner \in [Scope -> Task \cup {Root}], NEW t
    PROVE  /\ WakesOf(waiters, closeWaiter, t)
           /\ QueueWithout(runnable, current)
<1>1. WakesOf(waiters, closeWaiter, t)
    BY DEF Wakes, WakeTypes, WakeOwners, WakesOf
<1>2. runnable \in Seq(Task) /\ IsInjective(runnable) /\ current \in Task \cup {Root}
    BY DEF Wakes, WakeTypes
<1>3. current \notin ToSet(runnable)
  <2>1. ToSet(runnable) \subseteq Task
    BY <1>2, RangeIn
  <2>2. Root \notin Task
    BY DEF Root, Task
  <2>3. \A x \in Task : x \in ToSet(runnable) => x # current
    BY DEF Wakes, Placed, Queued
  <2> QED
    BY <1>2, <2>1, <2>2, <2>3
<1> QED
    BY <1>1, <1>2, <1>3 DEF QueueWithout

\* The queue a quantum takes its task from.
LEMMA FromTheQueue ==
    ASSUME Wakes, NEW t, runnable # <<>>, t = Head(runnable)
    PROVE  /\ t \in Task /\ Queued(t) /\ QueueWithout(Tail(runnable), t)
           /\ ~blocked[t] /\ t # current
<1>1. runnable \in Seq(Task) /\ IsInjective(runnable)
    BY DEF Wakes, WakeTypes
<1>2. /\ t \in Task /\ Tail(runnable) \in Seq(Task) /\ t \in ToSet(runnable)
      /\ ToSet(runnable) = {t} \cup ToSet(Tail(runnable))
      /\ IsInjective(Tail(runnable)) /\ t \notin ToSet(Tail(runnable))
    BY <1>1, Behead
<1>3. QueueWithout(Tail(runnable), t)
    BY <1>2 DEF QueueWithout
<1> QED
    BY <1>2, <1>3 DEF Wakes, Placed, Queued

\* A task that keeps running is where it should be.
LEMMA RunnerPlaced ==
    ASSUME NEW t \in Task, current' = t, state'[t] = "running", ~blocked'[t], ~Queued(t)'
    PROVE  Placed(t)'
    BY DEF Placed

\* A cancellation that suspends and ends nobody.
LEMMA CancelWakes ==
    ASSUME IInv, Good, Lineage, Wakes, ClosedIsEmpty', owner \in [Scope -> Task \cup {Root}],
           NEW C \in Seq(Task), \A x \in ToSet(C) : state[x] \in Live,
           \A t \in Task : current = t => state[t] = "running",
           Cancelling(C, runnable, waiters, closeWaiter), Unblock(C),
           UNCHANGED <<state, pending, activeScopes, owner, current>>
    PROVE  Wakes'
<1> DEFINE hit == ToSet(C)
<1>1. /\ blocked' = [x \in Task |-> blocked[x] /\ x \notin hit]
      /\ blockedCancel' = [x \in Task |-> IF x \in hit THEN NoEvent ELSE blockedCancel[x]]
    BY DEF Unblock
<1>2. /\ blocked \in [Task -> BOOLEAN] /\ cancelReq \in [Task -> BOOLEAN]
      /\ pending \in [Task -> Event] /\ blockedCancel \in [Task -> Event] /\ Root \notin Task
      /\ current \in Task \cup {Root}
    BY DEF Wakes, WakeTypes, Task, Root
<1>3. hit \subseteq Task
    BY RangeIn
<1>4. WakesOf(waiters, closeWaiter, current) /\ QueueWithout(runnable, current)
    BY WakesAsTheyAre
<1>5. Cancelled(hit, runnable, waiters, closeWaiter)
    BY <1>4, CancellingDoes
<1>6. \A x \in hit : state[x] \in Live
    OBVIOUS
<1> HIDE DEF hit
<1>7. OnlyUnblocks(current, hit)
    BY <1>1, <1>2 DEF OnlyUnblocks
<1>8. \A x \in Task : x # current => Placed(x)'
  <2>1. Born' = Born /\ \A x \in Task : terminal(x)' <=> terminal(x)
    BY DEF Born, terminal
  <2>2. PICK t : t = current
    OBVIOUS
  <2>3. current' \in {t, Root} /\ current \in {t, Root}
    BY <2>2
  <2>4. WakesOf(waiters, closeWaiter, t) /\ QueueWithout(runnable, t) /\ OnlyUnblocks(t, hit)
    BY <1>4, <1>7, <2>2
  <2>5. \A x \in Task : x # t => Placed(x)'
    BY <1>3, <1>5, <1>6, <2>1, <2>3, <2>4, OthersOn
  <2> QED
    BY <2>2, <2>5
<1>9. ASSUME NEW t \in Task, t = current PROVE Placed(t)'
  <2>1. state'[t] = "running" /\ current' = t
    BY <1>9
  <2>2. ~blocked[t] /\ ~Queued(t)
    BY <1>9 DEF Wakes, Placed
  <2>3. ~blocked'[t]
    BY <1>1, <2>2
  <2>4. ~Queued(t)'
    BY <1>5, <2>2 DEF Queued, Cancelled
  <2> QED
    BY <2>1, <2>3, <2>4, RunnerPlaced
<1>10. WakeTypes'
  <2>1. NoEvent \in Event
    BY EmptySeq DEF NoEvent, Event
  <2>2. cancelReq' \in [Task -> BOOLEAN]
    BY <1>2, <1>5 DEF Cancelled
  <2>3. blocked' \in [Task -> BOOLEAN] /\ blockedCancel' \in [Task -> Event]
    BY <1>1, <1>2, <2>1
  <2> QED
    BY <1>2, <1>5, <2>2, <2>3 DEF WakeTypes, Cancelled
<1>11. WakeOwners'
  <2>1. Entered \subseteq Entered'
    BY Onward
  <2> QED
    BY <1>5, <2>1 DEF Cancelled, WakeOwners, Wakes
<1> QED
    BY <1>8, <1>9, <1>10, <1>11 DEF Wakes

\* A step that writes neither the tasks nor the queue nor a wake.
LEMMA StillWakes ==
    ASSUME IInv, Good, Lineage, Wakes, ClosedIsEmpty', owner \in [Scope -> Task \cup {Root}],
           UNCHANGED <<state, cancelReq, blocked, blockedCancel, pending, waiters,
                       closeWaiter, runnable, current>>,
           \A t \in Task : current = t => state[t] = "running",
           \A x \in Task : x # current => activeScopes'[x] = activeScopes[x],
           \A s \in Scope : closeWaiter[s] => owner'[s] = owner[s]
    PROVE  Wakes'
<1>1. WakesOf(waiters, closeWaiter, current) /\ QueueWithout(runnable, current)
    BY WakesAsTheyAre
<1>2. Cancelled({}, runnable, waiters, closeWaiter)
    BY <1>1, NobodyCancelled
<1>3. OnlyUnblocks(current, {})
    BY DEF OnlyUnblocks
<1>4. \A x \in Task : x # current => Placed(x)'
  <2>1. Born' = Born /\ \A x \in Task : terminal(x)' <=> terminal(x)
    BY DEF Born, terminal
  <2>2. PICK t : t = current
    OBVIOUS
  <2>3. current' \in {t, Root} /\ current \in {t, Root}
    BY <2>2
  <2>4. WakesOf(waiters, closeWaiter, t) /\ QueueWithout(runnable, t) /\ OnlyUnblocks(t, {})
    BY <1>1, <1>3, <2>2
  <2>5. \A x \in Task : x # t => Placed(x)'
    BY <1>2, <2>1, <2>3, <2>4, OthersOn
  <2> QED
    BY <2>2, <2>5
<1>5. ASSUME NEW t \in Task, t = current PROVE Placed(t)'
  <2>1. state'[t] = "running" /\ current' = t
    BY <1>5
  <2>2. ~blocked[t] /\ ~Queued(t)
    BY <1>5 DEF Wakes, Placed
  <2> QED
    BY <2>1, <2>2, RunnerPlaced DEF Queued
<1>6. WakeTypes'
    BY DEF Wakes, WakeTypes
<1>7. WakeOwners'
  <2>1. Entered \subseteq Entered'
    BY Onward
  <2> QED
    BY <2>1 DEF WakeOwners, Wakes
<1> QED
    BY <1>4, <1>5, <1>6, <1>7 DEF Wakes

\* A task that yields goes to the queue with nothing to wait for.
LEMMA YieldWakes ==
    ASSUME IInv, Good, Lineage, Wakes, ClosedIsEmpty', owner \in [Scope -> Task \cup {Root}],
           NEW t \in Task, current = t, state[t] = "running", pending[t] = NoEvent, ~cancelReq[t],
           runnable' = schedule(runnable, <<t>>, state), current' = Root,
           UNCHANGED <<taskVars, activeScopes, owner, closeWaiter>>
    PROVE  Wakes'
<1>1. /\ WakesOf(waiters, closeWaiter, t) /\ QueueWithout(runnable, t)
      /\ runnable \in Seq(Task) /\ IsInjective(runnable)
    BY WakesAsTheyAre DEF Wakes, WakeTypes
<1>2. /\ runnable' \in Seq(Task) /\ IsInjective(runnable')
      /\ \A x : x \in ToSet(runnable') <=> x \in ToSet(runnable) \/ x = t
  <2> DEFINE one == <<t>>
  <2>1. one \in Seq(Task) /\ ToSet(one) = {t}
    BY OneElement
  <2> HIDE DEF one
  <2>2. /\ schedule(runnable, one, state) \in Seq(Task) /\ IsInjective(schedule(runnable, one, state))
        /\ \A x : x \in ToSet(schedule(runnable, one, state)) <=>
              x \in ToSet(runnable) \/ (x \in ToSet(one) /\ state[x] \in Live)
    BY <1>1, <2>1, Scheduled
  <2>3. runnable' = schedule(runnable, one, state) /\ state[t] \in Live
    BY DEF one, Live
  <2> QED
    BY <2>1, <2>2, <2>3
<1>3. UNCHANGED <<state, scopeOf, cancelReq, blocked, blockedCancel, pending, waiters>>
    BY DEF taskVars
<1>4. Root \notin Task
    BY DEF Root, Task
<1>5. \A s \in Scope : LiveChildren(s)' = LiveChildren(s)
  <2>1. Born' = Born /\ \A x \in Task : terminal(x)' <=> terminal(x) \/ x \in {}
    BY <1>3 DEF Born, terminal
  <2>2. \A s \in Scope : LiveChildren(s)' = LiveChildren(s) \ {}
    BY <2>1, LivesLeft
  <2> QED
    BY <2>2
<1>6. Others(t, {}, {})
  <2>1. ASSUME NEW x \in Task, x # t PROVE Moved(x, {}, {})
    BY <1>2, <1>3, <1>4, <2>1 DEF Moved
  <2>2. ASSUME NEW x \in Task PROVE WakesKept(x, {}, {})
    BY <1>3, <1>5 DEF WakesKept, terminal
  <2> QED
    BY <1>3, <1>5, <2>1, <2>2 DEF Others, terminal, Lineage, ClosedIsEmpty, LiveChildren
<1>7. \A x \in Task : x # t => Placed(x)'
    BY <1>6, OthersPlaced
<1>8. Placed(t)'
  <2>1. Queued(t)' /\ ~blocked'[t] /\ state'[t] = "running" /\ pending'[t] = NoEvent /\ t # current'
    BY <1>2, <1>3, <1>4 DEF Queued, Wakes, Placed
  <2>2. Registered(t)'
    BY <2>1, RangeEmpty DEF Registered, Awaited, Joining, NoEvent
  <2> QED
    BY <2>1, <2>2 DEF Placed, Live
<1>9. WakeTypes'
    BY <1>2, <1>3 DEF Wakes, WakeTypes
<1>10. WakeOwners'
  <2>1. Entered \subseteq Entered'
    BY Onward
  <2> QED
    BY <2>1 DEF WakeOwners, Wakes
<1> QED
    BY <1>7, <1>8, <1>9, <1>10 DEF Wakes

\* A queued task goes on: it leaves the queue and runs.
LEMMA RunWakes ==
    ASSUME IInv, Good, Lineage, Wakes, ClosedIsEmpty', owner \in [Scope -> Task \cup {Root}],
           NEW t, runnable # <<>>, t = Head(runnable), state[t] \in Live, current = Root,
           state' = [state EXCEPT ![t] = "running"],
           pending' = [pending EXCEPT ![t] = NoEvent],
           runnable' = Tail(runnable), current' = t,
           UNCHANGED <<cancelReq, blocked, blockedCancel, waiters, activeScopes, owner, closeWaiter>>
    PROVE  Wakes'
<1>1. t \in Task /\ Queued(t) /\ QueueWithout(Tail(runnable), t) /\ ~blocked[t]
    BY FromTheQueue
<1>2. WakesOf(waiters, closeWaiter, t)
    BY WakesAsTheyAre
<1>3. Cancelled({}, Tail(runnable), waiters, closeWaiter)
    BY <1>1, <1>2, NobodyCancelled
<1>4. state \in [Task -> States] /\ pending \in [Task -> Event] /\ Root \notin Task
    BY DEF IInv, Base, Wakes, WakeTypes, Root, Task
<1>5. OnlyUnblocks(t, {})
    BY <1>4 DEF OnlyUnblocks
<1>6. Born' = Born /\ \A x \in Task : terminal(x)' <=> terminal(x)
    BY <1>1, <1>4 DEF Born, terminal, Live, Ended
<1>7. \A x \in Task : x # t => Placed(x)'
    BY <1>1, <1>2, <1>3, <1>5, <1>6, OthersOn
<1>8. Placed(t)'
  <2>1. state'[t] = "running" /\ ~blocked'[t] /\ ~Queued(t)'
    BY <1>1, <1>4 DEF Queued, QueueWithout
  <2> QED
    BY <1>1, <2>1, RunnerPlaced
<1>9. WakeTypes'
  <2>1. NoEvent \in Event
    BY EmptySeq DEF NoEvent, Event
  <2>2. pending' \in [Task -> Event]
    BY <1>4, <2>1
  <2> QED
    BY <1>1, <2>2 DEF Wakes, WakeTypes, QueueWithout
<1>10. WakeOwners'
  <2>1. Entered \subseteq Entered'
    BY Onward
  <2> QED
    BY <2>1 DEF WakeOwners, Wakes
<1> QED
    BY <1>7, <1>8, <1>9, <1>10 DEF Wakes

\* A child is born on the queue; nobody waits for it, or joins an open scope.
LEMMA SpawnWakes ==
    ASSUME IInv, Good, Lineage, Wakes, NEW c \in Fresh, NEW s \in Scope, spawn(c, s),
           current' = current, current # c
    PROVE  Wakes'
<1>1. /\ c \in Task /\ state[c] = "unborn" /\ scopeState[s] = "open"
      /\ state' = [state EXCEPT ![c] = "pending"]
      /\ children' = [children EXCEPT ![s] = @ \cup {c}]
      /\ activeScopes' = [activeScopes EXCEPT ![c] = <<s>>]
      /\ runnable' = Append(runnable, c)
      /\ UNCHANGED <<cancelReq, blocked, blockedCancel, pending, waiters,
                     scopeState, owner, closeWaiter>>
    BY DEF Fresh, spawn, Spawned
<1>2. /\ state \in [Task -> States] /\ children \in [Scope -> SUBSET Task]
      /\ activeScopes = [u \in Task |-> activeScopes[u]]
      /\ runnable \in Seq(Task) /\ IsInjective(runnable)
    BY DEF IInv, Base, Places, Wakes, WakeTypes
<1>3. c \notin ToSet(runnable) /\ ~blocked[c] /\ pending[c] = NoEvent /\ blockedCancel[c] = NoEvent
    BY <1>1 DEF Wakes, Placed, Queued, Live
<1>4. /\ runnable' \in Seq(Task) /\ IsInjective(runnable')
      /\ ToSet(runnable') = ToSet(runnable) \cup {c}
    BY <1>1, <1>2, <1>3, AppendProperties, RangeAppend, InjectiveAppend
<1>5. \A x \in Task : x # c => state'[x] = state[x] /\ activeScopes'[x] = activeScopes[x]
    BY <1>1, <1>2
<1>6. state'[c] = "pending" /\ activeScopes'[c] = <<s>>
    BY <1>1, <1>2
<1>7. \A x \in Task : terminal(x)' <=> terminal(x)
    BY <1>1, <1>5, <1>6 DEF terminal, Ended
<1>8. \A r \in Scope : /\ LiveChildren(r) \subseteq LiveChildren(r)'
                       /\ scopeState[r] # "open" => LiveChildren(r)' = LiveChildren(r)
    BY <1>1, <1>2, <1>7 DEF LiveChildren
<1>9. Others(c, {}, {})
  <2>1. ASSUME NEW x \in Task, x # c PROVE Moved(x, {}, {})
    BY <1>1, <1>4, <1>5, <2>1 DEF Moved
  <2>2. ASSUME NEW x \in Task PROVE WakesKept(x, {}, {})
    BY <1>1, <1>7, <1>8 DEF WakesKept
  <2>3. \A r \in Scope : scopeState[r] = "closed" => LiveChildren(r)' = {}
    BY <1>8 DEF Lineage, ClosedIsEmpty, LiveChildren
  <2> QED
    BY <1>7, <1>8, <2>1, <2>2, <2>3 DEF Others
<1>10. \A x \in Task : x # c => Placed(x)'
    BY <1>9, OthersPlaced
<1>11. Placed(c)'
  <2>1. Queued(c)' /\ ~blocked'[c] /\ pending'[c] = NoEvent /\ blockedCancel'[c] = NoEvent
    BY <1>1, <1>3, <1>4 DEF Queued
  <2>2. Len(activeScopes'[c]) <= 1
    BY <1>6
  <2> QED
    BY <1>6, <2>1, <2>2 DEF Placed, Live
<1>12. WakeTypes'
    BY <1>1, <1>4 DEF Wakes, WakeTypes
<1>13. WakeOwners'
    BY <1>1 DEF WakeOwners, Wakes, Entered
<1> QED
    BY <1>10, <1>11, <1>12, <1>13 DEF Wakes
-----------------------------------------------------------------------------
(* The steps that spawn no task and enter no scope, by what they write.      *)

ScopeSteps ==
    \/ UNCHANGED <<scopeState, children>>
    \/ \E S \in SUBSET Scope : begin_close(S) /\ UNCHANGED children
    \/ \E S \in SUBSET Scope : finalize_close(S)

LEMMA ScopesEmptied ==
    ASSUME IInv, Lineage, ScopeSteps
    PROVE  /\ ClosedIsEmpty'
           /\ \A s \in Scope : /\ children'[s] \subseteq children[s]
                               /\ scopeState'[s] = "closed" => children'[s] = {}
<1>1. \A s \in Scope : scopeState[s] = "closed" => children[s] = {}
    BY DEF Lineage, ClosedIsEmpty
<1>2. CASE UNCHANGED <<scopeState, children>>
    BY <1>1, <1>2 DEF ClosedIsEmpty
<1>3. CASE \E S \in SUBSET Scope : begin_close(S) /\ UNCHANGED children
    BY <1>1, <1>3 DEF ClosedIsEmpty, begin_close
<1>4. CASE \E S \in SUBSET Scope : finalize_close(S)
    BY <1>1, <1>4 DEF ClosedIsEmpty, finalize_close
<1> QED
    BY <1>2, <1>3, <1>4 DEF ScopeSteps

\* The stacks keep a prefix: that of t, and the others as they are.
StackShrinks(t) ==
    /\ \A x \in Task : x # t => activeScopes'[x] = activeScopes[x]
    /\ \A u \in Task : \A i \in 2..Len(activeScopes'[u]) :
          i \in 2..Len(activeScopes[u]) /\ activeScopes'[u][i] = activeScopes[u][i]

LEMMA SameShrinks ==
    ASSUME NEW t, activeScopes' = activeScopes PROVE StackShrinks(t)
    BY DEF StackShrinks

LEMMA PrefixShrinks ==
    ASSUME IInv, NEW t \in Task, NEW k \in Nat, k <= Len(activeScopes[t]),
           activeScopes' = [activeScopes EXCEPT ![t] = SubSeq(@, 1, k)]
    PROVE  StackShrinks(t)
<1> DEFINE ss == activeScopes[t]
<1>1. activeScopes \in [Task -> Seq(Entered)] /\ ss \in Seq(Entered) /\ Len(ss) \in Nat
    BY LenProperties DEF IInv, Places
<1>2. activeScopes'[t] = SubSeq(ss, 1, k) /\ \A x \in Task : x # t => activeScopes'[x] = activeScopes[x]
    BY <1>1
<1> HIDE DEF ss
<1>3. Len(SubSeq(ss, 1, k)) = k /\ \A i \in 1..k : SubSeq(ss, 1, k)[i] = ss[i]
  <2>1. \A i \in 1..k : ss[i] \in Entered
    BY <1>1, ElementOfSeq DEF ss
  <2>2. /\ Len(SubSeq(ss, 1, k)) = IF 1 <= k THEN k - 1 + 1 ELSE 0
        /\ \A i \in 1..(k - 1 + 1) : SubSeq(ss, 1, k)[i] = ss[1 + i - 1]
    BY <2>1, SubSeqProperties
  <2> QED
    BY <2>2
<1>4. \A i \in 2..Len(activeScopes'[t]) : i \in 2..Len(ss) /\ activeScopes'[t][i] = ss[i]
    BY <1>1, <1>2, <1>3 DEF ss
<1> QED
    BY <1>2, <1>4 DEF StackShrinks, ss

LEMMA LineageShrinks ==
    ASSUME IInv, Good, Lineage, UNCHANGED <<owner, scopeOf>>, Born' = Born, ScopeSteps,
           NEW t, StackShrinks(t), \A u \in Task : EventsStay(u),
           ToSet(rootStack') \subseteq ToSet(rootStack)
    PROVE  Lineage'
<1>1. \A s \in Scope : /\ children'[s] \subseteq children[s]
                       /\ scopeState'[s] = "closed" => children'[s] = {}
    BY ScopesEmptied
<1>2. \A u \in Task : \A i \in 2..Len(activeScopes'[u]) :
            \E j \in 2..Len(activeScopes[u]) : activeScopes'[u][i] = activeScopes[u][j]
    BY DEF StackShrinks
<1> QED
    BY <1>1, <1>2, LineageKept

\* A step that spawns nobody and fails nobody spreads nothing but its requests.
LEMMA SpreadsOn ==
    ASSUME IInv, Lineage, ScopeSteps, NEW t, Passes(t), owner' = owner,
           t \in Task => state'[t] # "failed" \/ state[t] = "failed"
    PROVE  Spreads(t)
    BY ScopesEmptied DEF Spreads

\* The end of a task, whatever way it ends.
LEMMA EndGoes ==
    ASSUME IInv, Good, Owners, Lineage, Wakes,
           NEW t \in Task, state[t] \in Live, current \in {t, Root},
           NEW outcome \in Ended, NEW q, QueueWithout(q, t), NEW W, NEW CW, WakesOf(W, CW, t),
           NEW C \in Seq(Task), \A x \in ToSet(C) : state[x] \in Live,
           _finish(t, outcome, q, W, CW, C),
           ScopeSteps, StackShrinks(t), UNCHANGED rootVars,
           outcome = "failed" => \A c \in LiveChildren(scopeOf[t]) : c = t \/ c \in ToSet(C)
    PROVE  Lineage' /\ Wakes' /\ Spreads(t)
<1>1. owner \in [Scope -> Task \cup {Root}] /\ rootStack' = rootStack
    BY DEF Owners, rootVars
<1>2. /\ Wakes' /\ Passes(t)
      /\ \A o \in Task : outcome = "failed" /\ owner[scopeOf[t]] = o /\ o # t /\ state[o] \in Live
                        => Queued(o)'
    BY <1>1, ScopesEmptied, FinishWakes DEF StackShrinks
<1>3. /\ state' = [state EXCEPT ![t] = outcome] /\ UNCHANGED <<owner, scopeOf>>
      /\ pending' = [pending EXCEPT ![t] = NoEvent]
      /\ \E hit : blockedCancel' = [x \in Task |->
                IF x \in hit \cup {t} THEN NoEvent ELSE blockedCancel[x]]
    BY DEF _finish
<1>4. /\ state \in [Task -> States] /\ pending \in [Task -> Event]
    BY DEF IInv, Base, Wakes, WakeTypes
<1>5. Born' = Born
    BY <1>3, <1>4 DEF Born, Live, Ended
<1>6. \A u \in Task : EventsStay(u)
    BY <1>3, <1>4 DEF EventsStay
<1>7. Lineage'
    BY <1>1, <1>3, <1>5, <1>6, LineageShrinks
<1>8. state'[t] = outcome /\ terminal(t)'
    BY <1>3, <1>4 DEF terminal
<1>9. ASSUME outcome = "failed" PROVE Heard(t)
  <2>1. ASSUME NEW c \in children[scopeOf[t]] PROVE terminal(c)' \/ cancelReq'[c]
    <3>1. c \in Task
      BY DEF IInv, Base
    <3>2. CASE terminal(c)
      BY <1>2, <3>1, <3>2 DEF Passes
    <3>3. CASE ~terminal(c)
      <4>1. c = t \/ c \in ToSet(C)
        BY <1>9, <3>3 DEF LiveChildren
      <4>2. cancelReq' = [x \in Task |-> cancelReq[x] \/ x \in ToSet(C)]
        BY DEF _finish
      <4> QED
        BY <1>8, <3>1, <4>1, <4>2
    <3> QED
      BY <3>2, <3>3
  <2>2. ASSUME NEW o \in Task, owner[scopeOf[t]] = o PROVE terminal(o)' \/ Queued(o)'
    <3>1. t \in Born /\ scopeOf[t] \in Scope
      BY DEF Born, Live, IInv, Base
    <3>2. o # t /\ o \in Born
      BY <2>2, <3>1 DEF Owners, TasksAtHome, AtHome, OwnersSpawned
    <3>3. state[o] \in Live \/ terminal(o)
      BY <1>4, <3>2 DEF Born, States, terminal
    <3> QED
      BY <1>2, <1>9, <2>2, <3>2, <3>3 DEF Passes
  <2> QED
    BY <2>1, <2>2 DEF Heard
<1>10. Spreads(t)
    BY <1>2, <1>3, <1>8, <1>9, ScopesEmptied DEF Spreads
<1> QED
    BY <1>2, <1>7, <1>10

\* The cascades of the steps below reach live tasks.
LEMMA CascadeLives ==
    ASSUME IInv, Lineage, Wakes, NEW s \in Scope, NEW T \in SUBSET LiveChildren(s)
    PROVE  /\ Cascade(T) \in Seq(Task) /\ T \subseteq ToSet(Cascade(T))
           /\ \A x \in ToSet(Cascade(T)) : state[x] \in Live /\ \E c \in T : x >= c
<1>1. Ranked /\ \A c \in T : c \in Task /\ state[c] \in Live
    BY LineageRanks DEF Wakes
<1> QED
    BY <1>1, CascadeOf

\* A failure adds the cancellation of the siblings to what the step cancelled.
LEMMA FailGoes ==
    ASSUME IInv, Good, Owners, Lineage, Wakes,
           NEW t \in Task, state[t] \in Live, current \in {t, Root},
           NEW q, QueueWithout(q, t), NEW W, NEW CW, WakesOf(W, CW, t),
           NEW C \in Seq(Task), \A x \in ToSet(C) : state[x] \in Live,
           FailAfter(t, q, W, CW, C),
           ScopeSteps, StackShrinks(t), UNCHANGED rootVars
    PROVE  Lineage' /\ Wakes' /\ Spreads(t)
<1> DEFINE T == LiveChildren(scopeOf[t]) \ {t}
           c == Cascade(T)
           both == C \o c
<1>1. c \in Seq(Task) /\ T \subseteq ToSet(c) /\ \A x \in ToSet(c) : state[x] \in Live
  <2>1. scopeOf[t] \in Scope /\ T \subseteq LiveChildren(scopeOf[t])
    BY DEF IInv, Base
  <2> HIDE DEF T
  <2> QED
    BY <2>1, CascadeLives
<1>2. _finish(t, "failed", q, W, CW, both) /\ "failed" \in Ended
    BY DEF FailAfter, Ended
<1> HIDE DEF c
<1>3. both \in Seq(Task) /\ ToSet(both) = ToSet(C) \cup ToSet(c)
    BY <1>1, RangeConcat, ConcatProperties
<1>4. /\ \A x \in ToSet(both) : state[x] \in Live
      /\ \A x \in LiveChildren(scopeOf[t]) : x = t \/ x \in ToSet(both)
    BY <1>1, <1>3
<1> HIDE DEF both
<1> QED
  <2>1. PICK b : b = both
    OBVIOUS
  <2>2. /\ b \in Seq(Task) /\ (\A x \in ToSet(b) : state[x] \in Live) /\ _finish(t, "failed", q, W, CW, b)
        /\ \A x \in LiveChildren(scopeOf[t]) : x = t \/ x \in ToSet(b)
    BY <1>2, <1>3, <1>4, <2>1
  <2> QED
    BY <1>2, <2>2, EndGoes

\* The ways to end that ask nothing of their caller but the queue.
LEMMA WaysGo ==
    ASSUME IInv, Good, Owners, Lineage, Wakes,
           NEW t \in Task, state[t] \in Live, current \in {t, Root},
           NEW q, QueueWithout(q, t), NEW T,
           \/ Fail(t, q) \/ Raise(t, T, q)
           \/ FinishCancelled(t, q, waiters, closeWaiter, <<>>)
           \/ q = runnable /\ Complete(t),
           ScopeSteps, StackShrinks(t), UNCHANGED rootVars
    PROVE  Lineage' /\ Wakes' /\ Spreads(t)
<1>1. WakesOf(waiters, closeWaiter, t)
    BY WakesAsTheyAre DEF Owners
<1> DEFINE none == <<>>
<1>2. none \in Seq(Task) /\ \A x \in ToSet(none) : state[x] \in Live
    BY EmptySeq, RangeEmpty
<1>3. "cancelled" \in Ended /\ "completed" \in Ended
    BY DEF Ended
<1>4. PICK w, cw : w = waiters /\ cw = closeWaiter
    OBVIOUS
<1>5. CASE Fail(t, q)
  <2>1. FailAfter(t, q, w, cw, none) /\ WakesOf(w, cw, t)
    BY <1>1, <1>4, <1>5 DEF Fail
  <2> HIDE DEF none
  <2> QED
    BY <1>2, <2>1, FailGoes
<1>6. CASE FinishCancelled(t, q, waiters, closeWaiter, <<>>)
  <2>1. _finish(t, "cancelled", q, w, cw, none) /\ WakesOf(w, cw, t)
    BY <1>1, <1>4, <1>6 DEF FinishCancelled
  <2> HIDE DEF none
  <2> QED
    BY <1>2, <1>3, <2>1, EndGoes
<1>7. CASE q = runnable /\ Complete(t)
  <2>1. _finish(t, "completed", q, w, cw, none) /\ WakesOf(w, cw, t)
    BY <1>1, <1>4, <1>7 DEF Complete
  <2> HIDE DEF none
  <2> QED
    BY <1>2, <1>3, <2>1, EndGoes
<1>8. Raise(t, T, q) => Fail(t, q) \/ FinishCancelled(t, q, waiters, closeWaiter, <<>>)
    BY DEF Raise
<1> QED
    BY <1>5, <1>6, <1>7, <1>8

\* A step that ends nobody: events stay but for the suspension it leaves.
LEMMA SuspendLineage ==
    ASSUME IInv, Good, Lineage, Wakes, NEW t \in Task, NEW event, NEW C, Suspend(t, event, C),
           UNCHANGED <<state, scopeOf, owner>>, Closes(t, event.scopes)',
           event.targets \subseteq Born, ScopeSteps, StackShrinks(t), UNCHANGED rootVars
    PROVE  Lineage'
<1>1. /\ \E hit : blockedCancel' = [x \in Task |-> IF x = t THEN event
            ELSE IF x \in hit THEN NoEvent ELSE blockedCancel[x]]
      /\ pending' = [pending EXCEPT ![t] = event]
    BY DEF Suspend
<1>2. pending \in [Task -> Event]
    BY DEF Wakes, WakeTypes
<1>3. pending'[t] = event
    BY <1>1, <1>2
<1>4. \A u \in Task : EventsStay(u)
    BY <1>1, <1>2, <1>3 DEF EventsStay
<1>5. Born' = Born /\ rootStack' = rootStack
    BY DEF Born, rootVars
<1> QED
    BY <1>4, <1>5, LineageShrinks

LEMMA QuietLineage ==
    ASSUME IInv, Good, Lineage, UNCHANGED <<state, scopeOf, owner, pending>>,
           \A u \in Task : blockedCancel'[u] \in {blockedCancel[u], NoEvent},
           ScopeSteps, NEW t, StackShrinks(t), ToSet(rootStack') \subseteq ToSet(rootStack)
    PROVE  Lineage'
<1>1. Born' = Born
    BY DEF Born
<1>2. \A u \in Task : EventsStay(u)
    BY DEF EventsStay
<1> QED
    BY <1>1, <1>2, LineageShrinks
-----------------------------------------------------------------------------
(* The instructions of the running task keep lineage and wakes.              *)

\* The running task stands nowhere else.
LEMMA RunnerReady ==
    ASSUME IInv, Owners, Wakes, NEW t \in Task, current = t
    PROVE  /\ t \in Born /\ state[t] = "running" /\ state[t] \in Live /\ pending[t] = NoEvent
           /\ QueueWithout(runnable, t) /\ WakesOf(waiters, closeWaiter, t) /\ ~blocked[t]
           /\ owner \in [Scope -> Task \cup {Root}] /\ current \in {t, Root}
           /\ \A u \in Task : current = u => state[u] = "running"
<1>1. owner \in [Scope -> Task \cup {Root}] /\ RunnerIsFree
    BY DEF Owners
<1>2. WakesOf(waiters, closeWaiter, t) /\ QueueWithout(runnable, t)
    BY <1>1, WakesAsTheyAre
<1>3. ~blocked[t]
    BY DEF Wakes, Placed
<1> QED
    BY <1>1, <1>2, <1>3 DEF RunnerIsFree, Born, Live

\* A step that moves no task passes the others by.
LEMMA StillPasses ==
    ASSUME NEW t, UNCHANGED <<state, cancelReq, pending, runnable>>
    PROVE  Passes(t)
    BY DEF Passes, terminal, Queued

\* It ends, in one of the ways that cancel only its siblings.
LEMMA RunnerEnds ==
    ASSUME IInv, Good, Owners, Lineage, Wakes, NEW t \in Task, current = t, NEW T,
           \/ Fail(t, runnable) \/ Raise(t, T, runnable)
           \/ FinishCancelled(t, runnable, waiters, closeWaiter, <<>>) \/ Complete(t),
           ScopeSteps, StackShrinks(t), UNCHANGED rootVars
    PROVE  Lineage' /\ Wakes' /\ Spreads(t)
<1>1. state[t] \in Live /\ QueueWithout(runnable, t) /\ current \in {t, Root}
    BY RunnerReady
<1> QED
    BY <1>1, WaysGo

\* A suspending instruction leaves its wakes in place, or ends the task.
LEMMA EndQuantumGoes ==
    ASSUME IInv, Good, Owners, Lineage, Wakes, NEW t \in Task, current = t,
           NEW event \in Event, NEW W, NEW CW, WakesOf(W, CW, t),
           EndQuantum(t, event, W, CW), Awaits(t, event, W, CW),
           Closes(t, event.scopes)', event.targets \subseteq Born,
           ScopeSteps, StackShrinks(t), UNCHANGED rootVars
    PROVE  Lineage' /\ Wakes' /\ Spreads(t)
<1>1. state[t] \in Live /\ state[t] = "running" /\ QueueWithout(runnable, t)
      /\ current \in {t, Root}
    BY RunnerReady
<1>2. <<>> \in Seq(Task) /\ ToSet(<<>>) = {}
    BY EmptySeq DEF ToSet
<1>3. CASE cancelReq[t]
  <2>1. _finish(t, "cancelled", runnable, W, CW, <<>>)
    BY <1>3 DEF EndQuantum, FinishCancelled
  <2>2. "cancelled" \in Ended /\ \A x \in ToSet(<<>>) : state[x] \in Live
    BY <1>2 DEF Ended
  <2> QED
    BY <1>1, <1>2, <2>1, <2>2, EndGoes
<1>4. CASE ~cancelReq[t]
  <2>1. /\ waiters' = W /\ closeWaiter' = CW /\ Suspend(t, event, <<>>)
        /\ UNCHANGED <<state, scopeOf, cancelReq, owner, runnable>>
    BY <1>4 DEF EndQuantum
  <2>2. Cancelled({}, runnable, W, CW)
    BY <1>1, <2>1, NobodyCancelled
  <2>3. Lineage'
    BY <2>1, SuspendLineage
  <2>4. /\ ClosedIsEmpty' /\ Cancelled(ToSet(<<>>), runnable, W, CW) /\ t \notin ToSet(<<>>)
        /\ (\A x \in ToSet(<<>>) : state[x] \in Live) /\ state' = state /\ owner' = owner
        /\ \A x \in Task : x # t => activeScopes'[x] = activeScopes[x]
    BY <1>2, <2>1, <2>2, ScopesEmptied DEF StackShrinks
  <2>5. Wakes'
    BY <1>1, <1>2, <1>4, <2>1, <2>4, SuspendWakes
  <2>6. Passes(t)
    <3>1. \A x \in Task : x # t => pending'[x] = pending[x]
      BY <2>1 DEF Suspend, Wakes, WakeTypes
    <3> QED
      BY <2>1, <3>1 DEF Passes, terminal, Queued
  <2>7. Spreads(t)
    BY <2>1, <2>6, SpreadsOn
  <2> QED
    BY <2>3, <2>5, <2>7
<1> QED
    BY <1>3, <1>4

\* CANCEL_POLL, the return, a panic, a refused spawn and an unmatched SCOPE_END.
LEMMA TaskEndGoes ==
    ASSUME IInv, Good, Owners, Lineage, Wakes, NEW t \in Task,
           CancelPoll(t) \/ Return(t) \/ Panic(t) \/ SpawnRefused(t) \/ ScopeEndUnmatched(t)
    PROVE  Lineage' /\ Wakes' /\ Spreads(t)
<1>1. /\ current = t /\ UNCHANGED <<activeScopes, scopeState, children, rootVars>>
      /\ \/ Fail(t, runnable) \/ Complete(t)
         \/ FinishCancelled(t, runnable, waiters, closeWaiter, <<>>)
    BY DEF CancelPoll, Return, Panic, SpawnRefused, ScopeEndUnmatched
<1>2. ScopeSteps /\ StackShrinks(t) /\ UNCHANGED rootVars
    BY <1>1, SameShrinks DEF ScopeSteps
<1> QED
    BY <1>1, <1>2, RunnerEnds

\* SPAWN_CALL.
LEMMA SpawnGoes ==
    ASSUME IInv, Good, Owners, Lineage, Wakes, NEW t \in Task, Spawn(t)
    PROVE  Lineage' /\ Wakes'
<1>1. PICK s \in Scope, c \in Fresh : spawn(c, s)
    BY DEF Spawn
<1>2. current = t /\ current' = current /\ rootStack' = rootStack
    BY DEF Spawn, rootVars
<1>3. current # c
    BY <1>2, RunnerReady DEF Fresh, Born
<1> QED
    BY <1>1, <1>2, <1>3, SpawnLineage, SpawnWakes

\* SCOPE_BEGIN.
LEMMA ScopeBeginGoes ==
    ASSUME IInv, Good, Owners, Lineage, Wakes, NEW t \in Task, ScopeBegin(t)
    PROVE  Lineage' /\ Wakes' /\ Spreads(t)
<1>1. PICK s \in FreshScope :
          /\ scopeState' = [scopeState EXCEPT ![s] = "open"]
          /\ owner' = [owner EXCEPT ![s] = t]
          /\ activeScopes' = [activeScopes EXCEPT ![t] = Append(@, s)]
    BY DEF ScopeBegin
<1>2. /\ current = t /\ s \in Scope /\ scopeState[s] = "unborn"
      /\ UNCHANGED <<state, scopeOf, cancelReq, blocked, blockedCancel, pending, waiters,
                     children, closeWaiter, runnable, current, rootStack>>
    BY DEF ScopeBegin, FreshScope, taskVars, rootVars
<1>3. activeScopes \in [Task -> Seq(Entered)] /\ activeScopes[t] \in Seq(Entered)
    BY DEF IInv, Places
<1>4. \A u \in Task : u # t => activeScopes'[u] = activeScopes[u]
    BY <1>1, <1>3
<1>5. \A u \in Task : \A i \in 2..Len(activeScopes'[u]) :
          \/ activeScopes'[u][i] = s /\ u = t
          \/ i \in 2..Len(activeScopes[u]) /\ activeScopes'[u][i] = activeScopes[u][i]
  <2> SUFFICES ASSUME NEW u \in Task
               PROVE  \A i \in 2..Len(activeScopes'[u]) :
          \/ activeScopes'[u][i] = s /\ u = t
          \/ i \in 2..Len(activeScopes[u]) /\ activeScopes'[u][i] = activeScopes[u][i]
    OBVIOUS
  <2>1. CASE u # t
    BY <1>4, <2>1
  <2>2. CASE u = t
    <3> DEFINE ss == activeScopes[t]
    <3>1. ss \in Seq(Scope) /\ activeScopes'[u] = Append(ss, s)
      <4>1. \A r \in Seq(Entered) : r \in Seq(Scope)
        BY SeqMonotonic DEF Entered
      <4> QED
        BY <1>1, <1>3, <2>2, <4>1
    <3> HIDE DEF ss
    <3>2. Append(ss, s) = ss \o <<s>> /\ Len(ss) \in Nat
      BY <1>2, <3>1
    <3>3. Len(Append(ss, s)) = Len(ss) + 1 /\ Append(ss, s)[Len(ss) + 1] = s
          /\ \A i \in 1..Len(ss) : Append(ss, s)[i] = ss[i]
      BY <1>2, <3>1, AppendProperties
    <3>4. \A i \in 2..Len(Append(ss, s)) :
             \/ Append(ss, s)[i] = s
             \/ i \in 2..Len(ss) /\ Append(ss, s)[i] = ss[i]
      BY <3>2, <3>3
    <3> QED
      BY <2>2, <3>1, <3>4 DEF ss
  <2> QED
    BY <2>1, <2>2
<1>6. \A r \in ToSet(rootStack') : r \in ToSet(rootStack) \/ (r = s /\ t = Root)
    BY <1>2
<1>7. Lineage'
  <2>1. t \in Task \cup {Root} /\ UNCHANGED <<state, pending, blockedCancel, scopeOf, children>>
    BY <1>2
  <2> QED
    BY <1>1, <1>2, <1>5, <1>6, <2>1, EnterLineage
<1>8. \A r \in Scope : closeWaiter[r] => owner'[r] = owner[r]
  <2>1. \A r \in Scope : closeWaiter[r] => r # s
    BY <1>2 DEF Wakes, WakeOwners, Entered
  <2> QED
    BY <1>1, <2>1, RunnerReady, <1>2
<1>9. Wakes'
  <2>1. /\ ClosedIsEmpty' /\ owner \in [Scope -> Task \cup {Root}]
        /\ \A u \in Task : current = u => state[u] = "running"
        /\ \A x \in Task : x # current => activeScopes'[x] = activeScopes[x]
    BY <1>2, <1>4, <1>7, RunnerReady DEF Lineage
  <2>2. UNCHANGED <<state, cancelReq, blocked, blockedCancel, pending, waiters,
                    closeWaiter, runnable, current>>
    BY <1>2
  <2> QED
    BY <1>8, <2>1, <2>2, StillWakes
<1>10. children[s] = {}
    BY <1>2 DEF Lineage, ChildrenAtHome, Owners, TasksAtHome, AtHome, Entered
<1>11. Spreads(t)
  <2>1. Passes(t)
    BY <1>2, StillPasses
  <2>2. owner' \in [Scope -> Task \cup {Root}] /\ \A r \in Scope : r # s => owner'[r] = owner[r]
    BY <1>1 DEF Owners
  <2> QED
    BY <1>2, <1>10, <2>1, <2>2 DEF Spreads
<1> QED
    BY <1>7, <1>9, <1>11

\* CANCEL_TASK.
LEMMA CancelsGo ==
    ASSUME IInv, Good, Owners, Lineage, Wakes,
           NEW t, NEW C \in Seq(Task), \A x \in ToSet(C) : state[x] \in Live,
           Cancelling(C, runnable, waiters, closeWaiter), Unblock(C),
           UNCHANGED <<state, scopeOf, pending, activeScopes, owner, current>>,
           ScopeSteps, ToSet(rootStack') \subseteq ToSet(rootStack)
    PROVE  Lineage' /\ Wakes' /\ Spreads(t)
<1>1. \A u \in Task : blockedCancel'[u] \in {blockedCancel[u], NoEvent}
    BY DEF Unblock
<1>2. StackShrinks(Root)
    BY SameShrinks
<1>3. Lineage'
    BY <1>1, <1>2, QuietLineage
<1>4. /\ ClosedIsEmpty' /\ owner \in [Scope -> Task \cup {Root}]
      /\ \A u \in Task : current = u => state[u] = "running"
    BY <1>3 DEF Lineage, Owners, RunnerIsFree
<1>5. Wakes'
    BY <1>4, CancelWakes
<1>6. Spreads(t)
  <2>1. Cancelled(ToSet(C), runnable, waiters, closeWaiter)
    <3>1. PICK w, cw, c : w = waiters /\ cw = closeWaiter /\ c = current
      OBVIOUS
    <3>2. PICK q : q = runnable
      OBVIOUS
    <3>3. WakesOf(w, cw, c) /\ QueueWithout(q, c)
      BY <1>4, <3>1, <3>2, WakesAsTheyAre
    <3>4. Cancelling(C, q, w, cw)
      BY <3>1, <3>2
    <3>5. Cancelled(ToSet(C), q, w, cw)
      BY <3>3, <3>4, CancellingDoes
    <3> QED
      BY <3>1, <3>2, <3>5
  <2>2. Passes(t)
    BY <2>1 DEF Passes, Cancelled, terminal, Queued
  <2> QED
    BY <2>2, SpreadsOn
<1> QED
    BY <1>3, <1>5, <1>6

\* One request reaches live tasks.
LEMMA OneCancel ==
    ASSUME IInv, Lineage, Wakes, NEW u \in Born, ~terminal(u)
    PROVE  /\ request_cancel[u] \in Seq(Task)
           /\ \A x \in ToSet(request_cancel[u]) : state[x] \in Live
<1>1. u \in Task /\ state[u] \in Live
    BY DEF Born, terminal, IInv, Base, States, Ended, Live
<1>2. Ranked
    BY LineageRanks DEF Wakes
<1> QED
    <2> DEFINE rc == request_cancel[u]
               inside == Inside(request_cancel, u)
  <2>1. rc \in Seq(Task) /\ ToSet(inside) \subseteq Younger(u) /\ ToSet(rc) = ToSet(inside) \cup {u}
    BY <1>1, <1>2, CancelReaches
  <2> HIDE DEF rc, inside
  <2>2. \A x \in ToSet(rc) : state[x] \in Live
    BY <1>1, <2>1 DEF Younger
  <2> QED
    BY <2>1, <2>2 DEF rc

LEMMA CancelGoes ==
    ASSUME IInv, Good, Owners, Lineage, Wakes, NEW t \in Task, Cancel(t)
    PROVE  Lineage' /\ Wakes' /\ Spreads(t)
<1>1. PICK u \in Born : /\ ~terminal(u)
                        /\ Cancelling(request_cancel[u], runnable, waiters, closeWaiter)
                        /\ Unblock(request_cancel[u])
    BY DEF Cancel
<1>2. /\ UNCHANGED <<state, scopeOf, pending, activeScopes, owner, current>>
      /\ ScopeSteps /\ rootStack' = rootStack
    BY DEF Cancel, ScopeSteps, rootVars
<1>3. /\ request_cancel[u] \in Seq(Task)
      /\ \A x \in ToSet(request_cancel[u]) : state[x] \in Live
    BY <1>1, OneCancel
<1> QED
    BY <1>1, <1>2, <1>3, CancelsGo

\* The budget's yield.
LEMMA YieldGoes ==
    ASSUME IInv, Good, Owners, Lineage, Wakes, NEW t \in Task, Yield(t)
    PROVE  Lineage' /\ Wakes' /\ Spreads(t)
<1>1. current = t /\ UNCHANGED <<activeScopes, scopeState, children, rootVars>>
    BY DEF Yield
<1>2. ScopeSteps /\ StackShrinks(t) /\ UNCHANGED rootVars
    BY <1>1, SameShrinks DEF ScopeSteps
<1>3. CASE cancelReq[t]
  <2>1. FinishCancelled(t, runnable, waiters, closeWaiter, <<>>)
    BY <1>3 DEF Yield
  <2> QED
    BY <1>1, <1>2, <2>1, RunnerEnds
<1>4. CASE ~cancelReq[t]
  <2>1. /\ runnable' = schedule(runnable, <<t>>, state) /\ current' = Root
        /\ UNCHANGED <<taskVars, activeScopes, owner, closeWaiter>>
    BY <1>1, <1>4 DEF Yield
  <2>2. UNCHANGED <<state, scopeOf, owner, pending, blockedCancel, rootStack>>
    BY <1>1, <2>1 DEF taskVars, rootVars
  <2>3. \A u \in Task : blockedCancel'[u] \in {blockedCancel[u], NoEvent}
    BY <2>2
  <2>4. Lineage'
    BY <1>2, <2>2, <2>3, QuietLineage
  <2>5. /\ ClosedIsEmpty' /\ owner \in [Scope -> Task \cup {Root}]
        /\ state[t] = "running" /\ pending[t] = NoEvent
    BY <1>1, <2>4, RunnerReady DEF Lineage
  <2>6. Wakes'
    BY <1>1, <1>4, <2>1, <2>4, <2>5, YieldWakes
  <2>7. \A x \in Task : Queued(x) => Queued(x)'
    <3>1. runnable \in Seq(Task) /\ IsInjective(runnable) /\ <<t>> \in Seq(Task)
      BY SingletonIn DEF Wakes, WakeTypes
    <3>2. PICK wakes : wakes = <<t>>
      OBVIOUS
    <3>3. \A x : x \in ToSet(schedule(runnable, wakes, state)) <=>
                x \in ToSet(runnable) \/ (x \in ToSet(wakes) /\ state[x] \in Live)
      BY <3>1, <3>2, Scheduled
    <3> QED
      BY <2>1, <3>2, <3>3 DEF Queued
  <2>8. Passes(t) /\ UNCHANGED <<state, owner>>
    BY <2>1, <2>7 DEF Passes, taskVars, terminal
  <2>9. Spreads(t)
    BY <1>2, <2>8, SpreadsOn
  <2> QED
    BY <2>4, <2>6, <2>9
<1> QED
    BY <1>3, <1>4

\* The innermost scope of a task that opened one is its own.
LEMMA InnermostOwned ==
    ASSUME IInv, Lineage, NEW t \in Task, Len(activeScopes[t]) > 1
    PROVE  /\ Last(activeScopes[t]) \in Entered /\ owner[Last(activeScopes[t])] = t
           /\ Len(activeScopes[t]) \in Nat
<1>1. activeScopes[t] \in Seq(Entered) /\ Len(activeScopes[t]) \in Nat
    BY LenProperties DEF IInv, Places
<1>2. owner[activeScopes[t][Len(activeScopes[t])]] = t
    BY <1>1 DEF Lineage, StacksOwned
<1>3. activeScopes[t] # <<>>
    OBVIOUS
<1> QED
    BY <1>1, <1>2, <1>3, LastIn DEF Last

\* SCOPE_END: the scope is joined, or the task registers as the one that joins it.
LEMMA ScopeEndGoes ==
    ASSUME IInv, Good, Owners, Lineage, Wakes, NEW t \in Task, ScopeEnd(t)
    PROVE  Lineage' /\ Wakes' /\ Spreads(t)
<1>1. PICK s : s = Last(activeScopes[t])
    OBVIOUS
<1>2. /\ current = t /\ Len(activeScopes[t]) > 1 /\ UNCHANGED rootVars
      /\ activeScopes' = [activeScopes EXCEPT ![t] = Front(@)]
    BY DEF ScopeEnd
<1>3. s \in Entered /\ owner[s] = t /\ s \in Scope /\ Len(activeScopes[t]) \in Nat
    BY <1>1, <1>2, InnermostOwned DEF Entered
<1>4. StackShrinks(t)
  <2> DEFINE k == Len(activeScopes[t]) - 1
  <2>1. k \in Nat /\ k <= Len(activeScopes[t])
    BY <1>2, <1>3
  <2>2. activeScopes' = [activeScopes EXCEPT ![t] = SubSeq(@, 1, k)]
    BY <1>2 DEF Front
  <2> HIDE DEF k
  <2> QED
    BY <2>1, <2>2, PrefixShrinks
<1>5. CASE children_terminal(s)
  <2>1. finalize_close({s})
    BY <1>1, <1>5 DEF ScopeEnd
  <2>2. ScopeSteps
    BY <1>3, <2>1 DEF ScopeSteps
  <2>3. CASE Fail(t, runnable)
    BY <1>2, <1>4, <2>2, <2>3, RunnerEnds
  <2>4. CASE UNCHANGED <<taskVars, owner, closeWaiter, runnable, current>>
    <3>1. UNCHANGED <<state, scopeOf, owner, pending, blockedCancel, rootStack>>
      BY <1>2, <2>4 DEF taskVars, rootVars
    <3>2. (\A u \in Task : blockedCancel'[u] \in {blockedCancel[u], NoEvent})
          /\ ToSet(rootStack') \subseteq ToSet(rootStack)
      BY <3>1
    <3>3. Lineage'
      BY <1>4, <2>2, <3>1, <3>2, QuietLineage
    <3>4. /\ ClosedIsEmpty' /\ owner \in [Scope -> Task \cup {Root}]
          /\ \A u \in Task : current = u => state[u] = "running"
      BY <1>2, <3>3, RunnerReady DEF Lineage
    <3>5. /\ UNCHANGED <<state, cancelReq, blocked, blockedCancel, pending, waiters,
                         closeWaiter, runnable, current>>
          /\ \A x \in Task : x # current => activeScopes'[x] = activeScopes[x]
          /\ \A r \in Scope : closeWaiter[r] => owner'[r] = owner[r]
      BY <1>2, <1>4, <2>4 DEF taskVars, StackShrinks
    <3>6. Wakes'
      BY <3>3, <3>4, <3>5, StillWakes
    <3>7. Spreads(t)
      BY <2>2, <3>1, <3>5, StillPasses, SpreadsOn
    <3> QED
      BY <3>3, <3>6, <3>7
  <2> QED
    BY <1>1, <1>5, <2>3, <2>4 DEF ScopeEnd
<1>6. CASE ~children_terminal(s)
  <2> DEFINE event == ScopeClose(<<s>>, FALSE)
             CW == [closeWaiter EXCEPT ![s] = TRUE]
  <2>1. begin_close({s}) /\ EndQuantum(t, event, waiters, CW) /\ UNCHANGED children
    BY <1>1, <1>6 DEF ScopeEnd
  <2>2. ScopeSteps
    BY <1>3, <2>1 DEF ScopeSteps
  <2>3. /\ event \in Event /\ event.scopes = <<s>> /\ event.targets = {}
        /\ <<s>> \in Seq(Scope) /\ ToSet(<<s>>) = {s}
    <3>1. <<s>> \in Seq(Scope) /\ ToSet(<<s>>) = {s}
      BY <1>3, SingletonIn
    <3> QED
      BY <3>1 DEF ScopeClose, NoEvent, Event
  <2>4. WakesOf(waiters, CW, t)
    <3>1. WakesOf(waiters, closeWaiter, t)
      BY <1>2, RunnerReady
    <3> QED
      BY <1>3, <3>1 DEF WakesOf
  <2>5. CW[s]
    BY <1>3, <2>4 DEF WakesOf
  <2> HIDE DEF event, CW
  <2>6. Awaits(t, event, waiters, CW)
    <3>1. LiveChildren(s) # {}
      BY <1>6 DEF children_terminal
    <3> QED
      BY <1>3, <2>3, <2>5, <3>1 DEF Awaits
  <2>7. owner' = owner
    BY <2>1 DEF EndQuantum, FinishCancelled, _finish
  <2>8. scopeState'[s] \in {"closing", "closed"}
    BY <1>3, <2>1 DEF begin_close
  <2>9. Closes(t, event.scopes)' /\ event.targets \subseteq Born
    <3>1. owner'[s] = t
      BY <1>3, <2>7
    <3> QED
      BY <2>3, <2>8, <3>1 DEF Closes
  <2> QED
    BY <1>2, <1>4, <2>1, <2>2, <2>3, <2>4, <2>6, <2>9, EndQuantumGoes
<1> QED
    BY <1>5, <1>6

\* WAIT_TASK and WAIT_TASKS_VECTORISED leave a wake with every unfinished target.
LEMMA WaitForGoes ==
    ASSUME IInv, Good, Owners, Lineage, Wakes, NEW t \in Task, NEW T \in SUBSET Born,
           NEW event \in Event, event.targets = T, event.scopes = <<>>, WaitFor(t, T, event)
    PROVE  Lineage' /\ Wakes' /\ Spreads(t)
<1>1. current = t /\ UNCHANGED <<activeScopes, scopeState, children, rootVars>>
    BY DEF WaitFor
<1>2. ScopeSteps /\ StackShrinks(t) /\ UNCHANGED rootVars
    BY <1>1, SameShrinks DEF ScopeSteps
<1>3. CASE \A u \in T : terminal(u)
  <2>1. Raise(t, T, runnable)
    BY <1>3 DEF WaitFor
  <2> QED
    BY <1>1, <1>2, <2>1, RunnerEnds
<1>4. CASE ~\A u \in T : terminal(u)
  <2> DEFINE W == [u \in Task |-> IF u \in T /\ ~terminal(u)
                                  THEN Append(waiters[u], t) ELSE waiters[u]]
  <2>1. EndQuantum(t, event, W, closeWaiter)
    BY <1>4 DEF WaitFor
  <2>2. WakesOf(waiters, closeWaiter, t)
    BY <1>1, RunnerReady
  <2>3. \A u \in Task : waiters[u] \in Seq(Task)
    BY <2>2 DEF WakesOf
  <2>4. \A u \in Task : /\ Append(waiters[u], t) \in Seq(Task)
                        /\ t \in ToSet(Append(waiters[u], t))
                        /\ \A x \in ToSet(waiters[u]) : x \in ToSet(Append(waiters[u], t))
    <3> SUFFICES ASSUME NEW u \in Task
                 PROVE  /\ Append(waiters[u], t) \in Seq(Task)
                        /\ t \in ToSet(Append(waiters[u], t))
                        /\ \A x \in ToSet(waiters[u]) : x \in ToSet(Append(waiters[u], t))
      OBVIOUS
    <3>1. PICK w : w = waiters[u]
      OBVIOUS
    <3>2. w \in Seq(Task)
      BY <2>3, <3>1
    <3>3. /\ Append(w, t) \in Seq(Task) /\ Len(Append(w, t)) = Len(w) + 1
          /\ Append(w, t)[Len(w) + 1] = t /\ \A i \in 1..Len(w) : Append(w, t)[i] = w[i]
          /\ Len(w) \in Nat /\ DOMAIN w = 1..Len(w)
          /\ DOMAIN Append(w, t) = 1..Len(Append(w, t))
      BY <3>2, AppendProperties, LenProperties
    <3>4. t \in ToSet(Append(w, t)) /\ \A x \in ToSet(w) : x \in ToSet(Append(w, t))
      BY <3>3 DEF ToSet
    <3> QED
      BY <3>1, <3>3, <3>4
  <2>5. \A u \in Task : W[u] \in {waiters[u], Append(waiters[u], t)}
    OBVIOUS
  <2>6. W \in [Task -> Seq(Task)]
    BY <2>3, <2>4
  <2>7. \A u \in T : ~terminal(u) => t \in ToSet(W[u])
    <3> SUFFICES ASSUME NEW u \in T, ~terminal(u) PROVE t \in ToSet(W[u])
      OBVIOUS
    <3>1. u \in Task /\ W[u] = Append(waiters[u], t)
      BY DEF Born
    <3> QED
      BY <2>4, <3>1
  <2> HIDE DEF W
  <2>8. \A u \in Task : \A x \in ToSet(waiters[u]) : x # t => x \in ToSet(W[u])
    BY <2>4, <2>5
  <2>9. WakesOf(W, closeWaiter, t)
    BY <2>2, <2>6, <2>8 DEF WakesOf
  <2>10. ToSet(event.scopes) = {}
    BY DEF ToSet
  <2>11. Awaits(t, event, W, closeWaiter)
    BY <1>4, <2>7, <2>10 DEF Awaits
  <2>12. Closes(t, event.scopes)' /\ event.targets \subseteq Born
    BY <2>10 DEF Closes
  <2> QED
    BY <1>1, <1>2, <2>1, <2>9, <2>11, <2>12, EndQuantumGoes
<1> QED
    BY <1>3, <1>4

LEMMA WaitGoes ==
    ASSUME IInv, Good, Owners, Lineage, Wakes, NEW t \in Task, Wait(t) \/ WaitGroup(t)
    PROVE  Lineage' /\ Wakes' /\ Spreads(t)
<1>1. \A T \in SUBSET Born : \A event \in {TaskWait(T), GroupWait(T)} :
          event \in Event /\ event.targets = T /\ event.scopes = <<>>
  <2>1. <<>> \in Seq(Scope)
    BY EmptySeq
  <2>2. Born \subseteq Task
    BY DEF Born
  <2> QED
    BY <2>1, <2>2 DEF TaskWait, GroupWait, NoEvent, Event
<1>2. \E T \in SUBSET Born : \E event \in {TaskWait(T), GroupWait(T)} : WaitFor(t, T, event)
  <2>1. CASE Wait(t)
    <3>1. PICK u \in Born : WaitFor(t, {u}, TaskWait({u}))
      BY <2>1 DEF Wait
    <3>2. {u} \in SUBSET Born /\ TaskWait({u}) \in {TaskWait({u}), GroupWait({u})}
      OBVIOUS
    <3> QED
      BY <3>1, <3>2
  <2>2. CASE WaitGroup(t)
    <3>1. PICK T \in SUBSET Born : WaitFor(t, T, GroupWait(T))
      BY <2>2 DEF WaitGroup
    <3> QED
      BY <3>1
  <2> QED
    BY <2>1, <2>2
<1>5. PICK T \in SUBSET Born : \E event \in {TaskWait(T), GroupWait(T)} : WaitFor(t, T, event)
    BY <1>2
<1>3. PICK event \in {TaskWait(T), GroupWait(T)} : WaitFor(t, T, event)
    BY <1>5
<1>4. event \in Event /\ event.targets = T /\ event.scopes = <<>>
    BY <1>1
<1> QED
    BY <1>3, <1>4, WaitForGoes

\* A fault the running task catches moves nobody.
LEMMA CatchGoes ==
    ASSUME IInv, Good, Owners, Lineage, Wakes, NEW t \in Task, Catch(t)
    PROVE  Lineage' /\ Wakes' /\ Spreads(t)
<1>1. /\ current = t
      /\ UNCHANGED <<state, scopeOf, cancelReq, blocked, blockedCancel, pending, waiters,
                     activeScopes, scopeState, children, owner, closeWaiter, runnable,
                     current, rootStack>>
    BY DEF Catch, taskVars, scopeVars, rootVars
<1>2. ScopeSteps /\ StackShrinks(t)
    BY <1>1, SameShrinks DEF ScopeSteps
<1>3. (\A u \in Task : blockedCancel'[u] \in {blockedCancel[u], NoEvent})
      /\ ToSet(rootStack') \subseteq ToSet(rootStack)
    BY <1>1
<1>4. Lineage'
    BY <1>1, <1>2, <1>3, QuietLineage
<1>5. /\ ClosedIsEmpty' /\ owner \in [Scope -> Task \cup {Root}]
      /\ \A u \in Task : current = u => state[u] = "running"
    BY <1>1, <1>4, RunnerReady DEF Lineage
<1>6. Wakes'
    BY <1>1, <1>4, <1>5, StillWakes
<1>7. Spreads(t)
    BY <1>1, <1>2, StillPasses, SpreadsOn
<1> QED
    BY <1>4, <1>6, <1>7

\* Every instruction of the running task keeps lineage and wakes.
LEMMA InstructionGoes ==
    ASSUME IInv, Good, Owners, Lineage, Wakes, NEW t \in Task, Instruction(t)
    PROVE  Lineage' /\ Wakes' /\ (Spreads(t) \/ Spawn(t))
    BY CatchGoes, SpawnGoes, ScopeBeginGoes, ScopeEndGoes, WaitGoes, CancelGoes, YieldGoes, TaskEndGoes
    DEF Instruction
-----------------------------------------------------------------------------
(* The quanta the scheduler loop starts keep lineage and wakes.              *)

LEMMA StepReady ==
    ASSUME IInv, Owners, Wakes, NEW t \in Task, step(t)
    PROVE  /\ t \in Born /\ state[t] \in Live /\ current = Root /\ current \in {t, Root}
           /\ QueueWithout(Tail(runnable), t) /\ WakesOf(waiters, closeWaiter, t)
           /\ ~blocked[t] /\ owner \in [Scope -> Task \cup {Root}]
<1>1. runnable # <<>> /\ t = Head(runnable) /\ state[t] \in Live /\ current = Root
    BY DEF step, Driving
<1>2. owner \in [Scope -> Task \cup {Root}]
    BY DEF Owners
<1> QED
    BY <1>1, <1>2, FromTheQueue, WakesAsTheyAre DEF Born, Live

\* A suspension spreads what it cancels.
LEMMA SuspendSpreads ==
    ASSUME IInv, Lineage, Wakes, NEW t \in Task, NEW q, QueueWithout(q, t),
           NEW hit, NEW W, NEW CW, Cancelled(hit, q, W, CW),
           NEW event, NEW C, Suspend(t, event, C), state' = state, owner' = owner, ScopeSteps
    PROVE  Spreads(t)
<1>1. \A x \in Task : x # t => pending'[x] = pending[x]
    BY DEF Suspend, Wakes, WakeTypes
<1>2. \A x \in Task : x # t /\ Queued(x) => Queued(x)'
    BY DEF Cancelled, QueueWithout, Queued
<1>3. \A x \in Task : cancelReq[x] => cancelReq'[x]
    BY DEF Cancelled
<1>4. Passes(t)
    BY <1>1, <1>2, <1>3 DEF Passes, terminal
<1> QED
    BY <1>4, SpreadsOn

LEMMA StepCancelledGoes ==
    ASSUME IInv, Good, Owners, Lineage, Wakes, NEW t \in Task, step(t), StepCancelled(t)
    PROVE  Lineage' /\ Wakes' /\ Spreads(t)
<1>1. /\ FinishCancelled(t, Tail(runnable), waiters, closeWaiter, <<>>)
      /\ UNCHANGED <<activeScopes, scopeState, children, rootVars>>
    BY DEF StepCancelled
<1>2. ScopeSteps /\ StackShrinks(t) /\ UNCHANGED rootVars
    BY <1>1, SameShrinks DEF ScopeSteps
<1>3. state[t] \in Live /\ current \in {t, Root} /\ QueueWithout(Tail(runnable), t)
    BY StepReady
<1> QED
    BY <1>1, <1>2, <1>3, WaysGo

\* A suspension that is ready ends the task, or lets it run.
LEMMA StepRunGoes ==
    ASSUME IInv, Good, Owners, Lineage, Wakes, NEW t \in Task, step(t), StepRun(t)
    PROVE  Lineage' /\ Wakes' /\ Spreads(t)
<1> DEFINE T == pending[t].targets
           joined == ToSet(pending[t].scopes)
<1>1. finalize_close(joined) /\ UNCHANGED <<activeScopes, rootVars>>
    BY DEF StepRun
<1>2. joined \in SUBSET Scope
  <2>1. pending[t].scopes \in Seq(Entered)
    BY DEF IInv, Places
  <2> QED
    BY <2>1, ToSetIn DEF Entered
<1>3. ScopeSteps /\ StackShrinks(t) /\ UNCHANGED rootVars
    BY <1>1, <1>2, SameShrinks DEF ScopeSteps
<1>4. /\ state[t] \in Live /\ current \in {t, Root} /\ QueueWithout(Tail(runnable), t)
      /\ owner \in [Scope -> Task \cup {Root}] /\ current = Root
      /\ runnable # <<>> /\ t = Head(runnable)
    BY StepReady DEF step
<1> HIDE DEF T, joined
<1>5. CASE Fail(t, Tail(runnable)) \/ Raise(t, T, Tail(runnable))
    BY <1>3, <1>4, <1>5, WaysGo
<1>6. CASE /\ state' = [state EXCEPT ![t] = "running"]
           /\ pending' = [pending EXCEPT ![t] = NoEvent]
           /\ runnable' = Tail(runnable)
           /\ current' = t
           /\ UNCHANGED <<scopeOf, cancelReq, blocked, blockedCancel,
                          waiters, owner, closeWaiter>>
  <2>1. state \in [Task -> States] /\ pending \in [Task -> Event]
    BY DEF IInv, Base, Wakes, WakeTypes
  <2>2. Born' = Born
    BY <1>4, <1>6, <2>1 DEF Born, Live
  <2>3. \A u \in Task : EventsStay(u)
    BY <1>6, <2>1 DEF EventsStay
  <2>4. ToSet(rootStack') \subseteq ToSet(rootStack) /\ UNCHANGED <<owner, scopeOf>>
    BY <1>1, <1>6 DEF rootVars
  <2>5. Lineage'
    BY <1>3, <2>2, <2>3, <2>4, LineageShrinks
  <2>6. ClosedIsEmpty' /\ UNCHANGED <<cancelReq, blocked, blockedCancel, waiters,
                                      activeScopes, owner, closeWaiter>>
    BY <1>1, <1>6, <2>5 DEF Lineage
  <2>7. Wakes'
    BY <1>4, <1>6, <2>5, <2>6, RunWakes
  <2>8. \A x \in Task : x # t /\ Queued(x) => Queued(x)'
    BY <1>4, <1>6 DEF QueueWithout, Queued
  <2>9. Passes(t)
    <3>1. \A x \in Task : x # t => state'[x] = state[x] /\ pending'[x] = pending[x]
      BY <1>6, <2>1
    <3>2. \A x \in Task : terminal(x) => terminal(x)'
      BY <1>4, <1>6, <2>1, <3>1 DEF terminal, Live, Ended
    <3> QED
      BY <1>6, <2>8, <3>1, <3>2 DEF Passes
  <2>10. state'[t] # "failed" /\ owner' = owner
    BY <1>6, <2>1
  <2>11. Spreads(t)
    BY <1>3, <2>9, <2>10, SpreadsOn
  <2> QED
    BY <2>5, <2>7, <2>11
<1> QED
    BY <1>5, <1>6 DEF StepRun, T, joined

\* A group wait with a failed member cancels live tasks.
LEMMA GroupCancels ==
    ASSUME IInv, Lineage, Wakes, NEW t \in Task
    PROVE  LET stop == {u \in pending[t].targets : ~terminal(u)}
               C == IF pending[t].kind = "group" /\ \E u \in pending[t].targets : state[u] = "failed"
                    THEN Cascade(stop) ELSE <<>>
           IN  C \in Seq(Task) /\ \A x \in ToSet(C) : state[x] \in Live
<1> DEFINE stop == {u \in pending[t].targets : ~terminal(u)}
<1>1. stop \in SUBSET Task /\ \A u \in stop : state[u] \in Live
  <2>1. pending[t].targets \subseteq Born
    BY DEF Lineage, EventsOwned
  <2> QED
    BY <2>1 DEF Born, terminal, IInv, Base, States, Ended, Live
<1>2. Ranked
    BY LineageRanks DEF Wakes
<1> HIDE DEF stop
<1>3. Cascade(stop) \in Seq(Task) /\ \A x \in ToSet(Cascade(stop)) : state[x] \in Live
    BY <1>1, <1>2, CascadeOf
<1>4. <<>> \in Seq(Task) /\ ToSet(<<>>) = {}
    BY EmptySeq DEF ToSet
<1> QED
    BY <1>3, <1>4 DEF stop

\* A suspension that is not ready is slept on again, its wakes still in place.
LEMMA StepNotReadyGoes ==
    ASSUME IInv, Good, Owners, Lineage, Wakes, NEW t \in Task, step(t), StepNotReady(t)
    PROVE  Lineage' /\ Wakes' /\ Spreads(t)
<1>8. PICK e : e = pending[t]
    OBVIOUS
<1> DEFINE stop == {u \in e.targets : ~terminal(u)}
<1>1. PICK C : C = IF e.kind = "group" /\ \E u \in e.targets : state[u] = "failed"
                   THEN Cascade(stop) ELSE <<>>
    OBVIOUS
<1>2. C \in Seq(Task) /\ \A x \in ToSet(C) : state[x] \in Live
    BY <1>1, <1>8, GroupCancels
<1>3. /\ state[t] \in Live /\ current \in {t, Root} /\ QueueWithout(Tail(runnable), t)
      /\ WakesOf(waiters, closeWaiter, t) /\ current = Root
    BY StepReady
<1>4. ~cancelReq[t] /\ UNCHANGED <<activeScopes, scopeState, children, rootVars>>
    BY DEF StepNotReady
<1>5. ScopeSteps /\ StackShrinks(t) /\ UNCHANGED rootVars
    BY <1>4, SameShrinks DEF ScopeSteps
<1>6. CASE t \in ToSet(C)
  <2>1. _finish(t, "cancelled", Tail(runnable), waiters, closeWaiter, C)
    BY <1>1, <1>6, <1>8 DEF StepNotReady, FinishCancelled
  <2>2. "cancelled" \in Ended
    BY DEF Ended
  <2> QED
    BY <1>2, <1>3, <1>5, <2>1, <2>2, EndGoes
<1>7. CASE t \notin ToSet(C)
  <2>1. /\ Cancelling(C, Tail(runnable), waiters, closeWaiter)
        /\ Suspend(t, e, C)
        /\ UNCHANGED <<state, scopeOf, owner>>
    BY <1>1, <1>7, <1>8 DEF StepNotReady
  <2>2. stop # {} \/ \E s \in ToSet(e.scopes) : ~children_terminal(s)
    BY <1>8 DEF StepNotReady
  <2>3. Placed(t) /\ e \in Event
    BY <1>8 DEF Wakes, WakeTypes
  <2>4. state[t] = "running"
    <3>1. CASE state[t] = "pending"
      <4>1. e = NoEvent
        BY <1>8, <2>3, <3>1 DEF Placed
      <4>2. e.targets = {} /\ ToSet(e.scopes) = {}
        BY <4>1 DEF NoEvent, ToSet
      <4> QED
        BY <2>2, <4>2
    <3> QED
      BY <1>3, <3>1 DEF Live
  <2>5. Registered(t)
    BY <1>3, <1>4, <2>3, <2>4 DEF Placed, Task, Root
  <2>6. \A s \in ToSet(e.scopes) : s \in Scope /\ owner[s] = t /\ scopeState[s] \in {"closing", "closed"}
    <3>1. e.scopes \in Seq(Scope)
      BY <2>3 DEF Event
    <3>2. Closes(t, e.scopes)
      BY <1>8 DEF Lineage, EventsOwned
    <3>3. ToSet(e.scopes) \subseteq Scope
      BY <3>1, ToSetIn
    <3> QED
      BY <3>2, <3>3 DEF Closes
  <2>7. Awaits(t, e, waiters, closeWaiter)
    <3>1. \A u \in e.targets : ~terminal(u) => t \in ToSet(waiters[u])
      BY <1>8, <2>5 DEF Registered, Awaited
    <3>2. \A s \in ToSet(e.scopes) : LiveChildren(s) # {} => closeWaiter[s]
      BY <1>8, <2>5 DEF Registered, Joining, children_terminal
    <3>3. \/ \E u \in e.targets : ~terminal(u)
          \/ \E s \in ToSet(e.scopes) : LiveChildren(s) # {}
      BY <2>2 DEF children_terminal
    <3> QED
      BY <2>6, <3>1, <3>2, <3>3 DEF Awaits
  <2>8. Cancelled(ToSet(C), Tail(runnable), waiters, closeWaiter)
    BY <1>2, <1>3, <2>1, CancellingDoes
  <2>9. Closes(t, e.scopes)' /\ e.targets \subseteq Born
    <3>1. Closes(t, e.scopes) /\ e.targets \subseteq Born
      BY <1>8 DEF Lineage, EventsOwned
    <3> QED
      BY <1>4, <2>1, <3>1 DEF Closes
  <2>10. Lineage'
    BY <1>5, <2>1, <2>9, SuspendLineage
  <2>11. ClosedIsEmpty' /\ \A x \in Task : x # t => activeScopes'[x] = activeScopes[x]
    BY <1>4, <2>10 DEF Lineage
  <2>12. state' = state /\ owner' = owner
    BY <2>1
  <2>13. Wakes'
    BY <1>2, <1>3, <1>4, <1>7, <2>1, <2>3, <2>4, <2>7, <2>8, <2>11, <2>12, SuspendWakes
  <2>14. Spreads(t)
    BY <1>3, <1>5, <2>1, <2>8, <2>12, SuspendSpreads
  <2> QED
    BY <2>10, <2>13, <2>14
<1> QED
    BY <1>6, <1>7

\* The scopes a failure unwinds, from the innermost one out: t opened them all.
LEMMA UnwindOwned ==
    ASSUME IInv, Owners, Lineage, NEW t \in Born, FailedDepth(t) > 0
    PROVE  LET depth == FailedDepth(t)
               unwind == Reverse(SubSeq(activeScopes[t], depth, Len(activeScopes[t])))
               U == {s \in Entered : owner[s] = t}
           IN  /\ depth - 1 \in Nat /\ depth - 1 <= Len(activeScopes[t]) /\ Len(activeScopes[t]) >= 2
               /\ unwind \in Seq(U) /\ ToSet(unwind) \subseteq U
               /\ Front(unwind) \in Seq(U) /\ ToSet(Front(unwind)) \subseteq U
<1> DEFINE ss == activeScopes[t]
           depth == FailedDepth(t)
           tail == SubSeq(ss, depth, Len(ss))
           unwind == Reverse(tail)
           U == {s \in Entered : owner[s] = t}
<1>1. ss \in Seq(Entered) /\ Len(ss) \in Nat /\ t \in Task
    BY LenProperties DEF IInv, Places, Born
<1>2. depth \in 1..Len(ss) /\ owner[ss[depth]] = t
    BY <1>1, FailedDepthPlace, FailedDepthOwned
<1>3. depth # 1
    BY <1>2 DEF Owners, TasksAtHome, AtHome
<1>4. \A i \in depth..Len(ss) : ss[i] \in U
  <2> SUFFICES ASSUME NEW i \in depth..Len(ss) PROVE ss[i] \in U
    OBVIOUS
  <2>1. i \in 1..Len(ss) /\ i \in 2..Len(ss)
    BY <1>1, <1>2, <1>3
  <2>2. ss[i] \in Entered
    BY <1>1, <2>1, ElementOfSeq
  <2>3. owner[ss[i]] = t
    BY <1>1, <2>1 DEF Lineage, StacksOwned
  <2> QED
    BY <2>2, <2>3
<1>5. depth \in Int /\ Len(ss) \in Int /\ depth - 1 \in Nat /\ depth - 1 <= Len(ss) /\ Len(ss) >= 2
    BY <1>1, <1>2, <1>3
<1> HIDE DEF depth, ss, U
<1>6. tail \in Seq(U)
    BY <1>4, <1>5, SubSeqProperties
<1> HIDE DEF tail
<1>7. unwind \in Seq(U)
    BY <1>6, ReverseIn
<1> HIDE DEF unwind
<1>8. Front(unwind) \in Seq(U)
  <2>1. Len(unwind) - 1 \in Int /\ Len(unwind) - 1 <= Len(unwind)
    BY <1>7, LenProperties
  <2>2. SubSeq(unwind, 1, Len(unwind) - 1) \in Seq(U)
    BY <1>7, <2>1, PrefixIn
  <2> QED
    BY <2>2 DEF Front
<1>9. ToSet(unwind) \subseteq U /\ ToSet(Front(unwind)) \subseteq U
    BY <1>7, <1>8, ToSetIn
<1> QED
    BY <1>5, <1>7, <1>8, <1>9 DEF depth, ss, tail, unwind, U

\* What an unwind cancels of scopes that t opened: younger live tasks.
LEMMA NestedCancels ==
    ASSUME IInv, Lineage, Wakes, NEW t \in Task,
           NEW f \in Seq({s \in Entered : owner[s] = t})
    PROVE  LET C == Nested(f, LAMBDA s : Cascade(LiveChildren(s)))
           IN  C \in Seq(Task) /\ \A x \in ToSet(C) : state[x] \in Live /\ x # t
<1> DEFINE ss == [i \in DOMAIN f |-> Cascade(LiveChildren(f[i]))]
<1>1. DOMAIN f = 1..Len(f) /\ Len(f) \in Nat
      /\ \A i \in 1..Len(f) : f[i] \in Entered /\ owner[f[i]] = t
    BY LenProperties, ElementOfSeq
<1>2. \A i \in 1..Len(f) :
          /\ Cascade(LiveChildren(f[i])) \in Seq(Task)
          /\ \A x \in ToSet(Cascade(LiveChildren(f[i]))) : state[x] \in Live /\ x # t
  <2> SUFFICES ASSUME NEW i \in 1..Len(f)
               PROVE  /\ Cascade(LiveChildren(f[i])) \in Seq(Task)
                      /\ \A x \in ToSet(Cascade(LiveChildren(f[i]))) : state[x] \in Live /\ x # t
    OBVIOUS
  <2>1. PICK s : s = f[i]
    OBVIOUS
  <2>2. s \in Scope /\ owner[s] = t
    BY <1>1, <2>1 DEF Entered
  <2>3. PICK T : T = LiveChildren(s)
    OBVIOUS
  <2>4. PICK C : C = Cascade(T)
    OBVIOUS
  <2>5. C \in Seq(Task) /\ \A x \in ToSet(C) : state[x] \in Live /\ \E c \in T : x >= c
    BY <2>2, <2>3, <2>4, CascadeLives
  <2>6. ToSet(C) \subseteq Task
    BY <2>5, ToSetIn
  <2>7. T \subseteq Task /\ \A c \in T : c > t
    <3>1. children \in [Scope -> SUBSET Task]
      BY DEF IInv, Base
    <3> QED
      BY <2>2, <2>3, <3>1 DEF Lineage, ChildrenYounger, LiveChildren
  <2>8. \A x \in ToSet(C) : x # t
    <3> SUFFICES ASSUME NEW x \in ToSet(C) PROVE x # t
      OBVIOUS
    <3>1. PICK c \in T : x >= c
      BY <2>5
    <3> QED
      BY <2>6, <2>7, <3>1 DEF Task
  <2> QED
    BY <2>1, <2>3, <2>4, <2>5, <2>8
<1>3. ss \in Seq(Seq(Task)) /\ Len(ss) = Len(f) /\ \A i \in 1..Len(f) : ss[i] = Cascade(LiveChildren(f[i]))
  <2>1. ss = [i \in 1..Len(f) |-> Cascade(LiveChildren(f[i]))]
    BY <1>1
  <2> QED
    BY <1>1, <1>2, <2>1, IsASeq
<1>4. Nested(f, LAMBDA s : Cascade(LiveChildren(s))) = FlattenSeq(ss)
    BY DEF Nested
<1> HIDE DEF ss
<1>5. FlattenSeq(ss) \in Seq(Task) /\ ToSet(FlattenSeq(ss)) = UNION {ToSet(ss[i]) : i \in 1..Len(ss)}
    BY <1>3, Flattened
<1>6. \A x \in ToSet(FlattenSeq(ss)) : state[x] \in Live /\ x # t
  <2> SUFFICES ASSUME NEW x \in ToSet(FlattenSeq(ss)) PROVE state[x] \in Live /\ x # t
    OBVIOUS
  <2>1. PICK i \in 1..Len(ss) : x \in ToSet(ss[i])
    BY <1>5
  <2> QED
    BY <1>2, <1>3, <2>1
<1> QED
    BY <1>4, <1>5, <1>6

\* The owner's own suspension is cancelled: what it would cancel, without it.
LEMMA FrontOfCancel ==
    ASSUME IInv, Lineage, Wakes, NEW t \in Task
    PROVE  /\ Front(request_cancel[t]) \in Seq(Task)
           /\ \A x \in ToSet(Front(request_cancel[t])) : state[x] \in Live /\ x # t
<1> DEFINE rc == request_cancel[t]
           in == Inside(request_cancel, t)
<1>1. rc = in \o <<t>> /\ in \in Seq(Task) /\ ToSet(in) \subseteq Younger(t)
  <2>1. Ranked
    BY LineageRanks DEF Wakes
  <2> QED
    BY <2>1, CancelReaches
<1> HIDE DEF rc, in
<1>2. Front(rc) = in
  <2> DEFINE q == Append(in, t)
             n == Len(in)
  <2>1. rc = q /\ n \in Nat
    BY <1>1, AppendConcat, LenProperties
  <2>2. q \in Seq(Task) /\ Len(q) = n + 1 /\ \A i \in 1..n : q[i] = in[i]
    BY <1>1, AppendProperties
  <2>3. \A i \in 1..n : q[i] \in Task
    BY <1>1, <2>2, ElementOfSeq
  <2> HIDE DEF q, n
  <2>4. /\ SubSeq(q, 1, n) \in Seq(Task)
        /\ Len(SubSeq(q, 1, n)) = IF 1 <= n THEN n - 1 + 1 ELSE 0
        /\ \A i \in 1..(n - 1 + 1) : SubSeq(q, 1, n)[i] = q[1 + i - 1]
    BY <2>1, <2>3, SubSeqProperties
  <2>5. Len(SubSeq(q, 1, n)) = n /\ \A i \in 1..n : SubSeq(q, 1, n)[i] = in[i]
    BY <2>1, <2>2, <2>4
  <2>6. SubSeq(q, 1, n) = in
    BY <1>1, <2>4, <2>5, SeqEqual DEF n
  <2>7. Len(q) - 1 = n
    BY <2>1, <2>2
  <2> QED
    BY <2>1, <2>6, <2>7 DEF Front
<1>3. \A x \in ToSet(in) : state[x] \in Live /\ x # t
    BY <1>1 DEF Younger, Task
<1> QED
    BY <1>1, <1>2, <1>3 DEF rc

\* The fail-fast unwind ends its task, leaves it asleep closing its scopes, or
\* lets it go on in the handler of the failure.
LEMMA UnwindingGoes ==
    ASSUME IInv, Good, Owners, Lineage, Wakes, NEW t \in Task,
           state[t] \in Live, current \in {t, Root}, NEW q, QueueWithout(q, t), Unwinding(t, q)
    PROVE  Lineage' /\ Wakes' /\ Spreads(t)
<1>1. /\ t \in Born /\ state[t] \in Live /\ current \in {t, Root} /\ QueueWithout(q, t)
      /\ WakesOf(waiters, closeWaiter, t) /\ owner \in [Scope -> Task \cup {Root}]
    BY WakesAsTheyAre DEF Born, Live, Owners
<1>2. FailedDepth(t) > 0 /\ ~cancelReq[t] /\ UNCHANGED rootVars
    BY DEF Unwinding
<1> DEFINE U == {s \in Entered : owner[s] = t}
<1>3. PICK depth : depth = FailedDepth(t)
    OBVIOUS
<1>4. PICK unwind : unwind = Reverse(SubSeq(activeScopes[t], depth, Len(activeScopes[t])))
    OBVIOUS
<1>5. /\ depth - 1 \in Nat /\ depth - 1 <= Len(activeScopes[t]) /\ Len(activeScopes[t]) >= 2
      /\ unwind \in Seq(U) /\ ToSet(unwind) \subseteq U /\ Front(unwind) \in Seq(U)
    BY <1>1, <1>2, <1>3, <1>4, UnwindOwned
<1>6. PICK own : own = Front(request_cancel[t])
    OBVIOUS
<1>7. PICK nested : nested = Nested(Front(unwind), LAMBDA s : Cascade(LiveChildren(s)))
    OBVIOUS
<1>8. PICK C : C = own \o nested
    OBVIOUS
<1>9. C \in Seq(Task) /\ (\A x \in ToSet(C) : state[x] \in Live) /\ t \notin ToSet(C)
  <2>1. own \in Seq(Task) /\ \A x \in ToSet(own) : state[x] \in Live /\ x # t
    BY <1>6, FrontOfCancel
  <2>2. nested \in Seq(Task) /\ \A x \in ToSet(nested) : state[x] \in Live /\ x # t
    <3>1. PICK f : f = Front(unwind)
      OBVIOUS
    <3>2. f \in Seq({s \in Entered : owner[s] = t})
      BY <1>5, <3>1
    <3> QED
      BY <1>7, <3>1, <3>2, NestedCancels
  <2>3. C \in Seq(Task) /\ ToSet(C) = ToSet(own) \cup ToSet(nested)
    BY <1>8, <2>1, <2>2, RangeConcat
  <2> QED
    BY <2>1, <2>2, <2>3
<1>10. StackShrinks(t)
  <2>1. activeScopes' = [activeScopes EXCEPT ![t] = SubSeq(@, 1, depth - 1)]
    BY <1>3 DEF Unwinding
  <2>2. PICK k : k = depth - 1
    OBVIOUS
  <2> QED
    BY <1>5, <2>1, <2>2, PrefixShrinks
<1>11. state[t] = "running"
  <2>1. Placed(t)
    BY DEF Wakes
  <2>2. state[t] # "pending"
    BY <1>5, <2>1, LenProperties DEF Placed, IInv, Places
  <2> QED
    BY <1>1, <2>2 DEF Live
<1>12. PICK open : open = {s \in ToSet(unwind) : ~children_terminal(s)}
    OBVIOUS
<1>13. PICK W, CW : W = RemoveWakes(waiters, {t}) /\ CW = RemoveCloseWakes(closeWaiter, {t})
    OBVIOUS
<1>14. /\ W \in [Task -> Seq(Task)] /\ CW \in [Scope -> BOOLEAN]
       /\ \A u \in Task, x \in Task : x # t /\ x \in ToSet(waiters[u]) => x \in ToSet(W[u])
       /\ \A s \in Scope : closeWaiter[s] /\ owner[s] # t => CW[s]
       /\ \A s \in Scope : CW[s] => closeWaiter[s]
  <2>1. waiters \in [Task -> Seq(Task)] /\ closeWaiter \in [Scope -> BOOLEAN]
    BY DEF Wakes, WakeTypes
  <2>2. PICK D : D = {t}
    OBVIOUS
  <2>3. PICK w, cw : w = waiters /\ cw = closeWaiter
    OBVIOUS
  <2>4. /\ RemoveWakes(w, D) \in [Task -> Seq(Task)]
        /\ \A u \in Task, x \in Task : x \notin D /\ x \in ToSet(w[u]) => x \in ToSet(RemoveWakes(w, D)[u])
    BY <2>1, <2>3, WakesRemoved
  <2>5. D \in SUBSET Task
    BY <2>2
  <2>6. /\ RemoveCloseWakes(cw, D) \in [Scope -> BOOLEAN]
        /\ \A s \in Scope : cw[s] /\ owner[s] \notin D => RemoveCloseWakes(cw, D)[s]
        /\ \A s \in Scope : RemoveCloseWakes(cw, D)[s] => cw[s]
    BY <2>1, <2>3, <2>5, CloseWakesRemoved
  <2> QED
    BY <1>13, <2>2, <2>3, <2>4, <2>6
<1>15. \A s \in ToSet(unwind) : s \in Scope /\ owner[s] = t /\ s \in Entered
    BY <1>5 DEF Entered
<1>16. ToSet(unwind) \in SUBSET Scope
    BY <1>15
<1>17. WakesOf(W, CW, t)
  <2>1. \A u \in Task : \A x \in ToSet(waiters[u]) : x # t => x \in ToSet(W[u])
    <3>1. \A u \in Task : ToSet(waiters[u]) \subseteq Task
      <4>1. \A u \in Task : waiters[u] \in Seq(Task)
        BY DEF Wakes, WakeTypes
      <4> QED
        BY <4>1, ToSetIn
    <3> QED
      BY <1>14, <3>1
  <2> QED
    BY <1>1, <1>14, <2>1 DEF WakesOf
<1>18. CASE finalize_close(ToSet(unwind)) /\ FailAfter(t, q, W, CW, C)
  <2>1. ScopeSteps
    BY <1>16, <1>18 DEF ScopeSteps
  <2> QED
    BY <1>1, <1>2, <1>9, <1>10, <1>17, <1>18, <2>1, FailGoes
<1>19. CASE /\ finalize_close(ToSet(unwind))
            /\ Cancelling(C, q, W, CW) /\ Unblock(Append(C, t))
            /\ state' = [state EXCEPT ![t] = "running"]
            /\ pending' = [pending EXCEPT ![t] = NoEvent]
            /\ current' = t /\ UNCHANGED <<scopeOf, owner>>
  <2> DEFINE hit == ToSet(C)
  <2>1. ToSet(Append(C, t)) = hit \cup {t} /\ hit \subseteq Task
    BY <1>9, RangeAppend, ToSetIn
  <2>2. /\ blocked' = [x \in Task |-> blocked[x] /\ x \notin hit \cup {t}]
        /\ blockedCancel' = [x \in Task |->
              IF x \in hit \cup {t} THEN NoEvent ELSE blockedCancel[x]]
    BY <1>19, <2>1 DEF Unblock
  <2>3. /\ blocked \in [Task -> BOOLEAN] /\ cancelReq \in [Task -> BOOLEAN]
        /\ pending \in [Task -> Event] /\ blockedCancel \in [Task -> Event]
        /\ state \in [Task -> States] /\ NoEvent \in Event
    BY EmptySeq DEF Wakes, WakeTypes, IInv, Base, NoEvent, Event
  <2>4. state' = state
    BY <1>11, <1>19, <2>3
  <2>5. Born' = Born /\ \A x \in Task : terminal(x)' <=> terminal(x)
    BY <2>4 DEF Born, terminal
  <2>6. ScopeSteps /\ rootStack' = rootStack
    BY <1>2, <1>16, <1>19 DEF ScopeSteps, rootVars
  <2>7. \A u \in Task : EventsStay(u)
    BY <1>19, <2>2, <2>3 DEF EventsStay
  <2>8. Lineage'
    BY <1>10, <1>19, <2>5, <2>6, <2>7, LineageShrinks
  <2>9. Cancelled(hit, q, W, CW) /\ \A x \in hit : state[x] \in Live
    BY <1>1, <1>9, <1>17, <1>19, CancellingDoes
  <2> HIDE DEF hit
  <2>10. OnlyUnblocks(t, hit)
    BY <1>10, <1>19, <2>2, <2>3, <2>4 DEF OnlyUnblocks, StackShrinks
  <2>11. \A x \in Task : x # t => Placed(x)'
    <3>1. ClosedIsEmpty' /\ current' \in {t, Root} /\ hit \in SUBSET Task
      BY <1>19, <2>1, <2>8 DEF Lineage
    <3> QED
      BY <1>1, <1>17, <2>5, <2>9, <2>10, <3>1, OthersOn
  <2>12. Placed(t)'
    <3>1. ~blocked'[t] /\ t \notin hit
      BY <1>9, <2>2 DEF hit
    <3>2. ~Queued(t)'
      BY <1>1, <2>9, <3>1 DEF Queued, Cancelled, QueueWithout
    <3> QED
      BY <1>11, <1>19, <2>4, <3>1, <3>2, RunnerPlaced
  <2>13. WakeTypes'
    <3>1. cancelReq' \in [Task -> BOOLEAN]
      BY <2>3, <2>9 DEF Cancelled
    <3>2. blocked' \in [Task -> BOOLEAN] /\ blockedCancel' \in [Task -> Event]
      BY <2>2, <2>3
    <3>3. pending' \in [Task -> Event]
      BY <1>19, <2>3
    <3> QED
      BY <1>19, <2>9, <3>1, <3>2, <3>3 DEF WakeTypes, Cancelled
  <2>14. WakeOwners'
    <3>1. Entered \subseteq Entered'
      BY Onward
    <3>2. owner' = owner /\ Root \notin Task
      BY <1>19 DEF Root, Task
    <3> QED
      BY <1>17, <2>9, <3>1, <3>2 DEF Cancelled, WakeOwners, WakesOf
  <2>15. Passes(t)
    <3>1. \A x \in Task : x # t => pending'[x] = pending[x]
      BY <1>19, <2>3
    <3>2. \A x \in Task : x # t /\ Queued(x) => Queued(x)'
      BY <1>1, <2>9 DEF Cancelled, QueueWithout, Queued
    <3>3. \A x \in Task : cancelReq[x] => cancelReq'[x]
      BY <2>9 DEF Cancelled
    <3> QED
      BY <2>4, <2>5, <3>1, <3>2, <3>3 DEF Passes
  <2>16. Spreads(t)
    <3>1. owner' = owner /\ state'[t] # "failed"
      BY <1>11, <1>19, <2>4
    <3> QED
      BY <2>6, <2>15, <3>1, SpreadsOn
  <2> QED
    BY <2>8, <2>11, <2>12, <2>13, <2>14, <2>16 DEF Wakes
<1>20. CASE /\ open # {} /\ begin_close(ToSet(unwind))
            /\ Cancelling(C, q, W, [s \in Scope |-> s \in open \/ CW[s]])
            /\ Suspend(t, ScopeClose(unwind, TRUE), C)
            /\ UNCHANGED <<state, scopeOf, children, owner>>
  <2>1. PICK event : event = ScopeClose(unwind, TRUE)
    OBVIOUS
  <2>2. PICK CW2 : CW2 = [s \in Scope |-> s \in open \/ CW[s]]
    OBVIOUS
  <2>3. /\ begin_close(ToSet(unwind)) /\ Cancelling(C, q, W, CW2)
        /\ Suspend(t, event, C) /\ UNCHANGED <<state, scopeOf, children, owner>>
    BY <1>20, <2>1, <2>2
  <2>4. ScopeSteps
    BY <1>16, <2>3 DEF ScopeSteps
  <2>5. event \in Event /\ event.scopes = unwind /\ event.targets = {}
    <3>1. unwind \in Seq(Scope)
      <4>1. \A r \in Seq(U) : r \in Seq(Scope)
        BY SeqMonotonic DEF Entered
      <4> QED
        BY <1>5, <4>1
    <3> QED
      BY <2>1, <3>1 DEF ScopeClose, NoEvent, Event
  <2>6. WakesOf(W, CW2, t)
    <3>1. CW2 \in [Scope -> BOOLEAN] /\ \A s \in Scope : CW2[s] <=> s \in open \/ CW[s]
      BY <1>14, <2>2
    <3>2. \A s \in Scope : CW2[s] => owner[s] \in Task /\ s \in Entered
      BY <1>12, <1>15, <1>17, <3>1 DEF WakesOf
    <3> QED
      BY <1>17, <3>1, <3>2 DEF WakesOf
  <2>7. Awaits(t, event, W, CW2)
    <3>1. \A s \in ToSet(unwind) : LiveChildren(s) # {} => CW2[s]
      BY <1>12, <1>15, <2>2 DEF children_terminal
    <3>2. \E s \in ToSet(unwind) : LiveChildren(s) # {}
      BY <1>12, <1>20 DEF children_terminal
    <3> QED
      BY <1>15, <2>5, <3>1, <3>2 DEF Awaits
  <2>8. Closes(t, event.scopes)' /\ event.targets \subseteq Born
    <3>1. \A s \in Scope : s \in ToSet(unwind) =>
              owner'[s] = t /\ scopeState'[s] \in {"closing", "closed"}
      BY <1>15, <2>3 DEF begin_close
    <3> QED
      BY <2>5, <3>1 DEF Closes
  <2>9. Lineage'
    BY <1>2, <1>10, <2>3, <2>4, <2>8, SuspendLineage
  <2>10. Cancelled(ToSet(C), q, W, CW2)
    BY <1>1, <1>9, <2>3, <2>6, CancellingDoes
  <2>11. /\ ClosedIsEmpty' /\ state' = state /\ owner' = owner
         /\ \A x \in Task : x # t => activeScopes'[x] = activeScopes[x]
    BY <1>10, <2>3, <2>9 DEF Lineage, StackShrinks
  <2>12. Wakes'
    BY <1>1, <1>2, <1>9, <1>11, <2>3, <2>5, <2>6, <2>7, <2>10, <2>11, SuspendWakes
  <2>13. Spreads(t)
    BY <1>1, <2>3, <2>4, <2>10, <2>11, SuspendSpreads
  <2> QED
    BY <2>9, <2>12, <2>13
<1> QED
    BY <1>3, <1>4, <1>6, <1>7, <1>8, <1>12, <1>13, <1>18, <1>19, <1>20 DEF Unwinding

LEMMA StepFailFastGoes ==
    ASSUME IInv, Good, Owners, Lineage, Wakes, NEW t \in Task, step(t), StepFailFast(t)
    PROVE  Lineage' /\ Wakes' /\ Spreads(t)
<1>1. state[t] \in Live /\ current \in {t, Root} /\ QueueWithout(Tail(runnable), t)
    BY StepReady
<1>2. PICK q : q = Tail(runnable)
    OBVIOUS
<1>3. QueueWithout(q, t) /\ Unwinding(t, q)
    BY <1>1, <1>2 DEF StepFailFast
<1> QED
    BY <1>1, <1>3, UnwindingGoes

LEMMA UnwindNextGoes ==
    ASSUME IInv, Good, Owners, Lineage, Wakes, NEW t \in Task, UnwindNext(t)
    PROVE  Lineage' /\ Wakes' /\ Spreads(t)
<1>1. state[t] \in Live /\ current \in {t, Root} /\ QueueWithout(runnable, t) /\ Unwinding(t, runnable)
    BY RunnerReady DEF UnwindNext
<1> QED
    BY <1>1, UnwindingGoes

\* Every quantum the scheduler starts keeps lineage and wakes.
LEMMA StepGoes ==
    ASSUME IInv, Good, Owners, Lineage, Wakes, NEW t \in Task, step(t)
    PROVE  Lineage' /\ Wakes' /\ Spreads(t)
    BY StepCancelledGoes, StepFailFastGoes, StepNotReadyGoes, StepRunGoes DEF step
-----------------------------------------------------------------------------
(* The root frame keeps lineage and wakes.                                   *)

\* The tasks the root frame waits for were spawned; only tasks stray.
RootTypes ==
    /\ strayed \subseteq Task
    /\ rootPhase \in {"body", "raised", "wait", "group", "groupJoin",
                      "scopeEnd", "leave", "left", "exit", "done"}
    /\ rootTargets \subseteq Born

\* A stack without its innermost scope holds nothing else.
LEMMA FrontRange ==
    ASSUME NEW S, NEW s \in Seq(S)
    PROVE  ToSet(Front(s)) \subseteq ToSet(s)
<1>1. DOMAIN s = 1..Len(s) /\ Len(s) \in Nat
    BY LenProperties
<1>2. \A i \in 1..(Len(s) - 1) : s[i] \in ToSet(s)
    BY <1>1 DEF ToSet
<1>3. SubSeq(s, 1, Len(s) - 1) \in Seq(ToSet(s))
    BY <1>1, <1>2, SubSeqProperties
<1> QED
    BY <1>3, ToSetIn DEF Front

\* A step of the root frame that writes no task, and at most empties scopes.
LEMMA RootScopesGo ==
    ASSUME IInv, Good, Owners, Lineage, Wakes,
           UNCHANGED <<taskVars, activeScopes, owner, closeWaiter, runnable, current>>,
           ScopeSteps, ToSet(rootStack') \subseteq ToSet(rootStack)
    PROVE  Lineage' /\ Wakes' /\ Spreads(Root)
<1>1. UNCHANGED <<state, scopeOf, cancelReq, blocked, blockedCancel, pending, waiters,
                  activeScopes, owner, closeWaiter, runnable, current>>
    BY DEF taskVars
<1>2. StackShrinks(Root) /\ \A u \in Task : blockedCancel'[u] \in {blockedCancel[u], NoEvent}
    BY <1>1, SameShrinks
<1>3. Lineage'
    BY <1>1, <1>2, QuietLineage
<1>4. /\ ClosedIsEmpty' /\ owner \in [Scope -> Task \cup {Root}]
      /\ (\A t \in Task : current = t => state[t] = "running")
      /\ (\A x \in Task : x # current => activeScopes'[x] = activeScopes[x])
      /\ \A s \in Scope : closeWaiter[s] => owner'[s] = owner[s]
    BY <1>1, <1>3 DEF Lineage, Owners, RunnerIsFree
<1>5. Spreads(Root)
    BY <1>1, StillPasses, SpreadsOn DEF Root, Task
<1>6. Wakes'
    BY <1>1, <1>3, <1>4, StillWakes
<1> QED
    BY <1>3, <1>5, <1>6

\* A step of the root frame alone.
LEMMA RootStillGoes ==
    ASSUME IInv, Good, Owners, Lineage, Wakes, RootUnchanged,
           ToSet(rootStack') \subseteq ToSet(rootStack)
    PROVE  Lineage' /\ Wakes' /\ Spreads(Root)
<1>1. /\ UNCHANGED <<taskVars, activeScopes, owner, closeWaiter, runnable, current>>
      /\ ScopeSteps
    BY DEF RootUnchanged, scopeVars, ScopeSteps
<1> QED
    BY <1>1, RootScopesGo

\* SPAWN_CALL of the root frame.
LEMMA RootSpawnGoes ==
    ASSUME IInv, Good, Owners, Lineage, Wakes, RootSpawn
    PROVE  Lineage' /\ Wakes'
<1>1. PICK s \in Scope, c \in Fresh : spawn(c, s)
    BY DEF RootSpawn
<1>2. current = Root /\ current' = current /\ rootStack' = rootStack
    BY DEF RootSpawn, InRoot, rootVars
<1>3. current # c
    BY <1>2 DEF Fresh, Root, Task
<1> QED
    BY <1>1, <1>2, <1>3, SpawnLineage, SpawnWakes

\* SCOPE_BEGIN of the root frame.
LEMMA RootScopeBeginGoes ==
    ASSUME IInv, Good, Owners, Lineage, Wakes, RootScopeBegin
    PROVE  Lineage' /\ Wakes' /\ Spreads(Root)
<1>1. PICK s \in FreshScope :
          /\ scopeState' = [scopeState EXCEPT ![s] = "open"]
          /\ owner' = [owner EXCEPT ![s] = Root]
          /\ rootStack' = Append(rootStack, s)
    BY DEF RootScopeBegin
<1>2. /\ s \in Scope /\ scopeState[s] = "unborn" /\ current = Root
      /\ UNCHANGED <<state, scopeOf, cancelReq, blocked, blockedCancel, pending, waiters,
                     activeScopes, children, closeWaiter, runnable, current>>
    BY DEF RootScopeBegin, FreshScope, taskVars, InRoot
<1>3. \A u \in Task : \A i \in 2..Len(activeScopes'[u]) :
          i \in 2..Len(activeScopes[u]) /\ activeScopes'[u][i] = activeScopes[u][i]
    BY <1>2
<1>4. \A r \in ToSet(rootStack') : r \in ToSet(rootStack) \/ (r = s /\ Root = Root)
  <2>1. rootStack \in Seq(Scope)
    <3>1. \A r \in Seq(Entered) : r \in Seq(Scope)
      BY SeqMonotonic DEF Entered
    <3> QED
      BY <3>1, RootFacts
  <2>2. ToSet(Append(rootStack, s)) = ToSet(rootStack) \cup {s}
    BY <1>2, <2>1, RangeAppend
  <2> QED
    BY <1>1, <2>2
<1>5. Lineage'
  <2>1. UNCHANGED <<state, pending, blockedCancel, scopeOf, children>> /\ Root \in Task \cup {Root}
    BY <1>2
  <2> QED
    BY <1>1, <1>2, <1>3, <1>4, <2>1, EnterLineage
<1>6. \A r \in Scope : closeWaiter[r] => owner'[r] = owner[r]
  <2>1. \A r \in Scope : closeWaiter[r] => r # s
    BY <1>2 DEF Wakes, WakeOwners, Entered
  <2> QED
    BY <1>1, <2>1 DEF Owners
<1>7. Wakes'
  <2>1. /\ ClosedIsEmpty' /\ owner \in [Scope -> Task \cup {Root}]
        /\ (\A u \in Task : current = u => state[u] = "running")
        /\ \A x \in Task : x # current => activeScopes'[x] = activeScopes[x]
    BY <1>2, <1>5 DEF Lineage, Owners, RunnerIsFree
  <2>2. UNCHANGED <<state, cancelReq, blocked, blockedCancel, pending, waiters,
                    closeWaiter, runnable, current>>
    BY <1>2
  <2> QED
    BY <1>6, <2>1, <2>2, StillWakes
<1>8. children[s] = {}
    BY <1>2 DEF Lineage, ChildrenAtHome, Owners, TasksAtHome, AtHome, Entered
<1>9. Spreads(Root)
  <2>1. Passes(Root)
    BY <1>2, StillPasses
  <2>2. Root \notin Task /\ \A r \in Scope : r # s => owner'[r] = owner[r]
    BY <1>1 DEF Owners, Root, Task
  <2> QED
    BY <1>2, <1>8, <2>1, <2>2 DEF Spreads
<1> QED
    BY <1>5, <1>7, <1>9

\* Task.cancel in the root frame.
LEMMA RootCancelGoes ==
    ASSUME IInv, Good, Owners, Lineage, Wakes, RootCancel
    PROVE  Lineage' /\ Wakes' /\ Spreads(Root)
<1>1. PICK u \in Born : /\ ~terminal(u)
                        /\ Cancelling(request_cancel[u], runnable, waiters, closeWaiter)
                        /\ Unblock(request_cancel[u])
    BY DEF RootCancel
<1>2. /\ UNCHANGED <<state, scopeOf, pending, activeScopes, owner, current>>
      /\ ScopeSteps /\ rootStack' = rootStack
    BY DEF RootCancel, ScopeSteps, rootVars
<1>3. /\ request_cancel[u] \in Seq(Task)
      /\ \A x \in ToSet(request_cancel[u]) : state[x] \in Live
    BY <1>1, OneCancel
<1> QED
    BY <1>1, <1>2, <1>3, CancelsGo

\* wait_all cancels what is left of its group.
LEMMA RootCancelGroupGoes ==
    ASSUME IInv, Good, Owners, Lineage, Wakes, RootTypes, RootCancelGroup
    PROVE  Lineage' /\ Wakes' /\ Spreads(Root)
<1>1. PICK rest : rest = {u \in rootTargets : ~terminal(u)}
    OBVIOUS
<1>2. PICK C : C = Cascade(rest)
    OBVIOUS
<1>3. C \in Seq(Task) /\ \A x \in ToSet(C) : state[x] \in Live
  <2>1. rest \in SUBSET Task /\ \A u \in rest : state[u] \in Live
    BY <1>1 DEF RootTypes, Born, terminal, IInv, Base, States, Ended, Live
  <2>2. Ranked
    BY LineageRanks DEF Wakes
  <2> QED
    BY <1>2, <2>1, <2>2, CascadeOf
<1>4. /\ Cancelling(C, runnable, waiters, closeWaiter) /\ Unblock(C)
      /\ UNCHANGED <<state, scopeOf, pending, activeScopes, owner, current>>
      /\ ScopeSteps /\ rootStack' = rootStack
    BY <1>1, <1>2 DEF RootCancelGroup, ScopeSteps
<1> QED
    BY <1>3, <1>4, CancelsGo

\* SCOPE_END of the root frame, and the join it drives to.
LEMMA RootScopeEndGoes ==
    ASSUME IInv, Good, Owners, Lineage, Wakes, RootScopeEnd \/ RootScopeJoined
    PROVE  Lineage' /\ Wakes' /\ Spreads(Root)
<1>1. Last(rootStack) \in Scope /\ rootClosing \in Scope
    BY RootFacts DEF Entered
<1>2. ScopeSteps
    BY <1>1 DEF ScopeSteps, RootScopeEnd, RootScopeJoined
<1>3. ToSet(rootStack') \subseteq ToSet(rootStack)
  <2>1. rootStack' \in {rootStack, Front(rootStack)}
    BY DEF RootScopeEnd, RootScopeJoined
  <2> QED
    BY <2>1, FrontRange, RootFacts
<1>4. UNCHANGED <<taskVars, activeScopes, owner, closeWaiter, runnable, current>>
    BY DEF RootScopeEnd, RootScopeJoined
<1> QED
    BY <1>2, <1>3, <1>4, RootScopesGo

\* The end of VirtualMachine.run.
LEMMA RootExitGoes ==
    ASSUME IInv, Good, Owners, Lineage, Wakes, RootExit
    PROVE  Lineage' /\ Wakes' /\ Spreads(Root)
<1>1. PICK s : s = Last(rootStack)
    OBVIOUS
<1>2. PICK C : C = Cascade(LiveChildren(s))
    OBVIOUS
<1>3. s \in Scope
    BY <1>1, RootFacts DEF Entered
<1>4. begin_close({s}) /\ UNCHANGED <<state, scopeOf, pending, activeScopes, children, owner, current>>
    BY <1>1 DEF RootExit
<1>5. ScopeSteps
    BY <1>3, <1>4 DEF ScopeSteps
<1>6. ToSet(rootStack') \subseteq ToSet(rootStack)
  <2>1. rootStack' \in {rootStack, Front(rootStack)}
    BY DEF RootExit
  <2> QED
    BY <2>1, FrontRange, RootFacts
<1>7. CASE UNCHANGED <<cancelReq, waiters, closeWaiter, runnable, blocked, blockedCancel>>
  <2>1. UNCHANGED <<taskVars, activeScopes, owner, closeWaiter, runnable, current>>
    BY <1>4, <1>7 DEF taskVars
  <2> QED
    BY <1>5, <1>6, <2>1, RootScopesGo
<1>8. CASE Cancelling(C, runnable, waiters, closeWaiter) /\ Unblock(C)
  <2>1. C \in Seq(Task) /\ \A x \in ToSet(C) : state[x] \in Live
    <3>1. PICK T : T = LiveChildren(s)
      OBVIOUS
    <3>2. T \in SUBSET LiveChildren(s)
      BY <3>1
    <3> QED
      BY <1>2, <1>3, <3>1, <3>2, CascadeLives
  <2> QED
    BY <1>4, <1>5, <1>6, <1>8, <2>1, CancelsGo
<1> QED
    BY <1>1, <1>2, <1>7, <1>8 DEF RootExit

\* Every step of the root frame keeps lineage and wakes.
LEMMA RootFrameGoes ==
    ASSUME IInv, Good, Owners, Lineage, Wakes, RootTypes, RootFrame
    PROVE  Lineage' /\ Wakes' /\ (Spreads(Root) \/ RootSpawn)
<1>1. CASE RootWait \/ RootCatch \/ RootWaitDone \/ RootGroupJoined
  <2>1. RootUnchanged /\ rootStack' = rootStack
    BY <1>1 DEF RootWait, RootCatch, RootWaitDone, RootGroupJoined, rootVars
  <2> QED
    BY <2>1, RootStillGoes
<1>2. CASE RootDeadlock
  <2>1. CASE RootCancelGroup
    BY <2>1, RootCancelGroupGoes
  <2>2. CASE ~RootCancelGroup
    <3>1. RootUnchanged /\ rootStack' = rootStack
      BY <1>2, <2>2 DEF RootDeadlock
    <3> QED
      BY <3>1, RootStillGoes
  <2> QED
    BY <2>1, <2>2
<1>3. CASE RootGroupFailed
    BY <1>3, RootCancelGroupGoes DEF RootGroupFailed
<1> QED
    BY <1>1, <1>2, <1>3, RootSpawnGoes, RootScopeBeginGoes, RootCancelGoes,
       RootScopeEndGoes, RootExitGoes DEF RootFrame

\* Whoever takes a step may stray, and nobody comes back.
StraysOnly == strayed' \in {strayed} \cup {strayed \cup S : S \in SUBSET Task}

LEMMA TaskStrays ==
    ASSUME NEW t \in Task, step(t) \/ Instruction(t) \/ UnwindNext(t)
    PROVE  StraysOnly
<1>1. \A x, apart : Stray(x, apart) => StraysOnly
  <2> SUFFICES ASSUME NEW x, NEW apart, Stray(x, apart) PROVE StraysOnly
    OBVIOUS
  <2>1. {x} \cap Task \in SUBSET Task
    OBVIOUS
  <2> QED
    BY <2>1 DEF Stray, StraysOnly
<1>2. CASE strayed' = strayed
    BY <1>2 DEF StraysOnly
<1>3. CASE strayed' # strayed
  <2>1. CASE \E q : Unwinding(t, q)
    BY <1>1, <1>3, <2>1 DEF Unwinding, Caught, blockVars
  <2>2. CASE StepRun(t) \/ Catch(t)
    BY <1>1, <1>3, <2>2 DEF StepRun, Catch, Caught, blockVars
  <2>3. ~(StepCancelled(t) \/ StepNotReady(t))
    BY <1>3 DEF StepCancelled, StepNotReady, blockVars
  <2>4. Instruction(t) => Catch(t)
    BY <1>3 DEF Instruction, Spawn, SpawnRefused, ScopeBegin, ScopeEnd,
       ScopeEndUnmatched, Wait, WaitGroup, WaitFor, Cancel, Yield, CancelPoll,
       Return, Panic, blockVars
  <2> QED
    BY <2>1, <2>2, <2>3, <2>4 DEF step, StepFailFast, UnwindNext
<1> QED
    BY <1>2, <1>3

LEMMA RootStrays ==
    ASSUME RootFrame
    PROVE  StraysOnly
<1>1. \A apart : Stray(Root, apart) => StraysOnly
  <2> SUFFICES ASSUME NEW apart, Stray(Root, apart) PROVE StraysOnly
    OBVIOUS
  <2>1. {Root} \cap Task \in SUBSET Task
    OBVIOUS
  <2> QED
    BY <2>1 DEF Stray, StraysOnly
<1>2. strayed' = strayed => StraysOnly
    BY DEF StraysOnly
<1> QED
    BY <1>1, <1>2 DEF RootFrame, RootSpawn, RootScopeBegin, RootWait, RootCancel,
       RootCatch, RootRaises, Caught, RootWaitDone, RootGroupFailed, RootCancelGroup,
       RootGroupJoined, RootScopeEnd, RootScopeJoined, RootDeadlock, RootExit, blockVars

LEMMA StrayedKept ==
    ASSUME strayed \subseteq Task, [Next]_vars
    PROVE  strayed' \subseteq Task
<1>1. CASE StraysOnly
    BY <1>1 DEF StraysOnly
<1>2. CASE strayed' = strayed
    BY <1>2
<1> QED
    BY <1>1, <1>2, TaskStrays, RootStrays DEF Next, Done, vars, blockVars

\* What the root frame waits for stays spawned.
LEMMA RootTypesKept ==
    ASSUME IInv, Good, RootTypes, [Next]_vars
    PROVE  RootTypes'
<1>1. Born \subseteq Born'
    BY Onward
<1>2. /\ rootPhase' \in {"body", "raised", "wait", "group", "groupJoin", "scopeEnd",
                        "leave", "left", "exit", "done"}
      /\ rootTargets' \subseteq Born
  <2>1. CASE UNCHANGED rootVars \/ UNCHANGED vars
    BY <2>1 DEF rootVars, vars, RootTypes
  <2>2. CASE \E t \in Task : step(t) \/ Instruction(t) \/ UnwindNext(t)
    <3>1. UNCHANGED rootVars
      BY <2>2 DEF step, StepCancelled, StepFailFast, StepNotReady, StepRun, Unwinding,
         UnwindNext, Instruction, Spawn, SpawnRefused, ScopeBegin, ScopeEnd,
         ScopeEndUnmatched, Wait, WaitGroup, WaitFor, Cancel, Yield, CancelPoll,
         Return, Catch, Panic
    <3> QED
      BY <3>1 DEF rootVars, RootTypes
  <2>3. CASE RootFrame
    BY <2>3 DEF RootTypes, RootFrame, RootSpawn, RootScopeBegin, RootWait, RootCancel,
       RootCatch, RootRaises, RootWaitDone, RootGroupFailed, RootCancelGroup, RootGroupJoined, RootScopeEnd,
       RootScopeJoined, RootDeadlock, RootExit, rootVars
  <2> QED
    BY <2>1, <2>2, <2>3 DEF Next, Done
<1>3. strayed' \subseteq Task
    BY StrayedKept DEF RootTypes
<1> QED
    BY <1>1, <1>2, <1>3 DEF RootTypes
-----------------------------------------------------------------------------
(* Nobody is stranded.                                                       *)

\* Lineage and wakes hold when VirtualMachine.run starts,
LEMMA WakesInitially == Init => Lineage /\ Wakes /\ RootTypes
<1> SUFFICES ASSUME Init PROVE Lineage /\ Wakes /\ RootTypes
    OBVIOUS
<1>1. /\ Born = {} /\ runnable = <<>> /\ current = Root /\ ToSet(runnable) = {}
      /\ rootStack = <<RootScope>> /\ RootScope \in Scope /\ ToSet(rootStack) = {RootScope}
      /\ (\A s \in Scope : /\ children[s] = {} /\ owner[s] = Root /\ closeWaiter[s] = FALSE)
      /\ \A t \in Task : /\ state[t] = "unborn" /\ cancelReq[t] = FALSE /\ blocked[t] = FALSE
                         /\ pending[t] = NoEvent /\ blockedCancel[t] = NoEvent
                         /\ activeScopes[t] = <<>> /\ waiters[t] = <<>>
  <2>1. RootScope \in Scope
    BY SchedulerAssumption DEF SchedulerAssumption, Scope, RootScope
  <2>2. ToSet(<<RootScope>>) = {RootScope} /\ ToSet(<<>>) = {}
    BY <2>1, SingletonIn, RangeEmpty
  <2> QED
    BY <2>1, <2>2 DEF Init, Born
<1>2. Root \notin Task /\ Len(<<>>) = 0 /\ ToSet(NoEvent.scopes) = {} /\ NoEvent.targets = {}
    BY RangeEmpty DEF Root, Task, NoEvent
<1>3. Lineage
    BY <1>1, <1>2 DEF Lineage, BornInOrder, ChildrenAtHome, ClosedIsEmpty, ChildrenYounger,
       StacksOwned, EventsOwned, Closes, RootStackOwned, Born
<1>4. WakeTypes
  <2>1. NoEvent \in Event /\ <<>> \in Seq(Task) /\ IsInjective(<<>>)
    <3>1. <<>> \in Seq(Scope) /\ <<>> \in Seq(Task)
      BY EmptySeq
    <3> QED
      BY <3>1 DEF NoEvent, Event, IsInjective
  <2> QED
    BY <2>1 DEF Init, WakeTypes
<1>5. \A t \in Task : Placed(t)
  <2> SUFFICES ASSUME NEW t \in Task PROVE Placed(t)
    OBVIOUS
  <2>1. /\ state[t] = "unborn" /\ ~blocked[t] /\ ~cancelReq[t] /\ pending[t] = NoEvent
        /\ blockedCancel[t] = NoEvent /\ Len(activeScopes[t]) = 0 /\ ~Queued(t)
    BY <1>1, <1>2 DEF Queued
  <2> QED
    BY <2>1 DEF Placed
<1>6. WakeOwners
    BY <1>1 DEF WakeOwners
<1>7. RootTypes
    BY DEF Init, RootTypes
<1> QED
    BY <1>3, <1>4, <1>5, <1>6, <1>7 DEF Wakes

\* and every step keeps them.
LEMMA WakesAlways == Spec => [](Lineage /\ Wakes /\ RootTypes)
<1>1. /\ IInv /\ Owners /\ Lineage /\ Wakes /\ RootTypes
      /\ [Next]_vars
      => Lineage' /\ Wakes' /\ RootTypes'
  <2> SUFFICES ASSUME IInv, Owners, Lineage, Wakes, RootTypes, [Next]_vars
               PROVE  Lineage' /\ Wakes' /\ RootTypes'
    OBVIOUS
  <2>1. Good
    BY NextKeeps
  <2>2. RootTypes'
    BY <2>1, RootTypesKept
  <2>3. CASE UNCHANGED vars
    <3>1. RootUnchanged /\ rootStack' = rootStack
      BY <2>3 DEF RootUnchanged, vars, rootVars
    <3> QED
      BY <2>1, <2>2, <3>1, RootStillGoes
  <2>4. CASE Next
    <3>1. CASE Done
      BY <2>3, <3>1 DEF Done
    <3> QED
      BY <2>1, <2>2, <2>4, <3>1, StepGoes, InstructionGoes, UnwindNextGoes, RootFrameGoes DEF Next
  <2> QED
    BY <2>3, <2>4
<1> QED
    BY <1>1, WakesInitially, Inductive, OwnersAlways, PTL DEF Spec

\* The types.
LEMMA TypesFollow == IInv /\ Owners /\ Wakes /\ RootTypes => TypeOK
<1> SUFFICES ASSUME IInv, Owners, Wakes, RootTypes PROVE TypeOK
    OBVIOUS
<1>1. \A r \in Seq(Entered) : r \in Seq(Scope)
    BY SeqMonotonic DEF Entered
<1>2. /\ \A t \in Task : activeScopes[t] \in Seq(Scope)
      /\ rootStack \in Seq(Scope) /\ rootClosing \in Scope
    BY <1>1 DEF IInv, Places, Entered
<1>3. \A t \in Task : waiters[t] \in Seq(Task) /\ pending[t] \in Event /\ blockedCancel[t] \in Event
    BY DEF Wakes, WakeTypes
<1>4. \A t \in Task : \A e \in {pending[t], blockedCancel[t]} :
          /\ e.kind \in {"none", "wait", "group", "close"} /\ e.targets \subseteq Task
          /\ e.scopes \in Seq(Scope) /\ e.primary \in BOOLEAN
    BY <1>3 DEF Event
<1>5. /\ state \in [Task -> {"unborn"} \cup Live \cup Ended]
      /\ scopeOf \in [Task -> Scope]
      /\ scopeState \in [Scope -> {"unborn", "open", "closing", "closed"}]
      /\ children \in [Scope -> SUBSET Task]
    BY DEF IInv, Base, States, ScopeStates
<1>6. /\ owner \in [Scope -> Task \cup {Root}]
      /\ current # Root => state[current] = "running"
    BY DEF Owners, RunnerIsFree, Wakes, WakeTypes
<1>7. /\ \A t \in ToSet(runnable) : state[t] \in Live /\ t # current /\ ~blocked[t]
      /\ \A t \in Task : state[t] = "pending" => Queued(t)
  <2>1. ToSet(runnable) \subseteq Task
    BY ToSetIn DEF Wakes, WakeTypes
  <2> QED
    BY <2>1 DEF Wakes, Placed, Queued
<1>8. rootTargets \subseteq Task
    BY DEF RootTypes, Born
<1> QED
    BY <1>2, <1>3, <1>4, <1>5, <1>6, <1>7, <1>8
    DEF TypeOK, Wakes, WakeTypes, RootTypes, Owners, BlocksCounted

\* Who sleeps has its wakes, and those it would take back are of its own sleep.
LEMMA WakesFollow == Lineage /\ Wakes => NoLostWakeup /\ CancelDelivered
<1> SUFFICES ASSUME Lineage, Wakes PROVE NoLostWakeup /\ CancelDelivered
    OBVIOUS
<1>1. \A t \in Task : Placed(t)
    BY DEF Wakes
<1>2. CancelDelivered
    BY <1>1 DEF CancelDelivered, Placed
<1>3. ASSUME NEW t \in Task, state[t] = "running", current # t, ~Queued(t)
      PROVE  /\ blocked[t] /\ blockedCancel[t] = pending[t]
             /\ Awaited(t) # {} \/ Joining(t) # {}
             /\ \A u \in Awaited(t) : t \in ToSet(waiters[u])
             /\ \A s \in Joining(t) : scopeState[s] = "closing" /\ closeWaiter[s]
  <2>1. ~cancelReq[t] /\ blocked[t] /\ (Awaited(t) # {} \/ Joining(t) # {})
    BY <1>1, <1>3 DEF Placed, terminal, Ended
  <2>2. Registered(t) /\ blockedCancel[t] = pending[t]
    BY <1>1, <1>3, <2>1 DEF Placed
  <2>3. \A s \in Joining(t) : scopeState[s] = "closing"
    BY JoiningCloses DEF Wakes
  <2> QED
    BY <2>1, <2>2, <2>3 DEF Registered
<1>4. NoLostWakeup
    BY <1>3 DEF NoLostWakeup, Awaited, Joining
<1> QED
    BY <1>2, <1>4

\* Nobody is stranded (Scheduler.NobodyIsStranded): whoever is neither running
\* nor queued sleeps on something that has not happened, with a wake on the
\* list of everything it waits for, and a requested cancellation has put its
\* task on the queue.  A cascade of request_cancel ends because whoever is
\* closing a scope is older than the scope's children (Lineage), it takes only
\* wakes of the tasks it queues, and who ends or joins wakes everybody on its
\* list (Placed).
THEOREM NobodyIsEverStranded == Spec => []NobodyIsStranded
<1>1. IInv /\ Owners /\ Lineage /\ Wakes /\ RootTypes => NobodyIsStranded
    BY TypesFollow, WakesFollow DEF NobodyIsStranded
<1> QED
    BY <1>1, Inductive, OwnersAlways, WakesAlways, PTL
-----------------------------------------------------------------------------
(* A failure spreads at once (FailFast).                                     *)

\* What a failed child of scope s asks of its owner t.
Reached(s, t) ==
    \/ terminal(t) \/ Queued(t)
    \/ (current = t /\ s \in ToSet(activeScopes[t]))
    \/ s \in ToSet(pending[t].scopes) \/ pending[t].primary
    \/ (t \in strayed /\ s \notin ToSet(activeScopes[t]))

LEMMA ReachesIs ==
    FailureReachesOwner <=>
        \A s \in Scope : owner[s] # Root /\ FailedChildren(s) # {} => Reached(s, owner[s])
    BY DEF FailureReachesOwner, Reached

\* The same of the owner that took the step.
OwnReached(t) == t \in Task => \A s \in Scope :
    owner'[s] = t /\ FailedChildren(s)' # {} => Reached(s, t)'

\* What a step of t that spawns nobody leaves alone.
Alone(t) ==
    /\ current \in {t, Root} /\ strayed \subseteq strayed'
    /\ \A x \in Task : x # t => activeScopes'[x] = activeScopes[x]

LEMMA TaskAlone ==
    ASSUME IInv, NEW t \in Task, step(t) \/ UnwindNext(t) \/ (Instruction(t) /\ ~Spawn(t))
    PROVE  Alone(t)
<1>1. strayed \subseteq strayed'
    BY TaskStrays DEF StraysOnly
<1>2. \/ UNCHANGED activeScopes
      \/ \E ss : activeScopes' = [activeScopes EXCEPT ![t] = ss]
  <2>1. \A q : Unwinding(t, q) => \E ss : activeScopes' = [activeScopes EXCEPT ![t] = ss]
    BY DEF Unwinding
  <2>2. StepCancelled(t) \/ StepNotReady(t) \/ StepRun(t) => UNCHANGED activeScopes
    BY DEF StepCancelled, StepNotReady, StepRun
  <2>3. ScopeBegin(t) \/ ScopeEnd(t) => \E ss : activeScopes' = [activeScopes EXCEPT ![t] = ss]
    BY DEF ScopeBegin, ScopeEnd
  <2>4. Instruction(t) /\ ~Spawn(t) /\ ~ScopeBegin(t) /\ ~ScopeEnd(t) => UNCHANGED activeScopes
    BY DEF Instruction, SpawnRefused, ScopeEndUnmatched, Wait, WaitGroup, WaitFor,
       Cancel, Yield, CancelPoll, Return, Catch, Panic
  <2> QED
    BY <2>1, <2>2, <2>3, <2>4 DEF step, StepFailFast, UnwindNext
<1>3. \A x \in Task : x # t => activeScopes'[x] = activeScopes[x]
    BY <1>2 DEF IInv, Places
<1>4. current \in {t, Root}
    BY DEF step, Driving, UnwindNext, Instruction, Spawn, SpawnRefused, ScopeBegin, ScopeEnd,
       ScopeEndUnmatched, Wait, WaitGroup, WaitFor, Cancel, Yield, CancelPoll, Return,
       Catch, Panic
<1> QED
    BY <1>1, <1>3, <1>4 DEF Alone

\* What failed in a scope had failed before, or just did and was heard.
LEMMA FailedBefore ==
    ASSUME IInv, Lineage, NEW t, Spreads(t), NEW s \in Scope, NEW c \in FailedChildren(s)'
    PROVE  /\ c \in Task /\ c \in children[s] /\ scopeOf[c] = s /\ owner'[s] = owner[s]
           /\ c \in FailedChildren(s) \/ (c = t /\ Heard(t))
<1>1. c \in children'[s] /\ state'[c] = "failed"
    BY DEF FailedChildren
<1>2. c \in children[s] /\ owner'[s] = owner[s]
    BY <1>1 DEF Spreads
<1>3. c \in Task /\ scopeOf[c] = s
    BY <1>2 DEF Lineage, ChildrenAtHome, Born
<1>4. CASE state[c] = "failed"
    BY <1>2, <1>3, <1>4 DEF FailedChildren
<1>5. CASE state[c] # "failed"
  <2>1. c = t
    BY <1>1, <1>3, <1>5 DEF Spreads, Passes
  <2>2. Heard(t)
    BY <1>1, <1>3, <1>5, <2>1 DEF Spreads
  <2> QED
    BY <1>2, <1>3, <2>1, <2>2
<1> QED
    BY <1>4, <1>5

\* Such a step keeps siblings stopping and owners reached.
LEMMA FailuresSpread ==
    ASSUME IInv, Owners, Lineage, FailureStopsSiblings, FailureReachesOwner,
           NEW t, Spreads(t), Alone(t), OwnReached(t)
    PROVE  FailureStopsSiblings' /\ FailureReachesOwner'
<1>1. \A r \in Scope : owner[r] # Root /\ FailedChildren(r) # {} => Reached(r, owner[r])
    BY ReachesIs
<1> SUFFICES ASSUME NEW s \in Scope, owner'[s] # Root, FailedChildren(s)' # {}
             PROVE  /\ \A c \in children'[s] : terminal(c)' \/ cancelReq'[c]
                    /\ Reached(s, owner[s])'
  <2>1. ASSUME NEW r \in Scope, Reached(r, owner[r])'
        PROVE  (\/ terminal(owner[r]) \/ Queued(owner[r])
                \/ (current = owner[r] /\ r \in ToSet(activeScopes[owner[r]]))
                \/ r \in ToSet(pending[owner[r]].scopes) \/ pending[owner[r]].primary
                \/ (owner[r] \in strayed /\ r \notin ToSet(activeScopes[owner[r]])))'
    BY <2>1 DEF Reached, terminal, Queued
  <2> QED
    BY <2>1 DEF FailureStopsSiblings, FailureReachesOwner
<1>2. PICK c : c \in FailedChildren(s)'
    OBVIOUS
<1>3. /\ c \in Task /\ c \in children[s] /\ scopeOf[c] = s /\ owner'[s] = owner[s]
      /\ c \in FailedChildren(s) \/ (c = t /\ Heard(t))
    BY <1>2, FailedBefore
<1>4. PICK o : o = owner[s]
    OBVIOUS
<1>5. o \in Task /\ children'[s] \subseteq children[s] /\ children[s] \subseteq Task
    BY <1>3, <1>4 DEF Owners, Spreads, IInv, Base
<1>6. SUFFICES /\ \A d \in children'[s] : terminal(d)' \/ cancelReq'[d]
               /\ Reached(s, o)'
    BY <1>3, <1>4 DEF Reached, terminal, Queued
<1>7. CASE c = t /\ Heard(t)
    BY <1>3, <1>4, <1>5, <1>7 DEF Heard, Reached
<1>8. CASE c \in FailedChildren(s)
  <2>1. \A d \in children[s] : terminal(d) \/ cancelReq[d]
    BY <1>3, <1>8 DEF FailureStopsSiblings
  <2>2. \A d \in children'[s] : terminal(d)' \/ cancelReq'[d]
    BY <1>5, <2>1 DEF Spreads, Passes
  <2>3. Reached(s, o)
    BY <1>1, <1>3, <1>4, <1>8
  <2>4. CASE o # t
    <3>1. current # o
      BY <1>5, <2>4 DEF Alone, Root, Task
    <3>2. /\ activeScopes'[o] = activeScopes[o] /\ pending'[o] = pending[o]
          /\ o \in strayed => o \in strayed'
          /\ terminal(o) => terminal(o)'
          /\ Queued(o) => Queued(o)'
      BY <1>5, <2>4 DEF Alone, Spreads, Passes
    <3> QED
      BY <2>2, <2>3, <3>1, <3>2 DEF Reached
  <2>5. CASE o = t
    BY <1>3, <1>4, <1>5, <2>2, <2>5 DEF OwnReached
  <2> QED
    BY <2>4, <2>5
<1> QED
    BY <1>3, <1>7, <1>8

\* Whoever holds the executor after a step either has the scope of a failed
\* child on its stack, and unwinds it next, or went past the end of its block.
LEMMA RunsReached ==
    ASSUME IInv', Owners', Lineage', NEW t \in Task, current' = t
    PROVE  OwnReached(t)
<1> SUFFICES ASSUME NEW s \in Scope, owner'[s] = t, FailedChildren(s)' # {},
                    s \notin ToSet(activeScopes'[t])
             PROVE  t \in strayed'
    BY DEF OwnReached, Reached
<1>1. scopeState'[s] # "closed"
    BY DEF Lineage, ClosedIsEmpty, FailedChildren
<1>2. state'[t] = "running" /\ pending'[t] = NoEvent
    BY DEF Owners, RunnerIsFree
<1>3. s \notin ToSet(pending'[t].scopes)
    BY <1>2, RangeEmpty DEF NoEvent
<1>4. t \in Born'
    BY <1>2 DEF Born
<1>5. \A i \in 2..Len(activeScopes'[t]) : activeScopes'[t][i] # s
  <2>1. activeScopes'[t] \in Seq(Entered')
    BY DEF IInv, Places
  <2>2. DOMAIN activeScopes'[t] = 1..Len(activeScopes'[t]) /\ Len(activeScopes'[t]) \in Nat
    BY <2>1, LenProperties
  <2> QED
    BY <2>2 DEF ToSet
<1>6. Accounted(s, t)'
    BY DEF Owners, ScopesAccounted
<1> QED
    BY <1>1, <1>2, <1>3, <1>5, <1>6 DEF Accounted

\* A task that goes on was not cancelled: none of its siblings failed.
LEMMA RunsUnfailed ==
    ASSUME IInv, Owners', Lineage, FailureStopsSiblings, NEW t \in Task, state[t] \in Live,
           Spreads(t), ~cancelReq[t], scopeOf' = scopeOf, current' \in {t, Root}
    PROVE  RunnerUnfailed'
<1>1. \A u \in Task : current' = u => u = t
    BY DEF Root, Task
<1>2. PICK s : s = scopeOf[t]
    OBVIOUS
<1>3. s \in Scope /\ t \in Born
    BY <1>2 DEF IInv, Base, Born, Live
<1>4. ASSUME current' = t, owner'[s] # Root, NEW c, c \in FailedChildren(s)' PROVE FALSE
  <2>1. /\ c \in Task /\ owner'[s] = owner[s]
        /\ c \in FailedChildren(s) \/ (c = t /\ Heard(t))
    BY <1>3, <1>4, FailedBefore
  <2>2. state'[t] = "running"
    BY <1>4 DEF Owners, RunnerIsFree
  <2>3. c \in FailedChildren(s)
    BY <1>4, <2>1, <2>2 DEF FailedChildren
  <2>4. scopeState[s] # "closed"
    BY <1>3, <2>3 DEF Lineage, ClosedIsEmpty, FailedChildren
  <2>5. t \in children[s]
    BY <1>2, <1>3, <2>4 DEF IInv, Homes
  <2>6. terminal(t) \/ cancelReq[t]
    BY <1>3, <1>4, <2>1, <2>3, <2>5 DEF FailureStopsSiblings
  <2> QED
    BY <2>6 DEF terminal, Ended, Live
<1>5. current' = t /\ owner'[scopeOf'[t]] # Root =>
          \A c \in children'[scopeOf'[t]] : state'[c] # "failed"
    BY <1>2, <1>4 DEF FailedChildren
<1>6. \A u \in Task : current' = u /\ owner'[scopeOf'[u]] # Root =>
          \A c \in children'[scopeOf'[u]] : state'[c] # "failed"
    BY <1>1, <1>5
<1> QED
    BY <1>6 DEF RunnerUnfailed, FailedChildren

\* No place of active_scopes has a failure that unwinds its owner.
LEMMA NoFailedDepth ==
    ASSUME IInv, NEW t \in Task, FailedDepth(t) = 0, NEW i \in 1..Len(activeScopes[t]),
           owner[activeScopes[t][i]] = t
    PROVE  FailedChildren(activeScopes[t][i]) = {}
<1> DEFINE n == Len(activeScopes[t])
           I == {j \in 1..n : /\ owner[activeScopes[t][j]] = t
                              /\ FailedChildren(activeScopes[t][j]) # {}}
<1>1. n \in Nat
    BY LenProperties DEF IInv, Places
<1>2. FailedDepth(t) = IF I # {} THEN Max(I) ELSE 0
    BY DEF FailedDepth, SelectLastInSeq
<1>3. I # {} => Max(I) \in I
    BY <1>1, GreatestPlace
<1>4. \A j \in I : j # 0
    BY <1>1
<1>5. FailedChildren(activeScopes[t][i]) # {} => i \in I
    OBVIOUS
<1> HIDE DEF I
<1> QED
    BY <1>2, <1>3, <1>4, <1>5

\* No sibling fails while a task runs.
LEMMA RunnerStays ==
    ASSUME IInv, Owners', Lineage, RunnerUnfailed, NEW t \in Task, current = t,
           Spreads(t), current' \in {t, Root}, scopeOf' = scopeOf
    PROVE  RunnerUnfailed'
<1>1. \A u \in Task : current' = u => u = t
    BY DEF Root, Task
<1>2. PICK s : s = scopeOf[t]
    OBVIOUS
<1>3. s \in Scope
    BY <1>2 DEF IInv, Base
<1>4. ASSUME current' = t, owner'[s] # Root, NEW c, c \in FailedChildren(s)' PROVE FALSE
  <2>1. /\ c \in Task /\ owner'[s] = owner[s]
        /\ c \in FailedChildren(s) \/ (c = t /\ Heard(t))
    BY <1>3, <1>4, FailedBefore
  <2>2. state'[t] = "running"
    BY <1>4 DEF Owners, RunnerIsFree
  <2>3. c \in FailedChildren(s)
    BY <1>4, <2>1, <2>2 DEF FailedChildren
  <2> QED
    BY <1>2, <1>4, <2>1, <2>3 DEF RunnerUnfailed
<1>5. current' = t /\ owner'[scopeOf'[t]] # Root =>
          \A c \in children'[scopeOf'[t]] : state'[c] # "failed"
    BY <1>2, <1>4 DEF FailedChildren
<1>6. \A u \in Task : current' = u /\ owner'[scopeOf'[u]] # Root =>
          \A c \in children'[scopeOf'[u]] : state'[c] # "failed"
    BY <1>1, <1>5
<1> QED
    BY <1>6 DEF RunnerUnfailed, FailedChildren

\* An instruction moves the runner's stack only: a scope of it whose failed
\* child does not unwind it was left behind by a handler before.
LEMMA InstructionReached ==
    ASSUME IInv, IInv', Owners, Lineage, Wakes, FailureReachesOwner, NEW t \in Task, current = t,
           FailedDepth(t) = 0, Spreads(t), Alone(t), t \in Born',  TasksAtHome', scopeOf' = scopeOf,
           \A i \in 2..Len(activeScopes'[t]) :
                \/ children'[activeScopes'[t][i]] = {}
                \/ \E j \in 2..Len(activeScopes[t]) : activeScopes'[t][i] = activeScopes[t][j]
    PROVE  OwnReached(t)
<1> SUFFICES ASSUME NEW s \in Scope, owner'[s] = t, NEW c, c \in FailedChildren(s)'
             PROVE  t \in strayed' /\ s \notin ToSet(activeScopes'[t])
    BY DEF OwnReached, Reached
<1>1. /\ c \in Task /\ c \in children[s] /\ scopeOf[c] = s /\ owner'[s] = owner[s]
      /\ c \in FailedChildren(s) \/ (c = t /\ Heard(t))
    BY FailedBefore
<1>2. /\ t \in Born /\ state[t] = "running" /\ pending[t] = NoEvent
    BY RunnerReady
<1>3. c # t /\ s # scopeOf[t]
    BY <1>1, <1>2 DEF Owners, TasksAtHome, AtHome
<1>4. Len(activeScopes[t]) \in Nat /\ DOMAIN activeScopes[t] = 1..Len(activeScopes[t])
    BY LenProperties DEF IInv, Places
<1>5. s \notin ToSet(activeScopes[t])
  <2>1. ASSUME NEW i \in 1..Len(activeScopes[t]), activeScopes[t][i] = s PROVE FALSE
    <3>1. owner[activeScopes[t][i]] = t
      BY <1>1, <2>1
    <3>2. FailedChildren(activeScopes[t][i]) = {}
      BY <3>1, NoFailedDepth
    <3> QED
      BY <1>1, <1>3, <2>1, <3>2
  <2> QED
    BY <1>4, <2>1 DEF ToSet
<1>6. Reached(s, t)
    BY <1>1, <1>3, ReachesIs DEF Task, Root
<1>7. t \in strayed
  <2>1. ~terminal(t) /\ ~Queued(t)
    BY <1>2 DEF terminal, Ended, Wakes, Placed
  <2>2. s \notin ToSet(pending[t].scopes) /\ ~pending[t].primary
    BY <1>2, RangeEmpty DEF NoEvent
  <2> QED
    BY <1>5, <1>6, <2>1, <2>2 DEF Reached
<1>8. s \notin ToSet(activeScopes'[t])
  <2>1. AtHome(t)'
    BY DEF TasksAtHome
  <2>2. activeScopes'[t][1] = scopeOf[t]
    BY <2>1 DEF AtHome
  <2>3. children'[s] # {}
    BY DEF FailedChildren
  <2>4. \A i \in 2..Len(activeScopes'[t]) : activeScopes'[t][i] # s
    <3>1. \A j \in 2..Len(activeScopes[t]) : activeScopes[t][j] # s
      BY <1>4, <1>5 DEF ToSet
    <3>2. ASSUME NEW i \in 2..Len(activeScopes'[t]), activeScopes'[t][i] = s PROVE FALSE
      <4>1. children'[activeScopes'[t][i]] # {}
        BY <2>3, <3>2
      <4>2. PICK j \in 2..Len(activeScopes[t]) : activeScopes'[t][i] = activeScopes[t][j]
        BY <4>1
      <4> QED
        BY <3>1, <3>2, <4>2
    <3> QED
      BY <3>2
  <2>5. activeScopes'[t] \in Seq(Entered')
    BY DEF IInv, Places
  <2>6. DOMAIN activeScopes'[t] = 1..Len(activeScopes'[t]) /\ Len(activeScopes'[t]) \in Nat
    BY <2>5, LenProperties
  <2> QED
    BY <1>3, <2>2, <2>4, <2>6 DEF ToSet
<1> QED
    BY <1>7, <1>8 DEF Alone

\* A task that ends leaves the executor.
LEMMA EndLeaves ==
    ASSUME NEW t, NEW q, NEW T,
           \/ Fail(t, q) \/ Raise(t, T, q) \/ Complete(t)
           \/ FinishCancelled(t, q, waiters, closeWaiter, <<>>)
    PROVE  current' = Root /\ scopeOf' = scopeOf
<1>1. Fail(t, q) => current' = Root /\ scopeOf' = scopeOf
    BY DEF Fail, FailAfter, _finish
<1>2. FinishCancelled(t, q, waiters, closeWaiter, <<>>) => current' = Root /\ scopeOf' = scopeOf
    BY DEF FinishCancelled, _finish
<1>3. Complete(t) => current' = Root /\ scopeOf' = scopeOf
    BY DEF Complete, _finish
<1> QED
    BY <1>1, <1>2, <1>3 DEF Raise

\* So does one that ends its quantum.
LEMMA QuantumLeaves ==
    ASSUME NEW t, NEW event, NEW W, NEW CW, EndQuantum(t, event, W, CW)
    PROVE  current' = Root /\ scopeOf' = scopeOf
<1>1. CASE cancelReq[t]
    BY <1>1 DEF EndQuantum, FinishCancelled, _finish
<1>2. CASE ~cancelReq[t]
    BY <1>2 DEF EndQuantum, Suspend
<1> QED
    BY <1>1, <1>2

\* The stack an instruction leaves: what it was, without its innermost scope, or
\* with a new one that has no children.
LEMMA InstructionStack ==
    ASSUME IInv, Owners, Lineage, NEW t \in Task, Instruction(t), ~Spawn(t)
    PROVE  /\ current = t /\ current' \in {t, Root} /\ scopeOf' = scopeOf
           /\ \A i \in 2..Len(activeScopes'[t]) :
                \/ children'[activeScopes'[t][i]] = {}
                \/ \E j \in 2..Len(activeScopes[t]) : activeScopes'[t][i] = activeScopes[t][j]
<1>1. activeScopes \in [Task -> Seq(Entered)] /\ activeScopes[t] \in Seq(Entered)
      /\ Len(activeScopes[t]) \in Nat
    BY LenProperties DEF IInv, Places
<1>2. CASE ScopeBegin(t)
  <2>1. PICK s \in FreshScope : activeScopes' = [activeScopes EXCEPT ![t] = Append(@, s)]
    BY <1>2 DEF ScopeBegin
  <2>2. /\ s \in Scope /\ scopeState[s] = "unborn" /\ current = t
        /\ UNCHANGED <<scopeOf, children, current>>
    BY <1>2 DEF ScopeBegin, FreshScope, taskVars
  <2>3. children'[s] = {}
    BY <2>2 DEF Lineage, ChildrenAtHome, Owners, TasksAtHome, AtHome, Entered
  <2> DEFINE ss == activeScopes[t]
  <2>4. ss \in Seq(Scope) /\ activeScopes'[t] = Append(ss, s) /\ Len(ss) \in Nat
    <3>1. \A r \in Seq(Entered) : r \in Seq(Scope)
      BY SeqMonotonic DEF Entered
    <3> QED
      BY <1>1, <2>1, <3>1
  <2> HIDE DEF ss
  <2>5. Len(Append(ss, s)) = Len(ss) + 1 /\ Append(ss, s)[Len(ss) + 1] = s
        /\ \A i \in 1..Len(ss) : Append(ss, s)[i] = ss[i]
    BY <2>2, <2>4, AppendProperties
  <2>6. \A i \in 2..Len(Append(ss, s)) :
           \/ Append(ss, s)[i] = s
           \/ \E j \in 2..Len(ss) : Append(ss, s)[i] = ss[j]
    BY <2>4, <2>5
  <2> QED
    BY <2>2, <2>3, <2>4, <2>6 DEF ss
<1>3. CASE ScopeEnd(t)
  <2>1. current = t /\ Len(activeScopes[t]) > 1
        /\ activeScopes' = [activeScopes EXCEPT ![t] = Front(@)]
    BY <1>3 DEF ScopeEnd
  <2> DEFINE k == Len(activeScopes[t]) - 1
  <2>2. k \in Nat /\ k <= Len(activeScopes[t])
    BY <1>1, <2>1
  <2>3. activeScopes' = [activeScopes EXCEPT ![t] = SubSeq(@, 1, k)]
    BY <2>1 DEF Front
  <2> HIDE DEF k
  <2>4. StackShrinks(t)
    BY <2>2, <2>3, PrefixShrinks
  <2>5. current' \in {t, Root} /\ scopeOf' = scopeOf
    <3>1. PICK s : s = Last(activeScopes[t])
      OBVIOUS
    <3>2. \/ Fail(t, runnable)
          \/ UNCHANGED <<taskVars, owner, closeWaiter, runnable, current>>
          \/ \E event, W, CW : EndQuantum(t, event, W, CW)
      BY <1>3 DEF ScopeEnd
    <3> QED
      BY <2>1, <3>2, EndLeaves, QuantumLeaves DEF taskVars
  <2> QED
    BY <2>1, <2>4, <2>5 DEF StackShrinks
<1>4. CASE Wait(t) \/ WaitGroup(t)
  <2>1. PICK T, event : WaitFor(t, T, event)
    BY <1>4 DEF Wait, WaitGroup
  <2>2. /\ current = t /\ UNCHANGED activeScopes
        /\ Raise(t, T, runnable) \/ \E W, CW : EndQuantum(t, event, W, CW)
    BY <2>1 DEF WaitFor
  <2> QED
    BY <2>2, EndLeaves, QuantumLeaves
<1>5. CASE Cancel(t) \/ Catch(t)
    BY <1>5 DEF Cancel, Catch, taskVars
<1>6. CASE Yield(t)
  <2>1. /\ current = t /\ UNCHANGED activeScopes
        /\ \/ FinishCancelled(t, runnable, waiters, closeWaiter, <<>>)
           \/ current' = Root /\ scopeOf' = scopeOf
    BY <1>6 DEF Yield, taskVars
  <2> QED
    BY <2>1, EndLeaves
<1>7. CASE SpawnRefused(t) \/ CancelPoll(t) \/ Return(t) \/ Panic(t) \/ ScopeEndUnmatched(t)
  <2>1. /\ current = t /\ UNCHANGED activeScopes
        /\ \/ Fail(t, runnable) \/ Complete(t)
           \/ FinishCancelled(t, runnable, waiters, closeWaiter, <<>>)
    BY <1>7 DEF SpawnRefused, CancelPoll, Return, Panic, ScopeEndUnmatched
  <2> QED
    BY <2>1, EndLeaves
<1> QED
    BY <1>2, <1>3, <1>4, <1>5, <1>6, <1>7 DEF Instruction

\* A task is spawned into a scope without failures, or into one of the root
\* frame, which stops nobody.
LEMMA SpawnFails ==
    ASSUME IInv, Owners, Owners', Lineage, Wakes, Failures,
           NEW c \in Fresh, NEW s \in Scope, spawn(c, s), current' = current, current # c,
           strayed' = strayed, owner[s] = Root \/ FailedChildren(s) = {}
    PROVE  Failures'
<1>1. /\ c \in Task /\ state[c] = "unborn"
      /\ state' = [state EXCEPT ![c] = "pending"]
      /\ children' = [children EXCEPT ![s] = @ \cup {c}]
      /\ activeScopes' = [activeScopes EXCEPT ![c] = <<s>>]
      /\ runnable' = Append(runnable, c)
      /\ scopeOf' = [scopeOf EXCEPT ![c] = s]
      /\ UNCHANGED <<cancelReq, pending, owner>>
    BY DEF spawn, Spawned, Fresh
<1>2. /\ state \in [Task -> States] /\ children \in [Scope -> SUBSET Task]
      /\ activeScopes \in [Task -> Seq(Entered)] /\ runnable \in Seq(Task)
    BY DEF IInv, Base, Places, Wakes, WakeTypes
<1>3. \A x \in Task : x # c => state'[x] = state[x] /\ activeScopes'[x] = activeScopes[x]
    BY <1>1, <1>2
<1>4. state'[c] = "pending" /\ \A x \in Task : terminal(x) => terminal(x)'
    BY <1>1, <1>2, <1>3 DEF terminal, Ended
<1>5. \A r \in Scope : FailedChildren(r)' = FailedChildren(r)
  <2> SUFFICES ASSUME NEW r \in Scope PROVE FailedChildren(r)' = FailedChildren(r)
    OBVIOUS
  <2>1. children[r] \subseteq Task /\ (children'[r] = children[r] \/ children'[r] = children[r] \cup {c})
    BY <1>1, <1>2
  <2>2. c \notin FailedChildren(r) /\ c \notin FailedChildren(r)'
    BY <1>1, <1>4 DEF FailedChildren
  <2> QED
    BY <1>3, <2>1, <2>2 DEF FailedChildren
<1>6. \A x \in Task : Queued(x) => Queued(x)'
    BY <1>1, <1>2, RangeAppend DEF Queued
<1>7. FailureStopsSiblings'
  <2> SUFFICES ASSUME NEW r \in Scope, owner[r] # Root, FailedChildren(r) # {},
                      NEW d \in children'[r]
               PROVE  terminal(d)' \/ cancelReq'[d]
    BY <1>1, <1>5 DEF FailureStopsSiblings
  <2>1. d \in children[r]
    BY <1>1, <1>2
  <2>2. terminal(d) \/ cancelReq[d]
    BY <2>1 DEF Failures, FailureStopsSiblings
  <2> QED
    BY <1>1, <1>2, <1>4, <2>1, <2>2
<1>8. FailureReachesOwner'
  <2>0. \A r \in Scope : owner[r] # Root /\ FailedChildren(r) # {} => Reached(r, owner[r])
    BY ReachesIs DEF Failures
  <2> SUFFICES ASSUME NEW r \in Scope, owner[r] # Root, FailedChildren(r) # {},
                      NEW o, o = owner[r]
               PROVE  (\/ terminal(o) \/ Queued(o)
                       \/ (current = o /\ r \in ToSet(activeScopes[o]))
                       \/ r \in ToSet(pending[o].scopes) \/ pending[o].primary
                       \/ (o \in strayed /\ r \notin ToSet(activeScopes[o])))'
    BY <1>1, <1>5 DEF FailureReachesOwner, terminal, Queued
  <2>1. Reached(r, o)
    BY <2>0
  <2>2. o \in Task /\ o # c
    BY <1>1 DEF Owners, OwnersSpawned, Born
  <2>3. activeScopes'[o] = activeScopes[o] /\ (terminal(o) => terminal(o)')
        /\ (Queued(o) => Queued(o)')
    BY <1>3, <1>4, <1>6, <2>2
  <2> QED
    BY <1>1, <2>1, <2>3 DEF Reached
<1>9. RunnerUnfailed'
  <2>1. \A u \in Task : current' = u => scopeOf'[u] = scopeOf[u] /\ scopeOf[u] \in Scope
    BY <1>1 DEF IInv, Base
  <2>2. \A u \in Task : current = u /\ owner[scopeOf[u]] # Root => FailedChildren(scopeOf[u]) = {}
    BY DEF Failures, RunnerUnfailed
  <2>3. \A u \in Task : current' = u /\ owner'[scopeOf'[u]] # Root =>
            \A d \in children'[scopeOf'[u]] : state'[d] # "failed"
    BY <1>1, <1>5, <2>1, <2>2 DEF FailedChildren
  <2> QED
    BY <2>3 DEF RunnerUnfailed, FailedChildren
<1> QED
    BY <1>7, <1>8, <1>9 DEF Failures

\* Every instruction of the running task lets a failure spread,
LEMMA InstructionFails ==
    ASSUME IInv, IInv', Good, Owners, Owners', Lineage, Wakes, Failures, NEW t \in Task,
           Instruction(t)
    PROVE  Failures'
<1>1. CASE Spawn(t)
  <2>1. PICK s \in Scope, c \in Fresh : s = Last(activeScopes[t]) /\ spawn(c, s)
    BY <1>1 DEF Spawn
  <2>2. current = t /\ current' = current
    BY <1>1 DEF Spawn
  <2>3. current # c
    BY <2>2, RunnerReady DEF Fresh, Born
  <2>4. owner[s] = Root \/ FailedChildren(s) = {}
    <3>1. t \in Born /\ Len(activeScopes[t]) \in Nat
      BY <2>2, RunnerReady, LenProperties DEF IInv, Places
    <3>2. Len(activeScopes[t]) >= 1 /\ activeScopes[t][1] = scopeOf[t]
      BY <3>1 DEF Owners, TasksAtHome, AtHome
    <3>3. PICK n : n = Len(activeScopes[t])
      OBVIOUS
    <3>4. n \in 1..Len(activeScopes[t]) /\ s = activeScopes[t][n]
      BY <2>1, <3>1, <3>2, <3>3 DEF Last
    <3>5. CASE n = 1
      BY <2>2, <3>2, <3>4, <3>5 DEF Failures, RunnerUnfailed
    <3>6. CASE n # 1
      <4>1. n \in 2..Len(activeScopes[t])
        BY <3>1, <3>4, <3>6
      <4>2. owner[activeScopes[t][n]] = t
        BY <4>1 DEF Lineage, StacksOwned
      <4>3. FailedChildren(activeScopes[t][n]) = {}
        BY <3>4, <4>2, NoFailedDepth DEF Instruction
      <4> QED
        BY <3>4, <4>3
    <3> QED
      BY <3>5, <3>6
  <2>5. strayed' = strayed
    BY <1>1 DEF Spawn, blockVars
  <2> QED
    BY <2>1, <2>2, <2>3, <2>4, <2>5, SpawnFails
<1>2. CASE ~Spawn(t)
  <2>1. Spreads(t)
    BY <1>2, InstructionGoes
  <2>2. /\ current = t /\ current' \in {t, Root} /\ scopeOf' = scopeOf
        /\ \A i \in 2..Len(activeScopes'[t]) :
             \/ children'[activeScopes'[t][i]] = {}
             \/ \E j \in 2..Len(activeScopes[t]) : activeScopes'[t][i] = activeScopes[t][j]
    BY <1>2, InstructionStack
  <2>3. /\ t \in Born' /\ TasksAtHome' /\ FailedDepth(t) = 0 /\ Alone(t)
        /\ FailureStopsSiblings /\ FailureReachesOwner /\ RunnerUnfailed
    BY <1>2, <2>2, RunningIsBorn, Onward, TaskAlone DEF Owners, Instruction, Failures
  <2>4. OwnReached(t)
    BY <2>1, <2>2, <2>3, InstructionReached
  <2>5. FailureStopsSiblings' /\ FailureReachesOwner'
    BY <2>1, <2>3, <2>4, FailuresSpread
  <2>6. RunnerUnfailed'
    BY <2>1, <2>2, <2>3, RunnerStays
  <2> QED
    BY <2>5, <2>6 DEF Failures
<1> QED
    BY <1>1, <1>2

\* What a task owns and failed is then being closed by its suspension, or was
\* left behind.
LEMMA OwnSuspended ==
    ASSUME IInv, Owners, Lineage, NEW t \in Task, state[t] \in Live, FailedDepth(t) = 0,
           NEW s \in Scope, owner[s] = t, NEW c, c \in FailedChildren(s)
    PROVE  \/ pending[t].primary \/ s \in ToSet(pending[t].scopes)
           \/ (t \in strayed /\ s \notin ToSet(activeScopes[t]))
<1>1. Accounted(s, t)
    BY DEF Owners, ScopesAccounted
<1>2. scopeState[s] # "closed"
    BY DEF Lineage, ClosedIsEmpty, FailedChildren
<1>3. Len(activeScopes[t]) \in Nat /\ DOMAIN activeScopes[t] = 1..Len(activeScopes[t])
    BY LenProperties DEF IInv, Places
<1>4. ASSUME NEW i \in 1..Len(activeScopes[t]), activeScopes[t][i] = s PROVE FALSE
  <2>1. owner[activeScopes[t][i]] = t
    BY <1>4
  <2>2. FailedChildren(activeScopes[t][i]) = {}
    BY <2>1, NoFailedDepth
  <2> QED
    BY <1>4, <2>2
<1>5. s \notin ToSet(activeScopes[t])
    BY <1>3, <1>4 DEF ToSet
<1>6. ~\E i \in 2..Len(activeScopes[t]) : activeScopes[t][i] = s
    BY <1>3, <1>4
<1> QED
    BY <1>1, <1>2, <1>5, <1>6 DEF Accounted, Live

\* A task that ends has ended, and holds the executor no longer.
LEMMA EndsThere ==
    ASSUME IInv, NEW t \in Task, NEW q, NEW W, NEW CW, NEW C, NEW T,
           \/ Fail(t, q) \/ Raise(t, T, q)
           \/ FinishCancelled(t, q, W, CW, C) \/ FailAfter(t, q, W, CW, C)
    PROVE  OwnReached(t) /\ RunnerUnfailed'
<1>1. current' = Root /\ \E outcome \in Ended : state' = [state EXCEPT ![t] = outcome]
  <2>1. CASE FinishCancelled(t, q, W, CW, C)
    BY <2>1 DEF FinishCancelled, _finish, Ended
  <2>2. CASE FailAfter(t, q, W, CW, C)
    BY <2>2 DEF FailAfter, _finish, Ended
  <2>3. CASE Fail(t, q)
    BY <2>3 DEF Fail, FailAfter, _finish, Ended
  <2>4. CASE Raise(t, T, q)
    BY <2>4 DEF Raise, Fail, FailAfter, FinishCancelled, _finish, Ended
  <2> QED
    BY <2>1, <2>2, <2>3, <2>4
<1>2. terminal(t)'
    BY <1>1 DEF IInv, Base, terminal
<1>3. \A u \in Task : current' # u
    BY <1>1 DEF Root, Task
<1> QED
    BY <1>2, <1>3 DEF OwnReached, Reached, RunnerUnfailed

\* A suspension that is not ready, suspended on again, still closes the scopes
\* in which a child failed.
LEMMA StepNotReadyReached ==
    ASSUME IInv, Owners, Lineage, NEW t \in Task, state[t] \in Live, Spreads(t),
           StepNotReady(t)
    PROVE  OwnReached(t) /\ RunnerUnfailed'
<1>1. \E C : \/ FinishCancelled(t, Tail(runnable), waiters, closeWaiter, C)
             \/ /\ Suspend(t, pending[t], C)
                /\ UNCHANGED <<state, scopeOf, owner>>
    BY DEF StepNotReady
<1>2. CASE \E C : FinishCancelled(t, Tail(runnable), waiters, closeWaiter, C)
    BY <1>2, EndsThere
<1>3. CASE \E C : Suspend(t, pending[t], C) /\ UNCHANGED <<state, scopeOf, owner>>
  <2>1. pending' = [pending EXCEPT ![t] = pending[t]] /\ current' = Root
        /\ state' = state /\ owner' = owner
    BY <1>3 DEF Suspend
  <2>2. pending'[t] = pending[t]
    BY <2>1 DEF IInv, Base, Places
  <2>0. activeScopes' = activeScopes /\ strayed' = strayed
    BY DEF StepNotReady, blockVars
  <2>3. ASSUME NEW s \in Scope, owner[s] = t, FailedChildren(s)' # {}
        PROVE  \/ s \in ToSet(pending'[t].scopes) \/ pending'[t].primary
               \/ (t \in strayed' /\ s \notin ToSet(activeScopes'[t]))
    <3>1. PICK c : c \in FailedChildren(s)'
      BY <2>3
    <3>2. c \in FailedChildren(s)
      BY <2>1, <3>1 DEF FailedChildren, Spreads
    <3> QED
      BY <2>0, <2>2, <2>3, <3>2, OwnSuspended DEF StepNotReady
  <2>4. OwnReached(t)
    BY <2>1, <2>3 DEF OwnReached, Reached
  <2>5. \A u \in Task : current' # u
    BY <2>1 DEF Root, Task
  <2> QED
    BY <2>4, <2>5 DEF RunnerUnfailed
<1> QED
    BY <1>1, <1>2, <1>3

\* A task that is ready ends or goes on.
LEMMA StepRunReached ==
    ASSUME IInv, IInv', Owners', Lineage, Lineage', Failures, NEW t \in Task, state[t] \in Live,
           Spreads(t), StepRun(t)
    PROVE  OwnReached(t) /\ RunnerUnfailed'
<1>1. CASE Fail(t, Tail(runnable)) \/ Raise(t, pending[t].targets, Tail(runnable))
    BY <1>1, EndsThere
<1>2. CASE current' = t /\ scopeOf' = scopeOf
  <2>1. ~cancelReq[t]
    BY DEF StepRun
  <2> QED
    BY <1>2, <2>1, RunsReached, RunsUnfailed DEF Failures
<1> QED
    BY <1>1, <1>2 DEF StepRun

\* An unwind ends its task, suspends it for good or lets it go on.
LEMMA UnwindingReached ==
    ASSUME IInv, IInv', Owners', Lineage, Lineage', Failures, NEW t \in Task, state[t] \in Live,
           Spreads(t), NEW q, Unwinding(t, q)
    PROVE  OwnReached(t) /\ RunnerUnfailed'
<1>1. CASE \E W, CW, C : FailAfter(t, q, W, CW, C)
    BY <1>1, EndsThere
<1>2. CASE \E unwind, C : Suspend(t, ScopeClose(unwind, TRUE), C)
  <2>1. PICK unwind : /\ current' = Root
                      /\ pending' = [pending EXCEPT ![t] = ScopeClose(unwind, TRUE)]
    BY <1>2 DEF Suspend
  <2>2. pending'[t].primary
    <3>1. pending'[t] = ScopeClose(unwind, TRUE)
      BY <2>1 DEF IInv, Base, Places
    <3> QED
      BY <3>1 DEF ScopeClose, NoEvent
  <2>3. \A u \in Task : current' # u
    BY <2>1 DEF Root, Task
  <2> QED
    BY <2>2, <2>3 DEF OwnReached, Reached, RunnerUnfailed
<1>3. CASE current' = t /\ scopeOf' = scopeOf
  <2>1. ~cancelReq[t]
    BY DEF Unwinding
  <2> QED
    BY <1>3, <2>1, RunsReached, RunsUnfailed DEF Failures
<1> QED
    BY <1>1, <1>2, <1>3 DEF Unwinding

\* every quantum the scheduler starts, and every further unwind,
LEMMA StepFails ==
    ASSUME IInv, IInv', Good, Owners, Owners', Lineage, Lineage', Wakes, Failures,
           NEW t \in Task, step(t) \/ UnwindNext(t)
    PROVE  Failures'
<1>1. Spreads(t) /\ state[t] \in Live /\ Alone(t)
  <2>1. step(t) => state[t] \in Live
    BY DEF step
  <2>2. UnwindNext(t) => state[t] \in Live
    BY RunnerReady DEF UnwindNext
  <2> QED
    BY <2>1, <2>2, StepGoes, UnwindNextGoes, TaskAlone
<1>2. SUFFICES OwnReached(t) /\ RunnerUnfailed'
  <2>1. FailureStopsSiblings /\ FailureReachesOwner
    BY DEF Failures
  <2>2. ASSUME OwnReached(t) PROVE FailureStopsSiblings' /\ FailureReachesOwner'
    BY <1>1, <2>1, <2>2, FailuresSpread
  <2> QED
    BY <2>2 DEF Failures
<1>3. CASE step(t) /\ StepCancelled(t)
    BY <1>3, EndsThere DEF StepCancelled
<1>4. CASE \E q : Unwinding(t, q)
    BY <1>1, <1>4, UnwindingReached
<1> QED
    BY <1>1, <1>3, <1>4, StepNotReadyReached, StepRunReached
    DEF step, StepFailFast, UnwindNext

\* and every step of the root frame.
LEMMA RootFrameFails ==
    ASSUME IInv, Good, Owners, Owners', Lineage, Wakes, RootTypes, Failures, RootFrame
    PROVE  Failures'
<1>1. CASE ~RootSpawn
  <2>0. Spreads(Root)
    BY <1>1, RootFrameGoes
  <2>4. current = Root /\ current' = Root /\ activeScopes' = activeScopes
    BY <1>1 DEF RootFrame, RootScopeBegin, RootWait, RootCatch, RootCancel, RootWaitDone,
       RootGroupFailed, RootCancelGroup, RootGroupJoined, RootScopeEnd,
       RootScopeJoined, RootDeadlock, RootExit, RootUnchanged, InRoot, Driving
  <2>6. Alone(Root)
    BY <2>4, RootStrays DEF Alone, StraysOnly
  <2>1. OwnReached(Root)
    BY DEF OwnReached, Root, Task
  <2>2. FailureStopsSiblings /\ FailureReachesOwner
    BY DEF Failures
  <2>3. FailureStopsSiblings' /\ FailureReachesOwner'
    BY <2>0, <2>1, <2>2, <2>6, FailuresSpread
  <2>5. RunnerUnfailed'
    BY <2>4 DEF RunnerUnfailed, Root, Task
  <2> QED
    BY <2>3, <2>5 DEF Failures
<1>2. CASE RootSpawn
  <2>1. PICK s \in Scope, c \in Fresh : s = Last(rootStack) /\ spawn(c, s)
    BY <1>2 DEF RootSpawn
  <2>2. current = Root /\ current' = current
    BY <1>2 DEF RootSpawn, InRoot
  <2>3. current # c
    BY <2>2 DEF Fresh, Root, Task
  <2>4. owner[s] = Root
    <3>1. s \in ToSet(rootStack)
      <4>1. Len(rootStack) \in DOMAIN rootStack
        <5>1. /\ DOMAIN rootStack = 1..Len(rootStack) /\ Len(rootStack) \in Nat
              /\ Len(rootStack) # 0
          BY RootFacts, LenProperties, EmptySeq
        <5> QED
          BY <5>1
      <4> QED
        BY <2>1, <4>1 DEF Last, ToSet
    <3> QED
      BY <3>1 DEF Lineage, RootStackOwned
  <2>5. strayed' = strayed
    BY <1>2 DEF RootSpawn, blockVars
  <2> QED
    BY <2>1, <2>2, <2>3, <2>4, <2>5, SpawnFails
<1> QED
    BY <1>1, <1>2

\* A failure has spread from the first state on.
LEMMA FailuresAlways == Spec => []Failures
<1>1. Init => Failures
  <2> SUFFICES ASSUME Init PROVE Failures
    OBVIOUS
  <2>1. (\A s \in Scope : owner[s] = Root) /\ \A t \in Task : current # t
    BY DEF Init, Root, Task
  <2> QED
    BY <2>1 DEF Failures, FailureStopsSiblings, FailureReachesOwner, RunnerUnfailed
<1>2. /\ IInv /\ IInv' /\ Owners /\ Owners' /\ Lineage /\ Lineage' /\ Wakes /\ RootTypes
      /\ Failures
      /\ [Next]_vars
      => Failures'
  <2> SUFFICES ASSUME IInv, IInv', Owners, Owners', Lineage, Lineage', Wakes, RootTypes, Failures,
                      [Next]_vars
               PROVE  Failures'
    OBVIOUS
  <2>1. Good
    BY NextKeeps
  <2>2. CASE UNCHANGED vars
    BY <2>2 DEF vars, taskVars, scopeVars, blockVars, Failures, FailureStopsSiblings, terminal,
       FailureReachesOwner, RunnerUnfailed, FailedChildren, Queued
  <2>3. CASE Next
    <3>1. CASE Done
      BY <2>2, <3>1 DEF Done
    <3> QED
      BY <2>1, <2>3, <3>1, StepFails, InstructionFails, RootFrameFails DEF Next
  <2> QED
    BY <2>2, <2>3
<1> QED
    BY <1>1, <1>2, Inductive, OwnersAlways, WakesAlways, PTL DEF Spec

\* A failure spreads at once (Scheduler.FailFast): the task that fails cancels
\* its siblings and wakes who owns the scope in the same step, and nobody joins
\* them later: whoever runs on first unwinds a failed scope of its own that is
\* on its stack, and no sibling of it has failed (RunnerUnfailed), because a
\* sibling of a failed task is cancelled before it runs.  A failed scope that
\* is neither on its owner's stack nor closed by its suspension is one that a
\* handler or a replaced close left behind (Owners).
THEOREM FailuresSpreadAtOnce == Spec => []FailFast
<1>1. Failures => FailFast
    BY DEF Failures, FailFast
<1> QED
    BY <1>1, FailuresAlways, PTL
=============================================================================
