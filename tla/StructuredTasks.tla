-------------------------- MODULE StructuredTasks --------------------------
(***************************************************************************)
(* What structured concurrency promises, without a scheduler: a task is    *)
(* born into an open scope and ends once; a scope is left once and counts  *)
(* as joined only when every task ever born into it has ended.             *)
(* (docs/concurrency.md, "Tasks and structured scopes".)                   *)
(***************************************************************************)
CONSTANTS
    Task,       \* tasks the program may spawn
    Scope,      \* scopes the program may enter
    First       \* the scope that is open from the start

VARIABLES
    born,       \* tasks spawned so far
    ended,      \* tasks in a terminal state
    home,       \* the scope each task was born into
    phase       \* "unborn", "open", "closing" or "closed", for each scope

svars == <<born, ended, home, phase>>

Members(s) == {t \in born : home[t] = s}

SInit ==
    /\ born = {} /\ ended = {}
    /\ home = [t \in Task |-> First]
    /\ phase = [s \in Scope |-> IF s = First THEN "open" ELSE "unborn"]

Birth(t, s) ==
    /\ t \notin born /\ phase[s] = "open"
    /\ born' = born \cup {t}
    /\ home' = [home EXCEPT ![t] = s]
    /\ UNCHANGED <<ended, phase>>

Enter(s) ==
    /\ phase[s] = "unborn"
    /\ phase' = [phase EXCEPT ![s] = "open"]
    /\ UNCHANGED <<born, ended, home>>

\* One step may end a task, start leaving scopes, and join scopes whose
\* members had all ended before it.
Advance(E, leave, join) ==
    /\ E \subseteq born
    /\ \A s \in leave \cup join : phase[s] \in {"open", "closing"}
    /\ \A s \in join : Members(s) \subseteq ended
    /\ ended' = ended \cup E
    /\ phase' = [s \in Scope |-> IF s \in join THEN "closed"
                                 ELSE IF s \in leave THEN "closing" ELSE phase[s]]
    /\ UNCHANGED <<born, home>>

SNext ==
    \/ \E t \in Task, s \in Scope : Birth(t, s)
    \/ \E s \in Scope : Enter(s)
    \/ \E E \in SUBSET Task, leave, join \in SUBSET Scope : Advance(E, leave, join)

SSpec == SInit /\ [][SNext]_svars
=============================================================================
