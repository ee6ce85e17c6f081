--------------------------- MODULE SessionService ---------------------------
(***************************************************************************)
(* The interactive session (sessions/service.py, SessionService): committed *)
(* analysis and runtime state, one-shot prepared submissions, branches with *)
(* transfers between them, the cache of type hints, and resets.             *)
(*                                                                         *)
(* Of the analysis only the stack of types is kept, of the runtime the      *)
(* stack of values, and a value is named by its type: a frame whose two     *)
(* stacks are equal is one whose types are true.  A source either pushes a  *)
(* value or drops one.  Clients may hold any number of preparations and     *)
(* present any of them at any time, as the docstring of `execute` allows.   *)
(* A frame is torn, as a history, when the types of a source that did not   *)
(* end have been committed to it, or values of such a frame.                *)
(***************************************************************************)
EXTENDS Naturals, Sequences, FiniteSets

CONSTANTS
    Values,         \* types, and the values that have them
    Nothing,        \* None
    ResetOnFault,   \* reset_on_fault: TRUE but in the command line's REPL
    MaxVersion, MaxPreparation, MaxDepth, MaxEdits   \* bounds

ASSUME SessionServiceAssumption ==
    /\ ResetOnFault \in BOOLEAN
    /\ MaxVersion \in Nat /\ MaxPreparation \in Nat /\ MaxDepth \in Nat /\ MaxEdits \in Nat
    /\ "drop" \notin Values

VARIABLES
    frame,          \* analyser and branch, vm, runtime_stack of the present; torn
    frames,         \* _frames: those of the suspended parents
    version,        \* _state_version
    preparation,    \* _preparation
    hint,           \* _hint_cache
    machines,       \* virtual machines that have not been closed
    world,          \* what the workspace and the disk hold now
    \* history
    tokens          \* every PreparedSubmission handed out

sessionVars == <<frame, frames, version, preparation, hint, machines>>
vars == <<sessionVars, world, tokens>>

-----------------------------------------------------------------------------
Sources == Values \cup {"drop"}

\* What analysis says a source does to a stack, and the machine does.
WellTyped(source, stack) == source # "drop" \/ stack # <<>>
Effect(source, stack) ==
    IF source = "drop" THEN SubSeq(stack, 1, Len(stack) - 1) ELSE Append(stack, source)

Top(stack, n) == SubSeq(stack, Len(stack) - n + 1, Len(stack))
Drop(stack, n) == SubSeq(stack, 1, Len(stack) - n)
Later(a, b) == IF a > b THEN a ELSE b

NewMachine(open) == CHOOSE m \in 0..Cardinality(open) : m \notin open
EmptyFrame(m) == [types |-> <<>>, values |-> <<>>, vm |-> m, torn |-> FALSE]

\* The present is another one: it has a new version, and hints are computed anew.
PresentIs(versions) == version' = versions /\ hint' = Nothing

-----------------------------------------------------------------------------
(* Preparation.                                                            *)

\* prepare: every older preparation is invalid, whether this one succeeds.
Token(source, fresh) ==
    [generation |-> version, preparation |-> preparation + 1, fresh |-> fresh,
     types |-> Effect(source, IF fresh THEN <<>> ELSE frame.types),
     source |-> source, world |-> world, base |-> frame]

MayPrepare == preparation < MaxPreparation
Prepare(source, fresh) ==
    /\ MayPrepare /\ (source # "drop" => Len(frame.types) < MaxDepth)
    /\ preparation' = preparation + 1
    /\ IF WellTyped(source, IF fresh THEN <<>> ELSE frame.types)
       THEN tokens' = tokens \cup {Token(source, fresh)}
       ELSE tokens' = tokens
    /\ UNCHANGED <<frame, frames, version, hint, machines, world>>

-----------------------------------------------------------------------------
(* Execution.                                                              *)

Current(t) == t.generation = version /\ t.preparation = preparation

\* A load is refused if workspace or disk have moved on.
RefuseLoad(t) ==
    /\ Current(t) /\ t.fresh /\ t.world # world
    /\ MayPrepare /\ preparation' = preparation + 1
    /\ UNCHANGED <<frame, frames, version, hint, machines, world, tokens>>

\* The frame that execution starts from: for a load that of a reset session.
Start(t) == IF t.fresh THEN EmptyFrame(NewMachine({})) ELSE frame

Accepted(t) ==
    /\ Current(t) /\ (t.fresh => t.world = world)
    /\ version + 2 <= MaxVersion
    /\ UNCHANGED <<world, tokens>>

\* reset: closes every machine, and bumps both counters.
ResetState(versions) ==
    /\ frame' = EmptyFrame(NewMachine({})) /\ frames' = <<>>
    /\ machines' = {NewMachine({})}
    /\ PresentIs(versions)

\* The analysis is committed before the machine runs, and is f afterwards.
Commits(t, f) ==
    /\ frame' = f
    /\ frames' = (IF t.fresh THEN <<>> ELSE frames)
    /\ machines' = (IF t.fresh THEN {NewMachine({})} ELSE machines)
    /\ PresentIs(version + (IF t.fresh THEN 2 ELSE 1))
    /\ preparation' = preparation + (IF t.fresh THEN 2 ELSE 1)

Succeed(t) ==
    /\ Accepted(t) /\ WellTyped(t.source, Start(t).values)
    /\ Commits(t, [Start(t) EXCEPT !.types = t.types,
                                   !.values = Effect(t.source, Start(t).values)])

\* What the machine had before stays its stack.
Torn(t) == [Start(t) EXCEPT !.types = t.types, !.torn = TRUE]

\* The faults that execute catches: VMError, PanicSignal, OSError, RuntimeError.
Fault(t) ==
    /\ Accepted(t)
    /\ IF ResetOnFault
       THEN /\ ResetState(version + (IF t.fresh THEN 3 ELSE 2))
            /\ preparation' = preparation + (IF t.fresh THEN 3 ELSE 2)
       ELSE Commits(t, Torn(t))

\* What it does not catch, a ConcurrencyFault of the root frame, a ValueError or
\* an interrupt, passes by without a reset.
Unhandled(t) == Accepted(t) /\ Commits(t, Torn(t))

Reset ==
    /\ version < MaxVersion /\ MayPrepare
    /\ ResetState(version + 1) /\ preparation' = preparation + 1
    /\ UNCHANGED <<world, tokens>>

-----------------------------------------------------------------------------
(* Branches.                                                               *)

\* A deep copy, the machine included; the original is what the parent keeps.
OpenBranch ==
    /\ version < MaxVersion
    /\ LET m == NewMachine(machines) IN
       /\ frames' = Append(frames, [saved |-> frame, version |-> version])
       /\ frame' = [frame EXCEPT !.vm = m] /\ machines' = machines \cup {m}
    /\ PresentIs(version + 1)
    /\ UNCHANGED <<preparation, world, tokens>>

Parent == frames[Len(frames)]

RestoredParent == Parent.version + 1
Restored == Later(version, Parent.version) + 1
RestoreBranch ==
    /\ frames # <<>> /\ version < MaxVersion
    /\ machines' = machines \ {frame.vm}
    /\ frame' = Parent.saved /\ frames' = Drop(frames, 1)
    /\ PresentIs(Restored)
    /\ UNCHANGED <<preparation, world, tokens>>

ParentMachine == Parent.saved.vm
ContinueBranch ==
    /\ frames # <<>> /\ version < MaxVersion
    /\ machines' = machines \ {ParentMachine}
    /\ frames' = Drop(frames, 1)
    /\ PresentIs(version + 1)
    /\ UNCHANGED <<frame, preparation, world, tokens>>

\* _checked_transfer, and what the parent gains.
Transfer(n) ==
    /\ frames # <<>> /\ n <= Len(frame.values) /\ n <= Len(frame.types)
    /\ Len(Parent.saved.types) + n <= MaxDepth /\ version < MaxVersion
    /\ frames' = [frames EXCEPT ![Len(frames)] =
                    [saved |-> [Parent.saved EXCEPT
                                  !.types = @ \o Top(frame.types, n),
                                  !.values = @ \o Top(frame.values, n),
                                  !.torn = @ \/ frame.torn],
                     version |-> Parent.version + 1]]

CopyToParent(n) ==
    /\ Transfer(n) /\ MayPrepare
    /\ preparation' = preparation + 1 /\ hint' = Nothing
    /\ UNCHANGED <<frame, version, machines, world, tokens>>

EscapedCopy(n) == frame.types
Escaped(n) == Drop(frame.types, n)
EscapeToParent(n) ==
    /\ Transfer(n)
    /\ frame' = [frame EXCEPT !.types = Escaped(n), !.values = Drop(@, n)]
    /\ PresentIs(version + 1)
    /\ UNCHANGED <<preparation, machines, world, tokens>>

-----------------------------------------------------------------------------
(* Type hints.                                                             *)

ComputeHint(source) ==
    [version |-> version, source |-> source,
     result |-> IF WellTyped(source, frame.types) THEN Effect(source, frame.types) ELSE Nothing]

\* A hint for the same source and version is answered from the cache.
Cached(source) == hint # Nothing /\ hint.version = version /\ hint.source = source
TypeHint(source) ==
    /\ ~Cached(source)
    /\ hint' = ComputeHint(source)
    /\ UNCHANGED <<frame, frames, version, preparation, machines, world, tokens>>

\* The workspace is edited, or a file on disk changes.
WorldChanges ==
    /\ world < MaxEdits /\ world' = world + 1
    /\ UNCHANGED <<sessionVars, tokens>>

-----------------------------------------------------------------------------
Init ==
    /\ frame = EmptyFrame(0) /\ frames = <<>> /\ version = 1 /\ preparation = 1
    /\ hint = Nothing /\ machines = {0} /\ world = 0 /\ tokens = {}

Next ==
    \/ \E source \in Sources : Prepare(source, TRUE) \/ Prepare(source, FALSE) \/ TypeHint(source)
    \/ \E t \in tokens : RefuseLoad(t) \/ Succeed(t) \/ Fault(t) \/ Unhandled(t)
    \/ Reset \/ OpenBranch \/ RestoreBranch \/ ContinueBranch
    \/ \E n \in 1..MaxDepth : CopyToParent(n) \/ EscapeToParent(n)
    \/ WorldChanges

Spec == Init /\ [][Next]_vars

-----------------------------------------------------------------------------
(* Properties.                                                             *)

Frames == [types : Seq(Values), values : Seq(Values), vm : Nat, torn : BOOLEAN]
\* Types; and the counters are past every token handed out.
TypeOK ==
    /\ frame \in Frames
    /\ frames \in Seq([saved : Frames, version : Nat])
    /\ version \in Nat /\ preparation \in Nat /\ world \in Nat
    /\ hint = Nothing \/ hint \in [version : Nat, source : Sources,
                                   result : Seq(Values) \cup {Nothing}]
    /\ machines \subseteq Nat
    /\ tokens \subseteq [generation : Nat, preparation : Nat, fresh : BOOLEAN,
                         types : Seq(Values), source : Sources, world : Nat, base : Frames]
    /\ \A t \in tokens : t.generation <= version /\ t.preparation <= preparation

\* A preparation that execute would accept was made from exactly the state it
\* would be committed to: no command, branch operation, transfer or reset in
\* between goes unnoticed.
PreparedForThis ==
    \A t \in tokens : Current(t) => t.base = frame

\* A hint answered from the cache is the one the present state gives.
HintIsExact ==
    (hint # Nothing /\ hint.version = version) => hint = ComputeHint(hint.source)

\* What is kept for later is used only in the state it was made in.
NothingIsStale == PreparedForThis /\ HintIsExact

\* The stack of types is that of the values, in the present frame and in every
\* suspended one, unless it is torn: a fault left it so, with no reset and no
\* return to a parent since, or values of a frame left so were moved to it.
StackIsTyped ==
    /\ frame.torn \/ frame.types = frame.values
    /\ \A i \in 1..Len(frames) :
          frames[i].saved.torn \/ frames[i].saved.types = frames[i].saved.values

\* Exactly the machines of the present frame and of its suspended parents are
\* open, each in one frame: none is used after it was closed, none is left.
MachinesInUse ==
    /\ machines = {frame.vm} \cup {frames[i].saved.vm : i \in 1..Len(frames)}
    /\ Cardinality(machines) = Len(frames) + 1

\* Every frame that is not torn has the types of its own values, and each has
\* a machine of its own.
FramesAreSound == TypeOK /\ StackIsTyped /\ MachinesInUse

\* README.md:66: "Stack state, variables, definitions, and imports persist
\* between entered lines"; after a fault the types do, and the values do not.
StatePersists == frame.types = frame.values
=============================================================================
