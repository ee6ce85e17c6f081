--------------------------- MODULE AnalysisProofs ---------------------------
(***************************************************************************)
(* Proofs about the three places where the result of an analysis outlives  *)
(* the text it is of: the session service, for any types, depth of         *)
(* branches, number of preparations and number of edits; the editor's live *)
(* analysis, for any documents and any number of edits, saves and changes  *)
(* on disk; and the compilation database under the language server, for    *)
(* any files, texts and imports between them.  The three are independent;  *)
(* none disturbs another's variables, and no theorem speaks of two.        *)
(***************************************************************************)
EXTENDS SessionService, EditorAnalysis, LanguageServer, SequenceTheorems, FiniteSetTheorems, TLAPS

-----------------------------------------------------------------------------
(* Stacks.                                                                 *)

\* A part of a stack, from its bottom.
LEMMA DropType ==
    ASSUME NEW S, NEW s \in Seq(S), NEW n \in Nat, n <= Len(s)
    PROVE  /\ Drop(s, n) \in Seq(S) /\ Len(Drop(s, n)) = Len(s) - n
           /\ \A i \in 1..(Len(s) - n) : Drop(s, n)[i] = s[i]
<1>1. Len(s) \in Nat
    BY LenProperties
<1>2. \A i \in 1..(Len(s) - n) : s[i] \in S
    BY <1>1, ElementOfSeq
<1>3. 1 \in Int /\ Len(s) - n \in Int
    BY <1>1
<1> DEFINE m == Len(s) - n
<1>4. /\ SubSeq(s, 1, m) \in Seq(S)
      /\ Len(SubSeq(s, 1, m)) = IF 1 <= m THEN m - 1 + 1 ELSE 0
      /\ \A i \in 1..(m - 1 + 1) : SubSeq(s, 1, m)[i] = s[1 + i - 1]
    BY <1>2, <1>3, SubSeqProperties
<1>5. m \in Nat /\ m - 1 + 1 = m /\ (~(1 <= m) => m = 0)
    BY <1>1
<1>6. \A i \in 1..m : 1 + i - 1 = i
    OBVIOUS
<1> QED
    BY <1>4, <1>5, <1>6 DEF Drop

\* The part on its top.
LEMMA TopType ==
    ASSUME NEW S, NEW s \in Seq(S), NEW n \in Nat, n <= Len(s)
    PROVE  Top(s, n) \in Seq(S)
<1>1. Len(s) \in Nat
    BY LenProperties
<1>2. \A i \in (Len(s) - n + 1)..Len(s) : s[i] \in S
    BY <1>1, ElementOfSeq
<1>3. Len(s) - n + 1 \in Int /\ Len(s) \in Int
    BY <1>1
<1> QED
    BY <1>2, <1>3, SubSeqProperties DEF Top

\* What a source makes of a stack is a stack.
LEMMA EffectType ==
    ASSUME NEW source \in Sources, NEW stack \in Seq(Values)
    PROVE  Effect(source, stack) \in Seq(Values)
<1>1. CASE source = "drop" /\ stack = <<>>
  <2>1. SubSeq(stack, 1, Len(stack) - 1) = <<>>
    <3>1. Len(stack) = 0
        BY <1>1, EmptySeq
    <3> QED
        BY <3>1, SubSeqEmpty
  <2> QED
      BY <1>1, <2>1, EmptySeq DEF Effect
<1>2. CASE source = "drop" /\ stack # <<>>
  <2>1. Len(stack) \in Nat \ {0}
      BY <1>2, EmptySeq
  <2>2. Drop(stack, 1) \in Seq(Values)
      BY <2>1, DropType
  <2> QED
      BY <1>2, <2>2 DEF Effect, Drop
<1>3. CASE source # "drop"
    BY <1>3, AppendProperties DEF Effect, Sources
<1> QED
    BY <1>1, <1>2, <1>3

-----------------------------------------------------------------------------
(* Types.                                                                  *)

\* A new machine is none of those that are open.
LEMMA NewMachineIsNew ==
    ASSUME NEW open \in SUBSET Nat, IsFiniteSet(open)
    PROVE  NewMachine(open) \in Nat /\ NewMachine(open) \notin open
<1> DEFINE n == Cardinality(open)
<1>1. n \in Nat
    BY FS_CardinalityType
<1>2. \E m \in 0..n : m \notin open
  <2> SUFFICES ASSUME 0..n \in SUBSET open PROVE FALSE
      OBVIOUS
  <2>1. Cardinality(0..n) <= n
      BY FS_Subset
  <2>2. Cardinality(0..n) = IF 0 > n THEN 0 ELSE n - 0 + 1
    <3> HIDE DEF n
    <3> QED
      BY <1>1, FS_Interval
  <2> HIDE DEF n
  <2> QED
      BY <1>1, <2>1, <2>2
<1> QED
    BY <1>1, <1>2 DEF NewMachine

Suspended == [saved : Frames, version : Nat]
Tokens == [generation : Nat, preparation : Nat, fresh : BOOLEAN, types : Seq(Values),
           source : Sources, world : Nat, base : Frames]
Hints == [version : Nat, source : Sources, result : Seq(Values) \cup {Nothing}]

TInv == TypeOK /\ IsFiniteSet(machines)

\* The first machine, that of a session and of a reset one.
LEMMA FirstMachine ==
    /\ NewMachine({}) \in Nat /\ EmptyFrame(NewMachine({})) \in Frames
    /\ {NewMachine({})} \subseteq Nat /\ IsFiniteSet({NewMachine({})})
    /\ EmptyFrame(0) \in Frames
<1>1. {} \in SUBSET Nat /\ IsFiniteSet({})
    BY FS_EmptySet
<1>2. NewMachine({}) \in Nat
    BY <1>1, NewMachineIsNew
<1>3. <<>> \in Seq(Values)
    BY EmptySeq
<1>4. \A m \in Nat : EmptyFrame(m) \in Frames
    BY <1>3 DEF EmptyFrame, Frames
<1> QED
    BY <1>2, <1>4, FS_Singleton

\* What a step does not say of TypeOK but of the counters and the tables.
LEMMA Types ==
    ASSUME TypeOK,
           frame' \in Frames, frames' \in Seq(Suspended),
           version' \in Nat, preparation' \in Nat, world' \in Nat,
           version <= version', preparation <= preparation',
           hint' = Nothing \/ hint' = hint \/ hint' \in Hints,
           machines' \subseteq Nat, tokens' = tokens
    PROVE  TypeOK'
<1>1. \A t \in tokens : t.generation \in Nat /\ t.preparation \in Nat
    BY DEF TypeOK
<1>2. \A t \in tokens : t.generation <= version' /\ t.preparation <= preparation'
    BY <1>1 DEF TypeOK
<1> QED
    BY <1>2 DEF TypeOK, Suspended, Hints

\* The frame a step starts from, and the parent.
LEMMA ParentType ==
    ASSUME TypeOK, frames # <<>>
    PROVE  /\ Len(frames) \in Nat \ {0} /\ Len(frames) \in 1..Len(frames)
           /\ Parent \in Suspended
           /\ Drop(frames, 1) \in Seq(Suspended)
<1>1. frames \in Seq(Suspended)
    BY DEF TypeOK, Suspended
<1>2. Len(frames) \in Nat \ {0}
    BY <1>1, EmptySeq
<1>3. Len(frames) \in 1..Len(frames)
    BY <1>2
<1>4. frames[Len(frames)] \in Suspended
    BY <1>1, <1>3, ElementOfSeq
<1>5. Drop(frames, 1) \in Seq(Suspended)
    BY <1>1, <1>2, DropType
<1> QED
    BY <1>2, <1>3, <1>4, <1>5 DEF Parent

LEMMA StartType == ASSUME TypeOK, NEW t PROVE Start(t) \in Frames
BY FirstMachine DEF TypeOK, Start

\* A transfer replaces the parent.
LEMMA TransferType ==
    ASSUME TypeOK, NEW n \in Nat, Transfer(n)
    PROVE  frames' \in Seq(Suspended)
<1> DEFINE new == [saved |-> [Parent.saved EXCEPT !.types = @ \o Top(frame.types, n),
                                                  !.values = @ \o Top(frame.values, n),
                                                  !.torn = @ \/ frame.torn],
                   version |-> Parent.version + 1]
<1>1. frames # <<>> /\ n <= Len(frame.values) /\ n <= Len(frame.types)
      /\ frames' = [frames EXCEPT ![Len(frames)] = new]
    BY DEF Transfer
<1>2. /\ Len(frames) \in 1..Len(frames) /\ Parent \in Suspended
      /\ frames \in Seq(Suspended) /\ frame \in Frames
    BY <1>1, ParentType DEF TypeOK, Suspended
<1>3. Top(frame.types, n) \in Seq(Values) /\ Top(frame.values, n) \in Seq(Values)
    BY <1>1, <1>2, TopType DEF Frames
<1>4. Parent.saved \in Frames /\ Parent.version + 1 \in Nat
    BY <1>2 DEF Suspended
<1>5. /\ Parent.saved.types \o Top(frame.types, n) \in Seq(Values)
      /\ Parent.saved.values \o Top(frame.values, n) \in Seq(Values)
    BY <1>3, <1>4, ConcatProperties DEF Frames
<1>6. new \in Suspended
    BY <1>4, <1>5 DEF Suspended, Frames
<1> HIDE DEF new
<1> QED
    BY <1>1, <1>2, <1>6, ExceptSeq

-----------------------------------------------------------------------------
(* The operations keep the types.                                          *)

\* A preparation, of the whole workspace or of a line.
LEMMA TokenType ==
    ASSUME TypeOK, NEW source \in Sources, NEW fresh \in BOOLEAN
    PROVE  Token(source, fresh) \in Tokens
<1> DEFINE from == IF fresh THEN <<>> ELSE frame.types
<1>1. from \in Seq(Values) /\ frame \in Frames
    BY EmptySeq DEF TypeOK, Frames
<1>2. Effect(source, from) \in Seq(Values)
    BY <1>1, EffectType
<1>3. version \in Nat /\ preparation + 1 \in Nat /\ world \in Nat
    BY DEF TypeOK
<1> QED
    BY <1>1, <1>2, <1>3 DEF Token, Tokens

LEMMA PrepareTypes ==
    ASSUME TInv, NEW source \in Sources, NEW fresh \in BOOLEAN, Prepare(source, fresh)
    PROVE  TInv'
<1>1. /\ TypeOK /\ preparation' = preparation + 1
      /\ UNCHANGED <<frame, frames, version, hint, machines, world>>
      /\ tokens' = tokens \cup {Token(source, fresh)} \/ tokens' = tokens
    BY DEF TInv, Prepare
<1>2. Token(source, fresh) \in Tokens
    BY <1>1, TokenType
<1>3. Token(source, fresh).generation = version /\ Token(source, fresh).preparation = preparation'
    BY <1>1 DEF Token
<1>4. version \in Nat /\ preparation \in Nat /\ preparation' \in Nat
    BY <1>1 DEF TypeOK
<1>5. \A t \in tokens : /\ t \in Tokens /\ t.generation <= version
                        /\ t.preparation <= preparation /\ t.preparation \in Nat
    BY <1>1 DEF TypeOK, Tokens
<1>6. \A t \in tokens' : /\ t \in Tokens /\ t.generation <= version
                         /\ t.preparation <= preparation'
    BY <1>1, <1>2, <1>3, <1>4, <1>5
<1>7. tokens' \subseteq Tokens
    BY <1>6
<1> QED
    BY <1>1, <1>4, <1>6, <1>7 DEF TInv, TypeOK, Tokens

\* Execution counts, as often for a load or a fault as resets are in it.
LEMMA ExecuteCounts ==
    ASSUME NEW t, Succeed(t) \/ Fault(t) \/ Unhandled(t)
    PROVE  \E k \in 1..3 : version' = version + k /\ preparation' = preparation + k /\ hint' = Nothing
<1>1. 1 \in 1..3 /\ 2 \in 1..3 /\ 3 \in 1..3
    OBVIOUS
<1>2. \/ version' = version + 1 /\ preparation' = preparation + 1
      \/ version' = version + 2 /\ preparation' = preparation + 2
      \/ version' = version + 3 /\ preparation' = preparation + 3
  <2>1. CASE t.fresh
      BY <2>1 DEF Succeed, Fault, Unhandled, Commits, ResetState, PresentIs
  <2>2. CASE ~t.fresh
      BY <2>2 DEF Succeed, Fault, Unhandled, Commits, ResetState, PresentIs
  <2> QED
      BY <2>1, <2>2
<1>3. hint' = Nothing
    BY DEF Succeed, Fault, Unhandled, Commits, ResetState, PresentIs
<1> QED
    BY <1>1, <1>2, <1>3

\* What execution leaves, of a line or a load, run or faulted.
LEMMA ExecuteTypes ==
    ASSUME TInv, NEW t \in tokens, Succeed(t) \/ Fault(t) \/ Unhandled(t)
    PROVE  TInv'
<1>1. /\ TypeOK /\ UNCHANGED <<world, tokens>> /\ t \in Tokens
      /\ version \in Nat /\ preparation \in Nat
    BY DEF TInv, TypeOK, Succeed, Fault, Unhandled, Accepted, Tokens
<1>2. Start(t) \in Frames /\ Effect(t.source, Start(t).values) \in Seq(Values)
    BY <1>1, StartType, EffectType DEF Tokens, Frames
<1>3. /\ Torn(t) \in Frames
      /\ [Start(t) EXCEPT !.types = t.types,
                         !.values = Effect(t.source, Start(t).values)] \in Frames
    BY <1>1, <1>2 DEF Tokens, Frames, Torn
<1>4. frame' \in Frames
    BY <1>3, FirstMachine DEF Succeed, Fault, Unhandled, Commits, ResetState
<1>5. frames' \in Seq(Suspended)
  <2>1. frames' = <<>> \/ frames' = frames
      BY DEF Succeed, Fault, Unhandled, Commits, ResetState
  <2> QED
      BY <1>1, <2>1, EmptySeq DEF TypeOK, Suspended
<1>6. machines' \subseteq Nat /\ IsFiniteSet(machines')
  <2>1. machines' = {NewMachine({})} \/ machines' = machines
      BY DEF Succeed, Fault, Unhandled, Commits, ResetState
  <2> QED
      BY <1>1, <2>1, FirstMachine DEF TypeOK, TInv
<1>7. \E k \in 1..3 : version' = version + k /\ preparation' = preparation + k /\ hint' = Nothing
    BY ExecuteCounts
<1>8. /\ version' \in Nat /\ preparation' \in Nat /\ world' \in Nat
      /\ version <= version' /\ preparation <= preparation'
      /\ hint' = Nothing
    BY <1>1, <1>7 DEF TypeOK
<1> QED
    BY <1>1, <1>4, <1>5, <1>6, <1>8, Types DEF TInv

LEMMA ResetTypes == ASSUME TInv, Reset PROVE TInv'
<1>1. TypeOK /\ version \in Nat /\ preparation \in Nat /\ world \in Nat
    BY DEF TInv, TypeOK
<1>2. /\ frame' \in Frames /\ machines' \subseteq Nat /\ IsFiniteSet(machines')
      /\ frames' = <<>> /\ version' = version + 1 /\ preparation' = preparation + 1
      /\ hint' = Nothing /\ UNCHANGED <<world, tokens>>
    BY FirstMachine DEF Reset, ResetState, PresentIs
<1>3. frames' \in Seq(Suspended)
    BY <1>2, EmptySeq
<1>4. version' \in Nat /\ preparation' \in Nat /\ version <= version' /\ preparation <= preparation'
    BY <1>1, <1>2
<1> QED
    BY <1>1, <1>2, <1>3, <1>4, Types DEF TInv

LEMMA OpenBranchTypes == ASSUME TInv, OpenBranch PROVE TInv'
<1> DEFINE m == NewMachine(machines)
<1>1. /\ TypeOK /\ version \in Nat /\ frame \in Frames /\ frames \in Seq(Suspended)
      /\ machines \in SUBSET Nat /\ IsFiniteSet(machines) /\ world \in Nat /\ preparation \in Nat
    BY DEF TInv, TypeOK, Suspended
<1>2. m \in Nat
    BY <1>1, NewMachineIsNew
<1>3. /\ frames' = Append(frames, [saved |-> frame, version |-> version])
      /\ frame' = [frame EXCEPT !.vm = m] /\ machines' = machines \cup {m}
      /\ version' = version + 1 /\ hint' = Nothing
      /\ UNCHANGED <<preparation, world, tokens>>
    BY DEF OpenBranch, PresentIs
<1>4. [saved |-> frame, version |-> version] \in Suspended
    BY <1>1 DEF Suspended
<1>5. frames' \in Seq(Suspended)
    BY <1>1, <1>3, <1>4, AppendProperties
<1> HIDE DEF m
<1>6. frame' \in Frames
    BY <1>1, <1>2, <1>3 DEF Frames
<1>7. machines' \subseteq Nat /\ IsFiniteSet(machines')
    BY <1>1, <1>2, <1>3, FS_AddElement
<1>8. version' \in Nat /\ version <= version'
    BY <1>1, <1>3
<1> QED
    BY <1>1, <1>3, <1>5, <1>6, <1>7, <1>8, Types DEF TInv

LEMMA CloseBranchTypes == ASSUME TInv, RestoreBranch \/ ContinueBranch PROVE TInv'
<1>1. /\ TypeOK /\ version \in Nat /\ frame \in Frames
      /\ machines \in SUBSET Nat /\ IsFiniteSet(machines) /\ world \in Nat /\ preparation \in Nat
      /\ frames # <<>>
    BY DEF TInv, TypeOK, RestoreBranch, ContinueBranch
<1>2. Parent \in Suspended /\ Drop(frames, 1) \in Seq(Suspended)
    BY <1>1, ParentType
<1>3. /\ frame' = frame \/ frame' = Parent.saved
      /\ frames' = Drop(frames, 1)
      /\ \E m : machines' = machines \ {m}
      /\ version' = version + 1 \/ version' = Restored
      /\ hint' = Nothing /\ UNCHANGED <<preparation, world, tokens>>
    BY DEF RestoreBranch, ContinueBranch, PresentIs
<1>4. Restored \in Nat /\ version <= Restored
    BY <1>1, <1>2 DEF Restored, Later, Suspended
<1>5. machines' \subseteq Nat /\ IsFiniteSet(machines')
  <2>1. PICK m : machines' = machines \ {m}
      BY <1>3
  <2> QED
      BY <1>1, <2>1, FS_RemoveElement
<1>6. frame' \in Frames
    BY <1>1, <1>2, <1>3 DEF Suspended
<1>7. version' \in Nat /\ version <= version'
    BY <1>1, <1>3, <1>4
<1> QED
    BY <1>1, <1>2, <1>3, <1>5, <1>6, <1>7, Types DEF TInv

LEMMA TransferTypes ==
    ASSUME TInv, NEW n \in Nat, CopyToParent(n) \/ EscapeToParent(n)
    PROVE  TInv'
<1>1. /\ TypeOK /\ version \in Nat /\ frame \in Frames /\ world \in Nat /\ preparation \in Nat
      /\ IsFiniteSet(machines) /\ machines \subseteq Nat
      /\ Transfer(n)
    BY DEF TInv, TypeOK, CopyToParent, EscapeToParent
<1>2. frames' \in Seq(Suspended)
    BY <1>1, TransferType
<1>3. n <= Len(frame.values) /\ n <= Len(frame.types)
    BY <1>1 DEF Transfer
<1>4. Drop(frame.values, n) \in Seq(Values) /\ Escaped(n) \in Seq(Values)
    BY <1>1, <1>3, DropType DEF Escaped, Frames
<1>5. frame' \in Frames
    BY <1>1, <1>4 DEF CopyToParent, EscapeToParent, Frames
<1>6. /\ UNCHANGED <<world, tokens, machines>> /\ hint' = Nothing
      /\ version' = version \/ version' = version + 1
      /\ preparation' = preparation \/ preparation' = preparation + 1
    BY DEF CopyToParent, EscapeToParent, PresentIs
<1>7. version' \in Nat /\ preparation' \in Nat /\ version <= version' /\ preparation <= preparation'
    BY <1>1, <1>6
<1> QED
    BY <1>1, <1>2, <1>5, <1>6, <1>7, Types DEF TInv

\* Hints, refused loads, and edits change neither frames nor machines.
LEMMA AsideTypes ==
    ASSUME TInv,
           \/ \E source \in Sources : TypeHint(source)
           \/ \E t \in tokens : RefuseLoad(t)
           \/ WorldChanges
    PROVE  TInv'
<1>1. /\ TypeOK /\ version \in Nat /\ frame \in Frames /\ world \in Nat /\ preparation \in Nat
      /\ IsFiniteSet(machines) /\ machines \subseteq Nat /\ frames \in Seq(Suspended)
    BY DEF TInv, TypeOK, Suspended
<1>2. \A source \in Sources : ComputeHint(source) \in Hints
    BY <1>1, EffectType DEF ComputeHint, Hints, Frames
<1>3. /\ UNCHANGED <<frame, frames, version, machines, tokens>>
      /\ hint' = hint \/ \E source \in Sources : hint' = ComputeHint(source)
      /\ preparation' = preparation \/ preparation' = preparation + 1
      /\ world' = world \/ world' = world + 1
    BY DEF TypeHint, RefuseLoad, WorldChanges, sessionVars
<1>4. /\ hint' = hint \/ hint' \in Hints
      /\ preparation' \in Nat /\ preparation <= preparation' /\ world' \in Nat
    BY <1>1, <1>2, <1>3
<1> QED
    BY <1>1, <1>3, <1>4, Types DEF TInv

LEMMA InitTypes == Init => TInv
<1> SUFFICES ASSUME Init PROVE TInv
    OBVIOUS
<1>1. /\ frame = EmptyFrame(0) /\ frames = <<>> /\ version = 1 /\ preparation = 1
      /\ hint = Nothing /\ machines = {0} /\ world = 0 /\ tokens = {}
    BY DEF Init
<1>2. frame \in Frames /\ frames \in Seq(Suspended) /\ IsFiniteSet(machines)
    BY <1>1, FirstMachine, EmptySeq, FS_Singleton
<1> QED
    BY <1>1, <1>2 DEF TInv, TypeOK, Suspended

LEMMA NextTypes == TInv /\ [Next]_vars => TInv'
<1> SUFFICES ASSUME TInv, [Next]_vars PROVE TInv'
    OBVIOUS
<1>1. ASSUME NEW n \in 1..MaxDepth, CopyToParent(n) \/ EscapeToParent(n) PROVE TInv'
  <2>1. n \in Nat
      BY SessionServiceAssumption
  <2> QED
      BY <1>1, <2>1, TransferTypes
<1>2. CASE UNCHANGED vars
    BY <1>2 DEF TInv, TypeOK, vars, sessionVars
<1>3. ASSUME NEW source \in Sources, Prepare(source, TRUE) \/ Prepare(source, FALSE) PROVE TInv'
    BY <1>3, PrepareTypes
<1> QED
    BY <1>1, <1>2, <1>3, ExecuteTypes, ResetTypes, OpenBranchTypes, CloseBranchTypes, AsideTypes
    DEF Next

\* The session's state keeps its types, and the counters of versions and of
\* preparations are never behind a preparation handed out.
THEOREM SessionTypes == Spec => []TInv
    BY InitTypes, NextTypes, PTL DEF Spec

-----------------------------------------------------------------------------
(* Staleness.  A step that gives the session another present makes its     *)
(* version greater than that of every token and of every hint.             *)

LEMMA NothingStaleInitially == Init => NothingIsStale
BY DEF Init, NothingIsStale, PreparedForThis, HintIsExact

\* Every step that is neither a preparation nor a hint keeps the present, or
\* makes a later one.
LEMMA PresentKept ==
    ASSUME TInv, NothingIsStale, tokens' = tokens,
           version' \in Nat, preparation' \in Nat, preparation <= preparation',
           \/ version < version' /\ hint' = Nothing
           \/ version' = version /\ frame' = frame /\ (hint' = hint \/ hint' = Nothing)
    PROVE  NothingIsStale'
<1>1. /\ version \in Nat /\ preparation \in Nat
      /\ \A t \in tokens : /\ t.generation \in Nat /\ t.generation <= version
                          /\ t.preparation \in Nat /\ t.preparation <= preparation
    BY DEF TInv, TypeOK
<1>2. CASE version < version' /\ hint' = Nothing
  <2>1. \A t \in tokens : t.generation # version'
      BY <1>1, <1>2
  <2> QED
      BY <1>2, <2>1 DEF NothingIsStale, PreparedForThis, HintIsExact, Current
<1>3. CASE version' = version /\ frame' = frame /\ (hint' = hint \/ hint' = Nothing)
  <2>1. \A t \in tokens : t.preparation = preparation' => t.preparation = preparation
      BY <1>1
  <2>2. PreparedForThis'
      BY <1>3, <2>1 DEF NothingIsStale, PreparedForThis, Current
  <2>3. HintIsExact'
      BY <1>3 DEF NothingIsStale, HintIsExact, ComputeHint
  <2> QED
      BY <2>2, <2>3 DEF NothingIsStale
<1> QED
    BY <1>2, <1>3

\* A preparation invalidates the older ones.
LEMMA PrepareFresh ==
    ASSUME TInv, NothingIsStale, NEW source \in Sources, NEW fresh \in BOOLEAN,
           Prepare(source, fresh)
    PROVE  NothingIsStale'
<1>1. /\ preparation' = preparation + 1 /\ UNCHANGED <<frame, version, hint>>
      /\ tokens' = tokens \cup {Token(source, fresh)} \/ tokens' = tokens
    BY DEF Prepare
<1>2. Token(source, fresh).base = frame
    BY DEF Token
<1>3. preparation \in Nat /\ \A t \in tokens : t.preparation \in Nat /\ t.preparation <= preparation
    BY DEF TInv, TypeOK
<1>4. \A t \in tokens : t.preparation # preparation'
    BY <1>1, <1>3
<1>5. PreparedForThis'
    BY <1>1, <1>2, <1>4 DEF PreparedForThis, Current
<1>6. HintIsExact'
    BY <1>1 DEF NothingIsStale, HintIsExact, ComputeHint
<1> QED
    BY <1>5, <1>6 DEF NothingIsStale

LEMMA NextFresh == TInv /\ TInv' /\ NothingIsStale /\ [Next]_vars => NothingIsStale'
<1> SUFFICES ASSUME TInv, TInv', NothingIsStale, [Next]_vars PROVE NothingIsStale'
    OBVIOUS
<1>1. /\ version \in Nat /\ preparation \in Nat /\ version' \in Nat /\ preparation' \in Nat
    BY DEF TInv, TypeOK
<1>2. ASSUME NEW source \in Sources, Prepare(source, TRUE) \/ Prepare(source, FALSE)
      PROVE  NothingIsStale'
    BY <1>2, PrepareFresh
<1>3. ASSUME NEW source \in Sources, TypeHint(source) PROVE NothingIsStale'
  <2>1. /\ hint' = ComputeHint(source) /\ ComputeHint(source).source = source
        /\ UNCHANGED <<frame, version, preparation, tokens>>
      BY <1>3 DEF TypeHint, ComputeHint
  <2>2. HintIsExact'
      BY <2>1 DEF HintIsExact, ComputeHint
  <2>3. PreparedForThis'
      BY <2>1 DEF NothingIsStale, PreparedForThis, Current
  <2> QED
      BY <2>2, <2>3 DEF NothingIsStale
<1>4. ASSUME NEW t \in tokens, Succeed(t) \/ Fault(t) \/ Unhandled(t) PROVE NothingIsStale'
  <2>1. /\ tokens' = tokens /\ version < version' /\ preparation <= preparation' /\ hint' = Nothing
    <3>1. \E k \in 1..3 : version' = version + k /\ preparation' = preparation + k /\ hint' = Nothing
        BY <1>4, ExecuteCounts
    <3>2. tokens' = tokens
        BY <1>4 DEF Succeed, Fault, Unhandled, Accepted
    <3> QED
        BY <1>1, <3>1, <3>2
  <2> QED
      BY <1>1, <2>1, PresentKept
<1>5. CASE Reset \/ OpenBranch \/ ContinueBranch \/ \E n \in 1..MaxDepth : EscapeToParent(n)
  <2>1. /\ tokens' = tokens /\ version' = version + 1 /\ hint' = Nothing
        /\ preparation' = preparation + 1 \/ preparation' = preparation
    <3>1. CASE Reset
        BY <3>1 DEF Reset, ResetState, PresentIs
    <3>2. CASE OpenBranch \/ ContinueBranch
        BY <3>2 DEF OpenBranch, ContinueBranch, PresentIs
    <3>3. CASE \E n \in 1..MaxDepth : EscapeToParent(n)
        BY <3>3 DEF EscapeToParent, PresentIs
    <3> QED
        BY <1>5, <3>1, <3>2, <3>3
  <2>2. version < version' /\ preparation <= preparation'
      BY <1>1, <2>1
  <2> QED
      BY <1>1, <2>1, <2>2, PresentKept
<1>6. CASE RestoreBranch
  <2>1. Parent.version \in Nat
      BY <1>6, ParentType DEF RestoreBranch, TInv, Suspended
  <2>2. version < Restored
      BY <1>1, <2>1 DEF Restored, Later
  <2>3. tokens' = tokens /\ version' = Restored /\ hint' = Nothing /\ preparation' = preparation
      BY <1>6 DEF RestoreBranch, PresentIs
  <2> QED
      BY <1>1, <2>2, <2>3, PresentKept
<1>7. CASE \/ WorldChanges \/ \E t \in tokens : RefuseLoad(t)
           \/ \E n \in 1..MaxDepth : CopyToParent(n)
  <2>1. /\ tokens' = tokens /\ version' = version /\ frame' = frame
        /\ hint' = hint \/ hint' = Nothing
        /\ preparation' = preparation \/ preparation' = preparation + 1
      BY <1>7 DEF WorldChanges, RefuseLoad, CopyToParent, sessionVars
  <2>2. preparation <= preparation'
      BY <1>1, <2>1
  <2> QED
      BY <1>1, <2>1, <2>2, PresentKept
<1>8. CASE UNCHANGED vars
    BY <1>8 DEF NothingIsStale, PreparedForThis, HintIsExact, ComputeHint, Current, vars, sessionVars
<1> QED
    BY <1>2, <1>3, <1>4, <1>5, <1>6, <1>7, <1>8 DEF Next

\* A preparation that execute would accept was made from the very state it is
\* committed to, and a hint answered from the cache is that of the present:
\* no command, branch, transfer or reset in between goes unnoticed, whoever
\* holds however many preparations (SessionService.execute, type_hint).
THEOREM NothingEverStale == Spec => []NothingIsStale
<1>1. TInv /\ NothingIsStale /\ [Next]_vars => (TInv /\ NothingIsStale)'
    BY NextTypes, NextFresh
<1> QED
    BY <1>1, InitTypes, NothingStaleInitially, PTL DEF Spec

-----------------------------------------------------------------------------
(* Machines.  The present frame and its suspended parents have a machine    *)
(* each, and nobody else has one.                                           *)

\* No two frames share a machine.
OwnMachines ==
    /\ \A i \in 1..Len(frames) : frames[i].saved.vm # frame.vm
    /\ \A i, j \in 1..Len(frames) : i # j => frames[i].saved.vm # frames[j].saved.vm

MInv == MachinesInUse /\ OwnMachines

\* Steps that change what a frame holds, not which frames there are.
LEMMA SameMachines ==
    ASSUME MInv, machines' = machines, frame'.vm = frame.vm, Len(frames') = Len(frames),
           \A i \in 1..Len(frames) : frames'[i].saved.vm = frames[i].saved.vm
    PROVE  MInv'
<1>1. {frames'[i].saved.vm : i \in 1..Len(frames')} = {frames[i].saved.vm : i \in 1..Len(frames)}
    OBVIOUS
<1>2. MachinesInUse'
    BY <1>1 DEF MInv, MachinesInUse
<1>3. OwnMachines'
    BY DEF MInv, OwnMachines
<1> QED
    BY <1>2, <1>3 DEF MInv

\* A session that starts again has one machine.
LEMMA OneMachine ==
    ASSUME frames' = <<>>, machines' = {frame'.vm}
    PROVE  MInv'
<1>1. Len(frames') = 0
    BY EmptySeq
<1>2. 1..Len(frames') = {}
    BY <1>1
<1>3. Cardinality(machines') = 1
    BY FS_Singleton
<1>4. {frames'[i].saved.vm : i \in 1..Len(frames')} = {}
    BY <1>2
<1> QED
    BY <1>1, <1>2, <1>3, <1>4 DEF MInv, MachinesInUse, OwnMachines

LEMMA OpenBranchMachines == ASSUME TInv, MInv, OpenBranch PROVE MInv'
<1> DEFINE m == NewMachine(machines)
           kept == [saved |-> frame, version |-> version]
           n == Len(frames)
<1>1. /\ frames' = Append(frames, kept)
      /\ frame' = [frame EXCEPT !.vm = m] /\ machines' = machines \cup {m}
    BY DEF OpenBranch
<1>2. /\ frames \in Seq(Suspended) /\ kept \in Suspended /\ n \in Nat /\ frame \in Frames
      /\ machines \in SUBSET Nat /\ IsFiniteSet(machines)
    BY LenProperties DEF TInv, TypeOK, Suspended
<1>3. m \notin machines /\ frame'.vm = m
    BY <1>1, <1>2, NewMachineIsNew DEF Frames
<1> HIDE DEF m
<1>4. /\ Len(frames') = n + 1
      /\ \A i \in 1..n : frames'[i] = frames[i]
      /\ frames'[n + 1].saved.vm = frame.vm
    BY <1>1, <1>2, AppendProperties
<1>5. 1..Len(frames') = 1..n \cup {n + 1} /\ n + 1 \notin 1..n
    BY <1>2, <1>4
<1> HIDE DEF n, kept
<1>6. {frames'[i].saved.vm : i \in 1..Len(frames')}
        = {frames[i].saved.vm : i \in 1..n} \cup {frame.vm}
    BY <1>4, <1>5
<1>7. machines = {frame.vm} \cup {frames[i].saved.vm : i \in 1..n}
    BY DEF MInv, MachinesInUse, n
<1>8. machines' = {frame'.vm} \cup {frames'[i].saved.vm : i \in 1..Len(frames')}
    BY <1>1, <1>3, <1>6, <1>7
<1>9. Cardinality(machines') = Len(frames') + 1
  <2>1. Cardinality(machines) = n + 1
      BY DEF MInv, MachinesInUse, n
  <2> QED
      BY <1>1, <1>2, <1>3, <1>4, <2>1, FS_AddElement
<1>10. OwnMachines'
  <2>1. \A i \in 1..n : frames[i].saved.vm \in machines
      BY <1>7
  <2>2. frame.vm \in machines
      BY <1>7
  <2>3. /\ \A i \in 1..n : frames[i].saved.vm # frame.vm
        /\ \A i, j \in 1..n : i # j => frames[i].saved.vm # frames[j].saved.vm
      BY DEF MInv, OwnMachines, n
  <2>4. \A i \in 1..Len(frames') : frames'[i].saved.vm # frame'.vm
      BY <1>3, <1>4, <1>5, <2>1, <2>2
  <2>5. \A i, j \in 1..Len(frames') : i # j => frames'[i].saved.vm # frames'[j].saved.vm
      BY <1>4, <1>5, <2>3
  <2> QED
      BY <2>4, <2>5 DEF OwnMachines
<1> QED
    BY <1>8, <1>9, <1>10 DEF MInv, MachinesInUse

\* Of the branch and its parent one goes, with its machine.
LEMMA CloseBranchMachines == ASSUME TInv, MInv, RestoreBranch \/ ContinueBranch PROVE MInv'
<1> DEFINE n == Len(frames)
           gone == IF frame' = Parent.saved THEN frame.vm ELSE Parent.saved.vm
           stays == IF frame' = Parent.saved THEN Parent.saved.vm ELSE frame.vm
<1>1. /\ frames # <<>> /\ frames \in Seq(Suspended) /\ frame \in Frames
      /\ machines \in SUBSET Nat /\ IsFiniteSet(machines)
      /\ frames' = Drop(frames, 1)
    BY DEF TInv, TypeOK, Suspended, RestoreBranch, ContinueBranch
<1>2. n \in Nat \ {0} /\ n \in 1..n
    BY <1>1, EmptySeq
<1>3. /\ Len(frames') = n - 1
      /\ \A i \in 1..(n - 1) : frames'[i] = frames[i]
    BY <1>1, <1>2, DropType
<1>4. 1..n = 1..(n - 1) \cup {n} /\ n \notin 1..(n - 1)
    BY <1>2
<1>5. /\ Parent.saved.vm # frame.vm
      /\ \A i \in 1..(n - 1) : /\ frames[i].saved.vm # frame.vm
                               /\ frames[i].saved.vm # Parent.saved.vm
      /\ \A i, j \in 1..(n - 1) : i # j => frames[i].saved.vm # frames[j].saved.vm
    BY <1>2, <1>4 DEF MInv, OwnMachines, Parent
<1>6. machines' = machines \ {gone} /\ frame'.vm = stays
  <2>1. CASE RestoreBranch
      BY <2>1 DEF RestoreBranch
  <2>2. CASE ContinueBranch
      BY <1>5, <2>2 DEF ContinueBranch, ParentMachine
  <2> QED
      BY <2>1, <2>2
<1> DEFINE others == {frames[i].saved.vm : i \in 1..(n - 1)}
<1>7. machines = {frame.vm} \cup {Parent.saved.vm} \cup others
  <2>1. machines = {frame.vm} \cup {frames[i].saved.vm : i \in 1..n}
      BY DEF MInv, MachinesInUse
  <2>2. {frames[i].saved.vm : i \in 1..n} = {Parent.saved.vm} \cup others
      BY <1>4 DEF Parent
  <2> QED
      BY <2>1, <2>2
<1>8. others = {frames'[i].saved.vm : i \in 1..Len(frames')}
    BY <1>3
<1>9. gone \notin others /\ stays \notin others /\ gone # stays
      /\ {gone, stays} = {frame.vm, Parent.saved.vm}
    BY <1>5
<1>10. Cardinality(machines) = n + 1
    BY DEF MInv, MachinesInUse
<1> HIDE DEF n, gone, stays, others
<1>11. machines' = {frame'.vm} \cup others
    BY <1>6, <1>7, <1>9
<1>12. Cardinality(machines') = Len(frames') + 1
  <2>1. gone \in machines
      BY <1>7, <1>9
  <2>2. Cardinality(machines') = Cardinality(machines) - 1
      BY <1>1, <1>6, <2>1, FS_RemoveElement
  <2> QED
      BY <1>2, <1>3, <1>10, <2>2
<1>13. MachinesInUse'
    BY <1>8, <1>11, <1>12 DEF MachinesInUse
<1>14. OwnMachines'
  <2>1. \A i \in 1..Len(frames') : frames'[i].saved.vm # frame'.vm
      BY <1>6, <1>8, <1>9
  <2> QED
      BY <1>3, <1>5, <2>1 DEF OwnMachines
<1> QED
    BY <1>13, <1>14 DEF MInv

LEMMA TransferMachines ==
    ASSUME TInv, MInv, NEW n \in Nat, CopyToParent(n) \/ EscapeToParent(n)
    PROVE  MInv'
<1> DEFINE new == [saved |-> [Parent.saved EXCEPT !.types = @ \o Top(frame.types, n),
                                                  !.values = @ \o Top(frame.values, n),
                                                  !.torn = @ \/ frame.torn],
                   version |-> Parent.version + 1]
           last == Len(frames)
<1>1. frames # <<>> /\ frames' = [frames EXCEPT ![last] = new] /\ machines' = machines
    BY DEF Transfer, CopyToParent, EscapeToParent
<1>2. Parent \in Suspended /\ last \in 1..last /\ frame \in Frames /\ frames \in Seq(Suspended)
    BY <1>1, ParentType DEF TInv, TypeOK, Suspended
<1>3. new.saved.vm = Parent.saved.vm
    BY <1>2 DEF Suspended, Frames
<1>4. frame'.vm = frame.vm
    BY <1>2 DEF CopyToParent, EscapeToParent, Frames
<1>5. frames \in [1..last -> Suspended]
    BY <1>2, LenProperties
<1> HIDE DEF new
<1>6. Len(frames') = last
  <2>1. DOMAIN frames' = 1..last /\ frames' \in Seq(Suspended) /\ last \in Nat
    <3>1. frames' \in Seq(Suspended)
        BY TransferType DEF CopyToParent, EscapeToParent, TInv
    <3> QED
        BY <1>1, <1>2, <1>5, <3>1, LenProperties
  <2> QED
      BY <2>1
<1>7. \A i \in 1..last : frames'[i].saved.vm = frames[i].saved.vm
    BY <1>1, <1>3, <1>5 DEF Parent
<1> QED
    BY <1>1, <1>4, <1>6, <1>7, SameMachines

LEMMA ExecuteMachines ==
    ASSUME TInv, MInv, NEW t \in tokens, Succeed(t) \/ Fault(t) \/ Unhandled(t)
    PROVE  MInv'
<1>1. /\ Start(t) \in Frames
      /\ Start(t).vm = IF t.fresh THEN NewMachine({}) ELSE frame.vm
    BY StartType DEF TInv, Start, EmptyFrame
<1>2. \/ /\ frames' = <<>> /\ machines' = {NewMachine({})}
         /\ frame' = EmptyFrame(NewMachine({}))
      \/ /\ frames' = (IF t.fresh THEN <<>> ELSE frames)
         /\ machines' = (IF t.fresh THEN {NewMachine({})} ELSE machines)
         /\ \/ frame' = Torn(t)
            \/ frame' = [Start(t) EXCEPT !.types = t.types,
                                         !.values = Effect(t.source, Start(t).values)]
    BY DEF Succeed, Fault, Unhandled, Commits, ResetState
<1>3. EmptyFrame(NewMachine({})).vm = NewMachine({})
    BY DEF EmptyFrame
<1>5. CASE frames' = <<>> /\ machines' = {NewMachine({})} /\ frame' = EmptyFrame(NewMachine({}))
    BY <1>3, <1>5, OneMachine
<1>6. CASE /\ frames' = (IF t.fresh THEN <<>> ELSE frames)
           /\ machines' = (IF t.fresh THEN {NewMachine({})} ELSE machines)
           /\ \/ frame' = Torn(t)
              \/ frame' = [Start(t) EXCEPT !.types = t.types,
                                           !.values = Effect(t.source, Start(t).values)]
  <2>1. frame'.vm = Start(t).vm
    <3> DEFINE start == Start(t)
    <3>1. /\ start \in Frames
          /\ \/ frame' = [start EXCEPT !.types = t.types, !.torn = TRUE]
             \/ frame' = [start EXCEPT !.types = t.types, !.values = Effect(t.source, start.values)]
        BY <1>1, <1>6 DEF Torn
    <3> HIDE DEF start
    <3>2. frame'.vm = start.vm
        BY <3>1 DEF Frames
    <3> QED
        BY <3>2 DEF start
  <2>2. CASE t.fresh
      BY <1>1, <1>6, <2>1, <2>2, OneMachine
  <2>3. CASE ~t.fresh
    <3>1. frames' = frames /\ machines' = machines /\ frame'.vm = frame.vm
        BY <1>1, <1>6, <2>1, <2>3
    <3> QED
        BY <3>1, SameMachines
  <2> QED
      BY <2>2, <2>3
<1> QED
    BY <1>2, <1>5, <1>6

LEMMA NextMachines == TInv /\ MInv /\ [Next]_vars => MInv'
<1> SUFFICES ASSUME TInv, MInv, [Next]_vars PROVE MInv'
    OBVIOUS
<1>1. CASE Reset
    BY <1>1, OneMachine DEF Reset, ResetState, EmptyFrame
<1>2. ASSUME NEW n \in 1..MaxDepth, CopyToParent(n) \/ EscapeToParent(n) PROVE MInv'
  <2>1. n \in Nat
      BY SessionServiceAssumption
  <2> QED
      BY <1>2, <2>1, TransferMachines
<1>3. CASE \/ \E source \in Sources : Prepare(source, TRUE) \/ Prepare(source, FALSE) \/ TypeHint(source)
           \/ \E t \in tokens : RefuseLoad(t)
           \/ WorldChanges
           \/ UNCHANGED vars
  <2>1. UNCHANGED <<frame, frames, machines>>
      BY <1>3 DEF Prepare, TypeHint, RefuseLoad, WorldChanges, vars, sessionVars
  <2> QED
      BY <2>1, SameMachines
<1> QED
    BY <1>1, <1>2, <1>3, OpenBranchMachines, CloseBranchMachines, ExecuteMachines DEF Next

LEMMA MachinesInitially == Init => MInv
<1> SUFFICES ASSUME Init PROVE MInv
    OBVIOUS
<1>1. frames = <<>> /\ machines = {0} /\ frame.vm = 0
    BY DEF Init, EmptyFrame
<1>2. Len(frames) = 0
    BY <1>1, EmptySeq
<1>3. 1..Len(frames) = {}
    BY <1>2
<1>4. {frames[i].saved.vm : i \in 1..Len(frames)} = {} /\ Cardinality({0}) = 1
    BY <1>3, FS_Singleton
<1> QED
    BY <1>1, <1>2, <1>3, <1>4 DEF MInv, MachinesInUse, OwnMachines

\* Exactly the machines of the present frame and of its suspended parents are
\* open, one for each, whatever a client opens, leaves, loads and resets: no
\* machine is used after close, and none is left behind.
THEOREM MachinesAreInUse == Spec => []MachinesInUse
<1>1. TInv /\ MInv /\ [Next]_vars => (TInv /\ MInv)'
    BY NextTypes, NextMachines
<1>2. MInv => MachinesInUse
    BY DEF MInv
<1> QED
    BY <1>1, <1>2, InitTypes, MachinesInitially, PTL DEF Spec
-----------------------------------------------------------------------------
(* Stacks.  A preparation carries the types that its source makes of the   *)
(* state it was made in; since it is executed in that state or not at all  *)
(* (PreparedForThis), types and values change alike.  A fault leaves types *)
(* without values unless the session resets then, and the frame is torn.   *)

TokensTyped ==
    \A t \in tokens : t.types = Effect(t.source, IF t.fresh THEN <<>> ELSE t.base.types)

SInv == StackIsTyped /\ TokensTyped

\* Steps after which every stack is one that was there, or both are changed alike.
LEMMA StacksKept ==
    ASSUME SInv, frame'.torn \/ frame'.types = frame'.values, tokens' = tokens,
           \A i \in 1..Len(frames') :
               \/ frames'[i].saved.torn \/ frames'[i].saved.types = frames'[i].saved.values
               \/ i \in 1..Len(frames) /\ frames'[i] = frames[i]
    PROVE  SInv'
<1>1. \A i \in 1..Len(frames') :
          frames'[i].saved.torn \/ frames'[i].saved.types = frames'[i].saved.values
    BY DEF SInv, StackIsTyped
<1>2. TokensTyped'
    BY DEF SInv, TokensTyped
<1> QED
    BY <1>1, <1>2 DEF SInv, StackIsTyped

LEMMA PrepareStacks ==
    ASSUME SInv, NEW source \in Sources, NEW fresh \in BOOLEAN, Prepare(source, fresh)
    PROVE  SInv'
<1>1. /\ UNCHANGED <<frame, frames>>
      /\ tokens' = tokens \cup {Token(source, fresh)} \/ tokens' = tokens
    BY DEF Prepare
<1> DEFINE new == Token(source, fresh)
<1>2. new.types = Effect(new.source, IF new.fresh THEN <<>> ELSE new.base.types)
    BY DEF Token
<1> HIDE DEF new
<1>3. TokensTyped'
    BY <1>1, <1>2 DEF SInv, TokensTyped, new
<1>4. StackIsTyped'
    BY <1>1 DEF SInv, StackIsTyped
<1> QED
    BY <1>3, <1>4 DEF SInv

\* What a preparation says it does to the stack is what it does.
LEMMA ExecuteStacks ==
    ASSUME TInv, NothingIsStale, SInv, NEW t \in tokens, Succeed(t) \/ Fault(t) \/ Unhandled(t)
    PROVE  SInv'
<1>1. EmptyFrame(NewMachine({})).types = <<>> /\ EmptyFrame(NewMachine({})).values = <<>>
    BY DEF EmptyFrame
<1>2. tokens' = tokens /\ Current(t)
    BY DEF Succeed, Fault, Unhandled, Accepted
<1>3. \A i \in 1..Len(frames') : i \in 1..Len(frames) /\ frames'[i] = frames[i]
  <2>1. frames' = <<>> \/ frames' = frames
      BY DEF Succeed, Fault, Unhandled, Commits, ResetState
  <2>2. CASE frames' = <<>>
    <3>1. Len(frames') = 0
        BY <2>2, EmptySeq
    <3>2. 1..Len(frames') = {}
        BY <3>1
    <3> QED
        BY <3>2
  <2> QED
      BY <2>1, <2>2
<1>4. CASE Fault(t) \/ Unhandled(t)
  <2>1. frame' = EmptyFrame(NewMachine({})) \/ frame' = Torn(t)
      BY <1>4 DEF Fault, Unhandled, Commits, ResetState
  <2>2. Start(t) \in Frames
      BY StartType DEF TInv
  <2>3. Torn(t).torn
      BY <2>2 DEF Torn, Frames
  <2> QED
      BY <1>1, <1>2, <1>3, <2>1, <2>3, StacksKept
<1>5. CASE Succeed(t)
  <2> DEFINE start == Start(t)
  <2>1. /\ start \in Frames
        /\ frame' = [start EXCEPT !.types = t.types, !.values = Effect(t.source, start.values)]
      BY <1>5, StartType DEF Succeed, Commits, TInv
  <2>2. start.torn \/ start.types = start.values
      BY <1>1 DEF Start, SInv, StackIsTyped
  <2>3. t.types = Effect(t.source, start.types)
    <3>1. t.types = Effect(t.source, IF t.fresh THEN <<>> ELSE t.base.types)
        BY DEF SInv, TokensTyped
    <3>2. t.base = frame
        BY <1>2 DEF NothingIsStale, PreparedForThis
    <3> QED
        BY <1>1, <3>1, <3>2 DEF Start
  <2> HIDE DEF start
  <2>4. /\ frame'.types = t.types /\ frame'.values = Effect(t.source, start.values)
        /\ frame'.torn = start.torn
      BY <2>1 DEF Frames
  <2> QED
      BY <1>2, <1>3, <2>2, <2>3, <2>4, StacksKept
<1> QED
    BY <1>4, <1>5

LEMMA BranchStacks ==
    ASSUME TInv, SInv, OpenBranch \/ RestoreBranch \/ ContinueBranch
    PROVE  SInv'
<1>1. frames \in Seq(Suspended) /\ frame \in Frames /\ (frame.torn \/ frame.types = frame.values)
    BY DEF TInv, TypeOK, Suspended, SInv, StackIsTyped
<1>2. CASE OpenBranch
  <2> DEFINE kept == [saved |-> frame, version |-> version]
  <2>1. /\ frames' = Append(frames, kept) /\ tokens' = tokens
        /\ frame' = [frame EXCEPT !.vm = NewMachine(machines)]
      BY <1>2 DEF OpenBranch
  <2>2. kept \in Suspended /\ kept.saved = frame /\ Len(frames) \in Nat
      BY <1>1, LenProperties DEF Suspended, TInv, TypeOK
  <2> HIDE DEF kept
  <2>3. /\ Len(frames') = Len(frames) + 1 /\ frames'[Len(frames) + 1] = kept
        /\ \A i \in 1..Len(frames) : frames'[i] = frames[i]
      BY <1>1, <2>1, <2>2, AppendProperties
  <2>4. \A i \in 1..Len(frames') : i \in 1..Len(frames) \/ i = Len(frames) + 1
      BY <2>2, <2>3
  <2>5. \A i \in 1..Len(frames') :
            \/ frames'[i].saved.torn \/ frames'[i].saved.types = frames'[i].saved.values
            \/ i \in 1..Len(frames) /\ frames'[i] = frames[i]
      BY <1>1, <2>2, <2>3, <2>4
  <2>6. frame'.torn \/ frame'.types = frame'.values
      BY <1>1, <2>1 DEF Frames
  <2> QED
      BY <2>1, <2>5, <2>6, StacksKept
<1>3. CASE RestoreBranch \/ ContinueBranch
  <2>1. /\ frames # <<>> /\ frames' = Drop(frames, 1) /\ tokens' = tokens
        /\ frame' = frame \/ frame' = Parent.saved
      BY <1>3 DEF RestoreBranch, ContinueBranch
  <2>2. Len(frames) \in Nat \ {0} /\ Len(frames) \in 1..Len(frames)
      BY <1>1, <2>1, EmptySeq
  <2>3. /\ Len(frames') = Len(frames) - 1
        /\ \A i \in 1..(Len(frames) - 1) : frames'[i] = frames[i]
    <3>1. 1 \in Nat /\ 1 <= Len(frames)
        BY <2>2
    <3>2. /\ Len(Drop(frames, 1)) = Len(frames) - 1
          /\ \A i \in 1..(Len(frames) - 1) : Drop(frames, 1)[i] = frames[i]
        BY <1>1, <3>1, DropType
    <3> QED
        BY <2>1, <3>2
  <2>4. \A i \in 1..Len(frames') : i \in 1..Len(frames) /\ frames'[i] = frames[i]
      BY <2>2, <2>3
  <2>5. frame'.torn \/ frame'.types = frame'.values
      BY <1>1, <2>1, <2>2 DEF SInv, StackIsTyped, Parent
  <2> QED
      BY <2>1, <2>4, <2>5, StacksKept
<1> QED
    BY <1>2, <1>3

\* A transfer moves as many types as values.
LEMMA TransferStacks ==
    ASSUME TInv, SInv, NEW n \in Nat, CopyToParent(n) \/ EscapeToParent(n)
    PROVE  SInv'
<1> DEFINE new == [saved |-> [Parent.saved EXCEPT !.types = @ \o Top(frame.types, n),
                                                  !.values = @ \o Top(frame.values, n),
                                                  !.torn = @ \/ frame.torn],
                   version |-> Parent.version + 1]
           last == Len(frames)
<1>1. /\ frames # <<>> /\ frames' = [frames EXCEPT ![last] = new] /\ tokens' = tokens
      /\ Transfer(n)
    BY DEF Transfer, CopyToParent, EscapeToParent
<1>2. Parent \in Suspended /\ last \in 1..last /\ frame \in Frames /\ frames \in Seq(Suspended)
    BY <1>1, ParentType DEF TInv, TypeOK, Suspended
<1>3. /\ frame.torn \/ frame.types = frame.values
      /\ Parent.saved.torn \/ Parent.saved.types = Parent.saved.values
    BY <1>2 DEF SInv, StackIsTyped, Parent
<1>4. new.saved.torn \/ new.saved.types = new.saved.values
    BY <1>2, <1>3 DEF Suspended, Frames
<1>5. frames \in [1..last -> Suspended]
    BY <1>2, LenProperties
<1> HIDE DEF new
<1>6. Len(frames') = last
  <2>1. DOMAIN frames' = 1..last /\ frames' \in Seq(Suspended) /\ last \in Nat
    <3>1. frames' \in Seq(Suspended)
        BY <1>1, TransferType DEF TInv
    <3> QED
        BY <1>1, <1>2, <1>5, <3>1, LenProperties
  <2> QED
      BY <2>1
<1>7. \A i \in 1..Len(frames') :
          \/ frames'[i].saved.torn \/ frames'[i].saved.types = frames'[i].saved.values
          \/ i \in 1..Len(frames) /\ frames'[i] = frames[i]
    BY <1>1, <1>4, <1>5, <1>6
<1>8. frame'.torn \/ frame'.types = frame'.values
    BY <1>2, <1>3 DEF CopyToParent, EscapeToParent, Escaped, Frames
<1> QED
    BY <1>1, <1>7, <1>8, StacksKept

LEMMA NextStacks ==
    TInv /\ NothingIsStale /\ SInv /\ [Next]_vars => SInv'
<1> SUFFICES ASSUME TInv, NothingIsStale, SInv, [Next]_vars PROVE SInv'
    OBVIOUS
<1>1. ASSUME NEW source \in Sources, Prepare(source, TRUE) \/ Prepare(source, FALSE) PROVE SInv'
    BY <1>1, PrepareStacks
<1>2. CASE Reset
  <2>1. frame' = EmptyFrame(NewMachine({})) /\ frames' = <<>> /\ tokens' = tokens
      BY <1>2 DEF Reset, ResetState
  <2>2. Len(frames') = 0
      BY <2>1, EmptySeq
  <2>3. 1..Len(frames') = {} /\ frame'.types = frame'.values
      BY <2>1, <2>2 DEF EmptyFrame
  <2> QED
      BY <2>1, <2>3, StacksKept
<1>3. ASSUME NEW n \in 1..MaxDepth, CopyToParent(n) \/ EscapeToParent(n) PROVE SInv'
  <2>1. n \in Nat
      BY SessionServiceAssumption
  <2> QED
      BY <1>3, <2>1, TransferStacks
<1>4. CASE \/ \E source \in Sources : TypeHint(source)
           \/ \E t \in tokens : RefuseLoad(t)
           \/ WorldChanges
           \/ UNCHANGED vars
  <2>1. UNCHANGED <<frame, frames, tokens>>
      BY <1>4 DEF TypeHint, RefuseLoad, WorldChanges, vars, sessionVars
  <2> QED
      BY <2>1 DEF SInv, StackIsTyped, TokensTyped
<1> QED
    BY <1>1, <1>2, <1>3, <1>4, BranchStacks, ExecuteStacks DEF Next

LEMMA StacksInitially == Init => SInv
<1> SUFFICES ASSUME Init PROVE SInv
    OBVIOUS
<1>1. frames = <<>> /\ frame.types = frame.values /\ tokens = {}
    BY DEF Init, EmptyFrame
<1>2. Len(frames) = 0
    BY <1>1, EmptySeq
<1>3. 1..Len(frames) = {}
    BY <1>2
<1> QED
    BY <1>1, <1>3 DEF SInv, StackIsTyped, TokensTyped

\* Whether the session resets on a fault or not: the analyser's stack is that
\* of the machine, in the present frame and in every suspended one, but for
\* those that a fault has left with the types of what it cut short, and those
\* that values of such a frame were moved to, until the session is reset or
\* such a branch is left for its parent; and each frame has an open machine of
\* its own (SessionService.execute and the branches).
THEOREM FramesAlwaysSound == Spec => []FramesAreSound
<1> DEFINE IInv == TInv /\ MInv /\ NothingIsStale /\ SInv
<1>1. Init => IInv
    BY InitTypes, MachinesInitially, NothingStaleInitially, StacksInitially
<1>2. IInv /\ [Next]_vars => IInv'
    BY NextTypes, NextMachines, NextFresh, NextStacks
<1>3. IInv => FramesAreSound
    BY DEF TInv, MInv, SInv, FramesAreSound
<1> QED
    BY <1>1, <1>2, <1>3, PTL DEF Spec

-----------------------------------------------------------------------------
(* The live analysis: what is shown was computed from the texts that poll  *)
(* saw, and what a check of the disk says is about the result shown.       *)
(*                                                                         *)
(* The inductive invariant.  Revisions only grow, so a key of an earlier   *)
(* one never comes back: that is why comparing keys suffices.              *)

\* The key last polled is not of the future, and if it is of the present
\* revision, it is of the active document: a switch polls.
ObservedIsPast == observed # Unset =>
    /\ observed.revision <= revision
    /\ ~closed /\ observed.revision = revision => observed.active = active

\* An analysis for the present revision was started with the present texts, by
\* a poll that saw this revision.
TaskIsPast == task.pc # "done" =>
    /\ task.key.revision <= revision
    /\ task.key.revision = revision => task.text = text
    /\ ~closed /\ task.key.revision = revision =>
          observed # Unset /\ observed.revision = revision

IInv == ShownIsRight /\ ObservedIsPast /\ TaskIsPast

-----------------------------------------------------------------------------
LEMMA Initially == AnalysisInit => IInv
<1> SUFFICES ASSUME AnalysisInit PROVE IInv
    OBVIOUS
<1>1. AnalysisTypeOK
  <2>1. /\ text = 0 /\ revision = 1 /\ disk = 0 /\ active \in Documents /\ opened = {active}
        /\ failed = FALSE /\ closed = FALSE
      BY DEF AnalysisInit
  <2>2. /\ snapshot = Unset /\ requested = Unset /\ observed = Unset
        /\ task = NoTask /\ diskTask = NoTask
      BY DEF AnalysisInit
  <2>3. text \in Nat /\ revision \in Nat /\ disk \in Nat /\ text < revision
      BY <2>1
  <2> QED
      BY <2>1, <2>2, <2>3 DEF AnalysisTypeOK
<1>2. ShownIsCurrent /\ CheckIsAboutShown /\ ObservedIsPast /\ TaskIsPast
    BY DEF AnalysisInit, ShownIsCurrent, CheckIsAboutShown, ObservedIsPast, TaskIsPast, NoTask
<1> QED
    BY <1>1, <1>2 DEF IInv, ShownIsRight

\* A poll leaves the types as they are.
LEMMA PollTypes ==
    ASSUME AnalysisTypeOK, NEW k \in Keys, NEW t \in Nat, Poll(k, t)
    PROVE  /\ snapshot' = Unset \/ snapshot' \in [text : Nat, revision : Nat, active : Documents, disk : Nat]
           /\ failed' \in BOOLEAN
           /\ requested' = Unset \/ requested' \in Keys
           /\ observed' = Unset \/ observed' \in Keys
           /\ task' = NoTask \/ task' \in
                [pc : {"analysing", "checking", "checked", "raised"}, key : Keys, text : Nat,
                 disk : Nat, current : BOOLEAN]
           /\ diskTask' = NoTask \/ diskTask' \in
                [pc : {"reading", "read"}, disk : Nat, current : BOOLEAN, shown : BOOLEAN]
<1>1. CASE closed
    BY <1>1 DEF Poll, AnalysisTypeOK
<1>2. CASE ~closed
  <2>1. /\ snapshot' = Unset \/ snapshot' = snapshot
        /\ failed' = FALSE \/ failed' = failed
        /\ requested' = k \/ requested' = requested
        /\ task' = NewTask(k, t) \/ task' = task
        /\ observed' = k
    BY <1>2 DEF Poll
  <2>2. NewTask(k, t) \in
            [pc : {"analysing", "checking", "checked", "raised"}, key : Keys, text : Nat,
             disk : Nat, current : BOOLEAN]
    BY DEF NewTask
  <2>3. \/ snapshot' # Unset /\ diskTask' = NewDiskTask(snapshot.disk)
        \/ diskTask' = Replaced(diskTask)
        \/ diskTask' = diskTask
    BY <1>2 DEF Poll
  <2>4. snapshot' # Unset => NewDiskTask(snapshot.disk) \in
            [pc : {"reading", "read"}, disk : Nat, current : BOOLEAN, shown : BOOLEAN]
    BY <2>1 DEF AnalysisTypeOK, NewDiskTask
  <2>5. Replaced(diskTask) = NoTask \/ Replaced(diskTask) \in
            [pc : {"reading", "read"}, disk : Nat, current : BOOLEAN, shown : BOOLEAN]
    BY DEF AnalysisTypeOK, Replaced, NoTask
  <2>6. diskTask' = NoTask \/ diskTask' \in
            [pc : {"reading", "read"}, disk : Nat, current : BOOLEAN, shown : BOOLEAN]
    BY <2>3, <2>4, <2>5 DEF AnalysisTypeOK
  <2> QED
    BY <2>1, <2>2, <2>6 DEF AnalysisTypeOK
<1> QED
    BY <1>1, <1>2

\* A check of the disk stays one about the result shown.
LEMMA PollChecks ==
    ASSUME CheckIsAboutShown, NEW k, NEW t, Poll(k, t)
    PROVE  CheckIsAboutShown'
<1>1. CASE closed
    BY <1>1 DEF Poll, CheckIsAboutShown
<1>2. CASE ~closed /\ KeyChanged(k)
  <2>1. diskTask' = Replaced(diskTask)
    BY <1>2 DEF Poll
  <2>2. Replaced(diskTask).pc # "done" => ~Replaced(diskTask).shown
    BY DEF Replaced
  <2> QED
    BY <2>1, <2>2 DEF CheckIsAboutShown
<1>3. CASE ~closed /\ ~KeyChanged(k)
  <2>1. /\ snapshot' = snapshot
        /\ diskTask' = diskTask \/ (snapshot # Unset /\ diskTask' = NewDiskTask(snapshot.disk))
    BY <1>3 DEF Poll
  <2> QED
    BY <2>1 DEF CheckIsAboutShown, NewDiskTask
<1> QED
    BY <1>1, <1>2, <1>3

\* An analysis that a poll starts has the texts and the revision of the poll.
LEMMA PollTask ==
    ASSUME NEW k, NEW t, Poll(k, t)
    PROVE  task' = task \/ (task'.key = k /\ task'.text = t)
BY DEF Poll, NewTask

\* A poll with another key than the last takes the result away.
LEMMA PollShows ==
    ASSUME NEW k, NEW t, Poll(k, t), ~closed
    PROVE  /\ observed' = k
           /\ snapshot' = snapshot \/ snapshot' = Unset
           /\ observed # k => snapshot' = Unset
BY DEF Poll, KeyChanged

-----------------------------------------------------------------------------
(* The operations of the workspace.                                        *)

\* A poll, whatever the workspace became in the same step: a new revision of
\* it, or the same one with the same texts.
LEMMA PollKeeps ==
    ASSUME IInv, revision' \in Nat, text' \in Nat, text' < revision', UNCHANGED <<disk, closed>>,
           revision' > revision \/ (revision' = revision /\ text' = text),
           opened' \subseteq Documents, active' \in opened',
           Poll(Key(revision', active'), text')
    PROVE  IInv'
<1> DEFINE k == Key(revision', active')
           t == text'
<1>1. /\ AnalysisTypeOK /\ ShownIsCurrent /\ CheckIsAboutShown /\ ObservedIsPast /\ TaskIsPast
    BY DEF IInv, ShownIsRight
<1>2. /\ k \in Keys /\ k.revision = revision' /\ k.active = active' /\ t \in Nat
      /\ Poll(k, t) /\ Key(revision, active)' = k /\ k # Unset
    BY UnsetAssumption DEF Key, Keys
<1>3. /\ revision \in Nat /\ text \in Nat
      /\ observed # Unset => observed \in Keys /\ observed.revision \in Nat /\ observed.active \in Documents
      /\ task.pc # "done" => task.key.revision \in Nat
    BY <1>1 DEF AnalysisTypeOK, Keys, NoTask
<1> HIDE DEF k, t
<1>4. AnalysisTypeOK'
    BY <1>1, <1>2, PollTypes DEF AnalysisTypeOK
<1>5. CheckIsAboutShown'
    BY <1>1, <1>2, PollChecks
<1>6. CASE closed
  <2>1. UNCHANGED <<snapshot, observed, task, closed>>
      BY <1>2, <1>6 DEF Poll
  <2>2. ShownIsCurrent' /\ ObservedIsPast' /\ TaskIsPast'
      BY <1>1, <1>3, <1>6, <2>1 DEF ShownIsCurrent, ObservedIsPast, TaskIsPast
  <2> QED
      BY <1>4, <1>5, <2>2 DEF IInv, ShownIsRight
<1>7. CASE ~closed
  <2>1. observed' = k /\ (snapshot' = Unset \/ (snapshot' = snapshot /\ observed = k))
      BY <1>2, <1>7, PollShows
  <2>2. ObservedIsPast'
      BY <1>2, <2>1 DEF ObservedIsPast
  <2>3. TaskIsPast'
    <3>1. CASE task' = task
        BY <1>1, <1>2, <1>3, <1>7, <2>1, <3>1 DEF TaskIsPast
    <3>2. CASE task'.key = k /\ task'.text = t
        BY <1>2, <2>1, <3>2 DEF TaskIsPast, t
    <3> QED
        BY <1>2, <3>1, <3>2, PollTask
  <2>4. ShownIsCurrent'
    <3>1. ASSUME snapshot' # Unset
          PROVE  /\ observed' = Key(snapshot.revision, snapshot.active)'
                 /\ snapshot'.text = text'
      <4>1. snapshot' = snapshot /\ observed = k /\ observed' = observed
          BY <2>1, <3>1
      <4>2. observed = Key(snapshot.revision, snapshot.active)
          BY <1>1, <1>7, <3>1, <4>1 DEF ShownIsCurrent
      <4>3. revision' = revision /\ text' = text
          BY <1>1, <1>2, <1>3, <4>1 DEF ObservedIsPast
      <4>4. active' = active
          BY <1>1, <1>2, <1>7, <4>1, <4>3 DEF ObservedIsPast
      <4>5. snapshot.text = text
          BY <1>1, <1>2, <1>7, <3>1, <4>1, <4>3, <4>4 DEF ShownIsCurrent
      <4> QED
          BY <4>1, <4>2, <4>3, <4>5
    <3> QED
        BY <3>1 DEF ShownIsCurrent
  <2> QED
      BY <1>4, <1>5, <2>2, <2>3, <2>4 DEF IInv, ShownIsRight
<1> QED
    BY <1>6, <1>7

LEMMA TimerPollKeeps == ASSUME IInv, TimerPoll PROVE IInv'
<1>1. UNCHANGED <<opened, text, revision, active, disk, closed>>
    BY DEF TimerPoll, worldVars
<1>2. Poll(Key(revision', active'), text')
    BY <1>1 DEF TimerPoll
<1> QED
    BY <1>1, <1>2, PollKeeps DEF IInv, ShownIsRight, AnalysisTypeOK

\* An edit makes a new revision, and so a key that was not observed before.
LEMMA EditKeeps == ASSUME IInv, Edit PROVE IInv'
<1>1. /\ text' = text + 1 /\ revision' = revision + 1
      /\ UNCHANGED <<opened, active, disk, closed>>
      /\ Poll(Key(revision', active'), text')
    BY DEF Edit, NextRevision
<1>2. text \in Nat /\ revision \in Nat /\ text < revision /\ opened \subseteq Documents /\ active \in opened
    BY DEF IInv, ShownIsRight, AnalysisTypeOK
<1>3. text' \in Nat /\ revision' \in Nat /\ text' < revision' /\ revision' > revision
    BY <1>1, <1>2
<1> QED
    BY <1>1, <1>2, <1>3, PollKeeps

\* The key last polled was of the document that was active.
LEMMA ActivateKeeps == ASSUME IInv, NEW d \in Documents, Activate(d) PROVE IInv'
<1>1. /\ UNCHANGED <<opened, text, revision, disk, closed>> /\ d \in opened /\ active' = d
      /\ Poll(Key(revision', active'), text')
    BY DEF Activate
<1> QED
    BY <1>1, PollKeeps DEF IInv, ShownIsRight, AnalysisTypeOK

\* A new revision that no poll has seen yet is no key observed before.
LEMMA MovesKeep ==
    ASSUME IInv, revision' \in Nat, text' \in Nat, text' < revision', revision' > revision,
           opened' \subseteq Documents, active' \in opened', UNCHANGED disk, ShowsStill
    PROVE  IInv'
<1>1. /\ AnalysisTypeOK /\ ShownIsCurrent /\ CheckIsAboutShown /\ ObservedIsPast /\ TaskIsPast
      /\ UNCHANGED <<disk, snapshot, failed, requested, observed, task, diskTask, closed>>
    BY DEF IInv, ShownIsRight, ShowsStill
<1>2. /\ revision \in Nat
      /\ observed # Unset => observed.revision \in Nat
      /\ task.pc # "done" => task.key.revision \in Nat
    BY <1>1 DEF AnalysisTypeOK, NoTask, Keys
<1>3. AnalysisTypeOK'
    BY <1>1 DEF AnalysisTypeOK
<1>4. observed # Key(revision', active')
  <2>1. Key(revision', active').revision = revision' /\ Key(revision', active') \in Keys
      BY DEF Key, Keys
  <2> QED
      BY <1>1, <1>2, <2>1, UnsetAssumption DEF ObservedIsPast, Keys
<1>5. ShownIsCurrent'
    BY <1>1, <1>4 DEF ShownIsCurrent
<1>6. CheckIsAboutShown'
    BY <1>1 DEF CheckIsAboutShown
<1>7. ObservedIsPast' /\ TaskIsPast'
    BY <1>1, <1>2 DEF ObservedIsPast, TaskIsPast
<1> QED
    BY <1>3, <1>5, <1>6, <1>7 DEF IInv, ShownIsRight

\* Edits that poll has yet to see, saves, and documents opened and closed.
LEMMA WorkspaceKeeps ==
    ASSUME IInv, Update \/ Save \/ \E d \in Documents : TabOpens(d) \/ TabCloses(d)
    PROVE  IInv'
<1>1. text \in Nat /\ revision \in Nat /\ text < revision /\ opened \subseteq Documents /\ active \in opened
    BY DEF IInv, ShownIsRight, AnalysisTypeOK
<1>2. /\ text' \in {text, text + 1} /\ UNCHANGED disk /\ ShowsStill
      /\ revision' = revision + 1 \/ revision' = revision + 1 + 1
      /\ text' = text \/ (text' = text + 1)
    BY DEF Update, Save, TabOpens, TabCloses, NextRevision
<1>3. opened' \subseteq Documents /\ active' \in opened'
  <2>1. CASE Update \/ Save
      BY <1>1, <2>1 DEF Update, Save
  <2>2. ASSUME NEW d \in Documents, TabOpens(d) PROVE opened' \subseteq Documents /\ active' \in opened'
      BY <1>1, <2>2 DEF TabOpens
  <2>3. ASSUME NEW d \in Documents, TabCloses(d) PROVE opened' \subseteq Documents /\ active' \in opened'
    <3>1. CASE opened # {d} /\ opened' = opened \ {d} /\ active' \in (IF active = d THEN opened' ELSE {active})
        BY <1>1, <3>1
    <3>2. CASE active' \in Documents /\ opened' = {active'}
        BY <3>2
    <3> QED
        BY <2>3, <3>1, <3>2 DEF TabCloses
  <2> QED
      BY <2>1, <2>2, <2>3
<1>4. text' \in Nat /\ revision' \in Nat /\ text' < revision' /\ revision' > revision
    BY <1>1, <1>2
<1> QED
    BY <1>2, <1>3, <1>4, MovesKeep

-----------------------------------------------------------------------------
(* The threads and their coroutines.                                       *)

\* What only moves the two tasks on, and says no more about the result shown.
LEMMA AnalysedKeeps == ASSUME IInv, Analysed \/ Checked PROVE IInv'
<1>1. /\ AnalysisTypeOK /\ ShownIsCurrent /\ CheckIsAboutShown /\ ObservedIsPast /\ TaskIsPast
      /\ UNCHANGED <<opened, text, revision, active, disk, snapshot, failed, requested, observed,
                     diskTask, closed>>
    BY DEF IInv, ShownIsRight, Analysed, Checked, worldVars
<1> DEFINE Running == [pc : {"analysing", "checking", "checked", "raised"}, key : Keys,
                       text : Nat, disk : Nat, current : BOOLEAN]
<1>2. task \in Running /\ task.pc # "done"
    BY <1>1 DEF AnalysisTypeOK, NoTask, Analysed, Checked
<1>3. task' \in Running /\ task'.key = task.key /\ task'.text = task.text
    BY <1>1, <1>2 DEF AnalysisTypeOK, Analysed, Checked
<1>4. AnalysisTypeOK'
    BY <1>1, <1>3 DEF AnalysisTypeOK
<1>5. TaskIsPast'
    BY <1>1, <1>2, <1>3 DEF TaskIsPast
<1> QED
    BY <1>1, <1>4, <1>5
    DEF IInv, ShownIsRight, ShownIsCurrent, CheckIsAboutShown, ObservedIsPast

\* Only an analysis for the present key is accepted.
LEMMA AcceptKeeps == ASSUME IInv, Accept PROVE IInv'
<1>1. /\ AnalysisTypeOK /\ ShownIsCurrent /\ CheckIsAboutShown /\ ObservedIsPast /\ TaskIsPast
      /\ task.pc = "checked" /\ task' = NoTask
      /\ UNCHANGED <<opened, text, revision, active, disk, failed, observed, closed>>
      /\ requested' = Unset \/ requested' = requested
    BY DEF IInv, ShownIsRight, Accept, worldVars
<1>2. TaskIsPast' /\ ObservedIsPast'
    BY <1>1 DEF TaskIsPast, ObservedIsPast, NoTask
<1>3. CASE Wanted /\ task.current
  <2>1. snapshot' = Product /\ diskTask' = Replaced(diskTask)
      BY <1>3 DEF Accept
  <2>2. Product.text = text /\ Product.active = active /\ Product.revision = revision
      BY <1>1, <1>3 DEF Product, Wanted, Key, TaskIsPast
  <2>3. Product \in [text : Nat, revision : Nat, active : Documents, disk : Nat]
      BY <1>1, <2>2 DEF Product, AnalysisTypeOK, NoTask
  <2>4. observed = Key(revision, active)
    <3>1. ~closed /\ task.key.revision = revision
        BY <1>3 DEF Wanted, Key
    <3>2. observed # Unset /\ observed.revision = revision /\ observed.active = active
        BY <1>1, <3>1 DEF TaskIsPast, ObservedIsPast
    <3>3. observed \in Keys
        BY <1>1, <3>2 DEF AnalysisTypeOK
    <3> QED
        BY <3>2, <3>3 DEF Keys, Key
  <2>7. ShownIsCurrent'
      BY <1>1, <2>1, <2>2, <2>4 DEF ShownIsCurrent
  <2>5. CheckIsAboutShown'
      BY <2>1 DEF CheckIsAboutShown, Replaced
  <2>6. AnalysisTypeOK'
    <3>1. Replaced(diskTask) = NoTask \/ Replaced(diskTask) \in
            [pc : {"reading", "read"}, disk : Nat, current : BOOLEAN, shown : BOOLEAN]
      BY <1>1 DEF AnalysisTypeOK, Replaced, NoTask
    <3> QED
      BY <1>1, <2>1, <2>3, <3>1 DEF AnalysisTypeOK
  <2> QED
      BY <1>2, <2>5, <2>6, <2>7 DEF IInv, ShownIsRight
<1>4. CASE ~(Wanted /\ task.current)
  <2>1. UNCHANGED <<snapshot, diskTask>>
      BY <1>4 DEF Accept
  <2> QED
      BY <1>1, <1>2, <2>1 DEF IInv, ShownIsRight, AnalysisTypeOK, ShownIsCurrent, CheckIsAboutShown
<1> QED
    BY <1>3, <1>4

LEMMA RaisedKeeps == ASSUME IInv, Raised PROVE IInv'
BY DEF IInv, ShownIsRight, AnalysisTypeOK, ShownIsCurrent, CheckIsAboutShown, ObservedIsPast, TaskIsPast,
       Raised, Wanted, NoTask, worldVars

LEMMA DiskReadKeeps == ASSUME IInv, DiskRead PROVE IInv'
<1> DEFINE Reading == [pc : {"reading", "read"}, disk : Nat, current : BOOLEAN, shown : BOOLEAN]
<1>1. /\ AnalysisTypeOK /\ ShownIsCurrent /\ CheckIsAboutShown /\ ObservedIsPast /\ TaskIsPast
      /\ diskTask.pc = "reading"
      /\ diskTask' = [diskTask EXCEPT !.pc = "read", !.current = (diskTask.disk = disk)]
      /\ UNCHANGED <<opened, text, revision, active, disk, snapshot, failed, requested, observed, task,
                     closed>>
    BY DEF IInv, ShownIsRight, DiskRead, worldVars
<1>2. diskTask \in Reading
    BY <1>1 DEF AnalysisTypeOK, NoTask
<1>3. /\ diskTask' \in Reading
      /\ diskTask'.disk = diskTask.disk /\ diskTask'.shown = diskTask.shown
    BY <1>1, <1>2
<1>4. AnalysisTypeOK'
    BY <1>1, <1>3 DEF AnalysisTypeOK
<1>5. CheckIsAboutShown'
    BY <1>1, <1>3 DEF CheckIsAboutShown
<1> QED
    BY <1>1, <1>4, <1>5 DEF IInv, ShownIsRight, ShownIsCurrent, ObservedIsPast, TaskIsPast

LEMMA DiskCheckedKeeps == ASSUME IInv, DiskChecked PROVE IInv'
<1>1. /\ AnalysisTypeOK /\ ShownIsCurrent /\ ObservedIsPast /\ TaskIsPast
      /\ diskTask' = NoTask
      /\ snapshot' = Unset \/ snapshot' = snapshot
      /\ failed' \in BOOLEAN
      /\ requested' = Unset \/ requested' = requested
      /\ UNCHANGED <<opened, text, revision, active, disk, observed, task, closed>>
    BY DEF IInv, ShownIsRight, AnalysisTypeOK, DiskChecked, Forgotten, worldVars
<1>2. AnalysisTypeOK'
    BY <1>1 DEF AnalysisTypeOK
<1>3. ShownIsCurrent' /\ CheckIsAboutShown' /\ ObservedIsPast' /\ TaskIsPast'
    BY <1>1 DEF ShownIsCurrent, CheckIsAboutShown, ObservedIsPast, TaskIsPast, NoTask
<1> QED
    BY <1>2, <1>3 DEF IInv, ShownIsRight

\* Changes on disk, and the end.
LEMMA OthersKeep == ASSUME IInv, DiskChanges \/ Unmount \/ Close PROVE IInv'
<1>1. /\ AnalysisTypeOK /\ ShownIsCurrent /\ CheckIsAboutShown /\ ObservedIsPast /\ TaskIsPast
      /\ UNCHANGED <<opened, text, revision, active, snapshot, failed, requested, observed>>
      /\ disk' \in Nat
      /\ closed' = closed \/ closed' = TRUE
      /\ (task' = NoTask /\ diskTask' = NoTask) \/ UNCHANGED <<task, diskTask>>
    BY DEF IInv, ShownIsRight, AnalysisTypeOK, DiskChanges, ShowsStill, Unmount, Close, worldVars
<1>2. AnalysisTypeOK'
    BY <1>1 DEF AnalysisTypeOK
<1>3. ShownIsCurrent' /\ CheckIsAboutShown' /\ ObservedIsPast' /\ TaskIsPast'
    BY <1>1 DEF ShownIsCurrent, CheckIsAboutShown, ObservedIsPast, TaskIsPast, NoTask
<1> QED
    BY <1>2, <1>3 DEF IInv, ShownIsRight

-----------------------------------------------------------------------------
LEMMA NextKeeps == IInv /\ [AnalysisNext]_analysisVars => IInv'
<1> SUFFICES ASSUME IInv, [AnalysisNext]_analysisVars PROVE IInv'
    OBVIOUS
<1>1. CASE Threads
    BY <1>1, AnalysedKeeps, DiskReadKeeps DEF Threads
<1>2. CASE Coroutines
    BY <1>2, AcceptKeeps, RaisedKeeps, DiskCheckedKeeps DEF Coroutines
<1>3. CASE UNCHANGED analysisVars
    BY <1>3 DEF IInv, ShownIsRight, AnalysisTypeOK, ShownIsCurrent, CheckIsAboutShown, ObservedIsPast,
                TaskIsPast, analysisVars, worldVars
<1> QED
    BY <1>1, <1>2, <1>3, TimerPollKeeps, EditKeeps, ActivateKeeps, WorkspaceKeeps, OthersKeep
    DEF AnalysisNext

\* What the editor shows is about the workspace that the last poll saw, and was
\* computed from the present texts for the active document until the workspace
\* changes again; and what a check of the disk decides is about it, however
\* edits with a poll and without, saves, documents opened and closed, switches
\* and late analyses cross (EditorAnalysis.poll, _analyse).
THEOREM ShownIsAlwaysRight == AnalysisSpec => []ShownIsRight
<1>1. AnalysisSpec => []IInv
    BY Initially, NextKeeps, PTL DEF AnalysisSpec
<1>2. IInv => ShownIsRight
    BY DEF IInv
<1> QED
    BY <1>1, <1>2, PTL

\* After the teardown has begun, no analysis and no check of the disk that
\* comes back late changes what is shown (EditorAnalysis.close, and the tests
\* for closed in poll, _analyse and _check_disk).
THEOREM NothingLate == AnalysisSpec => NothingAfterClose
<1>1. [AnalysisNext]_analysisVars => (closed => snapshot' = snapshot)
  <2> SUFFICES ASSUME [AnalysisNext]_analysisVars, closed PROVE snapshot' = snapshot
      OBVIOUS
  <2>1. \A k, t : Poll(k, t) => snapshot' = snapshot
      BY DEF Poll
  <2>2. Accept \/ DiskChecked => snapshot' = snapshot
      BY DEF Accept, Wanted, DiskChecked
  <2> QED
      BY <2>1, <2>2
      DEF AnalysisNext, analysisVars, worldVars, TimerPoll, Edit, Update, Save, Activate, TabOpens, TabCloses,
          ShowsStill, DiskChanges, Threads,
          Analysed, Checked, DiskRead, Coroutines, Raised, Unmount, Close
<1> QED
    BY <1>1, PTL DEF AnalysisSpec, NothingAfterClose

-----------------------------------------------------------------------------
(* The compilation database and the language server.                       *)

USE DEF Outermost

\* What was seen is the present text, unless other programs changed it
\* unnoticed; and whose it is will be dropped when any of it changes.
Untold(g, t) == Source(g) = t \/ (~Open(g) /\ g \in unseen)
Known(m, seen) ==
    \A sight \in seen : Untold(sight[1], sight[2]) /\ m \in AllRequesters({sight[1]})
AgreesWithOpen(seen) == \A sight \in seen : Open(sight[1]) => sight[2] = documents[sight[1]]

TablesKnown ==
    \A f \in Files :
        /\ cache[f] # None => Known(f, cache[f])
        /\ analyses[f] # None => Known(f, analyses[f].seen)

\* Each load is of what the one below it has asked for.
LoadsKnown ==
    \A i \in 1..Len(loads) :
        /\ Known(loads[i].module, loads[i].seen)
        /\ <<loads[i].module, loads[i].text>> \in loads[i].seen
        /\ loads[i].left \subseteq ImportsOf[<<loads[i].module, loads[i].text>>]
        /\ i < Len(loads) => loads[i].module \in sources[loads[i + 1].module]

ProvisionalKnown ==
    \A d \in Files : provisional[d] # None => d \in Loading /\ Untold(d, provisional[d])

\* No module is loaded a second time.
LoadsNew == \A d \in Loading : cache[d] = None

\* Requests are of what is imported.
RequestsAreImports == \A f \in Files : f \in unseen \/ sources[f] \subseteq ImportsNow(f)

\* Whoever has been served agrees with all that is open.
ServedAgree ==
    \A f \in Files : Open(f) /\ f # changed /\ f \notin waiting => AgreesWithOpen(published[f].seen)

ServerInv ==
    /\ ServerTypeOK
    /\ TablesKnown /\ LoadsKnown /\ ProvisionalKnown /\ LoadsNew /\ RequestsAreImports
    /\ ServedAgree

-----------------------------------------------------------------------------
(* Invalidation.                                                           *)

\* What changed is dropped, and who requested something dropped.
LEMMA RequestersClosed ==
    ASSUME NEW S \in SUBSET Files
    PROVE  /\ S \subseteq AllRequesters(S) /\ AllRequesters(S) \subseteq Files
           /\ \A f \in Files : sources[f] \cap AllRequesters(S) # {} => f \in AllRequesters(S)
<1>1. S \subseteq AllRequesters(S) /\ AllRequesters(S) \subseteq Files
    BY DEF AllRequesters, Closure
<1>2. ASSUME NEW f \in Files, NEW d \in sources[f], d \in AllRequesters(S)
      PROVE  f \in AllRequesters(S)
  <2>1. SUFFICES ASSUME NEW C \in SUBSET Files, S \subseteq C, Requesters(C) \subseteq C
                 PROVE  f \in C
      BY DEF AllRequesters, Closure
  <2>2. d \in C
      BY <1>2, <2>1 DEF AllRequesters, Closure
  <2> QED
      BY <1>2, <2>1, <2>2 DEF Requesters
<1> QED
    BY <1>1, <1>2

\* The more requests, the more is dropped.
LEMMA RequestersGrow ==
    ASSUME NEW S \in SUBSET Files, \A f \in Files : sources[f] \subseteq sources'[f]
    PROVE  AllRequesters(S) \subseteq AllRequesters(S)'
<1>1. SUFFICES ASSUME NEW f \in AllRequesters(S), NEW C \in SUBSET Files, S \subseteq C, Requesters(C)' \subseteq C
               PROVE  f \in C
    BY DEF AllRequesters, Closure
<1>2. Requesters(C) \subseteq C
    BY <1>1 DEF Requesters
<1> QED
    BY <1>1, <1>2 DEF AllRequesters, Closure

\* Who is not dropped keeps what it rests on.
LEMMA RequestersStay ==
    ASSUME NEW h \in Files, NEW g \in Files, NEW f \in AllRequesters({g}),
           f \notin AllRequesters({h}),
           sources' = [x \in Files |-> IF x \in AllRequesters({h}) THEN {} ELSE sources[x]]
    PROVE  f \in AllRequesters({g})'
<1>1. SUFFICES ASSUME NEW C \in SUBSET Files, {g} \subseteq C, Requesters(C)' \subseteq C
               PROVE  f \in C
    BY DEF AllRequesters, Closure
<1> DEFINE D == C \union AllRequesters({h})
<1>2. D \in SUBSET Files /\ {g} \subseteq D
    BY <1>1, RequestersClosed
<1>3. ASSUME NEW x \in Requesters(D) PROVE x \in D
  <2>1. CASE x \in AllRequesters({h}) \/ x \in C
      BY <2>1
  <2>2. CASE x \notin AllRequesters({h}) /\ x \notin C
    <3>1. x \in Files /\ sources[x] \cap D # {} /\ sources'[x] = sources[x]
        BY <1>2, <1>3, <2>2 DEF Requesters
    <3>2. sources[x] \cap AllRequesters({h}) = {}
        BY <2>2, <3>1, RequestersClosed
    <3>3. x \in Requesters(C)'
        BY <3>1, <3>2 DEF Requesters
    <3> QED
        BY <1>1, <2>2, <3>3
  <2> QED
      BY <2>1, <2>2
<1>4. f \in D
    BY <1>2, <1>3 DEF AllRequesters, Closure
<1> QED
    BY <1>4

\* Who requests something requests all that rests on.
LEMMA RequestersOf ==
    ASSUME NEW g \in Files, NEW m \in Files, NEW d \in sources[m], d \in AllRequesters({g})
    PROVE  m \in AllRequesters({g})
<1> QED
    BY RequestersClosed

\* Who requested something rests on it, as long as nothing was changed unnoticed.
LEMMA RequestersRest ==
    ASSUME NEW h \in Files, NEW f \in AllRequesters({h}), unseen = {}, RequestsAreImports
    PROVE  h \in Reaches(f)
<1> DEFINE C == {x \in Files : h \in Reaches(x)}
<1>1. C \in SUBSET Files
    OBVIOUS
<1>2. {h} \subseteq C
    BY DEF Reaches, Closure
<1>3. ASSUME NEW x \in Requesters(C) PROVE x \in C
  <2>1. CASE x \in C
      BY <2>1
  <2>2. ASSUME x \in Files, NEW y \in sources[x], y \in C PROVE x \in C
    <3>1. y \in ImportsNow(x) /\ h \in Reaches(y)
        BY <2>2 DEF RequestsAreImports
    <3>2. ASSUME NEW D \in SUBSET Files, {x} \subseteq D, Reached(D) \subseteq D PROVE h \in D
      <4>1. {y} \subseteq D
          BY <3>1, <3>2 DEF Reached
      <4> QED
          BY <3>1, <3>2, <4>1 DEF Reaches, Closure
    <3> QED
        BY <2>2, <3>2 DEF Reaches, Closure
  <2> QED
      BY <1>3, <2>1, <2>2 DEF Requesters
<1>4. Requesters(C) \subseteq C
    BY <1>3
<1> QED
    BY <1>1, <1>2, <1>4 DEF AllRequesters, Closure

-----------------------------------------------------------------------------
(* Sources and loads.                                                      *)

\* What is read is a text, or nothing; and what a load begins with.
LEMMA SourceTypes ==
    ASSUME ServerTypeOK, NEW f \in Files
    PROVE  /\ Source(f) \in Texts \union {Missing} /\ ImportsNow(f) \subseteq Files
           /\ Source(f) # Missing =>
                /\ Frame(f) \in LoadFrames
                /\ ImportsNow(f) = ImportsOf[<<f, Source(f)>>]
<1>1. Source(f) \in Texts \union {Missing}
    BY DEF ServerTypeOK, DatabaseTypeOK, Source
<1>2. ImportsNow(f) \subseteq Files
    BY <1>1, DatabaseAssumption DEF ImportsNow
<1>3. ASSUME Source(f) # Missing
      PROVE  Frame(f) \in LoadFrames /\ ImportsNow(f) = ImportsOf[<<f, Source(f)>>]
  <2>1. {<<f, Source(f)>>} \in Sights /\ (<<f, Source(f)>> \notin Broken) \in BOOLEAN
      BY <1>1 DEF Sights
  <2>2. Source(f) \in Texts
      BY <1>1, <1>3
  <2> QED
      BY <1>2, <1>3, <2>1, <2>2 DEF Frame, LoadFrames, ImportsNow
<1> QED
    BY <1>1, <1>2, <1>3

\* The loads under way.
LEMMA StackTypes ==
    ASSUME ServerTypeOK
    PROVE  /\ Len(loads) \in Nat /\ DOMAIN loads = 1..Len(loads) /\ loads \in Seq(LoadFrames)
           /\ \A i \in 1..Len(loads) : loads[i] \in LoadFrames
           /\ loads # <<>> => Len(loads) >= 1 /\ Inner = loads[1] /\ Inner \in LoadFrames
<1>1. loads \in Seq(LoadFrames)
    BY DEF ServerTypeOK, DatabaseTypeOK
<1>2. Len(loads) \in Nat /\ DOMAIN loads = 1..Len(loads) /\ \A i \in 1..Len(loads) : loads[i] \in LoadFrames
    BY <1>1, LenProperties, ElementOfSeq
<1>3. loads # <<>> => Len(loads) >= 1 /\ Inner = loads[1]
    BY <1>1, <1>2, EmptySeq, HeadTailProperties DEF Inner
<1> QED
    BY <1>1, <1>2, <1>3

\* An import that has been dealt with leaves the frame.
LEMMA ToldTypes ==
    ASSUME NEW fr \in LoadFrames, NEW d \in Files, NEW seen \in Sights, NEW ok \in BOOLEAN
    PROVE  /\ Told(fr, d, seen, ok) \in LoadFrames
           /\ Told(fr, d, seen, ok).module = fr.module /\ Told(fr, d, seen, ok).text = fr.text
           /\ Told(fr, d, seen, ok).left \subseteq fr.left
           /\ Told(fr, d, seen, ok).seen = fr.seen \union seen
<1>1. fr.seen \union seen \in Sights
    BY DEF LoadFrames, Sights
<1>2. (fr.ok /\ ok) \in BOOLEAN
    BY DEF LoadFrames
<1> QED
    BY <1>1, <1>2 DEF Told, LoadFrames

\* Nothing that is known is forgotten while requests are only added.
Steady == UNCHANGED <<saved, overlays, documents, unseen>>
LEMMA KnownStays ==
    ASSUME Steady, \A f \in Files : sources[f] \subseteq sources'[f],
           NEW m, NEW seen \in Sights, Known(m, seen)
    PROVE  Known(m, seen)'
<1>1. ASSUME NEW sight \in seen
      PROVE  Untold(sight[1], sight[2])' /\ m \in AllRequesters({sight[1]})'
  <2>1. sight[1] \in Files
      BY DEF Sights
  <2>2. {sight[1]} \in SUBSET Files
      BY <2>1
  <2>3. AllRequesters({sight[1]}) \subseteq AllRequesters({sight[1]})'
      BY <2>2, RequestersGrow
  <2>4. Untold(sight[1], sight[2]) /\ m \in AllRequesters({sight[1]})
      BY DEF Known
  <2>5. Untold(sight[1], sight[2])'
      BY <2>4 DEF Untold, Steady, Source, Open
  <2> QED
      BY <2>3, <2>4, <2>5
<1> QED
    BY <1>1 DEF Known

\* A sight of one's own, or of something that was requested.
LEMMA KnownOne ==
    ASSUME NEW m \in Files, NEW d \in Files, m = d \/ d \in sources[m], NEW t, Untold(d, t)
    PROVE  Known(m, {<<d, t>>})
<1>1. d \in AllRequesters({d})
    BY RequestersClosed
<1>2. m \in AllRequesters({d})
    BY <1>1, RequestersOf
<1> QED
    BY <1>2 DEF Known

\* What a module knows, who requests it knows.
LEMMA KnownToAsker ==
    ASSUME NEW m \in Files, NEW d \in sources[m], NEW seen \in Sights, Known(d, seen)
    PROVE  Known(m, seen)
<1>1. ASSUME NEW sight \in seen PROVE m \in AllRequesters({sight[1]})
  <2>1. sight[1] \in Files /\ d \in AllRequesters({sight[1]})
      BY DEF Sights, Known
  <2> QED
      BY <2>1, RequestersOf
<1> QED
    BY <1>1 DEF Known

\* The same of what stands after a step.
OneKnown ==
    \A m, d \in Files : \A t :
        (m = d \/ d \in sources[m]) /\ Untold(d, t) => Known(m, {<<d, t>>})
AskerKnows ==
    \A m, d \in Files : \A seen \in Sights : d \in sources[m] /\ Known(d, seen) => Known(m, seen)
LEMMA KnownThen == OneKnown' /\ AskerKnows'
<1>1. OneKnown
    BY KnownOne DEF OneKnown
<1>2. AskerKnows
    BY KnownToAsker DEF AskerKnows
<1> QED
    BY <1>1, <1>2, PTL

-----------------------------------------------------------------------------
(* A load asks for an import.                                              *)

ServerStays == UNCHANGED <<serverVars, unseen>>

\* Asking adds a request of an import, and nothing else.
LEMMA AsksKeeps ==
    ASSUME ServerInv, NEW d \in Files, Asks(d), UNCHANGED <<documents, unseen>>
    PROVE  /\ Steady /\ Inner.module \in Files /\ loads # <<>>
           /\ sources' \in [Files -> SUBSET Files] /\ d \in sources'[Inner.module]
           /\ \A f \in Files : sources[f] \subseteq sources'[f]
           /\ TablesKnown' /\ RequestsAreImports'
           /\ \A g, t : Untold(g, t) <=> Untold(g, t)'
<1>1. Steady /\ UNCHANGED <<cache, analyses, imports>>
    BY DEF Asks, Steady
<1>2. loads # <<>> /\ d \in Inner.left
    BY DEF Asks
<1>3. ServerTypeOK
    BY DEF ServerInv
<1>4. Inner \in LoadFrames /\ Inner = loads[1] /\ 1 \in 1..Len(loads)
    BY <1>2, <1>3, StackTypes
<1>5. Inner.module \in Files
    BY <1>4 DEF LoadFrames
<1>6. sources' = [sources EXCEPT ![Inner.module] = @ \union {d}] /\ sources \in [Files -> SUBSET Files]
    BY <1>3 DEF Asks, ServerTypeOK, DatabaseTypeOK
<1>7. /\ sources' \in [Files -> SUBSET Files] /\ d \in sources'[Inner.module]
      /\ \A f \in Files : sources[f] \subseteq sources'[f]
      /\ \A f \in Files \ {Inner.module} : sources'[f] = sources[f]
      /\ sources'[Inner.module] = sources[Inner.module] \union {d}
    BY <1>5, <1>6
<1>8. TablesKnown'
  <2>1. ASSUME NEW f \in Files, cache[f] # None PROVE Known(f, cache[f])'
    <3>1. cache[f] \in Sights \/ cache[f] = None
        BY <1>3 DEF ServerTypeOK, DatabaseTypeOK
    <3>2. Known(f, cache[f])
        BY <2>1 DEF ServerInv, TablesKnown
    <3>3. \A seen : seen = cache[f] => Known(f, seen)'
        BY <1>1, <1>7, <2>1, <3>1, <3>2, KnownStays
    <3> QED
        BY <1>1, <3>3 DEF Known
  <2>2. ASSUME NEW f \in Files, analyses[f] # None PROVE Known(f, analyses[f].seen)'
    <3>1. analyses[f].seen \in Sights
        BY <1>3, <2>2 DEF ServerTypeOK, DatabaseTypeOK, Results
    <3>2. Known(f, analyses[f].seen)
        BY <2>2 DEF ServerInv, TablesKnown
    <3>3. \A seen : seen = analyses[f].seen => Known(f, seen)'
        BY <1>1, <1>7, <3>1, <3>2, KnownStays
    <3> QED
        BY <1>1, <3>3 DEF Known
  <2> QED
      BY <1>1, <2>1, <2>2 DEF TablesKnown
<1>9. \A g, t : Untold(g, t) <=> Untold(g, t)'
    BY <1>1 DEF Untold, Steady, Source, Open
<1>10. RequestsAreImports'
  <2>1. \A f \in Files : ImportsNow(f)' = ImportsNow(f)
      BY <1>1 DEF Steady, ImportsNow, Source
  <2>2. Inner.module \in unseen \/ d \in ImportsNow(Inner.module)
    <3>1. /\ <<Inner.module, Inner.text>> \in Inner.seen /\ Known(Inner.module, Inner.seen)
          /\ Inner.left \subseteq ImportsOf[<<Inner.module, Inner.text>>]
        BY <1>4 DEF ServerInv, LoadsKnown
    <3>2. Untold(Inner.module, Inner.text)
        BY <3>1 DEF Known
    <3>3. Inner.text # Missing
        BY <1>4, DatabaseAssumption DEF LoadFrames
    <3> QED
        BY <1>2, <3>1, <3>2, <3>3 DEF Untold, ImportsNow
  <2>3. \A f \in Files : f \in unseen \/ sources[f] \subseteq ImportsNow(f)
      BY DEF ServerInv, RequestsAreImports
  <2> QED
      BY <1>1, <1>5, <1>7, <2>1, <2>2, <2>3 DEF Steady, RequestsAreImports
<1> QED
    BY <1>1, <1>2, <1>5, <1>7, <1>8, <1>9, <1>10

\* If the answer is waited for, nobody is served meanwhile.
LEMMA AsksStep ==
    ASSUME ServerInv, NEW d \in Files, Asks(d), ServerStays
    PROVE  /\ Steady /\ Inner.module \in Files /\ loads # <<>>
           /\ sources' \in [Files -> SUBSET Files] /\ d \in sources'[Inner.module]
           /\ \A f \in Files : sources[f] \subseteq sources'[f]
           /\ TablesKnown' /\ RequestsAreImports' /\ ServedAgree'
           /\ \A g, t : Untold(g, t) <=> Untold(g, t)'
<1>1. UNCHANGED <<documents, unseen, published, changed, waiting>>
    BY DEF ServerStays, serverVars
<1>2. ServedAgree'
    BY <1>1 DEF ServerInv, ServedAgree, AgreesWithOpen, Open
<1> QED
    BY <1>1, <1>2, AsksKeeps

\* What the loads know they go on knowing.
LEMMA LoadsGoOn ==
    ASSUME ServerInv, NEW d \in Files, Asks(d), ServerStays, NEW i \in 1..Len(loads)
    PROVE  /\ \A m, seen : m = loads[i].module /\ seen = loads[i].seen => Known(m, seen)'
           /\ <<loads[i].module, loads[i].text>> \in loads[i].seen
           /\ loads[i].left \subseteq ImportsOf[<<loads[i].module, loads[i].text>>]
           /\ i < Len(loads) => loads[i].module \in sources'[loads[i + 1].module]
<1>1. /\ Known(loads[i].module, loads[i].seen) /\ <<loads[i].module, loads[i].text>> \in loads[i].seen
      /\ loads[i].left \subseteq ImportsOf[<<loads[i].module, loads[i].text>>]
      /\ i < Len(loads) => loads[i].module \in sources[loads[i + 1].module]
    BY DEF ServerInv, LoadsKnown
<1>2. /\ Len(loads) \in Nat /\ loads[i].seen \in Sights
      /\ i < Len(loads) => loads[i + 1].module \in Files
    BY StackTypes DEF ServerInv, LoadFrames
<1> QED
    BY <1>1, <1>2, AsksStep, KnownStays

\* An answer: the load that asked has one import less to deal with.
LEMMA AnswerStep ==
    ASSUME ServerInv, NEW d \in Files, Asks(d), ServerStays,
           NEW seen \in Sights, NEW ok \in BOOLEAN, Answered(d, seen, ok),
           \A m : m = Inner.module => Known(m, seen)'
    PROVE  /\ loads' \in Seq(LoadFrames) /\ Len(loads') = Len(loads)
           /\ \A i \in 1..Len(loads) : loads'[i].module = loads[i].module
           /\ LoadsKnown'
<1>1. ServerTypeOK /\ loads # <<>>
    BY DEF ServerInv, Asks
<1>2. /\ Len(loads) \in Nat /\ Len(loads) >= 1 /\ DOMAIN loads = 1..Len(loads) /\ Inner = loads[1]
      /\ \A i \in 1..Len(loads) : loads[i] \in LoadFrames
      /\ loads \in Seq(LoadFrames) /\ Inner \in LoadFrames
    BY <1>1, StackTypes
<1> DEFINE told == Told(loads[1], d, seen, ok)
<1>3. /\ told \in LoadFrames /\ told.module = loads[1].module /\ told.text = loads[1].text
      /\ told.left \subseteq loads[1].left /\ told.seen = loads[1].seen \union seen
    BY <1>2, ToldTypes
<1>4. loads' = [loads EXCEPT ![1] = told]
    BY DEF Answered
<1> HIDE DEF told
<1>5. loads' \in Seq(LoadFrames) /\ Len(loads') = Len(loads)
    BY <1>2, <1>3, <1>4, ExceptSeq
<1>6. loads'[1] = told /\ \A i \in 2..Len(loads) : loads'[i] = loads[i]
    BY <1>2, <1>4
<1>7. \A i \in 1..Len(loads) : loads'[i].module = loads[i].module
    BY <1>2, <1>3, <1>6
<1>8. ASSUME NEW i \in 1..Len(loads)
      PROVE  /\ Known(loads[i].module, loads[i].seen)'
             /\ <<loads'[i].module, loads'[i].text>> \in loads'[i].seen
             /\ loads'[i].left \subseteq ImportsOf[<<loads'[i].module, loads'[i].text>>]
             /\ i < Len(loads) => loads'[i].module \in sources'[loads'[i + 1].module]
  <2>1. /\ \A m, s : m = loads[i].module /\ s = loads[i].seen => Known(m, s)'
        /\ <<loads[i].module, loads[i].text>> \in loads[i].seen
        /\ loads[i].left \subseteq ImportsOf[<<loads[i].module, loads[i].text>>]
        /\ i < Len(loads) => loads[i].module \in sources'[loads[i + 1].module]
      BY LoadsGoOn
  <2>2. i < Len(loads) => loads'[i].module \in sources'[loads'[i + 1].module]
      BY <1>2, <1>7, <2>1
  <2>3. CASE i # 1
    <3>1. loads'[i] = loads[i]
        BY <1>2, <1>6, <2>3
    <3> QED
        BY <2>1, <2>2, <3>1 DEF Known
  <2>4. CASE i = 1
    <3>1. loads'[i] = told
        BY <1>6, <2>4
    <3>2. \A sight \in loads[1].seen \union seen :
              Untold(sight[1], sight[2])' /\ loads[1].module \in AllRequesters({sight[1]})'
        BY <1>2, <2>1, <2>4 DEF Known
    <3>3. Known(loads[i].module, loads[i].seen)'
        BY <1>3, <3>1, <3>2 DEF Known
    <3> QED
        BY <1>3, <2>1, <2>2, <2>4, <3>1, <3>3
  <2> QED
      BY <2>3, <2>4
<1> QED
    BY <1>5, <1>7, <1>8 DEF LoadsKnown

\* The loads under way remain the same.
LEMMA LoadingStays ==
    ASSUME ServerTypeOK, loads # <<>>, Len(loads') = Len(loads), ServerStays,
           \A i \in 1..Len(loads) : loads'[i].module = loads[i].module
    PROVE  /\ Loading' = Loading
           /\ \A i, j \in 1..(Len(loads') - 1) : loads'[i].module = loads'[j].module => i = j
           /\ Turn(loads[Len(loads)].module)'
<1>1. Len(loads) \in Nat /\ Len(loads) >= 1
    BY StackTypes
<1>2. 1..(Len(loads) - 1) \subseteq 1..Len(loads) /\ Len(loads) \in 1..Len(loads)
    BY <1>1
<1>3. Loading' = Loading
  <2>1. Loading' = {loads'[i].module : i \in 1..(Len(loads) - 1)}
      BY DEF Loading
  <2> QED
      BY <1>2, <2>1 DEF Loading
<1>4. \A i, j \in 1..(Len(loads') - 1) : loads'[i].module = loads'[j].module => i = j
    BY <1>2 DEF ServerTypeOK, DatabaseTypeOK
<1>5. Turn(loads[Len(loads)].module)
    BY DEF ServerTypeOK
<1>6. Turn(loads[Len(loads)].module)'
    BY <1>2, <1>5 DEF Turn, ServerStays, serverVars
<1> QED
    BY <1>3, <1>4, <1>6

\* Whatever the answer is, if it was found with present texts.
LEMMA AnswerKeeps ==
    ASSUME ServerInv, NEW d \in Files, Asks(d), ServerStays,
           NEW seen \in Sights, NEW ok \in BOOLEAN, Answered(d, seen, ok),
           \A m : m = Inner.module => Known(m, seen)',
           hashed' \in [Files -> SUBSET Files], provisional' \in [Files -> Texts \union {None}],
           \A f \in Files : provisional'[f] # None =>
               provisional'[f] = provisional[f] \/ (f \in Loading /\ Untold(f, provisional'[f]))
    PROVE  ServerInv'
<1>1. /\ Steady /\ sources' \in [Files -> SUBSET Files]
      /\ TablesKnown' /\ RequestsAreImports' /\ ServedAgree'
      /\ \A g, t : Untold(g, t) <=> Untold(g, t)'
    BY AsksStep
<1>2. /\ loads' \in Seq(LoadFrames) /\ Len(loads') = Len(loads) /\ LoadsKnown'
      /\ \A i \in 1..Len(loads) : loads'[i].module = loads[i].module
    BY AnswerStep
<1>3. ServerTypeOK /\ loads # <<>>
    BY DEF ServerInv, Asks
<1>4. /\ Loading' = Loading
      /\ \A i, j \in 1..(Len(loads') - 1) : loads'[i].module = loads'[j].module => i = j
      /\ Turn(loads[Len(loads)].module)'
    BY <1>2, <1>3, LoadingStays
<1>5. ServerTypeOK'
  <2>1. UNCHANGED <<saved, overlays, cache, analyses, imports, documents, published, changed, waiting, unseen>>
      BY DEF Asks, ServerStays, serverVars
  <2>2. DatabaseTypeOK'
      BY <1>1, <1>2, <1>3, <1>4, <2>1 DEF ServerTypeOK, DatabaseTypeOK
  <2> QED
      BY <1>3, <1>4, <2>1, <2>2 DEF ServerTypeOK
<1>6. ProvisionalKnown'
  <2>1. ASSUME NEW f \in Files, provisional'[f] # None
        PROVE  f \in Loading /\ Untold(f, provisional'[f])
      BY <2>1 DEF ServerInv, ProvisionalKnown
  <2>2. ASSUME NEW f \in Files, provisional'[f] # None
        PROVE  f \in Loading' /\ Untold(f, provisional[f])'
    <3>1. \A t : Untold(f, t) => Untold(f, t)'
        BY <1>1
    <3>2. \A t : t = provisional'[f] => Untold(f, t)'
        BY <2>1, <2>2, <3>1
    <3> QED
        BY <1>4, <2>1, <2>2, <3>2 DEF Untold
  <2> QED
      BY <2>2 DEF ProvisionalKnown
<1>7. LoadsNew'
    BY <1>4 DEF ServerInv, LoadsNew, Asks
<1> QED
    BY <1>1, <1>2, <1>5, <1>6, <1>7 DEF ServerInv

\* The module is not there.
LEMMA MissingStep ==
    ASSUME ServerInv, NEW d \in Files, LoadMissing(d), ServerStays PROVE ServerInv'
<1>1. /\ Asks(d) /\ Source(d) = Missing /\ Answered(d, {<<d, Missing>>}, FALSE)
      /\ UNCHANGED <<hashed, provisional>>
    BY DEF LoadMissing
<1>2. {<<d, Missing>>} \in Sights
    BY DEF Sights
<1>3. Inner.module \in Files /\ d \in sources'[Inner.module] /\ Untold(d, Missing)'
    BY <1>1, AsksStep DEF Untold
<1>4. \A m \in Files : d \in sources'[m] => Known(m, {<<d, Missing>>})'
    BY <1>3, KnownThen DEF OneKnown
<1>5. /\ hashed' \in [Files -> SUBSET Files] /\ provisional' \in [Files -> Texts \union {None}]
      /\ \A f \in Files : provisional'[f] = provisional[f]
    BY <1>1 DEF ServerInv, ServerTypeOK, DatabaseTypeOK
<1>6. \A m : m = Inner.module => Known(m, {<<d, Missing>>})'
    BY <1>3, <1>4
<1> QED
    BY <1>1, <1>2, <1>5, <1>6, AnswerKeeps

\* It is being loaded and lacks the signatures that the circle needs.
LEMMA IncompleteStep ==
    ASSUME ServerInv, NEW d \in Files, LoadIncomplete(d), ServerStays PROVE ServerInv'
<1>1. /\ Asks(d) /\ Source(d) # Missing /\ Answered(d, {<<d, Source(d)>>}, FALSE)
      /\ UNCHANGED <<hashed, provisional>>
    BY DEF LoadIncomplete
<1>2. Source(d) \in Texts
    BY <1>1, SourceTypes DEF ServerInv
<1>3. ASSUME NEW t \in Texts, t = Source(d) PROVE ServerInv'
  <2>1. {<<d, t>>} \in Sights
      BY DEF Sights
  <2>2. Inner.module \in Files /\ d \in sources'[Inner.module] /\ Untold(d, t)'
      BY <1>1, <1>3, AsksStep DEF Untold
  <2>3. \A m \in Files : d \in sources'[m] => Known(m, {<<d, t>>})'
      BY <2>2, KnownThen DEF OneKnown
  <2>4. /\ hashed' \in [Files -> SUBSET Files] /\ provisional' \in [Files -> Texts \union {None}]
        /\ \A f \in Files : provisional'[f] = provisional[f]
      BY <1>1 DEF ServerInv, ServerTypeOK, DatabaseTypeOK
  <2>5. /\ \A m : m = Inner.module => Known(m, {<<d, t>>})'
        /\ Answered(d, {<<d, t>>}, FALSE)
      BY <1>1, <1>3, <2>2, <2>3
  <2> QED
      BY <1>1, <2>1, <2>4, <2>5, AnswerKeeps
<1> QED
    BY <1>2, <1>3

\* The module is loaded already.
LEMMA CachedStep ==
    ASSUME ServerInv, NEW d \in Files, LoadCached(d), ServerStays PROVE ServerInv'
<1>1. /\ Asks(d) /\ cache[d] # None /\ Answered(d, cache[d], TRUE) /\ Records(Inner.module, d)
      /\ provisional' = provisional /\ UNCHANGED cache
    BY DEF LoadCached, Asks
<1>2. cache[d] \in Sights
    BY <1>1 DEF ServerInv, ServerTypeOK, DatabaseTypeOK
<1>3. Inner.module \in Files /\ d \in sources'[Inner.module] /\ TablesKnown'
    BY <1>1, AsksStep
<1>4. \A seen : seen = cache[d] => Known(d, seen)'
    BY <1>1, <1>3 DEF TablesKnown, Known
<1>5. \A m \in Files : d \in sources'[m] => \A seen \in Sights : seen = cache[d] => Known(m, seen)'
    BY <1>4, KnownThen DEF AskerKnows
<1>6. \A m : m = Inner.module => \A seen \in Sights : seen = cache[d] => Known(m, seen)'
    BY <1>3, <1>5
<1>7. /\ hashed' \in [Files -> SUBSET Files] /\ provisional' \in [Files -> Texts \union {None}]
      /\ \A f \in Files : provisional'[f] = provisional[f]
    BY <1>1, <1>3 DEF Records, ServerInv, ServerTypeOK, DatabaseTypeOK
<1>8. ASSUME NEW seen \in Sights, seen = cache[d] PROVE ServerInv'
  <2>1. Answered(d, seen, TRUE) /\ \A m : m = Inner.module => Known(m, seen)'
      BY <1>1, <1>6, <1>8
  <2> QED
      BY <1>1, <1>7, <2>1, AnswerKeeps
<1> QED
    BY <1>2, <1>8

\* The module is being loaded: its contracts, made from what is there now or
\* was when somebody first went round this circle.
LEMMA ProvisionalStep ==
    ASSUME ServerInv, NEW d \in Files, LoadProvisional(d), ServerStays PROVE ServerInv'
<1>1. /\ Asks(d) /\ Source(d) # Missing /\ d \in Loading
      /\ provisional' = [provisional EXCEPT ![d] = IF @ = None THEN Source(d) ELSE @]
      /\ Answered(d, {<<d, provisional'[d]>>}, TRUE) /\ Records(Inner.module, d)
    BY DEF LoadProvisional
<1>2. ServerTypeOK
    BY DEF ServerInv
<1>3. provisional \in [Files -> Texts \union {None}] /\ Source(d) \in Texts
    BY <1>1, <1>2, SourceTypes DEF ServerTypeOK, DatabaseTypeOK
<1>4. /\ provisional' \in [Files -> Texts \union {None}] /\ provisional'[d] \in Texts
      /\ \A f \in Files \ {d} : provisional'[f] = provisional[f]
    BY <1>1, <1>3
<1>5. Untold(d, provisional'[d])
  <2>1. CASE provisional[d] = None
      BY <1>1, <1>3, <2>1 DEF Untold
  <2>2. CASE provisional[d] # None
      BY <1>1, <1>3, <2>2 DEF ServerInv, ProvisionalKnown
  <2> QED
      BY <2>1, <2>2
<1>6. /\ Inner.module \in Files /\ d \in sources'[Inner.module]
      /\ \A g, t : Untold(g, t) <=> Untold(g, t)'
    BY <1>1, AsksStep
<1>7. ASSUME NEW t \in Texts, t = provisional'[d] PROVE ServerInv'
  <2>1. Untold(d, t)'
      BY <1>5, <1>6, <1>7
  <2>2. \A m \in Files : d \in sources'[m] => Known(m, {<<d, t>>})'
      BY <2>1, KnownThen DEF OneKnown
  <2>3. \A m : m = Inner.module => Known(m, {<<d, t>>})'
      BY <1>6, <2>2
  <2>4. {<<d, t>>} \in Sights /\ Answered(d, {<<d, t>>}, TRUE)
      BY <1>1, <1>7 DEF Sights, Answered
  <2>5. hashed' \in [Files -> SUBSET Files]
      BY <1>1, <1>2, <1>6 DEF Records, ServerTypeOK, DatabaseTypeOK
  <2>6. \A f \in Files : provisional'[f] # None =>
            provisional'[f] = provisional[f] \/ (f \in Loading /\ Untold(f, provisional'[f]))
      BY <1>1, <1>4, <1>5
  <2> QED
      BY <1>1, <1>4, <2>3, <2>4, <2>5, <2>6, AnswerKeeps
<1> QED
    BY <1>4, <1>7

\* The module's own load begins.
LEMMA SourceStep ==
    ASSUME ServerInv, NEW d \in Files, LoadSource(d), ServerStays PROVE ServerInv'
<1>1. /\ Asks(d) /\ Source(d) # Missing /\ d \notin Loading
      /\ loads' = <<Frame(d)>> \o loads /\ UNCHANGED <<hashed, provisional>>
    BY DEF LoadSource
<1>2. ServerTypeOK
    BY DEF ServerInv
<1>3. /\ Steady /\ sources' \in [Files -> SUBSET Files] /\ d \in sources'[Inner.module]
      /\ TablesKnown' /\ RequestsAreImports' /\ ServedAgree' /\ loads # <<>>
      /\ \A g, t : Untold(g, t) <=> Untold(g, t)'
    BY <1>1, AsksStep
<1>4. /\ Len(loads) \in Nat /\ Len(loads) >= 1 /\ Inner = loads[1] /\ loads \in Seq(LoadFrames)
      /\ \A i \in 1..Len(loads) : loads[i] \in LoadFrames
    BY <1>2, <1>3, StackTypes
<1>5. Frame(d) \in LoadFrames /\ ImportsNow(d) = ImportsOf[<<d, Source(d)>>]
    BY <1>1, <1>2, SourceTypes
<1>6. /\ loads' \in Seq(LoadFrames) /\ Len(loads') = Len(loads) + 1 /\ loads'[1] = Frame(d)
      /\ \A i \in 1..Len(loads) : loads'[i + 1] = loads[i]
  <2>1. <<Frame(d)>> \in Seq(LoadFrames) /\ Len(<<Frame(d)>>) = 1 /\ <<Frame(d)>>[1] = Frame(d)
      BY <1>5
  <2> HIDE DEF Frame
  <2> QED
      BY <1>1, <1>4, <2>1, ConcatProperties
<1>7. /\ Frame(d).module = d /\ Frame(d).text = Source(d) /\ Frame(d).left = ImportsNow(d)
      /\ Frame(d).seen = {<<d, Source(d)>>}
    BY DEF Frame
<1>8. LoadsKnown'
  <2>1. ASSUME NEW j \in 1..Len(loads')
        PROVE  /\ Known(loads[j].module, loads[j].seen)'
               /\ <<loads'[j].module, loads'[j].text>> \in loads'[j].seen
               /\ loads'[j].left \subseteq ImportsOf[<<loads'[j].module, loads'[j].text>>]
               /\ j < Len(loads') => loads'[j].module \in sources'[loads'[j + 1].module]
    <3>1. CASE j = 1
      <4>1. \A t : t = Source(d) => Known(d, {<<d, t>>})'
        <5>1. \A t : t = Source(d) => Untold(d, t)'
            BY <1>3 DEF Untold
        <5> QED
            BY <5>1, KnownThen DEF OneKnown
      <4>2. Known(loads[j].module, loads[j].seen)'
          BY <1>6, <1>7, <3>1, <4>1 DEF Known
      <4>3. loads'[1 + 1] = loads[1]
          BY <1>4, <1>6
      <4> QED
          BY <1>3, <1>4, <1>5, <1>6, <1>7, <3>1, <4>2, <4>3
    <3>2. CASE j # 1
      <4>1. PICK i \in 1..Len(loads) : j = i + 1
        <5>1. j - 1 \in 1..Len(loads) /\ j = (j - 1) + 1
            BY <1>4, <1>6, <3>2
        <5> QED
            BY <5>1
      <4>2. loads'[j] = loads[i] /\ (j < Len(loads') => i < Len(loads) /\ loads'[j + 1] = loads[i + 1])
        <5>1. loads'[j] = loads[i]
            BY <1>6, <4>1
        <5>2. ASSUME j < Len(loads') PROVE i + 1 \in 1..Len(loads) /\ i < Len(loads)
            BY <1>4, <1>6, <4>1, <5>2
        <5>3. ASSUME j < Len(loads') PROVE loads'[(i + 1) + 1] = loads[i + 1]
            BY <1>6, <5>2, <5>3
        <5> QED
            BY <4>1, <5>1, <5>2, <5>3
      <4>3. /\ \A m, seen : m = loads[i].module /\ seen = loads[i].seen => Known(m, seen)'
            /\ <<loads[i].module, loads[i].text>> \in loads[i].seen
            /\ loads[i].left \subseteq ImportsOf[<<loads[i].module, loads[i].text>>]
            /\ i < Len(loads) => loads[i].module \in sources'[loads[i + 1].module]
          BY <1>1, LoadsGoOn
      <4>4. Known(loads[j].module, loads[j].seen)'
          BY <4>2, <4>3 DEF Known
      <4> QED
          BY <4>2, <4>3, <4>4
    <3> QED
        BY <3>1, <3>2
  <2> QED
      BY <2>1 DEF LoadsKnown
<1>9. /\ \A i, j \in 1..(Len(loads') - 1) : loads'[i].module = loads'[j].module => i = j
      /\ Loading \subseteq Loading' /\ Loading' \subseteq Loading \union {d}
  <2>1. \A i \in 1..(Len(loads) - 1) : i \in 1..Len(loads) /\ loads[i].module \in Loading
      BY <1>4 DEF Loading
  <2>2. ASSUME NEW i \in 1..(Len(loads') - 1), i # 1
        PROVE  /\ i - 1 \in 1..(Len(loads) - 1) /\ loads'[i] = loads[i - 1] /\ loads[i - 1].module \in Loading
    <3>1. i - 1 \in 1..(Len(loads) - 1) /\ (i - 1) + 1 = i
        BY <1>4, <1>6, <2>2
    <3> QED
        BY <1>6, <2>1, <3>1
  <2>3. ASSUME NEW i \in 1..(Len(loads') - 1), NEW j \in 1..(Len(loads') - 1),
               loads'[i].module = loads'[j].module
        PROVE  i = j
    <3>1. CASE i # 1 /\ j # 1
      <4>1. loads[i - 1].module = loads[j - 1].module
          BY <2>2, <2>3, <3>1
      <4>2. i - 1 = j - 1
          BY <1>2, <2>2, <3>1, <4>1 DEF ServerTypeOK, DatabaseTypeOK
      <4> QED
          BY <1>4, <1>6, <4>2
    <3>2. CASE i = 1 \/ j = 1
        BY <1>1, <1>6, <1>7, <2>2, <2>3, <3>2
    <3> QED
        BY <3>1, <3>2
  <2>4. ASSUME NEW i \in 1..(Len(loads) - 1) PROVE loads[i].module \in Loading'
    <3>1. i \in 1..Len(loads) /\ i + 1 \in 1..(Len(loads') - 1)
        BY <1>4, <1>6
    <3>2. loads'[i + 1] = loads[i]
        BY <1>6, <3>1
    <3> QED
        BY <3>1, <3>2 DEF Loading
  <2>5. \A i \in 1..(Len(loads') - 1) : loads'[i].module \in Loading \union {d}
      BY <1>6, <1>7, <2>2
  <2>6. Loading' \subseteq Loading \union {d}
      BY <2>5 DEF Loading
  <2>7. Loading \subseteq Loading'
      BY <2>4 DEF Loading
  <2> QED
      BY <2>3, <2>6, <2>7
<1>10. UNCHANGED <<saved, overlays, cache, analyses, imports, documents, published, changed, waiting, unseen>>
    BY <1>1 DEF Asks, ServerStays, serverVars
<1>11. ServerTypeOK'
  <2>1. loads'[Len(loads')] = loads[Len(loads)]
      BY <1>4, <1>6
  <2>2. Turn(loads[Len(loads)].module)'
      BY <1>2, <1>3, <1>10, <2>1 DEF ServerTypeOK, Turn
  <2>3. DatabaseTypeOK'
      BY <1>1, <1>2, <1>3, <1>6, <1>9, <1>10 DEF ServerTypeOK, DatabaseTypeOK
  <2> QED
      BY <1>2, <1>10, <2>2, <2>3 DEF ServerTypeOK
<1>12. ProvisionalKnown'
    BY <1>1, <1>3, <1>9 DEF ServerInv, ProvisionalKnown
<1>13. LoadsNew'
    BY <1>1, <1>9 DEF ServerInv, LoadsNew, LoadSource, Asks
<1> QED
    BY <1>3, <1>8, <1>11, <1>12, <1>13 DEF ServerInv

-----------------------------------------------------------------------------
(* A load returns, or an analysis ends.                                    *)

\* A load returns to the one that asked for it.
LEMMA ReturnStep ==
    ASSUME ServerInv, LoadReturns, ServerStays PROVE ServerInv'
<1>1. /\ Len(loads) > 1 /\ UNCHANGED <<saved, overlays, sources, analyses, imports>>
      /\ IF Inner.ok
         THEN cache' = [cache EXCEPT ![Inner.module] = Inner.seen] /\ Records(loads[2].module, Inner.module)
         ELSE UNCHANGED <<cache, hashed>>
      /\ provisional' = [provisional EXCEPT ![Inner.module] = None]
      /\ loads' = [Tail(loads) EXCEPT ![1] = Told(@, Inner.module, Inner.seen, Inner.ok)]
    BY DEF LoadReturns
<1>2. ServerTypeOK /\ loads # <<>> /\ UNCHANGED <<documents, published, changed, waiting, unseen>>
  <2>1. Len(<<>>) = 0
      OBVIOUS
  <2> QED
      BY <1>1, <2>1 DEF ServerInv, ServerStays, serverVars
<1>3. /\ Len(loads) \in Nat /\ 1 \in 1..Len(loads) /\ 2 \in 1..Len(loads)
      /\ Inner = loads[1] /\ loads \in Seq(LoadFrames) /\ Inner \in LoadFrames
      /\ \A i \in 1..Len(loads) : loads[i] \in LoadFrames
    BY <1>1, <1>2, StackTypes
<1>4. /\ Inner.module \in Files /\ Inner.seen \in Sights /\ Inner.ok \in BOOLEAN
      /\ \A i \in 1..Len(loads) : loads[i].module \in Files /\ loads[i].seen \in Sights
    BY <1>3 DEF LoadFrames
<1> DEFINE told == Told(loads[2], Inner.module, Inner.seen, Inner.ok)
<1>5. /\ told \in LoadFrames /\ told.module = loads[2].module /\ told.text = loads[2].text
      /\ told.left \subseteq loads[2].left /\ told.seen = loads[2].seen \union Inner.seen
    BY <1>3, <1>4, ToldTypes
<1>6. /\ Tail(loads) \in Seq(LoadFrames) /\ Len(Tail(loads)) = Len(loads) - 1
      /\ \A i \in 1..(Len(loads) - 1) : Tail(loads)[i] = loads[i + 1]
    BY <1>2, <1>3, HeadTailProperties
<1>7. loads' = [Tail(loads) EXCEPT ![1] = told]
  <2>1. Tail(loads)[1] = loads[2]
      BY <1>1, <1>3, <1>6
  <2> HIDE DEF told
  <2> QED
      BY <1>1, <2>1 DEF told
<1> HIDE DEF told
<1>8. /\ loads' \in Seq(LoadFrames) /\ Len(loads') = Len(loads) - 1 /\ loads'[1] = told
      /\ \A i \in 2..(Len(loads) - 1) : loads'[i] = loads[i + 1]
  <2>1. 1 \in 1..Len(Tail(loads)) /\ DOMAIN Tail(loads) = 1..(Len(loads) - 1)
      BY <1>1, <1>3, <1>6
  <2>2. loads' \in Seq(LoadFrames) /\ Len(loads') = Len(loads) - 1
      BY <1>5, <1>6, <1>7, <2>1, ExceptSeq
  <2>3. loads'[1] = told /\ \A i \in 2..(Len(loads) - 1) : loads'[i] = Tail(loads)[i]
    <3>1. PICK rest : rest = Tail(loads)
        OBVIOUS
    <3>2. 1 \in DOMAIN rest /\ 2..(Len(loads) - 1) \subseteq DOMAIN rest \ {1}
        BY <1>1, <1>3, <1>6, <2>1, <3>1
    <3>3. loads' = [rest EXCEPT ![1] = told]
        BY <1>7, <3>1
    <3> QED
        BY <3>1, <3>2, <3>3
  <2>4. \A i \in 2..(Len(loads) - 1) : i \in 1..(Len(loads) - 1)
      OBVIOUS
  <2> QED
      BY <1>6, <2>2, <2>3, <2>4
<1>9. \A i \in 1..(Len(loads) - 1) : i + 1 \in 1..Len(loads) /\ loads'[i].module = loads[i + 1].module
  <2>1. ASSUME NEW i \in 1..(Len(loads) - 1)
        PROVE  i + 1 \in 1..Len(loads) /\ loads'[i].module = loads[i + 1].module
    <3>1. CASE i = 1
        BY <1>1, <1>3, <1>5, <1>8, <3>1
    <3>2. CASE i # 1
        BY <1>3, <1>8, <3>2
    <3> QED
        BY <3>1, <3>2
  <2> QED
      BY <2>1
<1>10. Steady /\ \A f \in Files : sources[f] \subseteq sources'[f]
    BY <1>1, <1>2 DEF Steady
<1>11. \A m, seen : seen \in Sights /\ Known(m, seen) => Known(m, seen)'
    BY <1>10, KnownStays
<1>12. /\ Known(Inner.module, Inner.seen) /\ Known(loads[2].module, loads[2].seen)
       /\ Inner.module \in sources[loads[2].module]
  <2>1. /\ Known(loads[1].module, loads[1].seen) /\ Known(loads[2].module, loads[2].seen)
        /\ 1 < Len(loads) => loads[1].module \in sources[loads[1 + 1].module]
      BY <1>3 DEF ServerInv, LoadsKnown
  <2> QED
      BY <1>1, <1>3, <2>1
<1>13. Known(loads[2].module, Inner.seen)
    BY <1>3, <1>4, <1>12, KnownToAsker
<1>14. TablesKnown'
  <2>1. ASSUME NEW f \in Files, cache'[f] # None PROVE Known(f, cache[f])'
    <3>1. CASE cache'[f] = cache[f]
      <4>1. cache[f] \in Sights /\ Known(f, cache[f])
          BY <1>2, <2>1, <3>1 DEF ServerTypeOK, DatabaseTypeOK, ServerInv, TablesKnown
      <4>2. \A seen : seen = cache[f] => Known(f, seen)'
          BY <1>11, <4>1
      <4> QED
          BY <3>1, <4>2 DEF Known
    <3>2. CASE cache'[f] # cache[f]
      <4>1. f = Inner.module /\ cache'[f] = Inner.seen
        <5>1. Inner.ok /\ cache' = [cache EXCEPT ![Inner.module] = Inner.seen]
            BY <1>1, <3>2
        <5>2. cache \in [Files -> Sights \union {None}]
            BY <1>2 DEF ServerTypeOK, DatabaseTypeOK
        <5> QED
            BY <3>2, <5>1, <5>2
      <4>2. \A seen : seen = Inner.seen => Known(f, seen)'
          BY <1>4, <1>11, <1>12, <4>1
      <4> QED
          BY <4>1, <4>2 DEF Known
    <3> QED
        BY <3>1, <3>2
  <2>2. ASSUME NEW f \in Files, analyses[f] # None PROVE Known(f, analyses[f].seen)'
    <3>1. analyses[f].seen \in Sights /\ Known(f, analyses[f].seen)
        BY <1>2, <2>2 DEF ServerTypeOK, DatabaseTypeOK, Results, ServerInv, TablesKnown
    <3>2. \A seen : seen = analyses[f].seen => Known(f, seen)'
        BY <1>11, <3>1
    <3> QED
        BY <1>1, <3>2 DEF Known
  <2> QED
      BY <1>1, <2>1, <2>2 DEF TablesKnown
<1>15. LoadsKnown'
  <2>1. ASSUME NEW i \in 1..Len(loads')
        PROVE  /\ Known(loads[i].module, loads[i].seen)'
               /\ <<loads'[i].module, loads'[i].text>> \in loads'[i].seen
               /\ loads'[i].left \subseteq ImportsOf[<<loads'[i].module, loads'[i].text>>]
               /\ i < Len(loads') => loads'[i].module \in sources'[loads'[i + 1].module]
    <3>1. i \in 1..(Len(loads) - 1) /\ i + 1 \in 1..Len(loads) /\ (i < Len(loads') => i + 1 \in 1..(Len(loads) - 1))
        BY <1>3, <1>8
    <3>2. /\ Known(loads[i + 1].module, loads[i + 1].seen)
          /\ <<loads[i + 1].module, loads[i + 1].text>> \in loads[i + 1].seen
          /\ loads[i + 1].left \subseteq ImportsOf[<<loads[i + 1].module, loads[i + 1].text>>]
          /\ i + 1 < Len(loads) => loads[i + 1].module \in sources[loads[(i + 1) + 1].module]
        BY <3>1 DEF ServerInv, LoadsKnown
    <3>3. i < Len(loads') => loads'[i].module \in sources'[loads'[i + 1].module]
        BY <1>1, <1>3, <1>8, <1>9, <3>1, <3>2
    <3>4. CASE i = 1
      <4>1. \A m, seen : m = loads[2].module /\ seen \in {loads[2].seen, Inner.seen} => Known(m, seen)'
          BY <1>3, <1>4, <1>11, <1>12, <1>13
      <4>2. \A m : m = loads[2].module =>
                \A sight \in loads[2].seen \union Inner.seen :
                    Untold(sight[1], sight[2])' /\ m \in AllRequesters({sight[1]})'
          BY <4>1 DEF Known
      <4>3. Known(loads[i].module, loads[i].seen)'
          BY <1>5, <1>8, <3>4, <4>2 DEF Known
      <4> QED
          BY <1>5, <1>8, <3>2, <3>3, <3>4, <4>3
    <3>5. CASE i # 1
      <4>1. loads'[i] = loads[i + 1]
          BY <1>3, <1>8, <3>1, <3>5
      <4>2. \A m, seen : m = loads[i + 1].module /\ seen = loads[i + 1].seen => Known(m, seen)'
          BY <1>4, <1>11, <3>1, <3>2
      <4> QED
          BY <3>2, <3>3, <4>1, <4>2 DEF Known
    <3> QED
        BY <3>4, <3>5
  <2> QED
      BY <2>1 DEF LoadsKnown
<1>16. /\ \A i, j \in 1..(Len(loads') - 1) : loads'[i].module = loads'[j].module => i = j
       /\ Loading = Loading' \union {Inner.module} /\ Inner.module \notin Loading'
  <2>1. \A i \in 1..(Len(loads') - 1) : i + 1 \in 1..(Len(loads) - 1) /\ loads'[i].module = loads[i + 1].module
      BY <1>3, <1>8, <1>9
  <2>2. \A i, j \in 1..(Len(loads) - 1) : loads[i].module = loads[j].module => i = j
      BY <1>2 DEF ServerTypeOK, DatabaseTypeOK
  <2>3. ASSUME NEW i \in 1..(Len(loads') - 1), NEW j \in 1..(Len(loads') - 1),
               loads'[i].module = loads'[j].module
        PROVE  i = j
    <3>1. i + 1 = j + 1
        BY <2>1, <2>2, <2>3
    <3> QED
        BY <3>1
  <2>4. Loading' \union {Inner.module} \subseteq Loading
    <3>1. 1 \in 1..(Len(loads) - 1)
        BY <1>1, <1>3
    <3> QED
        BY <1>3, <2>1, <3>1 DEF Loading
  <2>5. ASSUME NEW k \in 1..(Len(loads) - 1) PROVE loads[k].module \in Loading' \union {Inner.module}
    <3>1. CASE k = 1
        BY <1>3, <3>1
    <3>2. CASE k # 1
      <4>1. k - 1 \in 1..(Len(loads') - 1) /\ (k - 1) + 1 = k
          BY <1>3, <1>8, <3>2
      <4>2. loads'[k - 1].module = loads[k].module
          BY <2>1, <4>1
      <4> QED
          BY <4>1, <4>2 DEF Loading
    <3> QED
        BY <3>1, <3>2
  <2>6. Loading \subseteq Loading' \union {Inner.module}
      BY <2>5 DEF Loading
  <2>7. ASSUME NEW i \in 1..(Len(loads') - 1) PROVE loads'[i].module # Inner.module
    <3>1. i + 1 # 1 /\ 1 \in 1..(Len(loads) - 1)
        BY <1>1, <1>3
    <3> QED
        BY <1>3, <2>1, <2>2, <3>1
  <2>8. Inner.module \notin Loading'
      BY <2>7 DEF Loading
  <2> QED
      BY <2>3, <2>4, <2>6, <2>8
<1>17. ServerTypeOK'
  <2>1. loads'[Len(loads')].module = loads[Len(loads)].module
    <3>1. Len(loads) - 1 \in 1..(Len(loads) - 1) /\ (Len(loads) - 1) + 1 = Len(loads)
        BY <1>1, <1>3
    <3> QED
        BY <1>8, <1>9, <3>1
  <2>2. Turn(loads[Len(loads)].module)'
      BY <1>2, <2>1 DEF ServerTypeOK, Turn
  <2>3. hashed' \in [Files -> SUBSET Files] /\ provisional' \in [Files -> Texts \union {None}]
      BY <1>1, <1>2, <1>3, <1>4 DEF ServerTypeOK, DatabaseTypeOK, Records
  <2>4. cache' \in [Files -> Sights \union {None}]
      BY <1>1, <1>2, <1>4 DEF ServerTypeOK, DatabaseTypeOK
  <2>5. DatabaseTypeOK'
      BY <1>1, <1>2, <1>8, <1>16, <2>3, <2>4 DEF ServerTypeOK, DatabaseTypeOK
  <2> QED
      BY <1>1, <1>2, <2>2, <2>5 DEF ServerTypeOK
<1>18. ProvisionalKnown'
  <2>1. ASSUME NEW d \in Files, provisional'[d] # None
        PROVE  d \in Loading' /\ Untold(d, provisional[d])'
    <3>1. d # Inner.module /\ provisional'[d] = provisional[d]
        BY <1>1, <1>2, <2>1 DEF ServerTypeOK, DatabaseTypeOK
    <3>2. d \in Loading /\ Untold(d, provisional[d])
        BY <2>1, <3>1 DEF ServerInv, ProvisionalKnown
    <3> QED
        BY <1>1, <1>2, <1>16, <3>1, <3>2 DEF Untold, Source, Open
  <2> QED
      BY <2>1 DEF ProvisionalKnown
<1>19. RequestsAreImports' /\ ServedAgree'
    BY <1>1, <1>2 DEF ServerInv, RequestsAreImports, ImportsNow, Source, ServedAgree, AgreesWithOpen, Open
<1>20. LoadsNew'
  <2>1. ASSUME NEW d \in Loading' PROVE cache'[d] = None
    <3>1. d # Inner.module /\ cache[d] = None
        BY <1>16 DEF ServerInv, LoadsNew
    <3>2. CASE Inner.ok
      <4>1. cache' = [cache EXCEPT ![Inner.module] = Inner.seen] /\ cache \in [Files -> Sights \union {None}]
          BY <1>1, <1>2, <3>2 DEF ServerTypeOK, DatabaseTypeOK
      <4>2. d \in Files
        <5>1. d \in Loading /\ 1..(Len(loads) - 1) \subseteq 1..Len(loads)
            BY <1>3, <1>16
        <5> QED
            BY <1>4, <5>1 DEF Loading
      <4> QED
          BY <3>1, <4>1, <4>2
    <3>3. CASE ~Inner.ok
        BY <1>1, <3>1, <3>3
    <3> QED
        BY <3>2, <3>3
  <2> QED
      BY <2>1 DEF LoadsNew
<1> QED
    BY <1>14, <1>15, <1>17, <1>18, <1>19, <1>20 DEF ServerInv

\* Between analyses nothing is being loaded.
LEMMA NoLoads ==
    /\ loads = <<>> \/ Len(loads) = 1 => Loading = {}
    /\ ServerTypeOK /\ Quiet => loads = <<>>
<1>1. ASSUME loads = <<>> \/ Len(loads) = 1 PROVE Loading = {}
  <2>1. Len(loads) = 0 \/ Len(loads) = 1
      BY <1>1
  <2>2. 1..(0 - 1) = {} /\ 1..(1 - 1) = {}
      OBVIOUS
  <2>3. 1..(Len(loads) - 1) = {}
      BY <2>1, <2>2
  <2> QED
      BY <2>3 DEF Loading
<1>2. ServerTypeOK /\ Quiet => loads = <<>>
    BY DEF ServerTypeOK, Quiet, Turn
<1> QED
    BY <1>1, <1>2

\* Then all that speaks of loads holds.
LEMMA NothingLoading ==
    ASSUME loads' = <<>>, ServerInv, provisional' = provisional, loads = <<>> \/ Len(loads) = 1
    PROVE  LoadsKnown' /\ ProvisionalKnown' /\ LoadsNew'
<1>1. Len(loads') = 0
    OBVIOUS
<1>2. LoadsKnown'
    BY <1>1 DEF LoadsKnown
<1>3. \A d \in Files : provisional[d] = None
    BY NoLoads DEF ServerInv, ProvisionalKnown
<1>4. 1..(Len(loads') - 1) = {}
    BY <1>1
<1>5. Loading' = {}
    BY <1>4 DEF Loading
<1> QED
    BY <1>2, <1>3, <1>5 DEF ProvisionalKnown, LoadsNew

\* An analysis begins.
LEMMA AnalyseStep ==
    ASSUME ServerInv, NEW f \in Files, Analyse(f) PROVE ServerInv'
<1>1. /\ Turn(f) /\ loads = <<>> /\ Source(f) # Missing /\ loads' = <<Frame(f)>>
      /\ UNCHANGED <<saved, overlays, cache, sources, hashed, provisional, analyses, imports>>
      /\ UNCHANGED <<documents, published, changed, waiting, unseen>>
    BY DEF Analyse, StartAnalysis, NeedsAnalysis, loaderVars, serverVars
<1>2. ServerTypeOK
    BY DEF ServerInv
<1>3. Frame(f) \in LoadFrames /\ ImportsNow(f) = ImportsOf[<<f, Source(f)>>]
    BY <1>1, <1>2, SourceTypes
<1>4. /\ Frame(f).module = f /\ Frame(f).text = Source(f) /\ Frame(f).left = ImportsNow(f)
      /\ Frame(f).seen = {<<f, Source(f)>>}
    BY DEF Frame
<1>5. Len(loads') = 1 /\ loads'[1] = Frame(f) /\ loads' \in Seq(LoadFrames)
  <2> HIDE DEF Frame
  <2> QED
      BY <1>1, <1>3
<1>6. 1..(Len(loads') - 1) = {} /\ 1..Len(loads') = {1}
    BY <1>5
<1>7. LoadsKnown'
  <2>1. Known(loads[1].module, loads[1].seen)'
    <3>1. \A t : t = Source(f) => Known(f, {<<f, t>>})'
      <4>1. \A t : t = Source(f) => Untold(f, t)'
          BY <1>1 DEF Untold, Source
      <4> QED
          BY <4>1, KnownThen DEF OneKnown
    <3> QED
        BY <1>4, <1>5, <3>1 DEF Known
  <2> QED
      BY <1>3, <1>4, <1>5, <1>6, <2>1 DEF LoadsKnown
<1>8. \A d \in Files : provisional[d] = None
    BY <1>1, NoLoads DEF ServerInv, ProvisionalKnown
<1>9. Loading' = {}
    BY <1>6 DEF Loading
<1>10. ProvisionalKnown' /\ LoadsNew'
    BY <1>1, <1>8, <1>9 DEF ProvisionalKnown, LoadsNew
<1>11. ServerTypeOK'
  <2>1. DatabaseTypeOK'
      BY <1>1, <1>2, <1>5, <1>6 DEF ServerTypeOK, DatabaseTypeOK
  <2>2. Turn(loads[Len(loads)].module)'
      BY <1>1, <1>4, <1>5 DEF Turn
  <2> QED
      BY <1>1, <1>2, <2>1, <2>2 DEF ServerTypeOK
<1>12. TablesKnown' /\ RequestsAreImports' /\ ServedAgree'
  <2>1. \A S : AllRequesters(S)' = AllRequesters(S)
      BY <1>1 DEF AllRequesters, Closure, Requesters
  <2> QED
      BY <1>1, <2>1 DEF ServerInv, TablesKnown, Known, Untold, Source, Open, RequestsAreImports, ImportsNow,
         ServedAgree, AgreesWithOpen
<1> QED
    BY <1>7, <1>10, <1>11, <1>12 DEF ServerInv

\* Who is served is served with what is open.
LEMMA PublishStep ==
    ASSUME ServerInv, NEW f \in Files, Turn(f), NEW result \in Results, Publishes(f, result),
           UNCHANGED <<saved, overlays>>,
           \A sight \in result.seen : Untold(sight[1], sight[2])
    PROVE  /\ ServedAgree' /\ published' \in [Files -> Results \union {None}]
           /\ changed' \in Files \union {None} /\ waiting' \subseteq Files
           /\ changed' # None => changed' \notin waiting'
           /\ UNCHANGED <<documents, unseen>>
<1>1. /\ published' = [published EXCEPT ![f] = result] /\ UNCHANGED <<documents, unseen>>
      /\ IF changed # None THEN changed' = None /\ waiting' = waiting
                           ELSE waiting' = waiting \ {f} /\ changed' = changed
    BY DEF Publishes
<1>2. /\ published \in [Files -> Results \union {None}] /\ documents = overlays
      /\ changed \in Files \union {None} /\ waiting \subseteq Files
    BY DEF ServerInv, ServerTypeOK
<1>3. published' \in [Files -> Results \union {None}] /\ published'[f] = result
    BY <1>1, <1>2
<1>4. ASSUME NEW g \in Files, documents[g] # None, g # changed', g \notin waiting',
             NEW sight \in published'[g].seen, documents[sight[1]] # None
      PROVE  sight[2] = documents[sight[1]]
  <2>1. CASE g = f
    <3>1. Untold(sight[1], sight[2])
        BY <1>3, <1>4, <2>1
    <3> QED
        BY <1>2, <1>4, <3>1 DEF Untold, Open, Source
  <2>2. CASE g # f
    <3>1. published'[g] = published[g]
        BY <1>1, <1>2, <2>2
    <3>2. g # changed /\ g \notin waiting
        BY <1>1, <1>4, <2>2, DatabaseAssumption DEF Turn
    <3> QED
        BY <1>4, <3>1, <3>2 DEF ServerInv, ServedAgree, AgreesWithOpen, Open
  <2> QED
      BY <2>1, <2>2
<1>5. ServedAgree'
    BY <1>1, <1>4 DEF ServedAgree, AgreesWithOpen, Open
<1> QED
    BY <1>1, <1>2, <1>3, <1>5

\* What the tables hold, all of it is present or was changed unnoticed.
LEMMA PublishCached ==
    ASSUME ServerInv, NEW f \in Files, AnalyseCached(f) PROVE ServerInv'
<1>1. /\ loads = <<>> /\ Turn(f) /\ analyses[f] # None /\ Publishes(f, analyses[f])
      /\ UNCHANGED <<saved, overlays, cache, sources, hashed, provisional, analyses, imports, loads>>
    BY DEF AnalyseCached, IsCached, dbVars, databaseVars, loaderVars
<1>2. analyses[f] \in Results
    BY <1>1 DEF ServerInv, ServerTypeOK, DatabaseTypeOK
<1>3. \A sight \in analyses[f].seen : Untold(sight[1], sight[2])
    BY <1>1 DEF ServerInv, TablesKnown, Known
<1>4. /\ ServedAgree' /\ published' \in [Files -> Results \union {None}]
      /\ changed' \in Files \union {None} /\ waiting' \subseteq Files
      /\ changed' # None => changed' \notin waiting'
      /\ UNCHANGED <<documents, unseen>>
    BY <1>1, <1>2, <1>3, PublishStep
<1>5. ServerTypeOK'
  <2>1. DatabaseTypeOK'
      BY <1>1 DEF ServerInv, ServerTypeOK, DatabaseTypeOK
  <2> QED
      BY <1>1, <1>4, <2>1 DEF ServerInv, ServerTypeOK
<1>6. LoadsKnown' /\ ProvisionalKnown' /\ LoadsNew'
    BY <1>1, NothingLoading
<1>7. TablesKnown' /\ RequestsAreImports'
  <2>1. \A S : AllRequesters(S)' = AllRequesters(S)
      BY <1>1 DEF AllRequesters, Closure, Requesters
  <2> QED
      BY <1>1, <1>4, <2>1 DEF ServerInv, TablesKnown, Known, Untold, Source, Open, RequestsAreImports, ImportsNow
<1> QED
    BY <1>4, <1>5, <1>6, <1>7 DEF ServerInv

\* An analysis ends, and what it found is published.
LEMMA AnalysedStep ==
    ASSUME ServerInv, AnalysisReturns PROVE ServerInv'
<1>1. /\ Len(loads) = 1 /\ loads' = <<>> /\ Publishes(Inner.module, analyses'[Inner.module])
      /\ analyses' = [analyses EXCEPT ![Inner.module] = [text |-> Inner.text, seen |-> Inner.seen]]
      /\ imports' = [imports EXCEPT ![Inner.module] = hashed[Inner.module]]
      /\ UNCHANGED <<saved, overlays, cache, sources, hashed, provisional>>
    BY DEF AnalysisReturns, EndAnalysis, loaderVars
<1>2. loads # <<>>
  <2>1. Len(<<>>) = 0
      OBVIOUS
  <2> QED
      BY <1>1, <2>1
<1>3. Inner = loads[1] /\ Inner \in LoadFrames /\ 1 \in 1..Len(loads)
    BY <1>1, <1>2, StackTypes DEF ServerInv
<1>4. Inner.module \in Files /\ [text |-> Inner.text, seen |-> Inner.seen] \in Results
    BY <1>3 DEF LoadFrames, Results
<1>5. Turn(Inner.module) /\ Known(Inner.module, Inner.seen)
    BY <1>1, <1>2, <1>3 DEF ServerInv, ServerTypeOK, LoadsKnown
<1>6. /\ analyses'[Inner.module] = [text |-> Inner.text, seen |-> Inner.seen]
      /\ analyses' \in [Files -> Results \union {None}] /\ imports' \in [Files -> SUBSET Files]
      /\ \A f \in Files \ {Inner.module} : analyses'[f] = analyses[f]
      /\ analyses'[Inner.module].seen = Inner.seen
    BY <1>1, <1>4 DEF ServerInv, ServerTypeOK, DatabaseTypeOK
<1>7. \A seen : seen = analyses'[Inner.module].seen => \A sight \in seen : Untold(sight[1], sight[2])
    BY <1>5, <1>6 DEF Known
<1>8. /\ ServedAgree' /\ published' \in [Files -> Results \union {None}]
      /\ changed' \in Files \union {None} /\ waiting' \subseteq Files
      /\ changed' # None => changed' \notin waiting'
      /\ UNCHANGED <<documents, unseen>>
  <2>1. analyses'[Inner.module] \in Results
      BY <1>4, <1>6
  <2>2. ASSUME NEW f \in Files, f = Inner.module, NEW result \in Results, result = analyses'[f]
        PROVE  /\ Turn(f) /\ Publishes(f, result)
               /\ \A sight \in result.seen : Untold(sight[1], sight[2])
      BY <1>1, <1>5, <1>7, <2>2 DEF Publishes
  <2> QED
      BY <1>1, <1>4, <2>1, <2>2, PublishStep
<1>9. LoadsKnown' /\ ProvisionalKnown' /\ LoadsNew'
    BY <1>1, NothingLoading
<1>10. ServerTypeOK'
  <2>1. Len(loads') = 0 /\ 1..(0 - 1) = {} /\ loads' \in Seq(LoadFrames)
      BY <1>1
  <2>2. DatabaseTypeOK'
      BY <1>1, <1>6, <2>1 DEF ServerInv, ServerTypeOK, DatabaseTypeOK
  <2> QED
      BY <1>1, <1>8, <2>2 DEF ServerInv, ServerTypeOK
<1>11. TablesKnown' /\ RequestsAreImports'
  <2>1. \A S : AllRequesters(S)' = AllRequesters(S)
      BY <1>1 DEF AllRequesters, Closure, Requesters
  <2>2. \A m, seen : Known(m, seen) => Known(m, seen)'
      BY <1>1, <1>8, <2>1 DEF Known, Untold, Source, Open
  <2>3. ASSUME NEW f \in Files, analyses'[f] # None PROVE Known(f, analyses[f].seen)'
    <3>1. CASE f = Inner.module
      <4>1. \A m, seen : m = Inner.module /\ seen = Inner.seen => Known(m, seen)'
          BY <1>5, <2>2
      <4> QED
          BY <1>6, <3>1, <4>1 DEF Known
    <3>2. CASE f # Inner.module
      <4>1. analyses'[f] = analyses[f] /\ Known(f, analyses[f].seen)
          BY <1>6, <2>3, <3>2 DEF ServerInv, TablesKnown
      <4>2. \A seen : seen = analyses[f].seen => Known(f, seen)'
          BY <2>2, <4>1
      <4> QED
          BY <4>1, <4>2 DEF Known
    <3> QED
        BY <3>1, <3>2
  <2>4. ASSUME NEW f \in Files, cache'[f] # None PROVE Known(f, cache[f])'
    <3>1. \A seen : seen = cache[f] => Known(f, seen)'
        BY <1>1, <2>2, <2>4 DEF ServerInv, TablesKnown
    <3> QED
        BY <1>1, <3>1 DEF Known
  <2>5. RequestsAreImports'
      BY <1>1, <1>8 DEF ServerInv, RequestsAreImports, ImportsNow, Source
  <2> QED
      BY <2>3, <2>4, <2>5 DEF TablesKnown
<1> QED
    BY <1>8, <1>9, <1>10, <1>11 DEF ServerInv

\* The document itself does not parse.
LEMMA UnparsableStep ==
    ASSUME ServerInv, NEW f \in Files, AnalyseUnparsable(f) PROVE ServerInv'
<1>1. /\ loads = <<>> /\ Turn(f) /\ Source(f) # Missing
      /\ Publishes(f, [text |-> Source(f), seen |-> {<<f, Source(f)>>}])
      /\ UNCHANGED <<saved, overlays, cache, sources, hashed, provisional, analyses, imports, loads>>
    BY DEF AnalyseUnparsable, NeedsAnalysis, dbVars, databaseVars, loaderVars
<1>2. Source(f) \in Texts
    BY <1>1, SourceTypes DEF ServerInv
<1>3. [text |-> Source(f), seen |-> {<<f, Source(f)>>}] \in Results
    BY <1>2 DEF Results, Sights
<1>4. ASSUME NEW sight \in {<<f, Source(f)>>} PROVE Untold(sight[1], sight[2])
    BY <1>4 DEF Untold
<1>5. /\ ServedAgree' /\ published' \in [Files -> Results \union {None}]
      /\ changed' \in Files \union {None} /\ waiting' \subseteq Files
      /\ changed' # None => changed' \notin waiting'
      /\ UNCHANGED <<documents, unseen>>
    BY <1>1, <1>3, <1>4, PublishStep
<1>6. ServerTypeOK'
  <2>1. DatabaseTypeOK'
      BY <1>1 DEF ServerInv, ServerTypeOK, DatabaseTypeOK
  <2> QED
      BY <1>1, <1>5, <2>1 DEF ServerInv, ServerTypeOK
<1>7. LoadsKnown' /\ ProvisionalKnown' /\ LoadsNew'
    BY <1>1, NothingLoading
<1>8. TablesKnown' /\ RequestsAreImports'
  <2>1. \A S : AllRequesters(S)' = AllRequesters(S)
      BY <1>1 DEF AllRequesters, Closure, Requesters
  <2> QED
      BY <1>1, <1>5, <2>1 DEF ServerInv, TablesKnown, Known, Untold, Source, Open, RequestsAreImports, ImportsNow
<1> QED
    BY <1>5, <1>6, <1>7, <1>8 DEF ServerInv

\* An import does not parse: the analysis and all loads are given up.
LEMMA RaiseStep ==
    ASSUME ServerInv, NEW d \in Files, AnalysisRaises(d) PROVE ServerInv'
<1> DEFINE seen == (UNION {loads[i].seen : i \in 1..Len(loads)}) \union {<<d, Source(d)>>}
           outer == loads[Len(loads)]
           result == [text |-> outer.text, seen |-> seen]
<1>1. /\ Asks(d) /\ Source(d) # Missing /\ loads' = <<>> /\ provisional' = Unknown
      /\ hashed' = hashed /\ Publishes(outer.module, result) /\ UNCHANGED <<documents, unseen>>
    BY DEF AnalysisRaises, LoadRaises, Publishes
<1>2. /\ Steady /\ loads # <<>> /\ sources' \in [Files -> SUBSET Files]
      /\ TablesKnown' /\ RequestsAreImports'
      /\ UNCHANGED <<saved, overlays, cache, analyses, imports>>
    BY <1>1, AsksKeeps DEF Asks
<1>3. /\ Len(loads) \in 1..Len(loads) /\ Turn(outer.module) /\ outer \in LoadFrames
      /\ \A i \in 1..Len(loads) : loads[i] \in LoadFrames
    BY <1>2, StackTypes DEF ServerInv, ServerTypeOK
<1>4. outer.module \in Files /\ outer.text \in Texts
    BY <1>3 DEF LoadFrames
<1>5. Source(d) \in Texts
    BY <1>1, SourceTypes DEF ServerInv
<1>6. seen \in Sights
  <2>1. \A i \in 1..Len(loads) : loads[i].seen \subseteq Files \X (Texts \union {Missing})
      BY <1>3 DEF LoadFrames, Sights
  <2> QED
      BY <1>5, <2>1 DEF Sights
<1>7. ASSUME NEW sight \in seen PROVE Untold(sight[1], sight[2])
  <2>1. CASE sight = <<d, Source(d)>>
      BY <2>1 DEF Untold
  <2>2. CASE \E i \in 1..Len(loads) : sight \in loads[i].seen
      BY <2>2 DEF ServerInv, LoadsKnown, Known
  <2> QED
      BY <1>7, <2>1, <2>2
<1>8. result \in Results /\ result.seen = seen
    BY <1>4, <1>6 DEF Results
<1> HIDE DEF seen, result, outer
<1>9. /\ ServedAgree' /\ published' \in [Files -> Results \union {None}]
      /\ changed' \in Files \union {None} /\ waiting' \subseteq Files
      /\ changed' # None => changed' \notin waiting'
      /\ UNCHANGED <<documents, unseen>>
    BY <1>1, <1>2, <1>3, <1>4, <1>7, <1>8, PublishStep
<1>10. Len(loads') = 0 /\ 1..(0 - 1) = {} /\ 1..0 = {} /\ loads' \in Seq(LoadFrames)
    BY <1>1
<1>11. LoadsKnown' /\ ProvisionalKnown' /\ LoadsNew'
  <2>1. Loading' = {}
      BY <1>10 DEF Loading
  <2> QED
      BY <1>1, <1>10, <2>1 DEF LoadsKnown, ProvisionalKnown, LoadsNew, Unknown
<1>12. ServerTypeOK'
  <2>1. DatabaseTypeOK'
      BY <1>1, <1>2, <1>10 DEF ServerInv, ServerTypeOK, DatabaseTypeOK, Unknown
  <2> QED
      BY <1>1, <1>2, <1>9, <2>1 DEF ServerInv, ServerTypeOK
<1> QED
    BY <1>2, <1>9, <1>11, <1>12 DEF ServerInv

-----------------------------------------------------------------------------
(* Documents and files change.                                             *)

\* What is dropped is enough: who is kept has seen nothing of what changed.
LEMMA OverlayStep ==
    ASSUME ServerInv, NEW h \in Files, NEW new \in Texts \union {None}, SetOverlay(h, new),
           documents' = [documents EXCEPT ![h] = new], unseen' = unseen \ {h}
    PROVE  /\ TablesKnown' /\ LoadsKnown' /\ ProvisionalKnown' /\ LoadsNew' /\ RequestsAreImports'
           /\ DatabaseTypeOK' /\ documents' = overlays' /\ loads' = <<>>
<1> DEFINE dropped == AllRequesters({h})
           affected == Affected({h})
<1>1. /\ loads = <<>> /\ loads' = <<>> /\ overlays' = [overlays EXCEPT ![h] = new]
      /\ UNCHANGED <<saved, provisional, imports>>
      /\ cache' = [f \in Files |-> IF f \in dropped THEN None ELSE cache[f]]
      /\ sources' = [f \in Files |-> IF f \in dropped THEN {} ELSE sources[f]]
      /\ hashed' = [f \in Files |-> IF f \in dropped THEN {} ELSE hashed[f]]
      /\ analyses' = [f \in Files |-> IF f \in affected THEN None ELSE analyses[f]]
    BY DEF SetOverlay, Invalidate
<1>2. ServerTypeOK
    BY DEF ServerInv
<1>3. h \in dropped /\ dropped \subseteq Files /\ dropped \subseteq affected
  <2>1. h \in dropped /\ dropped \subseteq Files
      BY RequestersClosed
  <2>2. dropped \subseteq affected
      BY <2>1 DEF Affected, Closure
  <2> QED
      BY <2>1, <2>2
<1>4. documents' = overlays' /\ documents = overlays /\ overlays \in [Files -> Texts \union {None}]
    BY <1>1, <1>2 DEF ServerTypeOK, DatabaseTypeOK
<1>5. ASSUME NEW f \in Files \ dropped, NEW seen \in Sights, Known(f, seen) PROVE Known(f, seen)'
  <2>1. ASSUME NEW sight \in seen
        PROVE  Untold(sight[1], sight[2])' /\ f \in AllRequesters({sight[1]})'
    <3>1. sight[1] \in Files /\ f \in AllRequesters({sight[1]}) /\ Untold(sight[1], sight[2])
        BY <1>5 DEF Sights, Known
    <3>2. sight[1] # h
        BY <3>1
    <3>3. f \in AllRequesters({sight[1]})'
        BY <1>1, <1>5, <3>1, RequestersStay
    <3>4. overlays'[sight[1]] = overlays[sight[1]] /\ documents'[sight[1]] = documents[sight[1]]
        BY <1>1, <1>4, <3>1, <3>2
    <3> QED
        BY <1>1, <3>1, <3>2, <3>3, <3>4 DEF Untold, Source, Open
  <2> QED
      BY <2>1 DEF Known
<1>6. TablesKnown'
  <2>1. ASSUME NEW f \in Files, cache'[f] # None PROVE Known(f, cache[f])'
    <3>1. f \notin dropped /\ cache'[f] = cache[f] /\ cache[f] # None
        BY <1>1, <2>1
    <3>2. cache[f] \in Sights /\ Known(f, cache[f])
        BY <1>2, <3>1 DEF ServerTypeOK, DatabaseTypeOK, ServerInv, TablesKnown
    <3>3. \A seen : seen = cache[f] => Known(f, seen)'
        BY <1>5, <3>1, <3>2
    <3> QED
        BY <3>1, <3>3 DEF Known
  <2>2. ASSUME NEW f \in Files, analyses'[f] # None PROVE Known(f, analyses[f].seen)'
    <3>1. f \notin affected /\ analyses'[f] = analyses[f] /\ analyses[f] # None
        BY <1>1, <2>2
    <3>2. analyses[f].seen \in Sights /\ Known(f, analyses[f].seen)
        BY <1>2, <3>1 DEF ServerTypeOK, DatabaseTypeOK, Results, ServerInv, TablesKnown
    <3>3. \A seen : seen = analyses[f].seen => Known(f, seen)'
        BY <1>3, <1>5, <3>1, <3>2
    <3> QED
        BY <3>1, <3>3 DEF Known
  <2> QED
      BY <2>1, <2>2 DEF TablesKnown
<1>7. LoadsKnown' /\ ProvisionalKnown' /\ LoadsNew'
    BY <1>1, NothingLoading
<1>8. RequestsAreImports'
  <2>1. ASSUME NEW f \in Files PROVE f \in unseen' \/ sources'[f] \subseteq ImportsNow(f)'
    <3>1. CASE f \in dropped
        BY <1>1, <3>1
    <3>2. CASE f \notin dropped
      <4>1. f # h /\ sources'[f] = sources[f] /\ overlays'[f] = overlays[f]
          BY <1>1, <1>3, <1>4, <3>2
      <4>2. ImportsNow(f)' = ImportsNow(f)
          BY <1>1, <4>1 DEF ImportsNow, Source
      <4> QED
          BY <4>1, <4>2 DEF ServerInv, RequestsAreImports
    <3> QED
        BY <3>1, <3>2
  <2> QED
      BY <2>1 DEF RequestsAreImports
<1>9. DatabaseTypeOK'
  <2>1. Len(loads') = 0 /\ 1..(0 - 1) = {} /\ loads' \in Seq(LoadFrames)
      BY <1>1
  <2>2. /\ cache' \in [Files -> Sights \union {None}] /\ analyses' \in [Files -> Results \union {None}]
        /\ sources' \in [Files -> SUBSET Files] /\ hashed' \in [Files -> SUBSET Files]
        /\ overlays' \in [Files -> Texts \union {None}]
      BY <1>1, <1>2 DEF ServerTypeOK, DatabaseTypeOK
  <2> QED
      BY <1>1, <1>2, <2>1, <2>2 DEF ServerTypeOK, DatabaseTypeOK
<1> QED
    BY <1>1, <1>4, <1>6, <1>7, <1>8, <1>9

\* A document is opened or changed.
LEMMA ChangeStep ==
    ASSUME ServerInv, NEW f \in Files, NEW new \in Texts, DidChange(f, new) PROVE ServerInv'
<1>1. /\ Quiet /\ documents' = [documents EXCEPT ![f] = new] /\ changed' = f /\ waiting' = OtherOpen(f)
      /\ UNCHANGED published
    BY DEF DidChange
<1>2. ServerTypeOK /\ loads = <<>> /\ documents = overlays /\ overlays \in [Files -> Texts \union {None}]
    BY <1>1, NoLoads DEF ServerInv, ServerTypeOK, DatabaseTypeOK
<1>3. /\ TablesKnown' /\ LoadsKnown' /\ ProvisionalKnown' /\ LoadsNew' /\ RequestsAreImports'
      /\ DatabaseTypeOK' /\ documents' = overlays' /\ loads' = <<>> /\ unseen' \subseteq Files
  <2>1. CASE overlays[f] = new
    <3>1. UNCHANGED <<saved, overlays, cache, sources, hashed, provisional, analyses, imports, loads, unseen>>
        BY <2>1 DEF DidChange, dbVars, databaseVars, loaderVars
    <3>2. documents' = documents
        BY <1>1, <1>2, <2>1
    <3>3. LoadsKnown' /\ ProvisionalKnown' /\ LoadsNew'
        BY <1>2, <3>1, NothingLoading
    <3>4. DatabaseTypeOK' /\ unseen' \subseteq Files
        BY <1>2, <3>1 DEF ServerTypeOK, DatabaseTypeOK
    <3>5. \A S : AllRequesters(S)' = AllRequesters(S)
        BY <3>1 DEF AllRequesters, Closure, Requesters
    <3>6. TablesKnown' /\ RequestsAreImports'
        BY <3>1, <3>2, <3>5 DEF ServerInv, TablesKnown, Known, Untold, Source, Open, RequestsAreImports, ImportsNow
    <3> QED
        BY <1>2, <3>1, <3>2, <3>3, <3>4, <3>6
  <2>2. CASE overlays[f] # new
    <3>1. SetOverlay(f, new) /\ unseen' = unseen \ {f}
        BY <2>2 DEF DidChange
    <3>2. unseen' \subseteq Files
        BY <1>2, <3>1 DEF ServerTypeOK
    <3> QED
        BY <1>1, <3>1, <3>2, OverlayStep
  <2> QED
      BY <2>1, <2>2
<1>4. ServedAgree'
  <2>1. ASSUME NEW g \in Files, documents'[g] # None, g # f PROVE g \in OtherOpen(f)
      BY <1>1, <1>2, <2>1 DEF OtherOpen, Open
  <2> QED
      BY <1>1, <2>1 DEF ServedAgree, Open
<1>5. ServerTypeOK'
    BY <1>1, <1>2, <1>3 DEF ServerTypeOK, OtherOpen
<1> QED
    BY <1>3, <1>4, <1>5 DEF ServerInv

\* A document is closed.
LEMMA CloseStep ==
    ASSUME ServerInv, NEW f \in Files, DidClose(f) PROVE ServerInv'
<1>1. /\ documents' = [documents EXCEPT ![f] = None] /\ SetOverlay(f, None)
      /\ published' = [published EXCEPT ![f] = None] /\ unseen' = unseen \ {f}
      /\ UNCHANGED <<changed, waiting>>
    BY DEF DidClose, CloseDocument
<1>2. ServerTypeOK
    BY DEF ServerInv
<1>3. /\ TablesKnown' /\ LoadsKnown' /\ ProvisionalKnown' /\ LoadsNew' /\ RequestsAreImports'
      /\ DatabaseTypeOK' /\ documents' = overlays' /\ loads' = <<>>
    BY <1>1, OverlayStep
<1>4. ServerTypeOK'
    BY <1>1, <1>2, <1>3 DEF ServerTypeOK
<1>5. ServedAgree'
  <2>1. \A g \in Files : documents'[g] # None => g # f /\ documents'[g] = documents[g] /\ published'[g] = published[g]
      BY <1>1, <1>2 DEF ServerTypeOK, DatabaseTypeOK
  <2>2. ASSUME NEW g \in Files, documents'[g] # None, g # changed', g \notin waiting',
               NEW sight \in published'[g].seen, documents'[sight[1]] # None
        PROVE  sight[2] = documents'[sight[1]]
    <3>1. documents'[sight[1]] = documents[sight[1]]
      <4>1. sight[1] \in Files \/ sight[1] \notin Files
          OBVIOUS
      <4> QED
          BY <1>1, <2>1, <2>2
    <3> QED
        BY <1>1, <2>1, <2>2, <3>1 DEF ServerInv, ServedAgree, AgreesWithOpen, Open
  <2> QED
      BY <2>2 DEF ServedAgree, AgreesWithOpen, Open
<1> QED
    BY <1>3, <1>4, <1>5 DEF ServerInv

\* Another program writes a file.
LEMMA FileStep ==
    ASSUME ServerInv, NEW h \in Files, NEW new \in Texts \union {Missing}, FileChanges(h, new)
    PROVE  ServerInv'
<1>1. /\ saved' = [saved EXCEPT ![h] = new] /\ unseen' = unseen \union {h}
      /\ UNCHANGED <<overlays, cache, sources, hashed, provisional, analyses, imports, loads>>
      /\ UNCHANGED <<documents, published, changed, waiting>>
    BY DEF FileChanges, DiskChange, databaseVars, loaderVars, serverVars
<1>2. ServerTypeOK
    BY DEF ServerInv
<1>3. \A S : AllRequesters(S)' = AllRequesters(S)
    BY <1>1 DEF AllRequesters, Closure, Requesters
<1>4. ASSUME NEW g, NEW t, Untold(g, t) PROVE Untold(g, t)'
  <2>1. CASE g = h
    <3>1. CASE documents[h] # None
        BY <1>1, <1>2, <1>4, <2>1, <3>1 DEF Untold, Source, Open, ServerTypeOK
    <3>2. CASE documents[h] = None
        BY <1>1, <2>1, <3>2 DEF Untold, Open
    <3> QED
        BY <3>1, <3>2
  <2>2. CASE g # h
    <3>1. saved'[g] = saved[g] \/ g \notin Files
        BY <1>1, <1>2, <2>2 DEF ServerTypeOK, DatabaseTypeOK
    <3>2. saved'[g] = saved[g]
        BY <1>1, <1>2, <2>2, <3>1 DEF ServerTypeOK, DatabaseTypeOK
    <3> QED
        BY <1>1, <1>4, <3>2 DEF Untold, Source, Open
  <2> QED
      BY <2>1, <2>2
<1>5. \A m, seen : Known(m, seen) => Known(m, seen)'
    BY <1>3, <1>4 DEF Known
<1>6. TablesKnown' /\ LoadsKnown' /\ ProvisionalKnown' /\ LoadsNew'
  <2>1. \A d \in Files : \A t : Untold(d, t) => Untold(d, t)'
      BY <1>4
  <2> QED
      BY <1>1, <1>5, <2>1 DEF ServerInv, TablesKnown, LoadsKnown, ProvisionalKnown, LoadsNew, Loading
<1>7. RequestsAreImports'
  <2>1. \A f \in Files : f # h => ImportsNow(f)' = ImportsNow(f)
      BY <1>1, <1>2 DEF ImportsNow, Source, ServerTypeOK, DatabaseTypeOK
  <2> QED
      BY <1>1, <2>1 DEF ServerInv, RequestsAreImports
<1>8. ServedAgree'
    BY <1>1 DEF ServerInv, ServedAgree, AgreesWithOpen, Open
<1>9. ServerTypeOK'
    BY <1>1, <1>2 DEF ServerTypeOK, DatabaseTypeOK, Turn
<1> QED
    BY <1>6, <1>7, <1>8, <1>9 DEF ServerInv

-----------------------------------------------------------------------------
(* The theorems.                                                           *)

\* At the start nothing is open, cached or under way.
LEMMA ServerStarts == ASSUME ServerInit PROVE ServerInv
<1>1. /\ saved \in [Files -> Texts \union {Missing}] /\ loads = <<>>
      /\ overlays = Unknown /\ cache = Unknown /\ sources = NoFiles /\ hashed = NoFiles
      /\ provisional = Unknown /\ analyses = Unknown /\ imports = NoFiles
      /\ documents = Unknown /\ published = Unknown /\ changed = None /\ waiting = {} /\ unseen = {}
    BY DEF ServerInit, DatabaseInit
<1>2. Len(loads) = 0 /\ 1..(0 - 1) = {} /\ 1..0 = {} /\ loads \in Seq(LoadFrames)
    BY <1>1
<1>3. Loading = {}
    BY <1>1, NoLoads
<1>4. ServerTypeOK
  <2>1. DatabaseTypeOK
      BY <1>1, <1>2 DEF DatabaseTypeOK, Unknown, NoFiles
  <2> QED
      BY <1>1, <2>1 DEF ServerTypeOK, Unknown
<1>5. TablesKnown /\ LoadsKnown /\ ProvisionalKnown /\ LoadsNew /\ RequestsAreImports
    BY <1>1, <1>2, <1>3 DEF TablesKnown, LoadsKnown, ProvisionalKnown, LoadsNew, RequestsAreImports,
       Unknown, NoFiles
<1>6. ServedAgree
    BY <1>1 DEF ServedAgree, Open, Unknown
<1> QED
    BY <1>4, <1>5, <1>6 DEF ServerInv

\* Every step preserves the invariant.
LEMMA ServerSteps == ASSUME ServerInv, [ServerNext]_allVars PROVE ServerInv'
<1>1. CASE Load
    BY <1>1, MissingStep, CachedStep, ProvisionalStep, IncompleteStep, SourceStep, ReturnStep
    DEF Load, LoadStep, ServerStays
<1>2. CASE AnalysisReturns
    BY <1>2, AnalysedStep
<1>3. CASE \E f \in Files : DidClose(f)
    BY <1>3, CloseStep
<1>4. CASE \E f \in Files : AnalyseCached(f)
    BY <1>4, PublishCached
<1>5. CASE \E f \in Files : Analyse(f)
    BY <1>5, AnalyseStep
<1>6. CASE \E f \in Files : AnalyseUnparsable(f) \/ AnalysisRaises(f)
    BY <1>6, UnparsableStep, RaiseStep
<1>7. CASE \E f \in Files : \E new \in TextsOf[f] : DidChange(f, new)
    BY <1>7, ChangeStep, DatabaseAssumption
<1>8. CASE \E f \in Edited : \E new \in TextsOf[f] \union {Missing} : FileChanges(f, new)
    BY <1>8, FileStep, EditedAssumption, DatabaseAssumption
<1>9. CASE UNCHANGED allVars
  <2>1. /\ UNCHANGED <<saved, overlays, cache, sources, hashed, provisional, analyses, imports, loads>>
        /\ UNCHANGED <<documents, published, changed, waiting, unseen>>
      BY <1>9 DEF allVars, dbVars, databaseVars, loaderVars, serverVars
  <2>2. \A S : AllRequesters(S)' = AllRequesters(S)
      BY <2>1 DEF AllRequesters, Closure, Requesters
  <2>3. \A m, seen : Known(m, seen) => Known(m, seen)'
      BY <2>1, <2>2 DEF Known, Untold, Source, Open
  <2>4. Loading' = Loading /\ ServerTypeOK'
      BY <2>1 DEF Loading, ServerInv, ServerTypeOK, DatabaseTypeOK, Turn
  <2>5. TablesKnown' /\ LoadsKnown'
      BY <2>1, <2>3 DEF ServerInv, TablesKnown, LoadsKnown
  <2>6. ProvisionalKnown' /\ LoadsNew' /\ RequestsAreImports' /\ ServedAgree'
      BY <2>1, <2>4 DEF ServerInv, ProvisionalKnown, LoadsNew, RequestsAreImports, ServedAgree,
         AgreesWithOpen, Untold, Source, Open, ImportsNow
  <2> QED
      BY <2>4, <2>5, <2>6 DEF ServerInv
<1> QED
    BY <1>1, <1>2, <1>3, <1>4, <1>5, <1>6, <1>7, <1>8, <1>9 DEF ServerNext

\* What the invariant says of what is cached and published.
LEMMA ServerAnswers == ASSUME ServerInv PROVE AnswersAgree
<1>1. CachedIsCurrent
    BY DEF ServerInv, TablesKnown, Known, Untold, CachedIsCurrent, SeenButUntold
<1>2. OpenDocumentsAgree
  <2>1. ASSUME Quiet, NEW f \in Files PROVE f # changed /\ f \notin waiting
      BY <2>1, DatabaseAssumption DEF Quiet
  <2> QED
      BY <2>1 DEF ServerInv, ServedAgree, AgreesWithOpen, OpenDocumentsAgree
<1> QED
    BY <1>1, <1>2 DEF ServerInv, AnswersAgree

\* AnswersAgree, for any graph of imports, circles included: no cached analysis
\* or interface has missed a change that the server was told of, however far
\* away and whatever failed to load on the way (ModuleLoader.load, invalidate,
\* CompilationDatabase._invalidate), and the diagnostics of open documents
\* agree with each other's texts (_refresh_workspace).
THEOREM AnswersAlwaysAgree == ServerSpec => []AnswersAgree
<1>1. ServerInit => ServerInv
    BY ServerStarts
<1>2. ServerInv /\ [ServerNext]_allVars => ServerInv'
    BY ServerSteps
<1>3. ServerInv => AnswersAgree
    BY ServerAnswers
<1> QED
    BY <1>1, <1>2, <1>3, PTL DEF ServerSpec

\* A step that drops an interface changes a document that it rests on.
LEMMA DropsAffected ==
    ASSUME ServerInv, ServerNext, NEW f \in Files, unseen = {}, cache[f] # None, cache'[f] = None
    PROVE  \E g \in Reaches(f) : overlays[g] # overlays'[g]
<1>1. ASSUME NEW h \in Files, NEW new \in Texts \union {None}, SetOverlay(h, new), overlays[h] # new
      PROVE  \E g \in Reaches(f) : overlays[g] # overlays'[g]
  <2>1. f \in AllRequesters({h})
      BY <1>1 DEF SetOverlay, Invalidate
  <2>2. h \in Reaches(f)
      BY <2>1, RequestersRest DEF ServerInv
  <2>3. overlays'[h] = new
      BY <1>1 DEF SetOverlay, ServerInv, ServerTypeOK, DatabaseTypeOK
  <2> QED
      BY <1>1, <2>2, <2>3
<1>2. ASSUME NEW h \in Files, NEW new \in Texts, DidChange(h, new)
      PROVE  SetOverlay(h, new) /\ overlays[h] # new
  <2>1. cache' # cache
      OBVIOUS
  <2> QED
      BY <1>2, <2>1 DEF DidChange, dbVars, databaseVars, loaderVars
<1>3. ASSUME NEW h \in Files, DidClose(h)
      PROVE  SetOverlay(h, None) /\ overlays[h] # None
    BY <1>3 DEF DidClose, CloseDocument, Open, ServerInv, ServerTypeOK
<1>4. ASSUME LoadReturns PROVE FALSE
  <2>1. Len(loads) > 1 /\ Len(loads) \in Nat /\ loads # <<>>
      BY <1>4, StackTypes DEF LoadReturns, ServerInv
  <2>2. Inner = loads[1] /\ 1 \in 1..(Len(loads) - 1)
      BY <2>1, StackTypes DEF ServerInv
  <2>3. cache[Inner.module] = None
      BY <2>2 DEF ServerInv, LoadsNew, Loading
  <2>4. cache' = cache \/ cache' = [cache EXCEPT ![Inner.module] = Inner.seen]
      BY <1>4 DEF LoadReturns
  <2> QED
      BY <2>3, <2>4 DEF ServerInv, ServerTypeOK, DatabaseTypeOK
<1>5. ASSUME NEW h \in Files,
             LoadMissing(h) \/ LoadCached(h) \/ LoadProvisional(h) \/ LoadIncomplete(h) \/ LoadSource(h)
                 \/ AnalyseCached(h) \/ Analyse(h) \/ AnalyseUnparsable(h) \/ AnalysisRaises(h)
      PROVE  FALSE
    BY <1>5 DEF LoadMissing, LoadCached, LoadProvisional, LoadIncomplete, LoadSource, Asks, AnalyseCached, Analyse,
       StartAnalysis, AnalyseUnparsable, AnalysisRaises, LoadRaises, dbVars, databaseVars, loaderVars
<1>6. ASSUME AnalysisReturns \/ \E h \in Edited : \E new \in TextsOf[h] \union {Missing} : FileChanges(h, new)
      PROVE  FALSE
    BY <1>6 DEF AnalysisReturns, EndAnalysis, FileChanges, DiskChange, databaseVars, loaderVars
<1>7. \/ \E h \in Files, new \in Texts : DidChange(h, new)
      \/ \E h \in Files : DidClose(h)
    BY <1>4, <1>5, <1>6, DatabaseAssumption DEF ServerNext, Load, LoadStep
<1>8. CASE \E h \in Files, new \in Texts : DidChange(h, new)
    BY <1>1, <1>2, <1>8
<1>9. CASE \E h \in Files : DidClose(h)
    BY <1>1, <1>3, <1>9
<1> QED
    BY <1>7, <1>8, <1>9

\* OnlyAffectedDropped, for any graph of imports: an interface is dropped only
\* when a document it rests on was changed or closed (ModuleLoader.invalidate).
THEOREM OnlyAffectedAreDropped == ServerSpec => OnlyAffectedDropped
<1>1. ServerInit => ServerInv
    BY ServerStarts
<1>2. ServerInv /\ [ServerNext]_allVars => ServerInv'
    BY ServerSteps
<1>3. ServerInv /\ [ServerNext]_allVars =>
          [\A f \in Files : unseen = {} /\ cache[f] # None /\ cache'[f] = None =>
              \E g \in Reaches(f) : overlays[g] # overlays'[g]]_allVars
    BY DropsAffected
<1> QED
    BY <1>1, <1>2, <1>3, PTL DEF ServerSpec, OnlyAffectedDropped
=============================================================================
