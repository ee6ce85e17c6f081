------------------------- MODULE CoordinatorProofs -------------------------
(***************************************************************************)
(* Concurrent incremental builds (Coordinator): the records of the index   *)
(* stand, no update of another process is lost, and what a build reuses or *)
(* leaves behind is what its sources compile to.                           *)
(*                                                                         *)
(* A call of a coordinator learns something at each of its points, and     *)
(* what it has learned is still so when it acts on it: because the loader  *)
(* caches what it read, because objects only come, because the lock is     *)
(* held, or because nobody else builds.  The invariant says what is known  *)
(* at each point and on which of these grounds.                            *)
(***************************************************************************)
EXTENDS Coordinator, SequenceTheorems, TLAPS

-----------------------------------------------------------------------------
(* The inductive invariant.                                                *)

\* The contents and the records of one unit.
ContentOf(u) == [unit : {u}, source : Versions, deps : [Imports[u] -> Versions]]
RecordOf(u) == {Record(content) : content \in ContentOf(u)}
OwnRecords(f) == \A u \in Units : f[u] = None \/ f[u] \in RecordOf(u)

Process ==
    [known : [Units -> Records \union {None}], cache : [Units -> Versions \union {None}],
     stack : Seq(Frames), rebuild : BOOLEAN, alone : BOOLEAN]

\* TypeOK, and that what is stored for a unit is that unit's.
Types ==
    /\ project \in Projects
    /\ TypeOK
    /\ coordinator \in [Processes -> Process \union {None}]
    /\ OwnRecords(index)
    /\ \A u \in Units : output[u] = None \/ output[u] \in ContentOf(u)
    /\ \A p \in Processes : Building(p) => OwnRecords(coordinator[p].known)

\* What unit u compiles to from the given source and the imports in a cache.
Compiled(u, source, cache) == Content(u, source, [d \in Imports[u] |-> cache[d]])
ImportsCached(u, cache) == \A d \in Imports[u] : cache[d] \in Versions

Published == {"verify", "merge", "record", "built"}

\* What a frame f of a process with these records and this cache is known to be.
FrameFits(known, cache, f) ==
    /\ f.pc \notin {"read", "failed"} => f.source \in Versions
    /\ f.pc = "republish" => f.content \in ContentOf(f.unit)
    /\ f.pc \in {"nested", "put", "write", "publish"} \union Published =>
          /\ ImportsCached(f.unit, cache)
          /\ f.content = Compiled(f.unit, f.source, cache)
    /\ f.pc = "compare" /\ f.unit \in Executables =>
          known[f.unit] \in RecordOf(f.unit) /\ known[f.unit].source = f.source
    /\ f.pc = "deps" =>
          /\ f.saw \in ContentOf(f.unit)
          /\ f.unit \in Executables =>
                /\ known[f.unit] \in RecordOf(f.unit)
                /\ known[f.unit].source = f.source /\ known[f.unit].output = f.saw
    /\ f.pc = "reused" =>
          ImportsCached(f.unit, cache) /\ f.saw = Compiled(f.unit, f.source, cache)
    /\ f.pc = "record" => f.records \in [Units -> Records \union {None}] /\ OwnRecords(f.records)

\* Only the innermost call is anywhere else than at its nested builds.
StackFits(p) ==
    /\ \A i \in 1 .. Len(Stack(p)) :
          FrameFits(coordinator[p].known, coordinator[p].cache, Stack(p)[i])
    /\ \A i \in 1 .. Len(Stack(p)) : i # Len(Stack(p)) => Stack(p)[i].pc = "nested"

\* What the innermost call knows of the outputs, if it is alone.
OutputKnown(outputs, f) ==
    /\ f.pc \in {"deps", "reused"} => outputs[f.unit] = f.saw
    /\ f.pc \in Published => outputs[f.unit] = f.content

Untouched == Faults \intersect {"object", "collect", "clean"} = {}

\* What it knows of the objects, if nobody damages or removes any.
ObjectsKnown(objects, f) ==
    /\ f.pc \in {"merge", "record"} => f.content \in objects
    /\ f.pc = "record" =>
          \A u \in Units : f.records[u] # None => f.records[u].artifact \in objects

\* What it knows of the lock and, under it, of the index file of its unit, if
\* nobody takes the file of the lock away.
IndexKnown(p, locking, records, targets, f) ==
    /\ f.pc \in {"write", "record"} => locking = {p}
    /\ f.pc = "record" =>
          \A u \in Units : (u \in targets <=> f.unit \in targets) => f.records[u] = records[u]

TopFits(p) ==
    /\ coordinator[p].alone => OutputKnown(output, Top(p))
    /\ Untouched => ObjectsKnown(good, Top(p))
    /\ MergesTakeTurns => IndexKnown(p, holders, index, Executables, Top(p))

ProcessFits(p) ==
    /\ StackFits(p)
    /\ coordinator[p].alone => Others(p) = {}
    /\ Stack(p) # <<>> => TopFits(p)

BuildInv ==
    /\ Types /\ IndexClosed /\ NoLostUpdate
    /\ \A p \in Processes : Building(p) => ProcessFits(p)

-----------------------------------------------------------------------------
(* Contents, records and frames.                                           *)

LEMMA ProjectTypes ==
    ASSUME project \in Projects
    PROVE  /\ Imports \in [Units -> SUBSET Units] /\ Executables \subseteq Units
           /\ None \notin Versions
           /\ project.edits \in Nat
           /\ \A c \in project.commands : c[1] \in Units /\ c[2] \in BOOLEAN
BY CoordinatorAssumption DEF CoordinatorAssumption, Imports, Executables

LEMMA ContentTypes ==
    ASSUME NEW u \in Units
    PROVE  /\ ContentOf(u) \subseteq Contents
           /\ RecordOf(u) \subseteq Records
           /\ \A c \in ContentOf(u) : /\ c.unit = u /\ c.source \in Versions
                                      /\ c = Content(u, c.source, c.deps)
                                      /\ Record(c) \in RecordOf(u)
           /\ \A r \in RecordOf(u) : /\ r.artifact \in ContentOf(u) /\ r.output = r.artifact
                                     /\ r.source = r.artifact.source /\ r.deps = r.artifact.deps
                                     /\ r.artifact = Content(u, r.source, r.deps)
<1>1. ContentOf(u) \subseteq Contents
    BY DEF ContentOf, Contents
<1>2. RecordOf(u) \subseteq Records
    BY <1>1 DEF RecordOf, Records
<1>3. \A c \in ContentOf(u) : /\ c.unit = u /\ c.source \in Versions
                              /\ c = Content(u, c.source, c.deps)
    BY DEF ContentOf, Content
<1>4. ASSUME NEW r \in RecordOf(u)
      PROVE  /\ r.artifact \in ContentOf(u) /\ r.output = r.artifact
             /\ r.source = r.artifact.source /\ r.deps = r.artifact.deps
  <2>1. PICK c \in ContentOf(u) : r = Record(c)
      BY DEF RecordOf
  <2> QED
      BY <2>1 DEF Record
<1>5. \A c \in ContentOf(u) : Record(c) \in RecordOf(u)
    BY DEF RecordOf
<1> QED
    BY <1>1, <1>2, <1>3, <1>4, <1>5

LEMMA CompiledType ==
    ASSUME NEW u \in Units, NEW source \in Versions, NEW cache, ImportsCached(u, cache)
    PROVE  Compiled(u, source, cache) \in ContentOf(u)
BY DEF ImportsCached, Compiled, Content, ContentOf

LEMMA SameProject ==
    ASSUME project' = project
    PROVE  /\ Imports' = Imports /\ Executables' = Executables /\ Faults' = Faults
           /\ Untouched' = Untouched /\ MergesTakeTurns' = MergesTakeTurns
           /\ \A u : IndexName(u)' = IndexName(u)
           /\ Contents' = Contents /\ Records' = Records /\ Frames' = Frames
           /\ Process' = Process
           /\ \A u : ContentOf(u)' = ContentOf(u) /\ RecordOf(u)' = RecordOf(u)
<1>1. /\ Imports' = Imports /\ Executables' = Executables /\ Faults' = Faults
    BY DEF Imports, Executables, Faults
<1>2. /\ Untouched' = Untouched /\ MergesTakeTurns' = MergesTakeTurns
      /\ \A u : IndexName(u)' = IndexName(u)
    BY <1>1 DEF Untouched, IndexName, MergesTakeTurns, HasFlock
<1>3. Contents' = Contents
    BY <1>1 DEF Contents
<1>4. Records' = Records
    BY <1>3 DEF Records
<1>5. Frames' = Frames
    BY <1>3, <1>4 DEF Frames
<1>6. Process' = Process
    BY <1>4, <1>5 DEF Process
<1>7. \A u : ContentOf(u)' = ContentOf(u)
    BY <1>1 DEF ContentOf
<1>8. \A u : RecordOf(u)' = RecordOf(u)
    BY <1>7 DEF RecordOf
<1> QED
    BY <1>1, <1>2, <1>3, <1>4, <1>5, <1>6, <1>7, <1>8

LEMMA ProcessTypes ==
    ASSUME Types, NEW p \in Processes, Building(p)
    PROVE  /\ coordinator[p] \in Process
           /\ coordinator[p].known \in [Units -> Records \union {None}]
           /\ OwnRecords(coordinator[p].known)
           /\ coordinator[p].cache \in [Units -> Versions \union {None}]
           /\ Stack(p) \in Seq(Frames) /\ Len(Stack(p)) \in Nat
           /\ coordinator[p].rebuild \in BOOLEAN /\ coordinator[p].alone \in BOOLEAN
           /\ Stack(p) # <<>> => Len(Stack(p)) > 0 /\ Top(p) \in Frames
                                 /\ Len(Stack(p)) \in 1 .. Len(Stack(p))
<1>1. coordinator[p] \in Process /\ OwnRecords(coordinator[p].known)
    BY DEF Types, Building
<1>2. Stack(p) \in Seq(Frames)
    BY <1>1 DEF Process, Stack
<1>3. Len(Stack(p)) \in Nat
    BY <1>2, LenProperties
<1>4. Stack(p) # <<>> => Len(Stack(p)) > 0
    BY <1>2, <1>3, EmptySeq
<1>5. Stack(p) # <<>> => Top(p) \in Frames /\ Len(Stack(p)) \in 1 .. Len(Stack(p))
    BY <1>2, <1>3, <1>4, ElementOfSeq DEF Top
<1> QED
    BY <1>1, <1>2, <1>3, <1>4, <1>5 DEF Process

\* What is typed in the store.
StoreTypes ==
    /\ project \in Projects
    /\ good \subseteq Contents /\ corrupt \subseteq Contents /\ good \intersect corrupt = {}
    /\ index \in [Units -> Records \union {None}] /\ merged \in [Units -> Records \union {None}]
    /\ damaged \subseteq {"modules", "targets"}
    /\ output \in [Units -> Contents \union {None}]
    /\ holders \subseteq Processes /\ stale \subseteq Processes /\ present \in BOOLEAN
    /\ reachable = None \/ reachable \subseteq Contents
    /\ disk \in [Units -> Versions] /\ edits \in 0 .. project.edits
    /\ OwnRecords(index)
    /\ \A u \in Units : output[u] = None \/ output[u] \in ContentOf(u)

ProcessesTyped ==
    /\ coordinator \in [Processes -> Process \union {None}]
    /\ \A p \in Processes : Building(p) => OwnRecords(coordinator[p].known)

LEMMA TypesApart == Types <=> StoreTypes /\ ProcessesTyped
<1>1. Types => StoreTypes /\ ProcessesTyped
    BY DEF Types, StoreTypes, ProcessesTyped, TypeOK
<1>2. ASSUME StoreTypes, ProcessesTyped PROVE Types
  <2>1. ASSUME NEW p \in Processes, Building(p)
        PROVE  /\ coordinator[p].known \in [Units -> Records \union {None}]
               /\ coordinator[p].cache \in [Units -> Versions \union {None}]
               /\ coordinator[p].rebuild \in BOOLEAN /\ coordinator[p].alone \in BOOLEAN
               /\ \A i \in 1 .. Len(Stack(p)) : Stack(p)[i] \in Frames
    <3>1. coordinator[p] \in Process
        BY <1>2, <2>1 DEF ProcessesTyped, Building
    <3>2. Stack(p) \in Seq(Frames)
        BY <3>1 DEF Process, Stack
    <3> QED
        BY <3>1, <3>2, ElementOfSeq DEF Process
  <2> QED
      BY <1>2, <2>1 DEF Types, StoreTypes, ProcessesTyped, TypeOK
<1> QED
    BY <1>1, <1>2

LEMMA StoreStays ==
    ASSUME StoreTypes, project' = project, UNCHANGED storeVars, UNCHANGED worldVars
    PROVE  StoreTypes' /\ (IndexClosed => IndexClosed') /\ (NoLostUpdate => NoLostUpdate')
<1>1. /\ good' = good /\ corrupt' = corrupt /\ index' = index /\ damaged' = damaged
      /\ merged' = merged /\ holders' = holders /\ stale' = stale /\ present' = present
      /\ output' = output /\ reachable' = reachable /\ disk' = disk /\ edits' = edits
    BY DEF storeVars, objectVars, indexVars, lockVars, worldVars
<1>2. StoreTypes'
    BY <1>1, SameProject DEF StoreTypes, OwnRecords
<1> QED
    BY <1>1, <1>2, SameProject DEF IndexClosed, NoLostUpdate

\* Other processes: a step that leaves process q where it is, removes no
\* object, and changes neither the index nor the lock while q holds it, leaves
\* what q knows.
LEMMA OthersStay ==
    ASSUME Types, project' = project, NEW q \in Processes, Building(q), ProcessFits(q),
           coordinator'[q].known = coordinator[q].known,
           coordinator'[q].cache = coordinator[q].cache,
           coordinator'[q].stack = coordinator[q].stack,
           coordinator'[q].alone =>
               coordinator[q].alone /\ output' = output /\ Others(q)' = {},
           Untouched => good \subseteq good',
           MergesTakeTurns => (holders = {q} => holders' = {q} /\ index' = index)
    PROVE  ProcessFits(q)'
<1>1. Stack(q)' = Stack(q) /\ Top(q)' = Top(q)
    BY DEF Stack, Top
<1>2. /\ Imports' = Imports /\ Executables' = Executables /\ Faults' = Faults
      /\ Untouched' = Untouched /\ MergesTakeTurns' = MergesTakeTurns
      /\ \A u : IndexName(u)' = IndexName(u)
      /\ \A u : ContentOf(u)' = ContentOf(u) /\ RecordOf(u)' = RecordOf(u)
      /\ Records' = Records
    BY SameProject
<1>3. StackFits(q)'
  <2>1. \A f : FrameFits(coordinator[q].known, coordinator[q].cache, f)
            => FrameFits(coordinator[q].known, coordinator[q].cache, f)'
      BY <1>2 DEF FrameFits, ImportsCached, Compiled, Content, OwnRecords
  <2> QED
      BY <1>1, <2>1 DEF ProcessFits, StackFits
<1>4. ASSUME Stack(q) # <<>> PROVE TopFits(q)'
  <2>1. TopFits(q)
      BY <1>4 DEF ProcessFits
  <2>2. coordinator'[q].alone => OutputKnown(output', Top(q)')
      BY <1>1, <2>1 DEF TopFits
  <2>3. Untouched' => ObjectsKnown(good', Top(q)')
      BY <1>1, <1>2, <2>1 DEF TopFits, ObjectsKnown
  <2>4. MergesTakeTurns' => IndexKnown(q, holders', index', Executables', Top(q)')
      BY <1>1, <1>2, <2>1 DEF TopFits, IndexKnown
  <2> QED
      BY <2>2, <2>3, <2>4 DEF TopFits
<1> QED
    BY <1>1, <1>3, <1>4 DEF ProcessFits

\* The innermost call of process p goes on to frame f.
LEMMA TopMoves ==
    ASSUME Types, project' = project, NEW p \in Processes, Building(p), Stack(p) # <<>>,
           StackFits(p),
           NEW known \in [Units -> Records \union {None}], OwnRecords(known),
           NEW cache \in [Units -> Versions \union {None}],
           \A d \in Units : coordinator[p].cache[d] \in Versions
                                => cache[d] = coordinator[p].cache[d],
           NEW f \in Frames, FrameFits(known, cache, f),
           coordinator' = [coordinator EXCEPT ![p] =
               [known |-> known, cache |-> cache, stack |-> SetTop(p, f),
                rebuild |-> coordinator[p].rebuild, alone |-> coordinator[p].alone]]
    PROVE  /\ ProcessesTyped' /\ StackFits(p)' /\ Top(p)' = f
           /\ coordinator'[p].alone = coordinator[p].alone
           /\ \A q \in Processes : q # p => coordinator'[q] = coordinator[q]
<1> DEFINE s == Stack(p)
           n == Len(s)
           r == SetTop(p, f)
<1>1. /\ s \in Seq(Frames) /\ n \in Nat /\ n > 0 /\ n \in 1 .. n
      /\ coordinator[p].rebuild \in BOOLEAN /\ coordinator[p].alone \in BOOLEAN
      /\ coordinator[p].cache \in [Units -> Versions \union {None}]
    BY ProcessTypes
<1>2. /\ r \in Seq(Frames) /\ Len(r) = n /\ r[n] = f
      /\ \A i \in 1 .. n : i # n => r[i] = s[i]
  <2>1. r = [s EXCEPT ![n] = f] /\ n = Len(s)
      BY DEF SetTop
  <2> HIDE DEF s, n, r
  <2> QED
      BY <1>1, <2>1, ExceptSeq
<1>3. coordinator \in [Processes -> Process \union {None}]
    BY DEF Types
<1> HIDE DEF s, n, r
<1>4. /\ coordinator'[p] = [known |-> known, cache |-> cache, stack |-> r,
                            rebuild |-> coordinator[p].rebuild, alone |-> coordinator[p].alone]
      /\ \A q \in Processes : q # p => coordinator'[q] = coordinator[q]
    BY <1>3 DEF r
<1>5. coordinator'[p] \in Process
    BY <1>1, <1>2, <1>4 DEF Process
<1>6. /\ coordinator'[p].known = known /\ coordinator'[p].cache = cache
      /\ coordinator'[p].stack = r /\ coordinator'[p].alone = coordinator[p].alone
    BY <1>4
<1>7. Stack(p)' = r /\ Top(p)' = f
    BY <1>2, <1>6 DEF Stack, Top
<1>8. ProcessesTyped'
  <2>1. coordinator' \in [Processes -> Process \union {None}]
      BY <1>3, <1>5
  <2>2. ASSUME NEW q \in Processes, Building(q)' PROVE OwnRecords(coordinator[q].known)'
      BY <1>4, <1>6, <2>2, SameProject DEF Types, OwnRecords, Building
  <2> QED
      BY <2>1, <2>2, SameProject DEF ProcessesTyped
<1>9. StackFits(p)'
  <2>1. /\ Imports' = Imports /\ Executables' = Executables
        /\ \A u : ContentOf(u)' = ContentOf(u) /\ RecordOf(u)' = RecordOf(u)
        /\ Records' = Records
      BY SameProject
  <2>2. FrameFits(coordinator[p].known, coordinator[p].cache, f)'
      BY <1>6, <2>1 DEF FrameFits, ImportsCached, Compiled, Content, OwnRecords
  <2>3. ASSUME NEW i \in 1 .. n, i # n
        PROVE  /\ r[i].pc = "nested"
               /\ FrameFits(coordinator[p].known, coordinator[p].cache, Stack(p)[i])'
    <3>1. /\ r[i] = s[i] /\ r[i].pc = "nested" /\ r[i] \in Frames
          /\ FrameFits(coordinator[p].known, coordinator[p].cache, r[i])
        BY <1>1, <1>2, <2>3, ElementOfSeq DEF StackFits, s, n
    <3>2. /\ r[i].unit \in Units /\ Imports[r[i].unit] \subseteq Units
          /\ r[i].source \in Versions
          /\ ImportsCached(r[i].unit, coordinator[p].cache)
          /\ r[i].content = Compiled(r[i].unit, r[i].source, coordinator[p].cache)
        BY <3>1, ProjectTypes DEF FrameFits, Frames, Types
    <3>3. \A d \in Imports[r[i].unit] : cache[d] = coordinator[p].cache[d] /\ cache[d] \in Versions
        BY <3>2 DEF ImportsCached
    <3>4. /\ ImportsCached(r[i].unit, cache)
          /\ r[i].content = Compiled(r[i].unit, r[i].source, cache)
        BY <3>2, <3>3 DEF ImportsCached, Compiled
    <3> QED
        BY <1>6, <1>7, <2>1, <3>1, <3>2, <3>4 DEF FrameFits, ImportsCached, Compiled, Content, Published
  <2>4. Len(Stack(p))' = n
      BY <1>2, <1>7
  <2>5. \A i \in 1 .. n : FrameFits(coordinator[p].known, coordinator[p].cache, Stack(p)[i])'
      BY <1>2, <1>7, <2>2, <2>3
  <2> QED
      BY <1>7, <2>3, <2>4, <2>5 DEF StackFits
<1> QED
    BY <1>4, <1>6, <1>7, <1>8, <1>9

\* A step of the innermost call of process p.
LEMMA TopStep ==
    ASSUME BuildInv, project' = project, NEW p \in Processes, Building(p), Stack(p) # <<>>,
           NEW known \in [Units -> Records \union {None}], OwnRecords(known),
           NEW cache \in [Units -> Versions \union {None}],
           \A d \in Units : coordinator[p].cache[d] \in Versions
                                => cache[d] = coordinator[p].cache[d],
           NEW f \in Frames, FrameFits(known, cache, f),
           coordinator' = [coordinator EXCEPT ![p] =
               [known |-> known, cache |-> cache, stack |-> SetTop(p, f),
                rebuild |-> coordinator[p].rebuild, alone |-> coordinator[p].alone]],
           StoreTypes', IndexClosed', NoLostUpdate',
           coordinator[p].alone => OutputKnown(output', f),
           Untouched => ObjectsKnown(good', f),
           MergesTakeTurns => IndexKnown(p, holders', index', Executables, f),
           Untouched => good \subseteq good',
           MergesTakeTurns => \A q \in Processes \ {p} :
               holders = {q} => holders' = {q} /\ index' = index
    PROVE  BuildInv'
<1>1. Types /\ StackFits(p) /\ (coordinator[p].alone => Others(p) = {})
    BY DEF BuildInv, ProcessFits
<1>2. /\ ProcessesTyped' /\ StackFits(p)' /\ Top(p)' = f
      /\ coordinator'[p].alone = coordinator[p].alone
      /\ \A q \in Processes : q # p => coordinator'[q] = coordinator[q]
    BY <1>1, TopMoves
<1>3. Types'
    BY <1>2, TypesApart, PTL
<1>4. ProcessFits(p)'
  <2>1. coordinator'[p].alone => Others(p)' = {}
      BY <1>1, <1>2 DEF Others, Building
  <2>2. TopFits(p)'
    <3>1. /\ Untouched' = Untouched /\ MergesTakeTurns' = MergesTakeTurns
          /\ Executables' = Executables
        BY SameProject
    <3> QED
        BY <1>2, <3>1 DEF TopFits
  <2> QED
      BY <1>2, <2>1, <2>2 DEF ProcessFits
<1>5. ASSUME NEW q \in Processes, q # p, Building(q)' PROVE ProcessFits(q)'
  <2>1. coordinator'[q] = coordinator[q] /\ Building(q) /\ ProcessFits(q)
      BY <1>2, <1>5 DEF Building, BuildInv
  <2>2. ~coordinator'[q].alone
      BY <2>1, <1>5 DEF ProcessFits, Others
  <2>3. Types /\ project' = project
      BY <1>1
  <2>4. /\ coordinator'[q].known = coordinator[q].known
        /\ coordinator'[q].cache = coordinator[q].cache
        /\ coordinator'[q].stack = coordinator[q].stack
        /\ coordinator'[q].alone =>
              coordinator[q].alone /\ output' = output /\ Others(q)' = {}
      BY <2>1, <2>2
  <2>5. Untouched => good \subseteq good'
      OBVIOUS
  <2>6. MergesTakeTurns => (holders = {q} => holders' = {q} /\ index' = index)
      BY <1>5
  <2> QED
      BY <2>1, <2>3, <2>4, <2>5, <2>6, OthersStay
<1> QED
    BY <1>3, <1>4, <1>5 DEF BuildInv

\* A step of it that leaves the store alone.
LEMMA QuietStep ==
    ASSUME BuildInv, project' = project, NEW p \in Processes, Building(p), Stack(p) # <<>>,
           UNCHANGED storeVars, UNCHANGED worldVars,
           NEW cache \in [Units -> Versions \union {None}],
           \A d \in Units : coordinator[p].cache[d] \in Versions
                                => cache[d] = coordinator[p].cache[d],
           NEW f \in Frames, FrameFits(coordinator[p].known, cache, f),
           coordinator' = [coordinator EXCEPT ![p] =
               [known |-> coordinator[p].known, cache |-> cache, stack |-> SetTop(p, f),
                rebuild |-> coordinator[p].rebuild, alone |-> coordinator[p].alone]],
           coordinator[p].alone => OutputKnown(output, f),
           Untouched => ObjectsKnown(good, f),
           MergesTakeTurns => IndexKnown(p, holders, index, Executables, f)
    PROVE  BuildInv'
<1>1. Types /\ StoreTypes /\ IndexClosed /\ NoLostUpdate
    BY TypesApart DEF BuildInv
<1>2. StoreTypes' /\ IndexClosed' /\ NoLostUpdate'
    BY <1>1, StoreStays
<1>3. output' = output /\ good' = good /\ holders' = holders /\ index' = index
    BY DEF storeVars, objectVars, indexVars, lockVars
<1>4. coordinator[p].known \in [Units -> Records \union {None}] /\ OwnRecords(coordinator[p].known)
    BY <1>1, ProcessTypes
<1> DEFINE known == coordinator[p].known
<1> HIDE DEF known
<1>5. known = coordinator[p].known
    BY DEF known
<1> QED
    BY <1>2, <1>3, <1>4, <1>5, TopStep

-----------------------------------------------------------------------------
(* What a step of the innermost call starts from.                          *)

LEMMA AtTop ==
    ASSUME BuildInv, NEW p \in Processes, NEW pc, At(p, pc)
    PROVE  /\ Types /\ Building(p) /\ Stack(p) # <<>>
           /\ Top(p) \in Frames /\ Top(p).pc = pc /\ Top(p).unit \in Units
           /\ FrameFits(coordinator[p].known, coordinator[p].cache, Top(p)) /\ TopFits(p)
           /\ StackFits(p)
           /\ coordinator[p].alone => Others(p) = {}
<1>1. Types /\ Building(p) /\ Stack(p) # <<>> /\ Top(p).pc = pc /\ ProcessFits(p)
    BY DEF At, BuildInv
<1>2. Top(p) \in Frames /\ Len(Stack(p)) \in 1 .. Len(Stack(p))
    BY <1>1, ProcessTypes
<1>3. FrameFits(coordinator[p].known, coordinator[p].cache, Top(p)) /\ TopFits(p)
    BY <1>1, <1>2 DEF ProcessFits, StackFits, Top
<1> QED
    BY <1>1, <1>2, <1>3 DEF Frames, ProcessFits

LEMMA NewStack ==
    ASSUME NEW process \in Process, NEW stack
    PROVE  [process EXCEPT !.stack = stack] =
               [known |-> process.known, cache |-> process.cache, stack |-> stack,
                rebuild |-> process.rebuild, alone |-> process.alone]
BY DEF Process

LEMMA NewCacheAndStack ==
    ASSUME NEW process \in Process, NEW field, NEW stack
    PROVE  [process EXCEPT !.cache = field, !.stack = stack] =
               [known |-> process.known, cache |-> field, stack |-> stack,
                rebuild |-> process.rebuild, alone |-> process.alone]
<1> DEFINE c == [process EXCEPT !.cache = field]
<1>1. [process EXCEPT !.cache = field, !.stack = stack] = [c EXCEPT !.stack = stack]
    OBVIOUS
<1>2. c = [known |-> process.known, cache |-> field, stack |-> process.stack,
           rebuild |-> process.rebuild, alone |-> process.alone]
    BY DEF Process
<1> HIDE DEF c
<1>3. [c EXCEPT !.stack = stack] =
          [known |-> process.known, cache |-> field, stack |-> stack,
           rebuild |-> process.rebuild, alone |-> process.alone]
    BY <1>2
<1> QED
    BY <1>1, <1>3

LEMMA NewKnownAndStack ==
    ASSUME NEW process \in Process, NEW field, NEW stack
    PROVE  [process EXCEPT !.known = field, !.stack = stack] =
               [known |-> field, cache |-> process.cache, stack |-> stack,
                rebuild |-> process.rebuild, alone |-> process.alone]
<1> DEFINE k == [process EXCEPT !.known = field]
<1>1. [process EXCEPT !.known = field, !.stack = stack] = [k EXCEPT !.stack = stack]
    OBVIOUS
<1>2. k = [known |-> field, cache |-> process.cache, stack |-> process.stack,
           rebuild |-> process.rebuild, alone |-> process.alone]
    BY DEF Process
<1> HIDE DEF k
<1>3. [k EXCEPT !.stack = stack] =
          [known |-> field, cache |-> process.cache, stack |-> stack,
           rebuild |-> process.rebuild, alone |-> process.alone]
    BY <1>2
<1> QED
    BY <1>1, <1>3

LEMMA StackForm ==
    ASSUME Types, NEW p \in Processes, Building(p), NEW stack
    PROVE  [coordinator EXCEPT ![p].stack = stack] =
               [coordinator EXCEPT ![p] =
                   [known |-> coordinator[p].known, cache |-> coordinator[p].cache,
                    stack |-> stack, rebuild |-> coordinator[p].rebuild,
                    alone |-> coordinator[p].alone]]
<1>1. coordinator[p] \in Process /\ coordinator \in [Processes -> Process \union {None}]
    BY ProcessTypes DEF Types
<1>2. PICK now \in Process : now = coordinator[p]
    BY <1>1
<1>3. [coordinator EXCEPT ![p].stack = stack] =
          [coordinator EXCEPT ![p] = [now EXCEPT !.stack = stack]]
    BY <1>1, <1>2
<1>4. [now EXCEPT !.stack = stack] =
          [known |-> now.known, cache |-> now.cache, stack |-> stack,
           rebuild |-> now.rebuild, alone |-> now.alone]
    BY NewStack
<1>5. [coordinator EXCEPT ![p].stack = stack] =
          [coordinator EXCEPT ![p] =
              [known |-> now.known, cache |-> now.cache, stack |-> stack,
               rebuild |-> now.rebuild, alone |-> now.alone]]
    BY <1>3, <1>4
<1> QED
    BY <1>2, <1>5

LEMMA CacheForm ==
    ASSUME Types, NEW p \in Processes, Building(p), NEW field, NEW stack
    PROVE  [coordinator EXCEPT ![p].cache = field, ![p].stack = stack] =
               [coordinator EXCEPT ![p] =
                   [known |-> coordinator[p].known, cache |-> field,
                    stack |-> stack, rebuild |-> coordinator[p].rebuild,
                    alone |-> coordinator[p].alone]]
<1>1. coordinator[p] \in Process /\ coordinator \in [Processes -> Process \union {None}]
    BY ProcessTypes DEF Types
<1>2. PICK now \in Process : now = coordinator[p]
    BY <1>1
<1>3. [coordinator EXCEPT ![p].cache = field, ![p].stack = stack] =
          [coordinator EXCEPT ![p] = [now EXCEPT !.cache = field, !.stack = stack]]
    BY <1>1, <1>2
<1>4. [now EXCEPT !.cache = field, !.stack = stack] =
          [known |-> now.known, cache |-> field, stack |-> stack,
           rebuild |-> now.rebuild, alone |-> now.alone]
    BY NewCacheAndStack
<1>5. [coordinator EXCEPT ![p].cache = field, ![p].stack = stack] =
          [coordinator EXCEPT ![p] =
              [known |-> now.known, cache |-> field, stack |-> stack,
               rebuild |-> now.rebuild, alone |-> now.alone]]
    BY <1>3, <1>4
<1> QED
    BY <1>2, <1>5

LEMMA KnownForm ==
    ASSUME Types, NEW p \in Processes, Building(p), NEW field, NEW stack
    PROVE  [coordinator EXCEPT ![p].known = field, ![p].stack = stack] =
               [coordinator EXCEPT ![p] =
                   [known |-> field, cache |-> coordinator[p].cache,
                    stack |-> stack, rebuild |-> coordinator[p].rebuild,
                    alone |-> coordinator[p].alone]]
<1>1. coordinator[p] \in Process /\ coordinator \in [Processes -> Process \union {None}]
    BY ProcessTypes DEF Types
<1>2. PICK now \in Process : now = coordinator[p]
    BY <1>1
<1>3. [coordinator EXCEPT ![p].known = field, ![p].stack = stack] =
          [coordinator EXCEPT ![p] = [now EXCEPT !.known = field, !.stack = stack]]
    BY <1>1, <1>2
<1>4. [now EXCEPT !.known = field, !.stack = stack] =
          [known |-> field, cache |-> now.cache, stack |-> stack,
           rebuild |-> now.rebuild, alone |-> now.alone]
    BY NewKnownAndStack
<1>5. [coordinator EXCEPT ![p].known = field, ![p].stack = stack] =
          [coordinator EXCEPT ![p] =
              [known |-> field, cache |-> now.cache, stack |-> stack,
               rebuild |-> now.rebuild, alone |-> now.alone]]
    BY <1>3, <1>4
<1> QED
    BY <1>2, <1>5

\* A step that only moves the innermost call on.
LEMMA QuietGo ==
    ASSUME BuildInv, project' = project, NEW p \in Processes, Building(p), Stack(p) # <<>>,
           UNCHANGED storeVars, UNCHANGED worldVars,
           NEW f \in Frames, FrameFits(coordinator[p].known, coordinator[p].cache, f),
           coordinator' = [coordinator EXCEPT ![p].stack = SetTop(p, f)],
           coordinator[p].alone => OutputKnown(output, f),
           Untouched => ObjectsKnown(good, f),
           MergesTakeTurns => IndexKnown(p, holders, index, Executables, f)
    PROVE  BuildInv'
<1>1. coordinator' = [coordinator EXCEPT ![p] =
               [known |-> coordinator[p].known, cache |-> coordinator[p].cache,
                stack |-> SetTop(p, f), rebuild |-> coordinator[p].rebuild,
                alone |-> coordinator[p].alone]]
    BY StackForm DEF BuildInv
<1>2. coordinator[p].cache \in [Units -> Versions \union {None}]
    BY ProcessTypes DEF BuildInv
<1> DEFINE cache == coordinator[p].cache
<1>3. cache = coordinator[p].cache
    OBVIOUS
<1> HIDE DEF cache
<1> QED
    BY <1>1, <1>2, <1>3, QuietStep

\* One that knows nothing where it goes to.
LEMMA PlainGo ==
    ASSUME BuildInv, project' = project, NEW p \in Processes, Building(p), Stack(p) # <<>>,
           UNCHANGED storeVars, UNCHANGED worldVars,
           NEW f \in Frames, f.pc \in {"restore", "check", "compile", "failed"},
           f.pc # "failed" => f.source \in Versions,
           coordinator' = [coordinator EXCEPT ![p].stack = SetTop(p, f)]
    PROVE  BuildInv'
<1>1. FrameFits(coordinator[p].known, coordinator[p].cache, f)
    BY DEF FrameFits, Published
<1>2. OutputKnown(output, f) /\ ObjectsKnown(good, f)
      /\ IndexKnown(p, holders, index, Executables, f)
    BY DEF OutputKnown, ObjectsKnown, IndexKnown, Published
<1> QED
    BY <1>1, <1>2, QuietGo

LEMMA ReadSourceStep ==
    ASSUME BuildInv, project' = project, NEW p \in Processes, ReadSource(p)
    PROVE  BuildInv'
<1> DEFINE t == Top(p)
           next == IF coordinator[p].rebuild THEN "compile" ELSE "restore"
           f == [t EXCEPT !.source = disk[t.unit], !.pc = next]
<1>1. Types /\ Building(p) /\ Stack(p) # <<>> /\ t \in Frames /\ t.unit \in Units
    BY AtTop DEF ReadSource
<1>2. /\ coordinator' = [coordinator EXCEPT ![p].stack = SetTop(p, f)]
      /\ UNCHANGED storeVars /\ UNCHANGED worldVars
    BY DEF ReadSource, Go
<1> HIDE DEF t
<1>3. disk[t.unit] \in Versions
    BY <1>1 DEF Types, TypeOK
<1>4. f \in Frames /\ f.pc \in {"compile", "restore"} /\ f.source \in Versions
    BY <1>1, <1>3 DEF Frames
<1> HIDE DEF f
<1> QED
    BY <1>1, <1>2, <1>4, PlainGo

LEMMA RestoreStep ==
    ASSUME BuildInv, project' = project, NEW p \in Processes, Restore(p)
    PROVE  BuildInv'
<1> DEFINE t == Top(p)
           record == coordinator[p].known[t.unit]
<1>1. /\ Types /\ Building(p) /\ Stack(p) # <<>> /\ t \in Frames /\ t.unit \in Units
      /\ t.pc = "restore" /\ FrameFits(coordinator[p].known, coordinator[p].cache, t)
    BY AtTop DEF Restore
<1>2. t.source \in Versions
    BY <1>1 DEF FrameFits
<1>3. UNCHANGED storeVars /\ UNCHANGED worldVars
    BY DEF Restore
<1>4. CASE output[t.unit] = None /\ record # None /\ Readable(record.artifact)
  <2> DEFINE f == [t EXCEPT !.content = record.artifact, !.pc = "republish"]
  <2>1. coordinator' = [coordinator EXCEPT ![p].stack = SetTop(p, f)]
      BY <1>4 DEF Restore, Go
  <2>2. record.artifact \in ContentOf(t.unit) /\ record.artifact \in Contents
      BY <1>1, <1>4, ProcessTypes, ContentTypes DEF OwnRecords
  <2> HIDE DEF t, record
  <2>3. /\ f \in Frames /\ f.pc = "republish" /\ f.source \in Versions
        /\ f.unit = t.unit /\ f.content = record.artifact
      BY <1>1, <1>2, <2>2 DEF Frames
  <2> HIDE DEF f
  <2>4. FrameFits(coordinator[p].known, coordinator[p].cache, f)
      BY <2>2, <2>3 DEF FrameFits, Published
  <2>5. OutputKnown(output, f) /\ ObjectsKnown(good, f)
        /\ IndexKnown(p, holders, index, Executables, f)
      BY <2>3 DEF OutputKnown, ObjectsKnown, IndexKnown, Published
  <2> QED
      BY <1>1, <1>3, <2>1, <2>3, <2>4, <2>5, QuietGo
<1>5. CASE ~(output[t.unit] = None /\ record # None /\ Readable(record.artifact))
  <2> DEFINE f == [t EXCEPT !.pc = "check"]
  <2>1. coordinator' = [coordinator EXCEPT ![p].stack = SetTop(p, f)]
      BY <1>5 DEF Restore, Go, GoTo
  <2> HIDE DEF t
  <2>2. f \in Frames /\ f.pc = "check" /\ f.source \in Versions
      BY <1>1, <1>2 DEF Frames
  <2> HIDE DEF f
  <2> QED
      BY <1>1, <1>3, <2>1, <2>2, PlainGo
<1> QED
    BY <1>4, <1>5

LEMMA CheckOutputStep ==
    ASSUME BuildInv, project' = project, NEW p \in Processes, CheckOutput(p)
    PROVE  BuildInv'
<1> DEFINE t == Top(p)
           known == coordinator[p].known
           next == IF MayMatch(p) THEN "compare" ELSE "compile"
           f == [t EXCEPT !.pc = next]
<1>1. /\ Types /\ Building(p) /\ Stack(p) # <<>> /\ t \in Frames /\ t.unit \in Units
      /\ t.pc = "check" /\ FrameFits(coordinator[p].known, coordinator[p].cache, t)
    BY AtTop DEF CheckOutput
<1>2. t.source \in Versions
    BY <1>1 DEF FrameFits
<1>3. /\ UNCHANGED storeVars /\ UNCHANGED worldVars
      /\ coordinator' = [coordinator EXCEPT ![p].stack = SetTop(p, f)]
    BY DEF CheckOutput, Go, GoTo
<1>4. next = "compare" /\ t.unit \in Executables =>
          known[t.unit] \in RecordOf(t.unit) /\ known[t.unit].source = t.source
    BY <1>1, ProcessTypes DEF MayMatch, OwnRecords
<1>5. next \in {"compare", "compile"}
    OBVIOUS
<1> HIDE DEF t, next
<1>6. f \in Frames /\ f.pc = next /\ f.source = t.source /\ f.unit = t.unit
    BY <1>1, <1>5 DEF Frames
<1> HIDE DEF f
<1>7. FrameFits(known, coordinator[p].cache, f)
    BY <1>2, <1>4, <1>5, <1>6 DEF FrameFits, Published
<1>8. OutputKnown(output, f) /\ ObjectsKnown(good, f)
      /\ IndexKnown(p, holders, index, Executables, f)
    BY <1>5, <1>6 DEF OutputKnown, ObjectsKnown, IndexKnown, Published
<1> QED
    BY <1>1, <1>3, <1>6, <1>7, <1>8, QuietGo

LEMMA CompareOutputStep ==
    ASSUME BuildInv, project' = project, NEW p \in Processes, CompareOutput(p)
    PROVE  BuildInv'
<1> DEFINE t == Top(p)
           known == coordinator[p].known
<1>1. /\ Types /\ Building(p) /\ Stack(p) # <<>> /\ t \in Frames /\ t.unit \in Units
      /\ t.pc = "compare" /\ FrameFits(coordinator[p].known, coordinator[p].cache, t)
    BY AtTop DEF CompareOutput
<1>2. t.source \in Versions
    BY <1>1 DEF FrameFits
<1>3. UNCHANGED storeVars /\ UNCHANGED worldVars
    BY DEF CompareOutput
<1>4. CASE OutputMatches(p)
  <2> DEFINE f == [t EXCEPT !.saw = output[t.unit], !.pc = "deps"]
  <2>1. coordinator' = [coordinator EXCEPT ![p].stack = SetTop(p, f)]
      BY <1>4 DEF CompareOutput, Go
  <2>2. /\ output[t.unit] # None
        /\ t.unit \in Executables =>
               /\ known[t.unit] # None /\ known[t.unit].source = t.source
               /\ known[t.unit].output = output[t.unit]
      BY <1>4 DEF OutputMatches, MayMatch
  <2>3. /\ output[t.unit] \in ContentOf(t.unit) /\ output[t.unit] \in Contents
        /\ t.unit \in Executables => known[t.unit] \in RecordOf(t.unit)
      BY <1>1, <2>2, ProcessTypes, ContentTypes DEF OwnRecords, Types
  <2> HIDE DEF t
  <2>4. /\ f \in Frames /\ f.pc = "deps" /\ f.source = t.source
        /\ f.unit = t.unit /\ f.saw = output[t.unit]
      BY <1>1, <2>3 DEF Frames
  <2> HIDE DEF f
  <2>5. FrameFits(known, coordinator[p].cache, f)
      BY <1>2, <2>2, <2>3, <2>4 DEF FrameFits, Published
  <2>6. OutputKnown(output, f) /\ ObjectsKnown(good, f)
        /\ IndexKnown(p, holders, index, Executables, f)
      BY <2>4 DEF OutputKnown, ObjectsKnown, IndexKnown, Published
  <2> QED
      BY <1>1, <1>3, <2>1, <2>4, <2>5, <2>6, QuietGo
<1>5. CASE ~OutputMatches(p) /\ output[t.unit] = None /\ t.unit \in Executables
  <2> DEFINE f == [t EXCEPT !.pc = "failed", !.failed = "output"]
  <2>1. coordinator' = [coordinator EXCEPT ![p].stack = SetTop(p, f)]
      BY <1>5 DEF CompareOutput, Go, Failing
  <2> HIDE DEF t
  <2>2. f \in Frames /\ f.pc = "failed"
      BY <1>1 DEF Frames
  <2> HIDE DEF f
  <2> QED
      BY <1>1, <1>3, <2>1, <2>2, PlainGo
<1>6. CASE ~OutputMatches(p) /\ ~(output[t.unit] = None /\ t.unit \in Executables)
  <2> DEFINE f == [t EXCEPT !.pc = "compile"]
  <2>1. coordinator' = [coordinator EXCEPT ![p].stack = SetTop(p, f)]
      BY <1>6 DEF CompareOutput, Go, GoTo
  <2> HIDE DEF t
  <2>2. f \in Frames /\ f.pc = "compile" /\ f.source \in Versions
      BY <1>1, <1>2 DEF Frames
  <2> HIDE DEF f
  <2> QED
      BY <1>1, <1>3, <2>1, <2>2, PlainGo
<1> QED
    BY <1>4, <1>5, <1>6

\* Loading the imports of a unit: the loader keeps what it has read.
LEMMA Loading ==
    ASSUME Types, NEW p \in Processes, Building(p), NEW u \in Units
    PROVE  /\ CacheAfterLoading(p, u) \in [Units -> Versions \union {None}]
           /\ \A d \in Units : coordinator[p].cache[d] \in Versions
                  => CacheAfterLoading(p, u)[d] = coordinator[p].cache[d]
           /\ AllLoad(p, u) =>
                  /\ ImportsCached(u, CacheAfterLoading(p, u))
                  /\ LoadedDeps(p, u) = [d \in Imports[u] |-> CacheAfterLoading(p, u)[d]]
<1>1. /\ coordinator[p].cache \in [Units -> Versions \union {None}]
      /\ disk \in [Units -> Versions] /\ None \notin Versions
      /\ Imports[u] \subseteq Units
    BY ProcessTypes, ProjectTypes DEF Types, TypeOK
<1>2. \A d \in Imports[u] :
          /\ LoadedDeps(p, u)[d] \in Versions
          /\ coordinator[p].cache[d] \in Versions => LoadedDeps(p, u)[d] = coordinator[p].cache[d]
    BY <1>1 DEF LoadedDeps
<1>3. CacheAfterLoading(p, u) =
          [d \in Units |-> IF d \in Imports[u] /\ Loadable(p, d) THEN LoadedDeps(p, u)[d]
                           ELSE coordinator[p].cache[d]]
    BY DEF CacheAfterLoading
<1>4. CacheAfterLoading(p, u) \in [Units -> Versions \union {None}]
    BY <1>1, <1>2, <1>3
<1>5. \A d \in Units : coordinator[p].cache[d] \in Versions
          => CacheAfterLoading(p, u)[d] = coordinator[p].cache[d]
    BY <1>1, <1>2, <1>3
<1>6. ASSUME AllLoad(p, u)
      PROVE  /\ ImportsCached(u, CacheAfterLoading(p, u))
             /\ LoadedDeps(p, u) = [d \in Imports[u] |-> CacheAfterLoading(p, u)[d]]
  <2>1. \A d \in Imports[u] : CacheAfterLoading(p, u)[d] = LoadedDeps(p, u)[d]
      BY <1>1, <1>3, <1>6 DEF AllLoad
  <2>2. ImportsCached(u, CacheAfterLoading(p, u))
      BY <1>2, <2>1 DEF ImportsCached
  <2>3. LoadedDeps(p, u) = [d \in Imports[u] |-> LoadedDeps(p, u)[d]]
      BY DEF LoadedDeps
  <2> QED
      BY <2>1, <2>2, <2>3
<1> QED
    BY <1>4, <1>5, <1>6

\* A step of the innermost call that loads, and no more.
LEMMA LoadGo ==
    ASSUME BuildInv, project' = project, NEW p \in Processes, Building(p), Stack(p) # <<>>,
           UNCHANGED storeVars, UNCHANGED worldVars,
           NEW cache \in [Units -> Versions \union {None}],
           \A d \in Units : coordinator[p].cache[d] \in Versions
                                => cache[d] = coordinator[p].cache[d],
           NEW f \in Frames, FrameFits(coordinator[p].known, cache, f),
           coordinator' = [coordinator EXCEPT ![p].cache = cache, ![p].stack = SetTop(p, f)],
           coordinator[p].alone => OutputKnown(output, f),
           Untouched => ObjectsKnown(good, f),
           MergesTakeTurns => IndexKnown(p, holders, index, Executables, f)
    PROVE  BuildInv'
<1>1. coordinator' = [coordinator EXCEPT ![p] =
               [known |-> coordinator[p].known, cache |-> cache,
                stack |-> SetTop(p, f), rebuild |-> coordinator[p].rebuild,
                alone |-> coordinator[p].alone]]
    BY CacheForm DEF BuildInv
<1> QED
    BY <1>1, QuietStep

LEMMA CheckDepsStep ==
    ASSUME BuildInv, project' = project, NEW p \in Processes, CheckDeps(p)
    PROVE  BuildInv'
<1> DEFINE t == Top(p)
           u == t.unit
           known == coordinator[p].known
           cache == CacheAfterLoading(p, u)
           same == DepsMatch(p) /\ (u \in Executables \/ SourceMatches(p))
           next == IF same THEN "reused" ELSE "compile"
           f == [t EXCEPT !.pc = next]
<1>1. /\ Types /\ Building(p) /\ Stack(p) # <<>> /\ t \in Frames /\ u \in Units
      /\ t.pc = "deps" /\ FrameFits(known, coordinator[p].cache, t) /\ TopFits(p)
    BY AtTop DEF CheckDeps
<1>2. /\ coordinator' = [coordinator EXCEPT ![p].cache = cache, ![p].stack = SetTop(p, f)]
      /\ UNCHANGED storeVars /\ UNCHANGED worldVars
    BY DEF CheckDeps
<1>3. /\ cache \in [Units -> Versions \union {None}]
      /\ \A d \in Units : coordinator[p].cache[d] \in Versions
             => cache[d] = coordinator[p].cache[d]
      /\ AllLoad(p, u) => /\ ImportsCached(u, cache)
                          /\ LoadedDeps(p, u) = [d \in Imports[u] |-> cache[d]]
    BY <1>1, Loading
<1>4. /\ t.source \in Versions /\ t.saw \in ContentOf(u)
      /\ u \in Executables => /\ known[u] \in RecordOf(u)
                              /\ known[u].source = t.source /\ known[u].output = t.saw
      /\ coordinator[p].alone => output[u] = t.saw
    BY <1>1 DEF FrameFits, TopFits, OutputKnown
<1>5. ASSUME same
      PROVE  ImportsCached(u, cache) /\ t.saw = Compiled(u, t.source, cache)
  <2>1. AllLoad(p, u) /\ LoadedDeps(p, u) = RecordedDeps(p)
      BY <1>5 DEF DepsMatch
  <2>2. t.saw = Content(u, t.saw.source, t.saw.deps)
      BY <1>1, <1>4, ContentTypes
  <2>3. CASE u \in Executables
    <3>1. RecordedDeps(p) = known[u].deps
        BY <2>3 DEF RecordedDeps
    <3>2. /\ known[u].output = known[u].artifact /\ known[u].source = known[u].artifact.source
          /\ known[u].deps = known[u].artifact.deps
        BY <1>1, <1>4, <2>3, ContentTypes
    <3>3. t.saw.source = t.source /\ t.saw.deps = [d \in Imports[u] |-> cache[d]]
        BY <1>3, <1>4, <2>1, <2>3, <3>1, <3>2
    <3> QED
        BY <1>3, <2>1, <2>2, <3>3 DEF Compiled
  <2>4. CASE u \notin Executables
    <3>1. RecordedDeps(p) = t.saw.deps /\ t.saw.source = t.source
        BY <1>5, <2>4 DEF RecordedDeps, SourceMatches
    <3> QED
        BY <1>3, <2>1, <2>2, <3>1 DEF Compiled
  <2> QED
      BY <2>3, <2>4
<1> HIDE DEF t, cache, same
<1>6. /\ f \in Frames /\ f.pc = next /\ next \in {"reused", "compile"}
      /\ f.unit = u /\ f.source = t.source /\ f.saw = t.saw
    BY <1>1 DEF Frames
<1> HIDE DEF f
<1>7. FrameFits(known, cache, f)
    BY <1>4, <1>5, <1>6 DEF FrameFits, Published
<1>8. /\ coordinator[p].alone => OutputKnown(output, f)
      /\ ObjectsKnown(good, f) /\ IndexKnown(p, holders, index, Executables, f)
    BY <1>4, <1>6 DEF OutputKnown, ObjectsKnown, IndexKnown, Published
<1> QED
    BY <1>1, <1>2, <1>3, <1>6, <1>7, <1>8, LoadGo

LEMMA CompileStep ==
    ASSUME BuildInv, project' = project, NEW p \in Processes, Compile(p)
    PROVE  BuildInv'
<1> DEFINE t == Top(p)
           u == t.unit
           known == coordinator[p].known
           cache == CacheAfterLoading(p, u)
<1>1. /\ Types /\ Building(p) /\ Stack(p) # <<>> /\ t \in Frames /\ u \in Units
      /\ t.pc = "compile" /\ FrameFits(known, coordinator[p].cache, t)
    BY AtTop DEF Compile
<1>2. t.source \in Versions
    BY <1>1 DEF FrameFits
<1>3. UNCHANGED storeVars /\ UNCHANGED worldVars
    BY DEF Compile
<1>4. CASE Compiles(p)
  <2> DEFINE content == Content(u, t.source, LoadedDeps(p, u))
             todo == IF u \in Executables THEN {} ELSE Imports[u]
             f == [t EXCEPT !.content = content, !.saw = None, !.todo = todo, !.pc = "nested"]
  <2>1. coordinator' = [coordinator EXCEPT ![p].cache = cache, ![p].stack = SetTop(p, f)]
      BY <1>4 DEF Compile
  <2>2. /\ cache \in [Units -> Versions \union {None}]
        /\ \A d \in Units : coordinator[p].cache[d] \in Versions
               => cache[d] = coordinator[p].cache[d]
        /\ AllLoad(p, u) => /\ ImportsCached(u, cache)
                            /\ LoadedDeps(p, u) = [d \in Imports[u] |-> cache[d]]
      BY <1>1, Loading
  <2>3. ImportsCached(u, cache) /\ content = Compiled(u, t.source, cache)
      BY <1>4, <2>2 DEF Compiles, Compiled
  <2>4. content \in ContentOf(u)
      BY <1>1, <1>2, <2>3, CompiledType
  <2>5. content \in Contents
      BY <1>1, <2>4, ContentTypes
  <2>6. todo \subseteq Units
      BY <1>1, ProjectTypes DEF Types
  <2> HIDE DEF t, content, todo, cache
  <2>7. f \in Frames /\ f.pc = "nested" /\ f.unit = u /\ f.source = t.source /\ f.content = content
      BY <1>1, <2>5, <2>6 DEF Frames
  <2> HIDE DEF f
  <2>8. FrameFits(known, cache, f)
      BY <1>2, <2>3, <2>7 DEF FrameFits, Published
  <2>9. OutputKnown(output, f) /\ ObjectsKnown(good, f)
        /\ IndexKnown(p, holders, index, Executables, f)
      BY <2>7 DEF OutputKnown, ObjectsKnown, IndexKnown, Published
  <2> QED
      BY <1>1, <1>3, <2>1, <2>2, <2>7, <2>8, <2>9, LoadGo
<1>5. CASE ~Compiles(p)
  <2> DEFINE f == [t EXCEPT !.pc = "failed", !.failed = "compile"]
  <2>1. coordinator' = [coordinator EXCEPT ![p].stack = SetTop(p, f)]
      BY <1>5 DEF Compile, Failing, Go
  <2> HIDE DEF t
  <2>2. f \in Frames /\ f.pc = "failed"
      BY <1>1 DEF Frames
  <2> HIDE DEF f
  <2> QED
      BY <1>1, <1>3, <2>1, <2>2, PlainGo
<1> QED
    BY <1>4, <1>5

-----------------------------------------------------------------------------
(* Steps of the innermost call that change the store.                      *)

LEMMA StoreGo ==
    ASSUME BuildInv, project' = project, NEW p \in Processes, Building(p), Stack(p) # <<>>,
           NEW f \in Frames, FrameFits(coordinator[p].known, coordinator[p].cache, f),
           coordinator' = [coordinator EXCEPT ![p].stack = SetTop(p, f)],
           StoreTypes', IndexClosed', NoLostUpdate',
           coordinator[p].alone => OutputKnown(output', f),
           Untouched => ObjectsKnown(good', f),
           MergesTakeTurns => IndexKnown(p, holders', index', Executables, f),
           Untouched => good \subseteq good',
           MergesTakeTurns => \A q \in Processes \ {p} :
               holders = {q} => holders' = {q} /\ index' = index
    PROVE  BuildInv'
<1>1. coordinator' = [coordinator EXCEPT ![p] =
               [known |-> coordinator[p].known, cache |-> coordinator[p].cache,
                stack |-> SetTop(p, f), rebuild |-> coordinator[p].rebuild,
                alone |-> coordinator[p].alone]]
    BY StackForm DEF BuildInv
<1>2. /\ coordinator[p].known \in [Units -> Records \union {None}]
      /\ OwnRecords(coordinator[p].known)
      /\ coordinator[p].cache \in [Units -> Versions \union {None}]
    BY ProcessTypes DEF BuildInv
<1> DEFINE known == coordinator[p].known
           cache == coordinator[p].cache
<1>3. known = coordinator[p].known /\ cache = coordinator[p].cache
    OBVIOUS
<1> HIDE DEF known, cache
<1> QED
    BY <1>1, <1>2, <1>3, TopStep

\* publish_output writes what belongs to the unit.
LEMMA OutputStays ==
    ASSUME StoreTypes, IndexClosed, NoLostUpdate, project' = project,
           NEW u \in Units, NEW content \in ContentOf(u), OutputWritten(u, content),
           UNCHANGED <<objectVars, indexVars, lockVars, reachable, worldVars>>
    PROVE  /\ StoreTypes' /\ IndexClosed' /\ NoLostUpdate'
           /\ output' = [output EXCEPT ![u] = content] /\ output'[u] = content
           /\ good' = good /\ holders' = holders /\ index' = index
<1>1. /\ good' = good /\ corrupt' = corrupt /\ index' = index /\ damaged' = damaged
      /\ merged' = merged /\ holders' = holders /\ stale' = stale /\ present' = present
      /\ reachable' = reachable /\ disk' = disk /\ edits' = edits
      /\ output' = [output EXCEPT ![u] = content]
    BY DEF objectVars, indexVars, lockVars, worldVars, OutputWritten
<1>2. content \in Contents
    BY ContentTypes
<1>3. output' \in [Units -> Contents \union {None}]
    BY <1>1, <1>2 DEF StoreTypes
<1>4. \A v \in Units : output'[v] = None \/ output'[v] \in ContentOf(v)
    BY <1>1 DEF StoreTypes
<1>5. output'[u] = content
    BY <1>1 DEF StoreTypes
<1>6. StoreTypes'
    BY <1>1, <1>3, <1>4, SameProject DEF StoreTypes, OwnRecords
<1> QED
    BY <1>1, <1>5, <1>6, SameProject DEF IndexClosed, NoLostUpdate

LEMMA RepublishStep ==
    ASSUME BuildInv, project' = project, NEW p \in Processes, Republish(p)
    PROVE  BuildInv'
<1> DEFINE t == Top(p)
           f == [t EXCEPT !.pc = "check", !.content = None, !.restored = TRUE]
<1>1. /\ Types /\ Building(p) /\ Stack(p) # <<>> /\ t \in Frames /\ t.unit \in Units
      /\ t.pc = "republish" /\ FrameFits(coordinator[p].known, coordinator[p].cache, t)
    BY AtTop DEF Republish
<1>2. t.source \in Versions /\ t.content \in ContentOf(t.unit)
    BY <1>1 DEF FrameFits
<1>3. /\ OutputWritten(t.unit, t.content)
      /\ UNCHANGED <<objectVars, indexVars, lockVars, reachable, worldVars>>
      /\ coordinator' = [coordinator EXCEPT ![p].stack = SetTop(p, f)]
    BY DEF Republish, Go
<1>4. StoreTypes /\ IndexClosed /\ NoLostUpdate
    BY TypesApart DEF BuildInv
<1>5. /\ StoreTypes' /\ IndexClosed' /\ NoLostUpdate'
      /\ good' = good /\ holders' = holders /\ index' = index
    BY <1>1, <1>2, <1>3, <1>4, OutputStays
<1> HIDE DEF t
<1>6. f \in Frames /\ f.pc = "check" /\ f.source \in Versions
    BY <1>1, <1>2 DEF Frames
<1> HIDE DEF f
<1>7. FrameFits(coordinator[p].known, coordinator[p].cache, f)
    BY <1>6 DEF FrameFits, Published
<1>8. OutputKnown(output', f) /\ ObjectsKnown(good', f)
      /\ IndexKnown(p, holders', index', Executables, f)
    BY <1>6 DEF OutputKnown, ObjectsKnown, IndexKnown, Published
<1>9. coordinator' = [coordinator EXCEPT ![p].stack = SetTop(p, f)]
    BY <1>3 DEF f
<1> QED
    BY <1>1, <1>5, <1>6, <1>7, <1>8, <1>9, StoreGo

LEMMA PublishOutputStep ==
    ASSUME BuildInv, project' = project, NEW p \in Processes, PublishOutput(p)
    PROVE  BuildInv'
<1> DEFINE t == Top(p)
           f == [t EXCEPT !.pc = "verify"]
           cache == coordinator[p].cache
<1>1. /\ Types /\ Building(p) /\ Stack(p) # <<>> /\ t \in Frames /\ t.unit \in Units
      /\ t.pc = "publish" /\ FrameFits(coordinator[p].known, cache, t)
    BY AtTop DEF PublishOutput
<1>2. /\ t.source \in Versions /\ ImportsCached(t.unit, cache)
      /\ t.content = Compiled(t.unit, t.source, cache)
    BY <1>1 DEF FrameFits
<1>3. /\ OutputWritten(t.unit, t.content)
      /\ UNCHANGED <<objectVars, indexVars, lockVars, reachable, worldVars>>
      /\ coordinator' = [coordinator EXCEPT ![p].stack = SetTop(p, f)]
    BY DEF PublishOutput, Go, GoTo
<1>4. StoreTypes /\ IndexClosed /\ NoLostUpdate
    BY TypesApart DEF BuildInv
<1>5. t.content \in ContentOf(t.unit)
    BY <1>1, <1>2, CompiledType
<1>6. /\ StoreTypes' /\ IndexClosed' /\ NoLostUpdate' /\ output'[t.unit] = t.content
      /\ good' = good /\ holders' = holders /\ index' = index
    BY <1>1, <1>3, <1>4, <1>5, OutputStays
<1> HIDE DEF t
<1>7. f \in Frames /\ f.pc = "verify" /\ f.source = t.source /\ f.unit = t.unit /\ f.content = t.content
    BY <1>1 DEF Frames
<1> HIDE DEF f
<1>8. FrameFits(coordinator[p].known, cache, f)
    BY <1>2, <1>7 DEF FrameFits, Published
<1>9. OutputKnown(output', f) /\ ObjectsKnown(good', f)
      /\ IndexKnown(p, holders', index', Executables, f)
    BY <1>6, <1>7 DEF OutputKnown, ObjectsKnown, IndexKnown, Published
<1>10. coordinator' = [coordinator EXCEPT ![p].stack = SetTop(p, f)]
    BY <1>3 DEF f
<1> QED
    BY <1>1, <1>6, <1>7, <1>8, <1>9, <1>10, StoreGo

LEMMA ImportsBuiltStep ==
    ASSUME BuildInv, project' = project, NEW p \in Processes, ImportsBuilt(p)
    PROVE  BuildInv'
<1> DEFINE t == Top(p)
           f == [t EXCEPT !.pc = "put"]
           cache == coordinator[p].cache
<1>1. /\ Types /\ Building(p) /\ Stack(p) # <<>> /\ t \in Frames /\ t.unit \in Units
      /\ t.pc = "nested" /\ FrameFits(coordinator[p].known, cache, t)
    BY AtTop DEF ImportsBuilt
<1>2. /\ t.source \in Versions /\ ImportsCached(t.unit, cache)
      /\ t.content = Compiled(t.unit, t.source, cache)
    BY <1>1 DEF FrameFits
<1>3. /\ UNCHANGED storeVars /\ UNCHANGED worldVars
      /\ coordinator' = [coordinator EXCEPT ![p].stack = SetTop(p, f)]
    BY DEF ImportsBuilt, Go, GoTo
<1> HIDE DEF t
<1>4. f \in Frames /\ f.pc = "put" /\ f.source = t.source /\ f.unit = t.unit /\ f.content = t.content
    BY <1>1 DEF Frames
<1> HIDE DEF f
<1>5. FrameFits(coordinator[p].known, cache, f)
    BY <1>2, <1>4 DEF FrameFits, Published
<1>6. OutputKnown(output, f) /\ ObjectsKnown(good, f)
      /\ IndexKnown(p, holders, index, Executables, f)
    BY <1>4 DEF OutputKnown, ObjectsKnown, IndexKnown, Published
<1> QED
    BY <1>1, <1>3, <1>4, <1>5, <1>6, QuietGo

LEMMA NoLockFileStep ==
    ASSUME BuildInv, project' = project, NEW p \in Processes, NoLockFile(p)
    PROVE  BuildInv'
<1> DEFINE t == Top(p)
           f == [t EXCEPT !.pc = "failed", !.failed = "store"]
<1>1. Types /\ Building(p) /\ Stack(p) # <<>> /\ t \in Frames
    BY AtTop DEF NoLockFile
<1>2. /\ UNCHANGED storeVars /\ UNCHANGED worldVars
      /\ coordinator' = [coordinator EXCEPT ![p].stack = SetTop(p, f)]
    BY DEF NoLockFile, Go, Failing
<1> HIDE DEF t
<1>3. f \in Frames /\ f.pc = "failed"
    BY <1>1 DEF Frames
<1> HIDE DEF f
<1> QED
    BY <1>1, <1>2, <1>3, PlainGo

LEMMA PutObjectStep ==
    ASSUME BuildInv, project' = project, NEW p \in Processes, PutObject(p)
    PROVE  BuildInv'
<1> DEFINE t == Top(p)
           next == IF Readable(t.content) THEN "publish" ELSE "write"
           f == [t EXCEPT !.pc = next]
           cache == coordinator[p].cache
<1>1. /\ Types /\ Building(p) /\ Stack(p) # <<>> /\ t \in Frames /\ t.unit \in Units
      /\ t.pc = "put" /\ FrameFits(coordinator[p].known, cache, t)
    BY AtTop DEF PutObject
<1>2. /\ t.source \in Versions /\ ImportsCached(t.unit, cache)
      /\ t.content = Compiled(t.unit, t.source, cache)
    BY <1>1 DEF FrameFits
<1>3. /\ good' = good /\ index' = index /\ damaged' = damaged /\ merged' = merged
      /\ output' = output /\ reachable' = reachable /\ disk' = disk /\ edits' = edits
      /\ corrupt' \subseteq corrupt /\ stale' = stale /\ present' = present
      /\ holders = {} /\ holders' \subseteq {p}
      /\ HasFlock /\ next = "write" => holders' = {p}
    BY DEF PutObject, Readable, LockFree, Unlinked, Locked, objectVars, indexVars, lockVars, worldVars
<1>4. coordinator' = [coordinator EXCEPT ![p].stack = SetTop(p, f)]
  <2>1. CASE Readable(t.content)
      BY <2>1 DEF PutObject, Go, GoTo
  <2>2. CASE ~Readable(t.content)
      BY <2>2 DEF PutObject, Go, GoTo
  <2> QED
      BY <2>1, <2>2
<1>5. StoreTypes /\ IndexClosed /\ NoLostUpdate
    BY TypesApart DEF BuildInv
<1>6. StoreTypes' /\ IndexClosed' /\ NoLostUpdate'
  <2>1. StoreTypes'
      BY <1>3, <1>5, SameProject DEF StoreTypes, OwnRecords
  <2> QED
      BY <1>3, <1>5, <2>1, SameProject DEF IndexClosed, NoLostUpdate
<1> HIDE DEF t
<1>7. /\ f \in Frames /\ f.pc = next /\ f.source = t.source /\ f.unit = t.unit
      /\ f.content = t.content /\ next \in {"publish", "write"}
    BY <1>1 DEF Frames
<1>8. coordinator' = [coordinator EXCEPT ![p].stack = SetTop(p, f)]
    BY <1>4 DEF t
<1> HIDE DEF f, next
<1>9. FrameFits(coordinator[p].known, cache, f)
    BY <1>2, <1>7 DEF FrameFits, Published
<1>10. /\ OutputKnown(output', f) /\ ObjectsKnown(good', f)
       /\ MergesTakeTurns => IndexKnown(p, holders', index', Executables, f)
    BY <1>3, <1>7 DEF OutputKnown, ObjectsKnown, IndexKnown, Published, MergesTakeTurns
<1>11. \A q \in Processes \ {p} : holders = {q} => holders' = {q} /\ index' = index
    BY <1>3
<1>12. good \subseteq good'
    BY <1>3
<1> QED
    BY <1>1, <1>6, <1>7, <1>8, <1>9, <1>10, <1>11, <1>12, StoreGo

LEMMA WriteObjectStep ==
    ASSUME BuildInv, project' = project, NEW p \in Processes, WriteObject(p)
    PROVE  BuildInv'
<1> DEFINE t == Top(p)
           f == [t EXCEPT !.pc = "publish"]
           cache == coordinator[p].cache
<1>1. /\ Types /\ Building(p) /\ Stack(p) # <<>> /\ t \in Frames /\ t.unit \in Units
      /\ t.pc = "write" /\ FrameFits(coordinator[p].known, cache, t)
    BY AtTop DEF WriteObject
<1>2. /\ t.source \in Versions /\ ImportsCached(t.unit, cache)
      /\ t.content = Compiled(t.unit, t.source, cache)
    BY <1>1 DEF FrameFits
<1>3. /\ index' = index /\ damaged' = damaged /\ merged' = merged
      /\ output' = output /\ reachable' = reachable /\ disk' = disk /\ edits' = edits
      /\ good' = good \union {t.content} /\ corrupt' = corrupt \ {t.content}
      /\ holders' = holders \ {p} /\ stale' = stale \ {p} /\ present' = present
    BY DEF WriteObject, Stored, Unlocked, indexVars, worldVars
<1>4. coordinator' = [coordinator EXCEPT ![p].stack = SetTop(p, f)]
    BY DEF WriteObject, Go, GoTo
<1>5. StoreTypes /\ IndexClosed /\ NoLostUpdate
    BY TypesApart DEF BuildInv
<1>6. StoreTypes' /\ IndexClosed' /\ NoLostUpdate'
  <2>1. t.content \in ContentOf(t.unit)
      BY <1>1, <1>2, CompiledType
  <2>2. t.content \in Contents
      BY <1>1, <2>1, ContentTypes
  <2> HIDE DEF t
  <2>3. StoreTypes'
      BY <1>3, <1>5, <2>2, SameProject DEF StoreTypes, OwnRecords
  <2> QED
      BY <1>3, <1>5, <2>3, SameProject DEF IndexClosed, NoLostUpdate
<1> HIDE DEF t
<1>7. f \in Frames /\ f.pc = "publish" /\ f.source = t.source /\ f.unit = t.unit /\ f.content = t.content
    BY <1>1 DEF Frames
<1>8. coordinator' = [coordinator EXCEPT ![p].stack = SetTop(p, f)]
    BY <1>4 DEF t
<1> HIDE DEF f
<1>9. FrameFits(coordinator[p].known, cache, f)
    BY <1>2, <1>7 DEF FrameFits, Published
<1>10. OutputKnown(output', f) /\ ObjectsKnown(good', f)
       /\ IndexKnown(p, holders', index', Executables, f)
    BY <1>7 DEF OutputKnown, ObjectsKnown, IndexKnown, Published
<1>11. \A q \in Processes \ {p} : holders = {q} => holders' = {q} /\ index' = index
    BY <1>3
<1>12. good \subseteq good'
    BY <1>3
<1> QED
    BY <1>1, <1>6, <1>7, <1>8, <1>9, <1>10, <1>11, <1>12, StoreGo

LEMMA VerifyObjectStep ==
    ASSUME BuildInv, project' = project, NEW p \in Processes, VerifyObject(p)
    PROVE  BuildInv'
<1> DEFINE t == Top(p)
           cache == coordinator[p].cache
<1>1. /\ Types /\ Building(p) /\ Stack(p) # <<>> /\ t \in Frames /\ t.unit \in Units
      /\ t.pc = "verify" /\ FrameFits(coordinator[p].known, cache, t) /\ TopFits(p)
    BY AtTop DEF VerifyObject
<1>2. /\ t.source \in Versions /\ ImportsCached(t.unit, cache)
      /\ t.content = Compiled(t.unit, t.source, cache)
      /\ coordinator[p].alone => output[t.unit] = t.content
    BY <1>1 DEF FrameFits, TopFits, OutputKnown, Published
<1>3. UNCHANGED storeVars /\ UNCHANGED worldVars
    BY DEF VerifyObject
<1>4. CASE Readable(t.content)
  <2> DEFINE f == [t EXCEPT !.pc = "merge"]
  <2>1. coordinator' = [coordinator EXCEPT ![p].stack = SetTop(p, f)]
      BY <1>4 DEF VerifyObject, Go, GoTo
  <2>2. t.content \in good
      BY <1>4 DEF Readable
  <2> HIDE DEF t
  <2>3. f \in Frames /\ f.pc = "merge" /\ f.source = t.source /\ f.unit = t.unit /\ f.content = t.content
      BY <1>1 DEF Frames
  <2> HIDE DEF f
  <2>4. FrameFits(coordinator[p].known, cache, f)
      BY <1>2, <2>3 DEF FrameFits, Published
  <2>5. /\ coordinator[p].alone => OutputKnown(output, f)
        /\ ObjectsKnown(good, f) /\ IndexKnown(p, holders, index, Executables, f)
      BY <1>2, <2>2, <2>3 DEF OutputKnown, ObjectsKnown, IndexKnown, Published
  <2> QED
      BY <1>1, <1>3, <2>1, <2>3, <2>4, <2>5, QuietGo
<1>5. CASE ~Readable(t.content)
  <2> DEFINE f == [t EXCEPT !.pc = "failed", !.failed = "store"]
  <2>1. coordinator' = [coordinator EXCEPT ![p].stack = SetTop(p, f)]
      BY <1>5 DEF VerifyObject, Failing, Go
  <2> HIDE DEF t
  <2>2. f \in Frames /\ f.pc = "failed"
      BY <1>1 DEF Frames
  <2> HIDE DEF f
  <2> QED
      BY <1>1, <1>3, <2>1, <2>2, PlainGo
<1> QED
    BY <1>4, <1>5

LEMMA ReadIndexStep ==
    ASSUME BuildInv, project' = project, NEW p \in Processes, ReadIndex(p)
    PROVE  BuildInv'
<1> DEFINE t == Top(p)
           cache == coordinator[p].cache
<1>1. /\ Types /\ Building(p) /\ Stack(p) # <<>> /\ t \in Frames /\ t.unit \in Units
      /\ t.pc = "merge" /\ FrameFits(coordinator[p].known, cache, t) /\ TopFits(p)
    BY AtTop DEF ReadIndex
<1>2. /\ t.source \in Versions /\ ImportsCached(t.unit, cache)
      /\ t.content = Compiled(t.unit, t.source, cache)
      /\ coordinator[p].alone => output[t.unit] = t.content
      /\ Untouched => t.content \in good
    BY <1>1 DEF FrameFits, TopFits, OutputKnown, ObjectsKnown, Published
<1>3. CASE IndexName(t.unit) \in damaged
  <2> DEFINE f == [t EXCEPT !.pc = "failed", !.failed = "store"]
  <2>1. /\ coordinator' = [coordinator EXCEPT ![p].stack = SetTop(p, f)]
        /\ UNCHANGED storeVars /\ UNCHANGED worldVars
      BY <1>3 DEF ReadIndex, Failing, Go, storeVars
  <2> HIDE DEF t
  <2>2. f \in Frames /\ f.pc = "failed"
      BY <1>1 DEF Frames
  <2> HIDE DEF f
  <2> QED
      BY <1>1, <2>1, <2>2, PlainGo
<1>4. CASE IndexName(t.unit) \notin damaged
  <2> DEFINE records == RecordsWith(t.unit)
             f == [t EXCEPT !.records = records, !.pc = "record"]
  <2>1. coordinator' = [coordinator EXCEPT ![p].stack = SetTop(p, f)]
      BY <1>4 DEF ReadIndex, Go
  <2>2. /\ good' = good /\ corrupt' = corrupt
        /\ index' = index /\ damaged' = damaged /\ merged' = merged
        /\ output' = output /\ reachable' = reachable /\ disk' = disk /\ edits' = edits
        /\ holders = {} /\ holders' \subseteq {p} /\ (HasFlock => holders' = {p})
        /\ stale' = stale /\ present' = present
      BY <1>4 DEF ReadIndex, LockFree, Locked, objectVars, indexVars, lockVars, worldVars
  <2>3. StoreTypes /\ IndexClosed /\ NoLostUpdate
      BY TypesApart DEF BuildInv
  <2>4. StoreTypes' /\ IndexClosed' /\ NoLostUpdate'
    <3>1. StoreTypes'
        BY <2>2, <2>3, SameProject DEF StoreTypes, OwnRecords
    <3> QED
        BY <2>2, <2>3, <3>1, SameProject DEF IndexClosed, NoLostUpdate
  <2>5. /\ records \in [Units -> Records \union {None}] /\ OwnRecords(records)
        /\ \A v \in Units : records[v] \in {None, index[v]}
        /\ \A v \in Units : (v \in Executables <=> t.unit \in Executables) => records[v] = index[v]
      BY <2>3 DEF RecordsWith, StoreTypes, OwnRecords, IndexName
  <2>6. Untouched => \A v \in Units : records[v] # None => records[v].artifact \in good
      BY <2>3, <2>5 DEF IndexClosed, Untouched
  <2> HIDE DEF t, records
  <2>7. /\ f \in Frames /\ f.pc = "record" /\ f.source = t.source /\ f.unit = t.unit
        /\ f.content = t.content /\ f.records = records
      BY <1>1, <2>5 DEF Frames
  <2>8. coordinator' = [coordinator EXCEPT ![p].stack = SetTop(p, f)]
      BY <2>1 DEF t, records
  <2> HIDE DEF f
  <2>9. FrameFits(coordinator[p].known, cache, f)
      BY <1>2, <2>5, <2>7 DEF FrameFits, Published
  <2>10. /\ coordinator[p].alone => OutputKnown(output', f)
         /\ Untouched => ObjectsKnown(good', f)
         /\ MergesTakeTurns => IndexKnown(p, holders', index', Executables, f)
      BY <1>2, <2>2, <2>5, <2>6, <2>7
         DEF OutputKnown, ObjectsKnown, IndexKnown, Published, MergesTakeTurns
  <2>11. \A q \in Processes \ {p} : holders = {q} => holders' = {q} /\ index' = index
      BY <2>2
  <2>12. good \subseteq good'
      BY <2>2
  <2> QED
      BY <1>1, <2>4, <2>7, <2>8, <2>9, <2>10, <2>11, <2>12, StoreGo
<1> QED
    BY <1>3, <1>4

LEMMA WriteIndexStep ==
    ASSUME BuildInv, project' = project, NEW p \in Processes, WriteIndex(p)
    PROVE  BuildInv'
<1> DEFINE t == Top(p)
           u == t.unit
           cache == coordinator[p].cache
           before == coordinator[p].known
           records == t.records
           record == Record(t.content)
           known == Learned(before, u, records, record)
           f == [t EXCEPT !.records = None, !.pc = "built"]
<1>1. /\ Types /\ Building(p) /\ Stack(p) # <<>> /\ t \in Frames /\ u \in Units
      /\ t.pc = "record" /\ FrameFits(before, cache, t) /\ TopFits(p)
    BY AtTop DEF WriteIndex
<1>2. /\ t.source \in Versions /\ ImportsCached(u, cache)
      /\ t.content = Compiled(u, t.source, cache)
      /\ records \in [Units -> Records \union {None}] /\ OwnRecords(records)
      /\ coordinator[p].alone => output[u] = t.content
      /\ Untouched => /\ t.content \in good
                      /\ \A v \in Units : records[v] # None => records[v].artifact \in good
      /\ MergesTakeTurns => /\ holders = {p}
                                  /\ \A v \in Units : (v \in Executables <=> u \in Executables)
                                        => records[v] = index[v]
    BY <1>1 DEF FrameFits, TopFits, OutputKnown, ObjectsKnown, IndexKnown, Published
<1>3. /\ good' = good /\ corrupt' = corrupt /\ output' = output /\ reachable' = reachable
      /\ disk' = disk /\ edits' = edits
      /\ holders' = holders \ {p} /\ stale' = stale \ {p} /\ present' = present
      /\ index' = [v \in Units |->
                      CASE v = u -> record
                        [] v # u /\ IndexName(v) = IndexName(u) -> records[v]
                        [] OTHER -> index[v]]
      /\ damaged' = damaged \ {IndexName(u)}
      /\ merged' = [merged EXCEPT ![u] = record]
    BY DEF WriteIndex, IndexWritten, Unlocked, objectVars, worldVars
<1>4. coordinator' = [coordinator EXCEPT ![p].known = known, ![p].stack = SetTop(p, f)]
    BY DEF WriteIndex
<1>5. /\ before \in [Units -> Records \union {None}] /\ OwnRecords(before)
      /\ cache \in [Units -> Versions \union {None}]
    BY <1>1, ProcessTypes
<1>6. record \in RecordOf(u) /\ record.artifact = t.content
  <2>1. t.content \in ContentOf(u)
      BY <1>1, <1>2, CompiledType
  <2> QED
      BY <1>1, <2>1, ContentTypes DEF Record
<1>7. \A v \in Units : RecordOf(v) \subseteq Records
    BY ContentTypes
<1> HIDE DEF t, record
<1>8. known \in [Units -> Records \union {None}] /\ OwnRecords(known)
  <2>1. \A v \in Units : known[v] \in {record, records[v], before[v]} /\ (v = u => known[v] = record)
                         /\ (v # u => known[v] \in {records[v], before[v]})
      BY DEF Learned
  <2>2. \A v \in Units : known[v] = None \/ known[v] \in RecordOf(v)
      BY <1>2, <1>5, <1>6, <2>1 DEF OwnRecords
  <2>3. known = [v \in Units |-> known[v]]
      BY DEF Learned
  <2> HIDE DEF known
  <2> QED
      BY <1>7, <2>2, <2>3 DEF OwnRecords
<1>9. StoreTypes /\ IndexClosed /\ NoLostUpdate
    BY TypesApart DEF BuildInv
<1>10. /\ \A v \in Units : /\ v = u => index'[v] = record
                           /\ v # u /\ IndexName(v) = IndexName(u) => index'[v] = records[v]
                           /\ v # u /\ IndexName(v) # IndexName(u) => index'[v] = index[v]
       /\ index' = [v \in Units |-> index'[v]]
  <2> HIDE DEF u, records
  <2> QED
      BY <1>3
<1>11. StoreTypes' /\ IndexClosed' /\ NoLostUpdate'
  <2>1. \A v \in Units : index'[v] = None \/ index'[v] \in RecordOf(v)
      BY <1>2, <1>6, <1>9, <1>10 DEF OwnRecords, StoreTypes
  <2>2. index' \in [Units -> Records \union {None}]
      BY <1>7, <1>10, <2>1
  <2>3. merged' \in [Units -> Records \union {None}]
      BY <1>1, <1>3, <1>6, <1>7, <1>9 DEF StoreTypes
  <2>4. StoreTypes'
      BY <1>3, <1>9, <2>1, <2>2, <2>3, SameProject DEF StoreTypes, OwnRecords
  <2>5. IndexClosed'
    <3>1. Untouched => \A v \in Units : index'[v] # None => index'[v].artifact \in good
        BY <1>2, <1>6, <1>9, <1>10 DEF IndexClosed, Untouched
    <3> QED
        BY <1>3, <3>1, SameProject DEF IndexClosed, Untouched
  <2>6. NoLostUpdate'
    <3>1. ASSUME MergesTakeTurns, NEW v \in Units, merged'[v] # None
          PROVE  index'[v] = merged'[v]
      <4>1. CASE v = u
          BY <1>1, <1>3, <1>9, <1>10, <4>1 DEF StoreTypes
      <4>2. CASE v # u
        <5>1. merged'[v] = merged[v] /\ index[v] = merged[v]
            BY <1>3, <1>9, <3>1, <4>2 DEF StoreTypes, NoLostUpdate
        <5>2. IndexName(v) = IndexName(u) => records[v] = index[v]
            BY <1>2, <3>1 DEF IndexName
        <5> QED
            BY <1>10, <4>2, <5>1, <5>2
      <4> QED
          BY <4>1, <4>2
    <3> QED
        BY <3>1, SameProject DEF NoLostUpdate
  <2> QED
      BY <2>4, <2>5, <2>6
<1>12. f \in Frames /\ f.pc = "built" /\ f.source = t.source /\ f.unit = u /\ f.content = t.content
    BY <1>1 DEF Frames
<1> HIDE DEF f, known, u, records
<1>13. FrameFits(known, cache, f)
    BY <1>2, <1>12 DEF FrameFits, Published
<1>14. /\ coordinator[p].alone => OutputKnown(output', f)
       /\ ObjectsKnown(good', f) /\ IndexKnown(p, holders', index', Executables, f)
    BY <1>2, <1>3, <1>12 DEF OutputKnown, ObjectsKnown, IndexKnown, Published
<1>15. MergesTakeTurns => \A q \in Processes \ {p} :
          holders = {q} => holders' = {q} /\ index' = index
    BY <1>2
<1>16. coordinator' = [coordinator EXCEPT ![p] =
               [known |-> known, cache |-> cache,
                stack |-> SetTop(p, f), rebuild |-> coordinator[p].rebuild,
                alone |-> coordinator[p].alone]]
    BY <1>1, <1>4, KnownForm
<1>17. \A d \in Units : coordinator[p].cache[d] \in Versions => cache[d] = coordinator[p].cache[d]
    OBVIOUS
<1>18. good \subseteq good'
    BY <1>3
<1> HIDE DEF cache
<1> QED
    BY <1>1, <1>5, <1>8, <1>11, <1>12, <1>13, <1>14, <1>15, <1>16, <1>17, <1>18, TopStep

-----------------------------------------------------------------------------
(* Steps that begin and end calls and processes, and what comes from       *)
(* outside: each process stays where it is, or is at a point where it      *)
(* knows nothing but what its outer calls have compiled.                   *)

Fresh(process) ==
    /\ OwnRecords(process.known)
    /\ \A i \in 1 .. Len(process.stack) :
          /\ FrameFits(process.known, process.cache, process.stack[i])
          /\ i # Len(process.stack) => process.stack[i].pc = "nested"
    /\ process.stack # <<>> => process.stack[Len(process.stack)].pc \in {"read", "nested"}

LEMMA FreshFits ==
    ASSUME Types, project' = project, NEW q \in Processes,
           coordinator'[q] \in Process, Fresh(coordinator'[q]),
           coordinator'[q].alone => Others(q)' = {}
    PROVE  ProcessFits(q)' /\ OwnRecords(coordinator[q].known)'
<1>1. /\ Imports' = Imports /\ Executables' = Executables /\ Faults' = Faults
      /\ Untouched' = Untouched /\ Records' = Records
      /\ \A u : ContentOf(u)' = ContentOf(u) /\ RecordOf(u)' = RecordOf(u)
    BY SameProject
<1>2. PICK now \in Process : now = coordinator'[q]
    OBVIOUS
<1>3. Stack(q)' = now.stack /\ Top(q)' = now.stack[Len(now.stack)]
    BY <1>2 DEF Stack, Top
<1>4. OwnRecords(coordinator[q].known)'
    BY <1>1 DEF Fresh, OwnRecords
<1>5. StackFits(q)'
  <2>1. \A f : FrameFits(now.known, now.cache, f) => FrameFits(now.known, now.cache, f)'
      BY <1>1 DEF FrameFits, ImportsCached, Compiled, Content, OwnRecords
  <2>2. \A i \in 1 .. Len(now.stack) :
            /\ FrameFits(now.known, now.cache, now.stack[i])'
            /\ i # Len(now.stack) => now.stack[i].pc = "nested"
      BY <1>2, <2>1 DEF Fresh
  <2> QED
      BY <1>2, <1>3, <2>2 DEF StackFits
<1>6. ASSUME Stack(q)' # <<>> PROVE TopFits(q)'
  <2>1. Top(q)'.pc \in {"read", "nested"}
      BY <1>2, <1>3, <1>6 DEF Fresh
  <2>2. /\ OutputKnown(output', Top(q)') /\ ObjectsKnown(good', Top(q)')
        /\ IndexKnown(q, holders', index', Executables', Top(q)')
      BY <2>1 DEF OutputKnown, ObjectsKnown, IndexKnown, Published
  <2> QED
      BY <2>2 DEF TopFits
<1> QED
    BY <1>4, <1>5, <1>6 DEF ProcessFits

LEMMA AnyStep ==
    ASSUME BuildInv, project' = project,
           coordinator' \in [Processes -> Process \union {None}],
           StoreTypes', IndexClosed', NoLostUpdate',
           Untouched => good \subseteq good',
           \A q \in Processes : coordinator'[q] # None =>
               /\ coordinator'[q].alone => Others(q)' = {}
               /\ \/ /\ Building(q)
                     /\ coordinator'[q].known = coordinator[q].known
                     /\ coordinator'[q].cache = coordinator[q].cache
                     /\ coordinator'[q].stack = coordinator[q].stack
                     /\ coordinator'[q].alone => coordinator[q].alone /\ output' = output
                     /\ MergesTakeTurns =>
                            (holders = {q} => holders' = {q} /\ index' = index)
                  \/ Fresh(coordinator'[q])
    PROVE  BuildInv'
<1>1. Types
    BY DEF BuildInv
<1>2. ASSUME NEW q \in Processes, Building(q)'
      PROVE  ProcessFits(q)' /\ OwnRecords(coordinator[q].known)'
  <2>1. coordinator'[q] # None /\ coordinator'[q] \in Process
      BY <1>2 DEF Building
  <2>2. coordinator'[q].alone => Others(q)' = {}
      BY <2>1
  <2>3. CASE Fresh(coordinator'[q])
      BY <1>1, <2>1, <2>2, <2>3, FreshFits
  <2>4. CASE ~Fresh(coordinator'[q])
    <3>1. /\ Building(q)
          /\ coordinator'[q].known = coordinator[q].known
          /\ coordinator'[q].cache = coordinator[q].cache
          /\ coordinator'[q].stack = coordinator[q].stack
          /\ coordinator'[q].alone =>
                 coordinator[q].alone /\ output' = output /\ Others(q)' = {}
          /\ MergesTakeTurns => (holders = {q} => holders' = {q} /\ index' = index)
        BY <2>1, <2>2, <2>4
    <3>2. ProcessFits(q) /\ OwnRecords(coordinator[q].known)
        BY <3>1 DEF BuildInv, Types
    <3>3. ProcessFits(q)'
        BY <1>1, <3>1, <3>2, OthersStay
    <3> QED
        BY <3>1, <3>2, <3>3, SameProject DEF OwnRecords
  <2> QED
      BY <2>3, <2>4
<1>3. ProcessesTyped'
    BY <1>2, SameProject DEF ProcessesTyped
<1>4. Types'
    BY <1>3, TypesApart, PTL
<1> QED
    BY <1>2, <1>4 DEF BuildInv

\* The calls of process p become the given ones.
LEMMA StackStep ==
    ASSUME BuildInv, project' = project, NEW p \in Processes, Building(p),
           UNCHANGED storeVars, UNCHANGED worldVars,
           NEW stack \in Seq(Frames),
           \A i \in 1 .. Len(stack) :
               /\ FrameFits(coordinator[p].known, coordinator[p].cache, stack[i])
               /\ i # Len(stack) => stack[i].pc = "nested",
           stack # <<>> => stack[Len(stack)].pc \in {"read", "nested"},
           coordinator' = [coordinator EXCEPT ![p].stack = stack]
    PROVE  BuildInv'
<1>1. Types /\ StoreTypes /\ IndexClosed /\ NoLostUpdate
    BY TypesApart DEF BuildInv
<1>2. /\ coordinator[p] \in Process /\ OwnRecords(coordinator[p].known)
      /\ coordinator \in [Processes -> Process \union {None}]
    BY <1>1, ProcessTypes DEF Types
<1>3. StoreTypes' /\ IndexClosed' /\ NoLostUpdate'
    BY <1>1, StoreStays
<1>4. good' = good /\ output' = output /\ holders' = holders /\ index' = index
    BY DEF storeVars, objectVars, indexVars, lockVars
<1>5. coordinator' = [coordinator EXCEPT ![p] =
               [known |-> coordinator[p].known, cache |-> coordinator[p].cache,
                stack |-> stack, rebuild |-> coordinator[p].rebuild,
                alone |-> coordinator[p].alone]]
    BY <1>1, StackForm
<1>6. /\ coordinator'[p] = [known |-> coordinator[p].known, cache |-> coordinator[p].cache,
                            stack |-> stack, rebuild |-> coordinator[p].rebuild,
                            alone |-> coordinator[p].alone]
      /\ \A q \in Processes : q # p => coordinator'[q] = coordinator[q]
    BY <1>2, <1>5
<1>7. coordinator'[p] \in Process
    BY <1>2, <1>6 DEF Process
<1>8. coordinator' \in [Processes -> Process \union {None}]
    BY <1>2, <1>5, <1>6, <1>7
<1>9. /\ coordinator'[p].known = coordinator[p].known
      /\ coordinator'[p].cache = coordinator[p].cache
      /\ coordinator'[p].stack = stack /\ coordinator'[p].alone = coordinator[p].alone
    BY <1>6
<1>10. Fresh(coordinator'[p])
    BY <1>2, <1>9 DEF Fresh
<1>11. coordinator'[p].alone => Others(p)' = {}
    BY <1>6, <1>9 DEF BuildInv, ProcessFits, Others, Building
<1>12. ASSUME NEW q \in Processes, q # p, coordinator'[q] # None
       PROVE  Building(q) /\ coordinator'[q] = coordinator[q] /\ ~coordinator'[q].alone
    BY <1>6, <1>12 DEF BuildInv, ProcessFits, Others, Building
<1> QED
    BY <1>3, <1>4, <1>8, <1>10, <1>11, <1>12, AnyStep

LEMMA BuildImportStep ==
    ASSUME BuildInv, project' = project, NEW p \in Processes, BuildImport(p)
    PROVE  BuildInv'
<1> DEFINE t == Top(p)
           s == Stack(p)
           n == Len(s)
           known == coordinator[p].known
           cache == coordinator[p].cache
<1>1. /\ Types /\ Building(p) /\ Stack(p) # <<>> /\ t \in Frames /\ t.unit \in Units
      /\ t.pc = "nested" /\ FrameFits(known, cache, t) /\ StackFits(p)
    BY AtTop DEF BuildImport
<1>2. UNCHANGED storeVars /\ UNCHANGED worldVars
    BY DEF BuildImport
<1>3. PICK d \in t.todo : coordinator' = [coordinator EXCEPT ![p].stack =
              SetTop(p, [t EXCEPT !.todo = @ \ {d}])
                \o (IF d \in Active(p) THEN <<>> ELSE <<Frame(d)>>)]
    BY DEF BuildImport
<1> DEFINE f == [t EXCEPT !.todo = @ \ {d}]
           r == SetTop(p, f)
<1>4. d \in Units
    BY <1>1 DEF Frames
<1>5. s \in Seq(Frames) /\ n \in Nat /\ n > 0 /\ n \in 1 .. n
    BY <1>1, ProcessTypes
<1>6. f \in Frames /\ f.pc = "nested" /\ FrameFits(known, cache, f)
  <2> HIDE DEF t
  <2>1. /\ f \in Frames /\ f.pc = "nested" /\ f.source = t.source /\ f.unit = t.unit
        /\ f.content = t.content
      BY <1>1 DEF Frames
  <2> HIDE DEF f
  <2> QED
      BY <1>1, <2>1 DEF FrameFits, Published
<1> HIDE DEF f
<1>7. r \in Seq(Frames) /\ Len(r) = n /\ r[n] = f /\ \A i \in 1 .. n : i # n => r[i] = s[i]
  <2>1. r = [s EXCEPT ![n] = f] /\ n = Len(s)
      BY DEF SetTop
  <2> HIDE DEF s, n, r
  <2> QED
      BY <1>5, <1>6, <2>1, ExceptSeq
<1>8. \A i \in 1 .. n : FrameFits(known, cache, s[i]) /\ (i # n => s[i].pc = "nested")
    BY <1>1 DEF StackFits
<1>9. \A i \in 1 .. n : FrameFits(known, cache, r[i]) /\ r[i].pc = "nested"
  <2> HIDE DEF s, n, r
  <2> QED
      BY <1>6, <1>7, <1>8
<1>10. CASE d \in Active(p)
  <2>1. coordinator' = [coordinator EXCEPT ![p].stack = r \o <<>>]
      BY <1>3, <1>10 DEF f
  <2>2. r \o <<>> = r
      BY <1>7
  <2>3. coordinator' = [coordinator EXCEPT ![p].stack = r]
      BY <2>1, <2>2
  <2>4. /\ \A i \in 1 .. Len(r) : /\ FrameFits(known, cache, r[i])
                                  /\ i # Len(r) => r[i].pc = "nested"
        /\ r # <<>> => r[Len(r)].pc \in {"read", "nested"}
      BY <1>5, <1>7, <1>9
  <2>5. r \in Seq(Frames)
      BY <1>7
  <2> HIDE DEF r
  <2> QED
      BY <1>1, <1>2, <2>3, <2>4, <2>5, StackStep
<1>11. CASE d \notin Active(p)
  <2> DEFINE w == r \o <<Frame(d)>>
  <2>1. coordinator' = [coordinator EXCEPT ![p].stack = w]
      BY <1>3, <1>11 DEF f
  <2>2. Frame(d) \in Frames /\ Frame(d).pc = "read" /\ FrameFits(known, cache, Frame(d))
    <3>1. Frame(d) \in Frames /\ Frame(d).pc = "read"
        BY <1>4 DEF Frame, Frames
    <3> QED
        BY <3>1 DEF FrameFits, Published
  <2> HIDE DEF r, n
  <2>3. /\ w \in Seq(Frames) /\ Len(w) = n + 1 /\ w[n + 1] = Frame(d)
        /\ \A i \in 1 .. n : w[i] = r[i]
      BY <1>5, <1>7, <2>2, AppendProperties
  <2> HIDE DEF w
  <2>4. /\ \A i \in 1 .. Len(w) : /\ FrameFits(known, cache, w[i])
                                  /\ i # Len(w) => w[i].pc = "nested"
        /\ w # <<>> => w[Len(w)].pc \in {"read", "nested"}
      BY <1>5, <1>9, <2>2, <2>3
  <2>5. w \in Seq(Frames)
      BY <2>3
  <2> QED
      BY <1>1, <1>2, <2>1, <2>4, <2>5, StackStep
<1> QED
    BY <1>10, <1>11

LEMMA ReturnStep ==
    ASSUME BuildInv, project' = project, NEW p \in Processes, Return(p)
    PROVE  BuildInv'
<1> DEFINE s == Stack(p)
           n == Len(s)
           w == SubSeq(s, 1, n - 1)
<1>1. /\ Types /\ Building(p) /\ Stack(p) # <<>> /\ StackFits(p)
    BY AtTop DEF Return
<1>2. UNCHANGED storeVars /\ UNCHANGED worldVars
    BY DEF Return
<1>3. s \in Seq(Frames) /\ n \in Nat /\ n > 0
    BY <1>1, ProcessTypes
<1>4. coordinator' = [coordinator EXCEPT ![p].stack = w]
  <2>1. coordinator[p] \in Process /\ coordinator \in [Processes -> Process \union {None}]
      BY <1>1, ProcessTypes DEF Types
  <2> QED
      BY <2>1 DEF Return, Stack
<1>5. \A i \in 1 .. n : /\ FrameFits(coordinator[p].known, coordinator[p].cache, s[i])
                        /\ i # n => s[i].pc = "nested"
    BY <1>1 DEF StackFits
<1>6. w \in Seq(Frames) /\ Len(w) = n - 1 /\ \A i \in 1 .. n - 1 : w[i] = s[i]
  <2>1. n = Len(s)
      OBVIOUS
  <2> HIDE DEF s, n
  <2>2. 1 \in 1 .. Len(s) + 1 /\ n - 1 \in 0 .. Len(s)
      BY <1>3, <2>1
  <2>3. \A i \in 1 .. n - 1 : s[i] \in Frames
      BY <1>3, <2>1, ElementOfSeq
  <2> QED
      BY <1>3, <2>1, <2>2, <2>3, SubSeqProperties
<1> HIDE DEF s, n, w
<1>7. /\ \A i \in 1 .. Len(w) : /\ FrameFits(coordinator[p].known, coordinator[p].cache, w[i])
                                /\ i # Len(w) => w[i].pc = "nested"
      /\ w # <<>> => w[Len(w)].pc \in {"read", "nested"}
  <2>1. \A i \in 1 .. n - 1 : /\ FrameFits(coordinator[p].known, coordinator[p].cache, w[i])
                              /\ w[i].pc = "nested"
      BY <1>3, <1>5, <1>6
  <2>2. w # <<>> => Len(w) \in 1 .. n - 1
      BY <1>3, <1>6, EmptySeq
  <2> QED
      BY <1>6, <2>1, <2>2
<1> QED
    BY <1>1, <1>2, <1>4, <1>6, <1>7, StackStep

\* A unit of a command, and the records that a new coordinator reads.
LEMMA CommandTypes ==
    ASSUME project \in Projects, NEW command \in project.commands
    PROVE  command[1] \in Units /\ command[2] \in BOOLEAN
BY ProjectTypes

LEMMA NewCall ==
    ASSUME NEW u \in Units, NEW known, NEW cache
    PROVE  /\ Frame(u) \in Frames /\ Frame(u).pc = "read" /\ FrameFits(known, cache, Frame(u))
           /\ <<Frame(u)>> \in Seq(Frames) /\ Len(<<Frame(u)>>) = 1 /\ <<Frame(u)>>[1] = Frame(u)
<1>1. Frame(u) \in Frames /\ Frame(u).pc = "read"
    BY DEF Frame, Frames
<1>2. FrameFits(known, cache, Frame(u))
    BY <1>1 DEF FrameFits, Published
<1>3. <<Frame(u)>> \in Seq(Frames) /\ Len(<<Frame(u)>>) = 1 /\ <<Frame(u)>>[1] = Frame(u)
  <2> DEFINE g == Frame(u)
  <2>1. g \in Frames
      BY <1>1
  <2> HIDE DEF g
  <2>2. <<g>> \in Seq(Frames) /\ Len(<<g>>) = 1 /\ <<g>>[1] = g
      BY <2>1
  <2> QED
      BY <2>2 DEF g
<1> QED
    BY <1>1, <1>2, <1>3

LEMMA FreshCall ==
    ASSUME NEW u \in Units, NEW process, OwnRecords(process.known),
           process.stack = <<Frame(u)>>
    PROVE  Fresh(process)
<1>1. /\ Frame(u).pc = "read" /\ FrameFits(process.known, process.cache, Frame(u))
      /\ Len(process.stack) = 1 /\ process.stack[1] = Frame(u)
    BY NewCall
<1>2. \A i \in 1 .. Len(process.stack) : i = 1
    BY <1>1
<1> QED
    BY <1>1, <1>2 DEF Fresh

LEMMA NewAlone ==
    ASSUME NEW process \in Process, NEW alone
    PROVE  [process EXCEPT !.alone = alone] =
               [known |-> process.known, cache |-> process.cache, stack |-> process.stack,
                rebuild |-> process.rebuild, alone |-> alone]
BY DEF Process

LEMMA BeginStep ==
    ASSUME BuildInv, project' = project, NEW p \in Processes, NEW u \in Units,
           NEW rebuild \in BOOLEAN, Begin(p, u, rebuild)
    PROVE  BuildInv'
<1>1. Types /\ StoreTypes /\ IndexClosed /\ NoLostUpdate
    BY TypesApart DEF BuildInv
<1>2. /\ good' = good /\ corrupt' = corrupt /\ index' = index /\ damaged' = damaged
      /\ merged' = merged /\ holders' = holders /\ stale' = stale /\ present' = TRUE
      /\ output' = output /\ reachable' = reachable /\ disk' = disk /\ edits' = edits
    BY DEF Begin, objectVars, indexVars, worldVars
<1>3. StoreTypes' /\ IndexClosed' /\ NoLostUpdate'
  <2>1. StoreTypes'
      BY <1>1, <1>2, SameProject DEF StoreTypes, OwnRecords
  <2> QED
      BY <1>1, <1>2, <2>1, SameProject DEF IndexClosed, NoLostUpdate
<1> DEFINE new == NewProcess(p, u, rebuild)
<1>4. /\ new.known = KnownAtStart /\ new.cache = NoModules /\ new.stack = <<Frame(u)>>
      /\ new.rebuild = rebuild /\ new.alone = (Others(p) = {})
      /\ new = [known |-> KnownAtStart, cache |-> NoModules, stack |-> <<Frame(u)>>,
                rebuild |-> rebuild, alone |-> Others(p) = {}]
    BY DEF NewProcess
<1>5. KnownAtStart \in [Units -> Records \union {None}] /\ OwnRecords(KnownAtStart)
    BY <1>1 DEF KnownAtStart, StoreTypes, OwnRecords
<1>6. new \in Process /\ OwnRecords(new.known)
  <2>1. NoModules \in [Units -> Versions \union {None}] /\ <<Frame(u)>> \in Seq(Frames)
      BY NewCall DEF NoModules
  <2>2. (Others(p) = {}) \in BOOLEAN
      OBVIOUS
  <2> QED
      BY <1>4, <1>5, <2>1, <2>2 DEF Process
<1>7. Fresh(new)
  <2> HIDE DEF new
  <2> QED
      BY <1>4, <1>6, FreshCall
<1>8. ~Building(p) /\ coordinator' = [q \in Processes |->
                          CASE q = p -> new
                            [] q # p /\ Building(q) -> [coordinator[q] EXCEPT !.alone = FALSE]
                            [] OTHER -> None]
    BY DEF Begin
<1> HIDE DEF new
<1>9. coordinator'[p] = new
    BY <1>8
<1>10. ASSUME NEW q \in Processes, q # p
       PROVE  /\ Building(q) =>
                    /\ coordinator'[q] \in Process
                    /\ coordinator'[q].known = coordinator[q].known
                    /\ coordinator'[q].cache = coordinator[q].cache
                    /\ coordinator'[q].stack = coordinator[q].stack
                    /\ ~coordinator'[q].alone
              /\ ~Building(q) => coordinator'[q] = None
  <2>1. ASSUME Building(q)
        PROVE  /\ coordinator'[q] \in Process
               /\ coordinator'[q].known = coordinator[q].known
               /\ coordinator'[q].cache = coordinator[q].cache
               /\ coordinator'[q].stack = coordinator[q].stack
               /\ ~coordinator'[q].alone
    <3>1. PICK now \in Process : now = coordinator[q]
        BY <1>1, <2>1, ProcessTypes
    <3>2. coordinator'[q] = [now EXCEPT !.alone = FALSE]
        BY <1>8, <1>10, <2>1, <3>1
    <3>3. [now EXCEPT !.alone = FALSE] =
              [known |-> now.known, cache |-> now.cache, stack |-> now.stack,
               rebuild |-> now.rebuild, alone |-> FALSE]
        BY NewAlone
    <3>4. coordinator'[q] = [known |-> now.known, cache |-> now.cache, stack |-> now.stack,
                             rebuild |-> now.rebuild, alone |-> FALSE]
        BY <3>2, <3>3
    <3> QED
        BY <3>1, <3>4 DEF Process
  <2>2. ~Building(q) => coordinator'[q] = None
      BY <1>8, <1>10
  <2> QED
      BY <2>1, <2>2
<1>11. coordinator' \in [Processes -> Process \union {None}]
  <2>1. \A q \in Processes : coordinator'[q] \in Process \union {None}
      BY <1>6, <1>9, <1>10
  <2>2. coordinator' = [q \in Processes |-> coordinator'[q]]
      BY <1>8
  <2> QED
      BY <2>1, <2>2
<1>12. coordinator'[p].alone => Others(p)' = {}
    BY <1>4, <1>9, <1>10 DEF Others, Building
<1>13. ASSUME NEW q \in Processes, q # p, coordinator'[q] # None
       PROVE  /\ Building(q) /\ ~coordinator'[q].alone
              /\ coordinator'[q].known = coordinator[q].known
              /\ coordinator'[q].cache = coordinator[q].cache
              /\ coordinator'[q].stack = coordinator[q].stack
    BY <1>10, <1>13
<1> QED
    BY <1>2, <1>3, <1>7, <1>9, <1>11, <1>12, <1>13, AnyStep

LEMMA BuildNextStep ==
    ASSUME BuildInv, project' = project, NEW p \in Processes, NEW u \in Units, BuildNext(p, u)
    PROVE  BuildInv'
<1>1. Types /\ StoreTypes /\ IndexClosed /\ NoLostUpdate /\ Building(p)
    BY TypesApart DEF BuildInv, BuildNext
<1>2. UNCHANGED storeVars /\ UNCHANGED worldVars
    BY DEF BuildNext
<1>3. StoreTypes' /\ IndexClosed' /\ NoLostUpdate'
    BY <1>1, <1>2, StoreStays
<1>4. good' = good
    BY <1>2 DEF storeVars, objectVars
<1>5. /\ coordinator[p] \in Process /\ OwnRecords(coordinator[p].known)
      /\ coordinator \in [Processes -> Process \union {None}]
    BY <1>1, ProcessTypes DEF Types
<1>6. PICK now \in Process : now = coordinator[p]
    BY <1>5
<1>7. PICK a : a = (Others(p) = {})
    OBVIOUS
<1>8. PICK c : c = NoModules
    OBVIOUS
<1>9. PICK w : w = <<Frame(u)>>
    OBVIOUS
<1> DEFINE new == [now EXCEPT !.stack = w, !.cache = c, !.alone = a]
<1>10. coordinator' = [coordinator EXCEPT ![p] = new]
    BY <1>5, <1>6, <1>7, <1>8, <1>9 DEF BuildNext
<1>11. new = [known |-> now.known, cache |-> c, stack |-> w, rebuild |-> now.rebuild, alone |-> a]
  <2> DEFINE k == [now EXCEPT !.stack = w]
             l == [k EXCEPT !.cache = c]
  <2>1. new = [l EXCEPT !.alone = a]
      OBVIOUS
  <2>2. k = [known |-> now.known, cache |-> now.cache, stack |-> w,
             rebuild |-> now.rebuild, alone |-> now.alone]
      BY DEF Process
  <2> HIDE DEF k
  <2>3. l = [known |-> now.known, cache |-> c, stack |-> w,
             rebuild |-> now.rebuild, alone |-> now.alone]
      BY <2>2
  <2> HIDE DEF l
  <2>4. [l EXCEPT !.alone = a] = [known |-> now.known, cache |-> c, stack |-> w,
                                  rebuild |-> now.rebuild, alone |-> a]
      BY <2>3
  <2> QED
      BY <2>1, <2>4
<1> HIDE DEF new
<1>12. new = [known |-> now.known, cache |-> NoModules, stack |-> <<Frame(u)>>,
             rebuild |-> now.rebuild, alone |-> (Others(p) = {})]
    BY <1>7, <1>8, <1>9, <1>11
<1>13. new \in Process /\ OwnRecords(new.known)
  <2>1. NoModules \in [Units -> Versions \union {None}] /\ <<Frame(u)>> \in Seq(Frames)
      BY NewCall DEF NoModules
  <2>2. (Others(p) = {}) \in BOOLEAN
      OBVIOUS
  <2> QED
      BY <1>5, <1>6, <1>12, <2>1, <2>2 DEF Process
<1>14. Fresh(new)
    BY <1>12, <1>13, FreshCall
<1>15. /\ coordinator'[p] = new
       /\ \A q \in Processes : q # p => coordinator'[q] = coordinator[q]
       /\ coordinator' \in [Processes -> Process \union {None}]
    BY <1>5, <1>10, <1>13
<1>16. coordinator'[p].alone => Others(p)' = {}
  <2>1. new.alone = (Others(p) = {})
      BY <1>12
  <2>2. Others(p)' = Others(p)
      BY <1>15 DEF Others, Building
  <2> QED
      BY <1>15, <2>1, <2>2
<1>17. ASSUME NEW q \in Processes, q # p, coordinator'[q] # None
       PROVE  Building(q) /\ coordinator'[q] = coordinator[q] /\ ~coordinator'[q].alone
    BY <1>1, <1>15, <1>17 DEF BuildInv, ProcessFits, Others, Building
<1>18. /\ output' = output /\ holders' = holders /\ index' = index
    BY <1>2 DEF storeVars, indexVars, lockVars
<1> QED
    BY <1>3, <1>4, <1>14, <1>15, <1>16, <1>17, <1>18, AnyStep

\* Process p is gone, and the kernel has dropped its locks or it held none.
LEMMA Gone ==
    ASSUME BuildInv, project' = project, NEW p \in Processes,
           coordinator' = [coordinator EXCEPT ![p] = None],
           holders' \in {holders, holders \ {p}}, stale' \in {stale, stale \ {p}},
           UNCHANGED <<good, corrupt, index, damaged, merged, present, output, reachable, disk, edits>>
    PROVE  BuildInv'
<1>1. Types /\ StoreTypes /\ IndexClosed /\ NoLostUpdate
    BY TypesApart DEF BuildInv
<1>2. /\ good' = good /\ corrupt' = corrupt /\ index' = index /\ damaged' = damaged
      /\ merged' = merged /\ present' = present /\ output' = output
      /\ reachable' = reachable /\ disk' = disk /\ edits' = edits
    OBVIOUS
<1>3. StoreTypes' /\ IndexClosed' /\ NoLostUpdate'
  <2>1. StoreTypes'
      BY <1>1, <1>2, SameProject DEF StoreTypes, OwnRecords
  <2> QED
      BY <1>1, <1>2, <2>1, SameProject DEF IndexClosed, NoLostUpdate
<1>4. coordinator \in [Processes -> Process \union {None}]
    BY <1>1 DEF Types
<1>5. /\ coordinator'[p] = None /\ \A q \in Processes : q # p => coordinator'[q] = coordinator[q]
      /\ coordinator' \in [Processes -> Process \union {None}]
    BY <1>4
<1>6. ASSUME NEW q \in Processes, coordinator'[q] # None
      PROVE  /\ q # p /\ Building(q) /\ coordinator'[q] = coordinator[q]
             /\ coordinator'[q].alone => Others(q)' = {}
             /\ holders = {q} => holders' = {q}
    BY <1>5, <1>6 DEF BuildInv, ProcessFits, Others, Building
<1> QED
    BY <1>2, <1>3, <1>5, <1>6, AnyStep

LEMMA ExitStep ==
    ASSUME BuildInv, project' = project, NEW p \in Processes, Exit(p)
    PROVE  BuildInv'
<1>1. /\ coordinator' = [coordinator EXCEPT ![p] = None]
      /\ holders' = holders /\ stale' = stale
      /\ UNCHANGED <<good, corrupt, index, damaged, merged, present, output, reachable, disk, edits>>
    BY DEF Exit, storeVars, objectVars, indexVars, lockVars, worldVars
<1> QED
    BY <1>1, Gone

LEMMA CrashStep ==
    ASSUME BuildInv, project' = project, NEW p \in Processes, Crash(p)
    PROVE  BuildInv'
<1>1. /\ coordinator' = [coordinator EXCEPT ![p] = None]
      /\ holders' = holders \ {p} /\ stale' = stale \ {p}
      /\ UNCHANGED <<good, corrupt, index, damaged, merged, present, output, reachable, disk, edits>>
    BY DEF Crash, Unlocked, objectVars, indexVars, worldVars
<1> QED
    BY <1>1, Gone

\* The world changes around the processes.
LEMMA OutsideStep ==
    ASSUME BuildInv, project' = project, coordinator' = coordinator, output' = output,
           StoreTypes', IndexClosed', NoLostUpdate',
           Untouched => good \subseteq good',
           MergesTakeTurns => holders' = holders /\ index' = index
    PROVE  BuildInv'
<1>1. coordinator' \in [Processes -> Process \union {None}]
    BY DEF BuildInv, Types
<1>2. ASSUME NEW q \in Processes, coordinator'[q] # None
      PROVE  Building(q) /\ (coordinator'[q].alone => Others(q)' = {})
    BY <1>2 DEF BuildInv, ProcessFits, Others, Building
<1> QED
    BY <1>1, <1>2, AnyStep

LEMMA EditStep ==
    ASSUME BuildInv, project' = project, NEW u \in Units, NEW v \in Versions, Edit(u, v)
    PROVE  BuildInv'
<1>1. Types /\ StoreTypes /\ IndexClosed /\ NoLostUpdate
    BY TypesApart DEF BuildInv
<1>2. /\ good' = good /\ corrupt' = corrupt /\ index' = index /\ damaged' = damaged
      /\ merged' = merged /\ holders' = holders /\ stale' = stale /\ present' = present
      /\ output' = output /\ reachable' = reachable /\ coordinator' = coordinator
      /\ disk' = [disk EXCEPT ![u] = v] /\ edits' = edits + 1 /\ edits < project.edits
    BY DEF Edit, storeVars, objectVars, indexVars, lockVars
<1>3. /\ disk' \in [Units -> Versions] /\ edits' \in 0 .. project.edits
    BY <1>1, <1>2, ProjectTypes DEF StoreTypes
<1>4. StoreTypes'
    BY <1>1, <1>2, <1>3, SameProject DEF StoreTypes, OwnRecords
<1>5. IndexClosed' /\ NoLostUpdate'
    BY <1>1, <1>2, SameProject DEF IndexClosed, NoLostUpdate
<1> QED
    BY <1>2, <1>4, <1>5, OutsideStep

LEMMA CollectGarbageStep ==
    ASSUME BuildInv, project' = project, CollectGarbage
    PROVE  BuildInv'
<1>1. Types /\ StoreTypes /\ IndexClosed /\ NoLostUpdate
    BY TypesApart DEF BuildInv
<1>2. /\ index' = index /\ damaged' = damaged /\ merged' = merged
      /\ holders' = holders /\ stale' = stale /\ present' = present
      /\ output' = output /\ coordinator' = coordinator /\ disk' = disk /\ edits' = edits
    BY DEF CollectGarbage, ReadReachable, Sweep, indexVars, lockVars, worldVars
<1>3. ~Untouched /\ ~Untouched'
    BY SameProject DEF CollectGarbage, Untouched
<1>4. good' \subseteq good /\ corrupt' \subseteq corrupt
    BY DEF CollectGarbage, ReadReachable, Sweep, objectVars
<1>5. reachable' = None \/ reachable' \subseteq Contents
  <2>1. \A u \in Units : index[u] # None => index[u].artifact \in Contents
      BY <1>1, ContentTypes DEF StoreTypes, OwnRecords
  <2>2. CASE ReadReachable
    <3>1. reachable' = {index[u].artifact : u \in {v \in Units : index[v] # None}}
        BY <2>2 DEF ReadReachable
    <3> QED
        BY <2>1, <3>1
  <2>3. CASE Sweep
      BY <2>3 DEF Sweep
  <2> QED
      BY <2>2, <2>3 DEF CollectGarbage
<1>6. StoreTypes'
    BY <1>1, <1>2, <1>4, <1>5, SameProject DEF StoreTypes, OwnRecords
<1>7. IndexClosed' /\ NoLostUpdate'
    BY <1>1, <1>2, <1>3, SameProject DEF IndexClosed, NoLostUpdate, Untouched
<1> QED
    BY <1>2, <1>3, <1>6, <1>7, OutsideStep

LEMMA CleanCacheStep ==
    ASSUME BuildInv, project' = project, CleanCache
    PROVE  BuildInv'
<1>1. Types /\ StoreTypes
    BY TypesApart DEF BuildInv
<1>2. /\ good' = {} /\ corrupt' = {} /\ index' = NoRecords /\ damaged' = {}
      /\ merged' = NoRecords /\ present' = FALSE /\ stale' = stale \union holders
      /\ holders' = {} /\ output' = output /\ reachable' = reachable
      /\ coordinator' = coordinator /\ disk' = disk /\ edits' = edits
      /\ "clean" \in Faults
    BY DEF CleanCache, Clean, worldVars
<1>3. ~Untouched /\ ~Untouched' /\ ~MergesTakeTurns /\ ~MergesTakeTurns'
    BY <1>2, SameProject DEF Untouched, MergesTakeTurns
<1>4. StoreTypes'
    BY <1>1, <1>2, SameProject DEF StoreTypes, OwnRecords, NoRecords
<1>5. IndexClosed' /\ NoLostUpdate'
    BY <1>3 DEF IndexClosed, NoLostUpdate, Untouched
<1> QED
    BY <1>2, <1>3, <1>4, <1>5, OutsideStep

LEMMA ObjectDamagedStep ==
    ASSUME BuildInv, project' = project, ObjectDamaged
    PROVE  BuildInv'
<1>1. Types /\ StoreTypes /\ NoLostUpdate
    BY TypesApart DEF BuildInv
<1>2. PICK content \in good : DamageObject(content)
    BY DEF ObjectDamaged
<1>3. /\ good' = good \ {content} /\ corrupt' = corrupt \union {content}
      /\ index' = index /\ damaged' = damaged /\ merged' = merged
      /\ holders' = holders /\ stale' = stale /\ present' = present
      /\ output' = output /\ reachable' = reachable
      /\ coordinator' = coordinator /\ disk' = disk /\ edits' = edits
    BY <1>2 DEF ObjectDamaged, DamageObject, indexVars, lockVars, worldVars
<1>4. ~Untouched /\ ~Untouched'
    BY SameProject DEF ObjectDamaged, Untouched
<1>5. StoreTypes'
    BY <1>1, <1>3, SameProject DEF StoreTypes, OwnRecords
<1>6. IndexClosed' /\ NoLostUpdate'
    BY <1>1, <1>3, <1>4, SameProject DEF IndexClosed, NoLostUpdate, Untouched
<1> QED
    BY <1>3, <1>4, <1>5, <1>6, OutsideStep

LEMMA IndexDamagedStep ==
    ASSUME BuildInv, project' = project, IndexDamaged
    PROVE  BuildInv'
<1>1. Types /\ StoreTypes /\ IndexClosed /\ NoLostUpdate
    BY TypesApart DEF BuildInv
<1>2. PICK u \in Units : DamageIndex(u)
    BY DEF IndexDamaged
<1>3. /\ damaged' = damaged \union {IndexName(u)}
      /\ good' = good /\ corrupt' = corrupt /\ index' = index /\ merged' = merged
      /\ holders' = holders /\ stale' = stale /\ present' = present
      /\ output' = output /\ reachable' = reachable
      /\ coordinator' = coordinator /\ disk' = disk /\ edits' = edits
    BY <1>2 DEF IndexDamaged, DamageIndex, objectVars, lockVars, worldVars
<1>4. StoreTypes'
    BY <1>1, <1>3, SameProject DEF StoreTypes, OwnRecords, IndexName
<1>5. IndexClosed' /\ NoLostUpdate'
    BY <1>1, <1>3, SameProject DEF IndexClosed, NoLostUpdate
<1> QED
    BY <1>3, <1>4, <1>5, OutsideStep

LEMMA OutputDeletedStep ==
    ASSUME BuildInv, project' = project, OutputDeleted
    PROVE  BuildInv'
<1>1. Types /\ StoreTypes /\ IndexClosed /\ NoLostUpdate
    BY TypesApart DEF BuildInv
<1>2. PICK u \in Units : DeleteOutput(u)
    BY DEF OutputDeleted
<1>3. /\ output' = [output EXCEPT ![u] = None]
      /\ good' = good /\ corrupt' = corrupt /\ index' = index /\ damaged' = damaged
      /\ merged' = merged /\ holders' = holders /\ stale' = stale /\ present' = present
      /\ reachable' = reachable /\ disk' = disk /\ edits' = edits
    BY <1>2 DEF OutputDeleted, DeleteOutput, objectVars, indexVars, lockVars, worldVars
<1>4. coordinator' = [p \in Processes |->
          IF Building(p) THEN [coordinator[p] EXCEPT !.alone = FALSE] ELSE None]
    BY DEF OutputDeleted
<1>5. StoreTypes'
  <2>1. output' \in [Units -> Contents \union {None}]
        /\ \A v \in Units : output'[v] = None \/ output'[v] \in ContentOf(v)
      BY <1>1, <1>3 DEF StoreTypes
  <2> QED
      BY <1>1, <1>3, <2>1, SameProject DEF StoreTypes, OwnRecords
<1>6. IndexClosed' /\ NoLostUpdate'
    BY <1>1, <1>3, SameProject DEF IndexClosed, NoLostUpdate
<1>7. ASSUME NEW q \in Processes
      PROVE  /\ Building(q) =>
                    /\ coordinator'[q] \in Process
                    /\ coordinator'[q].known = coordinator[q].known
                    /\ coordinator'[q].cache = coordinator[q].cache
                    /\ coordinator'[q].stack = coordinator[q].stack
                    /\ ~coordinator'[q].alone
             /\ ~Building(q) => coordinator'[q] = None
  <2>1. ASSUME Building(q)
        PROVE  /\ coordinator'[q] \in Process
               /\ coordinator'[q].known = coordinator[q].known
               /\ coordinator'[q].cache = coordinator[q].cache
               /\ coordinator'[q].stack = coordinator[q].stack
               /\ ~coordinator'[q].alone
    <3>1. PICK now \in Process : now = coordinator[q]
        BY <1>1, <2>1, ProcessTypes
    <3>2. coordinator'[q] = [now EXCEPT !.alone = FALSE]
        BY <1>4, <2>1, <3>1
    <3>3. [now EXCEPT !.alone = FALSE] =
              [known |-> now.known, cache |-> now.cache, stack |-> now.stack,
               rebuild |-> now.rebuild, alone |-> FALSE]
        BY NewAlone
    <3>4. coordinator'[q] = [known |-> now.known, cache |-> now.cache, stack |-> now.stack,
                             rebuild |-> now.rebuild, alone |-> FALSE]
        BY <3>2, <3>3
    <3> QED
        BY <3>1, <3>4 DEF Process
  <2>2. ~Building(q) => coordinator'[q] = None
      BY <1>4
  <2> QED
      BY <2>1, <2>2
<1>8. coordinator' \in [Processes -> Process \union {None}]
  <2>1. \A q \in Processes : coordinator'[q] \in Process \union {None}
      BY <1>7
  <2>2. coordinator' = [q \in Processes |-> coordinator'[q]]
      BY <1>4
  <2> QED
      BY <2>1, <2>2
<1>9. ASSUME NEW q \in Processes, coordinator'[q] # None
      PROVE  /\ Building(q) /\ ~coordinator'[q].alone
             /\ coordinator'[q].known = coordinator[q].known
             /\ coordinator'[q].cache = coordinator[q].cache
             /\ coordinator'[q].stack = coordinator[q].stack
    BY <1>7, <1>9
<1> QED
    BY <1>3, <1>5, <1>6, <1>8, <1>9, AnyStep

-----------------------------------------------------------------------------
(* The invariant is inductive.                                             *)

LEMMA BuildInit == Init => BuildInv
<1> SUFFICES ASSUME Init PROVE BuildInv
    OBVIOUS
<1>1. /\ project \in Projects /\ good = {} /\ corrupt = {} /\ index = NoRecords
      /\ damaged = {} /\ merged = NoRecords /\ output = NoRecords /\ holders = {}
      /\ stale = {} /\ present = FALSE /\ reachable = None
      /\ disk \in [Units -> Versions] /\ edits = 0
      /\ coordinator = [p \in Processes |-> None]
    BY DEF Init, StoreInit
<1>2. \A p \in Processes : ~Building(p)
    BY <1>1 DEF Building
<1>3. StoreTypes
  <2>1. edits \in 0 .. project.edits
      BY <1>1, ProjectTypes
  <2> QED
      BY <1>1, <2>1 DEF StoreTypes, NoRecords, OwnRecords
<1>4. ProcessesTyped
    BY <1>1, <1>2 DEF ProcessesTyped
<1>5. IndexClosed /\ NoLostUpdate
    BY <1>1 DEF IndexClosed, NoLostUpdate, NoRecords
<1> QED
    BY <1>2, <1>3, <1>4, <1>5, TypesApart DEF BuildInv

LEMMA Stuttering == BuildInv /\ UNCHANGED vars => BuildInv'
<1> SUFFICES ASSUME BuildInv, UNCHANGED vars PROVE BuildInv'
    OBVIOUS
<1>1. /\ project' = project /\ UNCHANGED storeVars /\ UNCHANGED worldVars
      /\ coordinator' = coordinator
    BY DEF vars
<1>2. StoreTypes /\ IndexClosed /\ NoLostUpdate
    BY TypesApart DEF BuildInv
<1>3. StoreTypes' /\ IndexClosed' /\ NoLostUpdate'
    BY <1>1, <1>2, StoreStays
<1>4. good' = good /\ output' = output /\ holders' = holders /\ index' = index
    BY <1>1 DEF storeVars, objectVars, indexVars, lockVars
<1> QED
    BY <1>1, <1>3, <1>4, OutsideStep

LEMMA ProcessStep ==
    ASSUME BuildInv, project' = project, NEW p \in Processes,
           Exit(p) \/ WaitsForLock(p) \/ Proceeds(p)
    PROVE  BuildInv'
<1>1. CASE Exit(p)
    BY <1>1, ExitStep
<1>2. CASE WaitsForLock(p)
    BY <1>2, PutObjectStep, ReadIndexStep DEF WaitsForLock
<1>3. CASE ReadSource(p)
    BY <1>3, ReadSourceStep
<1>4. CASE Restore(p)
    BY <1>4, RestoreStep
<1>5. CASE Republish(p)
    BY <1>5, RepublishStep
<1>6. CASE CheckOutput(p)
    BY <1>6, CheckOutputStep
<1>6a. CASE CompareOutput(p)
    BY <1>6a, CompareOutputStep
<1>7. CASE CheckDeps(p)
    BY <1>7, CheckDepsStep
<1>8. CASE Compile(p)
    BY <1>8, CompileStep
<1>9. CASE BuildImport(p)
    BY <1>9, BuildImportStep
<1>10. CASE ImportsBuilt(p)
    BY <1>10, ImportsBuiltStep
<1>11. CASE WriteObject(p)
    BY <1>11, WriteObjectStep
<1>12. CASE PublishOutput(p)
    BY <1>12, PublishOutputStep
<1>13. CASE VerifyObject(p)
    BY <1>13, VerifyObjectStep
<1>14. CASE NoLockFile(p)
    BY <1>14, NoLockFileStep
<1>15. CASE WriteIndex(p)
    BY <1>15, WriteIndexStep
<1>16. CASE Return(p)
    BY <1>16, ReturnStep
<1> QED
    BY <1>1, <1>2, <1>3, <1>4, <1>5, <1>6, <1>6a, <1>7, <1>8, <1>9, <1>10, <1>11, <1>12,
       <1>13, <1>14, <1>15, <1>16 DEF Proceeds

LEMMA BuildStep == BuildInv /\ [Next]_vars => BuildInv'
<1> SUFFICES ASSUME BuildInv, [Next]_vars PROVE BuildInv'
    OBVIOUS
<1>1. CASE UNCHANGED vars
    BY <1>1, Stuttering
<1>2. CASE Next
  <2>1. project' = project
      BY <1>2 DEF Next
  <2>2. project \in Projects
      BY DEF BuildInv, Types
  <2>3. ASSUME NEW p \in Processes, NEW command \in project.commands,
               Begin(p, command[1], command[2])
        PROVE  BuildInv'
    <3>1. PICK u \in Units, rebuild \in BOOLEAN : u = command[1] /\ rebuild = command[2]
        BY <2>2, CommandTypes
    <3>2. Begin(p, u, rebuild)
        BY <2>3, <3>1
    <3> QED
        BY <2>1, <3>2, BeginStep
  <2>4. ASSUME NEW p \in Processes, NEW command \in project.commands,
               BuildNext(p, command[1])
        PROVE  BuildInv'
    <3>1. PICK u \in Units : u = command[1]
        BY <2>2, CommandTypes
    <3>2. BuildNext(p, u)
        BY <2>4, <3>1
    <3> QED
        BY <2>1, <3>2, BuildNextStep
  <2>5. ASSUME NEW p \in Processes, Exit(p) \/ WaitsForLock(p) \/ Proceeds(p)
        PROVE  BuildInv'
      BY <2>1, <2>5, ProcessStep
  <2>6. ASSUME Outside PROVE BuildInv'
    <3>1. ASSUME NEW u \in Units, NEW v \in Versions, Edit(u, v) PROVE BuildInv'
        BY <2>1, <3>1, EditStep
    <3>2. ASSUME NEW p \in Processes, Crash(p) PROVE BuildInv'
        BY <2>1, <3>2, CrashStep
    <3>3. CASE CollectGarbage
        BY <2>1, <3>3, CollectGarbageStep
    <3>4. CASE CleanCache
        BY <2>1, <3>4, CleanCacheStep
    <3>5. CASE ObjectDamaged
        BY <2>1, <3>5, ObjectDamagedStep
    <3>6. CASE IndexDamaged
        BY <2>1, <3>6, IndexDamagedStep
    <3>7. CASE OutputDeleted
        BY <2>1, <3>7, OutputDeletedStep
    <3> QED
        BY <2>6, <3>1, <3>2, <3>3, <3>4, <3>5, <3>6, <3>7 DEF Outside
  <2> QED
      BY <1>2, <2>3, <2>4, <2>5, <2>6 DEF Next
<1> QED
    BY <1>1, <1>2

\* The records of the index, the processes and their calls agree at every
\* moment, whatever is built together, edited, damaged, collected or killed
\* (coordinator.py and store.py).
THEOREM BuildsAgree == Spec => []BuildInv
<1>1. Init => BuildInv
    BY BuildInit
<1>2. BuildInv /\ [Next]_vars => BuildInv'
    BY BuildStep
<1> QED
    BY <1>1, <1>2, PTL DEF Spec

\* Every record of the index stands: it says what its own unit's artifact was
\* compiled from, and its object can be read as long as nobody damages,
\* collects or cleans objects.
THEOREM RecordsAlwaysStand == Spec => []RecordsStand
<1>1. BuildInv => RecordsStand
  <2> SUFFICES ASSUME BuildInv PROVE RecordsStand
      OBVIOUS
  <2>1. Types /\ IndexClosed
      BY DEF BuildInv
  <2>2. ASSUME NEW u \in Units, index[u] # None
        PROVE  index[u].artifact = Content(u, index[u].source, index[u].deps)
    <3>1. index[u] \in RecordOf(u)
        BY <2>1, <2>2 DEF Types, OwnRecords
    <3> QED
        BY <3>1, ContentTypes
  <2> QED
      BY <2>1, <2>2 DEF RecordsStand, RecordsTruthful, Types
<1> QED
    BY <1>1, BuildsAgree, PTL

\* Where the platform has flock, no merged record is lost to another process's
\* merge, unless the cache is cleaned under it (update_index_record).  Without
\* flock (Windows) nothing of the kind holds: store.py:57-60 locks nothing.
THEOREM UpdatesAreKept == Spec => []NoLostUpdate
<1>1. BuildInv => NoLostUpdate
    BY DEF BuildInv
<1> QED
    BY <1>1, BuildsAgree, PTL

\* What a build reuses was compiled from what it read, and what a build that ran
\* alone leaves as the output is what its sources compile to.
THEOREM OutputsAlwaysRight == Spec => []OutputsAreRight
<1>1. BuildInv => OutputsAreRight
  <2> SUFFICES ASSUME BuildInv PROVE OutputsAreRight
      OBVIOUS
  <2>1. ASSUME NEW p \in Processes, NEW pc, At(p, pc), pc \in {"reused", "built"}
        PROVE  /\ Compiled(Top(p).unit, Top(p).source, coordinator[p].cache) =
                      Content(Top(p).unit, Top(p).source, LoadedDeps(p, Top(p).unit))
               /\ pc = "reused" =>
                      Top(p).saw = Compiled(Top(p).unit, Top(p).source, coordinator[p].cache)
               /\ coordinator[p].alone =>
                      output[Top(p).unit] =
                          Compiled(Top(p).unit, Top(p).source, coordinator[p].cache)
    <3> DEFINE t == Top(p)
               cache == coordinator[p].cache
    <3>1. /\ Types /\ Building(p) /\ t.pc = pc /\ t.unit \in Units
          /\ FrameFits(coordinator[p].known, cache, t) /\ TopFits(p)
        BY <2>1, AtTop
    <3>2. /\ ImportsCached(t.unit, cache)
          /\ pc = "reused" => t.saw = Compiled(t.unit, t.source, cache)
          /\ pc = "built" => t.content = Compiled(t.unit, t.source, cache)
        BY <2>1, <3>1 DEF FrameFits, Published
    <3>3. coordinator[p].alone =>
              /\ pc = "reused" => output[t.unit] = t.saw
              /\ pc = "built" => output[t.unit] = t.content
        BY <3>1 DEF TopFits, OutputKnown, Published
    <3>4. LoadedDeps(p, t.unit) = [d \in Imports[t.unit] |-> cache[d]]
        BY <3>1, <3>2, ProjectTypes DEF LoadedDeps, ImportsCached, Types
    <3> QED
        BY <2>1, <3>2, <3>3, <3>4 DEF Compiled
  <2>2. ReusedIsFresh
      BY <2>1 DEF ReusedIsFresh
  <2>3. BuildStands
      BY <2>1 DEF BuildStands
  <2> QED
      BY <2>2, <2>3 DEF OutputsAreRight
<1> QED
    BY <1>1, BuildsAgree, PTL
=============================================================================
