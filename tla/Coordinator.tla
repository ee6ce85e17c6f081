---------------------------- MODULE Coordinator ----------------------------
(***************************************************************************)
(* Incremental builds (incremental/coordinator.py, CompilationCoordinator):*)
(* each process of the command line makes a coordinator, which reads the   *)
(* indexes once, and builds units with it; a unit is restored, reused or   *)
(* compiled and published through the artifact store.                      *)
(*                                                                         *)
(* A source file is its version.  The bytes a build produces are the       *)
(* unit, the version of its source and the versions of its imports that    *)
(* were compiled: compilation is deterministic, and an import's interface  *)
(* and implementation hashes together change with its version.             *)
(***************************************************************************)
EXTENDS ArtifactStore, Sequences

CONSTANTS
    Versions,       \* what a source file may contain
    Projects        \* the projects, with the ways they are built

ASSUME CoordinatorAssumption ==
    /\ None \notin Versions
    /\ \A p \in Projects :
        /\ p.units \subseteq Units /\ p.executables \subseteq p.units
        /\ p.imports \in [Units -> SUBSET p.units]     \* the units each unit imports
        /\ p.broken \subseteq p.units \X Versions      \* what does not compile
        /\ p.flock \in BOOLEAN                         \* the platform has fcntl
        /\ p.commands \subseteq p.units \X BOOLEAN     \* <<unit, rebuild>>: builds asked for
        /\ p.together \in Nat                         \* how many processes build at once
        /\ p.edits \in Nat                            \* bound: edits of the sources
        /\ p.faults \subseteq {"crash", "delete", "object", "collect", "index", "clean"}

VARIABLES
    disk,           \* the version of each source file
    edits,          \* how many edits there were
    coordinator     \* per process: None, or its CompilationCoordinator

worldVars == <<disk, edits>>
vars == <<storeVars, worldVars, coordinator, project>>

Imports == project.imports
Faults == project.faults
Broken == project.broken

-----------------------------------------------------------------------------
(* Contents, records, and the state of a build.                            *)

Content(u, source, deps) == [unit |-> u, source |-> source, deps |-> deps]

Record(content) ==
    [artifact |-> content, source |-> content.source, output |-> content,
     deps |-> content.deps]

\* One call of build_module or build_executable.  restored is history: this
\* call wrote the output before it was compiled; saw: the bytes that the reuse
\* check read.
Frame(u) ==
    [unit |-> u, pc |-> "read", source |-> None, content |-> None, todo |-> {},
     records |-> None, restored |-> FALSE, saw |-> None, failed |-> "no"]

\* The loader's cache, empty in a new ModuleLoader.
NoModules == [u \in Units |-> None]

\* Coordinator() reads both indexes; one that does not parse counts as empty.
KnownAtStart ==
    [u \in Units |-> IF IndexName(u) \in damaged THEN None ELSE index[u]]

Stack(p) == coordinator[p].stack
Top(p) == Stack(p)[Len(Stack(p))]
Building(p) == coordinator[p] # None
At(p, pc) == Building(p) /\ Stack(p) # <<>> /\ Top(p).pc = pc

SetTop(p, frame) == [Stack(p) EXCEPT ![Len(Stack(p))] = frame]
Go(p, frame) == coordinator' = [coordinator EXCEPT ![p].stack = SetTop(p, frame)]
GoTo(p, pc) == Go(p, [Top(p) EXCEPT !.pc = pc])
Failing(p, why) == Go(p, [Top(p) EXCEPT !.pc = "failed", !.failed = why])

\* The _active_modules: a nested build begins when its importer is compiled.
Active(p) == {Stack(p)[i].unit : i \in 1 .. Len(Stack(p))}

-----------------------------------------------------------------------------
(* load: an import is read once by a loader, and fails if it is broken.    *)

Loadable(p, d) == coordinator[p].cache[d] # None \/ <<d, disk[d]>> \notin Broken

LoadedDeps(p, u) ==
    [d \in Imports[u] |->
        IF coordinator[p].cache[d] # None THEN coordinator[p].cache[d] ELSE disk[d]]
AllLoad(p, u) == \A d \in Imports[u] : Loadable(p, d)
CacheAfterLoading(p, u) ==
    [d \in Units |->
        IF d \in Imports[u] /\ Loadable(p, d) THEN LoadedDeps(p, u)[d]
        ELSE coordinator[p].cache[d]]

-----------------------------------------------------------------------------
(* A process starts, builds units one after another, and exits.  A build   *)
(* is alone if no other process is building while it runs.                 *)

Others(p) == {q \in Processes \ {p} : Building(q)}

NewProcess(p, u, rebuild) ==
    [known |-> KnownAtStart, cache |-> NoModules, stack |-> <<Frame(u)>>,
     rebuild |-> rebuild, alone |-> Others(p) = {}]

Begin(p, u, rebuild) ==
    /\ ~Building(p) /\ Cardinality(Others(p)) < project.together
    /\ coordinator' = [q \in Processes |->
                          CASE q = p -> NewProcess(p, u, rebuild)
                            [] q # p /\ Building(q) -> [coordinator[q] EXCEPT !.alone = FALSE]
                            [] OTHER -> None]
    /\ present' = TRUE
    /\ UNCHANGED <<objectVars, indexVars, holders, stale, output, reachable, worldVars>>

\* The next target of the same command: a fresh loader, the same records.
BuildNext(p, u) ==
    /\ Building(p) /\ Stack(p) = <<>>
    /\ coordinator' = [coordinator EXCEPT ![p].stack = <<Frame(u)>>, ![p].cache = NoModules,
                                          ![p].alone = Others(p) = {}]
    /\ UNCHANGED <<storeVars, worldVars>>

Exit(p) ==
    /\ Building(p) /\ (Stack(p) = <<>> \/ At(p, "failed"))
    /\ coordinator' = [coordinator EXCEPT ![p] = None]
    /\ UNCHANGED <<storeVars, worldVars>>

-----------------------------------------------------------------------------
(* Reuse.                                                                  *)

ReadSource(p) ==
    /\ At(p, "read")
    /\ LET u == Top(p).unit
       IN  Go(p, [Top(p) EXCEPT !.source = disk[u],
                     !.pc = IF coordinator[p].rebuild THEN "compile" ELSE "restore"])
    /\ UNCHANGED <<storeVars, worldVars>>

\* A missing output is restored from the object of the record.
Restore(p) ==
    /\ At(p, "restore")
    /\ LET u == Top(p).unit
           record == coordinator[p].known[u]
       IN  IF output[u] = None /\ record # None /\ Readable(record.artifact)
           THEN Go(p, [Top(p) EXCEPT !.content = record.artifact, !.pc = "republish"])
           ELSE GoTo(p, "check")
    /\ UNCHANGED <<storeVars, worldVars>>

Republish(p) ==
    /\ At(p, "republish")
    /\ OutputWritten(Top(p).unit, Top(p).content)
    /\ Go(p, [Top(p) EXCEPT !.pc = "check", !.content = None, !.restored = TRUE])
    /\ UNCHANGED <<objectVars, indexVars, lockVars, reachable, worldVars>>

\* An executable is compared with its record; a module says in its output
\* what it was compiled from.

\* What can be told before the output is read.
MayMatch(p) ==
    LET u == Top(p).unit
        record == coordinator[p].known[u]
    IN  /\ output[u] # None
        /\ u \in Executables => record # None /\ record.source = Top(p).source

CheckOutput(p) ==
    /\ At(p, "check")
    /\ GoTo(p, IF MayMatch(p) THEN "compare" ELSE "compile")
    /\ UNCHANGED <<storeVars, worldVars>>

OutputMatches(p) ==
    LET u == Top(p).unit
    IN  MayMatch(p) /\ (u \in Executables => coordinator[p].known[u].output = output[u])

\* An executable that was deleted since cannot be read, and the build fails; a
\* module is compiled again.
CompareOutput(p) ==
    /\ At(p, "compare")
    /\ \/ OutputMatches(p) /\ Go(p, [Top(p) EXCEPT !.saw = output[Top(p).unit], !.pc = "deps"])
       \/ /\ ~OutputMatches(p)
          /\ IF output[Top(p).unit] = None /\ Top(p).unit \in Executables
             THEN Failing(p, "output") ELSE GoTo(p, "compile")
    /\ UNCHANGED <<storeVars, worldVars>>

RecordedDeps(p) ==
    IF Top(p).unit \in Executables THEN coordinator[p].known[Top(p).unit].deps
    ELSE Top(p).saw.deps
AnySource(p) == TRUE
SourceMatches(p) == Top(p).saw.source = Top(p).source

DepsMatch(p) ==
    AllLoad(p, Top(p).unit) /\ LoadedDeps(p, Top(p).unit) = RecordedDeps(p)

CheckDeps(p) ==
    /\ At(p, "deps")
    /\ coordinator' = [coordinator EXCEPT
          ![p].cache = CacheAfterLoading(p, Top(p).unit),
          ![p].stack = SetTop(p, [Top(p) EXCEPT
              !.pc = IF DepsMatch(p) /\ (Top(p).unit \in Executables \/ SourceMatches(p))
                     THEN "reused" ELSE "compile"])]
    /\ UNCHANGED <<storeVars, worldVars>>

-----------------------------------------------------------------------------
(* Compilation and publication.                                            *)

Compiles(p) == <<Top(p).unit, Top(p).source>> \notin Broken /\ AllLoad(p, Top(p).unit)

Compile(p) ==
    /\ At(p, "compile")
    /\ LET u == Top(p).unit
       IN  IF Compiles(p)
           THEN coordinator' = [coordinator EXCEPT
                  ![p].cache = CacheAfterLoading(p, u),
                  ![p].stack = SetTop(p, [Top(p) EXCEPT
                      !.content = Content(u, Top(p).source, LoadedDeps(p, u)), !.saw = None,
                      !.todo = IF u \in Executables THEN {} ELSE Imports[u],
                      !.pc = "nested"])]
           ELSE Failing(p, "compile")
    /\ UNCHANGED <<storeVars, worldVars>>

\* build_module builds the imports of a module that are not being built.
BuildImport(p) ==
    /\ At(p, "nested")
    /\ \E d \in Top(p).todo :
          coordinator' = [coordinator EXCEPT ![p].stack =
              SetTop(p, [Top(p) EXCEPT !.todo = @ \ {d}])
                \o (IF d \in Active(p) THEN <<>> ELSE <<Frame(d)>>)]
    /\ UNCHANGED <<storeVars, worldVars>>

RecordFirst(p) ==
    /\ At(p, "nested") /\ Top(p).todo = {}
    /\ GoTo(p, "merge")
    /\ UNCHANGED <<storeVars, worldVars>>

ImportsBuilt(p) ==
    /\ At(p, "nested") /\ Top(p).todo = {}
    /\ GoTo(p, "put")
    /\ UNCHANGED <<storeVars, worldVars>>

PutObject(p) ==
    /\ At(p, "put") /\ CanOpenLock /\ LockFree
    /\ IF Readable(Top(p).content)
       THEN GoTo(p, "publish") /\ UNCHANGED <<objectVars, lockVars>>
       ELSE GoTo(p, "write") /\ Unlinked(Top(p).content) /\ Locked(p)
    /\ UNCHANGED <<indexVars, output, reachable, worldVars>>

WriteObject(p) ==
    /\ At(p, "write")
    /\ Stored(Top(p).content) /\ Unlocked(p)
    /\ GoTo(p, "publish")
    /\ UNCHANGED <<indexVars, output, reachable, worldVars>>

PublishOutput(p) ==
    /\ At(p, "publish")
    /\ OutputWritten(Top(p).unit, Top(p).content)
    /\ GoTo(p, "verify")
    /\ UNCHANGED <<objectVars, indexVars, lockVars, reachable, worldVars>>

\* update_index_record reads the object before it takes the lock.
VerifyObject(p) ==
    /\ At(p, "verify")
    /\ IF Readable(Top(p).content) THEN GoTo(p, "merge") ELSE Failing(p, "store")
    /\ UNCHANGED <<storeVars, worldVars>>

ReadIndex(p) ==
    /\ At(p, "merge") /\ CanOpenLock /\ LockFree
    /\ IF IndexName(Top(p).unit) \in damaged
       THEN Failing(p, "store") /\ UNCHANGED lockVars
       ELSE /\ Go(p, [Top(p) EXCEPT !.records = RecordsWith(Top(p).unit), !.pc = "record"])
            /\ Locked(p)
    /\ UNCHANGED <<objectVars, indexVars, output, reachable, worldVars>>

\* The lock's directory was removed: opening the lock file raises.
NoLockFile(p) ==
    /\ (At(p, "put") \/ At(p, "merge")) /\ ~CanOpenLock
    /\ Failing(p, "store")
    /\ UNCHANGED <<storeVars, worldVars>>

\* The coordinator keeps the merged records.
Learned(known, u, records, record) ==
    [v \in Units |-> CASE v = u -> record
                       [] v # u /\ IndexName(v) = IndexName(u) -> records[v]
                       [] OTHER -> known[v]]

WriteIndex(p) ==
    /\ At(p, "record")
    /\ LET u == Top(p).unit
           records == Top(p).records
           record == Record(Top(p).content)
       IN  /\ IndexWritten(u, records, record)
           /\ coordinator' = [coordinator EXCEPT
                ![p].known = Learned(@, u, records, record),
                ![p].stack = SetTop(p, [Top(p) EXCEPT !.records = None, !.pc = "built"])]
    /\ Unlocked(p)
    /\ UNCHANGED <<objectVars, output, reachable, worldVars>>

\* The call returns to the importer's build or to the command.
Return(p) ==
    /\ At(p, "reused") \/ At(p, "built")
    /\ coordinator' = [coordinator EXCEPT ![p].stack = SubSeq(@, 1, Len(@) - 1)]
    /\ UNCHANGED <<storeVars, worldVars>>

-----------------------------------------------------------------------------
(* Outside events.                                                         *)

Edit(u, v) ==
    /\ v # disk[u] /\ edits < project.edits /\ u \in project.units
    /\ edits' = edits + 1
    /\ disk' = [disk EXCEPT ![u] = v]
    /\ UNCHANGED <<storeVars, coordinator>>

Crash(p) ==
    /\ "crash" \in Faults /\ Building(p)
    /\ coordinator' = [coordinator EXCEPT ![p] = None]
    /\ Unlocked(p)
    /\ UNCHANGED <<objectVars, indexVars, output, reachable, worldVars>>

CollectGarbage == "collect" \in Faults /\ (ReadReachable \/ Sweep) /\ UNCHANGED <<worldVars, coordinator>>
CleanCache == "clean" \in Faults /\ Clean /\ UNCHANGED <<worldVars, coordinator>>
ObjectDamaged ==
    /\ "object" \in Faults /\ \E content \in good : DamageObject(content)
    /\ UNCHANGED <<worldVars, coordinator>>
IndexDamaged ==
    /\ "index" \in Faults /\ \E u \in Units : DamageIndex(u)
    /\ UNCHANGED <<worldVars, coordinator>>
\* Who deletes an output interferes with the builds that run.
OutputDeleted ==
    /\ "delete" \in Faults /\ \E u \in Units : DeleteOutput(u)
    /\ coordinator' = [p \in Processes |->
          IF Building(p) THEN [coordinator[p] EXCEPT !.alone = FALSE] ELSE None]
    /\ UNCHANGED worldVars

-----------------------------------------------------------------------------
Init ==
    /\ project \in Projects
    /\ StoreInit
    /\ disk \in {d \in [Units -> Versions] :
                    \A u \in Units \ project.units : d[u] = CHOOSE v \in Versions : TRUE}
    /\ edits = 0
    /\ coordinator = [p \in Processes |-> None]

WaitsForLock(p) == PutObject(p) \/ ReadIndex(p)
Proceeds(p) ==
    \/ ReadSource(p) \/ Restore(p) \/ Republish(p) \/ CheckOutput(p) \/ CompareOutput(p)
    \/ CheckDeps(p) \/ Compile(p) \/ BuildImport(p) \/ ImportsBuilt(p)
    \/ WriteObject(p) \/ PublishOutput(p) \/ VerifyObject(p) \/ NoLockFile(p)
    \/ WriteIndex(p) \/ Return(p)

Outside ==
    \/ \E u \in Units, v \in Versions : Edit(u, v)
    \/ \E p \in Processes : Crash(p)
    \/ CollectGarbage \/ CleanCache \/ ObjectDamaged \/ IndexDamaged \/ OutputDeleted

Next ==
    ( \/ \E p \in Processes, command \in project.commands : Begin(p, command[1], command[2])
      \/ \E p \in Processes, command \in project.commands : BuildNext(p, command[1])
      \/ \E p \in Processes : Exit(p) \/ WaitsForLock(p) \/ Proceeds(p)
      \/ Outside )
    /\ UNCHANGED project

Spec == Init /\ [][Next]_vars

-----------------------------------------------------------------------------
(* Properties.                                                             *)

Contents ==
    UNION {[unit : {u}, source : Versions, deps : [Imports[u] -> Versions]] : u \in Units}
Records == {Record(content) : content \in Contents}
Frames ==
    [unit : Units,
     pc : {"read", "restore", "republish", "check", "compare", "deps", "compile", "nested", "put",
           "write", "publish", "verify", "merge", "record", "reused", "built", "failed"},
     source : Versions \union {None}, content : Contents \union {None}, todo : SUBSET Units,
     records : [Units -> Records \union {None}] \union {None},
     restored : BOOLEAN, saw : Contents \union {None},
     failed : {"no", "compile", "store", "output"}]

\* Every variable keeps its type.
TypeOK ==
    /\ good \subseteq Contents /\ corrupt \subseteq Contents /\ good \intersect corrupt = {}
    /\ index \in [Units -> Records \union {None}] /\ merged \in [Units -> Records \union {None}]
    /\ damaged \subseteq {"modules", "targets"}
    /\ output \in [Units -> Contents \union {None}]
    /\ holders \subseteq Processes /\ stale \subseteq Processes /\ present \in BOOLEAN
    /\ reachable = None \/ reachable \subseteq Contents
    /\ disk \in [Units -> Versions] /\ edits \in 0 .. project.edits
    /\ \A p \in Processes : Building(p) =>
          /\ coordinator[p].known \in [Units -> Records \union {None}]
          /\ coordinator[p].cache \in [Units -> Versions \union {None}]
          /\ coordinator[p].rebuild \in BOOLEAN /\ coordinator[p].alone \in BOOLEAN
          /\ \A i \in 1 .. Len(Stack(p)) : Stack(p)[i] \in Frames

\* Every record of an index names an object that can be read, whatever is being
\* built and whoever died when: objects are published before records.  Damaged
\* objects are apart, and so are garbage collection and the cleaning of the
\* cache, which do not wait for the builds that run.
IndexClosed ==
    Faults \intersect {"object", "collect", "clean"} = {} =>
        \A u \in Units : index[u] # None => index[u].artifact \in good

\* Nothing keeps the merges of an index from taking turns.
MergesTakeTurns == HasFlock /\ "clean" \notin Faults

\* Where there is flock, no record merged into an index is lost to another
\* process's merge (update_index_record: "without losing concurrent updates"),
\* except when the cache is cleaned, which takes the lock file away from its
\* holder.  Where there is no flock, records are lost: NeverLosesUpdate.
NoLostUpdate ==
    MergesTakeTurns => \A u \in Units : merged[u] # None => index[u] = merged[u]

\* A record says what its own unit's artifact was compiled from, though the
\* source and the imports change while it is being built.
RecordsTruthful ==
    \A u \in Units : index[u] # None =>
        index[u].artifact = Content(u, index[u].source, index[u].deps)

\* What an index says can be relied on: the object is there, and it is what
\* the record says it is.
RecordsStand == TypeOK /\ IndexClosed /\ RecordsTruthful

\* A unit is reused only if its output was compiled from the source that
\* this build read and from the imports its loader sees.
ReusedIsFresh ==
    \A p \in Processes : At(p, "reused") =>
        Top(p).saw = Content(Top(p).unit, Top(p).source, LoadedDeps(p, Top(p).unit))

\* When a build ends and no other build ran meanwhile, the output of its unit
\* is what its source compiles to: whatever an earlier build left behind when
\* it died, and whatever became of the objects.
BuildStands ==
    \A p \in Processes : (At(p, "reused") \/ At(p, "built")) /\ coordinator[p].alone =>
        output[Top(p).unit] =
            Content(Top(p).unit, Top(p).source, LoadedDeps(p, Top(p).unit))

\* What a build leaves as a unit's output is what its sources compile to.
OutputsAreRight == ReusedIsFresh /\ BuildStands

\* A failed parse or analysis leaves the output as it found it
\* (docs/maintenance/architecture.md:283).
FailureLeavesOutput ==
    \A p \in Processes : At(p, "failed") /\ Top(p).failed = "compile" => ~Top(p).restored

\* A build fails only because of its sources: what is wrong with the store is
\* rebuilt from them.
StoreIsRebuilt ==
    \A p \in Processes : At(p, "failed") => Top(p).failed = "compile"

\* What garbage collection and cleaning do to the two properties above.
IndexAlwaysClosed == \A u \in Units : index[u] # None => index[u].artifact \in good
NeverLosesUpdate == \A u \in Units : merged[u] # None => index[u] = merged[u]
=============================================================================
