--------------------------- MODULE ArtifactStore ---------------------------
(***************************************************************************)
(* The incremental artifact store of a project (incremental/store.py):     *)
(* immutable objects named by their content, two mutable indexes, a writer *)
(* lock on a file, and the configured outputs of the builds.               *)
(*                                                                         *)
(* Processes share the store through the file system.  Each operation here *)
(* is one step of a process between two points where another process may   *)
(* run; module Coordinator composes them into builds.                      *)
(***************************************************************************)
EXTENDS Naturals, FiniteSets

CONSTANTS
    Processes,      \* operating-system processes that build
    Units,          \* build targets and modules
    None

VARIABLES
    project,        \* what is built, how, and what may befall it; never changes
    good,           \* the contents of the readable objects
    corrupt,        \* the contents whose object file fails its digest
    index,          \* the records of both indexes, None where there is none
    damaged,        \* index files that do not parse
    output,         \* content of each unit's configured output, None if missing
    holders,        \* who holds the lock of the writer lock file
    stale,          \* who holds the lock of a writer lock file since removed
    present,        \* the directory of the lock file exists
    reachable,      \* collect_garbage: what it saw in the indexes, None if idle
    merged          \* history: the last record merged for each unit

\* The units with a record in index "targets".
Executables == project.executables

objectVars == <<good, corrupt>>
indexVars == <<index, damaged, merged>>
lockVars == <<holders, stale, present>>
storeVars == <<objectVars, indexVars, lockVars, output, reachable>>

NoRecords == [u \in Units |-> None]

StoreInit ==
    /\ good = {} /\ corrupt = {}
    /\ index = NoRecords /\ damaged = {} /\ merged = NoRecords
    /\ output = NoRecords
    /\ holders = {} /\ stale = {} /\ present = FALSE
    /\ reachable = None

-----------------------------------------------------------------------------
(* The lock: flock on <store>/locks/writer.lock.  The kernel drops it when  *)
(* its holder dies.  Python has no fcntl on Windows: writer_lock then opens *)
(* the file and locks nothing.                                             *)

HasFlock == project.flock

\* Opening the lock file fails once its directory is gone.
CanOpenLock == present
LockFree == holders = {}
NotLocked(p) == UNCHANGED lockVars
Locked(p) ==
    /\ holders' = IF HasFlock THEN holders \union {p} ELSE holders
    /\ UNCHANGED <<stale, present>>
Unlocked(p) ==
    holders' = holders \ {p} /\ stale' = stale \ {p} /\ UNCHANGED present

-----------------------------------------------------------------------------
(* Objects.                                                                *)

Readable(content) == content \in good

\* put, under the lock: a valid object stays as it is, a corrupt one is
\* unlinked; the new file then replaces what is there.
Unlinked(content) == corrupt' = corrupt \ {content} /\ UNCHANGED good
Stored(content) == good' = good \union {content} /\ corrupt' = corrupt \ {content}

(* Indexes: one file for the modules and one for the targets.              *)

IndexName(u) == IF u \in Executables THEN "targets" ELSE "modules"

\* The records a reader of u's index file sees.
RecordsWith(u) ==
    [v \in Units |-> IF IndexName(v) = IndexName(u) THEN index[v] ELSE None]

\* u's index file is replaced by records, u's record being the given one.
IndexWritten(u, records, record) ==
    /\ index' = [v \in Units |->
                    CASE v = u -> record
                      [] v # u /\ IndexName(v) = IndexName(u) -> records[v]
                      [] OTHER -> index[v]]
    /\ damaged' = damaged \ {IndexName(u)}
    /\ merged' = [merged EXCEPT ![u] = record]

\* publish_output
OutputWritten(u, content) == output' = [output EXCEPT ![u] = content]

-----------------------------------------------------------------------------
(* collect_garbage reads the indexes, then sweeps under the lock.          *)

ReadReachable ==
    /\ reachable = None /\ damaged = {}
    /\ reachable' = {index[u].artifact : u \in {v \in Units : index[v] # None}}
    /\ UNCHANGED <<objectVars, indexVars, lockVars, output>>

Sweep ==
    /\ reachable # None /\ CanOpenLock /\ LockFree
    /\ good' = good \intersect reachable
    /\ corrupt' = corrupt \intersect reachable
    /\ reachable' = None
    /\ UNCHANGED <<indexVars, lockVars, output>>

\* clean_cache: the store's tree is removed, without the lock; a holder keeps
\* its lock on a file that is no longer there.
Clean ==
    /\ good' = {} /\ corrupt' = {}
    /\ index' = NoRecords /\ damaged' = {} /\ merged' = NoRecords
    /\ present' = FALSE /\ stale' = stale \union holders /\ holders' = {}
    /\ UNCHANGED <<output, reachable>>

-----------------------------------------------------------------------------
(* What happens to the files from outside.                                 *)

DamageObject(content) ==
    /\ content \in good
    /\ good' = good \ {content} /\ corrupt' = corrupt \union {content}
    /\ UNCHANGED <<indexVars, lockVars, output, reachable>>

DamageIndex(u) ==
    /\ index[u] # None
    /\ damaged' = damaged \union {IndexName(u)}
    /\ UNCHANGED <<objectVars, index, merged, lockVars, output, reachable>>

DeleteOutput(u) ==
    /\ output[u] # None
    /\ output' = [output EXCEPT ![u] = None]
    /\ UNCHANGED <<objectVars, indexVars, lockVars, reachable>>
=============================================================================
