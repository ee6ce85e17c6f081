--------------------------- MODULE PackageCommit ---------------------------
(***************************************************************************)
(* Package installation and the transactions on a project's manifest       *)
(* (modules_system/packages.py): install resolves a dependency graph into  *)
(* the .vln tree of the project and of the live path packages, and         *)
(* _commit_manifest_change surrounds it with a journal of those trees for  *)
(* add, remove, upgrade and localize.  Sources change at any time, any     *)
(* step may fail, and a command may be interrupted.                        *)
(***************************************************************************)
EXTENDS Naturals, SequencesExt, Queues

CONSTANTS
    Order,          \* the packages' names, sorted
    Worlds          \* the projects, their packages, and what may befall them

Packages == ToSet(Order)
Kinds == {"git", "local", "path"}
Project == "project"
None == "none"
Owners == Packages \union {Project}

\* A manifest is a function from names to [kind, version].
IsManifest(m) ==
    /\ DOMAIN m \subseteq Packages
    /\ \A n \in DOMAIN m : m[n].kind \in Kinds /\ m[n].version \in Nat

\* Each once; and the names below are not those of packages.
ASSUME OrderAssumption ==
    Order \in Seq(Packages) /\ IsInjective(Order) /\ {Project, None} \cap Packages = {}

ASSUME WorldAssumption ==
    \A w \in Worlds :
        /\ DOMAIN w.needs = Packages /\ \A n \in Packages : IsManifest(w.needs[n])
        /\ IsManifest(w.manifest)
        \* what a change may declare
        /\ \A d \in w.declarations : d.name \in Packages /\ d.kind \in Kinds
        \* the packages whose sources other programs edit
        /\ w.edited \subseteq Packages
        \* "interrupt": interrupted steps, "undo": rollback steps fail
        /\ w.faults \subseteq {"interrupt", "undo"}
        \* bounds
        /\ w.commands \in Nat /\ w.edits \in Nat

VARIABLES
    world,              \* one of the Worlds; never changes
    manifest, lock,     \* valiance.toml, valiance.lock ([direct, records] or NoLock)
    trees,              \* owner -> (path of names -> contents) installed in its .vln
    source,             \* package -> its working tree, [version, edit]
    phase,              \* "idle" or what the running command does
    command,            \* the running or last command: [op, update, removed]
    jobs,               \* what resolution has still to do, in order
    staged,             \* <<owner, path>> -> contents in temporary directories
    records,            \* of the new lock
    journal,            \* [manifest, lock, trees] of the change
    unrestored,         \* owners the rollback failed for
    outcome,            \* of the last command
    before,             \* the project's files when the command began
    commands, edits     \* bounds

files == <<manifest, lock, trees>>
work == <<jobs, staged, records>>
undo == <<journal, unrestored>>
vars == <<files, source, phase, command, work, undo, outcome, before, commands, edits, world>>

Needs == world.needs      \* package -> its own manifest
Faults == world.faults

NoLock == [direct |-> <<>>, records |-> {}, exists |-> FALSE]
Nothing == <<>>
Snapshot == [manifest |-> manifest, lock |-> lock, trees |-> trees]

Without(f, S) == [x \in DOMAIN f \ S |-> f[x]]
With(f, x, y) == [z \in DOMAIN f \union {x} |-> IF z = x THEN y ELSE f[z]]
Under(tree, name) == {path \in DOMAIN tree : path[1] = name}

-----------------------------------------------------------------------------
(* The graph of live path packages.                                        *)

PathNames(m) == {n \in DOMAIN m : m[n].kind = "path"}

\* The live packages that those named need, and that these need in their turn.
Leads(names) ==
    {p \in Packages :
        \A R \in SUBSET Packages :
            (names \subseteq R /\ \A r \in R : PathNames(Needs[r]) \subseteq R) => p \in R}
PathRoots(m) == Leads(PathNames(m))

\* The declarations _path_managed_roots meets; it checks one for each root.
Declared(m, p) == {q[p] : q \in {r \in {m} \union {Needs[o] : o \in PathRoots(m)} : p \in PathNames(r)}}
Matches(p) == [kind |-> "path", version |-> source[p].version]
RootsMayFail(m) == \E p \in PathRoots(m) : \E d \in Declared(m, p) : d # Matches(p)
RootsMayLoad(m) == \A p \in PathRoots(m) : Matches(p) \in Declared(m, p)

ManagedRoots(m) == {Project} \union PathRoots(m)

-----------------------------------------------------------------------------
(* Resolution: the recursive calls and loops as a list of jobs.            *)

Jobs(m, owner, prefix, ancestry) ==
    LET names == Kept(Order, DOMAIN m)
    IN  [i \in DOMAIN names |->
            [do |-> "resolve", owner |-> owner, path |-> Append(prefix, names[i]),
             kind |-> m[names[i]].kind, version |-> m[names[i]].version, ancestry |-> ancestry]]

Job == Head(jobs)
Name == Last(Job.path)
Todo(do) == phase = "install" /\ jobs # <<>> /\ Job.do = do
Then(more) == jobs' = more \o Tail(jobs)

Key == [name |-> Name, kind |-> Job.kind, revision |-> IF Job.kind = "git" THEN Job.version ELSE 0]
NeverSeen == TRUE
Acyclic == Key \notin Job.ancestry

\* What a checkout or a copy of the declared source holds now.
Released(version) == [version |-> version, edit |-> 0]
Fetched(name, kind, version) == IF kind = "git" THEN Released(version) ELSE source[name]
Fetchable(name, kind, version) == kind = "git" => version <= source[name].version

Record(contents) ==
    [owner |-> Job.owner, path |-> Job.path, kind |-> Job.kind, version |-> Job.version, contents |-> contents]

ResolvePath ==
    /\ Todo("resolve") /\ Job.kind = "path"
    /\ Acyclic /\ source[Name].version = Job.version
    /\ records' = records \union {Record(Nothing)}
    /\ Then(Jobs(Needs[Name], Name, <<>>, Job.ancestry \union {Key}))
    /\ UNCHANGED <<files, source, phase, command, staged, undo, outcome, before, commands, edits>>

\* Fetched into a temporary directory; its own packages go beneath it there.
ResolveManaged ==
    /\ Todo("resolve") /\ Job.kind # "path"
    /\ Acyclic /\ Fetchable(Name, Job.kind, Job.version)
    /\ LET contents == Fetched(Name, Job.kind, Job.version)
           top == Len(Job.path) = 1
       IN  /\ contents.version = Job.version
           /\ staged' = With(staged, <<Job.owner, Job.path>>, contents)
           /\ records' = records \union {Record(contents)}
           /\ Then(Jobs(Needs[Name], Job.owner, Job.path, Job.ancestry \union {Key})
                        \o IF top THEN <<[Job EXCEPT !.do = "place"]>> ELSE <<>>)
    /\ UNCHANGED <<files, source, phase, command, undo, outcome, before, commands, edits>>

\* shutil.rmtree(destination), then os.replace of the whole staged package.
Destination == {path \in DOMAIN trees[Job.owner] : IsPrefix(Job.path, path)}
Checkout == {at \in DOMAIN staged : at[1] = Job.owner /\ IsPrefix(Job.path, at[2])}

DropOld ==
    /\ Todo("place") /\ Destination # {}
    /\ trees' = [trees EXCEPT ![Job.owner] = Without(@, Destination)]
    /\ UNCHANGED <<manifest, lock, source, phase, command, work, undo, outcome, before, commands, edits>>

Place ==
    /\ Todo("place") /\ Destination = {}
    /\ trees' = [trees EXCEPT ![Job.owner] =
                    [path \in DOMAIN @ \union {at[2] : at \in Checkout} |->
                        IF path \in DOMAIN @ THEN @[path] ELSE staged[<<Job.owner, path>>]]]
    /\ staged' = Without(staged, Checkout)
    /\ Then(<<>>)
    /\ UNCHANGED <<manifest, lock, source, phase, command, records, undo, outcome, before, commands, edits>>

-----------------------------------------------------------------------------
(* install --locked: the records of the lock, shallow paths first.         *)

IsCurrent == lock.exists /\ lock.direct = manifest

RestoreJob(r) ==
    [do |-> "restore", owner |-> r.owner, path |-> r.path, kind |-> r.kind,
     version |-> r.version, contents |-> r.contents]
DeepFirst(r, s) == Len(r.path) > Len(s.path)
ShallowFirst(r, s) == Len(r.path) < Len(s.path)
\* The sort by depth; which of two of one depth comes first is left open.
LockedOrders ==
    {order \in [1..Cardinality(lock.records) -> lock.records] :
        /\ IsInjective(order) /\ ToSet(order) = lock.records
        /\ \A i, j \in DOMAIN order : i < j => ~ShallowFirst(order[j], order[i])}

Installed(owner, path) == path \in DOMAIN trees[owner]
Verified == Installed(Job.owner, Job.path) /\ trees[Job.owner][Job.path] = Job.contents

\* A live package, or one that is installed as recorded.
LockedSkip ==
    /\ Todo("restore")
    /\ IF Job.kind = "path" THEN source[Name].version = Job.version ELSE Verified
    /\ Then(<<>>)
    /\ UNCHANGED <<files, source, phase, command, staged, records, undo, outcome, before, commands, edits>>

SameVersion(contents) == contents.version = Job.version
SameContents(contents) == contents = Job.contents

LockedFetch ==
    /\ Todo("restore") /\ Job.kind # "path" /\ ~Verified
    /\ LET contents == Fetched(Name, Job.kind, Job.version)
       IN  SameContents(contents) /\ staged' = With(staged, <<Job.owner, Job.path>>, contents)
    /\ jobs' = <<[Job EXCEPT !.do = "place"]>> \o Tail(jobs)
    /\ UNCHANGED <<files, source, phase, command, records, undo, outcome, before, commands, edits>>

-----------------------------------------------------------------------------
(* Commands: install, and _commit_manifest_change with a changed manifest. *)

Begin(cmd) ==
    /\ phase = "idle" /\ commands < world.commands
    /\ commands' = commands + 1
    /\ command' = cmd
    /\ before' = Snapshot
    /\ records' = {} /\ staged' = Nothing /\ unrestored' = {}
    /\ UNCHANGED <<files, source, edits>>

ProjectJobs(m) == Jobs(m, Project, <<>>, {})

Install ==
    /\ Begin([op |-> "install", update |-> Nothing, removed |-> None])
    /\ phase' = "install" /\ jobs' = ProjectJobs(manifest)
    /\ UNCHANGED <<journal, outcome>>

LockedInstall ==
    /\ Begin([op |-> "locked", update |-> Nothing, removed |-> None])
    /\ IF IsCurrent
       THEN /\ phase' = "install" /\ UNCHANGED outcome
            /\ \E order \in LockedOrders : jobs' = [i \in DOMAIN order |-> RestoreJob(order[i])]
       ELSE outcome' = "failed" /\ UNCHANGED <<phase, jobs>>
    /\ UNCHANGED journal

\* The manifests add_dependency, upgrade_dependency, localize_dependency and
\* remove_dependency ask for.
Updates ==
    {[op |-> "change", removed |-> None,
      update |-> With(manifest, d.name, [kind |-> d.kind, version |-> v])] :
        d \in world.declarations, v \in {source[n].version : n \in Packages}}
    \union {[op |-> "change", removed |-> n, update |-> Without(manifest, {n})] : n \in DOMAIN manifest}

\* The journal: the bytes of both files and a copy of every managed tree.
JournalOfProject(m) ==
    [manifest |-> manifest, lock |-> lock, trees |-> [o \in {Project} |-> trees[o]]]
JournalOf(m) ==
    [manifest |-> manifest, lock |-> lock, trees |-> [o \in ManagedRoots(m) |-> trees[o]]]

Change ==
    \E cmd \in Updates :
        /\ Begin(cmd)
        /\ \/ /\ RootsMayFail(cmd.update)
              /\ outcome' = "failed" /\ UNCHANGED <<phase, jobs, journal>>
           \/ /\ RootsMayLoad(cmd.update)
              /\ journal' = JournalOf(cmd.update)
              /\ phase' = "write" /\ UNCHANGED <<jobs, outcome>>

WriteManifest ==
    /\ phase = "write"
    /\ manifest' = command.update
    /\ phase' = "install" /\ jobs' = ProjectJobs(manifest')
    /\ UNCHANGED <<lock, trees, source, command, staged, records, undo, outcome, before, commands, edits>>

End(result) == phase' = "idle" /\ outcome' = result /\ jobs' = <<>> /\ staged' = Nothing

\* write_lockfile replaces the file as a whole.
WriteLock ==
    /\ phase = "install" /\ jobs = <<>> /\ command.op # "locked"
    /\ lock' = [direct |-> manifest, records |-> records, exists |-> TRUE]
    /\ IF command.removed = None THEN End("done")
       ELSE phase' = "prune" /\ UNCHANGED <<outcome, jobs, staged>>
    /\ UNCHANGED <<manifest, trees, source, command, records, undo, before, commands, edits>>

LockedDone ==
    /\ phase = "install" /\ jobs = <<>> /\ command.op = "locked"
    /\ End("done")
    /\ UNCHANGED <<files, source, command, records, undo, before, commands, edits>>

Prune ==
    /\ phase = "prune"
    /\ trees' = [trees EXCEPT ![Project] = Without(@, Under(@, command.removed))]
    /\ End("done")
    /\ UNCHANGED <<manifest, lock, source, command, records, undo, before, commands, edits>>

-----------------------------------------------------------------------------
(* Failure: any exception; a change is rolled back.                        *)

Fail ==
    /\ phase \in {"write", "install", "prune"}
    /\ IF command.op = "change"
       THEN phase' = "undoManifest" /\ jobs' = <<>> /\ staged' = Nothing /\ UNCHANGED outcome
       ELSE End("failed")
    /\ UNCHANGED <<files, source, command, records, undo, before, commands, edits>>

UndoManifest ==
    /\ phase = "undoManifest"
    /\ manifest' = journal.manifest
    /\ phase' = "undoLock"
    /\ UNCHANGED <<lock, trees, source, command, work, undo, outcome, before, commands, edits>>

UndoLock ==
    /\ phase = "undoLock"
    /\ lock' = journal.lock
    /\ phase' = "undoTrees"
    /\ UNCHANGED <<manifest, trees, source, command, work, undo, outcome, before, commands, edits>>

\* One root: its tree removed and copied back, or an OSError on the way.
Forget(root) == journal' = [journal EXCEPT !.trees = Without(@, {root})]

UndoTree ==
    /\ phase = "undoTrees"
    /\ \E root \in DOMAIN journal.trees :
        /\ Forget(root)
        /\ \/ /\ trees' = [trees EXCEPT ![root] = journal.trees[root]]
              /\ UNCHANGED unrestored
           \/ /\ "undo" \in Faults
              /\ trees' \in {trees, [trees EXCEPT ![root] = Nothing]}
              /\ unrestored' = unrestored \union {root}
    /\ UNCHANGED <<manifest, lock, source, phase, command, work, outcome, before, commands, edits>>

Undone ==
    /\ phase = "undoTrees" /\ DOMAIN journal.trees = {}
    /\ End(IF unrestored = {} THEN "failed" ELSE "incomplete")
    /\ UNCHANGED <<files, source, command, records, undo, before, commands, edits>>

\* writing the manifest or the lock back fails: the error leaves the handler.
UndoAborts ==
    /\ "undo" \in Faults /\ phase \in {"undoManifest", "undoLock"}
    /\ End("aborted")
    /\ UNCHANGED <<files, source, command, records, undo, before, commands, edits>>

\* KeyboardInterrupt is no Exception: only the temporary directories go.
Interrupt ==
    /\ "interrupt" \in Faults /\ phase # "idle"
    /\ End("interrupted")
    /\ UNCHANGED <<files, source, command, records, undo, before, commands, edits>>

-----------------------------------------------------------------------------
(* Other programs: sources are edited and released, installed packages     *)
(* damaged and the manifest edited by hand.                                *)

Outside == UNCHANGED <<phase, command, work, undo, before, commands>>
Edited == edits < world.edits /\ edits' = edits + 1

EditSource ==
    /\ Edited /\ Outside
    /\ \E p \in world.edited :
        \/ source' = [source EXCEPT ![p].edit = @ + 1]
        \/ source' = [source EXCEPT ![p] = Released(@.version + 1)]
    /\ UNCHANGED <<files, outcome>>

Tampered == [version |-> 0, edit |-> world.edits + 1]

Damage ==
    /\ phase = "idle" /\ Edited /\ Outside
    /\ \E o \in Owners : \E path \in DOMAIN trees[o] :
        trees' \in {[trees EXCEPT ![o] = Without(@, {p \in DOMAIN @ : IsPrefix(path, p)})],
                    [trees EXCEPT ![o][path] = Tampered]}
    /\ outcome' = None
    /\ UNCHANGED <<manifest, lock, source>>

EditManifest ==
    /\ phase = "idle" /\ Edited /\ Outside
    /\ \E cmd \in Updates : manifest' = cmd.update
    /\ outcome' = None
    /\ UNCHANGED <<lock, trees, source>>

-----------------------------------------------------------------------------
Init ==
    /\ world \in Worlds
    /\ manifest = world.manifest /\ lock = NoLock
    /\ trees = [o \in Owners |-> Nothing]
    /\ source = [p \in Packages |-> Released(0)]
    /\ phase = "idle" /\ command = [op |-> None, update |-> Nothing, removed |-> None]
    /\ jobs = <<>> /\ staged = Nothing /\ records = {}
    /\ journal = [manifest |-> Nothing, lock |-> NoLock, trees |-> Nothing]
    /\ unrestored = {} /\ outcome = None /\ before = Snapshot
    /\ commands = 0 /\ edits = 0

Step ==
    \/ ResolvePath \/ ResolveManaged \/ DropOld \/ Place \/ LockedSkip \/ LockedFetch
    \/ WriteManifest \/ WriteLock \/ LockedDone \/ Prune
    \/ UndoManifest \/ UndoLock \/ UndoTree \/ Undone

Next ==
    ( \/ Install \/ LockedInstall \/ Change \/ Step
      \/ Fail \/ UndoAborts \/ Interrupt
      \/ EditSource \/ Damage \/ EditManifest )
    /\ UNCHANGED world

Spec == Init /\ [][Next]_vars
\* A command's steps follow one another without waiting for anyone, and a
\* step that cannot be taken raises.
LiveSpec == Spec /\ WF_vars((Step \/ Fail) /\ UNCHANGED world)

-----------------------------------------------------------------------------
(* Properties.                                                             *)

\* The files have the shape the next command expects, and a managed package
\* is installed only for a root or beneath one that is.
TypeOK ==
    /\ IsManifest(manifest)
    /\ DOMAIN trees = Owners /\ DOMAIN source = Packages
    /\ \A o \in Owners : \A path \in DOMAIN trees[o] :
        \A i \in 1 .. Len(path) : Installed(o, SubSeq(path, 1, i))
    /\ phase = "idle" => jobs = <<>> /\ staged = Nothing

ChangeEnds(results) == phase # "idle" /\ phase' = "idle" /\ command.op = "change" /\ outcome' \in results

\* The packages that may be installed as git or local ones, and the live ones
\* that these lead to.  _path_managed_roots follows live packages only, so of
\* the latter the journal has those that the change also leads to otherwise.
MayBeManaged(n) ==
    \/ n \in DOMAIN world.manifest /\ world.manifest[n].kind # "path"
    \/ \E d \in world.declarations : d.name = n /\ d.kind # "path"
    \/ \E o \in Packages : n \in DOMAIN Needs[o] /\ Needs[o][n].kind # "path"
LiveBelowManaged == Leads(UNION {PathNames(Needs[n]) : n \in {o \in Packages : MayBeManaged(o)}})
Unjournaled == LiveBelowManaged \ ManagedRoots(command.update)

\* A change that failed, wherever it failed, has left the manifest, the lock
\* and every installed package as they were before it (test_failed_add_
\* restores_manifest_lock_and_packages looks at one place), but for those in
\* the trees of live packages that only managed ones lead to.
FailureRestores ==
    [][ChangeEnds({"failed"}) =>
        /\ manifest' = before.manifest /\ lock' = before.lock
        /\ \A o \in Owners \ Unjournaled : trees'[o] = before.trees[o]]_vars

\* When the rollback could not finish it says so, and then both files and the
\* trees it did not complain about are as they were.
IncompleteIsReported ==
    [][ChangeEnds({"incomplete"}) =>
        /\ manifest' = before.manifest /\ lock' = before.lock
        /\ \A o \in Owners \ (unrestored \union Unjournaled) : trees'[o] = before.trees[o]]_vars

\* A change that did not succeed is undone, or says what it could not undo,
\* but for the trees that its journal does not have.
ChangesAreUndone == FailureRestores /\ IncompleteIsReported

\* A change is there as a whole or not at all, whichever way the command
\* ended (packages.py:1002: "Apply a package mutation transactionally").
AllOrNothing ==
    [][ChangeEnds({"failed", "interrupted"}) => Snapshot' = before]_vars

\* After a command that succeeded the lock is that of the manifest, and what
\* it records of every package is what is installed for it, transitive ones
\* included, also where trees had been damaged or sources edited meanwhile.
DoneIsReproducible ==
    outcome = "done" /\ phase = "idle" =>
        /\ IsCurrent
        /\ \A r \in lock.records :
            r.kind # "path" => Installed(r.owner, r.path) /\ trees[r.owner][r.path] = r.contents

\* What is installed is what the lock says, in a project of the right shape.
InstalledAsLocked == TypeOK /\ DoneIsReproducible

\* A locked install changes neither the manifest nor the lock, and installs
\* only what the lock records: it never upgrades.
LockedOnlyRestores ==
    [][phase = "install" /\ command.op = "locked" =>
        /\ UNCHANGED <<manifest, lock>>
        /\ \A o \in Owners : \A path \in DOMAIN trees'[o] :
            \/ Installed(o, path) /\ trees'[o][path] = trees[o][path]
            \/ \E r \in lock.records : <<r.owner, r.path, r.contents>> = <<o, path, trees'[o][path]>>]_vars

\* Every command ends, also when packages depend on each other in a circle.
CommandsEnd == (phase # "idle") ~> (phase = "idle")
=============================================================================
