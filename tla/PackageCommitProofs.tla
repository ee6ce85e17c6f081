------------------------- MODULE PackageCommitProofs -------------------------
(***************************************************************************)
(* Proofs about PackageCommit, for any packages, any worlds and any number *)
(* of commands and edits: of changes and their journals, of locked         *)
(* installs, and of what every successful command leaves behind.  What is  *)
(* proved of changes and locked installs needs no hypothesis.  What every  *)
(* successful command leaves is proved for two kinds of graphs of packages *)
(* only (LiveAboveManaged, LiveNeededOnce): the code accepts others too,   *)
(* and has there the flaws the README describes, found by TLC.             *)
(***************************************************************************)
EXTENDS PackageCommit, QueueLemmas, SequenceTheorems, FiniteSetTheorems, TLAPS

Sound(m) == DOMAIN m \subseteq Packages /\ \A n \in DOMAIN m : m[n].kind # "path" => MayBeManaged(n)

Changing == phase # "idle" /\ command.op = "change"
Managed == ManagedRoots(command.update)
Reached == PathRoots(command.update) \cup LiveBelowManaged

\* What resolution still has to do, it does in trees the journal has, or in
\* those of live packages below managed ones.
JobOf(j) ==
    /\ {"do", "owner", "path", "kind"} \subseteq DOMAIN j
    /\ j.path \in Seq(Packages) /\ j.path # <<>>
    /\ j.owner \in Managed \cup LiveBelowManaged
    /\ j.do = "resolve" => IF j.kind = "path" THEN Last(j.path) \in Reached ELSE MayBeManaged(Last(j.path))

Shapes ==
    /\ world \in Worlds
    /\ trees = [o \in Owners |-> trees[o]]
    /\ before = [manifest |-> before.manifest, lock |-> before.lock, trees |-> before.trees]
    /\ before.trees = [o \in Owners |-> before.trees[o]]
    /\ DOMAIN journal = {"manifest", "lock", "trees"}
    /\ Sound(manifest) /\ Sound(before.manifest)
    /\ Changing => Sound(command.update)
    /\ phase \notin {"idle", "install", "prune"} => command.op = "change"

\* The journal has what was there before, of every tree that is touched.
Journaled ==
    /\ journal.manifest = before.manifest /\ journal.lock = before.lock
    /\ DOMAIN journal.trees \subseteq Owners
    /\ \A o \in DOMAIN journal.trees : journal.trees[o] = before.trees[o]
    /\ \A o \in Owners : \/ trees[o] = before.trees[o]
                         \/ o \in DOMAIN journal.trees \/ o \in unrestored \/ o \in Unjournaled
    /\ phase # "undoTrees" => DOMAIN journal.trees = Managed

Phases ==
    /\ phase \in {"install", "prune"} => manifest = command.update
    /\ phase = "install" => jobs \in Seq(ToSet(jobs)) /\ \A j \in ToSet(jobs) : JobOf(j)
    /\ phase \in {"undoLock", "undoTrees"} => manifest = before.manifest
    /\ phase = "undoTrees" => lock = before.lock

ChangeInv == Shapes /\ (Changing => Journaled /\ Phases)

-----------------------------------------------------------------------------
\* What the constants say of a package's own manifest.
LEMMA Worldly ==
    ASSUME world \in Worlds, NEW p \in Packages
    PROVE  IsManifest(Needs[p])
BY WorldAssumption DEF Needs

\* The live packages that some lead to are packages, and closed under need.
LEMMA LeadsClosed ==
    ASSUME world \in Worlds, NEW N, N \subseteq Packages
    PROVE  /\ Leads(N) \subseteq Packages /\ N \subseteq Leads(N)
           /\ \A r \in Leads(N) : PathNames(Needs[r]) \subseteq Leads(N)
<1>1. \A r \in Packages : PathNames(Needs[r]) \subseteq Packages
    BY Worldly DEF IsManifest, PathNames
<1> QED
    BY <1>1 DEF Leads

\* The live packages a manifest leads to are packages, and closed under need.
LEMMA RootsClosed ==
    ASSUME world \in Worlds, NEW m, DOMAIN m \subseteq Packages
    PROVE  /\ PathRoots(m) \subseteq Packages /\ PathNames(m) \subseteq PathRoots(m)
           /\ \A r \in PathRoots(m) : PathNames(Needs[r]) \subseteq PathRoots(m)
<1>1. PathNames(m) \subseteq Packages
    BY DEF PathNames
<1> QED
    BY <1>1, LeadsClosed DEF PathRoots

\* So are those below managed ones, which are below every managed one.
LEMMA BelowClosed ==
    ASSUME world \in Worlds
    PROVE  /\ LiveBelowManaged \subseteq Packages
           /\ \A n \in Packages : MayBeManaged(n) => PathNames(Needs[n]) \subseteq LiveBelowManaged
           /\ \A r \in LiveBelowManaged : PathNames(Needs[r]) \subseteq LiveBelowManaged
<1> DEFINE N == UNION {PathNames(Needs[n]) : n \in {o \in Packages : MayBeManaged(o)}}
<1>1. N \subseteq Packages
    BY Worldly DEF IsManifest, PathNames
<1>2. \A n \in Packages : MayBeManaged(n) => PathNames(Needs[n]) \subseteq N
    OBVIOUS
<1>3. LiveBelowManaged = Leads(N)
    BY DEF LiveBelowManaged
<1> HIDE DEF N
<1> QED
    BY <1>1, <1>2, <1>3, LeadsClosed

\* A package's manifest declares only packages that may be declared so.
LEMMA NeedsAreSound ==
    ASSUME world \in Worlds, NEW p \in Packages
    PROVE  Sound(Needs[p])
<1>1. DOMAIN Needs[p] \subseteq Packages
    BY Worldly DEF IsManifest
<1> QED
    BY <1>1 DEF Sound, MayBeManaged

\* The jobs of a manifest are in the trees the journal has.
LEMMA NewJobs ==
    ASSUME NEW m, Sound(m), NEW o \in Managed \cup LiveBelowManaged, NEW prefix \in Seq(Packages),
           NEW a, PathNames(m) \subseteq Reached
    PROVE  /\ Jobs(m, o, prefix, a) \in Seq(ToSet(Jobs(m, o, prefix, a)))
           /\ \A j \in ToSet(Jobs(m, o, prefix, a)) : JobOf(j)
<1> DEFINE names == Kept(Order, DOMAIN m)
           js == Jobs(m, o, prefix, a)
<1>1. names \in Seq(Packages)
    BY KeptType, OrderAssumption
<1>2. ToSet(names) \subseteq DOMAIN m
    BY KeptRange, OrderAssumption
<1>3. js = [i \in DOMAIN names |->
            [do |-> "resolve", owner |-> o, path |-> Append(prefix, names[i]),
             kind |-> m[names[i]].kind, version |-> m[names[i]].version, ancestry |-> a]]
    BY DEF Jobs
<1> HIDE DEF names, js
<1>4. DOMAIN names = 1..Len(names) /\ Len(names) \in Nat
    BY <1>1, LenProperties
<1>5. \A i \in DOMAIN names : names[i] \in DOMAIN m /\ names[i] \in Packages
  <2>1. \A i \in DOMAIN names : names[i] \in ToSet(names)
      BY DEF ToSet
  <2> QED
      BY <2>1, <1>2 DEF Sound
<1>6. js \in Seq(ToSet(js))
  <2>1. js \in [1..Len(names) -> ToSet(js)]
      BY <1>3, <1>4 DEF ToSet
  <2> QED
      BY <2>1, <1>4, SeqDef
<1>7. ASSUME NEW i \in DOMAIN names PROVE JobOf(js[i])
  <2> DEFINE n == names[i]
             path == Append(prefix, n)
  <2>1. n \in DOMAIN m /\ n \in Packages
      BY <1>5
  <2>2. path \in Seq(Packages) /\ path # <<>> /\ Last(path) = n
    <3> HIDE DEF n
    <3>1. path \in Seq(Packages) /\ Len(path) = Len(prefix) + 1 /\ path[Len(prefix) + 1] = n
        BY <2>1, AppendProperties
    <3>2. Len(prefix) \in Nat
        BY LenProperties
    <3> QED
        BY <3>1, <3>2 DEF Last
  <2>3. m[n].kind = "path" => n \in Reached
      BY <2>1 DEF PathNames
  <2>4. m[n].kind # "path" => MayBeManaged(n)
      BY <2>1 DEF Sound
  <2>5. /\ js[i].do = "resolve" /\ js[i].owner = o /\ js[i].path = path /\ js[i].kind = m[n].kind
        /\ {"do", "owner", "path", "kind"} \subseteq DOMAIN js[i]
      BY <1>3
  <2> HIDE DEF path, n
  <2> QED
      BY <2>2, <2>3, <2>4, <2>5 DEF JobOf
<1>8. \A j \in ToSet(js) : JobOf(j)
    BY <1>3, <1>7 DEF ToSet
<1> QED
    BY <1>6, <1>8 DEF js

\* A sequence is one of its own elements.
LEMMA OwnRange == ASSUME NEW S, NEW s \in Seq(S) PROVE s \in Seq(ToSet(s))
<1>1. PICK n \in Nat : s \in [1..n -> S]
    BY SeqDef
<1>2. s \in [1..n -> ToSet(s)]
    BY <1>1 DEF ToSet
<1> QED
    BY <1>2, SeqDef

\* More jobs in place of the first one.
LEMMA MoreJobs ==
    ASSUME jobs \in Seq(ToSet(jobs)), jobs # <<>>, \A j \in ToSet(jobs) : JobOf(j),
           NEW more, more \in Seq(ToSet(more)), \A j \in ToSet(more) : JobOf(j), Then(more)
    PROVE  jobs' \in Seq(ToSet(jobs')) /\ \A j \in ToSet(jobs') : JobOf(j)
<1> DEFINE All == ToSet(jobs) \cup ToSet(more)
<1>1. jobs \in Seq(All) /\ more \in Seq(All)
    BY SeqMonotonic
<1>2. Tail(jobs) \in Seq(All) /\ ToSet(Tail(jobs)) \subseteq ToSet(jobs)
  <2>1. Tail(jobs) \in Seq(ToSet(jobs))
      BY HeadTailProperties
  <2> QED
      BY <2>1, <1>1, RangeIn, SeqMonotonic, HeadTailProperties
<1>3. jobs' \in Seq(All) /\ ToSet(jobs') = ToSet(more) \cup ToSet(Tail(jobs))
  <2> DEFINE t == Tail(jobs)
  <2>1. t \in Seq(All) /\ jobs' = more \o t
      BY <1>2 DEF Then
  <2> HIDE DEF t, All
  <2>2. more \o t \in Seq(All)
      BY <1>1, <2>1, ConcatProperties
  <2>3. ToSet(more \o t) = ToSet(more) \cup ToSet(t)
      BY <1>1, <2>1, RangeConcat
  <2> QED
      BY <2>1, <2>2, <2>3 DEF t
<1>4. jobs' \in Seq(ToSet(jobs'))
    BY <1>3, OwnRange
<1> QED
    BY <1>2, <1>3, <1>4

-----------------------------------------------------------------------------
\* The packages of the project do not change, nor what a command may touch.
LEMMA SameCommand ==
    ASSUME world' = world
    PROVE  /\ \A m : Sound(m)' <=> Sound(m)
           /\ command' = command =>
                /\ Managed' = Managed /\ Unjournaled' = Unjournaled
                /\ \A j : JobOf(j)' <=> JobOf(j)
<1>1. Needs' = Needs
    BY DEF Needs
<1>2. \A n : MayBeManaged(n)' <=> MayBeManaged(n)
    BY <1>1 DEF MayBeManaged
<1>3. \A m : Sound(m)' <=> Sound(m)
    BY <1>2 DEF Sound
<1>7. LiveBelowManaged' = LiveBelowManaged
  <2>1. {o \in Packages : MayBeManaged(o)}' = {o \in Packages : MayBeManaged(o)}
      BY <1>2
  <2>2. \A N : Leads(N)' = Leads(N)
      BY <1>1 DEF Leads
  <2> QED
      BY <1>1, <2>1, <2>2 DEF LiveBelowManaged
<1>4. ASSUME command' = command
      PROVE  PathRoots(command.update)' = PathRoots(command.update)
    BY <1>1, <1>4 DEF PathRoots, Leads
<1>5. ASSUME command' = command
      PROVE  Managed' = Managed
    BY <1>4, <1>5 DEF Managed, ManagedRoots
<1>6. ASSUME command' = command, NEW j
      PROVE  JobOf(j)' <=> JobOf(j)
    BY <1>2, <1>4, <1>5, <1>6, <1>7 DEF JobOf, Reached
<1>8. ASSUME command' = command
      PROVE  Unjournaled' = Unjournaled
    BY <1>5, <1>7, <1>8 DEF Unjournaled, Managed
<1> QED
    BY <1>3, <1>5, <1>6, <1>8

\* The trees a change may touch are those of owners.
LEMMA ManagedAreOwners ==
    ASSUME world \in Worlds, Sound(command.update)
    PROVE  Managed \subseteq Owners /\ Project \in Managed
BY RootsClosed DEF Managed, ManagedRoots, Owners, Sound

\* What the commands ask for.
LEMMA UpdatesAreSound ==
    ASSUME world \in Worlds, Sound(manifest), NEW cmd \in Updates
    PROVE  Sound(cmd.update) /\ cmd.op = "change"
<1> DEFINE Versions == {source[n].version : n \in Packages}
           Declare(d, v) == [op |-> "change", removed |-> None,
                             update |-> With(manifest, d.name, [kind |-> d.kind, version |-> v])]
           Removing(n) == [op |-> "change", removed |-> n, update |-> Without(manifest, {n})]
<1>0. Updates = {Declare(d, v) : d \in world.declarations, v \in Versions}
                    \cup {Removing(n) : n \in DOMAIN manifest}
    BY DEF Updates
<1>1. CASE \E n \in DOMAIN manifest : cmd = Removing(n)
    BY <1>1 DEF Without, Sound
<1>2. CASE \E d \in world.declarations, v \in Versions : cmd = Declare(d, v)
  <2>1. PICK d \in world.declarations, v \in Versions : cmd = Declare(d, v)
      BY <1>2
  <2>2. d.name \in Packages
      BY WorldAssumption
  <2>3. d.kind # "path" => MayBeManaged(d.name)
      BY <2>2 DEF MayBeManaged
  <2> DEFINE m == With(manifest, d.name, [kind |-> d.kind, version |-> v])
  <2>4. /\ DOMAIN m = DOMAIN manifest \cup {d.name} /\ m[d.name].kind = d.kind
        /\ \A n \in DOMAIN manifest : n # d.name => m[n] = manifest[n]
      BY DEF With
  <2> HIDE DEF m
  <2>5. Sound(m)
      BY <2>2, <2>3, <2>4 DEF Sound
  <2> QED
      BY <2>1, <2>5 DEF m
<1> HIDE DEF Versions, Declare, Removing
<1>3. (\E n \in DOMAIN manifest : cmd = Removing(n))
        \/ \E d \in world.declarations, v \in Versions : cmd = Declare(d, v)
    BY <1>0
<1> QED
    BY <1>1, <1>2, <1>3

-----------------------------------------------------------------------------
\* At the start nothing runs.
LEMMA ChangeInit == ASSUME Init PROVE ChangeInv
<1>1. world \in Worlds /\ IsManifest(world.manifest)
    BY WorldAssumption DEF Init
<1>2. Sound(manifest)
    BY <1>1 DEF Init, Sound, IsManifest, MayBeManaged
<1>3. before = [manifest |-> manifest, lock |-> lock, trees |-> trees]
    BY DEF Init, Snapshot
<1> QED
    BY <1>1, <1>2, <1>3 DEF ChangeInv, Shapes, Changing, Init

\* A command that ends.
LEMMA Ends ==
    ASSUME ChangeInv, world' = world, phase' = "idle",
           UNCHANGED <<manifest, before, journal>>, trees' = [o \in Owners |-> trees'[o]]
    PROVE  ChangeInv'
BY SameCommand DEF ChangeInv, Shapes, Changing

\* A step that does some of the work, in the tree of its job.
LEMMA Works ==
    ASSUME ChangeInv, world' = world, phase = "install", phase' = phase, jobs # <<>>,
           UNCHANGED <<manifest, lock, before, journal, unrestored, command>>,
           trees' = trees \/ \E t : trees' = [trees EXCEPT ![Job.owner] = t],
           Changing => jobs' \in Seq(ToSet(jobs')) /\ \A j \in ToSet(jobs') : JobOf(j)
    PROVE  ChangeInv'
<1>1. Shapes'
    BY SameCommand DEF ChangeInv, Shapes, Changing
<1>2. ASSUME Changing' PROVE Journaled' /\ Phases'
  <2>1. Changing /\ Journaled /\ Phases
      BY <1>2 DEF Changing, ChangeInv
  <2>2. Job \in ToSet(jobs)
      BY <2>1, HeadTailProperties, ElementOfSeq, LenProperties DEF Phases, Job, ToSet
  <2>3. Job.owner \in DOMAIN journal.trees \/ Job.owner \in Unjournaled
      BY <2>1, <2>2 DEF Phases, Journaled, JobOf, Unjournaled, Managed
  <2>4. \A o \in Owners : o # Job.owner => trees'[o] = trees[o]
      BY DEF ChangeInv, Shapes
  <2>5. Journaled'
      BY <2>1, <2>3, <2>4, SameCommand DEF Journaled
  <2>6. Phases'
      BY <2>1, SameCommand DEF Phases
  <2> QED
      BY <2>5, <2>6
<1> QED
    BY <1>1, <1>2 DEF ChangeInv

\* The job that moves a package into place is where the one that fetched it was.
LEMMA PlaceJob ==
    ASSUME JobOf(Job)
    PROVE  LET more == <<[Job EXCEPT !.do = "place"]>>
           IN  more \in Seq(ToSet(more)) /\ \A j \in ToSet(more) : JobOf(j)
<1> DEFINE k == [Job EXCEPT !.do = "place"]
           more == <<k>>
<1>1. JobOf(k)
    BY DEF JobOf
<1> HIDE DEF k
<1>2. more \in Seq({k}) /\ ToSet(more) = {k}
    BY DEF ToSet
<1> QED
    BY <1>1, <1>2, OwnRange DEF k

\* Resolution reaches only the project and live packages of the change.
LEMMA ResolveStep ==
    ASSUME ChangeInv, world' = world, ResolvePath \/ ResolveManaged
    PROVE  ChangeInv'
<1>1. phase = "install" /\ phase' = phase /\ jobs # <<>>
    BY DEF ResolvePath, ResolveManaged, Todo
<1>2. UNCHANGED <<manifest, lock, before, journal, unrestored, command, trees>>
    BY DEF ResolvePath, ResolveManaged, undo, files
<1>3. ASSUME Changing
      PROVE  jobs' \in Seq(ToSet(jobs')) /\ \A j \in ToSet(jobs') : JobOf(j)
  <2>1. jobs \in Seq(ToSet(jobs)) /\ \A j \in ToSet(jobs) : JobOf(j)
      BY <1>1, <1>3 DEF ChangeInv, Phases
  <2>2. JobOf(Job) /\ Job.do = "resolve"
    <3>1. Job \in ToSet(jobs)
        BY <1>1, <2>1, HeadTailProperties, ElementOfSeq, LenProperties DEF Job, ToSet
    <3> QED
        BY <2>1, <3>1 DEF ResolvePath, ResolveManaged, Todo
  <2>3. Name \in Packages
    <3>1. Job.path \in Seq(Packages) /\ Job.path # <<>>
        BY <2>2 DEF JobOf
    <3> DEFINE path == Job.path
    <3> HIDE DEF path
    <3>2. path \in Seq(Packages) /\ path # <<>> => path[Len(path)] \in Packages
        BY LenProperties, EmptySeq, ElementOfSeq
    <3> QED
        BY <3>1, <3>2 DEF Name, Last, path
  <2>4. world \in Worlds /\ Sound(command.update)
      BY <1>3 DEF ChangeInv, Shapes
  <2>5. Sound(Needs[Name])
      BY <2>3, <2>4, NeedsAreSound
  <2>8. /\ LiveBelowManaged \subseteq Packages /\ Reached = PathRoots(command.update) \cup LiveBelowManaged
        /\ \A r \in LiveBelowManaged : PathNames(Needs[r]) \subseteq LiveBelowManaged
        /\ \A r \in PathRoots(command.update) : PathNames(Needs[r]) \subseteq PathRoots(command.update)
      BY <2>4, BelowClosed, RootsClosed DEF Reached, Sound
  <2>6. CASE ResolvePath
    <3> DEFINE a == Job.ancestry \cup {Key}
               more == Jobs(Needs[Name], Name, <<>>, a)
    <3>1. Then(more)
        BY <2>6 DEF ResolvePath
    <3>2. Name \in Reached
        BY <2>2, <2>6 DEF JobOf, ResolvePath, Name
    <3>3. Name \in Managed \cup LiveBelowManaged /\ PathNames(Needs[Name]) \subseteq Reached
        BY <2>8, <3>2 DEF Managed, ManagedRoots
    <3>4. more \in Seq(ToSet(more)) /\ \A j \in ToSet(more) : JobOf(j)
        BY <2>5, <3>3, NewJobs, EmptySeq
    <3> HIDE DEF more
    <3> QED
        BY <1>1, <2>1, <3>1, <3>4, MoreJobs
  <2>7. CASE ResolveManaged
    <3> DEFINE a == Job.ancestry \cup {Key}
               new == Jobs(Needs[Name], Job.owner, Job.path, a)
               place == <<[Job EXCEPT !.do = "place"]>>
    <3>1. MayBeManaged(Name) /\ Job.owner \in Managed \cup LiveBelowManaged /\ Job.path \in Seq(Packages)
        BY <2>2, <2>7 DEF JobOf, ResolveManaged, Name
    <3>2. PathNames(Needs[Name]) \subseteq Reached
        BY <2>3, <2>4, <3>1, BelowClosed DEF Reached
    <3>3. new \in Seq(ToSet(new)) /\ \A j \in ToSet(new) : JobOf(j)
        BY <2>5, <3>1, <3>2, NewJobs
    <3>4. place \in Seq(ToSet(place)) /\ \A j \in ToSet(place) : JobOf(j)
        BY <2>2, PlaceJob
    <3>5. Then(new \o place) \/ Then(new \o <<>>)
        BY <2>7 DEF ResolveManaged
    <3> HIDE DEF new, place
    <3>6. CASE Then(new \o place)
      <4> DEFINE All == ToSet(new) \cup ToSet(place)
                 more == new \o place
      <4>1. new \in Seq(All) /\ place \in Seq(All)
          BY <3>3, <3>4, SeqMonotonic
      <4> HIDE DEF All
      <4>2. more \in Seq(All) /\ ToSet(more) = ToSet(new) \cup ToSet(place)
          BY <4>1, ConcatProperties, RangeConcat
      <4>3. more \in Seq(ToSet(more)) /\ \A j \in ToSet(more) : JobOf(j)
          BY <3>3, <3>4, <4>2, OwnRange
      <4> HIDE DEF more
      <4> QED
          BY <1>1, <2>1, <3>6, <4>3, MoreJobs DEF more
    <3>7. CASE Then(new \o <<>>)
      <4>1. new \o <<>> = new
          BY <3>3, ConcatEmptySeq
      <4>2. Then(new)
          BY <3>7, <4>1
      <4> QED
          BY <1>1, <2>1, <3>3, <4>2, MoreJobs
    <3> QED
        BY <3>5, <3>6, <3>7
  <2> QED
      BY <2>6, <2>7
<1> QED
    BY <1>1, <1>2, <1>3, Works

\* The other steps of an installation.
LEMMA OtherWork ==
    ASSUME ChangeInv, world' = world, DropOld \/ Place \/ LockedSkip \/ LockedFetch
    PROVE  ChangeInv'
<1>1. phase = "install" /\ phase' = phase /\ jobs # <<>>
    BY DEF DropOld, Place, LockedSkip, LockedFetch, Todo
<1>2. UNCHANGED <<manifest, lock, before, journal, unrestored, command>>
    BY DEF DropOld, Place, LockedSkip, LockedFetch, undo, files
<1>3. trees' = trees \/ \E t : trees' = [trees EXCEPT ![Job.owner] = t]
    BY DEF DropOld, Place, LockedSkip, LockedFetch, files
<1>4. ASSUME Changing
      PROVE  jobs' \in Seq(ToSet(jobs')) /\ \A j \in ToSet(jobs') : JobOf(j)
  <2>1. jobs \in Seq(ToSet(jobs)) /\ \A j \in ToSet(jobs) : JobOf(j)
      BY <1>1, <1>4 DEF ChangeInv, Phases
  <2>2. JobOf(Job)
    <3>1. Job \in ToSet(jobs)
        BY <1>1, <2>1, HeadTailProperties, ElementOfSeq, LenProperties DEF Job, ToSet
    <3> QED
        BY <2>1, <3>1
  <2>3. CASE DropOld
      BY <2>1, <2>3 DEF DropOld, work
  <2>4. CASE Place \/ LockedSkip
    <3>1. Then(<<>>)
        BY <2>4 DEF Place, LockedSkip
    <3>2. <<>> \in Seq(ToSet(<<>>)) /\ ToSet(<<>>) = {}
        BY RangeEmpty, EmptySeq
    <3> DEFINE none == <<>>
    <3>3. Then(none) /\ none \in Seq(ToSet(none)) /\ \A j \in ToSet(none) : JobOf(j)
        BY <3>1, <3>2
    <3> HIDE DEF none
    <3> QED
        BY <1>1, <2>1, <3>3, MoreJobs
  <2>5. CASE LockedFetch
    <3> DEFINE place == <<[Job EXCEPT !.do = "place"]>>
    <3>1. place \in Seq(ToSet(place)) /\ \A j \in ToSet(place) : JobOf(j)
        BY <2>2, PlaceJob
    <3>2. Then(place)
        BY <2>5 DEF LockedFetch, Then
    <3> HIDE DEF place
    <3> QED
        BY <1>1, <2>1, <3>1, <3>2, MoreJobs
  <2> QED
      BY <2>3, <2>4, <2>5
<1> QED
    BY <1>1, <1>2, <1>3, <1>4, Works

\* install, and install --locked.
LEMMA InstallStep ==
    ASSUME ChangeInv, world' = world, Install \/ LockedInstall
    PROVE  ChangeInv'
<1>1. /\ UNCHANGED <<manifest, lock, trees, journal>> /\ before' = Snapshot
      /\ phase' \in {"idle", "install"} /\ command'.op # "change"
    BY DEF Install, LockedInstall, Begin, files
<1>2. ~Changing'
    BY <1>1 DEF Changing
<1>3. before' = [manifest |-> manifest, lock |-> lock, trees |-> trees]
    BY <1>1 DEF Snapshot
<1>4. Shapes'
    BY <1>1, <1>2, <1>3, SameCommand DEF ChangeInv, Shapes
<1> QED
    BY <1>2, <1>4 DEF ChangeInv

\* A change begins by copying what it may touch.
LEMMA ChangeStep ==
    ASSUME ChangeInv, world' = world, Change
    PROVE  ChangeInv'
<1>1. PICK cmd \in Updates :
        /\ Begin(cmd)
        /\ \/ outcome' = "failed" /\ UNCHANGED <<phase, jobs, journal>>
           \/ /\ journal' = JournalOf(cmd.update)
              /\ phase' = "write" /\ UNCHANGED <<jobs, outcome>>
    BY DEF Change
<1>2. /\ phase = "idle" /\ UNCHANGED <<manifest, lock, trees>> /\ unrestored' = {}
      /\ command' = cmd /\ before' = [manifest |-> manifest, lock |-> lock, trees |-> trees]
    BY <1>1 DEF Begin, Snapshot, files
<1>3. Sound(cmd.update) /\ cmd.op = "change"
    BY UpdatesAreSound DEF ChangeInv, Shapes
<1>4. CASE phase' = "idle" /\ journal' = journal
  <2>1. ~Changing'
      BY <1>4 DEF Changing
  <2>2. Shapes'
      BY <1>2, <1>4, <2>1, SameCommand DEF ChangeInv, Shapes
  <2> QED
      BY <2>1, <2>2 DEF ChangeInv
<1>5. CASE phase' = "write" /\ journal' = JournalOf(cmd.update)
  <2>1. Sound(command.update)' /\ command'.op = "change"
      BY <1>2, <1>3, SameCommand
  <2>2. Managed' = ManagedRoots(cmd.update) /\ Managed' \subseteq Owners
    <3>1. ManagedRoots(cmd.update) = Managed'
        BY <1>2 DEF Managed, ManagedRoots, PathRoots, Leads, Needs
    <3>2. PathRoots(cmd.update) \subseteq Packages
        BY <1>3, RootsClosed DEF ChangeInv, Shapes, Sound
    <3> QED
        BY <3>1, <3>2 DEF ManagedRoots, Owners
  <2>3. /\ journal'.manifest = manifest /\ journal'.lock = lock
        /\ journal'.trees = [o \in ManagedRoots(cmd.update) |-> trees[o]]
        /\ DOMAIN journal' = {"manifest", "lock", "trees"}
      BY <1>5 DEF JournalOf
  <2>4. Shapes'
      BY <1>2, <1>5, <2>1, <2>3, SameCommand DEF ChangeInv, Shapes
  <2>5. Journaled'
      BY <1>2, <2>2, <2>3 DEF Journaled
  <2>6. Phases'
      BY <1>5 DEF Phases
  <2> QED
      BY <2>4, <2>5, <2>6 DEF ChangeInv
<1> QED
    BY <1>1, <1>2, <1>4, <1>5

\* The new manifest, and the jobs it makes.
LEMMA WriteManifestStep ==
    ASSUME ChangeInv, world' = world, WriteManifest
    PROVE  ChangeInv'
<1>1. /\ phase = "write" /\ phase' = "install" /\ manifest' = command.update
      /\ jobs' = Jobs(manifest', Project, <<>>, {})
      /\ UNCHANGED <<lock, trees, command, unrestored, journal, before>>
    BY DEF WriteManifest, undo, ProjectJobs
<1>2. Changing /\ Shapes /\ Journaled /\ Sound(command.update)
    BY <1>1 DEF ChangeInv, Shapes, Changing
<1>3. PathNames(command.update) \subseteq Reached /\ Project \in Managed
    BY <1>2, RootsClosed DEF Managed, ManagedRoots, Reached, Sound, Shapes
<1> DEFINE js == Jobs(command.update, Project, <<>>, {})
<1>4. js \in Seq(ToSet(js)) /\ \A j \in ToSet(js) : JobOf(j)
    BY <1>2, <1>3, NewJobs, EmptySeq
<1>5. jobs' = js
    BY <1>1
<1> HIDE DEF js
<1>6. Phases'
    BY <1>1, <1>4, <1>5, SameCommand DEF Phases
<1>7. Journaled'
    BY <1>1, <1>2, SameCommand DEF Journaled
<1>8. Shapes'
    BY <1>1, <1>2, SameCommand DEF Shapes, Changing
<1> QED
    BY <1>6, <1>7, <1>8 DEF ChangeInv

\* The lock written, the removed package taken away, or a failure.
LEMMA FinishStep ==
    ASSUME ChangeInv, world' = world, WriteLock \/ LockedDone \/ Prune \/ Fail
    PROVE  ChangeInv'
<1>1. UNCHANGED <<manifest, before, journal, command, unrestored>>
    BY DEF WriteLock, LockedDone, Prune, Fail, files, undo
<1>2. trees' = [o \in Owners |-> trees'[o]]
    BY DEF ChangeInv, Shapes, WriteLock, LockedDone, Prune, Fail, files
<1>3. CASE phase' = "idle"
    BY <1>1, <1>2, <1>3, Ends
<1>4. CASE phase' # "idle"
  <2>1. /\ trees' = trees
        /\ \/ phase = "install" /\ phase' = "prune"
           \/ phase \in {"write", "install", "prune"} /\ phase' = "undoManifest" /\ command.op = "change"
      BY <1>4 DEF WriteLock, LockedDone, Prune, Fail, End, files
  <2>2. Shapes'
      BY <1>1, <1>2, <2>1, SameCommand DEF ChangeInv, Shapes, Changing
  <2>3. ASSUME Changing' PROVE Journaled' /\ Phases'
    <3>1. Changing /\ Journaled /\ Phases
        BY <1>1, <2>1, <2>3 DEF Changing, ChangeInv
    <3> QED
        BY <1>1, <2>1, <3>1, SameCommand DEF Journaled, Phases
  <2> QED
      BY <2>2, <2>3 DEF ChangeInv
<1> QED
    BY <1>3, <1>4

\* The rollback writes back the two files.
LEMMA UndoFilesStep ==
    ASSUME ChangeInv, world' = world, UndoManifest \/ UndoLock
    PROVE  ChangeInv'
<1>1. /\ UNCHANGED <<trees, before, journal, command, unrestored>>
      /\ \/ phase = "undoManifest" /\ phase' = "undoLock" /\ manifest' = journal.manifest
         \/ phase = "undoLock" /\ phase' = "undoTrees" /\ lock' = journal.lock /\ manifest' = manifest
    BY DEF UndoManifest, UndoLock, undo
<1>2. Changing /\ Shapes /\ Journaled /\ Phases
    BY <1>1 DEF ChangeInv, Shapes, Changing
<1>3. Shapes'
    BY <1>1, <1>2, SameCommand DEF Shapes, Journaled, Changing
<1>4. Journaled' /\ Phases'
    BY <1>1, <1>2, SameCommand DEF Journaled, Phases
<1> QED
    BY <1>3, <1>4 DEF ChangeInv

\* One tree restored, or noted as not restored.
LEMMA UndoTreeStep ==
    ASSUME ChangeInv, world' = world, UndoTree
    PROVE  ChangeInv'
<1>1. /\ phase = "undoTrees" /\ phase' = phase
      /\ UNCHANGED <<manifest, lock, before, command>>
    BY DEF UndoTree
<1>2. PICK root \in DOMAIN journal.trees :
        /\ Forget(root)
        /\ \/ /\ trees' = [trees EXCEPT ![root] = journal.trees[root]]
              /\ UNCHANGED unrestored
           \/ /\ trees' \in {trees, [trees EXCEPT ![root] = Nothing]}
              /\ unrestored' = unrestored \union {root}
    BY DEF UndoTree
<1>3. Changing /\ Shapes /\ Journaled /\ Phases
    BY <1>1 DEF ChangeInv, Shapes, Changing
<1>4. /\ DOMAIN journal' = DOMAIN journal
      /\ journal'.manifest = journal.manifest /\ journal'.lock = journal.lock
      /\ DOMAIN journal'.trees = DOMAIN journal.trees \ {root}
      /\ \A o \in DOMAIN journal'.trees : journal'.trees[o] = journal.trees[o]
    BY <1>2, <1>3 DEF Forget, Without, Shapes
<1>5. root \in Owners /\ journal.trees[root] = before.trees[root]
    BY <1>3 DEF Journaled
<1>6. /\ trees' = [o \in Owners |-> trees'[o]]
      /\ \A o \in Owners : o # root => trees'[o] = trees[o]
      /\ trees'[root] = before.trees[root] \/ root \in unrestored'
      /\ unrestored \subseteq unrestored'
    BY <1>2, <1>3, <1>5 DEF Shapes
<1>7. Shapes'
    BY <1>1, <1>3, <1>4, <1>6, SameCommand DEF Shapes, Changing
<1>8. Journaled'
    BY <1>1, <1>3, <1>4, <1>5, <1>6, SameCommand DEF Journaled
<1>9. Phases'
    BY <1>1, <1>3 DEF Phases
<1> QED
    BY <1>7, <1>8, <1>9 DEF ChangeInv

\* A command that stops without a result of its own.
LEMMA StopStep ==
    ASSUME ChangeInv, world' = world, Undone \/ UndoAborts \/ Interrupt
    PROVE  ChangeInv'
<1>1. phase' = "idle" /\ UNCHANGED <<manifest, trees, before, journal>>
    BY DEF Undone, UndoAborts, Interrupt, End, files, undo
<1> QED
    BY <1>1, Ends DEF ChangeInv, Shapes

\* Other programs touch no running change but through the sources.
LEMMA OutsideStep ==
    ASSUME ChangeInv, world' = world, EditSource \/ Damage \/ EditManifest
    PROVE  ChangeInv'
<1>1. UNCHANGED <<phase, command, jobs, journal, unrestored, before>>
    BY DEF EditSource, Damage, EditManifest, Outside, work, undo
<1>2. CASE EditSource
  <2>1. UNCHANGED <<manifest, lock, trees>>
      BY <1>2 DEF EditSource, files
  <2> QED
      BY <1>1, <2>1, SameCommand DEF ChangeInv, Shapes, Changing, Journaled, Phases
<1>3. CASE Damage
  <2>1. phase = "idle" /\ manifest' = manifest
      BY <1>3 DEF Damage
  <2>2. trees' = [o \in Owners |-> trees'[o]]
      BY <1>3 DEF Damage, ChangeInv, Shapes
  <2> QED
      BY <1>1, <2>1, <2>2, Ends
<1>4. CASE EditManifest
  <2>1. phase = "idle" /\ trees' = trees /\ \E cmd \in Updates : manifest' = cmd.update
      BY <1>4 DEF EditManifest
  <2>2. Sound(manifest')
      BY <2>1, UpdatesAreSound DEF ChangeInv, Shapes
  <2>3. Shapes'
      BY <1>1, <2>1, <2>2, SameCommand DEF ChangeInv, Shapes, Changing
  <2> QED
      BY <1>1, <2>1, <2>3 DEF ChangeInv, Changing
<1> QED
    BY <1>2, <1>3, <1>4

\* Every step preserves the invariant.
LEMMA ChangeNext == ASSUME ChangeInv, [Next]_vars PROVE ChangeInv'
<1>1. CASE UNCHANGED vars
    BY <1>1, SameCommand DEF vars, files, work, undo, ChangeInv, Shapes, Changing, Journaled, Phases
<1>2. CASE Next
    BY <1>2, ResolveStep, OtherWork, InstallStep, ChangeStep, WriteManifestStep, FinishStep,
       UndoFilesStep, UndoTreeStep, StopStep, OutsideStep DEF Next, Step
<1> QED
    BY <1>1, <1>2

\* While a change runs its journal holds, of both files and of every tree that
\* it has touched, what was there before (_commit_manifest_change), and what is
\* left to be done stays within those trees: except in the trees of live
\* packages that only git or local packages lead to, which the journal lacks.
THEOREM JournalsHold == Spec => []ChangeInv
<1>1. Init => ChangeInv
    BY ChangeInit
<1>2. ChangeInv /\ [Next]_vars => ChangeInv'
    BY ChangeNext
<1> QED
    BY <1>1, <1>2, PTL DEF Spec

\* A change that ends as failed, or as failed and not wholly undone.
LEMMA EndsRight ==
    ASSUME ChangeInv, [Next]_vars
    PROVE  ChangeEnds({"failed", "incomplete"}) =>
               /\ outcome' = "failed" => unrestored = {}
               /\ manifest' = before.manifest /\ lock' = before.lock
               /\ \A o \in Owners \ (unrestored \cup Unjournaled) : trees'[o] = before.trees[o]
<1> SUFFICES ASSUME ChangeEnds({"failed", "incomplete"})
             PROVE  /\ outcome' = "failed" => unrestored = {}
                    /\ manifest' = before.manifest /\ lock' = before.lock
                    /\ \A o \in Owners \ (unrestored \cup Unjournaled) : trees'[o] = before.trees[o]
    OBVIOUS
<1>1. phase # "idle" /\ phase' = "idle" /\ command.op = "change" /\ outcome' \in {"failed", "incomplete"}
    BY DEF ChangeEnds
<1>2. Undone
    BY <1>1 DEF Next, Step, vars, Install, LockedInstall, Change, Begin, ResolvePath, ResolveManaged,
       DropOld, Place, LockedSkip, LockedFetch, Todo, WriteManifest, WriteLock, LockedDone, Prune,
       UndoManifest, UndoLock, UndoTree, Fail, UndoAborts, Interrupt, EditSource, Damage,
       EditManifest, Outside, End
<1>3. Shapes /\ Journaled /\ Phases
    BY <1>1 DEF ChangeInv, Changing
<1>4. /\ phase = "undoTrees" /\ DOMAIN journal.trees = {}
      /\ outcome' = "failed" <=> unrestored = {}
      /\ UNCHANGED <<manifest, lock, trees>>
    BY <1>2 DEF Undone, End, files
<1> QED
    BY <1>3, <1>4 DEF Phases, Journaled

\* ChangesAreUndone, whatever the packages need of one another: a failed change
\* leaves both files and the trees as they were, wherever it failed, and one
\* that could not be undone names the trees that are not as they were
\* (_commit_manifest_change).  The trees of live packages that only git or local
\* packages lead to are no part of it.
THEOREM ChangesAlwaysUndone == Spec => ChangesAreUndone
<1>1. ChangeInv /\ [Next]_vars =>
        [ChangeEnds({"failed"}) =>
            /\ manifest' = before.manifest /\ lock' = before.lock
            /\ \A o \in Owners \ Unjournaled : trees'[o] = before.trees[o]]_vars
    BY EndsRight DEF ChangeEnds
<1>2. ChangeInv /\ [Next]_vars =>
        [ChangeEnds({"incomplete"}) =>
            /\ manifest' = before.manifest /\ lock' = before.lock
            /\ \A o \in Owners \ (unrestored \cup Unjournaled) : trees'[o] = before.trees[o]]_vars
    BY EndsRight DEF ChangeEnds
<1>3. Spec => []ChangeInv
    BY JournalsHold
<1> QED
    BY <1>1, <1>2, <1>3, PTL DEF Spec, ChangesAreUndone, FailureRestores, IncompleteIsReported

-----------------------------------------------------------------------------
(* What every command leaves behind.                                       *)

\* A git or local package that may be installed needs no live package.
Flat(n) == PathNames(Needs[n]) = {}
LiveAboveManaged == \A n \in Packages : MayBeManaged(n) => Flat(n)

\* Whether the manifest of an owner may declare a live package.
MayDeclareLive(w, o, n) ==
    IF o = Project
    THEN n \in PathNames(w.manifest) \/ \E d \in w.declarations : d.name = n /\ d.kind = "path"
    ELSE n \in PathNames(w.needs[o])

\* No live package is needed by two: otherwise it is resolved twice, and if its
\* own packages' sources are edited in between, the lock has two records for
\* one place (packages.py:672-687).
LiveNeededOnce ==
    \A n \in Packages : \A o, p \in Owners :
        MayDeclareLive(world, o, n) /\ MayDeclareLive(world, p, n) => o = p

\* Where packages are installed, and which places concern one another.
Path == Seq(Packages) \ {<<>>}
Top == <<>>
Below(p, n) == Append(p, n)
Above(p) == SubSeq(p, 1, Len(p) - 1)
Where(x) == <<x.owner, x.path>>
SameTop(x, y) == x.owner = y.owner /\ x.path[1] = y.path[1]
Within(x, y) == x.owner = y.owner /\ IsPrefix(x.path, y.path)
Heads(path) == {SubSeq(path, 1, i) : i \in 1..Len(path)}

\* What is above an installed package is installed; a record is there as it says.
Closed(tree) == \A path \in DOMAIN tree : path \in Path /\ Heads(path) \subseteq DOMAIN tree
Holds(tree, r) == r.path \in DOMAIN tree /\ tree[r.path] = r.contents

\* What a lock records: one thing at each place, and what is above it.
RecordsSound(R) ==
    /\ IsFiniteSet(R)
    /\ \A r \in R : /\ r.owner \in Owners /\ r.path \in Path
                    /\ r.kind = "path" => Len(r.path) = 1
                    /\ \A p \in Heads(r.path) : \E s \in R : Where(s) = <<r.owner, p>>
                            /\ (s.kind = "path" <=> r.kind = "path")
    /\ \A r, s \in R : Where(r) = Where(s) => r = s
NamedBy(m, R) == \A r \in R : r.owner = Project => r.path[1] \in DOMAIN m
LockSound(l) ==  RecordsSound(l.records) /\ NamedBy(l.direct, l.records)

LiveFrom(m) == \A n \in PathNames(m) : MayDeclareLive(world, Project, n)
ManifestSound(m) == IsManifest(m) /\ Sound(m) /\ LiveFrom(m)

\* What stands at all times, whatever command runs.
Standing ==
    /\ ChangeInv
    /\ ManifestSound(manifest) /\ ManifestSound(before.manifest)
    /\ Changing => ManifestSound(command.update)
    /\ Changing /\ command.removed # None => command.removed \notin DOMAIN command.update
    /\ phase # "idle" /\ command.op # "change" => command.removed = None
    /\ \A o \in Owners : Closed(trees[o]) /\ Closed(before.trees[o])
    /\ LockSound(lock) /\ LockSound(before.lock)
    /\ source \in [Packages -> [version : Nat, edit : Nat]]
    /\ phase = "idle" => jobs = <<>> /\ staged = Nothing
    /\ phase = "write" => records = {} /\ staged = Nothing

-----------------------------------------------------------------------------
(* An install that resolves.                                               *)
Resolving == phase = "install" /\ command.op # "locked"

Resolves(j) == j.do = "resolve"
Places(j) == j.do = "place"

\* Of two jobs in this order neither undoes the other: a package is put in
\* place after all that goes beneath it, and before any other of its name.
Apart(i, j) ==
    /\ Places(i) \/ (Len(i.path) = 1 /\ Places(j)) => ~SameTop(i, j)
    /\ Resolves(i) /\ Resolves(j) => ~Within(i, j) /\ ~Within(j, i)
Pairwise(q) == \A i, j \in 1..Len(q) : i < j => Apart(q[i], q[j])

HasFields(j) == {"do", "owner", "path", "kind"} \subseteq DOMAIN j
\* A job that resolution makes; live packages are needed at the top only.
GoodJob(j) ==
    /\ HasFields(j)
    /\ j.do \in {"resolve", "place"} /\ j.owner \in Owners /\ j.path \in Path
    /\ j.owner = Project => j.path[1] \in DOMAIN manifest
    /\ j.kind = "path" => Resolves(j) /\ Len(j.path) = 1 /\ MayDeclareLive(world, j.owner, Last(j.path))
    /\ Resolves(j) /\ j.kind # "path" => MayBeManaged(Last(j.path))
    /\ Places(j) => Len(j.path) = 1

\* The places of what is fetched and not in place yet.
Fetching == DOMAIN staged

\* What is recorded is either fetched, with the job that puts it in place still
\* to do, or installed, and no job left touches it; what is to be resolved is
\* recorded nowhere yet, and goes beneath something that is fetched.
Resolution ==
    /\ jobs \in Seq(ToSet(jobs)) /\ Pairwise(jobs)
    /\ RecordsSound(records) /\ NamedBy(manifest, records)
    /\ \A j \in ToSet(jobs) :
        /\ GoodJob(j)
        /\ Resolves(j) => \A r \in records : ~Within(j, r)
        /\ Resolves(j) /\ Len(j.path) # 1 =>
              /\ \E k \in ToSet(jobs) : Places(k) /\ SameTop(k, j)
              /\ <<j.owner, Above(j.path)>> \in Fetching
              /\ \E s \in records : s.kind # "path" /\ Where(s) = <<j.owner, Above(j.path)>>
    /\ \A r \in records : r.kind # "path" =>
        \/ /\ Where(r) \in Fetching /\ staged[Where(r)] = r.contents
           /\ \E k \in ToSet(jobs) : Places(k) /\ SameTop(k, r)
        \/ /\ Holds(trees[r.owner], r)
           /\ \A j \in ToSet(jobs) : ~SameTop(j, r)
    /\ \A r \in records : r.kind = "path" => MayDeclareLive(world, r.owner, r.path[1])
    /\ \A at \in Fetching :
        /\ \A p \in Heads(at[2]) : <<at[1], p>> \in Fetching
        /\ \E r \in records : r.kind # "path" /\ Where(r) = at
        /\ \E k \in ToSet(jobs) : Places(k) /\ k.owner = at[1] /\ k.path[1] = at[2][1]
    /\ \A x \in ToSet(jobs) \cup records : x.owner # Project =>
        \E s \in records : s.kind = "path" /\ s.path = <<x.owner>>

-----------------------------------------------------------------------------
(* A locked install.                                                       *)
Restoring == phase = "install" /\ command.op = "locked"

\* Shallow first: no job is above one that is done.
NotAbove(i, j) == Len(j.path) <= Len(i.path)
Deeper(i, j) == NotAbove(j, i) /\ Where(i) # Where(j)
Sorted(q) == \A i, j \in 1..Len(q) : i < j => Deeper(q[i], q[j]) /\ ~Places(q[j])

\* Each record of the lock has a job, or is installed as recorded and no job
\* left is above it; at most the package at hand is fetched.
Restoration ==
    /\ jobs \in Seq(ToSet(jobs)) /\ Sorted(jobs) /\ IsCurrent
    /\ \A j \in ToSet(jobs) :
        /\ HasFields(j) /\ "contents" \in DOMAIN j
        /\ j.do \in {"restore", "place"} /\ (Places(j) => j.kind # "path")
        /\ \E r \in lock.records : Where(r) = Where(j) /\ r.kind = j.kind /\ r.contents = j.contents
    /\ \A r \in lock.records : r.kind # "path" =>
        \/ \E j \in ToSet(jobs) : Where(j) = Where(r)
        \/ Holds(trees[r.owner], r) /\ \A j \in ToSet(jobs) : NotAbove(j, r)
    /\ IF jobs # <<>> /\ Places(Job)
       THEN Fetching = {Where(Job)} /\ staged[Where(Job)] = Job.contents
       ELSE Fetching = {}

-----------------------------------------------------------------------------
\* The lock is written; what a removal still removes, it does not record.
Pruning ==
    /\ command.op = "change" /\ command.removed # None
    /\ IsCurrent
    /\ \A r \in lock.records : r.kind # "path" => Holds(trees[r.owner], r)

\* The inductive invariant.
InstallInv ==
    /\ Standing
    /\ Resolving => Resolution
    /\ Restoring => Restoration
    /\ phase = "prune" => Pruning
    /\ InstalledAsLocked

-----------------------------------------------------------------------------
(* Paths.                                                                  *)

\* Paths, and the paths above them.
LEMMA PathFacts ==
    ASSUME NEW p \in Path
    PROVE  /\ p \in Seq(Packages) /\ Len(p) \in Nat /\ Len(p) >= 1 /\ DOMAIN p = 1..Len(p)
           /\ \A i \in 1..Len(p) : p[i] \in Packages
           /\ Last(p) = p[Len(p)] /\ Last(p) \in Packages
<1>1. p \in Seq(Packages) /\ p # <<>>
    BY DEF Path
<1>2. Len(p) \in Nat /\ DOMAIN p = 1..Len(p) /\ Len(p) # 0
    BY <1>1, LenProperties, EmptySeq
<1>3. \A i \in 1..Len(p) : p[i] \in Packages
    BY <1>1, ElementOfSeq
<1> QED
    BY <1>1, <1>2, <1>3 DEF Last

\* Paths with the same names are the same.
LEMMA SamePath ==
    ASSUME NEW p \in Path, NEW q \in Path, Len(p) = Len(q), \A i \in 1..Len(p) : p[i] = q[i]
    PROVE  p = q
BY PathFacts, SeqEqual

\* The first names of a path.
LEMMA HeadOf ==
    ASSUME NEW p \in Path, NEW i \in 1..Len(p)
    PROVE  /\ SubSeq(p, 1, i) \in Path /\ Len(SubSeq(p, 1, i)) = i
           /\ \A k \in 1..i : SubSeq(p, 1, i)[k] = p[k]
           /\ i = Len(p) => SubSeq(p, 1, i) = p
<1> DEFINE h == SubSeq(p, 1, i)
<1>1. p \in Seq(Packages) /\ Len(p) \in Nat /\ i \in Nat /\ i >= 1 /\ i <= Len(p)
    BY PathFacts
<1>2. \A k \in 1..i : p[k] \in Packages
    BY <1>1, PathFacts
<1>3. /\ h \in Seq(Packages) /\ Len(h) = (IF 1 <= i THEN i - 1 + 1 ELSE 0)
      /\ \A k \in 1..(i - 1 + 1) : h[k] = p[1 + k - 1]
    BY <1>1, <1>2, SubSeqProperties
<1>4. Len(h) = i /\ \A k \in 1..i : h[k] = p[k]
    BY <1>1, <1>3
<1>5. h # <<>>
    BY <1>1, <1>4, EmptySeq
<1>6. h \in Path
    BY <1>3, <1>5 DEF Path
<1> HIDE DEF h
<1>7. i = Len(p) => h = p
    BY <1>4, <1>6, SamePath
<1> QED
    BY <1>4, <1>6, <1>7 DEF h

\* IsPrefix, name by name.
LEMMA PrefixOf ==
    ASSUME NEW p \in Path, NEW q \in Path
    PROVE  IsPrefix(p, q) <=> Len(p) <= Len(q) /\ \A i \in 1..Len(p) : p[i] = q[i]
<1>1. Len(p) \in Nat /\ Len(q) \in Nat /\ Len(p) >= 1
    BY PathFacts
<1>2. SubSeq(p, 1, Len(p)) = p
    BY <1>1, HeadOf
<1>3. CASE Len(p) <= Len(q)
  <2> DEFINE h == SubSeq(q, 1, Len(p))
  <2>1. Len(p) \in 1..Len(q)
      BY <1>1, <1>3
  <2>2. h \in Path /\ Len(h) = Len(p) /\ \A k \in 1..Len(p) : h[k] = q[k]
      BY <2>1, HeadOf
  <2>3. IsPrefix(p, q) <=> p = h
      BY <1>2, <1>3 DEF IsPrefix
  <2> HIDE DEF h
  <2>4. (\A i \in 1..Len(p) : p[i] = q[i]) => p = h
      BY <2>2, SamePath
  <2> QED
      BY <1>3, <2>2, <2>3, <2>4
<1> QED
    BY <1>3 DEF IsPrefix

\* A path's heads are the paths that are prefixes of it, itself included.
LEMMA HeadsOf ==
    ASSUME NEW p \in Path
    PROVE  /\ p \in Heads(p) /\ SubSeq(p, 1, 1) \in Heads(p) /\ SubSeq(p, 1, 1) = <<p[1]>>
           /\ \A h \in Heads(p) : h \in Path /\ h[1] = p[1] /\ IsPrefix(h, p) /\ Heads(h) \subseteq Heads(p)
                                  /\ (Len(h) = Len(p) => h = p)
           /\ \A h \in Path : IsPrefix(h, p) => h \in Heads(p) /\ h[1] = p[1]
           /\ \A h \in Heads(p) : h # p => h \in Heads(Above(p))
<1>1. p \in Seq(Packages) /\ Len(p) \in Nat /\ Len(p) >= 1
    BY PathFacts
<1>2. p \in Heads(p) /\ SubSeq(p, 1, 1) \in Heads(p)
    BY <1>1, HeadOf DEF Heads
<1>3. SubSeq(p, 1, 1) = <<p[1]>>
  <2> DEFINE h == SubSeq(p, 1, 1)
             s == <<p[1]>>
  <2>1. h \in Path /\ Len(h) = 1 /\ h[1] = p[1]
      BY <1>1, HeadOf
  <2>2. s \in Path /\ Len(s) = 1 /\ s[1] = p[1]
      BY <1>1, PathFacts DEF Path
  <2> HIDE DEF h, s
  <2>3. h = s
      BY <2>1, <2>2, SamePath
  <2> QED
      BY <2>3 DEF h, s
<1>4. ASSUME NEW i \in 1..Len(p), NEW k \in 1..i
      PROVE  SubSeq(SubSeq(p, 1, i), 1, k) = SubSeq(p, 1, k)
  <2> DEFINE h == SubSeq(p, 1, i)
  <2>1. h \in Path /\ Len(h) = i /\ \A m \in 1..i : h[m] = p[m]
      BY HeadOf
  <2>2. k \in 1..Len(p) /\ k \in 1..Len(h) /\ i \in Nat /\ k \in Nat
      BY <1>1, <2>1
  <2> HIDE DEF h
  <2> DEFINE a == SubSeq(h, 1, k)
             b == SubSeq(p, 1, k)
  <2>3. a \in Path /\ Len(a) = k /\ \A m \in 1..k : a[m] = h[m]
      BY <2>1, <2>2, HeadOf
  <2>4. b \in Path /\ Len(b) = k /\ \A m \in 1..k : b[m] = p[m]
      BY <2>2, HeadOf
  <2>5. \A m \in 1..k : m \in 1..i
      BY <2>2
  <2> HIDE DEF a, b
  <2>6. a = b
      BY <2>1, <2>3, <2>4, <2>5, SamePath
  <2> QED
      BY <2>6 DEF a, b, h
<1>5. ASSUME NEW i \in 1..Len(p)
      PROVE  LET h == SubSeq(p, 1, i)
             IN  /\ h \in Path /\ h[1] = p[1] /\ IsPrefix(h, p) /\ Heads(h) \subseteq Heads(p)
                 /\ (Len(h) = Len(p) => h = p)
  <2> DEFINE h == SubSeq(p, 1, i)
  <2>1. h \in Path /\ Len(h) = i /\ (\A m \in 1..i : h[m] = p[m]) /\ (i = Len(p) => h = p)
      BY HeadOf
  <2>2. Heads(h) \subseteq Heads(p)
    <3>1. \A k \in 1..i : SubSeq(h, 1, k) = SubSeq(p, 1, k) /\ k \in 1..Len(p)
        BY <1>1, <1>4
    <3> QED
        BY <2>1, <3>1 DEF Heads
  <2>3. 1 \in 1..i /\ i <= Len(p)
      BY <1>1
  <2> HIDE DEF h
  <2>4. IsPrefix(h, p)
      BY <2>1, <2>3, PrefixOf
  <2> QED
      BY <2>1, <2>2, <2>3, <2>4 DEF h
<1>6. ASSUME NEW h \in Path, IsPrefix(h, p) PROVE h \in Heads(p) /\ h[1] = p[1]
  <2>1. Len(h) <= Len(p) /\ (\A i \in 1..Len(h) : h[i] = p[i]) /\ Len(h) \in Nat /\ Len(h) >= 1
      BY <1>6, PrefixOf, PathFacts
  <2> DEFINE k == Len(h)
             g == SubSeq(p, 1, k)
  <2>2. k \in 1..Len(p)
      BY <1>1, <2>1
  <2>3. g \in Path /\ Len(g) = k /\ \A m \in 1..k : g[m] = p[m]
      BY <2>2, HeadOf
  <2>4. g \in Heads(p)
      BY <2>2 DEF Heads
  <2> HIDE DEF g
  <2>5. g = h
      BY <2>1, <2>3, SamePath
  <2> QED
      BY <2>1, <2>4, <2>5
<1>7. ASSUME NEW i \in 1..Len(p), SubSeq(p, 1, i) # p
      PROVE  SubSeq(p, 1, i) \in Heads(SubSeq(p, 1, Len(p) - 1))
  <2> DEFINE n == Len(p) - 1
             h == SubSeq(p, 1, n)
  <2>1. i # Len(p)
      BY <1>7, HeadOf
  <2>2. n \in 1..Len(p) /\ i \in 1..n
      BY <1>1, <2>1
  <2>3. SubSeq(h, 1, i) = SubSeq(p, 1, i)
      BY <1>4, <2>2
  <2>4. Len(h) = n
      BY <2>2, HeadOf
  <2> HIDE DEF h, n
  <2> QED
      BY <2>2, <2>3, <2>4 DEF Heads, h, n
<1> QED
    BY <1>2, <1>3, <1>5, <1>6, <1>7 DEF Heads, Above

-----------------------------------------------------------------------------
(* Lists of jobs.                                                          *)

\* A sequence of one element or more.
LEMMA NotEmpty ==
    ASSUME NEW S, NEW s \in Seq(S), NEW k \in Nat, Len(s) = k + 1
    PROVE  s # <<>>
<1>1. Len(s) # 0
    OBVIOUS
<1> QED
    BY <1>1, EmptySeq

\* A path with one name more.
LEMMA Longer ==
    ASSUME NEW p \in Seq(Packages), NEW n \in Packages
    PROVE  LET q == Below(p, n) IN
           /\ q \in Path /\ Len(q) = Len(p) + 1 /\ Last(q) = n /\ q[Len(q)] = n
           /\ p = Top => Len(q) = 1 /\ q[1] = n /\ q = <<n>>
           /\ p \in Path => /\ q[1] = p[1] /\ Above(q) = p
                            /\ IsPrefix(p, q) /\ Len(q) # 1
                            /\ Heads(q) \subseteq Heads(p) \cup {q}
<1> DEFINE q == Below(p, n)
<1>1. q \in Seq(Packages) /\ Len(q) = Len(p) + 1 /\ Len(p) \in Nat
      /\ q[Len(p) + 1] = n /\ \A i \in 1..Len(p) : q[i] = p[i]
    BY AppendProperties, LenProperties DEF Below
<1> HIDE DEF q
<1>2. q \in Path
    BY <1>1, NotEmpty DEF Path
<1>3. Last(q) = n /\ q[Len(q)] = n
    BY <1>1, <1>2, PathFacts
<1>4. ASSUME p = Top PROVE Len(q) = 1 /\ q[1] = n /\ q = <<n>>
  <2>1. Len(p) = 0
      BY <1>4, EmptySeq DEF Top
  <2>2. Len(q) = 1 /\ q[1] = n
      BY <1>1, <2>1
  <2> DEFINE s == <<n>>
  <2>3. s \in Path /\ Len(s) = 1 /\ s[1] = n
      BY DEF Path
  <2> HIDE DEF s
  <2>4. q = s
      BY <1>2, <2>2, <2>3, SamePath
  <2> QED
      BY <2>2, <2>4 DEF s
<1>5. ASSUME p \in Path
      PROVE  /\ q[1] = p[1] /\ Above(q) = p /\ IsPrefix(p, q) /\ Len(q) # 1
             /\ Heads(q) \subseteq Heads(p) \cup {q}
  <2>1. Len(p) >= 1
      BY <1>5, PathFacts
  <2>2. Len(q) - 1 \in 1..Len(q) /\ Len(q) - 1 = Len(p) /\ Len(q) # 1 /\ Len(p) <= Len(q) /\ 1 \in 1..Len(p)
      BY <1>1, <2>1
  <2>3. q[1] = p[1] /\ IsPrefix(p, q)
      BY <1>1, <1>2, <1>5, <2>2, PrefixOf
  <2>4. PICK h : h = Above(q)
      OBVIOUS
  <2>5. h \in Path /\ Len(h) = Len(p) /\ \A i \in 1..Len(p) : h[i] = q[i]
      BY <1>2, <2>2, <2>4, HeadOf DEF Above
  <2>6. \A g \in Heads(q) : g # q => g \in Heads(h)
      BY <1>2, <2>2, <2>4, HeadsOf
  <2>7. h = p
      BY <1>1, <1>5, <2>5, SamePath
  <2> QED
      BY <2>2, <2>3, <2>4, <2>6, <2>7
<1> QED
    BY <1>1, <1>2, <1>3, <1>4, <1>5 DEF q

\* The first of a queue, and the others.
LEMMA HeadTail ==
    ASSUME NEW q, q \in Seq(ToSet(q)), q # <<>>
    PROVE  /\ Head(q) \in ToSet(q) /\ Head(q) = q[1] /\ ToSet(Tail(q)) \subseteq ToSet(q)
           /\ ToSet(q) \subseteq {Head(q)} \cup ToSet(Tail(q))
           /\ Tail(q) \in Seq(ToSet(Tail(q))) /\ Len(q) \in Nat /\ Len(q) >= 1
           /\ Len(Tail(q)) = Len(q) - 1 /\ \A i \in 1..Len(Tail(q)) : Tail(q)[i] = q[i + 1]
           /\ DOMAIN Tail(q) = 1..Len(Tail(q)) /\ DOMAIN q = 1..Len(q)
<1> DEFINE S == ToSet(q)
           t == Tail(q)
<1>1. q \in Seq(S)
    OBVIOUS
<1>2. t \in Seq(S) /\ Len(t) = Len(q) - 1 /\ \A i \in 1..Len(t) : t[i] = q[i + 1]
  <2> HIDE DEF S
  <2> QED
      BY <1>1, HeadTailProperties
<1>3. Len(q) \in Nat /\ Len(q) >= 1 /\ DOMAIN q = 1..Len(q) /\ DOMAIN t = 1..Len(t) /\ Len(t) \in Nat
  <2> HIDE DEF S
  <2>1. Len(q) \in Nat /\ DOMAIN q = 1..Len(q) /\ DOMAIN t = 1..Len(t) /\ Len(t) \in Nat
      BY <1>1, <1>2, LenProperties
  <2>2. Len(q) # 0
      BY <1>1, EmptySeq
  <2> QED
      BY <2>1, <2>2
<1>4. Head(q) = q[1] /\ q[1] \in ToSet(q)
    BY <1>1, <1>3 DEF ToSet
<1>5. t \in Seq(ToSet(t))
    BY <1>2, OwnRange
<1>6. ToSet(t) \subseteq ToSet(q)
  <2>1. \A i \in 1..Len(t) : t[i] = q[i + 1] /\ i + 1 \in 1..Len(q)
      BY <1>2, <1>3
  <2> HIDE DEF t
  <2> QED
      BY <1>3, <2>1 DEF ToSet
<1>7. ToSet(q) \subseteq {Head(q)} \cup ToSet(t)
  <2>1. ASSUME NEW i \in 1..Len(q), i # 1 PROVE i - 1 \in 1..Len(t) /\ q[i] = t[i - 1]
      BY <1>2, <1>3, <2>1
  <2> HIDE DEF t
  <2> QED
      BY <1>3, <1>4, <2>1 DEF ToSet
<1> QED
    BY <1>2, <1>3, <1>4, <1>5, <1>6, <1>7

\* Two queues, one after the other.
LEMMA Joined ==
    ASSUME NEW q, NEW r, q \in Seq(ToSet(q)), r \in Seq(ToSet(r))
    PROVE  LET s == q \o r
           IN  /\ s \in Seq(ToSet(s)) /\ ToSet(s) = ToSet(q) \cup ToSet(r)
               /\ Len(s) = Len(q) + Len(r) /\ Len(q) \in Nat /\ Len(r) \in Nat
               /\ \A i \in 1..Len(s) : \/ i \in 1..Len(q) /\ s[i] = q[i] /\ q[i] \in ToSet(q)
                                       \/ /\ i > Len(q) /\ i - Len(q) \in 1..Len(r)
                                          /\ s[i] = r[i - Len(q)] /\ r[i - Len(q)] \in ToSet(r)
<1> DEFINE All == ToSet(q) \cup ToSet(r)
           s == q \o r
<1>1. q \in Seq(All) /\ r \in Seq(All)
    BY SeqMonotonic
<1> HIDE DEF All
<1>2. /\ s \in Seq(All) /\ Len(s) = Len(q) + Len(r)
      /\ \A i \in 1..Len(q) + Len(r) : s[i] = IF i <= Len(q) THEN q[i] ELSE r[i - Len(q)]
    BY <1>1, ConcatProperties
<1>3. ToSet(s) = ToSet(q) \cup ToSet(r)
    BY <1>1, RangeConcat
<1>4. Len(q) \in Nat /\ Len(r) \in Nat /\ DOMAIN q = 1..Len(q) /\ DOMAIN r = 1..Len(r)
    BY LenProperties
<1>5. s \in Seq(ToSet(s))
    BY <1>2, OwnRange
<1>6. (\A i \in 1..Len(q) : q[i] \in ToSet(q)) /\ (\A i \in 1..Len(r) : r[i] \in ToSet(r))
    BY <1>4 DEF ToSet
<1> HIDE DEF s
<1>7. \A i \in 1..Len(s) : i \in 1..Len(q) \/ (i > Len(q) /\ i - Len(q) \in 1..Len(r))
    BY <1>2, <1>4
<1> QED
    BY <1>2, <1>3, <1>4, <1>5, <1>6, <1>7 DEF s

\* Taking the first job off leaves the others apart.
LEMMA PairwiseTail ==
    ASSUME NEW q, q \in Seq(ToSet(q)), q # <<>>, Pairwise(q)
    PROVE  Pairwise(Tail(q)) /\ \A j \in ToSet(Tail(q)) : Apart(Head(q), j)
<1> DEFINE t == Tail(q)
<1>1. /\ Head(q) = q[1] /\ Len(q) \in Nat /\ Len(q) >= 1 /\ Len(t) = Len(q) - 1
      /\ \A i \in 1..Len(t) : t[i] = q[i + 1]
      /\ DOMAIN t = 1..Len(t)
    BY HeadTail
<1> HIDE DEF t
<1>2. \A i \in 1..Len(t) : i + 1 \in 1..Len(q) /\ 1 < i + 1 /\ 1 \in 1..Len(q)
    BY <1>1
<1>3. \A i, j \in 1..Len(t) : i < j => i + 1 < j + 1
    BY <1>1
<1>4. Pairwise(t)
    BY <1>1, <1>2, <1>3 DEF Pairwise
<1>5. \A j \in ToSet(t) : Apart(Head(q), j)
    BY <1>1, <1>2 DEF Pairwise, ToSet
<1> QED
    BY <1>4, <1>5 DEF t

\* Two lists of jobs that are apart, one after the other.
LEMMA PairwiseJoined ==
    ASSUME NEW q, NEW r, q \in Seq(ToSet(q)), r \in Seq(ToSet(r)), Pairwise(q), Pairwise(r),
           \A i \in ToSet(q), j \in ToSet(r) : Apart(i, j)
    PROVE  Pairwise(q \o r)
<1> DEFINE s == q \o r
<1>1. /\ Len(s) = Len(q) + Len(r) /\ Len(q) \in Nat /\ Len(r) \in Nat
      /\ \A i \in 1..Len(s) : \/ i \in 1..Len(q) /\ s[i] = q[i] /\ q[i] \in ToSet(q)
                              \/ /\ i > Len(q) /\ i - Len(q) \in 1..Len(r)
                                 /\ s[i] = r[i - Len(q)] /\ r[i - Len(q)] \in ToSet(r)
    BY Joined
<1> HIDE DEF s
<1> SUFFICES ASSUME NEW i \in 1..Len(s), NEW j \in 1..Len(s), i < j PROVE Apart(s[i], s[j])
    BY DEF Pairwise, s
<1>2. CASE i \in 1..Len(q) /\ s[i] = q[i] /\ j \in 1..Len(q) /\ s[j] = q[j]
    BY <1>2 DEF Pairwise
<1>3. CASE /\ i > Len(q) /\ i - Len(q) \in 1..Len(r) /\ s[i] = r[i - Len(q)]
           /\ j > Len(q) /\ j - Len(q) \in 1..Len(r) /\ s[j] = r[j - Len(q)]
  <2>1. i - Len(q) < j - Len(q)
      BY <1>1
  <2> QED
      BY <1>3, <2>1 DEF Pairwise
<1>4. CASE /\ i \in 1..Len(q) /\ s[i] = q[i] /\ q[i] \in ToSet(q)
           /\ j > Len(q) /\ s[j] = r[j - Len(q)] /\ r[j - Len(q)] \in ToSet(r)
    BY <1>4
<1>5. CASE i > Len(q) /\ j \in 1..Len(q)
    BY <1>1, <1>5
<1> QED
    BY <1>1, <1>2, <1>3, <1>4, <1>5

\* The jobs of a manifest, and that they are apart.
LEMMA ManifestJobs ==
    ASSUME NEW m, IsManifest(m), NEW o, NEW prefix \in Seq(Packages), NEW a
    PROVE  LET js == Jobs(m, o, prefix, a) IN
            /\ js \in Seq(ToSet(js)) /\ Pairwise(js)
           /\ \A j \in ToSet(js) :
                /\ j.do = "resolve" /\ j.owner = o /\ HasFields(j)
                /\ \E n \in DOMAIN m : n \in Packages /\ j.path = Below(prefix, n) /\ j.kind = m[n].kind
<1> DEFINE names == Kept(Order, DOMAIN m)
           js == Jobs(m, o, prefix, a)
<1>1. names \in Seq(Packages) /\ ToSet(names) \subseteq DOMAIN m /\ IsInjective(names)
    BY KeptType, KeptRange, KeptInjective, OrderAssumption
<1>2. js = [i \in DOMAIN names |->
            [do |-> "resolve", owner |-> o, path |-> Append(prefix, names[i]),
             kind |-> m[names[i]].kind, version |-> m[names[i]].version, ancestry |-> a]]
    BY DEF Jobs
<1> HIDE DEF names, js
<1>3. DOMAIN names = 1..Len(names) /\ Len(names) \in Nat
    BY <1>1, LenProperties
<1>4. \A i \in DOMAIN names : names[i] \in DOMAIN m /\ names[i] \in Packages
  <2>1. \A i \in DOMAIN names : names[i] \in ToSet(names)
      BY DEF ToSet
  <2> QED
      BY <2>1, <1>1 DEF IsManifest
<1>5. js \in [1..Len(names) -> ToSet(js)]
    BY <1>2, <1>3 DEF ToSet
<1>6. js \in Seq(ToSet(js)) /\ Len(js) = Len(names)
  <2>1. js \in Seq(ToSet(js))
      BY <1>3, <1>5, SeqDef
  <2>2. DOMAIN js = 1..Len(js) /\ DOMAIN js = 1..Len(names) /\ Len(js) \in Nat
      BY <1>5, <2>1, LenProperties
  <2>3. ASSUME NEW k \in Nat, NEW n \in Nat, 1..k = 1..n PROVE k = n
    <3>1. k > n => k \in 1..k /\ k \notin 1..n
        OBVIOUS
    <3>2. n > k => n \in 1..n /\ n \notin 1..k
        OBVIOUS
    <3> QED
        BY <2>3, <3>1, <3>2
  <2> QED
      BY <1>3, <2>1, <2>2, <2>3
<1>7. \A i \in DOMAIN names :
        /\ js[i].do = "resolve" /\ js[i].owner = o /\ HasFields(js[i])
        /\ js[i].path = Below(prefix, names[i]) /\ js[i].kind = m[names[i]].kind
    BY <1>2 DEF HasFields, Below
<1>8. Pairwise(js)
  <2> SUFFICES ASSUME NEW i \in 1..Len(js), NEW k \in 1..Len(js), i < k PROVE Apart(js[i], js[k])
      BY DEF Pairwise
  <2>1. names[i] # names[k]
      BY <1>1, <1>3, <1>6 DEF IsInjective
  <2> DEFINE p == Below(prefix, names[i])
             q == Below(prefix, names[k])
  <2>2. /\ p \in Path /\ Len(p) = Len(prefix) + 1 /\ p[Len(p)] = names[i]
        /\ q \in Path /\ Len(q) = Len(prefix) + 1 /\ q[Len(q)] = names[k]
        /\ Len(prefix) \in Nat
      BY <1>3, <1>4, <1>6, Longer, LenProperties
  <2> HIDE DEF p, q
  <2>3. ~IsPrefix(p, q) /\ ~IsPrefix(q, p)
      BY <2>1, <2>2, PrefixOf
  <2>4. js[i].do = "resolve" /\ js[i].path = p /\ js[k].do = "resolve" /\ js[k].path = q
      BY <1>3, <1>6, <1>7 DEF p, q
  <2> QED
      BY <2>3, <2>4 DEF Apart, Within, Places
<1>9. \A j \in ToSet(js) : \E i \in DOMAIN names : j = js[i]
    BY <1>5, <1>3 DEF ToSet
<1>10. \A j \in ToSet(js) :
        /\ j.do = "resolve" /\ j.owner = o /\ HasFields(j)
        /\ \E n \in DOMAIN m : n \in Packages /\ j.path = Below(prefix, n) /\ j.kind = m[n].kind
    BY <1>4, <1>7, <1>9
<1> QED
    BY <1>6, <1>8, <1>10 DEF js

-----------------------------------------------------------------------------
(* What stands, whatever runs.                                             *)

\* What a manifest may declare does not change.
LEMMA SameDeclarations ==
    ASSUME world' = world
    PROVE  \A m : ManifestSound(m)' <=> ManifestSound(m)
<1>1. \A m : LiveFrom(m)' <=> LiveFrom(m)
    BY DEF LiveFrom
<1> QED
    BY <1>1, SameCommand DEF ManifestSound

\* The parts of what stands, of which a step changes few.
LEMMA StandingStep ==
    ASSUME Standing, world' = world, ChangeInv',
           ManifestSound(manifest'), before' = before \/ before' = Snapshot,
           Changing' => /\ ManifestSound(command'.update)
                        /\ command'.removed # None => command'.removed \notin DOMAIN command'.update,
           phase' # "idle" /\ command'.op # "change" => command'.removed = None,
           \A o \in Owners : Closed(trees'[o]), LockSound(lock'),
           source' \in [Packages -> [version : Nat, edit : Nat]],
           phase' = "idle" => jobs' = <<>> /\ staged' = Nothing,
           phase' = "write" => records' = {} /\ staged' = Nothing
    PROVE  Standing'
<1>1. /\ ManifestSound(before'.manifest) /\ LockSound(before'.lock)
      /\ \A o \in Owners : Closed(before'.trees[o])
  <2>1. CASE before' = before
      BY <2>1 DEF Standing
  <2>2. CASE before' = Snapshot
    <3>1. before'.manifest = manifest /\ before'.lock = lock /\ before'.trees = trees
        BY <2>2 DEF Snapshot
    <3> QED
        BY <3>1 DEF Standing
  <2> QED
      BY <2>1, <2>2
<1> QED
    BY <1>1, SameDeclarations DEF Standing

\* The types say less.
LEMMA StandingTypes == ASSUME Standing PROVE TypeOK
<1>1. IsManifest(manifest) /\ DOMAIN trees = Owners /\ DOMAIN source = Packages
    BY DEF Standing, ManifestSound, ChangeInv, Shapes
<1>2. ASSUME NEW o \in Owners, NEW path \in DOMAIN trees[o], NEW i \in 1..Len(path)
      PROVE  Installed(o, SubSeq(path, 1, i))
  <2>1. Closed(trees[o])
      BY DEF Standing
  <2> QED
      BY <2>1 DEF Closed, Heads, Installed
<1> QED
    BY <1>1, <1>2 DEF Standing, TypeOK

\* A step of a command's work leaves the files and the sources alone.
LEMMA StandingWork ==
    ASSUME Standing, world' = world, ChangeInv', phase = "install", phase' = phase,
           UNCHANGED <<manifest, lock, before, command, source>>,
           \A o \in Owners : Closed(trees'[o])
    PROVE  Standing'
<1>1. /\ ManifestSound(manifest') /\ LockSound(lock')
      /\ source' \in [Packages -> [version : Nat, edit : Nat]]
      /\ phase' # "idle" /\ command'.op # "change" => command'.removed = None
    BY DEF Standing
<1>2. Changing' => /\ ManifestSound(command'.update)
                   /\ command'.removed # None => command'.removed \notin DOMAIN command'.update
    BY DEF Standing, Changing
<1> QED
    BY <1>1, <1>2, StandingStep

\* What ends a command.
LEMMA StandingEnd ==
    ASSUME Standing, world' = world, ChangeInv', phase' = "idle", jobs' = <<>>, staged' = Nothing,
           UNCHANGED <<manifest, before, source>>, LockSound(lock'), \A o \in Owners : Closed(trees'[o])
    PROVE  Standing'
<1>1. /\ ManifestSound(manifest')
      /\ source' \in [Packages -> [version : Nat, edit : Nat]]
    BY DEF Standing
<1>2. ~Changing'
    BY DEF Changing
<1> QED
    BY <1>1, <1>2, StandingStep

\* What the commands ask for is declared.
LEMMA UpdatesAreDeclared ==
    ASSUME Standing, NEW cmd \in Updates
    PROVE  /\ ManifestSound(cmd.update) /\ cmd.op = "change"
           /\ cmd.removed # None => cmd.removed \notin DOMAIN cmd.update
<1> DEFINE Versions == {source[n].version : n \in Packages}
           Declare(d, v) == [op |-> "change", removed |-> None,
                             update |-> With(manifest, d.name, [kind |-> d.kind, version |-> v])]
           Removing(n) == [op |-> "change", removed |-> n, update |-> Without(manifest, {n})]
<1>0. Updates = {Declare(d, v) : d \in world.declarations, v \in Versions}
                    \cup {Removing(n) : n \in DOMAIN manifest}
    BY DEF Updates
<1>1. world \in Worlds /\ Sound(manifest) /\ IsManifest(manifest) /\ LiveFrom(manifest)
    BY DEF Standing, ChangeInv, Shapes, ManifestSound
<1>2. Sound(cmd.update) /\ cmd.op = "change"
    BY <1>1, UpdatesAreSound
<1>3. CASE \E n \in DOMAIN manifest : cmd = Removing(n)
  <2>1. PICK n \in DOMAIN manifest : cmd = Removing(n)
      BY <1>3
  <2> DEFINE m == Without(manifest, {n})
  <2>2. DOMAIN m = DOMAIN manifest \ {n} /\ \A x \in DOMAIN m : m[x] = manifest[x]
      BY DEF Without
  <2>3. cmd.update = m /\ cmd.removed = n
      BY <2>1
  <2> HIDE DEF m
  <2>4. IsManifest(m) /\ LiveFrom(m)
      BY <1>1, <2>2 DEF IsManifest, LiveFrom, PathNames
  <2> QED
      BY <1>2, <2>2, <2>3, <2>4 DEF ManifestSound
<1>4. CASE \E d \in world.declarations, v \in Versions : cmd = Declare(d, v)
  <2>1. PICK d \in world.declarations, v \in Versions : cmd = Declare(d, v)
      BY <1>4
  <2>2. d.name \in Packages /\ d.kind \in Kinds
      BY <1>1, WorldAssumption
  <2>3. v \in Nat
      BY DEF Standing
  <2> DEFINE e == [kind |-> d.kind, version |-> v]
             m == With(manifest, d.name, e)
  <2>4. /\ DOMAIN m = DOMAIN manifest \cup {d.name} /\ m[d.name] = e
        /\ \A n \in DOMAIN manifest : n # d.name => m[n] = manifest[n]
      BY DEF With
  <2>5. e.kind = d.kind /\ e.version = v
      OBVIOUS
  <2>6. cmd.update = m /\ cmd.removed = None
      BY <2>1
  <2> HIDE DEF m, e
  <2>7. IsManifest(m)
      BY <1>1, <2>2, <2>3, <2>4, <2>5 DEF IsManifest
  <2>8. LiveFrom(m)
    <3> SUFFICES ASSUME NEW n \in PathNames(m) PROVE MayDeclareLive(world, Project, n)
        BY DEF LiveFrom
    <3>1. CASE n = d.name
        BY <2>4, <2>5, <3>1 DEF PathNames, MayDeclareLive
    <3>2. CASE n # d.name
        BY <1>1, <2>4, <3>2 DEF PathNames, LiveFrom
    <3> QED
        BY <3>1, <3>2
  <2> QED
      BY <1>2, <2>6, <2>7, <2>8 DEF ManifestSound
<1> HIDE DEF Versions, Declare, Removing
<1>5. (\E n \in DOMAIN manifest : cmd = Removing(n))
        \/ \E d \in world.declarations, v \in Versions : cmd = Declare(d, v)
    BY <1>0
<1> QED
    BY <1>3, <1>4, <1>5

\* A part of a tree without what is beneath one path, or begins with one name.
LEMMA WithoutBeneath ==
    ASSUME NEW tree, Closed(tree), NEW path \in Path
    PROVE  Closed(Without(tree, {p \in DOMAIN tree : IsPrefix(path, p)}))
<1> DEFINE S == {p \in DOMAIN tree : IsPrefix(path, p)}
           t == Without(tree, S)
<1>1. DOMAIN t = DOMAIN tree \ S
    BY DEF Without
<1> HIDE DEF t
<1>2. ASSUME NEW p \in DOMAIN tree, p \notin S, NEW h \in Heads(p)
      PROVE  p \in Path /\ h \in DOMAIN tree /\ h \notin S
  <2>1. p \in Path /\ h \in DOMAIN tree /\ h \in Path /\ IsPrefix(h, p)
      BY HeadsOf DEF Closed
  <2>2. IsPrefix(path, h) => IsPrefix(path, p)
    <3> SUFFICES ASSUME IsPrefix(path, h) PROVE IsPrefix(path, p)
        OBVIOUS
    <3>1. Len(path) <= Len(h) /\ Len(h) <= Len(p) /\ Len(path) \in Nat /\ Len(h) \in Nat /\ Len(p) \in Nat
        BY <2>1, PrefixOf, PathFacts
    <3>2. \A i \in 1..Len(path) : path[i] = h[i] /\ i \in 1..Len(h)
        BY <2>1, <3>1, PrefixOf
    <3>3. \A i \in 1..Len(h) : h[i] = p[i]
        BY <2>1, PrefixOf
    <3> QED
        BY <2>1, <3>1, <3>2, <3>3, PrefixOf
  <2> QED
      BY <1>2, <2>1, <2>2
<1>3. \A p \in DOMAIN t : p \in Path /\ Heads(p) \subseteq DOMAIN t
    BY <1>1, <1>2 DEF Closed
<1> QED
    BY <1>3 DEF Closed, t

\* Nothing begins with the name any more, and nothing else is gone.
LEMMA WithoutName ==
    ASSUME NEW tree, Closed(tree), NEW n
    PROVE  Closed(Without(tree, Under(tree, n)))
<1> DEFINE S == Under(tree, n)
           t == Without(tree, S)
<1>1. DOMAIN t = DOMAIN tree \ S
    BY DEF Without
<1>2. ASSUME NEW p \in DOMAIN tree, p \notin S, NEW h \in Heads(p)
      PROVE  p \in Path /\ h \in DOMAIN tree /\ h \notin S
    BY <1>2, HeadsOf DEF Closed, Under
<1> HIDE DEF t, S
<1>3. \A p \in DOMAIN t : p \in Path /\ Heads(p) \subseteq DOMAIN t
    BY <1>1, <1>2 DEF Closed
<1> QED
    BY <1>3 DEF Closed, t, S

\* An empty tree.
LEMMA NothingClosed == DOMAIN Nothing = {} /\ Closed(Nothing)
BY DEF Nothing, Closed

-----------------------------------------------------------------------------
(* Installations that resolve.                                             *)

\* What resolution begins with.
Begun ==
    /\ world \in Worlds /\ ManifestSound(manifest)
    /\ jobs = ProjectJobs(manifest) /\ records = {} /\ staged = Nothing

\* An install, and a change once its manifest is written, begin so.
LEMMA BegunIsResolution == ASSUME Begun PROVE Resolution
<1>0. /\ world \in Worlds /\ ManifestSound(manifest)
      /\ jobs = Jobs(manifest, Project, Top, {}) /\ records = {} /\ staged = Nothing
    BY DEF Begun, ProjectJobs, Top
<1>1. IsManifest(manifest) /\ Sound(manifest) /\ LiveFrom(manifest)
    BY <1>0 DEF ManifestSound
<1>2. Top \in Seq(Packages)
    BY EmptySeq DEF Top
<1>3. /\ jobs \in Seq(ToSet(jobs)) /\ Pairwise(jobs)
      /\ \A j \in ToSet(jobs) :
            /\ j.do = "resolve" /\ j.owner = Project /\ HasFields(j)
            /\ \E n \in DOMAIN manifest : n \in Packages /\ j.path = Below(Top, n) /\ j.kind = manifest[n].kind
  <2>1. PICK none : none = {}
      OBVIOUS
  <2>2. jobs = Jobs(manifest, Project, Top, none)
      BY <1>0, <1>2, <2>1
  <2>3. /\ jobs \in Seq(ToSet(jobs)) /\ Pairwise(jobs)
        /\ \A j \in ToSet(jobs) :
            /\ j.do = "resolve" /\ j.owner = Project /\ HasFields(j)
            /\ \E n \in DOMAIN manifest : n \in Packages /\ j.path = Below(Top, n) /\ j.kind = manifest[n].kind
      BY <1>1, <1>2, <2>2, ManifestJobs
  <2> QED
      BY <2>3
<1>4. ASSUME NEW j \in ToSet(jobs) PROVE GoodJob(j) /\ Len(j.path) = 1 /\ j.owner = Project
  <2>1. PICK n \in DOMAIN manifest : n \in Packages /\ j.path = Below(Top, n) /\ j.kind = manifest[n].kind
      BY <1>3
  <2>2. /\ j.path \in Path /\ Len(j.path) = 1 /\ Last(j.path) = n /\ j.path[1] = n
      BY <1>2, <2>1, Longer
  <2>3. j.kind = "path" => MayDeclareLive(world, Project, n)
      BY <1>1, <2>1 DEF LiveFrom, PathNames
  <2>4. j.kind # "path" => MayBeManaged(n)
      BY <1>1, <2>1 DEF Sound
  <2> QED
      BY <1>3, <2>1, <2>2, <2>3, <2>4 DEF GoodJob, Resolves, Places, Owners
<1>5. RecordsSound(records) /\ NamedBy(manifest, records)
    BY <1>0, FS_EmptySet DEF RecordsSound, NamedBy
<1>6. Fetching = {}
    BY <1>0, NothingClosed DEF Fetching
<1>7. \A r \in records : FALSE
    BY <1>0
<1>8. \A at \in Fetching : FALSE
    BY <1>6
<1>9. \A j \in ToSet(jobs) : GoodJob(j) /\ ~(Len(j.path) # 1)
    BY <1>4
<1>10. \A x \in ToSet(jobs) \cup records : ~(x.owner # Project)
    BY <1>4, <1>7
<1> QED
    BY <1>3, <1>5, <1>7, <1>8, <1>9, <1>10 DEF Resolution

\* The same of the next state.
LEMMA BegunThen == Begun' => Resolution'
<1>1. Begun => Resolution
    BY BegunIsResolution
<1> QED
    BY <1>1, PTL

\* A path of one name.
LEMMA OneName ==
    ASSUME NEW p \in Path, Len(p) = 1
    PROVE  Heads(p) = {p} /\ (\A n : p[1] = n => p = <<n>>) /\ \A q \in Path : IsPrefix(p, q) <=> q[1] = p[1]
<1>0. 1 \in 1..Len(p) /\ 1..Len(p) = {1}
    OBVIOUS
<1>1. 1 \in 1..Len(p) /\ 1..Len(p) = {1} /\ SubSeq(p, 1, 1) = p
    BY <1>0, HeadOf
<1>2. Heads(p) = {p}
    BY <1>1 DEF Heads
<1>3. ASSUME NEW q \in Path PROVE IsPrefix(p, q) <=> q[1] = p[1]
    BY <1>1, PrefixOf, PathFacts
<1>4. ASSUME NEW n, p[1] = n PROVE p = <<n>>
  <2> DEFINE h == SubSeq(p, 1, 1)
  <2>1. h = <<p[1]>> /\ h = p
      BY <1>1, HeadsOf
  <2>2. h = <<n>>
      BY <1>4, <2>1
  <2> HIDE DEF h
  <2> QED
      BY <2>1, <2>2
<1> QED
    BY <1>2, <1>3, <1>4

\* A path is within itself.
LEMMA PrefixSelf == ASSUME NEW p \in Path PROVE IsPrefix(p, p)
BY PrefixOf, PathFacts

\* What is below is below what is above.
LEMMA PrefixChain ==
    ASSUME NEW p \in Path, NEW q \in Path, NEW r \in Path, IsPrefix(p, q), IsPrefix(q, r)
    PROVE  IsPrefix(p, r)
<1>1. Len(p) <= Len(q) /\ Len(q) <= Len(r) /\ Len(p) \in Nat /\ Len(q) \in Nat /\ Len(r) \in Nat
    BY PrefixOf, PathFacts
<1>2. \A i \in 1..Len(p) : p[i] = q[i] /\ i \in 1..Len(q)
    BY <1>1, PrefixOf
<1>3. \A i \in 1..Len(q) : q[i] = r[i]
    BY PrefixOf
<1> QED
    BY <1>1, <1>2, <1>3, PrefixOf

\* More jobs in place of the first one.
LEMMA MoreThenTail ==
    ASSUME jobs \in Seq(ToSet(jobs)), jobs # <<>>, Pairwise(jobs),
           NEW more, more \in Seq(ToSet(more)), Pairwise(more), Then(more),
           \A i \in ToSet(more), k \in ToSet(Tail(jobs)) : Apart(i, k)
    PROVE  /\ jobs' \in Seq(ToSet(jobs')) /\ Pairwise(jobs')
           /\ ToSet(jobs') = ToSet(more) \cup ToSet(Tail(jobs))
<1> DEFINE t == Tail(jobs)
<1>1. t \in Seq(ToSet(t)) /\ Pairwise(t)
    BY HeadTail, PairwiseTail
<1>2. jobs' = more \o t
    BY DEF Then
<1> HIDE DEF t
<1>3. more \o t \in Seq(ToSet(more \o t)) /\ ToSet(more \o t) = ToSet(more) \cup ToSet(t)
    BY <1>1, Joined
<1>4. Pairwise(more \o t)
    BY <1>1, PairwiseJoined DEF t
<1> QED
    BY <1>2, <1>3, <1>4 DEF t

\* The job at hand, and the others.
LEMMA AtHand ==
    ASSUME Resolution, jobs # <<>>
    PROVE  /\ Job \in ToSet(jobs) /\ GoodJob(Job)
           /\ ToSet(Tail(jobs)) \subseteq ToSet(jobs)
           /\ \A k \in ToSet(jobs) : k = Job \/ k \in ToSet(Tail(jobs))
           /\ \A k \in ToSet(Tail(jobs)) : Apart(Job, k)
<1>1. jobs \in Seq(ToSet(jobs)) /\ Pairwise(jobs) /\ \A j \in ToSet(jobs) : GoodJob(j)
    BY DEF Resolution
<1> QED
    BY <1>1, HeadTail, PairwiseTail DEF Job

\* What is recorded of the job at hand.
LEMMA Recorded ==
    ASSUME Resolution, jobs # <<>>, Resolves(Job),
           NEW rec, Where(rec) = Where(Job), rec.kind = Job.kind, NEW R, R = records \cup {rec}
    PROVE  /\ RecordsSound(R) /\ NamedBy(manifest, R)
           /\ \A r \in records : Where(r) # Where(Job)
           /\ \A k \in ToSet(Tail(jobs)) : Resolves(k) => \A r \in R : ~Within(k, r)
<1>1. Job \in ToSet(jobs) /\ GoodJob(Job)
    BY AtHand
<1>2. rec.owner = Job.owner /\ rec.path = Job.path
    BY DEF Where
<1>3. \A r \in records : ~Within(Job, r)
    BY <1>1 DEF Resolution
<1>4. Job.owner \in Owners /\ Job.path \in Path
    BY <1>1 DEF GoodJob
<1>5. \A r \in records : Where(r) # Where(Job)
    BY <1>3, <1>4, PrefixSelf DEF Within, Where
<1>6. RecordsSound(records) /\ NamedBy(manifest, records)
    BY DEF Resolution
<1>7. NamedBy(manifest, R)
    BY <1>1, <1>2, <1>6 DEF NamedBy, GoodJob
<1>8. ASSUME NEW p \in Heads(Job.path)
      PROVE  \E s \in R : Where(s) = <<Job.owner, p>> /\ (s.kind = "path" <=> Job.kind = "path")
  <2>1. CASE p = Job.path
      BY <1>2, <2>1 DEF Where
  <2>2. CASE p # Job.path
    <3>1. Len(Job.path) # 1 /\ p \in Heads(Above(Job.path))
        BY <1>4, <2>2, OneName, HeadsOf
    <3>2. PICK s \in records : s.kind # "path" /\ Where(s) = <<Job.owner, Above(Job.path)>>
        BY <1>1, <3>1 DEF Resolution
    <3>3. s.owner = Job.owner /\ s.path = Above(Job.path)
        BY <3>2 DEF Where
    <3>4. PICK r \in records : Where(r) = <<s.owner, p>> /\ (r.kind = "path" <=> s.kind = "path")
        BY <1>6, <3>1, <3>3 DEF RecordsSound
    <3>5. Job.kind # "path"
        BY <1>1, <3>1 DEF GoodJob
    <3> QED
        BY <3>2, <3>3, <3>4, <3>5
  <2> QED
      BY <2>1, <2>2
<1>9. IsFiniteSet(R)
    BY <1>6, FS_AddElement DEF RecordsSound
<1>10. \A r, s \in R : Where(r) = Where(s) => r = s
    BY <1>5, <1>6 DEF RecordsSound
<1>11. ASSUME NEW r \in R
       PROVE  /\ r.owner \in Owners /\ r.path \in Path /\ (r.kind = "path" => Len(r.path) = 1)
              /\ \A p \in Heads(r.path) : \E s \in R : Where(s) = <<r.owner, p>>
                                                /\ (s.kind = "path" <=> r.kind = "path")
  <2>1. CASE r = rec
      BY <1>1, <1>2, <1>4, <1>8, <2>1 DEF GoodJob
  <2>2. CASE r \in records
      BY <1>6, <2>2 DEF RecordsSound
  <2> QED
      BY <2>1, <2>2
<1>12. RecordsSound(R)
    BY <1>9, <1>10, <1>11 DEF RecordsSound
<1>13. ASSUME NEW k \in ToSet(Tail(jobs)), Resolves(k), NEW r \in R PROVE ~Within(k, r)
  <2>1. CASE r = rec
    <3>1. ~Within(k, Job)
        BY <1>13, AtHand DEF Apart
    <3> QED
        BY <1>2, <2>1, <3>1 DEF Within
  <2>2. CASE r \in records
      BY <1>13, <2>2, AtHand DEF Resolution
  <2> QED
      BY <2>1, <2>2
<1> QED
    BY <1>5, <1>7, <1>12, <1>13

\* What a good job is depends on the world and the manifest alone.
LEMMA SameGood ==
    ASSUME world' = world, manifest' = manifest
    PROVE  \A j : GoodJob(j)' <=> GoodJob(j)
<1>1. \A n : MayBeManaged(n)' <=> MayBeManaged(n)
    BY DEF MayBeManaged, Needs
<1> QED
    BY <1>1 DEF GoodJob

\* What resolution keeps of the other jobs and of the records, whatever it adds.
LEMMA LiveStep ==
    ASSUME LiveNeededOnce, world \in Worlds, world' = world, Resolution, ResolvePath
    PROVE  Resolution'
<1> DEFINE j == Job
           n == Name
           rec == Record(Nothing)
           rest == ToSet(Tail(jobs))
           a == j.ancestry \cup {Key}
           more == Jobs(Needs[n], n, Top, a)
<1>1. /\ jobs # <<>> /\ j.do = "resolve" /\ j.kind = "path" /\ Then(more)
      /\ records' = records \cup {rec} /\ UNCHANGED <<manifest, trees, staged>>
    BY DEF ResolvePath, Todo, Top, files
<1>2. j \in ToSet(jobs) /\ GoodJob(j) /\ Resolves(j)
    BY <1>1, AtHand DEF Resolves
<1>3. /\ j.owner \in Owners /\ j.path \in Path /\ Len(j.path) = 1 /\ n = Last(j.path) /\ n = j.path[1]
      /\ n \in Packages /\ MayDeclareLive(world, j.owner, n)
  <2>1. j.owner \in Owners /\ j.path \in Path /\ Len(j.path) = 1 /\ MayDeclareLive(world, j.owner, Last(j.path))
      BY <1>1, <1>2 DEF GoodJob
  <2> QED
      BY <2>1, PathFacts DEF Name
<1>4. Where(rec) = Where(j) /\ rec.kind = j.kind /\ rec.owner = j.owner /\ rec.path = j.path
    BY DEF Record, Where
<1> HIDE DEF rec, j
<1>5. /\ RecordsSound(records') /\ NamedBy(manifest, records')
      /\ \A k \in rest : Resolves(k) => \A r \in records' : ~Within(k, r)
    BY <1>1, <1>2, <1>4, Recorded DEF j
<1>6. n # Project /\ n \in Owners
    BY <1>3, OrderAssumption DEF Owners
<1>7. \A x \in ToSet(jobs) \cup records : x.owner # n
  <2> SUFFICES ASSUME NEW x \in ToSet(jobs) \cup records, x.owner = n PROVE FALSE
      OBVIOUS
  <2>1. PICK s \in records : s.kind = "path" /\ s.path = <<n>>
      BY <1>6 DEF Resolution
  <2>2. s.owner \in Owners /\ s.path \in Path /\ s.path[1] = n /\ MayDeclareLive(world, s.owner, n)
      BY <2>1 DEF Resolution, RecordsSound
  <2>3. s.owner = j.owner
      BY <1>3, <2>2 DEF LiveNeededOnce
  <2>4. IsPrefix(j.path, s.path)
      BY <1>3, <2>2, OneName
  <2> QED
      BY <1>2, <2>3, <2>4 DEF Resolution, Within
<1>8. IsManifest(Needs[n]) /\ Sound(Needs[n])
    BY <1>3, Worldly, NeedsAreSound
<1> HIDE DEF n, a
<1>9. Top \in Seq(Packages)
    BY EmptySeq DEF Top
<1>10. /\ more \in Seq(ToSet(more)) /\ Pairwise(more)
       /\ \A k \in ToSet(more) :
            /\ k.do = "resolve" /\ k.owner = n /\ HasFields(k)
            /\ \E m \in DOMAIN Needs[n] : m \in Packages /\ k.path = Below(Top, m) /\ k.kind = Needs[n][m].kind
    BY <1>8, <1>9, ManifestJobs
<1> HIDE DEF more
<1>11. ASSUME NEW k \in ToSet(more)
       PROVE  GoodJob(k) /\ Resolves(k) /\ ~Places(k) /\ k.owner = n /\ Len(k.path) = 1
  <2>1. PICK m \in DOMAIN Needs[n] : m \in Packages /\ k.path = Below(Top, m) /\ k.kind = Needs[n][m].kind
      BY <1>10
  <2>2. k.path \in Path /\ Len(k.path) = 1 /\ Last(k.path) = m
      BY <1>9, <2>1, Longer
  <2>3. k.kind = "path" => MayDeclareLive(world, n, m)
      BY <1>6, <2>1 DEF MayDeclareLive, PathNames, Needs
  <2>4. k.kind # "path" => MayBeManaged(m)
      BY <1>8, <2>1 DEF Sound
  <2> QED
      BY <1>6, <1>10, <2>2, <2>3, <2>4 DEF GoodJob, Resolves, Places
<1>12. rest \subseteq ToSet(jobs) /\ \A k \in ToSet(jobs) : Places(k) => k \in rest
    BY <1>1, AtHand DEF j, Places
<1>13. \A i \in ToSet(more), k \in rest : Apart(i, k)
    BY <1>7, <1>11, <1>12 DEF Apart, SameTop, Within
<1>14. jobs' \in Seq(ToSet(jobs')) /\ Pairwise(jobs') /\ ToSet(jobs') = ToSet(more) \cup rest
    BY <1>1, <1>10, <1>13, MoreThenTail DEF Resolution
<1> HIDE DEF rest
<1>15. Fetching' = Fetching
    BY <1>1 DEF Fetching
<1>16. ASSUME NEW k \in ToSet(jobs')
       PROVE  /\ GoodJob(k)
              /\ Resolves(k) => \A r \in records' : ~Within(k, r)
              /\ Resolves(k) /\ Len(k.path) # 1 =>
                   /\ \E p \in ToSet(jobs') : Places(p) /\ SameTop(p, k)
                   /\ <<k.owner, Above(k.path)>> \in Fetching
                   /\ \E s \in records' : s.kind # "path" /\ Where(s) = <<k.owner, Above(k.path)>>
  <2>1. CASE k \in ToSet(more)
    <3>1. \A r \in records' : r.owner # n
        BY <1>1, <1>2, <1>4, <1>7
    <3> QED
        BY <1>11, <2>1, <3>1 DEF Within
  <2>2. CASE k \in rest
    <3>1. k \in ToSet(jobs) /\ GoodJob(k)
        BY <1>12, <2>2 DEF Resolution
    <3>2. ASSUME Resolves(k), Len(k.path) # 1
          PROVE  /\ \E p \in ToSet(jobs') : Places(p) /\ SameTop(p, k)
                 /\ <<k.owner, Above(k.path)>> \in Fetching
                 /\ \E s \in records' : s.kind # "path" /\ Where(s) = <<k.owner, Above(k.path)>>
        BY <1>1, <1>12, <1>14, <3>1, <3>2 DEF Resolution
    <3> QED
        BY <1>5, <2>2, <3>1, <3>2
  <2> QED
      BY <1>14, <2>1, <2>2
<1>17. ASSUME NEW r \in records', r.kind # "path"
       PROVE  \/ /\ Where(r) \in Fetching /\ staged[Where(r)] = r.contents
                 /\ \E k \in ToSet(jobs') : Places(k) /\ SameTop(k, r)
              \/ /\ Holds(trees[r.owner], r)
                 /\ \A k \in ToSet(jobs') : ~SameTop(k, r)
  <2>1. r \in records
      BY <1>1, <1>4, <1>17
  <2>2. CASE /\ Where(r) \in Fetching /\ staged[Where(r)] = r.contents
             /\ \E k \in ToSet(jobs) : Places(k) /\ SameTop(k, r)
      BY <1>12, <1>14, <2>2
  <2>3. CASE Holds(trees[r.owner], r) /\ \A k \in ToSet(jobs) : ~SameTop(k, r)
    <3>1. \A k \in ToSet(more) : ~SameTop(k, r)
        BY <1>7, <1>11, <2>1 DEF SameTop
    <3> QED
        BY <1>12, <1>14, <2>3, <3>1
  <2> QED
      BY <1>17, <2>1, <2>2, <2>3 DEF Resolution
<1>18. \A r \in records' : r.kind = "path" => MayDeclareLive(world, r.owner, r.path[1])
    BY <1>1, <1>3, <1>4 DEF Resolution
<1>19. ASSUME NEW at \in Fetching
       PROVE  /\ \A p \in Heads(at[2]) : <<at[1], p>> \in Fetching
              /\ \E r \in records' : r.kind # "path" /\ Where(r) = at
              /\ \E k \in ToSet(jobs') : Places(k) /\ k.owner = at[1] /\ k.path[1] = at[2][1]
    BY <1>1, <1>12, <1>14 DEF Resolution
<1>0. \A x \in ToSet(jobs) \cup records : x.owner # Project => \E s \in records : s.kind = "path" /\ s.path = <<x.owner>>
    BY DEF Resolution
<1>20. ASSUME NEW x \in ToSet(jobs') \cup records', x.owner # Project
       PROVE  \E s \in records' : s.kind = "path" /\ s.path = <<x.owner>>
  <2>1. CASE x \in ToSet(more)
    <3>1. rec \in records' /\ rec.kind = "path" /\ x.owner = n
        BY <1>1, <1>4, <1>11, <2>1
    <3>2. rec.path = <<n>>
      <4>1. j.path \in Path /\ Len(j.path) = 1 /\ j.path[1] = n
          BY <1>3
      <4>2. PICK p \in Path : p = j.path
          BY <4>1, Zenon
      <4>3. \A y : p[1] = y => p = <<y>>
          BY <4>1, <4>2, OneName, Zenon
      <4>4. p[1] = n
          BY <4>1, <4>2, Zenon
      <4>5. p = <<n>>
          BY <4>3, <4>4, Zenon
      <4> QED
          BY <1>4, <4>2, <4>5
    <3> QED
        BY <3>1, <3>2
  <2>2. CASE x \in rest \cup records
      BY <1>0, <1>1, <1>12, <1>20, <2>2
  <2>3. CASE x = rec
    <3>1. j.owner # Project
        BY <1>4, <1>20, <2>3
    <3> QED
        BY <1>0, <1>1, <1>2, <1>4, <2>3, <3>1
  <2> QED
      BY <1>1, <1>14, <2>1, <2>2, <2>3
<1>21. \A k \in ToSet(jobs') : GoodJob(k)'
    BY <1>1, <1>16, SameGood
<1> QED
    BY <1>1, <1>5, <1>14, <1>15, <1>16, <1>17, <1>18, <1>19, <1>20, <1>21 DEF Resolution

\* The packages beneath a fetched one, and the job that moves it into place.
LEMMA Beneath ==
    ASSUME LiveAboveManaged, world \in Worlds, Resolution, ResolveManaged
    PROVE  \E more :
            /\ more \in Seq(ToSet(more)) /\ Pairwise(more) /\ Then(more)
            /\ Len(Job.path) = 1 => \E k \in ToSet(more) : Places(k) /\ SameTop(k, Job)
            /\ \A k \in ToSet(more) :
                /\ GoodJob(k) /\ k.owner = Job.owner /\ k.path[1] = Job.path[1]
                /\ \/ /\ Resolves(k) /\ ~Places(k) /\ Len(k.path) # 1 /\ Len(k.path) = Len(Job.path) + 1
                      /\ Above(k.path) = Job.path /\ IsPrefix(Job.path, k.path)
                      /\ Heads(k.path) \subseteq Heads(Job.path) \cup {k.path}
                   \/ Places(k) /\ ~Resolves(k) /\ Len(Job.path) = 1
<1> DEFINE j == Job
           n == Name
           a == j.ancestry \cup {Key}
           kids == Jobs(Needs[n], j.owner, j.path, a)
           place == [j EXCEPT !.do = "place"]
           last == <<place>>
<1>1. /\ jobs # <<>> /\ j.do = "resolve" /\ j.kind # "path"
      /\ IF Len(j.path) = 1 THEN Then(kids \o last) ELSE Then(kids \o <<>>)
    BY DEF ResolveManaged, Todo
<1>2. j \in ToSet(jobs) /\ GoodJob(j) /\ Resolves(j)
    BY <1>1, AtHand DEF Resolves
<1>3. /\ j.owner \in Owners /\ j.path \in Path /\ j.path \in Seq(Packages)
      /\ n = Last(j.path) /\ n \in Packages /\ MayBeManaged(n) /\ Flat(n)
      /\ j.owner = Project => j.path[1] \in DOMAIN manifest
  <2>1. j.owner \in Owners /\ j.path \in Path /\ MayBeManaged(Last(j.path)) /\ (j.owner = Project => j.path[1] \in DOMAIN manifest)
      BY <1>1, <1>2 DEF GoodJob
  <2> QED
      BY <2>1, PathFacts DEF Name, LiveAboveManaged
<1>4. /\ place.do = "place" /\ place.owner = j.owner /\ place.path = j.path /\ place.kind = j.kind
      /\ HasFields(place)
    BY <1>2 DEF GoodJob, HasFields
<1> HIDE DEF place, j
<1>5. Len(j.path) = 1 => GoodJob(place) /\ Places(place) /\ ~Resolves(place)
    BY <1>1, <1>3, <1>4 DEF GoodJob, Places, Resolves
<1>6. IsManifest(Needs[n]) /\ Sound(Needs[n])
    BY <1>3, Worldly, NeedsAreSound
<1>7. \A m \in DOMAIN Needs[n] : Needs[n][m].kind # "path"
    BY <1>3 DEF Flat, PathNames
<1> HIDE DEF n, a
<1>8. /\ kids \in Seq(ToSet(kids)) /\ Pairwise(kids)
      /\ \A k \in ToSet(kids) :
            /\ k.do = "resolve" /\ k.owner = j.owner /\ HasFields(k)
            /\ \E m \in DOMAIN Needs[n] : m \in Packages /\ k.path = Below(j.path, m) /\ k.kind = Needs[n][m].kind
    BY <1>3, <1>6, ManifestJobs
<1> HIDE DEF kids
<1>9. ASSUME NEW k \in ToSet(kids)
      PROVE  /\ GoodJob(k) /\ k.owner = j.owner /\ k.path[1] = j.path[1]
             /\ Resolves(k) /\ ~Places(k) /\ Len(k.path) # 1 /\ Len(k.path) = Len(j.path) + 1
             /\ Above(k.path) = j.path /\ IsPrefix(j.path, k.path)
             /\ Heads(k.path) \subseteq Heads(j.path) \cup {k.path}
  <2>1. PICK m \in DOMAIN Needs[n] : m \in Packages /\ k.path = Below(j.path, m) /\ k.kind = Needs[n][m].kind
      BY <1>8
  <2>2. /\ k.path \in Path /\ Len(k.path) = Len(j.path) + 1 /\ Last(k.path) = m
        /\ k.path[1] = j.path[1] /\ Above(k.path) = j.path
        /\ IsPrefix(j.path, k.path) /\ Len(k.path) # 1
        /\ Heads(k.path) \subseteq Heads(j.path) \cup {k.path}
      BY <1>3, <2>1, Longer
  <2>3. k.kind # "path" /\ MayBeManaged(m)
      BY <1>6, <1>7, <2>1 DEF Sound
  <2>4. k.do = "resolve" /\ k.owner = j.owner /\ HasFields(k)
      BY <1>8
  <2>5. GoodJob(k)
      BY <1>3, <2>2, <2>3, <2>4 DEF GoodJob, Resolves, Places
  <2> QED
      BY <2>2, <2>4, <2>5 DEF Resolves, Places
<1>10. CASE Len(j.path) = 1
  <2> DEFINE more == kids \o last
  <2>1. last \in Seq({place}) /\ ToSet(last) = {place} /\ Len(last) = 1
      BY DEF ToSet
  <2>2. last \in Seq(ToSet(last)) /\ Pairwise(last)
    <3>1. last \in Seq(ToSet(last))
        BY <2>1
    <3>2. \A x, y \in 1..Len(last) : ~(x < y)
        BY <2>1
    <3> QED
        BY <3>1, <3>2 DEF Pairwise
  <2> HIDE DEF last
  <2>3. \A x \in ToSet(kids), y \in ToSet(last) : Apart(x, y)
      BY <1>5, <1>9, <1>10, <2>1 DEF Apart
  <2>4. more \in Seq(ToSet(more)) /\ Pairwise(more) /\ ToSet(more) = ToSet(kids) \cup {place}
      BY <1>8, <2>1, <2>2, <2>3, Joined, PairwiseJoined
  <2>5. Then(more)
      BY <1>1, <1>10
  <2> HIDE DEF more
  <2>6. SameTop(place, j)
      BY <1>4 DEF SameTop
  <2>7. WITNESS more
  <2> QED
      BY <1>4, <1>5, <1>9, <1>10, <2>4, <2>5, <2>6 DEF j
<1>11. CASE Len(j.path) # 1
  <2>1. kids \o <<>> = kids
      BY <1>8, ConcatEmptySeq
  <2>2. Then(kids)
      BY <1>1, <1>11, <2>1
  <2>3. WITNESS kids
  <2> QED
      BY <1>8, <1>9, <1>11, <2>2 DEF j
<1> QED
    BY <1>10, <1>11

\* A managed package is fetched, recorded, and its own packages are to be
\* resolved beneath it before it is put in place.
LEMMA ManagedStep ==
    ASSUME LiveAboveManaged, world \in Worlds, world' = world, Resolution, ResolveManaged
    PROVE  Resolution'
<1> DEFINE j == Job
           contents == Fetched(Name, j.kind, j.version)
           rec == Record(contents)
           rest == ToSet(Tail(jobs))
           at == Where(j)
<1>1. /\ jobs # <<>> /\ j.do = "resolve" /\ j.kind # "path"
      /\ records' = records \cup {rec} /\ staged' = With(staged, at, contents)
      /\ UNCHANGED <<manifest, trees>>
    BY DEF ResolveManaged, Todo, files, Where
<1>2. j \in ToSet(jobs) /\ GoodJob(j) /\ Resolves(j) /\ ~Places(j)
    BY <1>1, AtHand DEF Resolves, Places
<1>3. j.owner \in Owners /\ j.path \in Path
    BY <1>2 DEF GoodJob
<1>4. /\ Where(rec) = at /\ rec.kind = j.kind /\ rec.owner = j.owner /\ rec.path = j.path
      /\ rec.contents = contents
    BY DEF Record, Where
<1>5. PICK more :
        /\ more \in Seq(ToSet(more)) /\ Pairwise(more) /\ Then(more)
        /\ Len(j.path) = 1 => \E k \in ToSet(more) : Places(k) /\ SameTop(k, j)
        /\ \A k \in ToSet(more) :
            /\ GoodJob(k) /\ k.owner = j.owner /\ k.path[1] = j.path[1]
            /\ \/ /\ Resolves(k) /\ ~Places(k) /\ Len(k.path) # 1 /\ Len(k.path) = Len(j.path) + 1
                  /\ Above(k.path) = j.path /\ IsPrefix(j.path, k.path)
                  /\ Heads(k.path) \subseteq Heads(j.path) \cup {k.path}
               \/ Places(k) /\ ~Resolves(k) /\ Len(j.path) = 1
    BY Beneath
<1>6. at = <<j.owner, j.path>>
    BY DEF Where
<1> HIDE DEF j, rec, contents, at
<1>7. /\ RecordsSound(records') /\ NamedBy(manifest, records')
      /\ \A r \in records : Where(r) # at
      /\ \A k \in rest : Resolves(k) => \A r \in records' : ~Within(k, r)
    BY <1>1, <1>2, <1>4, Recorded DEF j, at
<1>8. rest \subseteq ToSet(jobs) /\ \A k \in ToSet(jobs) : Places(k) => k \in rest
    BY <1>1, <1>2, AtHand DEF j
<1>9. \A k \in rest : Apart(j, k) /\ GoodJob(k)
    BY <1>1, AtHand DEF j, Resolution
<1>10. \A r \in records : ~Within(j, r)
    BY <1>2 DEF Resolution
<1>11. ASSUME NEW i \in ToSet(more), NEW k \in rest PROVE Apart(i, k)
  <2>0. k.path \in Path /\ i.path \in Path /\ Apart(j, k)
      BY <1>5, <1>9 DEF GoodJob
  <2>1. CASE Resolves(i) /\ ~Places(i) /\ Len(i.path) # 1 /\ IsPrefix(j.path, i.path)
             /\ Heads(i.path) \subseteq Heads(j.path) \cup {i.path}
    <3> SUFFICES ASSUME Resolves(k) PROVE ~Within(i, k) /\ ~Within(k, i)
        BY <2>1 DEF Apart
    <3>1. ~Within(j, k) /\ ~Within(k, j)
        BY <1>2, <2>0 DEF Apart
    <3>2. ~Within(i, k)
        BY <1>3, <1>5, <2>0, <2>1, <3>1, PrefixChain DEF Within
    <3>3. ASSUME Within(k, i) PROVE FALSE
      <4>1. k.path \in Heads(i.path) /\ k.owner = j.owner
          BY <1>5, <2>0, <3>3, HeadsOf DEF Within
      <4>2. k.path \in Heads(j.path) => IsPrefix(k.path, j.path)
          BY <1>3, HeadsOf
      <4>3. k.path = i.path => IsPrefix(j.path, k.path)
          BY <2>1
      <4> QED
          BY <2>1, <3>1, <4>1, <4>2, <4>3 DEF Within
    <3> QED
        BY <3>2, <3>3
  <2>2. CASE Places(i) /\ ~Resolves(i) /\ Len(j.path) = 1
    <3>1. ~SameTop(j, k)
      <4>1. CASE Places(k)
          BY <2>0, <2>2, <4>1 DEF Apart
      <4>2. CASE Resolves(k)
        <5>1. IsPrefix(j.path, k.path) <=> k.path[1] = j.path[1]
            BY <1>3, <2>0, <2>2, OneName
        <5> QED
            BY <1>2, <2>0, <4>2, <5>1 DEF Apart, Within, SameTop
      <4> QED
          BY <1>9, <4>1, <4>2 DEF GoodJob, Places, Resolves
    <3> QED
        BY <1>5, <2>2, <3>1 DEF Apart, SameTop
  <2> QED
      BY <1>5, <2>1, <2>2
<1>12. jobs' \in Seq(ToSet(jobs')) /\ Pairwise(jobs') /\ ToSet(jobs') = ToSet(more) \cup rest
    BY <1>1, <1>5, <1>11, MoreThenTail DEF Resolution
<1> HIDE DEF rest
<1>13. /\ Fetching' = Fetching \cup {at} /\ staged'[at] = contents
       /\ \A x \in Fetching : x # at => staged'[x] = staged[x]
    BY <1>1 DEF Fetching, With
<1>14. \E p \in ToSet(jobs') : Places(p) /\ SameTop(p, j)
  <2>1. CASE Len(j.path) = 1
      BY <1>5, <1>12, <2>1
  <2>2. CASE Len(j.path) # 1
      BY <1>2, <1>8, <1>12, <2>2 DEF Resolution
  <2> QED
      BY <2>1, <2>2
<1>15. ASSUME NEW k \in ToSet(jobs')
       PROVE  /\ GoodJob(k)
              /\ Resolves(k) => \A r \in records' : ~Within(k, r)
              /\ Resolves(k) /\ Len(k.path) # 1 =>
                   /\ \E p \in ToSet(jobs') : Places(p) /\ SameTop(p, k)
                   /\ <<k.owner, Above(k.path)>> \in Fetching'
                   /\ \E s \in records' : s.kind # "path" /\ Where(s) = <<k.owner, Above(k.path)>>
  <2>1. CASE k \in ToSet(more) /\ ~Resolves(k)
      BY <1>5, <2>1
  <2>2. CASE k \in ToSet(more) /\ Resolves(k)
    <3>1. /\ GoodJob(k) /\ k.owner = j.owner /\ k.path[1] = j.path[1]
          /\ Len(k.path) = Len(j.path) + 1
          /\ Above(k.path) = j.path /\ IsPrefix(j.path, k.path)
        BY <1>5, <2>2
    <3>2. k.path \in Path
        BY <3>1 DEF GoodJob
    <3>3. ASSUME NEW r \in records PROVE ~Within(k, r)
      <4>1. ~Within(j, r) /\ r.path \in Path
          BY <1>10 DEF Resolution, RecordsSound
      <4> QED
          BY <1>3, <3>1, <3>2, <4>1, PrefixChain DEF Within
    <3>4. ~IsPrefix(k.path, j.path)
        BY <1>3, <3>1, <3>2, PrefixOf, PathFacts
    <3>5. ~Within(k, rec)
        BY <1>4, <3>4 DEF Within
    <3>6. \E p \in ToSet(jobs') : Places(p) /\ SameTop(p, k)
        BY <1>14, <3>1 DEF SameTop
    <3>7. <<k.owner, Above(k.path)>> = at
        BY <1>6, <3>1
    <3>8. rec \in records' /\ rec.kind # "path" /\ Where(rec) = at
        BY <1>1, <1>4
    <3> QED
        BY <1>1, <1>13, <3>1, <3>3, <3>5, <3>6, <3>7, <3>8
  <2>3. CASE k \in rest
    <3>1. k \in ToSet(jobs) /\ GoodJob(k)
        BY <1>8, <1>9, <2>3
    <3>2. ASSUME Resolves(k), Len(k.path) # 1
          PROVE  /\ \E p \in ToSet(jobs') : Places(p) /\ SameTop(p, k)
                 /\ <<k.owner, Above(k.path)>> \in Fetching'
                 /\ \E s \in records' : s.kind # "path" /\ Where(s) = <<k.owner, Above(k.path)>>
        BY <1>1, <1>8, <1>12, <1>13, <3>1, <3>2 DEF Resolution
    <3> QED
        BY <1>7, <2>3, <3>1, <3>2
  <2> QED
      BY <1>12, <2>1, <2>2, <2>3
<1>16. ASSUME NEW r \in records', r.kind # "path"
       PROVE  \/ /\ Where(r) \in Fetching' /\ staged'[Where(r)] = r.contents
                 /\ \E k \in ToSet(jobs') : Places(k) /\ SameTop(k, r)
              \/ /\ Holds(trees[r.owner], r)
                 /\ \A k \in ToSet(jobs') : ~SameTop(k, r)
  <2>1. CASE r = rec
    <3>1. \E k \in ToSet(jobs') : Places(k) /\ SameTop(k, r)
        BY <1>4, <1>14, <2>1 DEF SameTop
    <3> QED
        BY <1>4, <1>13, <2>1, <3>1
  <2>2. CASE r \in records /\ Where(r) \in Fetching /\ staged[Where(r)] = r.contents
             /\ \E k \in ToSet(jobs) : Places(k) /\ SameTop(k, r)
      BY <1>7, <1>8, <1>12, <1>13, <2>2
  <2>3. CASE r \in records /\ Holds(trees[r.owner], r) /\ \A k \in ToSet(jobs) : ~SameTop(k, r)
    <3>1. \A k \in ToSet(more) : ~SameTop(k, r)
        BY <1>2, <1>5, <2>3 DEF SameTop
    <3> QED
        BY <1>8, <1>12, <2>3, <3>1
  <2>4. r \in records => \/ Where(r) \in Fetching /\ staged[Where(r)] = r.contents
                            /\ \E k \in ToSet(jobs) : Places(k) /\ SameTop(k, r)
                         \/ Holds(trees[r.owner], r) /\ \A k \in ToSet(jobs) : ~SameTop(k, r)
      BY <1>16 DEF Resolution
  <2> QED
      BY <1>1, <2>1, <2>2, <2>3, <2>4
<1>17. \A r \in records' : r.kind = "path" => MayDeclareLive(world, r.owner, r.path[1])
    BY <1>1, <1>4 DEF Resolution
<1>18. ASSUME NEW x \in Fetching'
       PROVE  /\ \A p \in Heads(x[2]) : <<x[1], p>> \in Fetching'
              /\ \E r \in records' : r.kind # "path" /\ Where(r) = x
              /\ \E k \in ToSet(jobs') : Places(k) /\ k.owner = x[1] /\ k.path[1] = x[2][1]
  <2>0. \A y \in Fetching :
          /\ \A p \in Heads(y[2]) : <<y[1], p>> \in Fetching
          /\ \E r \in records : r.kind # "path" /\ Where(r) = y
          /\ \E k \in ToSet(jobs) : Places(k) /\ k.owner = y[1] /\ k.path[1] = y[2][1]
      BY DEF Resolution
  <2>1. CASE x \in Fetching
      BY <1>1, <1>8, <1>12, <1>13, <2>0, <2>1
  <2>2. CASE x = at
    <3>1. x[1] = j.owner /\ x[2] = j.path
        BY <1>6, <2>2
    <3>2. ASSUME NEW p \in Heads(j.path) PROVE <<j.owner, p>> \in Fetching'
      <4>1. CASE p = j.path
          BY <1>6, <1>13, <4>1
      <4>2. CASE p # j.path
        <5>1. Len(j.path) # 1 /\ p \in Heads(Above(j.path))
            BY <1>3, <4>2, OneName, HeadsOf
        <5>2. <<j.owner, Above(j.path)>> \in Fetching
            BY <1>2, <5>1 DEF Resolution
        <5>3. \A q \in Heads(Above(j.path)) : <<j.owner, q>> \in Fetching
            BY <2>0, <5>2
        <5> QED
            BY <1>13, <5>1, <5>3
      <4> QED
          BY <4>1, <4>2
    <3>3. \E r \in records' : r.kind # "path" /\ Where(r) = x
        BY <1>1, <1>4, <2>2
    <3>4. \E k \in ToSet(jobs') : Places(k) /\ k.owner = x[1] /\ k.path[1] = x[2][1]
        BY <1>14, <3>1 DEF SameTop
    <3> QED
        BY <3>1, <3>2, <3>3, <3>4
  <2> QED
      BY <1>13, <2>1, <2>2
<1>19. ASSUME NEW x \in ToSet(jobs') \cup records', x.owner # Project
       PROVE  \E s \in records' : s.kind = "path" /\ s.path = <<x.owner>>
  <2>0. \A y \in ToSet(jobs) \cup records : y.owner # Project => \E s \in records : s.kind = "path" /\ s.path = <<y.owner>>
      BY DEF Resolution
  <2>1. CASE x.owner = j.owner
      BY <1>1, <1>2, <1>19, <2>0, <2>1
  <2>2. CASE x \in rest \cup records
      BY <1>1, <1>8, <1>19, <2>0, <2>2
  <2> QED
      BY <1>1, <1>4, <1>5, <1>12, <2>1, <2>2
<1>20. \A k \in ToSet(jobs') : GoodJob(k)'
    BY <1>1, <1>15, SameGood
<1> QED
    BY <1>1, <1>7, <1>12, <1>15, <1>16, <1>17, <1>18, <1>19, <1>20 DEF Resolution

\* What is left of the trees when an old package goes.
LEMMA DropTrees ==
    ASSUME Standing, DropOld, Job.owner \in Owners, Job.path \in Path
    PROVE  /\ \A o \in Owners : Closed(trees'[o])
           /\ \A r : r.owner \in Owners /\ Holds(trees[r.owner], r) /\ ~Within(Job, r)
                        => Holds(trees'[r.owner], r)
<1> DEFINE o == Job.owner
           p == Job.path
           S == {path \in DOMAIN trees[o] : IsPrefix(p, path)}
<1>1. trees' = [trees EXCEPT ![o] = Without(trees[o], S)]
    BY DEF DropOld, Destination
<1>2. trees = [x \in Owners |-> trees[x]] /\ \A x \in Owners : Closed(trees[x])
    BY DEF Standing, ChangeInv, Shapes
<1>3. trees'[o] = Without(trees[o], S) /\ \A x \in Owners : x # o => trees'[x] = trees[x]
    BY <1>1, <1>2
<1>4. Closed(Without(trees[o], S))
    BY <1>2, WithoutBeneath
<1>5. ASSUME NEW r, r.owner \in Owners, Holds(trees[r.owner], r), ~Within(Job, r)
      PROVE  Holds(trees'[r.owner], r)
  <2>1. CASE r.owner # o
      BY <1>3, <1>5, <2>1
  <2>2. CASE r.owner = o
    <3>1. r.path \notin S
        BY <1>5, <2>2 DEF Within
    <3> HIDE DEF S
    <3> QED
        BY <1>3, <1>5, <2>2, <3>1 DEF Holds, Without
  <2> QED
      BY <2>1, <2>2
<1> HIDE DEF o
<1> QED
    BY <1>2, <1>3, <1>4, <1>5

\* What the trees hold when a package has been moved into place.
LEMMA PlaceTrees ==
    ASSUME Standing, Place, Job.owner \in Owners, Job.path \in Path
    PROVE  /\ \A r : r.owner \in Owners /\ Holds(trees[r.owner], r) => Holds(trees'[r.owner], r)
           /\ \A r : Where(r) \in Checkout /\ r.owner = Job.owner /\ r.path \in Path
                        /\ staged[Where(r)] = r.contents => Holds(trees'[r.owner], r)
           /\ (\A at \in Checkout : at[2] \in Path /\ \A h \in Heads(at[2]) :
                    h \in DOMAIN trees[Job.owner] \/ <<Job.owner, h>> \in Checkout)
                => \A o \in Owners : Closed(trees'[o])
           /\ Fetching' = Fetching \ Checkout /\ \A x \in Fetching' : staged'[x] = staged[x]
<1> DEFINE o == Job.owner
           p == Job.path
           New == {at[2] : at \in Checkout}
<1>1. /\ trees' = [trees EXCEPT ![o] =
                    [path \in DOMAIN trees[o] \cup New |->
                        IF path \in DOMAIN trees[o] THEN trees[o][path] ELSE staged[<<o, path>>]]]
      /\ Destination = {} /\ staged' = Without(staged, Checkout)
    BY DEF Place
<1>2. trees = [x \in Owners |-> trees[x]] /\ \A x \in Owners : Closed(trees[x])
    BY DEF Standing, ChangeInv, Shapes
<1> HIDE DEF New
<1>3. /\ \A x \in Owners : x # o => trees'[x] = trees[x]
      /\ DOMAIN trees'[o] = DOMAIN trees[o] \cup New
      /\ \A path \in DOMAIN trees[o] : trees'[o][path] = trees[o][path]
      /\ \A path \in New : path \notin DOMAIN trees[o] => trees'[o][path] = staged[<<o, path>>]
    BY <1>1, <1>2
<1>4. \A path \in DOMAIN trees[o] : ~IsPrefix(p, path)
    BY <1>1 DEF Destination
<1>5. \A at \in Checkout : at \in Fetching /\ at[1] = o /\ IsPrefix(p, at[2]) /\ at[2] \in New
    BY DEF Checkout, New, Fetching
<1>6. \A path \in New : \E at \in Checkout : path = at[2]
    BY DEF New
<1> HIDE DEF o, p
<1>7. ASSUME NEW r, r.owner \in Owners, Holds(trees[r.owner], r)
      PROVE  Holds(trees'[r.owner], r)
    BY <1>3, <1>7 DEF Holds
<1>8. ASSUME NEW r, Where(r) \in Checkout, r.owner = o, staged[Where(r)] = r.contents
      PROVE  Holds(trees'[r.owner], r)
  <2>1. Where(r) = <<o, r.path>> /\ Where(r)[2] = r.path
      BY <1>8 DEF Where
  <2>2. r.path \in New /\ r.path \notin DOMAIN trees[o]
      BY <1>4, <1>5, <1>8, <2>1
  <2> QED
      BY <1>3, <1>8, <2>1, <2>2 DEF Holds
<1>9. ASSUME \A at \in Checkout : at[2] \in Path /\ \A h \in Heads(at[2]) :
                    h \in DOMAIN trees[o] \/ <<o, h>> \in Checkout
      PROVE  \A x \in Owners : Closed(trees'[x])
  <2>1. ASSUME NEW path \in DOMAIN trees'[o] PROVE path \in Path /\ Heads(path) \subseteq DOMAIN trees'[o]
    <3>1. CASE path \in DOMAIN trees[o]
        BY <1>2, <1>3, <3>1 DEF Closed, o
    <3>2. CASE path \in New
      <4>1. PICK at \in Checkout : path = at[2]
          BY <1>6, <3>2
      <4>2. ASSUME NEW h \in Heads(path) PROVE h \in DOMAIN trees[o] \/ h \in New
        <5>1. <<o, h>> \in Checkout => <<o, h>>[2] \in New
            BY <1>5
        <5> QED
            BY <1>9, <4>1, <5>1
      <4> QED
          BY <1>3, <1>9, <4>1, <4>2
    <3> QED
        BY <1>3, <3>1, <3>2
  <2>2. Closed(trees'[o])
      BY <2>1 DEF Closed
  <2> QED
      BY <1>2, <1>3, <2>2
<1>10. Fetching' = Fetching \ Checkout /\ \A x \in Fetching' : staged'[x] = staged[x]
    BY <1>1 DEF Fetching, Without
<1> QED
    BY <1>7, <1>8, <1>9, <1>10 DEF o

\* The old package goes; what is installed elsewhere stays.
LEMMA ResolvedDrop ==
    ASSUME Standing, world' = world, Resolution, DropOld
    PROVE  Resolution' /\ \A o \in Owners : Closed(trees'[o])
<1>1. /\ jobs # <<>> /\ Places(Job) /\ UNCHANGED <<manifest, jobs, staged, records>>
    BY DEF DropOld, Todo, work, Places
<1>2. Job \in ToSet(jobs) /\ GoodJob(Job)
    BY <1>1, AtHand
<1>3. Job.owner \in Owners /\ Job.path \in Path /\ Len(Job.path) = 1
    BY <1>1, <1>2 DEF GoodJob
<1>4. ASSUME NEW r \in records, Holds(trees[r.owner], r), \A k \in ToSet(jobs) : ~SameTop(k, r)
      PROVE  Holds(trees'[r.owner], r)
  <2>1. r.owner \in Owners /\ r.path \in Path
      BY DEF Resolution, RecordsSound
  <2>2. ~Within(Job, r)
      BY <1>2, <1>3, <1>4, <2>1, OneName DEF Within, SameTop
  <2> QED
      BY <1>3, <1>4, <2>1, <2>2, DropTrees
<1>5. \A k \in ToSet(jobs) : GoodJob(k)'
    BY <1>1, SameGood DEF Resolution
<1>6. Fetching' = Fetching
    BY <1>1 DEF Fetching
<1>7. Resolution'
    BY <1>1, <1>4, <1>5, <1>6 DEF Resolution
<1> QED
    BY <1>3, <1>7, DropTrees

\* Everything fetched for one package is moved into place with it.
LEMMA ResolvedPlace ==
    ASSUME Standing, world' = world, Resolution, Place
    PROVE  Resolution' /\ \A o \in Owners : Closed(trees'[o])
<1> DEFINE rest == ToSet(Tail(jobs))
<1>1. /\ jobs # <<>> /\ Places(Job) /\ ~Resolves(Job) /\ UNCHANGED <<manifest, records>>
      /\ jobs' = <<>> \o Tail(jobs)
    BY DEF Place, Todo, Then, Places, Resolves
<1>2. Job \in ToSet(jobs) /\ GoodJob(Job)
    BY <1>1, AtHand
<1>3. Job.owner \in Owners /\ Job.path \in Path /\ Len(Job.path) = 1
    BY <1>1, <1>2 DEF GoodJob
<1>4. /\ jobs' = Tail(jobs) /\ jobs' \in Seq(ToSet(jobs')) /\ Pairwise(jobs')
  <2> DEFINE t == Tail(jobs)
  <2>1. t \in Seq(ToSet(t)) /\ Pairwise(t)
      BY <1>1, HeadTail, PairwiseTail DEF Resolution
  <2>2. jobs' = <<>> \o t
      BY <1>1
  <2> HIDE DEF t
  <2>3. jobs' = t
      BY <2>1, <2>2, ConcatEmptySeq
  <2> QED
      BY <2>1, <2>3 DEF t
<1>5. /\ ToSet(jobs') = rest /\ rest \subseteq ToSet(jobs) /\ \A k \in ToSet(jobs) : k = Job \/ k \in rest
      /\ \A k \in rest : ~SameTop(Job, k)
    BY <1>1, <1>4, AtHand DEF Apart
<1> HIDE DEF rest
<1>6. \A at \in Fetching : \E r \in records : /\ r.kind # "path" /\ Where(r) = at
                                              /\ r.owner \in Owners /\ r.path \in Path
    BY DEF Resolution, RecordsSound
<1>7. \A at \in Fetching : at = <<at[1], at[2]>> /\ at[2] \in Path /\ at[1] \in Owners
    BY <1>6 DEF Where
<1>8. \A at : at \in Checkout <=> at \in Fetching /\ at[1] = Job.owner /\ at[2][1] = Job.path[1]
  <2> SUFFICES ASSUME NEW at, at \in Fetching
               PROVE  IsPrefix(Job.path, at[2]) <=> at[2][1] = Job.path[1]
      BY DEF Checkout, Fetching
  <2> QED
      BY <1>3, <1>7, OneName
<1>9. \A at \in Fetching : \A h \in Heads(at[2]) : <<at[1], h>> \in Fetching /\ h[1] = at[2][1]
  <2>1. \A at \in Fetching : \A h \in Heads(at[2]) : <<at[1], h>> \in Fetching
      BY DEF Resolution
  <2>2. \A at \in Fetching : \A h \in Heads(at[2]) : h[1] = at[2][1]
      BY <1>7, HeadsOf
  <2> QED
      BY <2>1, <2>2
<1>10. \A at \in Fetching : \A h \in Heads(at[2]) : <<at[1], h>> \in Checkout <=> at \in Checkout
  <2> SUFFICES ASSUME NEW at \in Fetching, NEW h \in Heads(at[2])
               PROVE  <<at[1], h>> \in Checkout <=> at \in Checkout
      OBVIOUS
  <2>1. PICK b : b = <<at[1], h>>
      OBVIOUS
  <2>2. b \in Fetching /\ b[1] = at[1] /\ b[2][1] = at[2][1]
      BY <1>9, <2>1
  <2>3. b \in Checkout <=> at \in Checkout
      BY <1>8, <2>2
  <2> QED
      BY <2>1, <2>3
<1>11. \A at \in Checkout : at[2] \in Path /\ \A h \in Heads(at[2]) : <<Job.owner, h>> \in Checkout
    BY <1>7, <1>8, <1>10
<1>12. Fetching' = Fetching \ Checkout /\ \A x \in Fetching' : staged'[x] = staged[x]
    BY <1>3, PlaceTrees
<1>13. \A o \in Owners : Closed(trees'[o])
    BY <1>3, <1>11, PlaceTrees
<1>14. ASSUME NEW k \in rest
       PROVE  /\ GoodJob(k)
              /\ Resolves(k) => \A r \in records : ~Within(k, r)
              /\ Resolves(k) /\ Len(k.path) # 1 =>
                   /\ \E p \in rest : Places(p) /\ SameTop(p, k)
                   /\ <<k.owner, Above(k.path)>> \in Fetching'
                   /\ \E s \in records : s.kind # "path" /\ Where(s) = <<k.owner, Above(k.path)>>
  <2>1. k \in ToSet(jobs) /\ ~SameTop(Job, k) /\ GoodJob(k)
      BY <1>5 DEF Resolution
  <2>2. ASSUME Resolves(k), Len(k.path) # 1
        PROVE  /\ \E p \in rest : Places(p) /\ SameTop(p, k)
               /\ <<k.owner, Above(k.path)>> \in Fetching'
               /\ \E s \in records : s.kind # "path" /\ Where(s) = <<k.owner, Above(k.path)>>
    <3>1. /\ \E p \in ToSet(jobs) : Places(p) /\ SameTop(p, k)
          /\ <<k.owner, Above(k.path)>> \in Fetching
          /\ \E s \in records : s.kind # "path" /\ Where(s) = <<k.owner, Above(k.path)>>
        BY <2>1, <2>2 DEF Resolution
    <3>2. \E p \in rest : Places(p) /\ SameTop(p, k)
        BY <1>5, <2>1, <3>1
    <3> DEFINE at == <<k.owner, Above(k.path)>>
    <3>3. at \in Fetching /\ at[1] = k.owner /\ at[2] = Above(k.path)
        BY <3>1
    <3> HIDE DEF at
    <3>4. PICK p \in ToSet(jobs) : Places(p) /\ p.owner = at[1] /\ p.path[1] = at[2][1]
        BY <3>3 DEF Resolution
    <3>5. at[2][1] = k.path[1]
      <4>1. k.path \in Path
          BY <2>1 DEF GoodJob
      <4>2. Len(k.path) - 1 \in 1..Len(k.path) /\ 1 \in 1..(Len(k.path) - 1)
        <5>1. Len(k.path) \in Nat /\ Len(k.path) >= 1
            BY <4>1, PathFacts
        <5> DEFINE n == Len(k.path)
        <5>2. n \in Nat /\ n >= 1 /\ n # 1
            BY <2>2, <5>1
        <5> HIDE DEF n
        <5>3. n - 1 \in 1..n /\ 1 \in 1..(n - 1)
            BY <5>2
        <5> QED
            BY <5>3 DEF n
      <4>3. Above(k.path)[1] = k.path[1]
          BY <4>1, <4>2, HeadOf DEF Above
      <4> QED
          BY <3>3, <4>3
    <3>6. at \notin Checkout
        BY <1>8, <2>1, <3>3, <3>5 DEF SameTop
    <3> QED
        BY <1>12, <3>1, <3>2, <3>3, <3>6 DEF at
  <2> QED
      BY <2>1, <2>2 DEF Resolution
<1>15. ASSUME NEW r \in records, r.kind # "path"
       PROVE  \/ /\ Where(r) \in Fetching' /\ staged'[Where(r)] = r.contents
                 /\ \E k \in rest : Places(k) /\ SameTop(k, r)
              \/ /\ Holds(trees'[r.owner], r)
                 /\ \A k \in rest : ~SameTop(k, r)
  <2>1. r.owner \in Owners /\ r.path \in Path /\ Where(r)[1] = r.owner /\ Where(r)[2] = r.path
      BY DEF Resolution, RecordsSound, Where
  <2>2. CASE Where(r) \in Checkout /\ staged[Where(r)] = r.contents
    <3>1. r.owner = Job.owner /\ r.path[1] = Job.path[1]
        BY <1>8, <2>1, <2>2
    <3>2. Holds(trees'[r.owner], r)
        BY <1>3, <2>1, <2>2, <3>1, PlaceTrees
    <3>3. \A k \in rest : ~SameTop(k, r)
        BY <1>5, <3>1 DEF SameTop
    <3> QED
        BY <3>2, <3>3
  <2>3. CASE /\ Where(r) \in Fetching \ Checkout /\ staged[Where(r)] = r.contents
             /\ \E k \in ToSet(jobs) : Places(k) /\ SameTop(k, r)
    <3>1. ~SameTop(Job, r)
        BY <1>8, <2>1, <2>3 DEF SameTop
    <3> QED
        BY <1>5, <1>12, <2>3, <3>1
  <2>4. CASE Holds(trees[r.owner], r) /\ \A k \in ToSet(jobs) : ~SameTop(k, r)
      BY <1>3, <1>5, <2>1, <2>4, PlaceTrees
  <2> QED
      BY <1>15, <2>2, <2>3, <2>4 DEF Resolution
<1>16. ASSUME NEW x \in Fetching'
       PROVE  /\ \A p \in Heads(x[2]) : <<x[1], p>> \in Fetching'
              /\ \E r \in records : r.kind # "path" /\ Where(r) = x
              /\ \E k \in rest : Places(k) /\ k.owner = x[1] /\ k.path[1] = x[2][1]
  <2>1. x \in Fetching /\ x \notin Checkout
      BY <1>12
  <2>2. PICK k \in ToSet(jobs) : Places(k) /\ k.owner = x[1] /\ k.path[1] = x[2][1]
      BY <2>1 DEF Resolution
  <2>3. k \in rest
      BY <1>5, <1>8, <2>1, <2>2
  <2> QED
      BY <1>6, <1>9, <1>10, <1>12, <2>1, <2>2, <2>3
<1>17. \A x \in rest \cup records : x.owner # Project => \E s \in records : s.kind = "path" /\ s.path = <<x.owner>>
    BY <1>5 DEF Resolution
<1>18. \A k \in rest : GoodJob(k)'
    BY <1>1, <1>14, SameGood
<1>19. /\ RecordsSound(records) /\ NamedBy(manifest, records)
       /\ \A r \in records : r.kind = "path" => MayDeclareLive(world, r.owner, r.path[1])
    BY DEF Resolution
<1>20. Resolution'
    BY <1>1, <1>4, <1>5, <1>14, <1>15, <1>16, <1>17, <1>18, <1>19 DEF Resolution
<1> QED
    BY <1>13, <1>20

-----------------------------------------------------------------------------
(* Locked installs.                                                        *)

\* The job at hand of a locked install, and the others.
LEMMA LockedHand ==
    ASSUME Standing, Restoration, jobs # <<>>
    PROVE  /\ Job \in ToSet(jobs)
           /\ ToSet(Tail(jobs)) \subseteq ToSet(jobs)
           /\ \A k \in ToSet(jobs) : k = Job \/ k \in ToSet(Tail(jobs))
           /\ \A k \in ToSet(Tail(jobs)) : Deeper(Job, k) /\ ~Places(k)
           /\ Tail(jobs) \in Seq(ToSet(Tail(jobs))) /\ Sorted(Tail(jobs))
           /\ \A k \in ToSet(jobs) : k.owner \in Owners /\ k.path \in Path
<1> DEFINE t == Tail(jobs)
<1>1. jobs \in Seq(ToSet(jobs)) /\ Sorted(jobs)
    BY DEF Restoration
<1>2. /\ Job \in ToSet(jobs) /\ Job = jobs[1] /\ ToSet(t) \subseteq ToSet(jobs)
      /\ ToSet(jobs) \subseteq {Job} \cup ToSet(t)
      /\ t \in Seq(ToSet(t)) /\ Len(jobs) \in Nat /\ Len(jobs) >= 1
      /\ Len(t) = Len(jobs) - 1 /\ \A i \in 1..Len(t) : t[i] = jobs[i + 1]
      /\ DOMAIN t = 1..Len(t)
    BY <1>1, HeadTail DEF Job
<1> HIDE DEF t
<1>3. \A i \in 1..Len(t) : i + 1 \in 1..Len(jobs) /\ 1 < i + 1 /\ 1 \in 1..Len(jobs)
    BY <1>2
<1>4. \A i, j \in 1..Len(t) : i < j => i + 1 < j + 1
    BY <1>2
<1>5. Sorted(t)
    BY <1>1, <1>2, <1>3, <1>4 DEF Sorted
<1>6. \A k \in ToSet(t) : Deeper(Job, k) /\ ~Places(k)
  <2> SUFFICES ASSUME NEW k \in ToSet(t) PROVE Deeper(Job, k) /\ ~Places(k)
      OBVIOUS
  <2>1. PICK i \in 1..Len(t) : k = t[i]
      BY <1>2 DEF ToSet
  <2> QED
      BY <1>1, <1>2, <1>3, <2>1 DEF Sorted
<1>7. ASSUME NEW k \in ToSet(jobs) PROVE k.owner \in Owners /\ k.path \in Path
  <2>1. PICK r \in lock.records : Where(r) = Where(k)
      BY DEF Restoration
  <2>2. r.owner = k.owner /\ r.path = k.path
      BY <2>1 DEF Where
  <2> QED
      BY <2>2 DEF Standing, LockSound, RecordsSound
<1> QED
    BY <1>2, <1>5, <1>6, <1>7 DEF t

\* The record a job is for.
LEMMA RecordOf ==
    ASSUME Standing, Restoration, NEW j \in ToSet(jobs), NEW r \in lock.records, Where(j) = Where(r)
    PROVE  r.kind = j.kind /\ r.contents = j.contents /\ r.owner = j.owner /\ r.path = j.path
<1>1. PICK s \in lock.records : Where(s) = Where(j) /\ s.kind = j.kind /\ s.contents = j.contents
    BY DEF Restoration
<1>2. s = r
    BY <1>1 DEF Standing, LockSound, RecordsSound
<1> QED
    BY <1>1, <1>2 DEF Where

\* The first job is done: its record holds.
LEMMA RestoredTail ==
    ASSUME Standing, Restoration, jobs # <<>>, jobs' = <<>> \o Tail(jobs),
           UNCHANGED <<manifest, lock>>, Fetching' = {},
           \A r \in lock.records : Holds(trees[r.owner], r) => Holds(trees'[r.owner], r),
           \A r \in lock.records : r.kind # "path" /\ Where(r) = Where(Job) => Holds(trees'[r.owner], r)
    PROVE  Restoration'
<1> DEFINE t == Tail(jobs)
<1>1. /\ Job \in ToSet(jobs) /\ ToSet(t) \subseteq ToSet(jobs)
      /\ \A k \in ToSet(jobs) : k = Job \/ k \in ToSet(t)
      /\ \A k \in ToSet(t) : Deeper(Job, k) /\ ~Places(k)
      /\ t \in Seq(ToSet(t)) /\ Sorted(t)
    BY LockedHand
<1>2. jobs' = <<>> \o t
    OBVIOUS
<1> HIDE DEF t
<1>3. jobs' = t
    BY <1>1, <1>2, ConcatEmptySeq
<1>4. ASSUME NEW r \in lock.records, r.kind # "path"
      PROVE  \/ \E j \in ToSet(t) : Where(j) = Where(r)
             \/ Holds(trees'[r.owner], r) /\ \A j \in ToSet(t) : NotAbove(j, r)
  <2>1. CASE Where(Job) = Where(r)
    <3>1. Holds(trees'[r.owner], r) /\ r.path = Job.path
        BY <1>4, <2>1 DEF Where
    <3>2. \A j \in ToSet(t) : NotAbove(j, r)
        BY <1>1, <3>1 DEF Deeper, NotAbove
    <3> QED
        BY <3>1, <3>2
  <2>2. CASE Where(Job) # Where(r)
      BY <1>1, <1>4, <2>2 DEF Restoration
  <2> QED
      BY <2>1, <2>2
<1>5. IsCurrent'
    BY DEF IsCurrent, Restoration
<1>6. \A j \in ToSet(t) :
        /\ HasFields(j) /\ "contents" \in DOMAIN j
        /\ j.do \in {"restore", "place"} /\ (Places(j) => j.kind # "path")
        /\ \E r \in lock.records : Where(r) = Where(j) /\ r.kind = j.kind /\ r.contents = j.contents
    BY <1>1 DEF Restoration
<1>7. ~(jobs' # <<>> /\ Places(Job'))
  <2> SUFFICES ASSUME t # <<>> PROVE ~Places(Job')
      BY <1>3
  <2>1. Head(t) \in ToSet(t)
      BY <1>1, HeadTail
  <2> QED
      BY <1>1, <1>3, <2>1 DEF Job
<1> QED
    BY <1>1, <1>3, <1>4, <1>5, <1>6, <1>7 DEF Restoration

\* A record that is installed as it says needs no more.
LEMMA RestoredSkip ==
    ASSUME Standing, Restoration, LockedSkip
    PROVE  Restoration'
<1>1. /\ jobs # <<>> /\ ~Places(Job) /\ jobs' = <<>> \o Tail(jobs)
      /\ UNCHANGED <<manifest, lock, trees, staged>>
    BY DEF LockedSkip, Todo, Places, Then, files
<1>2. Fetching' = {}
    BY <1>1 DEF Restoration, Fetching
<1>3. Job \in ToSet(jobs)
    BY <1>1, LockedHand
<1>4. ASSUME NEW r \in lock.records, r.kind # "path", Where(r) = Where(Job)
      PROVE  Holds(trees[r.owner], r)
  <2>1. r.kind = Job.kind /\ r.contents = Job.contents /\ r.owner = Job.owner /\ r.path = Job.path
      BY <1>3, <1>4, RecordOf
  <2>2. Verified
      BY <1>4, <2>1 DEF LockedSkip
  <2> QED
      BY <2>1, <2>2 DEF Verified, Installed, Holds
<1> QED
    BY <1>1, <1>2, <1>4, RestoredTail

\* A record's package is fetched and is the next to be put in place.
LEMMA RestoredFetch ==
    ASSUME Standing, Restoration, LockedFetch
    PROVE  Restoration'
<1> DEFINE j == Job
           k == [j EXCEPT !.do = "place"]
           t == Tail(jobs)
           c == Fetched(Name, Job.kind, Job.version)
<1>1. /\ jobs # <<>> /\ ~Places(j) /\ j.kind # "path" /\ jobs' = <<k>> \o t
      /\ UNCHANGED <<manifest, lock, trees>>
      /\ c = j.contents /\ staged' = With(staged, Where(j), c)
    BY DEF LockedFetch, Todo, Places, files, SameContents, Where
<1>2. /\ j \in ToSet(jobs) /\ ToSet(t) \subseteq ToSet(jobs)
      /\ \A x \in ToSet(jobs) : x = j \/ x \in ToSet(t)
      /\ \A x \in ToSet(t) : Deeper(j, x) /\ ~Places(x)
      /\ t \in Seq(ToSet(t)) /\ Sorted(t)
    BY <1>1, LockedHand
<1>3. HasFields(j) /\ "contents" \in DOMAIN j
      /\ \E r \in lock.records : Where(r) = Where(j) /\ r.kind = j.kind /\ r.contents = j.contents
    BY <1>2 DEF Restoration
<1>4. /\ k.do = "place" /\ HasFields(k) /\ "contents" \in DOMAIN k
      /\ k.owner = j.owner /\ k.path = j.path /\ k.kind = j.kind /\ k.contents = j.contents
    BY <1>3 DEF HasFields
<1> HIDE DEF k, c
<1>5. Fetching' = {Where(j)} /\ staged'[Where(j)] = j.contents
  <2>1. DOMAIN staged = {}
      BY <1>1 DEF Restoration, Fetching
  <2>2. DOMAIN With(staged, Where(j), c) = DOMAIN staged \cup {Where(j)}
      BY DEF With
  <2>3. With(staged, Where(j), c)[Where(j)] = c
      BY DEF With
  <2> QED
      BY <1>1, <2>1, <2>2, <2>3 DEF Fetching
<1> HIDE DEF j, t
<1> DEFINE q == <<k>>
<1>6. q \in Seq(ToSet(q)) /\ ToSet(q) = {k} /\ Len(q) = 1 /\ q[1] = k
  <2>1. q \in Seq({k}) /\ ToSet(q) = {k}
      BY DEF ToSet
  <2> QED
      BY <2>1
<1>7. jobs' = q \o t
    BY <1>1
<1> HIDE DEF q
<1>8. /\ jobs' \in Seq(ToSet(jobs')) /\ ToSet(jobs') = {k} \cup ToSet(t)
      /\ Len(jobs') = 1 + Len(t) /\ Len(t) \in Nat
      /\ \A i \in 1..Len(jobs') : \/ i = 1 /\ jobs'[i] = k
                                  \/ i > 1 /\ i - 1 \in 1..Len(t) /\ jobs'[i] = t[i - 1] /\ t[i - 1] \in ToSet(t)
  <2> DEFINE s == q \o t
  <2>1. /\ s \in Seq(ToSet(s)) /\ ToSet(s) = ToSet(q) \cup ToSet(t)
        /\ Len(s) = Len(q) + Len(t) /\ Len(t) \in Nat
        /\ \A i \in 1..Len(s) : \/ i \in 1..Len(q) /\ s[i] = q[i] /\ q[i] \in ToSet(q)
                                \/ /\ i > Len(q) /\ i - Len(q) \in 1..Len(t)
                                   /\ s[i] = t[i - Len(q)] /\ t[i - Len(q)] \in ToSet(t)
      BY <1>2, <1>6, Joined
  <2>2. jobs' = s
      BY <1>7
  <2> HIDE DEF s
  <2>3. \A i \in 1..1 : i = 1
      OBVIOUS
  <2> QED
      BY <1>6, <2>1, <2>2, <2>3
<1>9. Where(k) = Where(j)
    BY <1>4 DEF Where
<1>10. \A x \in ToSet(t) : Deeper(k, x) /\ ~Places(x)
    BY <1>2, <1>4, <1>9 DEF Deeper, NotAbove
<1>11. Sorted(jobs')
  <2> SUFFICES ASSUME NEW a \in 1..Len(jobs'), NEW b \in 1..Len(jobs'), a < b
               PROVE  Deeper(jobs'[a], jobs'[b]) /\ ~Places(jobs'[b])
      BY DEF Sorted
  <2>1. b # 1 /\ b > 1 /\ b - 1 \in 1..Len(t) /\ jobs'[b] = t[b - 1] /\ t[b - 1] \in ToSet(t)
    <3>1. b # 1
        BY <1>8
    <3> QED
        BY <1>8, <3>1
  <2>2. CASE a = 1
    <3>1. jobs'[a] = k
        BY <1>8, <2>2
    <3> QED
        BY <1>10, <2>1, <3>1
  <2>3. CASE a # 1
    <3>1. a - 1 \in 1..Len(t) /\ jobs'[a] = t[a - 1] /\ a - 1 < b - 1
        BY <1>8, <2>3
    <3> QED
        BY <1>2, <2>1, <3>1 DEF Sorted
  <2> QED
      BY <2>2, <2>3
<1>12. jobs' # <<>> /\ Job' = k
  <2>1. jobs' # <<>>
      BY <1>8, EmptySeq
  <2>2. Head(jobs') = jobs'[1] /\ 1 \in 1..Len(jobs')
      BY <1>8, <2>1, HeadTail
  <2> QED
      BY <1>8, <2>1, <2>2 DEF Job
<1>13. \A x \in ToSet(jobs') :
        /\ HasFields(x) /\ "contents" \in DOMAIN x
        /\ x.do \in {"restore", "place"} /\ (Places(x) => x.kind # "path")
        /\ \E r \in lock.records : Where(r) = Where(x) /\ r.kind = x.kind /\ r.contents = x.contents
  <2>1. \A x \in ToSet(t) :
        /\ HasFields(x) /\ "contents" \in DOMAIN x
        /\ x.do \in {"restore", "place"} /\ (Places(x) => x.kind # "path")
        /\ \E r \in lock.records : Where(r) = Where(x) /\ r.kind = x.kind /\ r.contents = x.contents
      BY <1>2 DEF Restoration
  <2> QED
      BY <1>1, <1>3, <1>4, <1>8, <1>9, <2>1
<1>14. \A r \in lock.records : r.kind # "path" =>
        \/ \E x \in ToSet(jobs') : Where(x) = Where(r)
        \/ Holds(trees[r.owner], r) /\ \A x \in ToSet(jobs') : NotAbove(x, r)
  <2> SUFFICES ASSUME NEW r \in lock.records, r.kind # "path", \A x \in ToSet(jobs') : Where(x) # Where(r)
               PROVE  Holds(trees[r.owner], r) /\ \A x \in ToSet(jobs') : NotAbove(x, r)
      OBVIOUS
  <2>1. \A x \in ToSet(jobs) : Where(x) # Where(r)
      BY <1>2, <1>8, <1>9
  <2>2. Holds(trees[r.owner], r) /\ \A x \in ToSet(jobs) : NotAbove(x, r)
      BY <2>1 DEF Restoration
  <2>3. NotAbove(k, r)
      BY <1>2, <1>4, <2>2 DEF NotAbove
  <2> QED
      BY <1>2, <1>8, <2>2, <2>3
<1>15. IsCurrent'
    BY <1>1 DEF IsCurrent, Restoration
<1>16. Places(k)
    BY <1>4 DEF Places
<1> QED
    BY <1>1, <1>4, <1>5, <1>8, <1>9, <1>11, <1>12, <1>13, <1>14, <1>15, <1>16 DEF Restoration

\* Dropping an old package takes nothing that is not restored afterwards:
\* the jobs left are at least as deep as all that holds.
LEMMA RestoredDrop ==
    ASSUME Standing, Restoration, DropOld
    PROVE  Restoration' /\ \A o \in Owners : Closed(trees'[o])
<1>1. /\ jobs # <<>> /\ UNCHANGED <<manifest, lock, jobs, staged>>
    BY DEF DropOld, Todo, work
<1>2. Job \in ToSet(jobs) /\ Job.owner \in Owners /\ Job.path \in Path
    BY <1>1, LockedHand
<1>3. \A o \in Owners : Closed(trees'[o])
    BY <1>2, DropTrees
<1>4. ASSUME NEW r \in lock.records, r.kind # "path"
      PROVE  \/ \E j \in ToSet(jobs) : Where(j) = Where(r)
             \/ Holds(trees'[r.owner], r) /\ \A j \in ToSet(jobs) : NotAbove(j, r)
  <2>1. r.owner \in Owners /\ r.path \in Path
      BY DEF Standing, LockSound, RecordsSound
  <2>2. CASE \E j \in ToSet(jobs) : Where(j) = Where(r)
      BY <2>2
  <2>3. CASE /\ Holds(trees[r.owner], r) /\ \A j \in ToSet(jobs) : NotAbove(j, r)
             /\ Where(Job) # Where(r)
    <3>1. ~Within(Job, r)
      <4> SUFFICES ASSUME Job.owner = r.owner, IsPrefix(Job.path, r.path) PROVE FALSE
          BY DEF Within
      <4>1. Len(r.path) <= Len(Job.path)
          BY <1>2, <2>3 DEF NotAbove
      <4>2. /\ Len(Job.path) <= Len(r.path)
            /\ \A i \in 1..Len(Job.path) : Job.path[i] = r.path[i]
          BY <1>2, <2>1, PrefixOf
      <4>3. Len(Job.path) \in Nat /\ Len(r.path) \in Nat
          BY <1>2, <2>1, PathFacts
      <4>4. Job.path = r.path
          BY <1>2, <2>1, <4>1, <4>2, <4>3, SamePath
      <4> QED
          BY <2>3, <4>4 DEF Where
    <3> QED
        BY <1>2, <2>1, <2>3, <3>1, DropTrees
  <2> QED
      BY <1>2, <1>4, <2>2, <2>3 DEF Restoration
<1>5. Fetching' = Fetching /\ IsCurrent' = IsCurrent /\ Job' = Job
    BY <1>1 DEF Fetching, IsCurrent, Job
<1>6. \A j \in ToSet(jobs) :
        /\ HasFields(j) /\ "contents" \in DOMAIN j
        /\ j.do \in {"restore", "place"} /\ (Places(j) => j.kind # "path")
        /\ \E r \in lock.records : Where(r) = Where(j) /\ r.kind = j.kind /\ r.contents = j.contents
    BY DEF Restoration
<1>7. jobs \in Seq(ToSet(jobs)) /\ Sorted(jobs) /\ IsCurrent
    BY DEF Restoration
<1>8. IF jobs # <<>> /\ Places(Job)
      THEN Fetching = {Where(Job)} /\ staged[Where(Job)] = Job.contents
      ELSE Fetching = {}
    BY DEF Restoration
<1>9. Restoration'
    BY <1>1, <1>4, <1>5, <1>6, <1>7, <1>8 DEF Restoration
<1> QED
    BY <1>3, <1>9

\* A restored package is there, beneath packages that are.
LEMMA RestoredPlace ==
    ASSUME Standing, Restoration, Place
    PROVE  Restoration' /\ \A o \in Owners : Closed(trees'[o])
<1>1. /\ jobs # <<>> /\ Places(Job) /\ UNCHANGED <<manifest, lock>>
      /\ jobs' = <<>> \o Tail(jobs)
    BY DEF Place, Todo, Then, Places
<1>2. Job \in ToSet(jobs) /\ Job.owner \in Owners /\ Job.path \in Path
    BY <1>1, LockedHand
<1>3. Fetching = {Where(Job)} /\ staged[Where(Job)] = Job.contents
    BY <1>1 DEF Restoration
<1>4. Where(Job) = <<Job.owner, Job.path>> /\ Where(Job)[1] = Job.owner /\ Where(Job)[2] = Job.path
    BY DEF Where
<1>5. Checkout = {Where(Job)}
    BY <1>2, <1>3, <1>4, PrefixSelf DEF Checkout, Fetching
<1>6. Fetching' = {}
    BY <1>2, <1>3, <1>5, PlaceTrees
<1>7. \A r \in lock.records : r.owner \in Owners /\ r.path \in Path
    BY DEF Standing, LockSound, RecordsSound
<1>8. \A r \in lock.records : Holds(trees[r.owner], r) => Holds(trees'[r.owner], r)
    BY <1>2, <1>7, PlaceTrees
<1>9. ASSUME NEW r \in lock.records, r.kind # "path", Where(r) = Where(Job)
      PROVE  Holds(trees'[r.owner], r)
  <2>1. r.contents = Job.contents /\ r.owner = Job.owner
      BY <1>2, <1>9, RecordOf
  <2>2. Where(r) \in Checkout /\ staged[Where(r)] = r.contents
      BY <1>3, <1>5, <1>9, <2>1
  <2> QED
      BY <1>2, <1>7, <2>1, <2>2, PlaceTrees
<1>10. Restoration'
    BY <1>1, <1>6, <1>8, <1>9, RestoredTail
<1>11. ASSUME NEW h \in Heads(Job.path)
       PROVE  h \in DOMAIN trees[Job.owner] \/ <<Job.owner, h>> \in Checkout
  <2>1. CASE h = Job.path
      BY <1>4, <1>5, <2>1
  <2>2. CASE h # Job.path
    <3>1. PICK r \in lock.records : Where(r) = Where(Job) /\ r.kind = Job.kind
        BY <1>2 DEF Restoration
    <3>2. r.owner = Job.owner /\ r.path = Job.path /\ r.kind # "path"
      <4>1. Job.kind # "path"
          BY <1>1, <1>2 DEF Restoration
      <4> QED
          BY <3>1, <4>1 DEF Where
    <3>3. PICK s \in lock.records : Where(s) = <<r.owner, h>> /\ (s.kind = "path" <=> r.kind = "path")
        BY <3>2 DEF Standing, LockSound, RecordsSound
    <3>4. s.owner = Job.owner /\ s.path = h /\ s.kind # "path"
        BY <3>2, <3>3 DEF Where
    <3>5. \A j \in ToSet(jobs) : Where(j) # Where(s)
      <4> SUFFICES ASSUME NEW j \in ToSet(jobs), Where(j) = Where(s) PROVE FALSE
          OBVIOUS
      <4>1. j.path = h
          BY <3>4 DEF Where
      <4>2. j # Job
          BY <2>2, <4>1
      <4>3. Len(Job.path) <= Len(h)
          BY <1>1, <4>1, <4>2, LockedHand DEF Deeper, NotAbove
      <4>4. h \in Path /\ IsPrefix(h, Job.path) /\ (Len(h) = Len(Job.path) => h = Job.path)
          BY <1>2, HeadsOf
      <4>5. Len(h) <= Len(Job.path) /\ Len(h) \in Nat /\ Len(Job.path) \in Nat
          BY <1>2, <4>4, PrefixOf, PathFacts
      <4> QED
          BY <2>2, <4>3, <4>4, <4>5
    <3>6. Holds(trees[s.owner], s)
        BY <3>4, <3>5 DEF Restoration
    <3> QED
        BY <3>4, <3>6 DEF Holds
  <2> QED
      BY <2>1, <2>2
<1>12. \A at \in Checkout : at[2] \in Path /\ \A h \in Heads(at[2]) :
            h \in DOMAIN trees[Job.owner] \/ <<Job.owner, h>> \in Checkout
    BY <1>2, <1>4, <1>5, <1>11
<1>13. \A o \in Owners : Closed(trees'[o])
    BY <1>2, <1>12, PlaceTrees
<1> QED
    BY <1>10, <1>13

\* A locked install begins with a job for every record.
LEMMA RestoredStart ==
    ASSUME Standing, LockedInstall, phase' = "install"
    PROVE  Restoration'
<1>1. /\ IsCurrent /\ UNCHANGED <<manifest, lock, trees>> /\ staged' = Nothing
      /\ \E order \in LockedOrders : jobs' = [i \in DOMAIN order |-> RestoreJob(order[i])]
  <2>1. phase = "idle"
      BY DEF LockedInstall, Begin
  <2> QED
      BY <2>1 DEF LockedInstall, Begin, files
<1>2. PICK order \in LockedOrders : jobs' = [i \in DOMAIN order |-> RestoreJob(order[i])]
    BY <1>1
<1> DEFINE n == Cardinality(lock.records)
           R == lock.records
<1>3. n \in Nat /\ \A r, s \in R : Where(r) = Where(s) => r = s
    BY FS_CardinalityType DEF Standing, LockSound, RecordsSound
<1>4. /\ order \in [1..n -> R] /\ IsInjective(order) /\ ToSet(order) = R
      /\ \A i, j \in DOMAIN order : i < j => ~ShallowFirst(order[j], order[i])
    BY DEF LockedOrders
<1> HIDE DEF n
<1>5. \A r \in R : r.owner \in Owners /\ r.path \in Path /\ Len(r.path) \in Nat
    BY PathFacts DEF Standing, LockSound, RecordsSound
<1>6. \A r : LET j == RestoreJob(r)
             IN  /\ Where(j) = Where(r) /\ j.path = r.path /\ j.kind = r.kind /\ j.contents = r.contents
                 /\ HasFields(j) /\ "contents" \in DOMAIN j /\ j.do = "restore"
    BY DEF RestoreJob, Where, HasFields
<1>7. DOMAIN order = 1..n /\ \A i \in 1..n : order[i] \in R
    BY <1>4
<1>8. \A i, j \in 1..n : i # j => order[i] # order[j]
    BY <1>4, <1>7 DEF IsInjective
<1> DEFINE J(r) == RestoreJob(r)
<1>9. jobs' = [i \in 1..n |-> J(order[i])]
    BY <1>2, <1>7
<1>10. \A r : Where(J(r)) = Where(r) /\ J(r).path = r.path /\ J(r).kind = r.kind /\ J(r).contents = r.contents
              /\ HasFields(J(r)) /\ "contents" \in DOMAIN J(r) /\ J(r).do = "restore"
    BY <1>6
<1> HIDE DEF J
<1> DEFINE q == [i \in 1..n |-> J(order[i])]
<1>11. DOMAIN q = 1..n /\ \A i \in 1..n : q[i] = J(order[i])
    OBVIOUS
<1>12. q \in Seq(ToSet(q)) /\ Len(q) = n
  <2>1. ToSet(q) = {q[i] : i \in 1..n}
      BY <1>11 DEF ToSet
  <2>2. q \in [1..n -> ToSet(q)]
      BY <2>1
  <2>3. q \in Seq(ToSet(q))
      BY <1>3, <2>2, SeqDef
  <2> QED
      BY <1>3, <1>11, <2>3, LenProperties
<1>13. \A j \in ToSet(q) : \E i \in 1..n : j = J(order[i])
    BY <1>11 DEF ToSet
<1>14. \A i \in 1..n : J(order[i]) \in ToSet(q)
    BY <1>11 DEF ToSet
<1> HIDE DEF q
<1>15. Sorted(q)
  <2> SUFFICES ASSUME NEW i \in 1..n, NEW j \in 1..n, i < j
               PROVE  Deeper(q[i], q[j]) /\ ~Places(q[j])
      BY <1>12 DEF Sorted
  <2>1. ~ShallowFirst(order[j], order[i])
      BY <1>4, <1>7
  <2>2. order[i] \in R /\ order[j] \in R /\ order[i] # order[j]
      BY <1>3, <1>7, <1>8
  <2>3. Len(order[i].path) <= Len(order[j].path)
      BY <1>5, <2>1, <2>2 DEF ShallowFirst
  <2>4. Where(order[i]) # Where(order[j])
      BY <1>3, <2>2
  <2>5. q[i] = J(order[i]) /\ q[j] = J(order[j])
      BY <1>11
  <2>6. Deeper(q[i], q[j])
      BY <1>10, <2>3, <2>4, <2>5 DEF Deeper, NotAbove
  <2>7. q[j].do = "restore"
      BY <1>10, <2>5
  <2> QED
      BY <2>6, <2>7 DEF Places
<1>16. \A j \in ToSet(q) :
        /\ HasFields(j) /\ "contents" \in DOMAIN j
        /\ j.do \in {"restore", "place"} /\ ~Places(j)
        /\ \E r \in R : Where(r) = Where(j) /\ r.kind = j.kind /\ r.contents = j.contents
  <2> SUFFICES ASSUME NEW i \in 1..n, NEW j, j = J(order[i])
               PROVE  /\ HasFields(j) /\ "contents" \in DOMAIN j
                      /\ j.do \in {"restore", "place"} /\ ~Places(j)
                      /\ \E r \in R : Where(r) = Where(j) /\ r.kind = j.kind /\ r.contents = j.contents
      BY <1>13
  <2> QED
      BY <1>7, <1>10 DEF Places
<1>17. \A r \in R : \E j \in ToSet(q) : Where(j) = Where(r)
  <2> SUFFICES ASSUME NEW r \in R PROVE \E j \in ToSet(q) : Where(j) = Where(r)
      OBVIOUS
  <2>1. PICK i \in 1..n : r = order[i]
      BY <1>4, <1>7 DEF ToSet
  <2> QED
      BY <1>10, <1>14, <2>1
<1>18. jobs' = q
    BY <1>9 DEF q
<1>19. Fetching' = {}
    BY <1>1, NothingClosed DEF Fetching
<1>20. IsCurrent'
    BY <1>1 DEF IsCurrent
<1>21. ~(jobs' # <<>> /\ Places(Job'))
  <2> SUFFICES ASSUME q # <<>> PROVE ~Places(Job')
      BY <1>18
  <2>1. Head(q) \in ToSet(q)
      BY <1>12, HeadTail
  <2> QED
      BY <1>16, <1>18, <2>1 DEF Job
<1>22. lock'.records = R
    BY <1>1
<1> QED
    BY <1>12, <1>15, <1>16, <1>17, <1>18, <1>19, <1>20, <1>21, <1>22 DEF Restoration

-----------------------------------------------------------------------------
(* One step of an installation, and how commands begin.                    *)

\* The same of the next state.
LEMMA TypesThen == Standing' => TypeOK'
<1>1. Standing => TypeOK
    BY StandingTypes
<1> QED
    BY <1>1, PTL

\* What the invariant needs when no command works.
LEMMA Resting ==
    ASSUME Standing', phase' \notin {"install", "prune"}, DoneIsReproducible'
    PROVE  InstallInv'
<1>3. InstalledAsLocked'
    BY TypesThen DEF InstalledAsLocked
<1> QED
    BY <1>3 DEF InstallInv, Resolving, Restoring

\* And when one does.
LEMMA Working ==
    ASSUME Standing', phase' \in {"install", "prune"},
           Resolving' => Resolution', Restoring' => Restoration', phase' = "prune" => Pruning'
    PROVE  InstallInv'
<1>3. InstalledAsLocked'
    BY TypesThen DEF InstalledAsLocked, DoneIsReproducible
<1> QED
    BY <1>3 DEF InstallInv

\* Which jobs an install has.
LEMMA WhichJobs ==
    ASSUME InstallInv, phase = "install", jobs # <<>>
    PROVE  /\ command.op # "locked" => Job.do # "restore"
           /\ command.op = "locked" => Job.do # "resolve"
<1>1. CASE command.op # "locked"
  <2>1. Resolution
      BY <1>1 DEF InstallInv, Resolving
  <2> QED
      BY <1>1, <2>1, AtHand DEF GoodJob
<1>2. CASE command.op = "locked"
  <2>1. Restoration /\ Standing
      BY <1>2 DEF InstallInv, Restoring
  <2> QED
      BY <1>2, <2>1, LockedHand DEF Restoration
<1> QED
    BY <1>1, <1>2

\* A step of an installation that resolves, or of a locked one.
LEMMA JobStep ==
    ASSUME LiveAboveManaged, LiveNeededOnce, InstallInv, world' = world, ChangeInv',
           ResolvePath \/ ResolveManaged \/ DropOld \/ Place \/ LockedSkip \/ LockedFetch
    PROVE  InstallInv'
<1>1. Standing /\ world \in Worlds /\ \A o \in Owners : Closed(trees[o])
    BY DEF InstallInv, Standing, ChangeInv, Shapes
<1>2. /\ phase = "install" /\ phase' = phase /\ command' = command /\ jobs # <<>>
      /\ UNCHANGED <<manifest, lock, before, command, source>>
    BY DEF ResolvePath, ResolveManaged, DropOld, Place, LockedSkip, LockedFetch, Todo, files
<1>3. CASE command.op # "locked"
  <2>1. Resolution /\ Job.do # "restore"
      BY <1>2, <1>3, WhichJobs DEF InstallInv, Resolving
  <2>2. ~LockedSkip /\ ~LockedFetch
      BY <2>1 DEF LockedSkip, LockedFetch, Todo
  <2>5. Resolution' /\ \A o \in Owners : Closed(trees'[o])
    <3>1. CASE ResolvePath \/ ResolveManaged
      <4>1. trees' = trees
          BY <3>1 DEF ResolvePath, ResolveManaged, files
      <4> QED
          BY <1>1, <2>1, <3>1, <4>1, LiveStep, ManagedStep
    <3>2. CASE DropOld \/ Place
        BY <1>1, <2>1, <3>2, ResolvedDrop, ResolvedPlace
    <3> QED
        BY <2>2, <3>1, <3>2
  <2>6. Standing'
      BY <1>1, <1>2, <2>5, StandingWork
  <2> QED
      BY <1>2, <1>3, <2>5, <2>6, Working DEF Restoring
<1>4. CASE command.op = "locked"
  <2>1. Restoration /\ Job.do # "resolve"
      BY <1>2, <1>4, WhichJobs DEF InstallInv, Restoring
  <2>2. ~ResolvePath /\ ~ResolveManaged
      BY <2>1 DEF ResolvePath, ResolveManaged, Todo
  <2>3. Restoration' /\ \A o \in Owners : Closed(trees'[o])
    <3>1. CASE LockedSkip \/ LockedFetch
      <4>1. trees' = trees
          BY <3>1 DEF LockedSkip, LockedFetch, files
      <4> QED
          BY <1>1, <2>1, <3>1, <4>1, RestoredSkip, RestoredFetch
    <3>2. CASE DropOld \/ Place
        BY <1>1, <2>1, <3>2, RestoredDrop, RestoredPlace
    <3> QED
        BY <2>2, <3>1, <3>2
  <2>4. Standing'
      BY <1>1, <1>2, <2>3, StandingWork
  <2> QED
      BY <1>2, <1>4, <2>3, <2>4, Working DEF Resolving
<1> QED
    BY <1>3, <1>4

-----------------------------------------------------------------------------
\* install.
LEMMA InstallBegins ==
    ASSUME InstallInv, world' = world, ChangeInv', Install
    PROVE  InstallInv'
<1>1. /\ phase = "idle" /\ phase' = "install" /\ jobs' = ProjectJobs(manifest)
      /\ command' = [op |-> "install", update |-> Nothing, removed |-> None]
      /\ before' = Snapshot /\ records' = {} /\ staged' = Nothing
      /\ UNCHANGED <<manifest, lock, trees, source>>
    BY DEF Install, Begin, files
<1>2. command'.op = "install" /\ command'.removed = None
    BY <1>1
<1>3. /\ Standing /\ ManifestSound(manifest) /\ world \in Worlds /\ LockSound(lock)
      /\ \A o \in Owners : Closed(trees[o])
      /\ source \in [Packages -> [version : Nat, edit : Nat]]
    BY DEF InstallInv, Standing, ChangeInv, Shapes
<1>4. ~Changing'
    BY <1>2 DEF Changing
<1>5. Standing'
    BY <1>1, <1>2, <1>3, <1>4, StandingStep
<1>6. ManifestSound(manifest)'
    BY <1>1, <1>3, SameDeclarations
<1>7. Begun'
    BY <1>1, <1>3, <1>6 DEF Begun, ProjectJobs, Jobs
<1>8. Resolution'
    BY <1>7, BegunThen
<1> QED
    BY <1>1, <1>2, <1>5, <1>8, Working DEF Restoring

\* install --locked.
LEMMA LockedBegins ==
    ASSUME InstallInv, world' = world, ChangeInv', LockedInstall
    PROVE  InstallInv'
<1>1. /\ phase = "idle" /\ jobs = <<>>
      /\ command' = [op |-> "locked", update |-> Nothing, removed |-> None]
      /\ before' = Snapshot /\ staged' = Nothing
      /\ UNCHANGED <<manifest, lock, trees, source>>
      /\ \/ phase' = "install"
         \/ phase' = "idle" /\ jobs' = jobs /\ outcome' = "failed"
    BY DEF LockedInstall, Begin, files, InstallInv, Standing
<1>2. command'.op = "locked" /\ command'.removed = None
    BY <1>1
<1>3. /\ Standing /\ ManifestSound(manifest) /\ LockSound(lock)
      /\ \A o \in Owners : Closed(trees[o])
      /\ source \in [Packages -> [version : Nat, edit : Nat]]
    BY DEF InstallInv, Standing
<1>4. ~Changing'
    BY <1>2 DEF Changing
<1>5. Standing'
    BY <1>1, <1>2, <1>3, <1>4, StandingStep
<1>6. CASE phase' = "install"
    BY <1>2, <1>3, <1>5, <1>6, RestoredStart, Working DEF Resolving
<1>7. CASE phase' = "idle" /\ outcome' = "failed"
    BY <1>5, <1>7, Resting DEF DoneIsReproducible
<1> QED
    BY <1>1, <1>6, <1>7

\* A change begins, or fails over the live packages it names.
LEMMA ChangeBegins ==
    ASSUME InstallInv, world' = world, ChangeInv', Change
    PROVE  InstallInv'
<1>1. PICK cmd \in Updates :
        /\ Begin(cmd)
        /\ \/ outcome' = "failed" /\ UNCHANGED <<phase, jobs, journal>>
           \/ phase' = "write" /\ UNCHANGED <<jobs, outcome>>
    BY DEF Change
<1>2. /\ Standing /\ ManifestSound(manifest) /\ LockSound(lock)
      /\ \A o \in Owners : Closed(trees[o])
      /\ source \in [Packages -> [version : Nat, edit : Nat]]
      /\ phase = "idle" => jobs = <<>>
    BY DEF InstallInv, Standing
<1>3. /\ phase = "idle" /\ command' = cmd /\ before' = Snapshot
      /\ records' = {} /\ staged' = Nothing
      /\ UNCHANGED <<manifest, lock, trees, source>>
      /\ \/ phase' = "idle" /\ jobs' = <<>> /\ outcome' = "failed"
         \/ phase' = "write"
    BY <1>1, <1>2 DEF Begin, files
<1>4. /\ ManifestSound(cmd.update) /\ cmd.op = "change"
      /\ cmd.removed # None => cmd.removed \notin DOMAIN cmd.update
    BY <1>2, UpdatesAreDeclared
<1>5. Standing'
    BY <1>2, <1>3, <1>4, StandingStep
<1> QED
    BY <1>3, <1>5, Resting DEF DoneIsReproducible

\* A change has written its manifest and installs it.
LEMMA ChangeInstalls ==
    ASSUME InstallInv, world' = world, ChangeInv', WriteManifest
    PROVE  InstallInv'
<1>1. /\ phase = "write" /\ phase' = "install" /\ manifest' = command.update
      /\ jobs' = ProjectJobs(manifest')
      /\ UNCHANGED <<lock, trees, source, command, staged, records, before>>
    BY DEF WriteManifest
<1>2. /\ Standing /\ LockSound(lock) /\ world \in Worlds
      /\ \A o \in Owners : Closed(trees[o])
      /\ source \in [Packages -> [version : Nat, edit : Nat]]
      /\ records = {} /\ staged = Nothing /\ command.op = "change" /\ Changing
    BY <1>1 DEF InstallInv, Standing, ChangeInv, Shapes, Changing
<1>3. /\ ManifestSound(command.update)
      /\ command.removed # None => command.removed \notin DOMAIN command.update
    BY <1>2 DEF Standing
<1>4. Standing'
    BY <1>1, <1>2, <1>3, StandingStep
<1>5. ManifestSound(manifest)'
    BY <1>4 DEF Standing
<1>6. Begun'
    BY <1>1, <1>2, <1>5 DEF Begun, ProjectJobs, Jobs
<1>7. Resolution'
    BY <1>6, BegunThen
<1> QED
    BY <1>1, <1>2, <1>4, <1>7, Working DEF Restoring

-----------------------------------------------------------------------------
(* How commands end.                                                       *)

\* No job is left.
LEMMA NothingLeft == ToSet(<<>>) = {}
BY RangeEmpty

\* The new lock is that of the manifest, and all it records is in place.
LEMMA LockWritten ==
    ASSUME InstallInv, world' = world, ChangeInv', WriteLock
    PROVE  InstallInv'
<1> DEFINE new == [direct |-> manifest, records |-> records, exists |-> TRUE]
<1>1. /\ phase = "install" /\ jobs = <<>> /\ command.op # "locked"
      /\ lock' = new
      /\ UNCHANGED <<manifest, trees, source, command, before>>
      /\ IF command.removed = None
         THEN phase' = "idle" /\ outcome' = "done" /\ jobs' = <<>> /\ staged' = Nothing
         ELSE phase' = "prune"
    BY DEF WriteLock, End
<1>2. new.direct = manifest /\ new.records = records /\ new.exists
    OBVIOUS
<1> HIDE DEF new
<1>3. /\ Standing /\ Resolution /\ ManifestSound(manifest)
      /\ \A o \in Owners : Closed(trees[o])
      /\ source \in [Packages -> [version : Nat, edit : Nat]]
      /\ command.op # "change" => command.removed = None
    BY <1>1 DEF InstallInv, Resolving, Standing
<1>4. LockSound(lock')
    BY <1>1, <1>2, <1>3 DEF LockSound, Resolution
<1>5. ToSet(jobs) = {}
    BY <1>1, NothingLeft
<1>6. \A r \in records : r.kind # "path" => Holds(trees[r.owner], r)
    BY <1>3, <1>5 DEF Resolution
<1>7. IsCurrent'
    BY <1>1, <1>2 DEF IsCurrent
<1>8. \A r \in lock'.records : r.kind # "path" => Holds(trees'[r.owner], r)
    BY <1>1, <1>2, <1>6
<1>9. CASE command.removed = None
  <2>1. Standing'
      BY <1>1, <1>3, <1>4, <1>9, StandingEnd
  <2>2. DoneIsReproducible'
      BY <1>7, <1>8 DEF DoneIsReproducible, Installed, Holds
  <2> QED
      BY <1>1, <1>9, <2>1, <2>2, Resting
<1>10. CASE command.removed # None
  <2>1. Changing' => /\ ManifestSound(command'.update)
                     /\ command'.removed # None => command'.removed \notin DOMAIN command'.update
      BY <1>1, <1>3, <1>10 DEF Standing, Changing
  <2>2. Standing'
      BY <1>1, <1>3, <1>4, <1>10, <2>1, StandingStep
  <2>3. Pruning'
      BY <1>1, <1>3, <1>7, <1>8, <1>10 DEF Pruning
  <2> QED
      BY <1>1, <1>10, <2>2, <2>3, Working DEF Resolving, Restoring
<1> QED
    BY <1>9, <1>10

\* A locked install is done: every record of the lock holds.
LEMMA LockedEnds ==
    ASSUME InstallInv, world' = world, ChangeInv', LockedDone
    PROVE  InstallInv'
<1>1. /\ phase = "install" /\ jobs = <<>> /\ command.op = "locked"
      /\ phase' = "idle" /\ jobs' = <<>> /\ staged' = Nothing
      /\ UNCHANGED <<manifest, lock, trees, source, before>>
    BY DEF LockedDone, End, files
<1>2. /\ Standing /\ Restoration /\ LockSound(lock) /\ \A o \in Owners : Closed(trees[o])
    BY <1>1 DEF InstallInv, Restoring, Standing
<1>3. Standing'
    BY <1>1, <1>2, StandingEnd
<1>4. ToSet(jobs) = {}
    BY <1>1, NothingLeft
<1>5. IsCurrent /\ \A r \in lock.records : r.kind # "path" => Holds(trees[r.owner], r)
    BY <1>2, <1>4 DEF Restoration
<1>6. DoneIsReproducible'
    BY <1>1, <1>5 DEF DoneIsReproducible, IsCurrent, Installed, Holds
<1> QED
    BY <1>1, <1>3, <1>6, Resting

\* What the lock records is not what is removed.
LEMMA PruneEnds ==
    ASSUME InstallInv, world' = world, ChangeInv', Prune
    PROVE  InstallInv'
<1> DEFINE x == command.removed
           S == Under(trees[Project], x)
<1>1. /\ phase = "prune" /\ phase' = "idle" /\ jobs' = <<>> /\ staged' = Nothing
      /\ trees' = [trees EXCEPT ![Project] = Without(trees[Project], S)]
      /\ UNCHANGED <<manifest, lock, source, before>>
    BY DEF Prune, End
<1>2. /\ Standing /\ Pruning /\ LockSound(lock) /\ ChangeInv
      /\ trees = [o \in Owners |-> trees[o]] /\ \A o \in Owners : Closed(trees[o])
    BY <1>1 DEF InstallInv, Standing, ChangeInv, Shapes
<1>3. Project \in Owners
    BY DEF Owners
<1>4. /\ trees'[Project] = Without(trees[Project], S)
      /\ \A o \in Owners : o # Project => trees'[o] = trees[o]
    BY <1>1, <1>2, <1>3
<1>5. Closed(Without(trees[Project], S))
    BY <1>2, <1>3, WithoutName
<1>6. \A o \in Owners : Closed(trees'[o])
    BY <1>2, <1>4, <1>5
<1>7. Standing'
    BY <1>1, <1>2, <1>6, StandingEnd
<1>8. IsCurrent /\ \A r \in lock.records : r.kind # "path" => Holds(trees[r.owner], r)
    BY <1>2 DEF Pruning
<1>9. x \notin DOMAIN manifest
  <2>1. Changing /\ x # None
      BY <1>1, <1>2 DEF Changing, Pruning
  <2>2. manifest = command.update
      BY <1>1, <1>2, <2>1 DEF ChangeInv, Phases
  <2> QED
      BY <1>2, <2>1, <2>2 DEF Standing
<1>10. ASSUME NEW r \in lock.records, r.kind # "path"
       PROVE  Holds(trees'[r.owner], r)
  <2>1. Holds(trees[r.owner], r) /\ r.owner \in Owners
      BY <1>2, <1>8, <1>10 DEF LockSound, RecordsSound
  <2>2. CASE r.owner # Project
      BY <1>4, <2>1, <2>2
  <2>3. CASE r.owner = Project
    <3>1. r.path[1] \in DOMAIN manifest
        BY <1>2, <1>8, <2>3 DEF LockSound, NamedBy, IsCurrent
    <3>2. r.path \notin S
        BY <1>9, <3>1 DEF Under
    <3> HIDE DEF S
    <3> QED
        BY <1>4, <2>1, <2>3, <3>2 DEF Holds, Without
  <2> QED
      BY <2>2, <2>3
<1>11. DoneIsReproducible'
    BY <1>1, <1>8, <1>10 DEF DoneIsReproducible, IsCurrent, Installed, Holds
<1> QED
    BY <1>1, <1>7, <1>11, Resting

\* A command that ends otherwise.
LEMMA OtherEnds ==
    ASSUME InstallInv, world' = world, ChangeInv', phase' = "idle", outcome' # "done",
           jobs' = <<>>, staged' = Nothing,
           UNCHANGED <<files, source, before>>
    PROVE  InstallInv'
<1>1. /\ Standing /\ LockSound(lock) /\ \A o \in Owners : Closed(trees[o])
      /\ UNCHANGED <<manifest, lock, trees>>
    BY DEF InstallInv, Standing, files
<1>2. Standing'
    BY <1>1, StandingEnd
<1> QED
    BY <1>2, Resting DEF DoneIsReproducible

-----------------------------------------------------------------------------
(* Failure and what is undone.                                             *)

\* A step of a change outside the installation.
LEMMA ChangeGoesOn ==
    ASSUME InstallInv, world' = world, ChangeInv', Changing,
           phase' \in {"undoManifest", "undoLock", "undoTrees"},
           UNCHANGED <<command, source, before>>,
           ManifestSound(manifest'), LockSound(lock'), \A o \in Owners : Closed(trees'[o])
    PROVE  InstallInv'
<1>1. /\ Standing /\ command.op = "change"
      /\ source \in [Packages -> [version : Nat, edit : Nat]]
      /\ ManifestSound(command.update)
      /\ command.removed # None => command.removed \notin DOMAIN command.update
    BY DEF InstallInv, Standing, Changing
<1>2. Standing'
    BY <1>1, StandingStep
<1> QED
    BY <1>2, Resting DEF DoneIsReproducible

\* An error in a command.
LEMMA Fails ==
    ASSUME InstallInv, world' = world, ChangeInv', Fail
    PROVE  InstallInv'
<1>1. /\ phase # "idle" /\ UNCHANGED <<files, manifest, lock, trees, command, source, before>>
      /\ IF command.op = "change" THEN phase' = "undoManifest"
         ELSE phase' = "idle" /\ outcome' = "failed" /\ jobs' = <<>> /\ staged' = Nothing
    BY DEF Fail, End, files
<1>2. CASE command.op = "change"
  <2>1. Changing /\ ManifestSound(manifest) /\ LockSound(lock) /\ \A o \in Owners : Closed(trees[o])
      BY <1>1, <1>2 DEF InstallInv, Standing, Changing
  <2> QED
      BY <1>1, <1>2, <2>1, ChangeGoesOn
<1>3. CASE command.op # "change"
    BY <1>1, <1>3, OtherEnds
<1> QED
    BY <1>2, <1>3

\* The rollback: both files and every tree become what they were, or empty.
LEMMA Undoes ==
    ASSUME InstallInv, world' = world, ChangeInv', UndoManifest \/ UndoLock \/ UndoTree
    PROVE  InstallInv'
<1>1. phase \in {"undoManifest", "undoLock", "undoTrees"} /\ phase' \in {"undoLock", "undoTrees"}
      /\ UNCHANGED <<command, source, before>>
    BY DEF UndoManifest, UndoLock, UndoTree
<1>2. /\ Standing /\ ChangeInv /\ Changing
      /\ trees = [o \in Owners |-> trees[o]]
    BY <1>1 DEF InstallInv, Standing, ChangeInv, Shapes, Changing
<1>3. Journaled
    BY <1>2 DEF ChangeInv
<1>4. /\ ManifestSound(manifest) /\ ManifestSound(before.manifest)
      /\ LockSound(lock) /\ LockSound(before.lock)
      /\ \A o \in Owners : Closed(trees[o]) /\ Closed(before.trees[o])
    BY <1>2 DEF Standing
<1>5. manifest' = manifest \/ manifest' = before.manifest
    BY <1>3 DEF UndoManifest, UndoLock, UndoTree, Journaled
<1>6. lock' = lock \/ lock' = before.lock
    BY <1>3 DEF UndoManifest, UndoLock, UndoTree, Journaled
<1>7. \A o \in Owners : trees'[o] \in {trees[o], before.trees[o], Nothing}
  <2>1. CASE UndoManifest \/ UndoLock
      BY <2>1 DEF UndoManifest, UndoLock
  <2>2. CASE UndoTree
    <3>1. PICK root \in DOMAIN journal.trees :
            trees' \in {trees, [trees EXCEPT ![root] = journal.trees[root]], [trees EXCEPT ![root] = Nothing]}
        BY <2>2 DEF UndoTree
    <3>2. root \in Owners /\ journal.trees[root] = before.trees[root]
        BY <1>3 DEF Journaled
    <3> QED
        BY <1>2, <3>1, <3>2
  <2> QED
      BY <2>1, <2>2
<1>8. ManifestSound(manifest') /\ LockSound(lock') /\ \A o \in Owners : Closed(trees'[o])
    BY <1>4, <1>5, <1>6, <1>7, NothingClosed
<1> QED
    BY <1>1, <1>2, <1>8, ChangeGoesOn

\* A command that ends undone or interrupted.
LEMMA Stops ==
    ASSUME InstallInv, world' = world, ChangeInv', Undone \/ UndoAborts \/ Interrupt
    PROVE  InstallInv'
<1>1. /\ phase' = "idle" /\ outcome' # "done" /\ jobs' = <<>> /\ staged' = Nothing
      /\ UNCHANGED <<files, source, before>>
    BY DEF Undone, UndoAborts, Interrupt, End
<1> QED
    BY <1>1, OtherEnds

-----------------------------------------------------------------------------
(* Other programs, and the theorem.                                        *)

\* The sources are not what an installation goes on from.
LEMMA SourceEdited ==
    ASSUME InstallInv, world' = world, ChangeInv', EditSource
    PROVE  InstallInv'
<1>1. UNCHANGED <<manifest, lock, trees, phase, command, jobs, staged, records, before, outcome>>
    BY DEF EditSource, Outside, files, work
<1>2. /\ Standing /\ ManifestSound(manifest) /\ LockSound(lock)
      /\ \A o \in Owners : Closed(trees[o])
      /\ source \in [Packages -> [version : Nat, edit : Nat]] /\ world \in Worlds
      /\ phase = "idle" => jobs = <<>> /\ staged = Nothing
      /\ phase = "write" => records = {} /\ staged = Nothing
      /\ phase # "idle" /\ command.op # "change" => command.removed = None
    BY DEF InstallInv, Standing, ChangeInv, Shapes
<1>3. Changing' => /\ ManifestSound(command'.update)
                   /\ command'.removed # None => command'.removed \notin DOMAIN command'.update
    BY <1>1, <1>2 DEF Standing, Changing
<1>4. source' \in [Packages -> [version : Nat, edit : Nat]]
  <2>1. PICK p \in world.edited :
            \/ source' = [source EXCEPT ![p] = [source[p] EXCEPT !.edit = source[p].edit + 1]]
            \/ source' = [source EXCEPT ![p] = [version |-> source[p].version + 1, edit |-> 0]]
      BY DEF EditSource, Released
  <2>2. p \in Packages
      BY <1>2, <2>1, WorldAssumption
  <2>3. source[p] \in [version : Nat, edit : Nat]
      BY <1>2, <2>2
  <2>4. /\ [source[p] EXCEPT !.edit = source[p].edit + 1] \in [version : Nat, edit : Nat]
        /\ [version |-> source[p].version + 1, edit |-> 0] \in [version : Nat, edit : Nat]
      BY <2>3
  <2> QED
      BY <1>2, <2>1, <2>2, <2>4
<1>5. Standing'
    BY <1>1, <1>2, <1>3, <1>4, StandingStep
<1>6. Resolving' => Resolution'
  <2> SUFFICES ASSUME Resolving' PROVE Resolution'
      OBVIOUS
  <2>1. Resolution
      BY <1>1 DEF Resolving, InstallInv
  <2>2. \A j : GoodJob(j)' <=> GoodJob(j)
      BY <1>1, SameGood
  <2>3. Fetching' = Fetching
      BY <1>1 DEF Fetching
  <2> QED
      BY <1>1, <2>1, <2>2, <2>3 DEF Resolution
<1>7. Restoring' => Restoration'
    BY <1>1 DEF Restoring, InstallInv, Restoration, Fetching, IsCurrent, Job
<1>8. phase' = "prune" => Pruning'
    BY <1>1 DEF InstallInv, Pruning, IsCurrent
<1>9. DoneIsReproducible'
    BY <1>1 DEF InstallInv, InstalledAsLocked, DoneIsReproducible, IsCurrent, Installed
<1> QED
    BY <1>5, <1>6, <1>7, <1>8, <1>9, Resting, Working

\* Other programs damage a tree or edit the manifest: no result stands.
LEMMA FilesEdited ==
    ASSUME InstallInv, world' = world, ChangeInv', Damage \/ EditManifest
    PROVE  InstallInv'
<1>1. /\ phase = "idle" /\ outcome' = None
      /\ UNCHANGED <<lock, source, phase, command, jobs, staged, records, before>>
    BY DEF Damage, EditManifest, Outside, work
<1>2. /\ Standing /\ ManifestSound(manifest) /\ LockSound(lock)
      /\ \A o \in Owners : Closed(trees[o])
      /\ trees = [o \in Owners |-> trees[o]]
      /\ source \in [Packages -> [version : Nat, edit : Nat]]
      /\ jobs = <<>> /\ staged = Nothing
    BY <1>1 DEF InstallInv, Standing, ChangeInv, Shapes
<1>3. ManifestSound(manifest') /\ \A o \in Owners : Closed(trees'[o])
  <2>1. CASE Damage
    <3>1. manifest' = manifest
        BY <2>1 DEF Damage
    <3>1a. PICK o \in Owners : \E path \in DOMAIN trees[o] :
            trees' \in {[trees EXCEPT ![o] = Without(trees[o], {p \in DOMAIN trees[o] : IsPrefix(path, p)})],
                       [trees EXCEPT ![o] = [trees[o] EXCEPT ![path] = Tampered]]}
        BY <2>1 DEF Damage
    <3>2. PICK path \in DOMAIN trees[o] :
            \/ trees' = [trees EXCEPT ![o] = Without(trees[o], {p \in DOMAIN trees[o] : IsPrefix(path, p)})]
            \/ trees' = [trees EXCEPT ![o] = [trees[o] EXCEPT ![path] = Tampered]]
        BY <3>1a
    <3>3. path \in Path
        BY <1>2 DEF Closed
    <3>4. Closed(Without(trees[o], {p \in DOMAIN trees[o] : IsPrefix(path, p)}))
        BY <1>2, <3>3, WithoutBeneath
    <3>5. Closed([trees[o] EXCEPT ![path] = Tampered])
        BY <1>2 DEF Closed
    <3>6. \A x \in Owners : x # o => trees'[x] = trees[x]
        BY <1>2, <3>2
    <3>7. Closed(trees'[o])
        BY <1>2, <3>2, <3>4, <3>5
    <3> QED
        BY <1>2, <3>1, <3>6, <3>7
  <2>2. CASE EditManifest
    <3>1. PICK cmd \in Updates : manifest' = cmd.update
        BY <2>2 DEF EditManifest
    <3>2. trees' = trees
        BY <2>2 DEF EditManifest
    <3> QED
        BY <1>2, <3>1, <3>2, UpdatesAreDeclared
  <2> QED
      BY <2>1, <2>2
<1>4. ~Changing'
    BY <1>1 DEF Changing
<1>5. Standing'
    BY <1>1, <1>2, <1>3, <1>4, StandingStep
<1>6. DoneIsReproducible'
    BY <1>1 DEF DoneIsReproducible, None
<1> QED
    BY <1>1, <1>5, <1>6, Resting

\* Nothing happens.
LEMMA Stutters ==
    ASSUME InstallInv, ChangeInv', UNCHANGED vars
    PROVE  InstallInv'
<1>1. UNCHANGED <<manifest, lock, trees, source, phase, command, jobs, staged, records, before, outcome, world>>
    BY DEF vars, files, work
<1>2. /\ Standing /\ ManifestSound(manifest) /\ LockSound(lock)
      /\ \A o \in Owners : Closed(trees[o])
      /\ source \in [Packages -> [version : Nat, edit : Nat]]
      /\ phase = "idle" => jobs = <<>> /\ staged = Nothing
      /\ phase = "write" => records = {} /\ staged = Nothing
      /\ phase # "idle" /\ command.op # "change" => command.removed = None
    BY DEF InstallInv, Standing
<1>3. Changing' => /\ ManifestSound(command'.update)
                   /\ command'.removed # None => command'.removed \notin DOMAIN command'.update
    BY <1>1, <1>2 DEF Standing, Changing
<1>4. Standing'
    BY <1>1, <1>2, <1>3, StandingStep
<1>5. Resolving' => Resolution'
  <2> SUFFICES ASSUME Resolving' PROVE Resolution'
      OBVIOUS
  <2>1. Resolution
      BY <1>1 DEF Resolving, InstallInv
  <2>2. \A j : GoodJob(j)' <=> GoodJob(j)
      BY <1>1, SameGood
  <2>3. Fetching' = Fetching
      BY <1>1 DEF Fetching
  <2> QED
      BY <1>1, <2>1, <2>2, <2>3 DEF Resolution
<1>6. Restoring' => Restoration'
    BY <1>1 DEF Restoring, InstallInv, Restoration, Fetching, IsCurrent, Job
<1>7. phase' = "prune" => Pruning'
    BY <1>1 DEF InstallInv, Pruning, IsCurrent
<1>8. DoneIsReproducible'
    BY <1>1 DEF InstallInv, InstalledAsLocked, DoneIsReproducible, IsCurrent, Installed
<1> QED
    BY <1>4, <1>5, <1>6, <1>7, <1>8, Resting, Working

-----------------------------------------------------------------------------
\* At the start there is no lock, and nothing is installed.
LEMMA InstallInit == ASSUME Init PROVE InstallInv
<1>1. /\ world \in Worlds /\ manifest = world.manifest /\ lock = NoLock
      /\ trees = [o \in Owners |-> Nothing] /\ source = [p \in Packages |-> Released(0)]
      /\ phase = "idle" /\ jobs = <<>> /\ staged = Nothing /\ outcome = None
      /\ before = [manifest |-> manifest, lock |-> lock, trees |-> trees]
    BY DEF Init, Snapshot
<1>2. ChangeInv
    BY ChangeInit
<1>3. ManifestSound(manifest)
  <2>1. IsManifest(manifest) /\ Sound(manifest)
      BY <1>1, <1>2, WorldAssumption DEF ChangeInv, Shapes
  <2> QED
      BY <1>1, <2>1 DEF ManifestSound, LiveFrom, MayDeclareLive
<1>4. NoLock.records = {} /\ before.manifest = manifest /\ before.lock = lock /\ before.trees = trees
    BY <1>1 DEF NoLock
<1>5. LockSound(NoLock)
    BY <1>4, FS_EmptySet DEF LockSound, RecordsSound, NamedBy
<1>6. \A o \in Owners : Closed(trees[o])
    BY <1>1, NothingClosed
<1>7. source \in [Packages -> [version : Nat, edit : Nat]]
    BY <1>1 DEF Released
<1>8. Standing
    BY <1>1, <1>2, <1>3, <1>4, <1>5, <1>6, <1>7 DEF Standing, Changing
<1>9. TypeOK
    BY <1>8, StandingTypes
<1> QED
    BY <1>1, <1>8, <1>9
       DEF InstallInv, Resolving, Restoring, InstalledAsLocked, DoneIsReproducible, None

\* Every step preserves the invariant.
LEMMA InstallNext ==
    ASSUME LiveAboveManaged, LiveNeededOnce, InstallInv, [Next]_vars
    PROVE  InstallInv'
<1>1. ChangeInv'
    BY ChangeNext DEF InstallInv, Standing
<1>2. CASE UNCHANGED vars
    BY <1>1, <1>2, Stutters
<1>3. CASE Next
  <2>1. world' = world
      BY <1>3 DEF Next
  <2>2. CASE ResolvePath \/ ResolveManaged \/ DropOld \/ Place \/ LockedSkip \/ LockedFetch
      BY <1>1, <2>1, <2>2, JobStep
  <2>3. CASE Install \/ LockedInstall \/ Change \/ WriteManifest
      BY <1>1, <2>1, <2>3, InstallBegins, LockedBegins, ChangeBegins, ChangeInstalls
  <2>4. CASE WriteLock \/ LockedDone \/ Prune
      BY <1>1, <2>1, <2>4, LockWritten, LockedEnds, PruneEnds
  <2>5. CASE Fail \/ UndoManifest \/ UndoLock \/ UndoTree \/ Undone \/ UndoAborts \/ Interrupt
      BY <1>1, <2>1, <2>5, Fails, Undoes, Stops
  <2>6. CASE EditSource \/ Damage \/ EditManifest
      BY <1>1, <2>1, <2>6, SourceEdited, FilesEdited
  <2> QED
      BY <1>3, <2>2, <2>3, <2>4, <2>5, <2>6 DEF Next, Step
<1> QED
    BY <1>2, <1>3

\* InstalledAsLocked, in the worlds of two kinds of graphs only: no git or local
\* package needs a live one (LiveAboveManaged), and no live package is needed by
\* two (LiveNeededOnce), though the code accepts both.  In these, after every
\* command that succeeded the lock is that of the manifest and each of its
\* records is installed as recorded, transitive ones included (install,
\* _resolve_and_install_manifest, _install_locked_records and
\* _commit_manifest_change of packages.py), whatever was edited or damaged
\* before and whatever failed.
THEOREM LocksReproduce ==
    Spec => [](LiveAboveManaged /\ LiveNeededOnce => InstalledAsLocked)
<1> DEFINE Plain == LiveAboveManaged /\ LiveNeededOnce
<1>1. Init => (Plain => InstallInv)
    BY InstallInit
<1>2. (Plain => InstallInv) /\ [Next]_vars => (Plain => InstallInv)'
  <2> SUFFICES ASSUME Plain => InstallInv, [Next]_vars, Plain'
               PROVE  InstallInv'
      OBVIOUS
  <2>1. world' = world
      BY DEF Next, vars
  <2>2. LiveNeededOnce
      BY <2>1 DEF LiveNeededOnce, MayDeclareLive
  <2>3. LiveAboveManaged
      BY <2>1 DEF LiveAboveManaged, MayBeManaged, Flat, Needs
  <2> QED
      BY <2>2, <2>3, InstallNext
<1>3. (Plain => InstallInv) => (Plain => InstalledAsLocked)
    BY DEF InstallInv
<1> QED
    BY <1>1, <1>2, <1>3, PTL DEF Spec

-----------------------------------------------------------------------------
(* A locked install, without hypotheses.                                   *)

IsRecorded(at, contents) == \E r \in lock.records : Where(r) = at /\ r.contents = contents

\* Jobs are of records, and what is fetched is what its record says.
Restores ==
    /\ jobs \in Seq(ToSet(jobs))
    /\ \A j \in ToSet(jobs) :
        /\ HasFields(j) /\ "contents" \in DOMAIN j /\ j.do \in {"restore", "place"}
        /\ IsRecorded(Where(j), j.contents)
    /\ \A at \in Fetching : IsRecorded(at, staged[at])

\* Nothing here depends on what the manifests declare.
RestoreShapes ==
    /\ trees = [o \in Owners |-> trees[o]]
    /\ DOMAIN journal = {"manifest", "lock", "trees"}
    /\ \A R \in {lock.records, records, journal.lock.records, before.lock.records} : IsFiniteSet(R)
    /\ phase = "write" => command.op = "change"
RestoreInv == RestoreShapes /\ (Restoring => Restores)

\* At the start nothing is restored.
LEMMA RestoreInit == ASSUME Init PROVE RestoreInv
<1>1. /\ trees = [o \in Owners |-> Nothing] /\ phase = "idle" /\ records = {} /\ lock = NoLock
      /\ journal = [manifest |-> Nothing, lock |-> NoLock, trees |-> Nothing]
      /\ before = [manifest |-> manifest, lock |-> lock, trees |-> trees]
    BY DEF Init, Snapshot
<1>2. NoLock.records = {} /\ IsFiniteSet({})
    BY FS_EmptySet DEF NoLock
<1>3. /\ lock.records = {} /\ journal.lock.records = {} /\ before.lock.records = {}
    BY <1>1, <1>2
<1> QED
    BY <1>1, <1>2, <1>3 DEF RestoreInv, RestoreShapes, Restoring

\* Every update is a change.
LEMMA UpdatesChange == ASSUME NEW cmd \in Updates PROVE cmd.op = "change"
<1> DEFINE Versions == {source[n].version : n \in Packages}
           Declare(d, v) == [op |-> "change", removed |-> None,
                             update |-> With(manifest, d.name, [kind |-> d.kind, version |-> v])]
           Removing(n) == [op |-> "change", removed |-> n, update |-> Without(manifest, {n})]
<1>1. Updates = {Declare(d, v) : d \in world.declarations, v \in Versions}
                    \cup {Removing(n) : n \in DOMAIN manifest}
    BY DEF Updates
<1>2. (\A d, v : Declare(d, v).op = "change") /\ \A n : Removing(n).op = "change"
    OBVIOUS
<1> HIDE DEF Versions, Declare, Removing
<1> QED
    BY <1>1, <1>2

\* The shapes stay, whatever happens.
LEMMA ShapesStay == ASSUME RestoreShapes, [Next]_vars PROVE RestoreShapes'
<1>1. trees' = [o \in Owners |-> trees'[o]]
  <2>1. trees' = trees \/ \E o, t : trees' = [trees EXCEPT ![o] = t]
    <3>1. CASE UNCHANGED vars
        BY <3>1 DEF vars, files
    <3>2. CASE DropOld \/ Place \/ Prune
        BY <3>2 DEF DropOld, Place, Prune
    <3>3. CASE UndoTree
        BY <3>3 DEF UndoTree
    <3>4. CASE Damage
      <4>1. PICK o \in Owners : \E path \in DOMAIN trees[o] :
            trees' \in {[trees EXCEPT ![o] = Without(trees[o], {p \in DOMAIN trees[o] : IsPrefix(path, p)})],
                       [trees EXCEPT ![o] = [trees[o] EXCEPT ![path] = Tampered]]}
          BY <3>4 DEF Damage
      <4> QED
          BY <4>1
    <3>5. CASE \/ ResolvePath \/ ResolveManaged \/ LockedSkip \/ LockedFetch \/ Install \/ LockedInstall
               \/ Change \/ WriteManifest \/ WriteLock \/ LockedDone
        BY <3>5 DEF ResolvePath, ResolveManaged, LockedSkip, LockedFetch, Install, LockedInstall,
                    Change, WriteManifest, WriteLock, LockedDone, Begin, files
    <3>6. CASE \/ UndoManifest \/ UndoLock \/ Undone \/ UndoAborts \/ Interrupt \/ Fail
               \/ EditSource \/ EditManifest
        BY <3>6 DEF UndoManifest, UndoLock, Undone, UndoAborts, Interrupt, Fail, EditSource, EditManifest, files
    <3> QED
        BY <3>1, <3>2, <3>3, <3>4, <3>5, <3>6 DEF Next, Step
  <2> QED
      BY <2>1 DEF RestoreShapes
<1>2. /\ DOMAIN journal' = {"manifest", "lock", "trees"}
      /\ journal'.lock = journal.lock \/ journal'.lock = lock
  <2>1. CASE journal' = journal
      BY <2>1 DEF RestoreShapes
  <2>2. CASE \E x : journal' = [journal EXCEPT !.trees = x]
      BY <2>2 DEF RestoreShapes
  <2>3. CASE \E m : journal' = JournalOf(m)
      BY <2>3 DEF JournalOf
  <2>4. CASE UNCHANGED vars
      BY <2>1, <2>4 DEF vars, undo
  <2>5. CASE UndoTree
      BY <2>2, <2>5 DEF UndoTree, Forget
  <2>6. CASE Change
      BY <2>1, <2>3, <2>6 DEF Change
  <2>7. CASE \/ ResolvePath \/ ResolveManaged \/ DropOld \/ Place \/ LockedSkip \/ LockedFetch
             \/ Install \/ LockedInstall \/ WriteManifest \/ WriteLock \/ LockedDone \/ Prune
      BY <2>1, <2>7 DEF ResolvePath, ResolveManaged, DropOld, Place, LockedSkip, LockedFetch,
                        Install, LockedInstall, WriteManifest, WriteLock, LockedDone, Prune, undo
  <2>8. CASE \/ UndoManifest \/ UndoLock \/ Undone \/ UndoAborts \/ Interrupt \/ Fail
             \/ EditSource \/ Damage \/ EditManifest
      BY <2>1, <2>8 DEF UndoManifest, UndoLock, Undone, UndoAborts, Interrupt, Fail,
                        EditSource, Damage, EditManifest, Outside, undo
  <2> QED
      BY <2>4, <2>5, <2>6, <2>7, <2>8 DEF Next, Step
<1>3. before' = before \/ before'.lock = lock
  <2>1. before' = before \/ before' = Snapshot
      BY DEF Next, Step, vars, ResolvePath, ResolveManaged, DropOld, Place, LockedSkip, LockedFetch,
             Install, LockedInstall, Change, Begin, WriteManifest, WriteLock, LockedDone, Prune,
             UndoManifest, UndoLock, UndoTree, Undone, UndoAborts, Interrupt, Fail,
             EditSource, Damage, EditManifest, Outside
  <2> QED
      BY <2>1 DEF Snapshot
<1>4. IsFiniteSet(records')
  <2>1. CASE records' = records
      BY <2>1 DEF RestoreShapes
  <2>2. CASE records' = {}
      BY <2>2, FS_EmptySet
  <2>3. CASE \E r : records' = records \cup {r}
      BY <2>3, FS_AddElement DEF RestoreShapes
  <2>4. CASE ResolvePath \/ ResolveManaged
      BY <2>3, <2>4 DEF ResolvePath, ResolveManaged
  <2>5. CASE \/ UNCHANGED vars \/ DropOld \/ Place \/ LockedSkip \/ LockedFetch
             \/ WriteManifest \/ WriteLock \/ LockedDone \/ Prune
      BY <2>1, <2>5 DEF vars, work, DropOld, Place, LockedSkip, LockedFetch,
                        WriteManifest, WriteLock, LockedDone, Prune
  <2>6. CASE \/ UndoManifest \/ UndoLock \/ UndoTree \/ Undone \/ UndoAborts \/ Interrupt \/ Fail
             \/ EditSource \/ Damage \/ EditManifest
      BY <2>1, <2>6 DEF work, UndoManifest, UndoLock, UndoTree, Undone, UndoAborts, Interrupt, Fail,
                        EditSource, Damage, EditManifest, Outside
  <2>7. CASE Install \/ LockedInstall \/ Change
      BY <2>2, <2>7 DEF Install, LockedInstall, Change, Begin
  <2> QED
      BY <2>4, <2>5, <2>6, <2>7 DEF Next, Step
<1>5. lock' = lock \/ lock'.records = records \/ lock' = journal.lock
  <2>1. CASE WriteLock
      BY <2>1 DEF WriteLock
  <2>2. CASE UndoLock
      BY <2>2 DEF UndoLock
  <2>3. CASE \/ UNCHANGED vars \/ ResolvePath \/ ResolveManaged \/ DropOld \/ Place \/ LockedSkip \/ LockedFetch
             \/ Install \/ LockedInstall \/ Change \/ WriteManifest \/ LockedDone \/ Prune
      BY <2>3 DEF vars, files, ResolvePath, ResolveManaged, DropOld, Place, LockedSkip, LockedFetch,
                  Install, LockedInstall, Change, Begin, WriteManifest, LockedDone, Prune
  <2>4. CASE \/ UndoManifest \/ UndoTree \/ Undone \/ UndoAborts \/ Interrupt \/ Fail
             \/ EditSource \/ Damage \/ EditManifest
      BY <2>4 DEF files, UndoManifest, UndoTree, Undone, UndoAborts, Interrupt, Fail,
                  EditSource, Damage, EditManifest
  <2> QED
      BY <2>1, <2>2, <2>3, <2>4 DEF Next, Step
<1>6. phase' = "write" => command'.op = "change"
  <2>1. CASE phase' = phase /\ command' = command
      BY <2>1 DEF RestoreShapes
  <2>2. CASE phase' # "write"
      BY <2>2
  <2>3. CASE Change
    <3>1. PICK cmd \in Updates : command' = cmd
        BY <2>3 DEF Change, Begin
    <3>2. cmd.op = "change"
        BY UpdatesChange
    <3> QED
        BY <3>1, <3>2
  <2>4. CASE Install \/ LockedInstall
      BY <2>2, <2>4 DEF Install, LockedInstall, Begin
  <2>5. CASE \/ UNCHANGED vars \/ ResolvePath \/ ResolveManaged \/ DropOld \/ Place \/ LockedSkip \/ LockedFetch
             \/ UndoTree \/ EditSource \/ Damage \/ EditManifest
      BY <2>1, <2>5 DEF vars, ResolvePath, ResolveManaged, DropOld, Place, LockedSkip, LockedFetch,
                        UndoTree, EditSource, Damage, EditManifest, Outside
  <2>6. CASE \/ WriteManifest \/ WriteLock \/ LockedDone \/ Prune
             \/ UndoManifest \/ UndoLock \/ Undone \/ UndoAborts \/ Interrupt \/ Fail
      BY <2>2, <2>6 DEF WriteManifest, WriteLock, LockedDone, Prune, End,
                        UndoManifest, UndoLock, Undone, UndoAborts, Interrupt, Fail
  <2> QED
      BY <2>3, <2>4, <2>5, <2>6 DEF Next, Step
<1>7. \A R \in {lock'.records, records', journal'.lock.records, before'.lock.records} : IsFiniteSet(R)
    BY <1>2, <1>3, <1>4, <1>5 DEF RestoreShapes
<1> QED
    BY <1>1, <1>2, <1>6, <1>7 DEF RestoreShapes

\* Jobs of records, in any order.
LEMMA RecordedJobs ==
    ASSUME RestoreShapes, LockedInstall, phase' = "install"
    PROVE  Restores'
<1>1. /\ UNCHANGED lock /\ staged' = Nothing
      /\ \E order \in LockedOrders : jobs' = [i \in DOMAIN order |-> RestoreJob(order[i])]
  <2>1. phase = "idle"
      BY DEF LockedInstall, Begin
  <2> QED
      BY <2>1 DEF LockedInstall, Begin, files
<1>2. PICK order \in LockedOrders : jobs' = [i \in DOMAIN order |-> RestoreJob(order[i])]
    BY <1>1
<1> DEFINE n == Cardinality(lock.records)
           R == lock.records
<1>3. n \in Nat
    BY FS_CardinalityType DEF RestoreShapes
<1>4. order \in [1..n -> R]
    BY DEF LockedOrders
<1> HIDE DEF n
<1>5. DOMAIN order = 1..n /\ \A i \in 1..n : order[i] \in R
    BY <1>4
<1> DEFINE J(r) == RestoreJob(r)
<1>6. \A r : /\ Where(J(r)) = Where(r) /\ J(r).contents = r.contents
             /\ HasFields(J(r)) /\ "contents" \in DOMAIN J(r) /\ J(r).do = "restore"
    BY DEF RestoreJob, Where, HasFields
<1>7. jobs' = [i \in 1..n |-> J(order[i])]
    BY <1>2, <1>5
<1> HIDE DEF J
<1> DEFINE q == [i \in 1..n |-> J(order[i])]
<1>8. DOMAIN q = 1..n /\ \A i \in 1..n : q[i] = J(order[i])
    OBVIOUS
<1>9. q \in Seq(ToSet(q))
  <2>1. ToSet(q) = {q[i] : i \in 1..n}
      BY <1>8 DEF ToSet
  <2>2. q \in [1..n -> ToSet(q)]
      BY <2>1
  <2> QED
      BY <1>3, <2>2, SeqDef
<1>10. \A j \in ToSet(q) : \E i \in 1..n : j = J(order[i])
    BY <1>8 DEF ToSet
<1> HIDE DEF q
<1>11. \A j \in ToSet(q) :
        /\ HasFields(j) /\ "contents" \in DOMAIN j /\ j.do \in {"restore", "place"}
        /\ \E r \in R : Where(r) = Where(j) /\ r.contents = j.contents
  <2> SUFFICES ASSUME NEW i \in 1..n, NEW j, j = J(order[i])
               PROVE  /\ HasFields(j) /\ "contents" \in DOMAIN j /\ j.do \in {"restore", "place"}
                      /\ \E r \in R : Where(r) = Where(j) /\ r.contents = j.contents
      BY <1>10
  <2> QED
      BY <1>5, <1>6
<1>12. jobs' = q
    BY <1>7 DEF q
<1>13. Fetching' = {}
    BY <1>1, NothingClosed DEF Fetching
<1> QED
    BY <1>1, <1>9, <1>11, <1>12, <1>13 DEF Restores, IsRecorded

\* Each step of a locked install.
LEMMA RestoreWork ==
    ASSUME RestoreInv, Restoring, DropOld \/ Place \/ LockedSkip \/ LockedFetch
    PROVE  /\ Restores'
           /\ \A o \in Owners : \A path \in DOMAIN trees'[o] :
                \/ Installed(o, path) /\ trees'[o][path] = trees[o][path]
                \/ \E r \in lock.records : <<r.owner, r.path, r.contents>> = <<o, path, trees'[o][path]>>
<1> DEFINE t == Tail(jobs)
<1>1. Restores /\ trees = [o \in Owners |-> trees[o]] /\ lock' = lock /\ jobs # <<>>
    BY DEF RestoreInv, RestoreShapes, DropOld, Place, LockedSkip, LockedFetch, Todo, files
<1>2. /\ Job \in ToSet(jobs) /\ ToSet(t) \subseteq ToSet(jobs) /\ t \in Seq(ToSet(t))
    BY <1>1, HeadTail DEF Restores, Job
<1>3. IsRecorded(Where(Job), Job.contents) /\ HasFields(Job) /\ "contents" \in DOMAIN Job
    BY <1>1, <1>2 DEF Restores
<1>4. CASE LockedSkip
  <2>1. trees' = trees /\ staged' = staged /\ jobs' = <<>> \o t
      BY <1>4 DEF LockedSkip, files, Then
  <2> HIDE DEF t
  <2>2. jobs' = t
      BY <1>2, <2>1, ConcatEmptySeq
  <2> QED
      BY <1>1, <1>2, <2>1, <2>2 DEF Restores, IsRecorded, Fetching, Installed
<1>5. CASE DropOld
  <2>1. jobs' = jobs /\ staged' = staged
      BY <1>5 DEF DropOld, work
  <2>2. Restores'
      BY <1>1, <2>1 DEF Restores, IsRecorded, Fetching
  <2>3. trees' = [trees EXCEPT ![Job.owner] = Without(trees[Job.owner], Destination)]
      BY <1>5 DEF DropOld
  <2>4. ASSUME NEW o \in Owners, NEW path \in DOMAIN trees'[o]
        PROVE  Installed(o, path) /\ trees'[o][path] = trees[o][path]
      BY <1>1, <2>3 DEF Without, Installed
  <2> QED
      BY <2>2, <2>4
<1>6. CASE LockedFetch
  <2> DEFINE k == [Job EXCEPT !.do = "place"]
             c == Fetched(Name, Job.kind, Job.version)
             q == <<k>>
  <2>1. /\ trees' = trees /\ jobs' = q \o t
        /\ c = Job.contents /\ staged' = With(staged, Where(Job), c)
      BY <1>6 DEF LockedFetch, files, SameContents, Where
  <2>2. /\ k.do = "place" /\ HasFields(k) /\ "contents" \in DOMAIN k
        /\ Where(k) = Where(Job) /\ k.contents = Job.contents
      BY <1>3 DEF HasFields, Where
  <2> HIDE DEF k, c, t
  <2>3. q \in Seq({k}) /\ ToSet(q) = {k}
      BY DEF ToSet
  <2> HIDE DEF q
  <2>4. q \in Seq(ToSet(q))
      BY <2>3
  <2>5. q \o t \in Seq(ToSet(q \o t)) /\ ToSet(q \o t) = {k} \cup ToSet(t)
      BY <1>2, <2>3, <2>4, Joined
  <2>6. \A j \in ToSet(jobs') :
        /\ HasFields(j) /\ "contents" \in DOMAIN j /\ j.do \in {"restore", "place"}
        /\ IsRecorded(Where(j), j.contents)
      BY <1>1, <1>2, <1>3, <2>1, <2>2, <2>5 DEF Restores
  <2>7. /\ DOMAIN staged' = DOMAIN staged \cup {Where(Job)} /\ staged'[Where(Job)] = c
        /\ \A at \in DOMAIN staged : at # Where(Job) => staged'[at] = staged[at]
      BY <2>1 DEF With
  <2>8. \A at \in Fetching' : IsRecorded(at, staged'[at])
      BY <1>1, <1>3, <2>1, <2>7 DEF Restores, Fetching
  <2> QED
      BY <1>1, <2>1, <2>5, <2>6, <2>8 DEF Restores, IsRecorded, Installed
<1>7. CASE Place
  <2> DEFINE w == Job.owner
             New == {at[2] : at \in Checkout}
  <2>1. /\ trees' = [trees EXCEPT ![w] =
                    [path \in DOMAIN trees[w] \cup New |->
                        IF path \in DOMAIN trees[w] THEN trees[w][path] ELSE staged[<<w, path>>]]]
        /\ staged' = Without(staged, Checkout) /\ jobs' = <<>> \o t
      BY <1>7 DEF Place, Then
  <2>2. \A path \in New : \E at \in Checkout : path = at[2]
      BY DEF New
  <2>3. \A at \in Checkout : at \in Fetching /\ at[1] = w
      BY DEF Checkout, Fetching
  <2> HIDE DEF t, New
  <2>4. jobs' = t
      BY <1>2, <2>1, ConcatEmptySeq
  <2>5. Fetching' = Fetching \ Checkout /\ \A x \in Fetching' : staged'[x] = staged[x]
      BY <2>1 DEF Fetching, Without
  <2>6. Restores'
      BY <1>1, <1>2, <2>4, <2>5 DEF Restores, IsRecorded
  <2>7. ASSUME NEW at \in Checkout PROVE at = <<w, at[2]>>
    <3>1. PICK r \in lock.records : Where(r) = at
        BY <1>1, <2>3 DEF Restores, IsRecorded
    <3> QED
        BY <2>3, <3>1 DEF Where
  <2>8. ASSUME NEW path \in New
        PROVE  \E r \in lock.records : r.owner = w /\ r.path = path /\ r.contents = staged[<<w, path>>]
    <3>1. PICK at \in Checkout : path = at[2]
        BY <2>2
    <3>2. at = <<w, path>> /\ at \in Fetching
        BY <2>3, <2>7, <3>1
    <3>3. PICK r \in lock.records : Where(r) = at /\ r.contents = staged[at]
        BY <1>1, <3>2 DEF Restores, IsRecorded
    <3> QED
        BY <3>2, <3>3 DEF Where
  <2>9. ASSUME NEW o \in Owners, NEW path \in DOMAIN trees'[o]
        PROVE  \/ Installed(o, path) /\ trees'[o][path] = trees[o][path]
               \/ \E r \in lock.records : r.owner = o /\ r.path = path /\ r.contents = trees'[o][path]
    <3>1. CASE o # w
        BY <1>1, <2>1, <3>1 DEF Installed
    <3>2. CASE o = w
      <4>1. /\ DOMAIN trees'[o] = DOMAIN trees[w] \cup New
            /\ path \in DOMAIN trees[w] => trees'[o][path] = trees[w][path]
            /\ path \notin DOMAIN trees[w] => trees'[o][path] = staged[<<w, path>>]
          BY <1>1, <2>1, <3>2
      <4> HIDE DEF w
      <4> QED
          BY <2>8, <3>2, <4>1 DEF Installed
    <3> QED
        BY <3>1, <3>2
  <2> QED
      BY <2>6, <2>9
<1> QED
    BY <1>4, <1>5, <1>6, <1>7

\* Resolution has no job of a locked install.
LEMMA RestoredNotResolved == ASSUME RestoreInv, Restoring PROVE ~ResolvePath /\ ~ResolveManaged
<1> SUFFICES ASSUME Todo("resolve") PROVE FALSE
    BY DEF ResolvePath, ResolveManaged
<1>1. jobs # <<>> /\ Job.do = "resolve" /\ Restores
    BY DEF Todo, RestoreInv
<1>2. Job \in ToSet(jobs)
    BY <1>1, HeadTail DEF Restores, Job
<1> QED
    BY <1>1, <1>2 DEF Restores

\* Every step preserves the invariant of a locked install.
LEMMA RestoreNext == ASSUME RestoreInv, [Next]_vars PROVE RestoreInv'
<1>1. RestoreShapes'
    BY ShapesStay DEF RestoreInv
<1> SUFFICES ASSUME Restoring' PROVE Restores'
    BY <1>1 DEF RestoreInv
<1>2. phase' = "install" /\ command'.op = "locked"
    BY DEF Restoring
<1>3. CASE ResolvePath \/ ResolveManaged \/ DropOld \/ Place \/ LockedSkip \/ LockedFetch
  <2>1. phase' = phase /\ command' = command
      BY <1>3 DEF ResolvePath, ResolveManaged, DropOld, Place, LockedSkip, LockedFetch
  <2>2. Restoring
      BY <1>2, <2>1 DEF Restoring
  <2> QED
      BY <1>3, <2>2, RestoredNotResolved, RestoreWork
<1>4. CASE LockedInstall
    BY <1>2, <1>4, RecordedJobs DEF RestoreInv
<1>5. CASE Install
  <2>1. command' = [op |-> "install", update |-> Nothing, removed |-> None]
      BY <1>5 DEF Install, Begin
  <2> QED
      BY <1>2, <2>1
<1>6. CASE WriteManifest
    BY <1>2, <1>6 DEF WriteManifest, RestoreInv, RestoreShapes
<1>7. CASE Change
    BY <1>2, <1>7 DEF Change, Begin
<1>8. CASE \/ WriteLock \/ LockedDone \/ Prune \/ Fail \/ UndoManifest \/ UndoLock \/ UndoTree
           \/ Undone \/ UndoAborts \/ Interrupt \/ Damage \/ EditManifest
    BY <1>2, <1>8 DEF WriteLock, LockedDone, Prune, Fail, UndoManifest, UndoLock, UndoTree,
                      Undone, UndoAborts, Interrupt, Damage, EditManifest, Outside, End
<1>9. CASE EditSource \/ UNCHANGED vars
  <2>1. UNCHANGED <<phase, command, jobs, staged, lock>>
      BY <1>9 DEF EditSource, Outside, work, files, vars
  <2>2. Restores
      BY <1>2, <2>1 DEF RestoreInv, Restoring
  <2> QED
      BY <2>1, <2>2 DEF Restores, IsRecorded, Fetching
<1> QED
    BY <1>3, <1>4, <1>5, <1>6, <1>7, <1>8, <1>9 DEF Next, Step

\* A step of a locked install, whichever it is.
LEMMA RestoresOnly ==
    ASSUME RestoreInv, [Next]_vars, phase = "install", command.op = "locked"
    PROVE  /\ UNCHANGED <<manifest, lock>>
           /\ \A o \in Owners : \A path \in DOMAIN trees'[o] :
                \/ Installed(o, path) /\ trees'[o][path] = trees[o][path]
                \/ \E r \in lock.records : <<r.owner, r.path, r.contents>> = <<o, path, trees'[o][path]>>
<1>1. Restoring
    BY DEF Restoring
<1>2. CASE DropOld \/ Place \/ LockedSkip \/ LockedFetch
  <2>1. UNCHANGED <<manifest, lock>>
      BY <1>2 DEF DropOld, Place, LockedSkip, LockedFetch, files
  <2> QED
      BY <1>1, <1>2, <2>1, RestoreWork
<1>3. CASE UNCHANGED files
    BY <1>3 DEF files, Installed
<1>4. CASE ResolvePath \/ ResolveManaged \/ LockedDone \/ Fail \/ Interrupt \/ EditSource \/ UNCHANGED vars
    BY <1>3, <1>4 DEF ResolvePath, ResolveManaged, LockedDone, Fail, Interrupt, EditSource, vars
<1>5. ~(Install \/ LockedInstall \/ Change \/ WriteManifest \/ WriteLock \/ Prune)
    BY DEF Install, LockedInstall, Change, Begin, WriteManifest, WriteLock, Prune
<1>6. ~(UndoManifest \/ UndoLock \/ UndoTree \/ Undone \/ UndoAborts \/ Damage \/ EditManifest)
    BY DEF UndoManifest, UndoLock, UndoTree, Undone, UndoAborts, Damage, EditManifest
<1> QED
    BY <1>2, <1>4, <1>5, <1>6 DEF Next, Step

\* LockedOnlyRestores, for every value of the constants and without any
\* hypothesis: a locked install changes neither file and puts nothing into a
\* tree that the lock does not record for that place (_install_locked).
THEOREM LocksOnlyRestore == Spec => LockedOnlyRestores
<1>1. Init => RestoreInv
    BY RestoreInit
<1>2. RestoreInv /\ [Next]_vars => RestoreInv'
    BY RestoreNext
<1>3. RestoreInv /\ [Next]_vars =>
        [phase = "install" /\ command.op = "locked" =>
            /\ UNCHANGED <<manifest, lock>>
            /\ \A o \in Owners : \A path \in DOMAIN trees'[o] :
                \/ Installed(o, path) /\ trees'[o][path] = trees[o][path]
                \/ \E r \in lock.records : <<r.owner, r.path, r.contents>> = <<o, path, trees'[o][path]>>]_vars
    BY RestoresOnly
<1> QED
    BY <1>1, <1>2, <1>3, PTL DEF Spec, LockedOnlyRestores
=============================================================================
