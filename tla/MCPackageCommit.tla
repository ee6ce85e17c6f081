-------------------------- MODULE MCPackageCommit --------------------------
(* Projects of up to four packages for TLC.                                *)
EXTENDS PackageCommit

Needing(name, kind) == [n \in {name} |-> [kind |-> kind, version |-> 0]]
NoNeeds == <<>>
MCOrder == <<"a", "b", "p", "q">>

World(needs, initial, declarations, edited, faults, commandBound, editBound) ==
    [needs |-> needs, manifest |-> initial, declarations |-> declarations,
     edited |-> edited, faults |-> faults, commands |-> commandBound, edits |-> editBound]

Declaring(name, kind) == [name |-> name, kind |-> kind]

\* A local package a over a git package b, and a live path package p over b;
\* rollbacks may fail.
Layered ==
    [n \in {"a", "b", "p", "q"} |->
        CASE n = "a" -> Needing("b", "git") [] n = "p" -> Needing("b", "local") [] OTHER -> NoNeeds]
Changed(commandBound, editBound) ==
    World(Layered, Needing("a", "local"),
          {Declaring("a", "local"), Declaring("p", "path")},
          {"a", "b", "p"}, {"undo"}, commandBound, editBound)

\* A circle of live packages and one of managed packages; interruptions.
Circles ==
    [n \in {"a", "b", "p", "q"} |->
        CASE n = "a" -> Needing("b", "local") [] n = "b" -> Needing("a", "local")
          [] n = "p" -> Needing("q", "path")  [] n = "q" -> Needing("p", "path")]
Circular ==
    World(Circles, NoNeeds,
          {Declaring("a", "local"), Declaring("a", "git"), Declaring("p", "path")},
          {"a", "b", "p", "q"}, {"interrupt"}, 2, 1)

\* A local package a over a live one q, which is over a local package b: the
\* journal of a change does not have the tree of q.
Beneath ==
    [n \in {"a", "b", "p", "q"} |->
        CASE n = "a" -> Needing("q", "path") [] n = "q" -> Needing("b", "local") [] OTHER -> NoNeeds]
Unseen ==
    World(Beneath, NoNeeds, {Declaring("a", "local")}, {"a", "b"}, {"undo"}, 2, 1)

MCWorlds == {Changed(2, 2), Circular, Unseen}
=============================================================================
