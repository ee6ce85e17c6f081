--------------------------- MODULE MCCoordinator ---------------------------
EXTENDS Coordinator, TLC

CONSTANTS main, tool, lib

Setting(executables, modules, imports, broken, commands, together, changes, faults, flock) ==
    [units |-> executables \union modules, executables |-> executables,
     imports |-> [u \in Units |-> {i \in Units : <<u, i>> \in imports}],
     broken |-> broken, commands |-> commands, together |-> together,
     edits |-> changes, faults |-> faults, flock |-> flock]

MainBreaks == {<<main, 2>>}

\* Two processes build two targets of one project and die anywhere.
Targets == Setting({main, tool}, {}, {}, {}, {main, tool} \X {FALSE}, 2, 1, {"crash"}, TRUE)

\* Two processes build a target while its source and its import are edited.
ImportsEdited ==
    Setting({main}, {lib}, {<<main, lib>>}, MainBreaks, {main} \X {FALSE}, 2, 2, {"delete"}, TRUE)

\* Modules that import each other; the process dies, outputs are lost.
Modules ==
    Setting({}, {main, lib}, {<<main, lib>>, <<lib, main>>}, MainBreaks,
            {main, lib} \X {FALSE}, 1, 1, {"crash", "delete"}, TRUE)

\* One target, and everything that may befall the store.
Store ==
    Setting({main}, {}, {}, MainBreaks, {main} \X BOOLEAN, 1, 2,
            {"crash", "delete", "object", "collect", "index", "clean"}, TRUE)

\* The same two targets where the platform has no flock.
Flockless == [Targets EXCEPT !.flock = FALSE, !.edits = 0]

AllProjects == {Targets, Flockless, ImportsEdited, Modules, Store}
Symmetry == Permutations(Processes)
=============================================================================
