---------------------------- MODULE MCLifecycle ----------------------------
(* Instances of Lifecycle for TLC. *)
EXTENDS Lifecycle

\* On cgroup v1, one command after the other, with failing steps.
Sequential ==
    [ops |-> AllOps, signals |-> {"KILL"}, active |-> 1, alone |-> TRUE,
     creates |-> 2, v1 |-> TRUE, mayCrash |-> FALSE,
     mayFail |-> {"config", "spawn", "freeze", "cgroup", "hooks"}]

\* The same on cgroup v2, where the freezer works.
SequentialV2 == [Sequential EXCEPT !.v1 = FALSE, !.mayFail = @ \ {"freeze"}]

\* One command after the other, each of which may die or fail anywhere.
Crashing ==
    [Sequential EXCEPT !.signals = {"KILL", "TERM"}, !.v1 = FALSE,
                       !.mayCrash = TRUE, !.mayFail = Fallible]

\* Two commands at a time, once create has returned.  A step that fails ends its
\* command like a crash does, apart from a save of create.
Concurrent ==
    [Crashing EXCEPT !.signals = {"KILL"}, !.active = 2, !.creates = 1,
                     !.mayFail = {"open"}]

\* The same where remove() may fail or stop nothing.
Unremoved ==
    [Concurrent EXCEPT !.ops = {"create", "start", "delete"}, !.mayFail = {"remove"}]

MCEnvironments == {Sequential, SequentialV2, Crashing, Concurrent, Unremoved}

\* A pause and a kill of a started container, on cgroup v1.
PauseKill ==
    {[Sequential EXCEPT !.ops = {"create", "start", "kill", "pause"}, !.active = 2,
                        !.creates = 1, !.mayFail = {}]}

\* A created container is sent a signal it may ignore.
KillCreated ==
    {[Sequential EXCEPT !.ops = {"create", "start", "kill"}, !.signals = {"TERM"},
                        !.creates = 1, !.v1 = FALSE, !.mayFail = {}]}

\* A delete while the container is being created.
DeleteCreating ==
    {[Sequential EXCEPT !.ops = {"create", "delete"}, !.active = 2, !.alone = FALSE,
                        !.creates = 1, !.v1 = FALSE, !.mayFail = {}]}
=============================================================================
