--------------------------- MODULE ContainerLife ---------------------------
(***************************************************************************)
(* What the commands promise of one container id, whatever they do to      *)
(* files, cgroups and freezers: a container process is created, may be     *)
(* started once, and stops for good; there is never more than one that has *)
(* not been stopped; and the id leads to it (youki_config.json, through    *)
(* which every later command finds the cgroup) until it has been stopped.  *)
(* Where the removal of a cgroup may fail, the promise leaves out the      *)
(* processes that such a failure lost.                                     *)
(***************************************************************************)
CONSTANT Pids   \* container processes, one for each create

VARIABLES
    life,   \* [Pids -> {"unborn", "created", "running", "stopped"}]
    known,  \* does the id lead to a container?
    lost,   \* the processes that were given up alive
    sound   \* does the removal of a cgroup always kill its processes?

vars == <<life, known, lost, sound>>

Live == {p \in Pids : life[p] \in {"created", "running"}}

Init ==
    /\ life = [p \in Pids |-> "unborn"]
    /\ known = FALSE
    /\ lost = {}
    /\ sound \in BOOLEAN

\* create claims the id ...
Register == known' = TRUE /\ UNCHANGED <<life, lost, sound>>

\* ... and brings a process to life.
Create(p) ==
    /\ known
    /\ Live \subseteq lost
    /\ life[p] = "unborn"
    /\ life' = [life EXCEPT ![p] = "created"]
    /\ UNCHANGED <<known, lost, sound>>

Start(p) ==
    /\ known
    /\ life[p] = "created"
    /\ life' = [life EXCEPT ![p] = "running"]
    /\ UNCHANGED <<known, lost, sound>>

\* Processes exit, or are sent a signal they do not survive.
Stop(P) ==
    /\ P \subseteq Live
    /\ life' = [p \in Pids |-> IF p \in P THEN "stopped" ELSE life[p]]
    /\ UNCHANGED <<known, lost, sound>>

\* A removal that killed nobody is passed over.
GiveUp ==
    /\ ~sound
    /\ lost' = lost \cup Live
    /\ UNCHANGED <<life, known, sound>>

Forget ==
    /\ Live \subseteq lost
    /\ known' = FALSE
    /\ UNCHANGED <<life, lost, sound>>

Next ==
    \/ Register \/ GiveUp \/ Forget
    \/ \E p \in Pids : Create(p) \/ Start(p)
    \/ \E P \in SUBSET Pids : Stop(P)

Spec == Init /\ [][Next]_vars
=============================================================================
