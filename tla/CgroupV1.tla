------------------------------ MODULE CgroupV1 ------------------------------
(***************************************************************************)
(* The cgroup v1 manager: a container has one cgroup in every mounted      *)
(* hierarchy.  add_task, apply and remove walk the hierarchies one by one, *)
(* in the order of a hash map, and stop at the first error, while another  *)
(* container below the same parent is set up and torn down, processes fork *)
(* and killed processes take their time to die.  A new cpuset is filled in *)
(* file by file and level by level, each a read of the cgroup above, a     *)
(* read of the cgroup and a write.                                         *)
(***************************************************************************)
EXTENDS Integers, Sequences, Functions

CONSTANTS
    Containers,   \* the containers of this host
    Layouts,      \* each a set of mount points; a mount point is a sequence of names
    Requests,     \* each a function from the controllers a spec limits to a value
    RootCpus,     \* the cpus (and memory nodes) of the machine
    MaxForks,     \* bound: forks inside the containers
    Tries         \* rmdir attempts of delete_with_retry (4 in the code)

VARIABLES
    layout,    \* the mount points in /proc/self/mountinfo
    request,   \* [container -> the request]
    v1Dirs,      \* [mount point -> cgroups that exist], a cgroup a sequence of names
    cpuset,    \* [cgroup of the cpuset hierarchy -> [cpus, mems]]
    member,    \* [process -> [mount point -> its cgroup]]
    killed,    \* processes with a pending SIGKILL, or exiting after a failed add_task
    forks,     \* forks so far
    v1Op,        \* [container -> what the runtime is doing for it]
    v1Todo,      \* [container -> controllers (hierarchies) still to be handled]
    v1At,        \* [container -> <<the hierarchy in progress>>, <<>> between two]
    v1Result     \* [container -> the outcome of the last operation]

v1Vars == <<layout, request, v1Dirs, cpuset, member, killed, forks, v1Op, v1Todo, v1At, v1Result>>

CONTROLLERS == {"cpu", "cpuacct", "cpuset", "devices", "net_prio", "net_cls"}
Parent == <<"youki">>
CgroupOf(c) == <<"youki", c>>
InitPid(c) == <<c, "init">>
ExecPid(c) == <<c, "exec">>
ChildPid(c) == <<c, "child">>
Pids == Containers \X {"init", "exec", "child"}
V1Root == <<>>

-----------------------------------------------------------------------------
\* The names under which a controller's hierarchy is mounted, alone or joint
KnownNames(ctrl) ==
    {<<ctrl>>} \cup {joint \in {<<"net_cls", "net_prio">>, <<"net_prio", "net_cls">>, <<"cpu", "cpuacct">>} :
                        ctrl \in {joint[1], joint[2]}}

\* get_subsystem_mount_point: the first cgroup mount whose last component is the
\* controller's name or one of the known joint names.
MountPoint(ctrl) == KnownNames(ctrl) \cap layout

\* Manager::new: the hierarchies this system has; the others are only warned of.
Subsystems == {ctrl \in CONTROLLERS : MountPoint(ctrl) # {}}
PathOf(ctrl) == CHOOSE mp \in MountPoint(ctrl) : TRUE

\* Kernel: a process that dies leaves every cgroup.
V1Alive == DOMAIN member
ProcsIn(mp, cg) == {p \in V1Alive : member[p][mp] = cg}
Joined(pid, groups) == [p \in V1Alive \cup {pid} |-> IF p = pid THEN groups ELSE member[p]]

\* get_all_pids reads the devices hierarchy, and fails when there is none.
GetAllPids(c) ==
    IF "devices" \in Subsystems THEN {ProcsIn(PathOf("devices"), CgroupOf(c))} ELSE {}

\* fs::create_dir_all; in the cpuset hierarchy a new cgroup starts empty.
Made(mp, c) == v1Dirs[mp] \cup {V1Root, Parent, CgroupOf(c)}
Empty == [cpus |-> {}, mems |-> {}]
CpusetAfter(mp, c) ==
    IF mp = <<"cpuset">>
    THEN [g \in Made(mp, c) |-> IF g \in DOMAIN cpuset THEN cpuset[g] ELSE Empty]
    ELSE cpuset

-----------------------------------------------------------------------------
Step(ctrl, step) ==
    [ctrl |-> ctrl, step |-> step, pids |-> {}, left |-> Tries,
     file |-> "cpus", cg |-> Parent, value |-> {}]
Idle(c) == v1At[c] = <<>> /\ v1Todo[c] = {}

V1Init ==
    /\ layout \in Layouts /\ request \in [Containers -> Requests]
    /\ v1Dirs = [mp \in layout |-> {V1Root}]
    /\ cpuset = [g \in {V1Root} |-> [cpus |-> RootCpus, mems |-> {0}]]
    /\ member = [p \in {InitPid(c) : c \in Containers} |-> [mp \in layout |-> V1Root]]
    /\ killed = {} /\ forks = 0
    /\ v1Op = [c \in Containers |-> "new"] /\ v1Todo = [c \in Containers |-> {}]
    /\ v1At = [c \in Containers |-> <<>>] /\ v1Result = [c \in Containers |-> "none"]

Pid(c) == IF v1Op[c] = "exec" THEN ExecPid(c) ELSE InitPid(c)
Finish(c, r) ==
    /\ v1Result' = [v1Result EXCEPT ![c] = r] /\ v1At' = [v1At EXCEPT ![c] = <<>>]
    /\ v1Todo' = [v1Todo EXCEPT ![c] = {}]

\* add_task begins, for the init process or for one joining by exec.
BeginAddTask(c) ==
    /\ v1Op[c] = "new" /\ Idle(c)
    /\ v1Op' = [v1Op EXCEPT ![c] = "add"] /\ v1Todo' = [v1Todo EXCEPT ![c] = Subsystems]
    /\ UNCHANGED <<layout, request, v1Dirs, cpuset, member, killed, forks, v1At, v1Result>>

BeginExec(c) ==
    /\ v1Op[c] = "apply" /\ Idle(c) /\ v1Result[c] = "ok" /\ ExecPid(c) \notin V1Alive
    /\ member' = Joined(ExecPid(c), [mp \in layout |-> V1Root])
    /\ v1Op' = [v1Op EXCEPT ![c] = "exec"] /\ v1Todo' = [v1Todo EXCEPT ![c] = Subsystems]
    /\ v1Result' = [v1Result EXCEPT ![c] = "none"]
    /\ UNCHANGED <<layout, request, v1Dirs, cpuset, killed, forks, v1At>>

\* The next hierarchy of an add_task: create_dir_all makes its directory.
AddTaskDir(c) ==
    /\ v1Op[c] \in {"add", "exec"} /\ v1At[c] = <<>>
    /\ \E ctrl \in v1Todo[c] :
        LET mp == PathOf(ctrl)
        IN  /\ v1Dirs' = [v1Dirs EXCEPT ![mp] = Made(mp, c)]
            /\ cpuset' = CpusetAfter(mp, c)
            /\ v1At' = [v1At EXCEPT ![c] = <<Step(ctrl, IF ctrl = "cpuset" THEN "above" ELSE "procs")>>]
    /\ UNCHANGED <<layout, request, member, killed, forks, v1Op, v1Todo, v1Result>>

\* ensure_not_empty walks down from the mount point, once for the cpus and once for
\* the memory nodes.
Filling(c, step) == v1Op[c] \in {"add", "exec"} /\ v1At[c] # <<>> /\ v1At[c][1].step = step
Above(g) == IF g = Parent THEN V1Root ELSE Parent

(* mutant: the walk stops above the last component *)
NextFill_short(c, a) ==
    IF a.file = "cpus" THEN [Step(a.ctrl, "above") EXCEPT !.file = "mems"]
    ELSE Step(a.ctrl, "procs")

NextFill(c, a) ==
    IF a.cg = Parent THEN [Step(a.ctrl, "above") EXCEPT !.file = a.file, !.cg = CgroupOf(c)]
    ELSE IF a.file = "cpus" THEN [Step(a.ctrl, "above") EXCEPT !.file = "mems"]
    ELSE Step(a.ctrl, "procs")

\* The value of the cgroup above is read; an empty one is the error EmptyParent.
FillAbove(c) ==
    /\ Filling(c, "above")
    /\ LET a == v1At[c][1]
           value == cpuset[Above(a.cg)][a.file]
       IN  IF value = {} THEN Finish(c, "error") /\ killed' = killed \cup {Pid(c)}
           ELSE /\ v1At' = [v1At EXCEPT ![c] = <<[a EXCEPT !.step = "below", !.value = value]>>]
                /\ UNCHANGED <<killed, v1Todo, v1Result>>
    /\ UNCHANGED <<layout, request, v1Dirs, cpuset, member, forks, v1Op>>

\* A cgroup that has a value keeps it.
FillBelow(c) ==
    /\ Filling(c, "below")
    /\ LET a == v1At[c][1]
       IN  v1At' = [v1At EXCEPT ![c] =
                       <<IF cpuset[a.cg][a.file] = {} THEN [a EXCEPT !.step = "write"] ELSE NextFill(c, a)>>]
    /\ UNCHANGED <<layout, request, v1Dirs, cpuset, member, killed, forks, v1Op, v1Todo, v1Result>>

\* One that had none gets what was read above it.
FillWrite(c) ==
    /\ Filling(c, "write")
    /\ LET a == v1At[c][1]
       IN  /\ cpuset' = [cpuset EXCEPT ![a.cg] = [@ EXCEPT ![a.file] = a.value]]
           /\ v1At' = [v1At EXCEPT ![c] = <<NextFill(c, a)>>]
    /\ UNCHANGED <<layout, request, v1Dirs, member, killed, forks, v1Op, v1Todo, v1Result>>

\* The pid is written to cgroup.procs.  The kernel refuses it with ENOSPC for a
\* cpuset without cpus or memory nodes.
AddTaskProcs(c) ==
    /\ Filling(c, "procs")
    /\ LET ctrl == v1At[c][1].ctrl
           mp == PathOf(ctrl)
           cg == CgroupOf(c)
           empty == ctrl = "cpuset" /\ {} \in {cpuset[cg].cpus, cpuset[cg].mems}
       IN  IF empty THEN Finish(c, "ENOSPC") /\ killed' = killed \cup {Pid(c)} /\ UNCHANGED member
           ELSE /\ member' = [member EXCEPT ![Pid(c)] = [@ EXCEPT ![mp] = cg]]
                /\ v1Todo' = [v1Todo EXCEPT ![c] = @ \ {ctrl}] /\ v1At' = [v1At EXCEPT ![c] = <<>>]
                /\ v1Result' = [v1Result EXCEPT ![c] = IF v1Todo[c] = {ctrl} THEN "ok" ELSE @]
                /\ UNCHANGED killed
    /\ UNCHANGED <<layout, request, v1Dirs, cpuset, forks, v1Op>>

\* Any other call may fail, and the operation with it; the hierarchies not reached
\* yet are left as they are.  The process that was to be added, which made the
\* call itself, exits.
V1Fails(c) ==
    /\ v1Op[c] # "new" /\ v1Todo[c] # {}
    /\ Finish(c, "error")
    /\ killed' = IF v1Op[c] \in {"add", "exec"} THEN killed \cup {Pid(c)} ELSE killed
    /\ UNCHANGED <<layout, request, v1Dirs, cpuset, member, forks, v1Op>>

\* apply: get_required_controllers refuses a limit whose controller is missing
\* before anything is written.
BeginApply(c) ==
    /\ v1Op[c] = "add" /\ Idle(c) /\ v1Result[c] = "ok"
    /\ v1Op' = [v1Op EXCEPT ![c] = "apply"]
    /\ IF DOMAIN request[c] \subseteq Subsystems
       THEN /\ v1Todo' = [v1Todo EXCEPT ![c] = DOMAIN request[c]] /\ UNCHANGED v1At
            /\ v1Result' = [v1Result EXCEPT ![c] = IF DOMAIN request[c] = {} THEN "ok" ELSE "none"]
       ELSE Finish(c, "required")
    /\ UNCHANGED <<layout, request, v1Dirs, cpuset, member, killed, forks>>

\* One controller's apply: CpuSet::apply writes the cpus, which the kernel refuses
\* outside the parent's; the other controllers are CpuControllers and its like.
ApplyOne(c) ==
    /\ v1Op[c] = "apply" /\ v1At[c] = <<>>
    /\ \E ctrl \in v1Todo[c] :
        LET cg == CgroupOf(c)
            fits == request[c][ctrl] \subseteq cpuset[Parent].cpus
            done == IF v1Todo[c] = {ctrl} THEN "ok" ELSE v1Result[c]
        IN  IF ctrl # "cpuset"
            THEN /\ v1Todo' = [v1Todo EXCEPT ![c] = @ \ {ctrl}] /\ UNCHANGED <<cpuset, v1At>>
                 /\ v1Result' = [v1Result EXCEPT ![c] = done]
            ELSE IF ~fits THEN Finish(c, "error") /\ UNCHANGED cpuset
            ELSE /\ cpuset' = [cpuset EXCEPT ![cg] = [@ EXCEPT !.cpus = request[c][ctrl]]]
                 /\ v1Todo' = [v1Todo EXCEPT ![c] = @ \ {ctrl}] /\ UNCHANGED v1At
                 /\ v1Result' = [v1Result EXCEPT ![c] = done]
    /\ UNCHANGED <<layout, request, v1Dirs, member, killed, forks, v1Op>>

\* remove begins: the container is deleted, or its creation failed, or an earlier
\* remove failed and is tried again.
BeginRemove(c) ==
    /\ Idle(c) /\ v1Op[c] # "new" /\ ~(v1Op[c] = "remove" /\ v1Result[c] = "ok")
    /\ v1Op' = [v1Op EXCEPT ![c] = "remove"] /\ v1Todo' = [v1Todo EXCEPT ![c] = Subsystems]
    /\ v1Result' = [v1Result EXCEPT ![c] = "none"]
    /\ UNCHANGED <<layout, request, v1Dirs, cpuset, member, killed, forks, v1At>>

LeaveHierarchy(c, ctrl) ==
    /\ v1Todo' = [v1Todo EXCEPT ![c] = @ \ {ctrl}] /\ v1At' = [v1At EXCEPT ![c] = <<>>]
    /\ v1Result' = [v1Result EXCEPT ![c] = IF v1Todo[c] = {ctrl} THEN "ok" ELSE @]

\* The next hierarchy of a remove: one that is gone, a joint mount already
\* handled included, is passed over; else cgroup.procs is read.
RemoveRead(c) ==
    /\ v1Op[c] = "remove" /\ v1At[c] = <<>>
    /\ \E ctrl \in v1Todo[c] :
        IF CgroupOf(c) \notin v1Dirs[PathOf(ctrl)] THEN LeaveHierarchy(c, ctrl)
        ELSE /\ v1At' = [v1At EXCEPT ![c] = <<[Step(ctrl, "kill") EXCEPT
                                              !.pids = ProcsIn(PathOf(ctrl), CgroupOf(c))]>>]
             /\ UNCHANGED <<v1Todo, v1Result>>
    /\ UNCHANGED <<layout, request, v1Dirs, cpuset, member, killed, forks, v1Op>>

\* Every process read is sent SIGKILL; errors are ignored.
RemoveKill(c) ==
    /\ v1Op[c] = "remove" /\ v1At[c] # <<>> /\ v1At[c][1].step = "kill"
    /\ killed' = killed \cup (v1At[c][1].pids \cap V1Alive)
    /\ v1At' = [v1At EXCEPT ![c] = <<Step(v1At[c][1].ctrl, "rmdir")>>]
    /\ UNCHANGED <<layout, request, v1Dirs, cpuset, member, forks, v1Op, v1Todo, v1Result>>

\* delete_with_retry: rmdir fails while a process is left; after the last attempt
\* remove fails, and the hierarchies not reached yet keep their cgroups.
RemoveDir(c) ==
    /\ v1Op[c] = "remove" /\ v1At[c] # <<>> /\ v1At[c][1].step = "rmdir"
    /\ LET mp == PathOf(v1At[c][1].ctrl)
       IN  IF ProcsIn(mp, CgroupOf(c)) = {}
           THEN /\ v1Dirs' = [v1Dirs EXCEPT ![mp] = @ \ {CgroupOf(c)}]
                /\ cpuset' = IF mp = <<"cpuset">> THEN Restrict(cpuset, v1Dirs'[mp]) ELSE cpuset
                /\ LeaveHierarchy(c, v1At[c][1].ctrl)
           ELSE /\ UNCHANGED <<v1Dirs, cpuset>>
                /\ IF v1At[c][1].left > 1
                   THEN v1At' = [v1At EXCEPT ![c] = <<[v1At[c][1] EXCEPT !.left = @ - 1]>>] /\ UNCHANGED <<v1Todo, v1Result>>
                   ELSE Finish(c, "error")
    /\ UNCHANGED <<layout, request, member, killed, forks, v1Op>>

\* Kernel: a container process forks into its parent's cgroups; a killed process
\* dies.
V1Fork(c) ==
    /\ v1Op[c] \in {"apply", "exec", "remove"} /\ forks < MaxForks
    /\ InitPid(c) \in V1Alive \ killed /\ ChildPid(c) \notin V1Alive
    /\ \E mp \in layout : member[InitPid(c)][mp] = CgroupOf(c)
    /\ member' = Joined(ChildPid(c), member[InitPid(c)]) /\ forks' = forks + 1
    /\ UNCHANGED <<layout, request, v1Dirs, cpuset, killed, v1Op, v1Todo, v1At, v1Result>>

Die(p) ==
    /\ p \in killed \cap V1Alive
    /\ member' = Restrict(member, V1Alive \ {p})
    /\ UNCHANGED <<layout, request, v1Dirs, cpuset, killed, forks, v1Op, v1Todo, v1At, v1Result>>

Removing(c) == RemoveRead(c) \/ RemoveKill(c) \/ RemoveDir(c)

V1Next ==
    \/ \E c \in Containers :
        \/ BeginAddTask(c) \/ BeginExec(c) \/ AddTaskDir(c)
        \/ FillAbove(c) \/ FillBelow(c) \/ FillWrite(c) \/ AddTaskProcs(c)
        \/ BeginApply(c) \/ ApplyOne(c)
        \/ BeginRemove(c) \/ RemoveRead(c) \/ RemoveKill(c) \/ RemoveDir(c)
        \/ V1Fails(c) \/ V1Fork(c)
    \/ \E p \in Pids : Die(p)

V1Spec == V1Init /\ [][V1Next]_v1Vars /\ \A c \in Containers : WF_v1Vars(Removing(c))

-----------------------------------------------------------------------------
\* What the variables hold.
V1TypeOK ==
    /\ layout \in Layouts /\ request \in [Containers -> Requests]
    /\ DOMAIN v1Dirs = layout /\ DOMAIN member \subseteq Pids /\ killed \subseteq Pids
    /\ \A mp \in layout : v1Dirs[mp] \subseteq {V1Root, Parent} \cup {CgroupOf(c) : c \in Containers}
    /\ <<"cpuset">> \in layout => DOMAIN cpuset = v1Dirs[<<"cpuset">>]
    /\ forks \in 0 .. MaxForks /\ \A c \in Containers : v1Todo[c] \subseteq CONTROLLERS

\* Once add_task has succeeded the process is in the container's cgroup in every
\* mounted hierarchy, joint mounts under either order of their names included: no
\* hierarchy limits, freezes or lists only a part of the container.
PlacedEverywhere ==
    \A c \in Containers :
        v1Op[c] \in {"add", "apply", "exec"} /\ v1Result[c] = "ok" =>
            \A p \in {InitPid(c), ExecPid(c)} \cap V1Alive : \A mp \in layout :
                /\ member[p][mp] = CgroupOf(c)
                /\ \A found \in GetAllPids(c) : p \in found

\* ensure_not_empty does what its comment says it is for: moving a process into
\* the container's cpuset is never refused with ENOSPC, whatever another container
\* does below the same parent between any two of its reads and writes.
CpusetIsNeverEmpty == \A c \in Containers : v1Result[c] # "ENOSPC"

\* When remove reports success no hierarchy has the container's cgroup and none of
\* its processes, forked meanwhile or not, is left, save one that never got into a
\* cgroup because its add_task failed first, and that is exiting.
RemovedIsGone ==
    \A c \in Containers :
        v1Op[c] = "remove" /\ v1Result[c] = "ok" =>
            /\ \A mp \in layout : CgroupOf(c) \notin v1Dirs[mp]
            /\ \A p \in {InitPid(c), ExecPid(c), ChildPid(c)} \cap V1Alive :
                  p \in killed /\ \A mp \in layout : member[p][mp] = V1Root

\* v1: after a successful add_task the process is in the container's cgroup of every
\* mounted hierarchy, moving it there is never refused because a cpuset is empty, whatever
\* a sibling does between its reads and writes, and after a successful remove neither the
\* cgroups nor a process that was added is left, whichever call of the operations before
\* failed.
InEveryHierarchy == PlacedEverywhere /\ CpusetIsNeverEmpty /\ RemovedIsGone

\* remove ends, with success or with an error, even when a process it did not read
\* keeps a cgroup busy.
RemoveEnds ==
    \A c \in Containers : v1Op[c] = "remove" ~> (v1Op[c] = "remove" /\ v1Result[c] \in {"ok", "error"})
=============================================================================
