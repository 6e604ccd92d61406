-------------------------- MODULE HierarchyProofs --------------------------
(***************************************************************************)
(* The manager of cgroup v1, for every number of containers, every request *)
(* and all hierarchies it knows: a container is in every hierarchy it      *)
(* should be in, and leaves them all (CgroupV1).                           *)
(*                                                                         *)
(* The invariant says per container where its operation stands, which      *)
(* processes it has and which hierarchies have them (Standing, People,     *)
(* Placed), and of the host that nobody else is in a container's cgroup    *)
(* (HostInv).  A step of one container leaves the others alone (Frame), so *)
(* each operation is looked at for its own container only (OneActs).       *)
(***************************************************************************)
EXTENDS CgroupV1, TLAPS

-----------------------------------------------------------------------------
(* The hierarchies of cgroup v1. *)

\* The machine has cpus, and every mounted hierarchy is the one of some controller.
Hosted ==
    /\ RootCpus # {}
    /\ \A l \in Layouts : \A mp \in l : \E ctrl \in CONTROLLERS : KnownNames(ctrl) \cap l = {mp}

\* The cgroups and the processes there may be.
Groups == {V1Root, Parent} \cup {CgroupOf(c) : c \in Containers}
PidsOf(c) == {InitPid(c), ExecPid(c), ChildPid(c)}
Living(c) == PidsOf(c) \cap V1Alive

\* The cgroup g has cpus and memory nodes.
Filled(g) == cpuset[g].cpus # {} /\ cpuset[g].mems # {}

\* Every process is in a cgroup that exists, and none in the parent's.
Housed ==
    /\ \A mp \in layout : V1Root \in v1Dirs[mp]
    /\ \A p \in V1Alive : \A mp \in layout : member[p][mp] \in v1Dirs[mp] \ {Parent}

\* What the hierarchies have in common: only processes of a container are in its cgroup,
\* and the cpuset at the mount point is never empty.
HostInv ==
    /\ layout \in Layouts /\ v1Dirs \in [layout -> SUBSET Groups]
    /\ V1Alive \subseteq Pids /\ member \in [V1Alive -> [layout -> Groups]]
    /\ DOMAIN v1Op = Containers /\ DOMAIN v1Todo = Containers
    /\ DOMAIN v1At = Containers /\ DOMAIN v1Result = Containers
    /\ \A c \in Containers : \A mp \in layout : ProcsIn(mp, CgroupOf(c)) \subseteq PidsOf(c)
    /\ V1Root \in DOMAIN cpuset /\ Filled(V1Root)
    /\ \A g \in DOMAIN cpuset : DOMAIN cpuset[g] = {"cpus", "mems"}
    /\ <<"cpuset">> \in layout => DOMAIN cpuset = v1Dirs[<<"cpuset">>]
    /\ Housed

\* Where the operation on a container stands.
Standing(c) ==
    /\ v1Op[c] \in {"new", "add", "apply", "exec", "remove"}
    /\ v1Op[c] = "new" => v1Result[c] = "none"
    /\ v1Op[c] \in {"new", "apply"} => v1At[c] = <<>>
    /\ v1Op[c] \in {"add", "exec"} =>
          v1Result[c] \in {"none", "ok", "error"} /\ (v1Result[c] # "none" => v1Todo[c] = {})
    /\ v1Op[c] = "apply" => v1Result[c] # "ENOSPC"
    /\ v1Op[c] = "remove" =>
          /\ v1Result[c] \in {"none", "ok", "error"}
          /\ v1Result[c] # "none" => v1Todo[c] = {}
          /\ v1Result[c] = "ok" => Subsystems # {}
    /\ v1Op[c] # "apply" => v1Todo[c] \subseteq Subsystems
    /\ v1At[c] # <<>> => v1At[c][1].ctrl \in v1Todo[c]

\* The process whose add_task failed.
Failed(c) == IF v1Op[c] \in {"add", "exec"} /\ v1Result[c] = "error" THEN {Pid(c)} ELSE {}

\* Which processes a container has: they live until it is removed, or their own
\* add_task fails.
People(c) ==
    /\ v1Op[c] # "remove" =>
          killed \cap PidsOf(c) = Failed(c) /\ InitPid(c) \in V1Alive \cup killed
    /\ v1Op[c] \in {"new", "add"} => Living(c) \subseteq {InitPid(c)}
    /\ v1Op[c] = "apply" => ExecPid(c) \notin V1Alive
    /\ v1Op[c] = "exec" => ExecPid(c) \in V1Alive \cup killed
    /\ v1Op[c] = "remove" /\ v1At[c] # <<>> => v1At[c][1].pids \subseteq PidsOf(c)

\* How far ensure_not_empty has come with the cpuset of a container: what it read above
\* is not empty, the cpus are there when it turns to the memory nodes, and all is there
\* at its end.
Fills(c) ==
    LET a == v1At[c][1]
    IN  /\ a.step \in {"above", "below", "write", "procs"}
        /\ a.file \in {"cpus", "mems"} /\ a.cg \in {Parent, CgroupOf(c)}
        /\ a.step \in {"below", "write"} => a.value # {}
        /\ a.file = "mems" => cpuset[CgroupOf(c)].cpus # {}
        /\ a.step = "procs" => Filled(CgroupOf(c))

\* The hierarchies an add_task has handled have the process; once it is over they all
\* have every process of the container, until the first cgroup is removed.
Placed(c) ==
    /\ v1Op[c] \in {"add", "exec"} /\ v1Result[c] # "error" =>
          \A ctrl \in Subsystems \ v1Todo[c] :
              member[Pid(c)][PathOf(ctrl)] = CgroupOf(c) /\ CgroupOf(c) \in v1Dirs[PathOf(ctrl)]
    /\ v1Op[c] \in {"add", "exec"} /\ v1At[c] # <<>> =>
          /\ CgroupOf(c) \in v1Dirs[PathOf(v1At[c][1].ctrl)]
          /\ v1At[c][1].ctrl = "cpuset" /\ CgroupOf(c) \in DOMAIN cpuset => Fills(c)
          /\ v1At[c][1].ctrl # "cpuset" => v1At[c][1].step = "procs"
    /\ v1Op[c] \in {"apply", "exec", "remove"} =>
          \A p \in Living(c) \ killed :
              (v1Op[c] = "exec" => p # ExecPid(c)) => \A mp \in layout : member[p][mp] = CgroupOf(c)
    /\ v1Op[c] \in {"apply", "exec"} => \A mp \in layout : CgroupOf(c) \in v1Dirs[mp]
    /\ v1Op[c] = "remove" /\ v1Result[c] # "error" =>
          \A ctrl \in Subsystems \ v1Todo[c] : CgroupOf(c) \notin v1Dirs[PathOf(ctrl)]

V1Inv == HostInv /\ \A c \in Containers : Standing(c) /\ People(c) /\ Placed(c)

\* Cgroups and processes are told apart by the container they belong to.
LEMMA Apart ==
    ASSUME NEW c \in Containers, NEW d \in Containers
    PROVE  /\ CgroupOf(c) # V1Root /\ CgroupOf(c) # Parent /\ V1Root # Parent
           /\ c # d => CgroupOf(c) # CgroupOf(d) /\ PidsOf(c) \cap PidsOf(d) = {}
           /\ InitPid(c) # ExecPid(c) /\ InitPid(c) # ChildPid(c) /\ ExecPid(c) # ChildPid(c)
           /\ PidsOf(c) \subseteq Pids
  <1>1. CgroupOf(c) # V1Root /\ CgroupOf(c) # Parent /\ V1Root # Parent
    BY Zenon DEF CgroupOf, V1Root, Parent
  <1>2. c # d => CgroupOf(c) # CgroupOf(d)
    BY Zenon DEF CgroupOf
  <1>3. c # d => PidsOf(c) \cap PidsOf(d) = {}
    BY DEF PidsOf, InitPid, ExecPid, ChildPid
  <1>4. InitPid(c) # ExecPid(c) /\ InitPid(c) # ChildPid(c) /\ ExecPid(c) # ChildPid(c)
    BY Zenon DEF InitPid, ExecPid, ChildPid
  <1>5. PidsOf(c) \subseteq Pids
    BY DEF PidsOf, Pids, InitPid, ExecPid, ChildPid
  <1>. QED BY Zenon, <1>1, <1>2, <1>3, <1>4, <1>5

\* Every process is one of some container.
LEMMA EachHasOne == \A p \in Pids : \E c \in Containers : p \in PidsOf(c)
  BY DEF Pids, PidsOf, InitPid, ExecPid, ChildPid

\* The manager knows every mounted hierarchy, and the cpuset one by its own name.
LEMMA Known ==
    ASSUME Hosted, layout \in Layouts
    PROVE  /\ \A ctrl \in Subsystems : PathOf(ctrl) \in layout
           /\ \A mp \in layout : \E ctrl \in Subsystems : PathOf(ctrl) = mp
           /\ \A ctrl \in Subsystems : PathOf(ctrl) = <<"cpuset">> <=> ctrl = "cpuset"
  <1>1. ASSUME NEW ctrl \in Subsystems
        PROVE  PathOf(ctrl) \in KnownNames(ctrl) \cap layout
    BY Zenon DEF Subsystems, PathOf, MountPoint
  <1>2. ASSUME NEW mp \in layout
        PROVE  \E ctrl \in Subsystems : PathOf(ctrl) = mp
    <2>1. PICK ctrl \in CONTROLLERS : KnownNames(ctrl) \cap layout = {mp}
      BY Zenon DEF Hosted
    <2>2. ctrl \in Subsystems
      BY Zenon, <2>1 DEF Subsystems, MountPoint
    <2>. QED BY Zenon, <1>1, <2>1, <2>2
  <1>3. KnownNames("cpuset") = {<<"cpuset">>}
    BY DEF KnownNames
  <1>4. \A ctrl \in CONTROLLERS : <<"cpuset">> \in KnownNames(ctrl) => ctrl = "cpuset"
    BY Zenon DEF KnownNames, CONTROLLERS
  <1>. QED BY Zenon, <1>1, <1>2, <1>3, <1>4 DEF Subsystems

\* A step of another container, or of the kernel, leaves all that this one rests on.
Frame(c) ==
    /\ layout' = layout
    /\ v1Op'[c] = v1Op[c] /\ v1Todo'[c] = v1Todo[c] /\ v1At'[c] = v1At[c] /\ v1Result'[c] = v1Result[c]
    /\ \A p \in PidsOf(c) : /\ p \in V1Alive' <=> p \in V1Alive
                            /\ p \in V1Alive => member'[p] = member[p]
                            /\ p \in killed' <=> p \in killed
    /\ \A mp \in layout : CgroupOf(c) \in v1Dirs'[mp] <=> CgroupOf(c) \in v1Dirs[mp]
    /\ CgroupOf(c) \in DOMAIN cpuset' => CgroupOf(c) \in DOMAIN cpuset /\ cpuset'[CgroupOf(c)] = cpuset[CgroupOf(c)]

\* A process that is being added lives.
LEMMA AddedLives ==
    ASSUME NEW c \in Containers, People(c), v1Op[c] \in {"add", "exec"}, v1Result[c] # "error"
    PROVE  Pid(c) \in V1Alive
  <1>1. killed \cap PidsOf(c) = {} /\ Pid(c) \in V1Alive \cup killed /\ Pid(c) \in PidsOf(c)
    BY Zenon DEF People, Failed, Pid, PidsOf
  <1>. QED BY Zenon, <1>1

\* What is known of a container is kept by such a step.
LEMMA FrameKeeps ==
    ASSUME Hosted, layout \in Layouts, NEW c \in Containers, Standing(c), People(c), Placed(c), Frame(c)
    PROVE  Standing(c)' /\ People(c)' /\ Placed(c)'
  <1>1. Subsystems' = Subsystems /\ \A ctrl : PathOf(ctrl)' = PathOf(ctrl)
    BY Zenon DEF Frame, Subsystems, PathOf, MountPoint
  <1>2. Living(c)' = Living(c)
    BY Zenon DEF Frame, Living
  <1>3. Standing(c)'
    BY Zenon, <1>1 DEF Frame, Standing
  <1>6. Failed(c)' = Failed(c) /\ (killed \cap PidsOf(c))' = killed \cap PidsOf(c)
    BY Zenon DEF Frame, Failed, Pid, PidsOf, InitPid, ExecPid, ChildPid
  <1>4. People(c)'
    BY Zenon, <1>2, <1>6 DEF Frame, People, PidsOf
  <1>5. Placed(c)'
    <2>1. Pid(c)' = Pid(c) /\ Pid(c) \in PidsOf(c)
      BY Zenon DEF Frame, Pid, PidsOf
    <2>2. v1Op[c] \in {"add", "exec"} /\ v1Result[c] # "error" => Pid(c) \in V1Alive
      BY Zenon, AddedLives DEF People, Pid
    <2>3. \A ctrl \in Subsystems : PathOf(ctrl) \in layout
      BY Zenon, Known
    <2>4. CgroupOf(c)' = CgroupOf(c)
      BY Zenon DEF CgroupOf
    <2>5. v1At[c] # <<>> /\ v1Op[c] \in {"add", "exec"} => v1At[c][1].ctrl \in Subsystems
      BY Zenon DEF Standing
    <2>6. /\ \A p \in Living(c) : member'[p] = member[p]
          /\ (Living(c) \ killed)' = Living(c) \ killed
      BY Zenon, <1>2 DEF Frame, Living
    <2>7. CgroupOf(c) \in DOMAIN cpuset' => CgroupOf(c) \in DOMAIN cpuset /\ (Fills(c)' <=> Fills(c))
      BY Zenon, <2>4 DEF Frame, Fills, Filled
    <2>. QED BY <1>1, <1>2, <2>1, <2>2, <2>3, <2>4, <2>5, <2>6, <2>7 DEF Frame, Placed
  <1>. QED BY Zenon, <1>3, <1>4, <1>5

\* A step is one container's own, and others are left what they rest on.
LEMMA OneActs ==
    ASSUME Hosted, V1Inv, NEW c \in Containers, HostInv',
           \A d \in Containers \ {c} : Frame(d), Standing(c)', People(c)', Placed(c)'
    PROVE  V1Inv'
  BY Zenon, FrameKeeps DEF V1Inv, HostInv

\* The invariant holds on a host without containers' cgroups.
LEMMA V1Start == Hosted /\ V1Init => V1Inv
PROOF
  <1>. SUFFICES ASSUME Hosted, V1Init PROVE V1Inv
    BY Zenon
  <1>1. \A c \in Containers : /\ CgroupOf(c) # V1Root /\ CgroupOf(c) # Parent
                              /\ InitPid(c) # ExecPid(c) /\ InitPid(c) # ChildPid(c)
                              /\ PidsOf(c) \subseteq Pids
    BY Zenon, Apart
  <1>2. V1Alive = {InitPid(c) : c \in Containers}
    BY Zenon DEF V1Init, V1Alive
  <1>3. ASSUME NEW c \in Containers PROVE Living(c) = {InitPid(c)}
    <2>1. ASSUME NEW d \in Containers, InitPid(d) \in PidsOf(c) PROVE d = c
      BY Zenon, <2>1, Apart DEF PidsOf
    <2>2. ExecPid(c) \notin V1Alive /\ ChildPid(c) \notin V1Alive
      BY Zenon, <1>1, <1>2, <2>1 DEF PidsOf
    <2>. QED BY Zenon, <1>2, <2>2 DEF Living, PidsOf
  <1>4. HostInv
    <2>1. V1Alive \subseteq Pids
      BY Zenon, <1>1, <1>2 DEF PidsOf
    <2>2. \A c \in Containers : \A mp \in layout : ProcsIn(mp, CgroupOf(c)) = {}
      BY Zenon, <1>1, <1>2 DEF V1Init, ProcsIn
    <2>3. V1Root \in DOMAIN cpuset /\ Filled(V1Root)
      BY Zenon DEF V1Init, Filled, Hosted
    <2>4. \A g \in DOMAIN cpuset : DOMAIN cpuset[g] = {"cpus", "mems"}
      BY Zenon DEF V1Init
    <2>5. <<"cpuset">> \in layout => DOMAIN cpuset = v1Dirs[<<"cpuset">>]
      BY Zenon DEF V1Init
    <2>6. v1Dirs \in [layout -> SUBSET Groups] /\ member \in [V1Alive -> [layout -> Groups]]
      BY Zenon, <1>2 DEF V1Init, Groups
    <2>7. Housed
      BY Zenon, <1>2, V1Root # Parent DEF V1Init, Housed, V1Root, Parent
    <2>. QED BY Zenon, <2>1, <2>2, <2>3, <2>4, <2>5, <2>6, <2>7 DEF HostInv, V1Init
  <1>5. ASSUME NEW c \in Containers PROVE Standing(c) /\ People(c) /\ Placed(c)
    <2>1. InitPid(c) \in V1Alive
      BY Zenon, <1>2
    <2>. QED BY Zenon, <1>3, <2>1 DEF V1Init, Standing, People, Placed, Failed
  <1>. QED BY Zenon, <1>4, <1>5 DEF V1Inv

\* A step that makes or moves nothing keeps what the hierarchies have in common.
LEMMA HostStays ==
    ASSUME HostInv, UNCHANGED <<layout, v1Dirs, cpuset, member>>,
           DOMAIN v1Op' = DOMAIN v1Op, DOMAIN v1Todo' = DOMAIN v1Todo, DOMAIN v1At' = DOMAIN v1At,
           DOMAIN v1Result' = DOMAIN v1Result
    PROVE  HostInv'
  BY Zenon DEF HostInv, Housed, V1Alive, ProcsIn, Filled, CgroupOf, V1Root, Groups, PidsOf, InitPid, ExecPid, ChildPid, Parent

\* The invariant holds when an add_task begins.
LEMMA StepBeginAddTask ==
    ASSUME Hosted, V1Inv, NEW c \in Containers, BeginAddTask(c)
    PROVE  V1Inv'
  <1>. USE DEF BeginAddTask
  <1>1. HostInv'
    BY Zenon, HostStays DEF V1Inv, HostInv
  <1>2. \A d \in Containers \ {c} : Frame(d)
    BY Zenon DEF V1Inv, HostInv, Frame, V1Alive
  <1>3. Subsystems' = Subsystems /\ Living(c)' = Living(c) /\ V1Alive' = V1Alive
    BY Zenon DEF Subsystems, MountPoint, Living, V1Alive
  <1>4. Standing(c)'
    BY Zenon, <1>3 DEF V1Inv, HostInv, Standing, Idle
  <1>5. People(c)'
    <2>1. v1Op[c] = "new" /\ v1Op'[c] = "add" /\ v1Result[c] = "none" /\ v1Result' = v1Result /\ killed' = killed
      BY Zenon DEF V1Inv, HostInv, Standing
    <2>2. Failed(c) = {} /\ Failed(c)' = {}
      BY Zenon, <2>1 DEF Failed
    <2>. QED BY Zenon, <1>3, <2>1, <2>2 DEF V1Inv, People
  <1>6. Placed(c)'
    BY Zenon, <1>3 DEF V1Inv, HostInv, Placed, Standing
  <1>. QED BY Zenon, <1>1, <1>2, <1>4, <1>5, <1>6, OneActs

\* The invariant holds when an exec begins.
LEMMA StepBeginExec ==
    ASSUME Hosted, V1Inv, NEW c \in Containers, BeginExec(c)
    PROVE  V1Inv'
  <1>. USE DEF BeginExec
  <1>. DEFINE e == ExecPid(c)
  <1>1. /\ V1Alive' = V1Alive \cup {e} /\ member'[e] = [mp \in layout |-> V1Root]
        /\ \A p \in V1Alive : member'[p] = member[p]
        /\ e \in PidsOf(c) /\ e \notin V1Alive /\ e \in Pids
        /\ member' = [p \in V1Alive' |-> IF p = e THEN [mp \in layout |-> V1Root] ELSE member[p]]
    BY Zenon, Apart DEF V1Alive, Joined, PidsOf
  <1>2. HostInv'
    <2>1. member' \in [V1Alive' -> [layout' -> Groups]] /\ V1Alive' \subseteq Pids
      BY <1>1 DEF V1Inv, HostInv, Groups
    <2>2. \A d \in Containers : \A mp \in layout : ProcsIn(mp, CgroupOf(d))' \subseteq PidsOf(d)
      <3>1. \A d \in Containers : CgroupOf(d) # V1Root /\ CgroupOf(d)' = CgroupOf(d)
        BY Zenon, Apart
      <3>2. \A d \in Containers : \A mp \in layout : ProcsIn(mp, CgroupOf(d))' = ProcsIn(mp, CgroupOf(d))
        BY <1>1, <3>1 DEF ProcsIn
      <3>. QED BY <3>2 DEF V1Inv, HostInv
    <2>3. Groups' = Groups /\ (Filled(V1Root)' <=> Filled(V1Root))
      BY Zenon DEF Groups, Filled
    <2>4. Housed'
      <3>1. V1Root # Parent
        BY Zenon, Apart
      <3>2. ASSUME NEW q \in V1Alive', NEW m \in layout PROVE member'[q][m] \in v1Dirs[m] \ {Parent}
        <4>1. CASE q = e
          <5>1. member'[q][m] = V1Root
            BY Zenon, <1>1, <4>1
          <5>. QED BY Zenon, <3>1, <5>1 DEF V1Inv, HostInv, Housed
        <4>2. CASE q # e
          BY Zenon, <1>1, <4>2 DEF V1Inv, HostInv, Housed
        <4>. QED BY Zenon, <4>1, <4>2
      <3>. QED BY Zenon, <1>1, <3>2 DEF V1Inv, HostInv, Housed
    <2>. QED BY Zenon, <2>1, <2>2, <2>3, <2>4 DEF V1Inv, HostInv
  <1>3. \A d \in Containers \ {c} : Frame(d)
    BY <1>1, Apart DEF V1Inv, HostInv, Frame
  <1>4. Subsystems' = Subsystems
    BY Zenon DEF Subsystems, MountPoint
  <1>5. Standing(c)'
    BY Zenon, <1>4 DEF V1Inv, HostInv, Standing, Idle
  <1>6. People(c)'
    <2>1. /\ v1Op[c] = "apply" /\ v1Op'[c] = "exec" /\ v1Result'[c] = "none" /\ killed' = killed
      BY Zenon DEF V1Inv, HostInv
    <2>2. Failed(c) = {} /\ Failed(c)' = {}
      BY Zenon, <2>1 DEF Failed
    <2>. QED BY Zenon, <1>1, <2>1, <2>2 DEF V1Inv, People
  <1>7. Placed(c)'
    <2>1. \A p \in Living(c)' : p # e => p \in Living(c) /\ member'[p] = member[p] /\ killed' = killed
      BY Zenon, <1>1 DEF Living
    <2>2. v1Op'[c] = "exec" /\ v1Todo'[c] = Subsystems /\ v1At'[c] = <<>>
      BY Zenon DEF V1Inv, HostInv, Standing, Idle
    <2>. QED BY <1>1, <1>4, <2>1, <2>2 DEF V1Inv, HostInv, Placed
  <1>. QED BY Zenon, <1>2, <1>3, <1>5, <1>6, <1>7, OneActs

\* The invariant holds when a cgroup has been made; no other container's is changed.
LEMMA StepAddTaskDir ==
    ASSUME Hosted, V1Inv, NEW c \in Containers, AddTaskDir(c)
    PROVE  V1Inv'
  <1>. DEFINE cg == CgroupOf(c)
  <1>1. HostInv /\ Standing(c) /\ People(c) /\ Placed(c)
    BY Zenon DEF V1Inv
  <1>2. /\ v1Op[c] \in {"add", "exec"} /\ v1At[c] = <<>>
        /\ UNCHANGED <<layout, request, member, killed, forks, v1Op, v1Todo, v1Result>>
    BY Zenon DEF AddTaskDir
  <1>3. PICK ctrl \in v1Todo[c] :
          /\ v1Dirs' = [v1Dirs EXCEPT ![PathOf(ctrl)] = Made(PathOf(ctrl), c)]
          /\ cpuset' = CpusetAfter(PathOf(ctrl), c)
          /\ v1At' = [v1At EXCEPT ![c] = <<Step(ctrl, IF ctrl = "cpuset" THEN "above" ELSE "procs")>>]
    BY Zenon DEF AddTaskDir
  <1>. DEFINE mp == PathOf(ctrl)
              step == Step(ctrl, IF ctrl = "cpuset" THEN "above" ELSE "procs")
  <1>4. ctrl \in Subsystems /\ mp \in layout /\ (mp = <<"cpuset">> <=> ctrl = "cpuset")
    BY Zenon, <1>1, <1>2, Known DEF Standing, HostInv
  <1>. HIDE DEF mp
  <1>5. v1Dirs' = [v1Dirs EXCEPT ![mp] = @ \cup {V1Root, Parent, cg}] /\ DOMAIN v1Dirs = layout
    BY Zenon, <1>1, <1>3, <1>4 DEF HostInv, Made, mp
  <1>6. /\ \A h \in DOMAIN cpuset : h \in DOMAIN cpuset' /\ cpuset'[h] = cpuset[h]
        /\ DOMAIN cpuset' \subseteq DOMAIN cpuset \cup {V1Root, Parent, cg}
        /\ \A h \in DOMAIN cpuset' : DOMAIN cpuset'[h] = {"cpus", "mems"}
        /\ <<"cpuset">> \in layout => DOMAIN cpuset' = v1Dirs'[<<"cpuset">>]
    <2>1. \A h \in DOMAIN cpuset : DOMAIN cpuset[h] = {"cpus", "mems"}
      BY Zenon, <1>1 DEF HostInv
    <2>2. CASE mp = <<"cpuset">>
      <3>1. /\ cpuset' = [g \in Made(mp, c) |-> IF g \in DOMAIN cpuset THEN cpuset[g] ELSE Empty]
            /\ DOMAIN cpuset = v1Dirs[mp] /\ Made(mp, c) = DOMAIN cpuset \cup {V1Root, Parent, cg}
            /\ v1Dirs'[mp] = Made(mp, c)
        BY Zenon, <1>1, <1>3, <1>4, <1>5, <2>2 DEF HostInv, CpusetAfter, Made, mp
      <3>2. DOMAIN Empty = {"cpus", "mems"}
        BY Zenon DEF Empty
      <3>. QED BY Zenon, <2>1, <2>2, <3>1, <3>2
    <2>3. CASE mp # <<"cpuset">>
      <3>1. cpuset' = cpuset /\ (<<"cpuset">> \in layout => v1Dirs'[<<"cpuset">>] = v1Dirs[<<"cpuset">>])
        BY Zenon, <1>3, <1>5, <2>3 DEF CpusetAfter, mp
      <3>. QED BY Zenon, <1>1, <2>1, <3>1 DEF HostInv
    <2>. QED BY Zenon, <2>2, <2>3
  <1>7. /\ \A g : g # V1Root /\ g # Parent /\ g # cg => \A m \in layout : g \in v1Dirs'[m] <=> g \in v1Dirs[m]
        /\ \A m \in layout : v1Dirs[m] \subseteq v1Dirs'[m]
        /\ cg \in v1Dirs'[mp]
    BY Zenon, <1>4, <1>5
  <1>8. /\ v1At'[c] # <<>> /\ v1At'[c][1] = step /\ v1Op'[c] = v1Op[c] /\ v1Todo'[c] = v1Todo[c] /\ v1Result'[c] = v1Result[c]
        /\ \A d \in Containers : d # c => v1At'[d] = v1At[d]
        /\ DOMAIN v1At' = Containers
    BY Zenon, <1>1, <1>2, <1>3 DEF HostInv
  <1>9. step.ctrl = ctrl /\ step.step = (IF ctrl = "cpuset" THEN "above" ELSE "procs") /\ step.file = "cpus" /\ step.cg = Parent
    BY Zenon DEF Step
  <1>. HIDE DEF step
  <1>10. HostInv'
    <2>1. V1Root \in Groups /\ Parent \in Groups /\ cg \in Groups /\ Groups' = Groups
      BY Zenon DEF Groups
    <2>2. v1Dirs' \in [layout' -> SUBSET Groups]
      <3>. HIDE DEF cg
      <3>. QED BY Zenon, <1>1, <1>2, <1>4, <1>5, <2>1 DEF HostInv
    <2>3. V1Root \in DOMAIN cpuset' /\ cpuset'[V1Root] = cpuset[V1Root] /\ Filled(V1Root)'
      BY Zenon, <1>1, <1>6 DEF HostInv, Filled
    <2>4. /\ \A d \in Containers : \A m \in layout : ProcsIn(m, CgroupOf(d))' \subseteq PidsOf(d)
          /\ V1Alive' = V1Alive
      BY Zenon, <1>1, <1>2 DEF HostInv, ProcsIn, V1Alive
    <2>5. Housed'
      BY Zenon, <1>1, <1>2, <1>7, <2>4 DEF HostInv, Housed
    <2>. QED BY Zenon, <1>1, <1>2, <1>6, <1>8, <2>1, <2>2, <2>3, <2>4, <2>5 DEF HostInv
  <1>11. ASSUME NEW d \in Containers \ {c} PROVE Frame(d)
    <2>1. CgroupOf(d) # V1Root /\ CgroupOf(d) # Parent /\ CgroupOf(d) # cg
      BY Zenon, Apart
    <2>2. CgroupOf(d) \in DOMAIN cpuset' => CgroupOf(d) \in DOMAIN cpuset /\ cpuset'[CgroupOf(d)] = cpuset[CgroupOf(d)]
      BY Zenon, <1>6, <2>1
    <2>. QED BY Zenon, <1>2, <1>7, <1>8, <2>1, <2>2 DEF Frame, V1Alive
  <1>12. /\ Subsystems' = Subsystems /\ (\A x : PathOf(x)' = PathOf(x)) /\ V1Alive' = V1Alive
         /\ Living(c)' = Living(c) /\ Pid(c)' = Pid(c) /\ Failed(c)' = Failed(c)
    BY Zenon, <1>2 DEF Subsystems, PathOf, MountPoint, V1Alive, Living, Pid, Failed
  <1>13. Standing(c)'
    BY Zenon, <1>1, <1>2, <1>8, <1>9, <1>12 DEF Standing
  <1>14. People(c)'
    BY Zenon, <1>1, <1>2, <1>8, <1>12 DEF People
  <1>15. Placed(c)'
    <2>1. \A x \in Subsystems : PathOf(x) \in layout
      BY Zenon, <1>1, Known DEF HostInv
    <2>2. ctrl = "cpuset" => Fills(c)'
      BY Zenon, <1>8, <1>9 DEF Fills
    <2>3. PathOf(ctrl) = mp /\ cg' = cg
      BY Zenon DEF mp
    <2>4. v1Result[c] # "error" => \A x \in Subsystems \ v1Todo[c] :
              member[Pid(c)][PathOf(x)] = cg /\ cg \in v1Dirs'[PathOf(x)]
      BY Zenon, <1>1, <1>2, <1>7, <2>1 DEF Placed
    <2>5. v1Op[c] = "exec" => /\ \A p \in Living(c) \ killed : p # ExecPid(c) => \A m \in layout : member[p][m] = cg
                              /\ \A m \in layout : cg \in v1Dirs'[m]
      BY Zenon, <1>1, <1>7 DEF Placed
    <2>. QED BY <1>2, <1>7, <1>8, <1>9, <1>12, <2>2, <2>3, <2>4, <2>5 DEF Placed
  <1>. QED BY Zenon, <1>10, <1>11, <1>13, <1>14, <1>15, OneActs

\* The cpuset of a container that is being filled exists.
LEMMA FillingIs ==
    ASSUME Hosted, V1Inv, NEW c \in Containers, v1Op[c] \in {"add", "exec"}, v1At[c] # <<>>,
           v1At[c][1].step # "procs" \/ v1At[c][1].ctrl = "cpuset"
    PROVE  v1At[c][1].ctrl = "cpuset" /\ CgroupOf(c) \in DOMAIN cpuset /\ Fills(c)
  <1>1. HostInv /\ Standing(c) /\ Placed(c)
    BY Zenon DEF V1Inv
  <1>2. v1At[c][1].ctrl = "cpuset"
    BY Zenon, <1>1 DEF Placed
  <1>3. "cpuset" \in Subsystems /\ PathOf("cpuset") = <<"cpuset">> /\ <<"cpuset">> \in layout
    <2>1. "cpuset" \in Subsystems
      BY Zenon, <1>1, <1>2 DEF Standing
    <2>2. /\ PathOf("cpuset") \in layout
          /\ \A x \in Subsystems : PathOf(x) = <<"cpuset">> <=> x = "cpuset"
      BY Zenon, <1>1, <2>1, Known DEF HostInv
    <2>. QED BY Zenon, <2>1, <2>2
  <1>4. CgroupOf(c) \in DOMAIN cpuset
    BY Zenon, <1>1, <1>2, <1>3 DEF Placed, HostInv
  <1>. QED BY Zenon, <1>1, <1>2, <1>4 DEF Placed

\* A step of ensure_not_empty changes at most the cpuset of the container and of the
\* parent, so the invariant holds when it leaves its own part of it.
LEMMA FillMoves ==
    ASSUME Hosted, V1Inv, NEW c \in Containers, v1Op[c] \in {"add", "exec"}, v1At[c] # <<>>,
           NEW next, v1At' = [v1At EXCEPT ![c] = <<next>>], next.ctrl = "cpuset", v1At[c][1].ctrl = "cpuset",
           UNCHANGED <<layout, request, v1Dirs, member, killed, forks, v1Op, v1Todo, v1Result>>,
           DOMAIN cpuset' = DOMAIN cpuset,
           \A g \in DOMAIN cpuset : /\ DOMAIN cpuset'[g] = DOMAIN cpuset[g]
                                    /\ g \notin {Parent, CgroupOf(c)} => cpuset'[g] = cpuset[g],
           Fills(c)'
    PROVE  V1Inv'
  <1>1. HostInv /\ Standing(c) /\ People(c) /\ Placed(c)
    BY Zenon DEF V1Inv
  <1>2. /\ v1At'[c] # <<>> /\ v1At'[c][1] = next /\ DOMAIN v1At' = Containers
        /\ \A d \in Containers : d # c => v1At'[d] = v1At[d]
    BY Zenon, <1>1 DEF HostInv
  <1>3. HostInv'
    <2>1. V1Root \in DOMAIN cpuset' /\ Filled(V1Root)'
      BY Zenon, <1>1, Apart DEF HostInv, Filled
    <2>2. /\ Groups' = Groups /\ V1Alive' = V1Alive
          /\ \A d \in Containers : \A m \in layout : ProcsIn(m, CgroupOf(d))' = ProcsIn(m, CgroupOf(d))
      BY Zenon DEF Groups, V1Alive, ProcsIn
    <2>3. Housed'
      BY Zenon, <1>1, <2>2 DEF HostInv, Housed
    <2>4. \A g \in DOMAIN cpuset' : DOMAIN cpuset'[g] = {"cpus", "mems"}
      BY Zenon, <1>1 DEF HostInv
    <2>. QED BY <1>1, <1>2, <2>1, <2>2, <2>3, <2>4 DEF HostInv
  <1>4. ASSUME NEW d \in Containers \ {c} PROVE Frame(d)
    <2>1. CgroupOf(d) # Parent /\ CgroupOf(d) # CgroupOf(c)
      BY Zenon, Apart
    <2>. QED BY Zenon, <1>2, <2>1 DEF Frame, V1Alive
  <1>5. /\ Subsystems' = Subsystems /\ (\A x : PathOf(x)' = PathOf(x)) /\ V1Alive' = V1Alive
        /\ Living(c)' = Living(c) /\ Pid(c)' = Pid(c) /\ Failed(c)' = Failed(c)
    BY Zenon DEF Subsystems, PathOf, MountPoint, V1Alive, Living, Pid, Failed
  <1>6. Standing(c)'
    BY Zenon, <1>1, <1>2, <1>5 DEF Standing
  <1>7. People(c)'
    BY Zenon, <1>1, <1>5 DEF People
  <1>8. Placed(c)'
    BY <1>1, <1>2, <1>5 DEF Placed
  <1>. QED BY Zenon, <1>3, <1>4, <1>6, <1>7, <1>8, OneActs

\* Where ensure_not_empty goes from a cgroup that has its value: what it has filled so
\* far is what Fills says of the next place.
LEMMA NextFills ==
    ASSUME NEW c \in Containers, NEW a, v1At'[c][1] = NextFill(c, a), a.ctrl = "cpuset",
           a.file \in {"cpus", "mems"}, a.cg \in {Parent, CgroupOf(c)},
           a.cg = CgroupOf(c) => cpuset'[CgroupOf(c)][a.file] # {},
           a.file = "mems" => cpuset'[CgroupOf(c)].cpus # {}
    PROVE  NextFill(c, a).ctrl = "cpuset" /\ Fills(c)'
  <1>. DEFINE down == [Step(a.ctrl, "above") EXCEPT !.file = a.file, !.cg = CgroupOf(c)]
              mems == [Step(a.ctrl, "above") EXCEPT !.file = "mems"]
              procs == Step(a.ctrl, "procs")
  <1>1. down.ctrl = a.ctrl /\ down.step = "above" /\ down.file = a.file /\ down.cg = CgroupOf(c)
    BY DEF Step
  <1>2. mems.ctrl = a.ctrl /\ mems.step = "above" /\ mems.file = "mems" /\ mems.cg = Parent
    BY DEF Step
  <1>3. procs.ctrl = a.ctrl /\ procs.step = "procs" /\ procs.file = "cpus" /\ procs.cg = Parent
    BY Zenon DEF Step
  <1>4. CgroupOf(c) # Parent /\ CgroupOf(c)' = CgroupOf(c)
    BY Zenon, Apart
  <1>. HIDE DEF down, mems, procs
  <1>5. NextFill(c, a) = IF a.cg = Parent THEN down ELSE IF a.file = "cpus" THEN mems ELSE procs
    BY Zenon DEF NextFill, down, mems, procs
  <1>6. CASE a.cg = Parent
    BY Zenon, <1>1, <1>4, <1>5, <1>6 DEF Fills
  <1>7. CASE a.cg # Parent /\ a.file = "cpus"
    BY Zenon, <1>2, <1>4, <1>5, <1>7 DEF Fills
  <1>8. CASE a.cg # Parent /\ a.file # "cpus"
    <2>1. NextFill(c, a) = procs /\ a.cg = CgroupOf(c) /\ a.file = "mems"
      BY Zenon, <1>5, <1>8
    <2>2. Filled(CgroupOf(c))'
      BY Zenon, <2>1 DEF Filled
    <2>. QED BY Zenon, <1>3, <1>4, <2>1, <2>2 DEF Fills
  <1>. QED BY Zenon, <1>6, <1>7, <1>8

\* The invariant holds when a call failed: the process it was for is on its way out.
LEMMA StepFails ==
    ASSUME Hosted, V1Inv, NEW c \in Containers, V1Fails(c)
    PROVE  V1Inv'
  <1>1. HostInv /\ Standing(c) /\ People(c) /\ Placed(c)
    BY Zenon DEF V1Inv
  <1>2. /\ v1Op[c] # "new" /\ v1Todo[c] # {}
        /\ killed' = IF v1Op[c] \in {"add", "exec"} THEN killed \cup {Pid(c)} ELSE killed
        /\ UNCHANGED <<layout, request, v1Dirs, cpuset, member, forks, v1Op>>
    BY Zenon DEF V1Fails
  <1>3. /\ v1Result'[c] = "error" /\ v1At'[c] = <<>> /\ v1Todo'[c] = {} /\ v1Op'[c] = v1Op[c]
        /\ \A d \in Containers : d # c => /\ v1Todo'[d] = v1Todo[d] /\ v1At'[d] = v1At[d]
                                          /\ v1Result'[d] = v1Result[d] /\ v1Op'[d] = v1Op[d]
        /\ DOMAIN v1At' = Containers /\ DOMAIN v1Todo' = Containers /\ DOMAIN v1Result' = Containers
    BY Zenon, <1>1, <1>2 DEF HostInv, V1Fails, Finish
  <1>4. Pid(c) \in PidsOf(c) /\ Pid(c)' = Pid(c)
    BY Zenon, <1>2 DEF Pid, PidsOf
  <1>5. HostInv'
    BY Zenon, <1>1, <1>2, <1>3, HostStays DEF HostInv
  <1>6. ASSUME NEW d \in Containers \ {c} PROVE Frame(d)
    <2>1. Pid(c) \notin PidsOf(d)
      BY Zenon, <1>4, Apart
    <2>. QED BY Zenon, <1>2, <1>3, <2>1 DEF Frame, V1Alive
  <1>7. V1Alive' = V1Alive /\ Living(c)' = Living(c) /\ Subsystems' = Subsystems
    BY Zenon, <1>2 DEF V1Alive, Living, Subsystems, MountPoint
  <1>8. Standing(c)'
    BY Zenon, <1>1, <1>2, <1>3, <1>7 DEF Standing
  <1>9. People(c)'
    <2>1. CASE v1Op[c] \in {"add", "exec"}
      <3>1. Failed(c)' = {Pid(c)} /\ Failed(c) = {}
        BY Zenon, <1>1, <1>2, <1>3, <1>4, <2>1 DEF Failed, Standing
      <3>2. (killed \cap PidsOf(c))' = {Pid(c)}
        BY Zenon, <1>1, <1>2, <1>4, <2>1, <3>1 DEF People, PidsOf, InitPid, ExecPid, ChildPid
      <3>. QED BY Zenon, <1>1, <1>2, <1>3, <1>7, <2>1, <3>1, <3>2 DEF People
    <2>2. CASE v1Op[c] \notin {"add", "exec"}
      <3>1. Failed(c)' = {} /\ Failed(c) = {} /\ killed' = killed
        BY Zenon, <1>2, <1>3, <2>2 DEF Failed
      <3>. QED BY Zenon, <1>1, <1>2, <1>3, <1>7, <2>2, <3>1 DEF People
    <2>. QED BY Zenon, <2>1, <2>2
  <1>10. Placed(c)'
    <2>1. (Living(c) \ killed)' \subseteq Living(c) \ killed
      BY Zenon, <1>2, <1>7
    <2>. QED BY <1>1, <1>2, <1>3, <1>7, <2>1 DEF Placed
  <1>. QED BY Zenon, <1>5, <1>6, <1>8, <1>9, <1>10, OneActs

\* The invariant holds when the cgroup above has been read, or was found empty.
LEMMA StepFillAbove ==
    ASSUME Hosted, V1Inv, NEW c \in Containers, FillAbove(c)
    PROVE  V1Inv'
  <1>. DEFINE a == v1At[c][1]
              value == cpuset[Above(a.cg)][a.file]
              next == [a EXCEPT !.step = "below", !.value = value]
  <1>1. /\ v1Op[c] \in {"add", "exec"} /\ v1At[c] # <<>> /\ a.step = "above"
        /\ UNCHANGED <<layout, request, v1Dirs, cpuset, member, forks, v1Op>>
        /\ IF value = {} THEN Finish(c, "error") /\ killed' = killed \cup {Pid(c)}
           ELSE v1At' = [v1At EXCEPT ![c] = <<next>>] /\ UNCHANGED <<killed, v1Todo, v1Result>>
    BY Zenon DEF FillAbove, Filling
  <1>2. a.ctrl = "cpuset" /\ CgroupOf(c) \in DOMAIN cpuset /\ Fills(c)
    BY Zenon, <1>1, FillingIs
  <1>3. CASE value = {}
    <2>1. v1Todo[c] # {}
      BY Zenon, <1>1 DEF V1Inv, Standing
    <2>. QED BY Zenon, <1>1, <1>3, <2>1, StepFails DEF V1Fails
  <1>4. CASE value # {}
    <2>1. next.ctrl = a.ctrl /\ next.step = "below" /\ next.file = a.file /\ next.cg = a.cg /\ next.value = value
      BY SMTT(30)
    <2>2. v1At' = [v1At EXCEPT ![c] = <<next>>] /\ UNCHANGED <<killed, v1Todo, v1Result>>
      BY Zenon, <1>1, <1>4
    <2>. HIDE DEF next, value
    <2>3. v1At'[c][1] = next
      BY Zenon, <2>2 DEF V1Inv, HostInv
    <2>4. Fills(c)'
      BY Zenon, <1>1, <1>2, <1>4, <2>1, <2>3 DEF Fills
    <2>. QED BY Zenon, <1>1, <1>2, <2>1, <2>2, <2>4, FillMoves
  <1>. QED BY Zenon, <1>3, <1>4

\* The invariant holds when the cgroup's own value has been read.
LEMMA StepFillBelow ==
    ASSUME Hosted, V1Inv, NEW c \in Containers, FillBelow(c)
    PROVE  V1Inv'
  <1>. DEFINE a == v1At[c][1]
              write == [a EXCEPT !.step = "write"]
  <1>1. /\ v1Op[c] \in {"add", "exec"} /\ v1At[c] # <<>> /\ a.step = "below"
        /\ UNCHANGED <<layout, request, v1Dirs, cpuset, member, killed, forks, v1Op, v1Todo, v1Result>>
        /\ v1At' = [v1At EXCEPT ![c] = <<IF cpuset[a.cg][a.file] = {} THEN write ELSE NextFill(c, a)>>]
    BY Zenon DEF FillBelow, Filling
  <1>2. a.ctrl = "cpuset" /\ CgroupOf(c) \in DOMAIN cpuset /\ Fills(c)
    BY Zenon, <1>1, FillingIs
  <1>3. CASE cpuset[a.cg][a.file] = {}
    <2>1. /\ write.ctrl = a.ctrl /\ write.step = "write" /\ write.file = a.file /\ write.cg = a.cg
          /\ write.value = a.value
      BY SMTT(30)
    <2>2. v1At' = [v1At EXCEPT ![c] = <<write>>]
      BY Zenon, <1>1, <1>3
    <2>. HIDE DEF write
    <2>3. v1At'[c][1] = write
      BY Zenon, <2>2 DEF V1Inv, HostInv
    <2>4. Fills(c)'
      BY Zenon, <1>1, <1>2, <2>1, <2>3 DEF Fills
    <2>. QED BY Zenon, <1>1, <1>2, <2>1, <2>2, <2>4, FillMoves
  <1>4. CASE cpuset[a.cg][a.file] # {}
    <2>. DEFINE next == NextFill(c, a)
    <2>1. v1At' = [v1At EXCEPT ![c] = <<next>>]
      BY Zenon, <1>1, <1>4
    <2>2. v1At'[c][1] = next
      BY Zenon, <2>1 DEF V1Inv, HostInv
    <2>3. next.ctrl = "cpuset" /\ Fills(c)'
      BY Zenon, <1>1, <1>2, <1>4, <2>2, NextFills DEF Fills
    <2>. HIDE DEF next
    <2>. QED BY Zenon, <1>1, <1>2, <2>1, <2>3, FillMoves
  <1>. QED BY Zenon, <1>3, <1>4

\* The invariant holds when a cgroup has been given the value that was read above it.
LEMMA StepFillWrite ==
    ASSUME Hosted, V1Inv, NEW c \in Containers, FillWrite(c)
    PROVE  V1Inv'
  <1>. DEFINE a == v1At[c][1]
              next == NextFill(c, a)
  <1>1. /\ v1Op[c] \in {"add", "exec"} /\ v1At[c] # <<>> /\ a.step = "write"
        /\ UNCHANGED <<layout, request, v1Dirs, member, killed, forks, v1Op, v1Todo, v1Result>>
        /\ cpuset' = [cpuset EXCEPT ![a.cg] = [@ EXCEPT ![a.file] = a.value]]
        /\ v1At' = [v1At EXCEPT ![c] = <<next>>]
    BY Zenon DEF FillWrite, Filling
  <1>2. a.ctrl = "cpuset" /\ CgroupOf(c) \in DOMAIN cpuset /\ Fills(c)
    BY Zenon, <1>1, FillingIs
  <1>3. /\ a.file \in {"cpus", "mems"} /\ a.cg \in {Parent, CgroupOf(c)} /\ a.value # {}
        /\ a.file = "mems" => cpuset[CgroupOf(c)].cpus # {}
    BY Zenon, <1>1, <1>2 DEF Fills
  <1>4. \A g \in DOMAIN cpuset : DOMAIN cpuset[g] = {"cpus", "mems"}
    BY Zenon DEF V1Inv, HostInv
  <1>. HIDE DEF a
  <1>5. /\ DOMAIN cpuset' = DOMAIN cpuset
        /\ \A g \in DOMAIN cpuset : /\ DOMAIN cpuset'[g] = DOMAIN cpuset[g]
                                    /\ g # a.cg => cpuset'[g] = cpuset[g]
        /\ a.cg = CgroupOf(c) => /\ cpuset'[CgroupOf(c)][a.file] = a.value
                                 /\ a.file = "mems" => cpuset'[CgroupOf(c)].cpus = cpuset[CgroupOf(c)].cpus
    BY Zenon, <1>1, <1>2, <1>3, <1>4
  <1>6. v1At'[c][1] = NextFill(c, a)
    BY Zenon, <1>1 DEF V1Inv, HostInv
  <1>7. next.ctrl = "cpuset" /\ Fills(c)'
    <2>1. /\ a.cg = CgroupOf(c) => cpuset'[CgroupOf(c)][a.file] # {}
          /\ a.file = "mems" => cpuset'[CgroupOf(c)].cpus # {}
      BY Zenon, <1>2, <1>3, <1>5
    <2>. QED BY Zenon, <1>2, <1>3, <1>6, <2>1, NextFills DEF a
  <1>8. \A g \in DOMAIN cpuset : /\ DOMAIN cpuset'[g] = DOMAIN cpuset[g]
                                 /\ g \notin {Parent, CgroupOf(c)} => cpuset'[g] = cpuset[g]
    BY Zenon, <1>3, <1>5
  <1>9. v1At[c][1].ctrl = "cpuset" /\ v1At[c] # <<>> /\ v1Op[c] \in {"add", "exec"}
    BY Zenon, <1>1, <1>2 DEF a
  <1>. HIDE DEF next
  <1>. QED BY Zenon, <1>1, <1>5, <1>7, <1>8, <1>9, FillMoves

\* The kernel takes the process into the cgroup: nothing can be in the way.
LEMMA StepAddTaskProcs ==
    ASSUME Hosted, V1Inv, NEW c \in Containers, AddTaskProcs(c)
    PROVE  V1Inv'
  <1>. DEFINE cg == CgroupOf(c)
              ctrl == v1At[c][1].ctrl
              mp == PathOf(ctrl)
              p == Pid(c)
  <1>1. HostInv /\ Standing(c) /\ People(c) /\ Placed(c)
    BY Zenon DEF V1Inv
  <1>2. /\ v1Op[c] \in {"add", "exec"} /\ v1At[c] # <<>>
        /\ v1At[c][1].step = "procs"
        /\ UNCHANGED <<layout, request, v1Dirs, cpuset, forks, v1Op>>
    BY Zenon DEF AddTaskProcs, Filling
  <1>3. /\ ctrl \in v1Todo[c] /\ v1Todo[c] \subseteq Subsystems /\ mp \in layout /\ v1Result[c] = "none"
        /\ cg \in v1Dirs[mp] /\ p \in V1Alive /\ p \in PidsOf(c)
        /\ ctrl = "cpuset" => Filled(cg)
    <2>1. ctrl \in v1Todo[c] /\ v1Todo[c] \subseteq Subsystems /\ v1Result[c] = "none"
      BY Zenon, <1>1, <1>2 DEF Standing
    <2>2. mp \in layout /\ cg \in v1Dirs[mp]
      BY Zenon, <1>1, <1>2, <2>1, Known DEF Placed, HostInv
    <2>3. p \in V1Alive /\ p \in PidsOf(c)
      BY Zenon, <1>1, <1>2, <2>1, AddedLives DEF Pid, PidsOf
    <2>4. ctrl = "cpuset" => Filled(cg)
      BY Zenon, <1>2, FillingIs DEF Fills
    <2>. QED BY Zenon, <2>1, <2>2, <2>3, <2>4
  <1>4. /\ member' = [member EXCEPT ![p] = [@ EXCEPT ![mp] = cg]]
        /\ v1Todo' = [v1Todo EXCEPT ![c] = @ \ {ctrl}] /\ v1At' = [v1At EXCEPT ![c] = <<>>]
        /\ v1Result' = [v1Result EXCEPT ![c] = IF v1Todo[c] = {ctrl} THEN "ok" ELSE @]
        /\ killed' = killed
    <2>1. ~(ctrl = "cpuset" /\ {} \in {cpuset[cg].cpus, cpuset[cg].mems})
      BY Zenon, <1>3 DEF Filled
    <2>. QED BY Zenon, <1>3, <2>1 DEF AddTaskProcs
  <1>. HIDE DEF p, mp, ctrl
  <1>5. /\ V1Alive' = V1Alive /\ DOMAIN member = V1Alive /\ DOMAIN member[p] = layout
        /\ member'[p][mp] = cg /\ (\A m \in layout : m # mp => member'[p][m] = member[p][m])
        /\ \A q \in V1Alive : q # p => member'[q] = member[q]
    BY Zenon, <1>1, <1>3, <1>4 DEF HostInv, V1Alive
  <1>6. /\ v1Todo'[c] = v1Todo[c] \ {ctrl} /\ v1At'[c] = <<>> /\ v1Op'[c] = v1Op[c]
        /\ v1Result'[c] = IF v1Todo[c] = {ctrl} THEN "ok" ELSE v1Result[c]
        /\ \A d \in Containers : d # c => /\ v1Todo'[d] = v1Todo[d] /\ v1At'[d] = v1At[d]
                                          /\ v1Result'[d] = v1Result[d] /\ v1Op'[d] = v1Op[d]
    BY Zenon, <1>1, <1>2, <1>4 DEF HostInv
  <1>7. HostInv'
    <2>1. Groups' = Groups /\ cg \in Groups /\ (Filled(V1Root)' <=> Filled(V1Root))
      BY Zenon, <1>2 DEF Groups, Filled
    <2>2. member' \in [V1Alive' -> [layout' -> Groups]]
      <3>. HIDE DEF cg
      <3>. QED BY Zenon, <1>1, <1>2, <1>3, <1>4, <1>5, <2>1 DEF HostInv
    <2>3. ASSUME NEW d \in Containers, NEW m \in layout, NEW q \in ProcsIn(m, CgroupOf(d))'
          PROVE  q \in PidsOf(d)
      <3>1. q \in V1Alive /\ member'[q][m] = CgroupOf(d)
        BY Zenon, <1>5 DEF ProcsIn
      <3>2. CASE q = p /\ m = mp
        BY Zenon, <1>3, <1>5, <3>1, <3>2, Apart
      <3>3. CASE ~(q = p /\ m = mp)
        <4>1. q \in ProcsIn(m, CgroupOf(d))
          BY Zenon, <1>5, <3>1, <3>3 DEF ProcsIn
        <4>. QED BY Zenon, <1>1, <4>1 DEF HostInv
      <3>. QED BY Zenon, <3>2, <3>3
    <2>4. \A d \in Containers : \A m \in layout' : ProcsIn(m, CgroupOf(d))' \subseteq PidsOf(d)
      BY Zenon, <1>2, <2>3
    <2>5. DOMAIN v1At' = Containers /\ DOMAIN v1Todo' = Containers /\ DOMAIN v1Result' = Containers
      BY Zenon, <1>1, <1>4 DEF HostInv
    <2>6. Housed'
      <3>1. cg # Parent
        BY Zenon, Apart
      <3>2. ASSUME NEW q \in V1Alive, NEW m \in layout PROVE member'[q][m] \in v1Dirs[m] \ {Parent}
        <4>1. CASE q = p /\ m = mp
          BY Zenon, <1>3, <1>5, <3>1, <4>1
        <4>2. CASE ~(q = p /\ m = mp)
          <5>1. member'[q][m] = member[q][m]
            BY Zenon, <1>5, <4>2
          <5>. QED BY Zenon, <1>1, <5>1 DEF HostInv, Housed
        <4>. QED BY Zenon, <4>1, <4>2
      <3>. QED BY Zenon, <1>1, <1>2, <1>5, <3>2 DEF HostInv, Housed
    <2>. QED BY Zenon, <1>1, <1>2, <1>5, <2>1, <2>2, <2>4, <2>5, <2>6 DEF HostInv
  <1>8. ASSUME NEW d \in Containers \ {c} PROVE Frame(d)
    <2>1. \A q \in PidsOf(d) : q # p
      BY Zenon, <1>3, Apart
    <2>. QED BY Zenon, <1>2, <1>4, <1>5, <1>6, <2>1 DEF Frame
  <1>9. Subsystems' = Subsystems /\ (\A x : PathOf(x)' = PathOf(x)) /\ Living(c)' = Living(c)
    BY Zenon, <1>2, <1>5 DEF Subsystems, PathOf, MountPoint, Living
  <1>10. Standing(c)'
    BY Zenon, <1>1, <1>2, <1>3, <1>6, <1>9 DEF Standing
  <1>11. People(c)'
    <2>1. Failed(c) = {} /\ Failed(c)' = {}
      BY Zenon, <1>3, <1>6 DEF Failed
    <2>. QED BY Zenon, <1>1, <1>2, <1>4, <1>5, <1>6, <1>9, <2>1 DEF People
  <1>12. Placed(c)'
    <2>1. Pid(c)' = p /\ CgroupOf(c)' = cg /\ PathOf(ctrl) = mp
      BY Zenon, <1>2 DEF Pid, p, mp
    <2>2. \A x \in Subsystems : PathOf(x) \in layout
      BY Zenon, <1>1, Known DEF HostInv
    <2>3. ASSUME NEW x \in Subsystems \ v1Todo'[c]
          PROVE  member'[p][PathOf(x)] = cg /\ cg \in v1Dirs[PathOf(x)]
      <3>1. CASE PathOf(x) = mp
        BY Zenon, <1>3, <1>5, <3>1
      <3>2. CASE PathOf(x) # mp
        <4>1. x # ctrl /\ x \in Subsystems \ v1Todo[c]
          BY Zenon, <1>6, <2>1, <3>2
        <4>. QED BY Zenon, <1>1, <1>2, <1>3, <1>5, <2>2, <3>2, <4>1 DEF Placed, p
      <3>. QED BY Zenon, <3>1, <3>2
    <2>4. ASSUME v1Op[c] = "exec" PROVE p = ExecPid(c)
      BY Zenon, <2>4 DEF p, Pid
    <2>5. \A q \in Living(c) : (v1Op[c] = "exec" => q # ExecPid(c)) /\ v1Op[c] = "exec" => member'[q] = member[q]
      BY Zenon, <1>5, <2>4 DEF Living
    <2>6. v1Op'[c] \in {"add", "exec"} /\ v1Dirs' = v1Dirs /\ layout' = layout
      BY Zenon, <1>2
    <2>. QED BY <1>1, <1>2, <1>4, <1>6, <1>9, <2>1, <2>3, <2>5, <2>6 DEF Placed
  <1>. QED BY Zenon, <1>7, <1>8, <1>10, <1>11, <1>12, OneActs

\* The invariant holds when limits begin to be applied, or are refused.
LEMMA StepBeginApply ==
    ASSUME Hosted, V1Inv, NEW c \in Containers, BeginApply(c)
    PROVE  V1Inv'
  <1>1. HostInv /\ Standing(c) /\ People(c) /\ Placed(c)
    BY Zenon DEF V1Inv
  <1>2. /\ v1Op[c] = "add" /\ v1At[c] = <<>> /\ v1Todo[c] = {} /\ v1Result[c] = "ok"
        /\ v1Op' = [v1Op EXCEPT ![c] = "apply"]
        /\ UNCHANGED <<layout, request, v1Dirs, cpuset, member, killed, forks>>
    BY Zenon DEF BeginApply, Idle
  <1>3. /\ v1Op'[c] = "apply" /\ v1At'[c] = <<>> /\ v1Result'[c] # "ENOSPC"
        /\ \A d \in Containers : d # c => /\ v1Todo'[d] = v1Todo[d] /\ v1At'[d] = v1At[d]
                                          /\ v1Result'[d] = v1Result[d] /\ v1Op'[d] = v1Op[d]
        /\ DOMAIN v1Op' = Containers /\ DOMAIN v1At' = Containers
        /\ DOMAIN v1Todo' = Containers /\ DOMAIN v1Result' = Containers
    BY SMTT(30), <1>1, <1>2 DEF HostInv, BeginApply, Finish
  <1>4. HostInv'
    BY Zenon, <1>1, <1>2, <1>3, HostStays DEF HostInv
  <1>5. \A d \in Containers \ {c} : Frame(d)
    BY Zenon, <1>2, <1>3 DEF Frame, V1Alive
  <1>6. V1Alive' = V1Alive /\ Living(c)' = Living(c)
    BY Zenon, <1>2 DEF V1Alive, Living
  <1>7. Standing(c)'
    BY Zenon, <1>3 DEF Standing
  <1>8. People(c)'
    <2>1. Failed(c) = {} /\ Failed(c)' = {}
      BY Zenon, <1>2, <1>3 DEF Failed
    <2>. QED BY Zenon, <1>1, <1>2, <1>3, <1>6, <2>1, Apart DEF People, Living, PidsOf
  <1>9. Placed(c)'
    <2>1. Living(c) \subseteq {InitPid(c)} /\ Pid(c) = InitPid(c)
      BY Zenon, <1>1, <1>2 DEF People, Pid
    <2>2. \A m \in layout : member[InitPid(c)][m] = CgroupOf(c) /\ CgroupOf(c) \in v1Dirs[m]
      BY Zenon, <1>1, <1>2, <2>1, Known DEF Placed, HostInv
    <2>. QED BY <1>2, <1>3, <1>6, <2>1, <2>2 DEF Placed
  <1>. QED BY Zenon, <1>4, <1>5, <1>7, <1>8, <1>9, OneActs

\* The invariant holds when one controller has been applied.
LEMMA StepApplyOne ==
    ASSUME Hosted, V1Inv, NEW c \in Containers, ApplyOne(c)
    PROVE  V1Inv'
  <1>. DEFINE cg == CgroupOf(c)
  <1>1. HostInv /\ Standing(c) /\ People(c) /\ Placed(c)
    BY Zenon DEF V1Inv
  <1>2. /\ v1Op[c] = "apply" /\ v1At[c] = <<>>
        /\ UNCHANGED <<layout, request, v1Dirs, member, killed, forks, v1Op>>
    BY Zenon DEF ApplyOne
  <1>3. /\ v1At'[c] = <<>> /\ v1Result'[c] # "ENOSPC" /\ v1Op'[c] = v1Op[c]
        /\ \A d \in Containers : d # c => /\ v1Todo'[d] = v1Todo[d] /\ v1At'[d] = v1At[d]
                                          /\ v1Result'[d] = v1Result[d] /\ v1Op'[d] = v1Op[d]
        /\ DOMAIN v1At' = Containers /\ DOMAIN v1Todo' = Containers /\ DOMAIN v1Result' = Containers
    BY Zenon, <1>1, <1>2 DEF HostInv, Standing, ApplyOne, Finish
  <1>4. /\ DOMAIN cpuset' = DOMAIN cpuset /\ \A g \in DOMAIN cpuset : g # cg => cpuset'[g] = cpuset[g]
        /\ \A g \in DOMAIN cpuset : DOMAIN cpuset'[g] = DOMAIN cpuset[g]
    BY Zenon DEF ApplyOne
  <1>5. HostInv'
    <2>1. V1Root \in DOMAIN cpuset' /\ Filled(V1Root)'
      BY Zenon, <1>1, <1>4, Apart DEF HostInv, Filled
    <2>2. /\ Groups' = Groups /\ V1Alive' = V1Alive
          /\ \A d \in Containers : \A m \in layout : ProcsIn(m, CgroupOf(d))' = ProcsIn(m, CgroupOf(d))
      BY Zenon, <1>2 DEF Groups, V1Alive, ProcsIn
    <2>3. Housed'
      BY Zenon, <1>1, <1>2, <2>2 DEF HostInv, Housed
    <2>. QED BY <1>1, <1>2, <1>3, <1>4, <2>1, <2>2, <2>3 DEF HostInv
  <1>6. ASSUME NEW d \in Containers \ {c} PROVE Frame(d)
    <2>1. CgroupOf(d) # cg
      BY Zenon, Apart
    <2>. QED BY Zenon, <1>2, <1>3, <1>4, <2>1 DEF Frame, V1Alive
  <1>7. V1Alive' = V1Alive /\ Living(c)' = Living(c)
    BY Zenon, <1>2 DEF V1Alive, Living
  <1>8. Standing(c)'
    BY Zenon, <1>2, <1>3 DEF Standing
  <1>9. People(c)'
    <2>1. Failed(c) = {} /\ Failed(c)' = {}
      BY Zenon, <1>2, <1>3 DEF Failed
    <2>. QED BY Zenon, <1>1, <1>2, <1>3, <1>7, <2>1 DEF People
  <1>10. Placed(c)'
    BY Zenon, <1>1, <1>2, <1>3, <1>7 DEF Placed
  <1>. QED BY Zenon, <1>5, <1>6, <1>8, <1>9, <1>10, OneActs

\* The invariant holds when a remove begins: every process is in every hierarchy then, or exiting.
LEMMA StepBeginRemove ==
    ASSUME Hosted, V1Inv, NEW c \in Containers, BeginRemove(c)
    PROVE  V1Inv'
  <1>1. HostInv /\ Standing(c) /\ People(c) /\ Placed(c)
    BY Zenon DEF V1Inv
  <1>2. /\ v1At[c] = <<>> /\ v1Todo[c] = {} /\ v1Op[c] # "new"
        /\ v1Op' = [v1Op EXCEPT ![c] = "remove"] /\ v1Todo' = [v1Todo EXCEPT ![c] = Subsystems]
        /\ v1Result' = [v1Result EXCEPT ![c] = "none"]
        /\ UNCHANGED <<layout, request, v1Dirs, cpuset, member, killed, forks, v1At>>
    BY Zenon DEF BeginRemove, Idle
  <1>3. /\ v1Op'[c] = "remove" /\ v1At'[c] = <<>> /\ v1Result'[c] = "none" /\ v1Todo'[c] = Subsystems
        /\ \A d \in Containers : d # c => /\ v1Todo'[d] = v1Todo[d] /\ v1At'[d] = v1At[d]
                                          /\ v1Result'[d] = v1Result[d] /\ v1Op'[d] = v1Op[d]
    BY Zenon, <1>1, <1>2 DEF HostInv
  <1>4. HostInv'
    BY Zenon, <1>1, <1>2, HostStays DEF HostInv
  <1>5. \A d \in Containers \ {c} : Frame(d)
    BY Zenon, <1>2, <1>3 DEF Frame, V1Alive
  <1>6. V1Alive' = V1Alive /\ Living(c)' = Living(c) /\ Subsystems' = Subsystems
    BY Zenon, <1>2 DEF V1Alive, Living, Subsystems, MountPoint
  <1>7. Standing(c)'
    BY Zenon, <1>3, <1>6 DEF Standing
  <1>8. People(c)'
    BY Zenon, <1>3 DEF People
  <1>9. Placed(c)'
    <2>1. \A p \in Living(c) \ killed : \A m \in layout : member[p][m] = CgroupOf(c)
      <3>1. CASE v1Op[c] \in {"add", "exec"}
        <4>1. v1Result[c] # "error" => \A m \in layout : member[Pid(c)][m] = CgroupOf(c)
          BY SMTT(30), <1>1, <1>2, <3>1, Known DEF Placed, HostInv
        <4>2. v1Result[c] = "error" => Pid(c) \in killed
          BY Zenon, <1>1, <3>1 DEF People, Failed
        <4>3. CASE v1Op[c] = "add"
          BY Zenon, <1>1, <4>1, <4>2, <4>3 DEF People, Pid
        <4>4. CASE v1Op[c] = "exec"
          BY Zenon, <1>1, <4>1, <4>2, <4>4 DEF Placed, Pid
        <4>. QED BY Zenon, <3>1, <4>3, <4>4
      <3>2. CASE v1Op[c] \in {"apply", "remove"}
        BY Zenon, <1>1, <3>2 DEF Placed
      <3>. QED BY Zenon, <1>1, <1>2, <3>1, <3>2 DEF Standing
    <2>. QED BY <1>2, <1>3, <1>6, <2>1 DEF Placed
  <1>. QED BY Zenon, <1>4, <1>5, <1>7, <1>8, <1>9, OneActs

\* The invariant holds when a hierarchy was found without the cgroup, or its processes
\* were read.
LEMMA StepRemoveRead ==
    ASSUME Hosted, V1Inv, NEW c \in Containers, RemoveRead(c)
    PROVE  V1Inv'
  <1>1. HostInv /\ Standing(c) /\ People(c) /\ Placed(c)
    BY Zenon DEF V1Inv
  <1>2. /\ v1Op[c] = "remove" /\ v1At[c] = <<>>
        /\ UNCHANGED <<layout, request, v1Dirs, cpuset, member, killed, forks, v1Op>>
    BY Zenon DEF RemoveRead
  <1>3. PICK ctrl \in v1Todo[c] :
          IF CgroupOf(c) \notin v1Dirs[PathOf(ctrl)] THEN LeaveHierarchy(c, ctrl)
          ELSE /\ v1At' = [v1At EXCEPT ![c] = <<[Step(ctrl, "kill") EXCEPT
                                                    !.pids = ProcsIn(PathOf(ctrl), CgroupOf(c))]>>]
               /\ UNCHANGED <<v1Todo, v1Result>>
    BY Zenon DEF RemoveRead
  <1>4. ctrl \in Subsystems /\ PathOf(ctrl) \in layout /\ v1Result[c] = "none"
    BY Zenon, <1>1, <1>2, Known DEF Standing, HostInv
  <1>5. /\ v1Op'[c] = v1Op[c]
        /\ \A d \in Containers : d # c => /\ v1Todo'[d] = v1Todo[d] /\ v1At'[d] = v1At[d]
                                          /\ v1Result'[d] = v1Result[d] /\ v1Op'[d] = v1Op[d]
        /\ DOMAIN v1At' = Containers /\ DOMAIN v1Todo' = Containers /\ DOMAIN v1Result' = Containers
    BY Zenon, <1>1, <1>2, <1>3 DEF HostInv, LeaveHierarchy
  <1>6. HostInv'
    BY Zenon, <1>1, <1>2, <1>5, HostStays DEF HostInv
  <1>7. \A d \in Containers \ {c} : Frame(d)
    BY Zenon, <1>2, <1>5 DEF Frame, V1Alive
  <1>8. /\ V1Alive' = V1Alive /\ Living(c)' = Living(c) /\ Subsystems' = Subsystems
        /\ \A x : PathOf(x)' = PathOf(x)
    BY Zenon, <1>2 DEF V1Alive, Living, Subsystems, MountPoint, PathOf
  <1>9. CASE CgroupOf(c) \notin v1Dirs[PathOf(ctrl)]
    <2>1. /\ v1Todo'[c] = v1Todo[c] \ {ctrl} /\ v1At'[c] = <<>>
          /\ v1Result'[c] = IF v1Todo[c] = {ctrl} THEN "ok" ELSE v1Result[c]
      BY Zenon, <1>1, <1>3, <1>9 DEF HostInv, LeaveHierarchy
    <2>2. Standing(c)'
      BY Zenon, <1>1, <1>2, <1>4, <1>5, <1>8, <2>1 DEF Standing
    <2>3. People(c)'
      BY Zenon, <1>2, <1>5, <2>1 DEF People
    <2>4. Placed(c)'
      BY Zenon, <1>1, <1>2, <1>4, <1>5, <1>8, <1>9, <2>1 DEF Placed
    <2>. QED BY Zenon, <1>6, <1>7, <2>2, <2>3, <2>4, OneActs
  <1>10. CASE CgroupOf(c) \in v1Dirs[PathOf(ctrl)]
    <2>. DEFINE read == [Step(ctrl, "kill") EXCEPT !.pids = ProcsIn(PathOf(ctrl), CgroupOf(c))]
    <2>1. read.ctrl = ctrl /\ read.pids \subseteq PidsOf(c)
      BY Zenon, <1>1, <1>4 DEF Step, HostInv
    <2>2. v1At' = [v1At EXCEPT ![c] = <<read>>] /\ UNCHANGED <<v1Todo, v1Result>>
      BY Zenon, <1>3, <1>10
    <2>. HIDE DEF read
    <2>3. /\ v1At'[c] = <<read>> /\ v1At'[c][1] = read /\ v1At'[c] # <<>>
          /\ v1Todo'[c] = v1Todo[c] /\ v1Result'[c] = v1Result[c]
      BY Zenon, <1>1, <2>2 DEF HostInv
    <2>4. Standing(c)'
      BY Zenon, <1>1, <1>2, <1>5, <1>8, <2>1, <2>3 DEF Standing
    <2>5. People(c)'
      BY Zenon, <1>2, <1>5, <2>1, <2>3 DEF People
    <2>6. Placed(c)'
      BY Zenon, <1>1, <1>2, <1>5, <1>8, <2>3 DEF Placed
    <2>. QED BY Zenon, <1>6, <1>7, <2>4, <2>5, <2>6, OneActs
  <1>. QED BY Zenon, <1>9, <1>10

\* The invariant holds when the processes that were read have been sent SIGKILL.
LEMMA StepRemoveKill ==
    ASSUME Hosted, V1Inv, NEW c \in Containers, RemoveKill(c)
    PROVE  V1Inv'
  <1>. DEFINE next == Step(v1At[c][1].ctrl, "rmdir")
  <1>1. HostInv /\ Standing(c) /\ People(c) /\ Placed(c)
    BY Zenon DEF V1Inv
  <1>2. /\ v1Op[c] = "remove" /\ v1At[c] # <<>> /\ killed' = killed \cup (v1At[c][1].pids \cap V1Alive)
        /\ v1At' = [v1At EXCEPT ![c] = <<next>>]
        /\ UNCHANGED <<layout, request, v1Dirs, cpuset, member, forks, v1Op, v1Todo, v1Result>>
    BY Zenon DEF RemoveKill
  <1>3. next.ctrl = v1At[c][1].ctrl /\ next.pids = {}
    BY Zenon DEF Step
  <1>. HIDE DEF next
  <1>4. /\ v1At'[c] # <<>> /\ v1At'[c][1] = next /\ \A d \in Containers : d # c => v1At'[d] = v1At[d]
        /\ DOMAIN v1At' = Containers
    BY Zenon, <1>1, <1>2 DEF HostInv
  <1>5. HostInv'
    BY Zenon, <1>1, <1>2, <1>4, HostStays DEF HostInv
  <1>6. ASSUME NEW d \in Containers \ {c} PROVE Frame(d)
    <2>1. \A p \in PidsOf(d) : p \in killed' <=> p \in killed
      BY Zenon, <1>1, <1>2, Apart DEF People
    <2>. QED BY Zenon, <1>2, <1>4, <2>1 DEF Frame, V1Alive
  <1>7. /\ V1Alive' = V1Alive /\ Living(c)' = Living(c) /\ Subsystems' = Subsystems
        /\ \A x : PathOf(x)' = PathOf(x)
    BY Zenon, <1>2 DEF V1Alive, Living, Subsystems, MountPoint, PathOf
  <1>8. Standing(c)'
    BY Zenon, <1>1, <1>2, <1>3, <1>4, <1>7 DEF Standing
  <1>9. People(c)'
    BY Zenon, <1>2, <1>3, <1>4 DEF People
  <1>10. Placed(c)'
    <2>1. \A p \in (Living(c) \ killed)' : p \in Living(c) \ killed
      BY Zenon, <1>2, <1>7
    <2>. QED BY Zenon, <1>1, <1>2, <1>7, <2>1 DEF Placed
  <1>. QED BY Zenon, <1>5, <1>6, <1>8, <1>9, <1>10, OneActs

\* rmdir succeeds only when no process is left in the cgroup.
LEMMA StepRemoveDir ==
    ASSUME Hosted, V1Inv, NEW c \in Containers, RemoveDir(c)
    PROVE  V1Inv'
  <1>. DEFINE ctrl == v1At[c][1].ctrl
              mp == PathOf(ctrl)
              cg == CgroupOf(c)
  <1>1. HostInv /\ Standing(c) /\ People(c) /\ Placed(c)
    BY Zenon DEF V1Inv
  <1>2. /\ v1Op[c] = "remove" /\ v1At[c] # <<>>
        /\ UNCHANGED <<layout, request, member, killed, forks, v1Op>>
    BY Zenon DEF RemoveDir
  <1>3. ctrl \in v1Todo[c] /\ ctrl \in Subsystems /\ mp \in layout /\ v1Result[c] = "none"
    BY Zenon, <1>1, <1>2, Known DEF Standing, HostInv
  <1>4. /\ V1Alive' = V1Alive /\ Living(c)' = Living(c) /\ Subsystems' = Subsystems
        /\ \A x : PathOf(x)' = PathOf(x)
    BY Zenon, <1>2 DEF V1Alive, Living, Subsystems, MountPoint, PathOf
  <1>5. CASE ProcsIn(mp, cg) = {}
    <2>1. /\ v1Dirs' = [v1Dirs EXCEPT ![mp] = @ \ {cg}]
          /\ cpuset' = IF mp = <<"cpuset">> THEN Restrict(cpuset, v1Dirs'[mp]) ELSE cpuset
          /\ LeaveHierarchy(c, ctrl)
      BY Zenon, <1>5 DEF RemoveDir
    <2>. HIDE DEF mp, ctrl
    <2>2. /\ v1Todo'[c] = v1Todo[c] \ {ctrl} /\ v1At'[c] = <<>> /\ v1Op'[c] = v1Op[c]
          /\ v1Result'[c] = IF v1Todo[c] = {ctrl} THEN "ok" ELSE v1Result[c]
          /\ \A d \in Containers : d # c => /\ v1Todo'[d] = v1Todo[d] /\ v1At'[d] = v1At[d]
                                            /\ v1Result'[d] = v1Result[d] /\ v1Op'[d] = v1Op[d]
          /\ DOMAIN v1At' = Containers /\ DOMAIN v1Todo' = Containers /\ DOMAIN v1Result' = Containers
      BY Zenon, <1>1, <1>2, <2>1 DEF HostInv, LeaveHierarchy
    <2>3. /\ v1Dirs'[mp] = v1Dirs[mp] \ {cg} /\ \A m \in layout : m # mp => v1Dirs'[m] = v1Dirs[m]
      BY Zenon, <1>1, <1>3, <2>1 DEF HostInv
    <2>4. /\ \A g \in DOMAIN cpuset : g # cg => g \in DOMAIN cpuset' /\ cpuset'[g] = cpuset[g]
          /\ DOMAIN cpuset' \subseteq DOMAIN cpuset
          /\ \A g \in DOMAIN cpuset' : cpuset'[g] = cpuset[g]
          /\ <<"cpuset">> \in layout => DOMAIN cpuset' = v1Dirs'[<<"cpuset">>]
      <3>1. CASE mp = <<"cpuset">>
        <4>1. cpuset' = [g \in v1Dirs'[mp] |-> cpuset[g]] /\ DOMAIN cpuset = v1Dirs[mp]
          BY Zenon, <1>1, <1>3, <2>1, <3>1 DEF HostInv, Restrict
        <4>. QED BY Zenon, <2>3, <3>1, <4>1
      <3>2. CASE mp # <<"cpuset">>
        <4>1. cpuset' = cpuset /\ (<<"cpuset">> \in layout => v1Dirs'[<<"cpuset">>] = v1Dirs[<<"cpuset">>])
          BY Zenon, <2>1, <2>3, <3>2
        <4>. QED BY Zenon, <1>1, <4>1 DEF HostInv
      <3>. QED BY Zenon, <3>1, <3>2
    <2>5. HostInv'
      <3>1. V1Root \in DOMAIN cpuset' /\ Filled(V1Root)'
        BY Zenon, <1>1, <2>4, Apart DEF HostInv, Filled
      <3>2. v1Dirs' \in [layout' -> SUBSET Groups] /\ Groups' = Groups
        BY Zenon, <1>1, <1>2, <1>3, <2>1 DEF HostInv, Groups
      <3>3. \A d \in Containers : \A m \in layout : ProcsIn(m, CgroupOf(d))' = ProcsIn(m, CgroupOf(d))
        BY Zenon, <1>2 DEF ProcsIn, V1Alive
      <3>4. \A g \in DOMAIN cpuset' : DOMAIN cpuset'[g] = {"cpus", "mems"}
        BY Zenon, <1>1, <2>4 DEF HostInv
      <3>5. Housed'
        <4>1. cg # V1Root
          BY Zenon, Apart
        <4>2. ASSUME NEW q \in V1Alive, NEW m \in layout PROVE member[q][m] \in v1Dirs'[m] \ {Parent}
          <5>1. m = mp => member[q][m] # cg
            BY Zenon, <1>5 DEF ProcsIn
          <5>. QED BY Zenon, <1>1, <2>3, <5>1 DEF HostInv, Housed
        <4>. QED BY Zenon, <1>1, <1>2, <1>4, <2>3, <4>1, <4>2 DEF HostInv, Housed
      <3>. QED BY SMTT(30), <1>1, <1>2, <1>4, <2>2, <2>4, <3>1, <3>2, <3>3, <3>4, <3>5 DEF HostInv
    <2>6. ASSUME NEW d \in Containers \ {c} PROVE Frame(d)
      <3>1. CgroupOf(d) # cg
        BY Zenon, Apart
      <3>. QED BY Zenon, <1>2, <1>4, <2>2, <2>3, <2>4, <3>1 DEF Frame
    <2>8. Standing(c)'
      BY Zenon, <1>1, <1>2, <1>3, <1>4, <2>2 DEF Standing
    <2>9. People(c)'
      BY Zenon, <1>2, <2>2 DEF People
    <2>10. Placed(c)'
      <3>1. PathOf(ctrl) = mp /\ \A x \in Subsystems : PathOf(x) \in layout
        BY Zenon, <1>1, Known DEF mp, HostInv
      <3>2. \A x \in Subsystems \ v1Todo'[c] : cg \notin v1Dirs'[PathOf(x)]
        BY Zenon, <1>1, <1>2, <1>3, <2>2, <2>3, <3>1 DEF Placed
      <3>3. \A p \in Living(c) \ killed : \A m \in layout : member[p][m] = cg
        BY Zenon, <1>1, <1>2 DEF Placed
      <3>. QED BY <1>2, <1>4, <2>2, <3>2, <3>3 DEF Placed
    <2>. QED BY Zenon, <2>5, <2>6, <2>8, <2>9, <2>10, OneActs
  <1>6. CASE ProcsIn(mp, cg) # {}
    <2>. DEFINE again == [v1At[c][1] EXCEPT !.left = @ - 1]
    <2>1. /\ UNCHANGED <<v1Dirs, cpuset>>
          /\ \/ v1At' = [v1At EXCEPT ![c] = <<again>>] /\ UNCHANGED <<v1Todo, v1Result>>
             \/ Finish(c, "error")
      BY Zenon, <1>1, <1>6 DEF RemoveDir, HostInv
    <2>2. again.ctrl = ctrl /\ again.pids = v1At[c][1].pids
      BY SMTT(30)
    <2>. HIDE DEF again, ctrl
    <2>3. /\ v1Op'[c] = v1Op[c]
          /\ \A d \in Containers : d # c => /\ v1Todo'[d] = v1Todo[d] /\ v1At'[d] = v1At[d]
                                            /\ v1Result'[d] = v1Result[d] /\ v1Op'[d] = v1Op[d]
          /\ DOMAIN v1At' = Containers /\ DOMAIN v1Todo' = Containers /\ DOMAIN v1Result' = Containers
      BY Zenon, <1>1, <1>2, <2>1 DEF HostInv, Finish
    <2>4. HostInv'
      BY Zenon, <1>1, <1>2, <2>1, <2>3, HostStays DEF HostInv
    <2>5. \A d \in Containers \ {c} : Frame(d)
      BY Zenon, <1>2, <1>4, <2>1, <2>3 DEF Frame
    <2>6. \/ v1At'[c] # <<>> /\ v1At'[c][1] = again /\ v1Todo'[c] = v1Todo[c] /\ v1Result'[c] = v1Result[c]
          \/ v1At'[c] = <<>> /\ v1Todo'[c] = {} /\ v1Result'[c] = "error"
      BY <1>1, <2>1 DEF HostInv, Finish
    <2>7. Standing(c)'
      BY Zenon, <1>1, <1>2, <1>3, <1>4, <2>2, <2>3, <2>6 DEF Standing
    <2>8. People(c)'
      BY Zenon, <1>1, <1>2, <2>2, <2>3, <2>6 DEF People
    <2>9. Placed(c)'
      BY <1>1, <1>2, <1>4, <2>1, <2>3, <2>6 DEF Placed
    <2>. QED BY Zenon, <2>4, <2>5, <2>7, <2>8, <2>9, OneActs
  <1>. QED BY Zenon, <1>5, <1>6

\* A child is in the cgroups of its parent, in every hierarchy.
LEMMA StepFork ==
    ASSUME Hosted, V1Inv, NEW c \in Containers, V1Fork(c)
    PROVE  V1Inv'
  <1>. DEFINE i == InitPid(c)
              k == ChildPid(c)
  <1>1. HostInv /\ Standing(c) /\ People(c) /\ Placed(c)
    BY Zenon DEF V1Inv
  <1>2. /\ v1Op[c] \in {"apply", "exec", "remove"} /\ i \in V1Alive \ killed /\ k \notin V1Alive
        /\ UNCHANGED <<layout, request, v1Dirs, cpuset, killed, v1Op, v1Todo, v1At, v1Result>>
        /\ member' = [p \in V1Alive \cup {k} |-> IF p = k THEN member[i] ELSE member[p]]
    BY Zenon DEF V1Fork, Joined
  <1>3. k \in PidsOf(c) /\ i \in PidsOf(c) /\ k \in Pids /\ k # i /\ k # ExecPid(c) /\ i # ExecPid(c)
    BY Zenon, Apart DEF PidsOf
  <1>. HIDE DEF i, k
  <1>4. /\ V1Alive' = V1Alive \cup {k} /\ member'[k] = member[i]
        /\ \A p \in V1Alive : member'[p] = member[p]
    BY Zenon, <1>2 DEF V1Alive
  <1>5. HostInv'
    <2>1. member' \in [V1Alive' -> [layout' -> Groups]] /\ V1Alive' \subseteq Pids /\ Groups' = Groups
      BY Zenon, <1>1, <1>2, <1>3, <1>4 DEF HostInv, Groups
    <2>2. ASSUME NEW d \in Containers, NEW m \in layout, NEW q \in ProcsIn(m, CgroupOf(d))'
          PROVE  q \in PidsOf(d)
      <3>1. q \in V1Alive' /\ member'[q][m] = CgroupOf(d)
        BY Zenon DEF ProcsIn
      <3>2. CASE q = k
        <4>1. i \in ProcsIn(m, CgroupOf(d))
          BY Zenon, <1>2, <1>4, <3>1, <3>2 DEF ProcsIn
        <4>2. i \in PidsOf(d)
          BY Zenon, <1>1, <4>1 DEF HostInv
        <4>. QED BY Zenon, <1>3, <3>2, <4>2, Apart
      <3>3. CASE q # k
        <4>1. q \in ProcsIn(m, CgroupOf(d))
          BY Zenon, <1>4, <3>1, <3>3 DEF ProcsIn
        <4>. QED BY Zenon, <1>1, <4>1 DEF HostInv
      <3>. QED BY Zenon, <3>2, <3>3
    <2>3. \A d \in Containers : \A m \in layout' : ProcsIn(m, CgroupOf(d))' \subseteq PidsOf(d)
      BY Zenon, <1>2, <2>2
    <2>4. Filled(V1Root)' <=> Filled(V1Root)
      BY Zenon, <1>2 DEF Filled
    <2>5. Housed'
      BY Zenon, <1>1, <1>2, <1>4 DEF HostInv, Housed
    <2>. QED BY Zenon, <1>1, <1>2, <2>1, <2>3, <2>4, <2>5 DEF HostInv
  <1>6. ASSUME NEW d \in Containers \ {c} PROVE Frame(d)
    <2>1. k \notin PidsOf(d)
      BY Zenon, <1>3, Apart
    <2>. QED BY Zenon, <1>2, <1>4, <2>1 DEF Frame
  <1>7. /\ Subsystems' = Subsystems /\ (\A x : PathOf(x)' = PathOf(x)) /\ Living(c)' = Living(c) \cup {k}
        /\ i \in Living(c)
    BY Zenon, <1>2, <1>3, <1>4 DEF Subsystems, PathOf, MountPoint, Living
  <1>8. Standing(c)'
    BY Zenon, <1>1, <1>2, <1>7 DEF Standing
  <1>9. People(c)'
    <2>1. Failed(c)' = Failed(c)
      BY Zenon, <1>2 DEF Failed, Pid
    <2>. QED BY Zenon, <1>1, <1>2, <1>3, <1>4, <2>1 DEF People
  <1>10. Placed(c)'
    <2>1. \A m \in layout : member'[k][m] = CgroupOf(c)
      BY Zenon, <1>1, <1>2, <1>3, <1>4, <1>7 DEF Placed
    <2>2. \A p \in Living(c) : member'[p] = member[p]
      BY Zenon, <1>4 DEF Living
    <2>3. Pid(c)' = Pid(c) /\ (v1Op[c] = "exec" /\ v1Result[c] # "error" => Pid(c) \in V1Alive)
      BY Zenon, <1>1, <1>2, AddedLives DEF Pid
    <2>4. CgroupOf(c)' = CgroupOf(c) /\ (Fills(c)' <=> Fills(c))
      BY Zenon, <1>2 DEF Fills, Filled
    <2>5. /\ v1Op'[c] = v1Op[c] /\ v1Todo'[c] = v1Todo[c] /\ v1At'[c] = v1At[c] /\ v1Result'[c] = v1Result[c]
          /\ v1Dirs' = v1Dirs /\ layout' = layout /\ cpuset' = cpuset /\ killed' = killed
      BY Zenon, <1>2
    <2>6. v1Op[c] = "exec" /\ v1Result[c] # "error" => \A x \in Subsystems \ v1Todo[c] :
              member'[Pid(c)][PathOf(x)] = CgroupOf(c) /\ CgroupOf(c) \in v1Dirs[PathOf(x)]
      BY Zenon, <1>1, <1>4, <2>3 DEF Placed
    <2>7. \A p \in (Living(c) \ killed)' : (v1Op[c] = "exec" => p # ExecPid(c)) => \A m \in layout : member'[p][m] = CgroupOf(c)
      <3>1. \A p \in Living(c) \ killed : (v1Op[c] = "exec" => p # ExecPid(c)) => \A m \in layout : member[p][m] = CgroupOf(c)
        BY Zenon, <1>1, <1>2 DEF Placed
      <3>. QED BY Zenon, <1>7, <2>1, <2>2, <2>5, <3>1
    <2>8. v1Op[c] # "add"
      BY Zenon, <1>2
    <2>. QED BY Zenon, <1>1, <1>7, <2>3, <2>4, <2>5, <2>6, <2>7, <2>8 DEF Placed
  <1>. QED BY Zenon, <1>5, <1>6, <1>8, <1>9, <1>10, OneActs

\* A process dies only while its container is being removed, or after its own add_task
\* failed; either way nothing is claimed of it any more.
LEMMA StepDie ==
    ASSUME Hosted, V1Inv, NEW p \in Pids, Die(p)
    PROVE  V1Inv'
  <1>1. HostInv
    BY Zenon DEF V1Inv
  <1>2. /\ p \in killed /\ p \in V1Alive
        /\ UNCHANGED <<layout, request, v1Dirs, cpuset, killed, forks, v1Op, v1Todo, v1At, v1Result>>
        /\ member' = [q \in V1Alive \ {p} |-> member[q]]
    BY Zenon DEF Die, Restrict
  <1>3. V1Alive' = V1Alive \ {p} /\ \A q \in V1Alive \ {p} : member'[q] = member[q]
    BY Zenon, <1>2 DEF V1Alive
  <1>4. HostInv'
    <2>1. member' \in [V1Alive' -> [layout' -> Groups]] /\ V1Alive' \subseteq Pids /\ Groups' = Groups
      BY Zenon, <1>1, <1>2, <1>3 DEF HostInv, Groups
    <2>2. \A d \in Containers : \A m \in layout : ProcsIn(m, CgroupOf(d))' \subseteq ProcsIn(m, CgroupOf(d))
      BY Zenon, <1>3 DEF ProcsIn
    <2>3. Filled(V1Root)' <=> Filled(V1Root)
      BY Zenon, <1>2 DEF Filled
    <2>4. Housed'
      BY Zenon, <1>1, <1>2, <1>3 DEF HostInv, Housed
    <2>. QED BY Zenon, <1>1, <1>2, <2>1, <2>2, <2>3, <2>4 DEF HostInv
  <1>5. PICK c \in Containers : p \in PidsOf(c)
    BY Zenon, EachHasOne
  <1>6. Standing(c) /\ People(c) /\ Placed(c)
    BY Zenon DEF V1Inv
  <1>8. ASSUME NEW d \in Containers \ {c} PROVE Frame(d)
    <2>1. p \notin PidsOf(d)
      BY Zenon, <1>5, Apart
    <2>. QED BY Zenon, <1>2, <1>3, <2>1 DEF Frame
  <1>9. /\ Subsystems' = Subsystems /\ (\A x : PathOf(x)' = PathOf(x)) /\ Living(c)' = Living(c) \ {p}
        /\ \A q \in Living(c) \ {p} : member'[q] = member[q]
    BY Zenon, <1>2, <1>3 DEF Subsystems, PathOf, MountPoint, Living
  <1>10. Standing(c)'
    BY Zenon, <1>2, <1>6, <1>9 DEF Standing
  <1>11. People(c)'
    <2>1. Failed(c)' = Failed(c) /\ V1Alive \cup killed = (V1Alive \cup killed)' /\ Living(c)' \subseteq Living(c)
      BY Zenon, <1>2, <1>3, <1>9 DEF Failed, Pid
    <2>. QED BY Zenon, <1>2, <1>3, <1>6, <2>1 DEF People
  <1>12. Placed(c)'
    <2>1. /\ v1Op'[c] = v1Op[c] /\ v1Todo'[c] = v1Todo[c] /\ v1At'[c] = v1At[c] /\ v1Result'[c] = v1Result[c]
          /\ v1Dirs' = v1Dirs /\ layout' = layout /\ cpuset' = cpuset /\ killed' = killed
      BY Zenon, <1>2
    <2>2. CgroupOf(c)' = CgroupOf(c) /\ (Fills(c)' <=> Fills(c)) /\ Pid(c)' = Pid(c) /\ Pid(c) \in PidsOf(c)
      BY Zenon, <1>2 DEF Fills, Filled, Pid, PidsOf
    <2>3. v1Op[c] \in {"add", "exec"} /\ v1Result[c] # "error" => member'[Pid(c)] = member[Pid(c)]
      <3>1. v1Op[c] \in {"add", "exec"} /\ v1Result[c] # "error" => Pid(c) \in V1Alive /\ Pid(c) \notin killed
        BY Zenon, <1>6, <2>2, AddedLives DEF People, Failed
      <3>. QED BY Zenon, <1>2, <1>3, <3>1
    <2>4. \A q \in (Living(c) \ killed)' : q \in Living(c) \ killed /\ member'[q] = member[q]
      BY Zenon, <1>9, <2>1
    <2>. QED BY <1>6, <1>9, <2>1, <2>2, <2>3, <2>4 DEF Placed
  <1>. QED BY Zenon, <1>4, <1>8, <1>10, <1>11, <1>12, OneActs

\* Every step keeps V1Inv.
LEMMA V1Step == Hosted /\ V1Inv /\ [V1Next]_v1Vars => V1Inv'
PROOF
  <1>. SUFFICES ASSUME Hosted, V1Inv, [V1Next]_v1Vars PROVE V1Inv'
    BY Zenon
  <1>1. CASE UNCHANGED v1Vars
    <2>1. HostInv'
      BY Zenon, <1>1, HostStays DEF V1Inv, v1Vars
    <2>2. \A c \in Containers : Frame(c)
      BY Zenon, <1>1 DEF v1Vars, Frame, V1Alive
    <2>. QED BY Zenon, <2>1, <2>2, FrameKeeps DEF V1Inv, HostInv
  <1>2. CASE V1Next
    BY Zenon, <1>2, StepBeginAddTask, StepBeginExec, StepAddTaskDir, StepAddTaskProcs, StepBeginApply,
       StepApplyOne, StepBeginRemove, StepRemoveRead, StepRemoveKill, StepRemoveDir, StepFork, StepDie,
       StepFillAbove, StepFillBelow, StepFillWrite, StepFails
       DEF V1Next
  <1>. QED BY Zenon, <1>1, <1>2

\* The invariant holds what is promised of the hierarchies.
LEMMA V1Goal == Hosted /\ V1Inv => InEveryHierarchy
PROOF
  <1>. SUFFICES ASSUME Hosted, V1Inv, NEW c \in Containers
                PROVE  /\ v1Op[c] \in {"add", "apply", "exec"} /\ v1Result[c] = "ok" =>
                            \A p \in {InitPid(c), ExecPid(c)} \cap V1Alive : \A mp \in layout :
                                member[p][mp] = CgroupOf(c) /\ \A found \in GetAllPids(c) : p \in found
                       /\ v1Result[c] # "ENOSPC"
                       /\ v1Op[c] = "remove" /\ v1Result[c] = "ok" =>
                            /\ \A mp \in layout : CgroupOf(c) \notin v1Dirs[mp]
                            /\ \A p \in {InitPid(c), ExecPid(c), ChildPid(c)} \cap V1Alive :
                                  p \in killed /\ \A mp \in layout : member[p][mp] = V1Root
    BY Zenon DEF InEveryHierarchy, PlacedEverywhere, CpusetIsNeverEmpty, RemovedIsGone
  <1>1. HostInv /\ Standing(c) /\ People(c) /\ Placed(c)
    BY Zenon DEF V1Inv
  <1>2. /\ \A ctrl \in Subsystems : PathOf(ctrl) \in layout
        /\ \A mp \in layout : \E ctrl \in Subsystems : PathOf(ctrl) = mp
    BY Zenon, <1>1, Known DEF HostInv
  <1>3. ASSUME v1Op[c] \in {"add", "apply", "exec"}, v1Result[c] = "ok",
               NEW p \in {InitPid(c), ExecPid(c)} \cap V1Alive
        PROVE  \A mp \in layout : member[p][mp] = CgroupOf(c) /\ \A found \in GetAllPids(c) : p \in found
    <2>1. p \in Living(c)
      BY Zenon, <1>3 DEF Living, PidsOf
    <2>2. CASE v1Op[c] \in {"add", "exec"} /\ p = Pid(c)
      <3>1. v1Todo[c] = {}
        BY Zenon, <1>1, <1>3, <2>2 DEF Standing
      <3>2. \A mp \in layout : member[p][mp] = CgroupOf(c)
        BY Zenon, <1>1, <1>2, <1>3, <2>2, <3>1 DEF Placed
      <3>. QED BY Zenon, <1>2, <1>3, <3>2 DEF GetAllPids, ProcsIn
    <2>3. CASE ~(v1Op[c] \in {"add", "exec"} /\ p = Pid(c))
      <3>1. v1Op[c] \in {"apply", "exec"} /\ (v1Op[c] = "exec" => p # ExecPid(c))
        BY Zenon, <1>1, <1>3, <2>1, <2>3 DEF People, Pid
      <3>2. \A mp \in layout : member[p][mp] = CgroupOf(c)
        <4>1. p \notin killed
          BY Zenon, <1>1, <1>3, <2>1, <3>1 DEF People, Failed, Living
        <4>. QED BY Zenon, <1>1, <2>1, <3>1, <4>1 DEF Placed
      <3>. QED BY Zenon, <1>2, <1>3, <3>2 DEF GetAllPids, ProcsIn
    <2>. QED BY Zenon, <2>2, <2>3
  <1>4. v1Result[c] # "ENOSPC"
    BY Zenon, <1>1 DEF Standing
  <1>5. ASSUME v1Op[c] = "remove", v1Result[c] = "ok"
        PROVE  /\ \A mp \in layout : CgroupOf(c) \notin v1Dirs[mp]
               /\ \A p \in {InitPid(c), ExecPid(c), ChildPid(c)} \cap V1Alive :
                     p \in killed /\ \A mp \in layout : member[p][mp] = V1Root
    <2>1. v1Todo[c] = {} /\ Subsystems # {}
      BY Zenon, <1>1, <1>5 DEF Standing
    <2>2. \A mp \in layout : CgroupOf(c) \notin v1Dirs[mp]
      BY Zenon, <1>1, <1>2, <1>5, <2>1 DEF Placed
    <2>3. \A p \in Living(c) : \A mp \in layout : member[p][mp] \in v1Dirs[mp] \ {Parent}
      BY Zenon, <1>1 DEF HostInv, Housed, Living
    <2>4. ASSUME NEW p \in Living(c) PROVE p \in killed
      <3>1. p \notin killed => \A mp \in layout : member[p][mp] = CgroupOf(c)
        BY Zenon, <1>1, <1>5 DEF Placed
      <3>2. PICK mp \in layout : TRUE
        BY Zenon, <1>2, <2>1
      <3>. QED BY Zenon, <2>2, <2>3, <3>1, <3>2
    <2>5. ASSUME NEW p \in Living(c), NEW mp \in layout PROVE member[p][mp] = V1Root
      <3>1. member[p][mp] \in Groups /\ member[p][mp] \in v1Dirs[mp] /\ member[p][mp] # Parent /\ p \in V1Alive
        BY Zenon, <1>1, <2>3 DEF HostInv, Living
      <3>2. ASSUME NEW d \in Containers, member[p][mp] = CgroupOf(d) PROVE FALSE
        <4>1. p \in PidsOf(d) /\ p \in PidsOf(c)
          BY Zenon, <1>1, <3>1, <3>2 DEF HostInv, ProcsIn, Living
        <4>2. d = c
          BY Zenon, <4>1, Apart
        <4>. QED BY Zenon, <2>2, <3>1, <3>2, <4>2
      <3>. QED BY Zenon, <3>1, <3>2 DEF Groups
    <2>. QED BY Zenon, <2>2, <2>4, <2>5 DEF Living, PidsOf
  <1>. QED BY Zenon, <1>3, <1>4, <1>5

\* The v1 manager: a process that was added is in the container's cgroup of every mounted
\* hierarchy, is never kept out by an empty cpuset whatever the siblings do between two of
\* its reads and writes, and a remove that succeeds leaves no cgroup and no process that
\* was added, whichever calls failed before.  This holds for every number of containers,
\* every set of hierarchies the manager knows, every request and every bound.
THEOREM HierarchiesAgree == Hosted => (V1Spec => []InEveryHierarchy)
PROOF
  <1>. SUFFICES ASSUME Hosted PROVE V1Spec => []InEveryHierarchy
    BY Zenon
  <1>1. V1Init => V1Inv
    BY Zenon, V1Start
  <1>2. V1Inv /\ [V1Next]_v1Vars => V1Inv'
    BY Zenon, V1Step
  <1>3. V1Inv => InEveryHierarchy
    BY Zenon, V1Goal
  <1>. QED BY <1>1, <1>2, <1>3, PTL DEF V1Spec
=============================================================================
