------------------------------ MODULE CgroupV2 ------------------------------
(***************************************************************************)
(* The cgroup v2 manager (libcgroups/src/v2/manager.rs, with the helpers   *)
(* of common.rs and v2/util.rs): several youki commands create, enter and  *)
(* remove cgroups below the same parents at the same time, while the       *)
(* processes inside fork, exit and make cgroups of their own.  One system  *)
(* call is one step.  The kernel's tree is external: a controller is       *)
(* available where the parent hands it down, a cgroup with processes hands *)
(* nothing down, and one with processes or children cannot be removed.     *)
(***************************************************************************)
EXTENDS Naturals, Sequences, FiniteSets

CONSTANTS
    Jobs,          \* commands: [kind, path]; kind "create", "exec" or "remove"
    Available,     \* controllers in cgroup.controllers of the root
    Needed,        \* controllers whose limits the resources set
    Children,      \* processes that may be forked inside the cgroups
    Inner,         \* names of cgroups processes make below their own
    HasKill,       \* whether the kernel has cgroup.kill (5.14): a set of BOOLEAN
    Readonly,      \* sets of paths that EACCES or EROFS may protect
    Rootless,
    MaxAttempts    \* retries of delete_with_retry()

VARIABLES
    v2Pc, v2Level, snapshot, attempts,   \* of each job
    v2Dirs, subtree,                   \* the tree: directories, subtree_control
    place,                           \* the cgroup a process is in, or a status
    dying,                           \* processes sent SIGKILL
    readonly, hasKill                \* what EACCES protects here; the kernel

jobVars == <<v2Pc, v2Level, snapshot, attempts>>
v2Vars == <<jobVars, v2Dirs, subtree, place, dying, readonly, hasKill>>

Root == <<>>
Outside == <<"(outside)">>
Dead == <<"(dead)">>
Processes == Jobs \cup Children
Path(j) == j.path
Up(dir) == SubSeq(dir, 1, Len(dir) - 1)
IsBelow(dir, top) == Len(dir) >= Len(top) /\ SubSeq(dir, 1, Len(top)) = top
Procs(dir) == {p \in Processes : place[p] = dir}

-----------------------------------------------------------------------------
(* The kernel. *)

AvailableAt(dir) == IF dir = Root THEN Available ELSE subtree[Up(dir)]

\* Every directory the jobs and the processes inside may make.
AllDirs ==
    (UNION {{SubSeq(Path(j), 1, i) : i \in 0..Len(Path(j))} : j \in Jobs})
    \cup {Append(Path(j), n) : j \in Jobs, n \in Inner}

\* What subtree_control of dir holds after "+c" was written for each c.
EnabledAfter(dir, controllers) ==
    IF dir \in readonly \/ (dir # Root /\ Procs(dir) # {}) THEN subtree[dir]
    ELSE subtree[dir] \cup (controllers \cap AvailableAt(dir))

MayEnter(dir) == dir \in v2Dirs /\ subtree[dir] = {}

MayRemove(dir) ==
    /\ dir \in v2Dirs
    /\ Procs(dir) = {}
    /\ \A d \in v2Dirs : d # dir => ~IsBelow(d, dir)

-----------------------------------------------------------------------------
(* add_task() and apply(). *)

V2Init ==
    /\ v2Pc = [j \in Jobs |-> IF j.kind = "remove" THEN "remove" ELSE "add_task"]
    /\ v2Level = [j \in Jobs |-> 0]
    /\ snapshot = [j \in Jobs |-> {}]
    /\ attempts = [j \in Jobs |-> 0]
    /\ v2Dirs = {Root}
    /\ subtree = [d \in AllDirs |-> {}]
    /\ place = [p \in Processes |-> Outside]
    /\ dying = {}
    /\ readonly \in Readonly
    /\ hasKill \in HasKill

V2Goto(j, label) == v2Pc' = [v2Pc EXCEPT ![j] = label]

AddTask(j) ==
    /\ v2Pc[j] = "add_task"
    /\ V2Goto(j, IF Path(j) \in v2Dirs THEN "attach" ELSE "enable")
    /\ UNCHANGED <<v2Level, snapshot, attempts, v2Dirs, subtree, place, dying, readonly, hasKill>>

EnableControllersOfRootOnly(j) ==
    /\ v2Pc[j] = "enable"
    /\ subtree' = [subtree EXCEPT ![Root] = EnabledAfter(Root, Available)]
    /\ V2Goto(j, "create_dir")
    /\ UNCHANGED <<v2Level, snapshot, attempts, v2Dirs, place, dying, readonly, hasKill>>

\* enable_controllers() for the level reached; its errors are ignored.
EnableControllers(j) ==
    /\ v2Pc[j] = "enable"
    /\ LET dir == SubSeq(Path(j), 1, v2Level[j]) IN
         subtree' = [subtree EXCEPT ![dir] =
                       IF dir \in v2Dirs THEN EnabledAfter(dir, Available) ELSE @]
    /\ V2Goto(j, "create_dir")
    /\ UNCHANGED <<v2Level, snapshot, attempts, v2Dirs, place, dying, readonly, hasKill>>

\* create_dir() of the next level: there already is as good as created.
CreateDir(j) ==
    /\ v2Pc[j] = "create_dir"
    /\ LET dir == SubSeq(Path(j), 1, v2Level[j] + 1)
           denied == dir \notin v2Dirs /\ Up(dir) \in readonly
           missing == Up(dir) \notin v2Dirs IN
         IF denied \/ missing
         THEN /\ V2Goto(j, IF denied /\ Rootless THEN "left" ELSE "failed")
              /\ UNCHANGED <<v2Dirs, v2Level>>
         ELSE /\ v2Dirs' = v2Dirs \cup {dir}
              /\ v2Level' = [v2Level EXCEPT ![j] = @ + 1]
              /\ V2Goto(j, IF v2Level[j] + 1 = Len(Path(j)) THEN "attach" ELSE "enable")
    /\ UNCHANGED <<snapshot, attempts, subtree, place, dying, readonly, hasKill>>

\* attach_pid().
AttachPid(j) ==
    /\ v2Pc[j] = "attach"
    /\ CASE Path(j) \in readonly /\ Path(j) \in v2Dirs ->
              V2Goto(j, IF Rootless THEN "left" ELSE "failed") /\ UNCHANGED place
         [] Path(j) \notin readonly /\ MayEnter(Path(j)) ->
              /\ place' = [place EXCEPT ![j] = Path(j)]
              /\ V2Goto(j, IF j.kind = "create" THEN "apply" ELSE "done")
         [] OTHER -> V2Goto(j, "failed") /\ UNCHANGED place
    /\ UNCHANGED <<v2Level, snapshot, attempts, v2Dirs, subtree, dying, readonly, hasKill>>

\* apply(): the limits of a controller are files its parent's subtree_control
\* brings about.
Apply(j) ==
    /\ v2Pc[j] = "apply"
    /\ V2Goto(j, IF Path(j) \in v2Dirs /\ Needed \subseteq AvailableAt(Path(j))
               THEN "done" ELSE "unlimited")
    /\ UNCHANGED <<v2Level, snapshot, attempts, v2Dirs, subtree, place, dying, readonly, hasKill>>

-----------------------------------------------------------------------------
(* remove(). *)

\* cgroup.kill acts on the cgroup and all below it at once.
Remove(j) ==
    /\ v2Pc[j] = "remove"
    /\ IF Path(j) \notin v2Dirs
       THEN V2Goto(j, "removed") /\ UNCHANGED <<snapshot, dying>>
       ELSE IF hasKill
            THEN /\ dying' = dying \cup {p \in Processes :
                                 place[p] \in v2Dirs /\ IsBelow(place[p], Path(j))}
                 /\ V2Goto(j, "delete") /\ UNCHANGED snapshot
            ELSE /\ snapshot' = [snapshot EXCEPT ![j] = Procs(Path(j))]
                 /\ V2Goto(j, "kill") /\ UNCHANGED dying
    /\ UNCHANGED <<v2Level, attempts, v2Dirs, subtree, place, readonly, hasKill>>

\* The processes read from cgroup.procs are sent SIGKILL one by one.
Kill(j) ==
    /\ v2Pc[j] = "kill"
    /\ IF snapshot[j] = {}
       THEN V2Goto(j, "delete") /\ UNCHANGED <<snapshot, dying>>
       ELSE \E p \in snapshot[j] :
              /\ snapshot' = [snapshot EXCEPT ![j] = @ \ {p}]
              /\ dying' = IF place[p] \in v2Dirs THEN dying \cup {p} ELSE dying
              /\ UNCHANGED v2Pc
    /\ UNCHANGED <<v2Level, attempts, v2Dirs, subtree, place, readonly, hasKill>>

DeleteWithRetryGivesUpQuietly(j) ==
    /\ v2Pc[j] = "delete"
    /\ v2Dirs' = IF MayRemove(Path(j)) THEN v2Dirs \ {Path(j)} ELSE v2Dirs
    /\ V2Goto(j, "removed")
    /\ UNCHANGED <<v2Level, snapshot, attempts, subtree, place, dying, readonly, hasKill>>

DeleteWithRetryForever(j) ==
    /\ v2Pc[j] = "delete"
    /\ IF MayRemove(Path(j))
       THEN v2Dirs' = v2Dirs \ {Path(j)} /\ V2Goto(j, "removed")
       ELSE UNCHANGED <<v2Dirs, v2Pc>>
    /\ UNCHANGED <<v2Level, snapshot, attempts, subtree, place, dying, readonly, hasKill>>

\* delete_with_retry(): rmdir of this one directory.
DeleteWithRetry(j) ==
    /\ v2Pc[j] = "delete"
    /\ IF attempts[j] = MaxAttempts
       THEN V2Goto(j, "failed") /\ UNCHANGED <<v2Dirs, attempts>>
       ELSE IF MayRemove(Path(j))
            THEN v2Dirs' = v2Dirs \ {Path(j)} /\ V2Goto(j, "removed") /\ UNCHANGED attempts
            ELSE attempts' = [attempts EXCEPT ![j] = @ + 1] /\ UNCHANGED <<v2Dirs, v2Pc>>
    /\ UNCHANGED <<v2Level, snapshot, subtree, place, dying, readonly, hasKill>>

-----------------------------------------------------------------------------
(* The processes in the cgroups. *)

Alive(p) == place[p] \in v2Dirs /\ p \notin dying

\* A command's own process may fork only once it is the container's.
Settled(p) == p \in Children \/ (p \in Jobs /\ v2Pc[p] \in {"done", "unlimited"})

Fork(p, c) ==
    /\ Alive(p) /\ Settled(p)
    /\ place[c] = Outside
    /\ place' = [place EXCEPT ![c] = place[p]]
    /\ UNCHANGED <<jobVars, v2Dirs, subtree, dying, readonly, hasKill>>

Exit(p) ==
    /\ place[p] \in v2Dirs
    /\ p \in dying \/ Settled(p)
    /\ place' = [place EXCEPT ![p] = Dead]
    /\ UNCHANGED <<jobVars, v2Dirs, subtree, dying, readonly, hasKill>>

\* A process makes a cgroup below its own and moves there (a container that
\* manages cgroups itself).
Nest(p, n) ==
    /\ Alive(p) /\ Settled(p)
    /\ \E j \in Jobs : place[p] = Path(j)
    /\ v2Dirs' = v2Dirs \cup {Append(place[p], n)}
    /\ place' = [place EXCEPT ![p] = Append(@, n)]
    /\ UNCHANGED <<jobVars, subtree, dying, readonly, hasKill>>

Command(j) ==
    \/ AddTask(j) \/ EnableControllers(j) \/ CreateDir(j) \/ AttachPid(j) \/ Apply(j)
    \/ Remove(j) \/ Kill(j) \/ DeleteWithRetry(j)

V2Ended(j) == v2Pc[j] \in {"done", "left", "unlimited", "removed", "failed"}

V2Terminated == (\A j \in Jobs : V2Ended(j)) /\ UNCHANGED v2Vars

V2Next ==
    \/ \E j \in Jobs : Command(j)
    \/ \E p \in Processes : Exit(p)
    \/ \E p \in Processes, c \in Children : Fork(p, c)
    \/ \E p \in Processes, n \in Inner : Nest(p, n)
    \/ V2Terminated

V2Spec == V2Init /\ [][V2Next]_v2Vars /\ \A j \in Jobs : WF_v2Vars(Command(j))

-----------------------------------------------------------------------------
(* Properties. *)

\* Shape of the state; a process is only ever in a cgroup that exists.
V2TypeOK ==
    /\ v2Dirs \subseteq AllDirs
    /\ \A d \in AllDirs : subtree[d] \subseteq Available
    /\ \A p \in Processes : place[p] \in v2Dirs \cup {Outside, Dead}
    /\ \A j \in Jobs : attempts[j] \in 0..MaxAttempts /\ v2Level[j] \in 0..Len(Path(j))

\* Unless permissions forbid it, every controller of the root reaches the new
\* cgroup, so apply() finds the file of every limit it has to set.
ControllersReachTheLeaf == readonly = {} => \A j \in DOMAIN v2Pc : v2Pc[j] # "unlimited"
    \/ Path(j) \notin v2Dirs \/ \E r \in DOMAIN v2Pc : r.kind = "remove" /\ r.path = j.path

\* remove() says Ok only once the cgroup is gone, and with it every process
\* that was in it: none survives in the cgroup or below it.  A cgroup of the
\* same path that another command makes later does not count.
RemovalEmpties ==
    \A j \in DOMAIN v2Pc : v2Pc[j] # "removed" /\ v2Pc'[j] = "removed" =>
        \A p \in DOMAIN place : place'[p] \notin v2Dirs' \/ ~IsBelow(place'[p], Path(j))

\* A youki command never takes a directory away that is not the cgroup it was
\* asked to remove; parents shared with other containers stay.
TakesOwnCgroup ==
    \A d \in v2Dirs \ v2Dirs' : \E j \in DOMAIN v2Pc : j.kind = "remove" /\ d = Path(j) /\ v2Pc[j] = "delete"

\* Both, of every step: remove says Ok only once no process is left in the cgroup or
\* below it, and a command takes no directory away but the cgroup it was asked to remove.
RemovesExactly == [][RemovalEmpties /\ TakesOwnCgroup]_v2Vars

\* Every command returns: the loops are over a path, a list read once, and a
\* bounded number of attempts.
AllEnded == \A j \in Jobs : V2Ended(j)
=============================================================================
