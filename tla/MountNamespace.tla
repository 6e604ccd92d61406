--------------------------- MODULE MountNamespace ---------------------------
(***************************************************************************)
(* The mount namespace of the init process from the moment it is unshared    *)
(* to the moment the container's root is in place: RootFS::mount_to_rootfs,   *)
(* do_pivot_root with pivot_rootfs or move_root, and                          *)
(* adjust_root_mount_propagation.  What matters is where mount and unmount    *)
(* events go: a mount has a peer group (0: not shared) and a master (0: not a *)
(* slave), and an event below it reaches its peers and its slaves, the ones   *)
(* in the host's namespace included.                                         *)
(*                                                                         *)
(* A path is a sequence of names.  The rootfs is bound over itself, so until  *)
(* the root changes one directory has one path in every mount that shows it.  *)
(***************************************************************************)
EXTENDS Naturals, FiniteSets, Sequences, SequencesExt, FiniteSetsExt

CONSTANTS Rootfs,       \* path of the container's rootfs
          HostTrees,    \* the host's mount points: a set of sets of paths, "/" in each
          TargetLists,  \* the destinations of the spec's mounts, in order
          HostTargets,  \* where the host may mount or unmount something meanwhile
          MaxEvents,    \* bound on the number of times it does
          Asked,        \* the values of rootfs_propagation a run covers
          NoPivot       \* whether --no-pivot is given

VARIABLES mounts,    \* the mounts of "host", of the container "ctr" and of the detached "old" root
          hostOwn,   \* the mount points the host has by its own doing
          conf,      \* rootfs_propagation, whether a user namespace is used, --no-pivot, the mounts
          pc,        \* next step of the init process
          clone,     \* id of the rootfs bind mount
          events     \* how often the host has mounted or unmounted something

vars == <<mounts, hostOwn, conf, pc, clone, events>>

Targets == conf.targets

In(ns) == {m \in mounts : m.ns = ns}

(* The longest mount point above a path in /proc/self/mountinfo, the last one of equals. *)
find_parent_mount(path) ==
    CHOOSE m \in In("ctr") :
        /\ IsPrefix(m.at, path)
        /\ \A n \in In("ctr") : IsPrefix(n.at, path) =>
              Len(n.at) < Len(m.at) \/ (Len(n.at) = Len(m.at) /\ n.id <= m.id)

----------------------------------------------------------------------------
(* The kernel's path walk and propagation rules. *)

(* The mount a path leads to: from the root, into the mount on the shortest mount point on  *)
(* the way, again and again.                                                               *)
WalkStep(M, path, cur) ==
    LET next == {m \in M : m.up = cur.id /\ IsPrefix(m.at, path)} IN
    IF next = {} THEN cur
    ELSE CHOOSE m \in next : \A n \in next :
            Len(m.at) < Len(n.at) \/ (Len(m.at) = Len(n.at) /\ n.id <= m.id)

Walk(M, path) ==
    FoldLeft(LAMBDA cur, i : WalkStep(M, path, cur), CHOOSE m \in M : m.up = 0,
             [i \in 1..Cardinality(M) |-> i])

(* A number above every id and every peer group. *)
Top(M) == Max({m.id : m \in M} \cup {m.group : m \in M})

Receives(m, group) == group # 0 /\ (m.group = group \/ m.master = group)

(* Attach a mount at a path of one namespace: every other mount that receives events of   *)
(* the parent shows a copy, at the same path.  A mount below a shared one is shared.       *)
AttachTo(M, ns, path, group, master) ==
    LET parent == Walk({m \in M : m.ns = ns}, path)
        top    == Top(M)
        g      == IF parent.group # 0 /\ group = 0 THEN top + 1 ELSE group
        new    == [id |-> top + 1, ns |-> ns, at |-> path, up |-> parent.id, group |-> g, master |-> master]
        others == {q \in M : q.id # parent.id /\ Receives(q, parent.group) /\ IsPrefix(q.at, path)}
        copy(q) == [id |-> top + 1 + q.id, ns |-> q.ns, at |-> path, up |-> q.id,
                    group |-> CASE q.group = parent.group -> g
                                [] q.group # parent.group /\ q.group # 0 -> top + 1 + q.group
                                [] OTHER -> 0,
                    master |-> IF q.group = parent.group THEN 0 ELSE g]
    IN  M \cup {new} \cup {copy(q) : q \in others}

(* Some mounts and all those mounted on them. *)
Trees(M, S) ==
    FoldLeft(LAMBDA T, i : T \cup {m \in M : \E t \in T : m.up = t.id}, S, [i \in 1..Cardinality(M) |-> i])

(* The mounts that go when those of S are unmounted: S, and the same at every receiver of   *)
(* their parents' events, unless something else is mounted there.                          *)
DetachedWith(M, S) ==
    LET hit == {q \in M \ S : \E m \in S, p, r \in M :
                    p.id = m.up /\ r.id = q.up /\ r.id # p.id /\ q.at = m.at /\ Receives(r, p.group)}
    IN  S \cup {q \in hit : Trees(M, {q}) \subseteq S \cup hit}

Retype(M, S, kind) ==
    {IF m \notin S THEN m
     ELSE CASE kind = "shared" -> [m EXCEPT !.group = IF @ = 0 THEN Top(M) + m.id ELSE @]
            [] kind = "slave" ->
                 [m EXCEPT !.group = 0, !.master = IF \E n \in M \ S : n.group = m.group /\ m.group # 0
                                                  THEN m.group ELSE @]
            [] OTHER -> [m EXCEPT !.group = 0, !.master = 0] : m \in M}

----------------------------------------------------------------------------
HostMounts(tree, shared) ==
    LET list == SetToSortSeq(tree, LAMBDA a, b : Len(a) < Len(b))
        idOf(p) == CHOOSE i \in DOMAIN list : list[i] = p
        upOf(p) == IF p = <<>> THEN 0
                   ELSE idOf(CHOOSE q \in tree \ {p} : IsPrefix(q, p) /\
                                \A r \in tree \ {p} : IsPrefix(r, p) => Len(r) <= Len(q))
    IN  {[id |-> idOf(p), ns |-> "host", at |-> p, up |-> upOf(p),
          group |-> IF shared THEN idOf(p) ELSE 0, master |-> 0] : p \in tree}

Init ==
    /\ \E tree \in HostTrees, shared \in BOOLEAN :
          mounts = HostMounts(tree, shared) /\ hostOwn = tree
    /\ conf \in [propagation : Asked, userns : BOOLEAN, nopivot : {NoPivot}, targets : TargetLists]
    /\ pc = "unshare"
    /\ clone = 0 /\ events = 0

(* unshare(CLONE_NEWNS): copies of the host's mounts, peers of them, or slaves when the    *)
(* namespace belongs to another user namespace.                                           *)
Unshare ==
    /\ pc = "unshare"
    /\ mounts' = mounts \cup
          {[m EXCEPT !.ns = "ctr", !.id = @ + Top(mounts), !.up = IF @ = 0 THEN 0 ELSE @ + Top(mounts),
                     !.group = IF conf.userns THEN 0 ELSE @,
                     !.master = IF conf.userns THEN m.group ELSE 0] : m \in In("host")}
    /\ pc' = "root_propagation"
    /\ UNCHANGED <<hostOwn, conf, clone, events>>

prepare_root_propagation(p) ==
    CASE p \in {"shared", "rshared"} -> "shared"
      [] p \in {"private", "rprivate"} -> "private"
      [] p \in {"slave", "rslave", "unbindable", "runbindable", "none"} -> "slave"
      [] OTHER -> "unknown"

(* mount_to_rootfs: "/" is retyped recursively; a propagation nobody knows is an error. *)
RootPropagation ==
    /\ pc = "root_propagation"
    /\ LET kind == prepare_root_propagation(conf.propagation)
       IN  IF kind = "unknown" THEN pc' = "refused" /\ UNCHANGED mounts
           ELSE mounts' = Retype(mounts, In("ctr"), kind) /\ pc' = "parent_private"
    /\ UNCHANGED <<hostOwn, conf, clone, events>>

make_parent_mount_private ==
    /\ pc = "parent_private"
    /\ LET p == find_parent_mount(Rootfs)
       IN  mounts' = IF p.group # 0 THEN Retype(mounts, {p}, "private") ELSE mounts
    /\ pc' = "bind_rootfs"
    /\ UNCHANGED <<hostOwn, conf, clone, events>>

(* The rootfs is bound over itself with MS_REC: a clone of its mount and of those below. *)
BindRootfs ==
    /\ pc = "bind_rootfs"
    /\ LET src == Walk(In("ctr"), Rootfs)
           sub == SetToSortSeq({m \in In("ctr") : IsStrictPrefix(Rootfs, m.at)},
                               LAMBDA a, b : a.id < b.id)
           M0  == AttachTo(mounts, "ctr", Rootfs, src.group, src.master)
       IN  /\ mounts' = FoldLeft(LAMBDA M, m : AttachTo(M, "ctr", m.at, m.group, m.master), M0, sub)
           /\ clone' = Top(mounts) + 1
    /\ pc' = "mount_1"
    /\ UNCHANGED <<hostOwn, conf, events>>

(* The spec's mounts, in order; each is a new mount below the rootfs clone. *)
MountTarget(i) ==
    /\ pc = <<"mount_1", "mount_2">>[i]
    /\ mounts' = AttachTo(mounts, "ctr", Rootfs \o Targets[i], 0, 0)
    /\ pc' = IF i < Len(Targets) THEN "mount_2" ELSE IF conf.nopivot THEN "hide_sys" ELSE "pivot_root"
    /\ UNCHANGED <<hostOwn, conf, clone, events>>

(* pivot_root(".", "."): refused when the new root or its parent is shared; the old root   *)
(* is stacked on top of the new one.                                                      *)
NewRoot == CHOOSE m \in mounts : m.id = clone

InNewRoot(m) == m \in Trees(mounts, {NewRoot})

Rerooted ==
    {CASE InNewRoot(m) -> [m EXCEPT !.at = SubSeq(@, Len(Rootfs) + 1, Len(@)),
                                    !.up = IF m.id = clone THEN 0 ELSE @]
       [] m.ns = "ctr" /\ ~InNewRoot(m) -> [m EXCEPT !.ns = "old", !.up = IF @ = 0 THEN clone ELSE @]
       [] OTHER -> m : m \in mounts}

PivotRoot ==
    /\ pc = "pivot_root"
    /\ IF NewRoot.group # 0 \/ \E p \in mounts : p.id = NewRoot.up /\ p.group # 0
       THEN pc' = "err" /\ UNCHANGED mounts
       ELSE mounts' = Rerooted /\ pc' = "old_rslave"
    /\ UNCHANGED <<hostOwn, conf, clone, events>>

(* mutant: the old root keeps its propagation *)
OldRootAsItWas ==
    /\ pc = "old_rslave"
    /\ pc' = "umount_old"
    /\ UNCHANGED <<mounts, hostOwn, conf, clone, events>>

OldRootSlave ==
    /\ pc = "old_rslave"
    /\ mounts' = Retype(mounts, In("old"), "slave")
    /\ pc' = "umount_old"
    /\ UNCHANGED <<hostOwn, conf, clone, events>>

(* mutant: only the top mount of the old root is unmounted *)
UmountOldTop ==
    /\ pc = "umount_old"
    /\ mounts' = mounts \ {m \in In("old") : m.at = <<>>}
    /\ pc' = "adjust"
    /\ UNCHANGED <<hostOwn, conf, clone, events>>

(* umount2(".", MNT_DETACH): the old root and everything below it. *)
UmountOld ==
    /\ pc = "umount_old"
    /\ mounts' = mounts \ DetachedWith(mounts, In("old"))
    /\ pc' = "adjust"
    /\ UNCHANGED <<hostOwn, conf, clone, events>>

(* move_root: unmount_or_hide("/sys"), then ("/proc"), then MS_MOVE of the rootfs to "/"   *)
(* and chroot.  A target that is not a mount point gets an empty tmpfs.                    *)
unmount_or_hide(path) ==
    LET at == {m \in In("ctr") : m.at = path} IN
    mounts' = IF at = {} THEN AttachTo(mounts, "ctr", path, 0, 0)
              ELSE mounts \ DetachedWith(mounts, Trees(mounts, {CHOOSE m \in at : \A n \in at : n.id <= m.id}))

HideSys ==
    /\ pc = "hide_sys"
    /\ unmount_or_hide(<<"sys">>)
    /\ pc' = "hide_proc"
    /\ UNCHANGED <<hostOwn, conf, clone, events>>

HideProc ==
    /\ pc = "hide_proc"
    /\ unmount_or_hide(<<"proc">>)
    /\ pc' = "move"
    /\ UNCHANGED <<hostOwn, conf, clone, events>>

(* MS_MOVE is refused from below a shared parent. *)
MoveRoot ==
    /\ pc = "move"
    /\ IF \E p \in mounts : p.id = NewRoot.up /\ p.group # 0
       THEN pc' = "err" /\ UNCHANGED mounts
       ELSE mounts' = Rerooted /\ pc' = "adjust"
    /\ UNCHANGED <<hostOwn, conf, clone, events>>

adjust_root_mount_propagation ==
    /\ pc = "adjust"
    /\ mounts' = CASE conf.propagation \in {"shared", "unbindable"} ->
                        Retype(mounts, {NewRoot}, conf.propagation)
                   [] conf.propagation \in {"rshared", "runbindable"} ->
                        Retype(mounts, In("ctr"), prepare_root_propagation(conf.propagation))
                   [] OTHER -> mounts
    /\ pc' = "done"
    /\ UNCHANGED <<hostOwn, conf, clone, events>>

(* The host goes on mounting and unmounting meanwhile. *)
HostMount(path) ==
    /\ events < MaxEvents
    /\ path \notin hostOwn
    /\ mounts' = AttachTo(mounts, "host", path, 0, 0)
    /\ hostOwn' = hostOwn \cup {path}
    /\ events' = events + 1
    /\ UNCHANGED <<conf, pc, clone>>

HostUmount(path) ==
    /\ events < MaxEvents
    /\ path \in hostOwn
    /\ \E m \in In("host") :
          /\ m.at = path /\ \A n \in mounts : n.up # m.id
          /\ mounts' = mounts \ DetachedWith(mounts, {m})
    /\ hostOwn' = hostOwn \ {path}
    /\ events' = events + 1
    /\ UNCHANGED <<conf, pc, clone>>

Finished == pc \in {"done", "err", "refused"} /\ UNCHANGED vars

Next ==
    \/ Unshare \/ RootPropagation \/ make_parent_mount_private \/ BindRootfs
    \/ \E i \in DOMAIN Targets : MountTarget(i)
    \/ PivotRoot \/ OldRootSlave \/ UmountOld
    \/ HideSys \/ HideProc \/ MoveRoot
    \/ adjust_root_mount_propagation
    \/ \E path \in HostTargets : HostMount(path) \/ HostUmount(path)
    \/ Finished

Spec == Init /\ [][Next]_vars

----------------------------------------------------------------------------
(* The type invariant: ids are unique and every namespace but the detached one has a root. *)
TypeOK ==
    /\ \A m, n \in mounts : m.id = n.id => m = n
    /\ \A m \in mounts : m.ns \in {"host", "ctr", "old"} /\ m.group \in Nat /\ m.master \in Nat
    /\ pc \notin {"unshare"} => \E m \in In("ctr") : m.at = <<>>
    /\ clone = 0 <=> pc \in {"unshare", "root_propagation", "parent_private", "bind_rootfs", "refused"}

(* make_parent_mount_private deals with the mount the rootfs is on, and not with mounts of   *)
(* the host inside the rootfs: with a shared propagation and no user namespace the clone of   *)
(* such a mount stays its peer, and what the spec mounts below it is mounted in the host too. *)
Strays == {m \in In("host") : \E i \in DOMAIN Targets : m.at = Rootfs \o Targets[i]}

(* Nothing mount_to_rootfs or do_pivot_root mounts or unmounts reaches the host's mount       *)
(* namespace, whatever rootfs_propagation asks for, however the host's mounts are shared and  *)
(* whatever it mounts and unmounts itself, but for a mount of the spec below a mount of the   *)
(* host that lies inside the rootfs and is still shared with it, which the host gets once.     *)
HostUntouched ==
    /\ {m.at : m \in In("host") \ Strays} = hostOwn
    /\ Cardinality(In("host") \ Strays) = Cardinality(hostOwn)
    /\ \A m \in Strays :
          /\ conf.propagation \in {"shared", "rshared"} /\ ~conf.userns
          /\ \E v \in hostOwn : IsStrictPrefix(Rootfs, v) /\ IsPrefix(v, m.at)
          /\ \A n \in Strays : n.at = m.at => n = m

(* pivot_root and MS_MOVE are never refused: make_parent_mount_private has dealt with a       *)
(* shared parent of the rootfs ("which is required by pivot_root").                           *)
RootIsEntered == pc # "err"

(* Once the container's root is in place, its root mount is shared exactly when the spec       *)
(* asks for it, and is then never in a peer group of the host.                                *)
RootPropagationAsAsked ==
    pc = "done" =>
        /\ (NewRoot.group # 0) <=> conf.propagation \in {"shared", "rshared"}
        /\ \A h \in In("host") : NewRoot.group # 0 => h.group # NewRoot.group

(* After pivot_rootfs the container sees its own root and what was mounted below it, and       *)
(* nothing of the old root tree.                                                              *)
OldRootGone ==
    pc \in {"adjust", "done"} /\ ~conf.nopivot =>
        /\ In("old") = {}
        /\ \A i \in DOMAIN Targets : \E m \in In("ctr") : m.at = Targets[i]
=============================================================================
