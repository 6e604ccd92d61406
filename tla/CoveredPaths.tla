---------------------------- MODULE CoveredPaths ----------------------------
(***************************************************************************)
(* The last changes to the container's mounts: the root is made read-only, *)
(* then each read-only path is bound to itself and remounted, then each    *)
(* masked path is covered, a directory by an empty tmpfs and a file by     *)
(* /dev/null.  The paths come in any order and may lie below each other.   *)
(*                                                                         *)
(* The kernel's mount tree is external.  A mount is [parent, at, fs, ro]:  *)
(* it is on top of a path of its parent.  Every file system of the kind    *)
(* "tree" has the same files, those of Tree; a tmpfs has its root only.    *)
(***************************************************************************)
EXTENDS Integers, Sequences, FiniteSets, SequencesExt

CONSTANTS
    Tree,     \* path -> "dir" or "file"; a path is a sequence of names
    Volumes,  \* the paths at which the spec mounted file systems, a sequence
    Jobs      \* what specs ask for: [rootRo, readonly, masked]

VARIABLES
    job, mounts,
    pc, i       \* next step and the path it is at

vars == <<job, mounts, pc, i>>

-----------------------------------------------------------------------------
(* The mount tree (external) *)

\* The mount on top of a path, from the mount that holds the path.
RECURSIVE Top(_, _, _)
Top(mt, m, path) ==
    LET over == {c \in DOMAIN mt : mt[c].parent = m /\ mt[c].at = path}
    IN  IF over = {} THEN m ELSE Top(mt, CHOOSE c \in over : TRUE, path)

RECURSIVE MountOf(_, _)
MountOf(mt, path) == Top(mt, IF path = <<>> THEN 1 ELSE MountOf(mt, Front(path)), path)

RECURSIVE Exists(_, _)
Exists(mt, path) ==
    \/ path = <<>>
    \/ /\ Exists(mt, Front(path))
       /\ LET m == mt[MountOf(mt, path)]
          IN  m.at = path \/ (m.fs = "tree" /\ path \in DOMAIN Tree)

IsDir(mt, path) ==
    LET m == mt[MountOf(mt, path)]
    IN  m.fs = "tmpfs" \/ (m.fs = "tree" /\ Tree[path] = "dir")

\* MS_BIND | MS_REC of a path on itself: the mount it is on is cloned, with all
\* that is mounted below the path.
BindSelf(mt, path) ==
    LET src == MountOf(mt, path)
        RECURSIVE Below(_)
        Below(m) == LET kids == {c \in DOMAIN mt : mt[c].parent = m /\ IsStrictPrefix(path, mt[c].at)}
                    IN  kids \cup UNION {Below(c) : c \in kids}
        below == SetToSortSeq(Below(src), LAMBDA a, b : a < b)
        New(m) == IF m = src THEN Len(mt) + 1
                  ELSE Len(mt) + 1 + CHOOSE k \in DOMAIN below : below[k] = m
    IN  mt \o <<[mt[src] EXCEPT !.parent = src, !.at = path]>>
           \o [k \in DOMAIN below |-> [mt[below[k]] EXCEPT !.parent = New(mt[below[k]].parent)]]

RemountRo(mt, path) == [mt EXCEPT ![MountOf(mt, path)].ro = TRUE]

MountOver(mt, path, fs, ro) == Append(mt, [parent |-> MountOf(mt, path), at |-> path, fs |-> fs, ro |-> ro])

-----------------------------------------------------------------------------
(* The init process *)

Start == FoldLeft(LAMBDA mt, path : MountOver(mt, path, "tree", FALSE),
                  <<[parent |-> 0, at |-> <<>>, fs |-> "tree", ro |-> FALSE]>>, Volumes)

Init ==
    /\ job \in Jobs
    /\ mounts = Start
    /\ pc = "root" /\ i = 1

\* The flags of the root are read and kept; only the read-only one is added.
RootReadonly ==
    /\ pc = "root"
    /\ mounts' = IF job.rootRo THEN RemountRo(mounts, <<>>) ELSE mounts
    /\ pc' = "bind"
    /\ UNCHANGED <<job, i>>

\* readonly_path: a path that does not exist is left out.
ReadonlyBind ==
    /\ pc = "bind" /\ i <= Len(job.readonly)
    /\ IF Exists(mounts, job.readonly[i])
       THEN mounts' = BindSelf(mounts, job.readonly[i]) /\ pc' = "remount" /\ UNCHANGED i
       ELSE i' = i + 1 /\ UNCHANGED <<mounts, pc>>
    /\ UNCHANGED job

(* mutant: the root is remounted, not the path *)
ReadonlyRemount_root ==
    /\ pc = "remount"
    /\ mounts' = RemountRo(mounts, <<>>)
    /\ i' = i + 1 /\ pc' = "bind"
    /\ UNCHANGED job

ReadonlyRemount ==
    /\ pc = "remount"
    /\ mounts' = RemountRo(mounts, job.readonly[i])
    /\ i' = i + 1 /\ pc' = "bind"
    /\ UNCHANGED job

ReadonlyDone ==
    /\ pc = "bind" /\ i > Len(job.readonly)
    /\ pc' = "mask" /\ i' = 1
    /\ UNCHANGED <<job, mounts>>

\* mount_from_fd: a clone of the mount of /dev/null is moved to the path.
MountFromFd(mt, path) == MountOver(mt, path, "null", FALSE)

\* masked_paths
MaskPath ==
    /\ pc = "mask" /\ i <= Len(job.masked)
    /\ mounts' = LET path == job.masked[i]
                 IN  CASE ~Exists(mounts, path) -> mounts
                       [] IsDir(mounts, path) -> MountOver(mounts, path, "tmpfs", TRUE)
                       [] OTHER -> MountFromFd(mounts, path)
    /\ i' = i + 1
    /\ UNCHANGED <<job, pc>>

MaskDone ==
    /\ pc = "mask" /\ i > Len(job.masked)
    /\ pc' = "done"
    /\ UNCHANGED <<job, mounts, i>>

Next == RootReadonly \/ ReadonlyBind \/ ReadonlyRemount \/ ReadonlyDone \/ MaskPath \/ MaskDone

Spec == Init /\ [][Next]_vars

-----------------------------------------------------------------------------
(* Properties *)

Given(path, seq) == \E k \in DOMAIN seq : seq[k] = path
Masked(path) == \E k \in DOMAIN job.masked : job.masked[k] \in DOMAIN Tree /\ IsPrefix(job.masked[k], path)

\* Every mount is on a path of a mount that was there before it, and a path of the
\* tree has at most one mount directly on it.
TypeOK ==
    /\ \A m \in 2 .. Len(mounts) : mounts[m].parent \in 1 .. m - 1
    /\ \A m, k \in DOMAIN mounts : mounts[m].parent = mounts[k].parent /\ mounts[m].at = mounts[k].at => m = k

\* A masked path, and all that was below it, can no longer be reached, in whatever
\* order the paths are given and however they lie below each other; and nothing
\* else is hidden.
MaskedIsHidden ==
    pc = "done" => \A path \in DOMAIN Tree \ {<<>>} :
        (Exists(mounts, path) /\ mounts[MountOf(mounts, path)].fs = "tree") = ~Masked(path)

\* What can still be reached is read-only exactly if the last of the read-only
\* paths and file systems above it says so: a read-only path covers what is below
\* it, up to a file system mounted there.
ReadonlyIsExact ==
    pc = "done" => \A path \in DOMAIN Tree : ~Masked(path) =>
        LET points == {p \in Range(job.readonly) \cup Range(Volumes) \cup {<<>>} : IsPrefix(p, path)}
            last == CHOOSE p \in points : \A q \in points : Len(q) <= Len(p)
        IN  mounts[MountOf(mounts, path)].ro =
                (Given(last, job.readonly) \/ (job.rootRo /\ ~Given(last, Volumes)))
=============================================================================
