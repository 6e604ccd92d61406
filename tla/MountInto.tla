----------------------------- MODULE MountInto -----------------------------
(***************************************************************************)
(* How one entry of the spec's mounts reaches the container: parse_mount    *)
(* (rootfs/utils.rs) folds the option strings into flags, recursive         *)
(* attributes, propagation changes and data; setup_mount picks the flow by   *)
(* type; mount_into_container (rootfs/mount.rs) drives the kernel's          *)
(* fd-based mount calls, one call per step, retries them on EINVAL and       *)
(* EBUSY, falls back to mount(2) when fsconfig refuses, and for cgroup2      *)
(* falls back to a bind mount when everything failed.                       *)
(*                                                                         *)
(* Flags and attribute bits are sets of names, so "|" is \cup and "& !" is   *)
(* \ .  MOUNT_ATTR_RELATIME is 0 in linux.rs: it is the empty set here.      *)
(***************************************************************************)
EXTENDS Naturals, Sequences, FiniteSets, SequencesExt

CONSTANTS Requests,   \* the mount entries a run starts from
          MaxFaults,  \* bound on the calls that fail for a reason of their own
          RetryMax    \* MAX_EBUSY_MOUNT_ATTEMPTS

VARIABLES req,      \* the mount entry: typ, dest, opts, the attributes of a bind source
          cfg,      \* MountOptionConfig, the result of parse_mount
          pc,       \* the next call
          round,    \* which call of mount_fn this is: "first", "again", "retry"
          attempt,  \* the attempt counter of utils::retry
          bindNow,  \* mount_cgroup_v2 is at its bind mount fallback
          mnt,      \* the detached mount: its attributes and whether it was copied up
          stack,    \* the mounts attached at the destination, oldest first
          handed,   \* the MountAttr of every mount_setattr call so far that named attributes
          faults

vars == <<req, cfg, pc, round, attempt, bindNow, mnt, stack, handed, faults>>

----------------------------------------------------------------------------
(* Attribute bits (syscall/linux.rs). *)
ATIME == {"NOATIME", "STRICTATIME", "ATIME_0x40"}

(* MountOption::from_str: name |-> is_clear and the MsFlags it carries. *)
Flag(c, f) == [kind |-> "flag", clear |-> c, bits |-> f]

Prop(f) == [kind |-> "propagation", clear |-> FALSE, bits |-> f]

MountOption(o) ==
    CASE o = "defaults" -> Flag(FALSE, {})
      [] o = "ro" -> Flag(FALSE, {"RDONLY"})            [] o = "rw" -> Flag(TRUE, {"RDONLY"})
      [] o = "suid" -> Flag(TRUE, {"NOSUID"})           [] o = "nosuid" -> Flag(FALSE, {"NOSUID"})
      [] o = "dev" -> Flag(TRUE, {"NODEV"})             [] o = "nodev" -> Flag(FALSE, {"NODEV"})
      [] o = "exec" -> Flag(TRUE, {"NOEXEC"})           [] o = "noexec" -> Flag(FALSE, {"NOEXEC"})
      [] o = "sync" -> Flag(FALSE, {"SYNCHRONOUS"})     [] o = "async" -> Flag(TRUE, {"SYNCHRONOUS"})
      [] o = "dirsync" -> Flag(FALSE, {"DIRSYNC"})      [] o = "remount" -> Flag(FALSE, {"REMOUNT"})
      [] o = "mand" -> Flag(FALSE, {"MANDLOCK"})        [] o = "nomand" -> Flag(TRUE, {"MANDLOCK"})
      [] o = "atime" -> Flag(TRUE, {"NOATIME"})         [] o = "noatime" -> Flag(FALSE, {"NOATIME"})
      [] o = "diratime" -> Flag(TRUE, {"NODIRATIME"})   [] o = "nodiratime" -> Flag(FALSE, {"NODIRATIME"})
      [] o = "bind" -> Flag(FALSE, {"BIND"})            [] o = "rbind" -> Flag(FALSE, {"BIND", "REC"})
      [] o = "relatime" -> Flag(FALSE, {"RELATIME"})    [] o = "norelatime" -> Flag(TRUE, {"RELATIME"})
      [] o = "strictatime" -> Flag(FALSE, {"STRICTATIME"})
      [] o = "nostrictatime" -> Flag(TRUE, {"STRICTATIME"})
      [] o = "unbindable" -> Prop({"UNBINDABLE"})       [] o = "runbindable" -> Prop({"UNBINDABLE", "REC"})
      [] o = "private" -> Prop({"PRIVATE"})             [] o = "rprivate" -> Prop({"PRIVATE", "REC"})
      [] o = "shared" -> Prop({"SHARED"})               [] o = "rshared" -> Prop({"SHARED", "REC"})
      [] o = "slave" -> Prop({"SLAVE"})                 [] o = "rslave" -> Prop({"SLAVE", "REC"})
      [] OTHER -> [kind |-> "data", clear |-> FALSE, bits |-> {}]

(* MountRecursive::from_str: the options that go to mount_setattr with AT_RECURSIVE. *)
RecAttr(c, f) == [kind |-> "recursive", clear |-> c, bits |-> f]

MountRecursive(o) ==
    CASE o = "rro" -> RecAttr(FALSE, {"RDONLY"})        [] o = "rrw" -> RecAttr(TRUE, {"RDONLY"})
      [] o = "rnosuid" -> RecAttr(FALSE, {"NOSUID"})    [] o = "rsuid" -> RecAttr(TRUE, {"NOSUID"})
      [] o = "rnodev" -> RecAttr(FALSE, {"NODEV"})      [] o = "rdev" -> RecAttr(TRUE, {"NODEV"})
      [] o = "rnoexec" -> RecAttr(FALSE, {"NOEXEC"})    [] o = "rexec" -> RecAttr(TRUE, {"NOEXEC"})
      [] o = "rnodiratime" -> RecAttr(FALSE, {"NODIRATIME"})
      [] o = "rdiratime" -> RecAttr(TRUE, {"NODIRATIME"})
      [] o = "rrelatime" -> RecAttr(FALSE, {})          [] o = "rnorelatime" -> RecAttr(TRUE, {})
      [] o = "rnoatime" -> RecAttr(FALSE, {"NOATIME"})  [] o = "ratime" -> RecAttr(TRUE, {"NOATIME"})
      [] o = "rstrictatime" -> RecAttr(FALSE, {"STRICTATIME"})
      [] o = "rnostrictatime" -> RecAttr(TRUE, {"STRICTATIME"})
      [] o = "rnosymfollow" -> RecAttr(FALSE, {"NOSYMFOLLOW"})
      [] o = "rsymfollow" -> RecAttr(TRUE, {"NOSYMFOLLOW"})
      [] OTHER -> MountOption(o)

NoAttr == [set |-> {}, clr |-> {}]

EmptyConfig == [flags |-> {}, prop |-> <<>>, data |-> <<>>, rec |-> NoAttr,
                hasRec |-> FALSE, tmpcopyup |-> FALSE, err |-> FALSE]

(* A recursive option: an atime one clears the whole ATIME mask as well. *)
AddRecursive(c, m) ==
    LET clr == (IF m.clear THEN m.bits ELSE {}) \cup (IF m.bits \subseteq ATIME THEN ATIME ELSE {})
    IN  [c EXCEPT !.hasRec = TRUE,
                  !.rec = [set |-> IF m.clear THEN @.set ELSE @.set \cup m.bits,
                           clr |-> @.clr \cup clr]]

(* One turn of the loop over the options. *)
ParseOption(typ, c, o) ==
    LET m == MountRecursive(o) IN
    CASE c.err -> c
      [] o \in {"idmap", "ridmap"} -> c
      [] o = "tmpcopyup" -> IF typ = "tmpfs" THEN [c EXCEPT !.tmpcopyup = TRUE]
                                             ELSE [c EXCEPT !.err = TRUE]
      [] m.kind = "recursive" -> AddRecursive(c, m)
      [] m.kind = "propagation" -> [c EXCEPT !.prop = Append(@, m.bits)]
      [] m.kind = "flag" -> [c EXCEPT !.flags = IF m.clear THEN @ \ m.bits ELSE @ \cup m.bits]
      [] m.kind = "data" -> [c EXCEPT !.data = Append(@, o)]

parse_mount(typ, opts) == FoldLeft(LAMBDA c, o : ParseOption(typ, c, o), EmptyConfig, opts)

(* is_bind: the type, or an option, asks for a bind mount. *)
is_bind(typ, opts) == typ = "bind" \/ \E i \in DOMAIN opts : opts[i] \in {"bind", "rbind"}

(* mount_flag_to_attr and apply_atime_from_msflags: the MountAttr for the flags. The atime *)
(* bits of the flags are in attr_set before the exclusive choice is or-ed into it.         *)
mount_flag_to_attr(flags) ==
    flags \cap {"RDONLY", "NOSUID", "NODEV", "NOEXEC", "NOATIME", "NODIRATIME", "STRICTATIME"}

apply_atime_from_msflags(flags) ==
    LET atime == CASE "STRICTATIME" \in flags -> {"STRICTATIME"}
                   [] "NOATIME" \in flags /\ "STRICTATIME" \notin flags -> {"NOATIME"}
                   [] OTHER -> {}
        fromFlags == mount_flag_to_attr(flags)
    IN  [set |-> fromFlags \cup (fromFlags \ {"NOATIME", "STRICTATIME"}) \cup atime,
         clr |-> IF atime # {} THEN ATIME ELSE {}]

----------------------------------------------------------------------------
(* The kernel side, as the calls in mount.rs use it. *)

(* mount_setattr refuses an atime mode without the full mask in attr_clr, a partial mask,  *)
(* and two modes at once.                                                                  *)
AttrAccepted(a) ==
    /\ a.clr \cap ATIME \in {{}, ATIME}
    /\ a.set \cap ATIME # {} => ATIME \subseteq a.clr
    /\ Cardinality(a.set \cap ATIME) <= 1

SetAttr(attrs, a) == (attrs \ a.clr) \cup a.set

(* mount(2) takes all the flags; those of the mount itself become its attributes, the others *)
(* are the file system's.  relatime is the default, noatime overrides it and strictatime both. *)
LegacyAttrs(flags) ==
    LET own == flags \cap {"RDONLY", "NOSUID", "NODEV", "NOEXEC", "NODIRATIME", "NOATIME", "STRICTATIME"}
    IN  IF "STRICTATIME" \in flags THEN own \ {"NOATIME"} ELSE own

Detached(attrs, sub) == [attrs |-> attrs, sub |-> sub, copied |-> FALSE, prop |-> {}]

Binding == bindNow \/ (req.typ # "cgroup" /\ is_bind(req.typ, req.opts))

(* check_proc_mount, reached for the types proc and sysfs. *)
check_proc_mount(r) ==
    CASE r.dest = "/proc" -> r.typ = "proc" \/ (is_bind(r.typ, r.opts) /\ r.srcIsProc)
      [] r.dest = "/proc/other" -> FALSE
      [] OTHER -> TRUE

----------------------------------------------------------------------------
Init ==
    /\ req \in Requests
    /\ cfg = EmptyConfig
    /\ pc = "setup"
    /\ round = "first" /\ attempt = 0 /\ bindNow = FALSE
    /\ mnt = Detached({}, <<>>)
    /\ stack = <<>> /\ handed = {} /\ faults = <<>>

(* setup_mount up to the call of mount_into_container. *)
SetupMount ==
    /\ pc = "setup"
    /\ LET c == parse_mount(req.typ, req.opts) IN
       /\ cfg' = IF req.dest = "/dev" /\ req.typ \notin {"cgroup", "proc", "sysfs"}
                 THEN [c EXCEPT !.flags = @ \ {"RDONLY"}] ELSE c
       /\ pc' = IF \/ c.err
                   \/ /\ req.typ \in {"proc", "sysfs"}
                      /\ req.destKind \notin {"dir", "absent"} \/ ~check_proc_mount(req)
                THEN "err" ELSE "prepare"
    /\ UNCHANGED <<req, round, attempt, bindNow, mnt, stack, handed, faults>>

(* mount_into_container up to the mount calls: the source, its kind, and the mount point   *)
(* created inside the rootfs.                                                              *)
Prepare ==
    /\ pc = "prepare"
    /\ pc' = CASE ~req.hasSource /\ req.typ # "cgroup" -> "err"
               [] Binding -> "open_tree"
               [] OTHER -> "fsopen"
    /\ round' = "first" /\ attempt' = 0
    /\ UNCHANGED <<req, cfg, bindNow, mnt, stack, handed, faults>>

(* mount_into_container returns an error: the cgroup2 mount falls back to a bind mount. *)
GiveUp ==
    IF req.typ = "cgroup" /\ ~bindNow
    THEN bindNow' = TRUE /\ pc' = "prepare"
    ELSE pc' = "err" /\ UNCHANGED bindNow

(* mount_fn returns an error: EINVAL runs it once more, EBUSY enters utils::retry, which   *)
(* makes RetryMax - 1 attempts.                                                            *)
MountFnFails(e) ==
    CASE round = "first" /\ e = "EINVAL" ->
           /\ round' = "again" /\ pc' = "fsopen" /\ UNCHANGED <<attempt, bindNow>>
      [] round = "first" /\ e = "EBUSY" ->
           /\ round' = "retry" /\ attempt' = 0 /\ pc' = "fsopen" /\ UNCHANGED bindNow
      [] round = "retry" /\ e = "EBUSY" /\ attempt + 1 < RetryMax - 1 ->
           /\ attempt' = attempt + 1 /\ pc' = "fsopen" /\ UNCHANGED <<round, bindNow>>
      [] OTHER -> GiveUp /\ UNCHANGED <<round, attempt>>

(* mutant: the propagation change is inside what gets retried *)
CallFailsRetryAll(e) ==
    IF Binding \/ pc = "prepare"
    THEN GiveUp /\ UNCHANGED <<round, attempt>>
    ELSE MountFnFails(e)

(* A call that fails: in the bind flow and outside mount_fn that is the end. *)
CallFails(e) ==
    IF Binding \/ pc \in {"prepare", "propagate"}
    THEN GiveUp /\ UNCHANGED <<round, attempt>>
    ELSE MountFnFails(e)

Errno == {"EINVAL", "EBUSY", "EIO"}

(* The copy-up's own error is MountError::TmpCopyUp, which is never retried. *)
Fault(e) ==
    /\ Len(faults) < MaxFaults
    /\ pc \in {"prepare", "open_tree", "fsopen", "fsmount", "copyup", "setattr", "setattr_rec",
               "move_mount", "legacy", "legacy_rec", "propagate"}
    /\ pc = "propagate" => cfg.prop # <<>>
    /\ faults' = Append(faults, [at |-> pc, err |-> e])
    /\ CallFails(IF pc = "copyup" THEN "EIO" ELSE e)
    /\ UNCHANGED <<req, cfg, mnt, stack, handed>>

OpenTree ==
    /\ pc = "open_tree"
    /\ LET recursive == ~bindNow /\ \E i \in DOMAIN req.opts : req.opts[i] = "rbind"
       IN  mnt' = Detached(req.src, IF recursive THEN <<req.src>> ELSE <<>>)
    /\ pc' = "setattr"
    /\ UNCHANGED <<req, cfg, round, attempt, bindNow, stack, handed, faults>>

Fsopen ==
    /\ pc = "fsopen"
    /\ pc' = "fsconfig"
    /\ UNCHANGED <<req, cfg, round, attempt, bindNow, mnt, stack, handed, faults>>

(* configure: the source, every data option, then FSCONFIG_CMD_CREATE. *)
Fsconfig ==
    /\ pc = "fsconfig"
    /\ \/ pc' = "fsmount" /\ UNCHANGED <<round, attempt, bindNow, faults>>
       \/ /\ Len(faults) < MaxFaults
          /\ \E e \in Errno :
                /\ faults' = Append(faults, [at |-> pc, err |-> e])
                /\ IF cfg.tmpcopyup THEN MountFnFails(e)
                   ELSE pc' = "legacy" /\ UNCHANGED <<round, attempt, bindNow>>
    /\ UNCHANGED <<req, cfg, mnt, stack, handed>>

Fsmount ==
    /\ pc = "fsmount"
    /\ mnt' = Detached({}, <<>>)
    /\ pc' = IF cfg.tmpcopyup THEN "copyup" ELSE "setattr"
    /\ UNCHANGED <<req, cfg, round, attempt, bindNow, stack, handed, faults>>

(* copy_recursive_fd_to_fd fills the detached tmpfs, while it is still writable. *)
CopyUp ==
    /\ pc = "copyup"
    /\ mnt' = [mnt EXCEPT !.copied = TRUE]
    /\ pc' = "setattr"
    /\ UNCHANGED <<req, cfg, round, attempt, bindNow, stack, handed, faults>>

(* mount_setattr with the attributes of the flags, on the new mount alone. *)
SetattrFlags ==
    /\ pc = "setattr"
    /\ LET a == apply_atime_from_msflags(cfg.flags) IN
       /\ handed' = handed \cup {a}
       /\ IF AttrAccepted(a)
          THEN /\ mnt' = [mnt EXCEPT !.attrs = SetAttr(@, a)]
               /\ pc' = IF cfg.hasRec THEN "setattr_rec" ELSE "move_mount"
               /\ UNCHANGED <<round, attempt, bindNow>>
          ELSE CallFails("EINVAL") /\ UNCHANGED mnt
    /\ UNCHANGED <<req, cfg, stack, faults>>

ApplyRec(m, a) ==
    [m EXCEPT !.attrs = SetAttr(@, a), !.sub = [i \in DOMAIN @ |-> SetAttr(@[i], a)]]

(* mount_setattr with rec_attr and AT_RECURSIVE, on the new mount and what is below it. *)
SetattrRec ==
    /\ pc = "setattr_rec"
    /\ handed' = handed \cup {cfg.rec}
    /\ IF AttrAccepted(cfg.rec)
       THEN mnt' = ApplyRec(mnt, cfg.rec) /\ pc' = "move_mount" /\ UNCHANGED <<round, attempt, bindNow>>
       ELSE CallFails("EINVAL") /\ UNCHANGED mnt
    /\ UNCHANGED <<req, cfg, stack, faults>>

MoveMount ==
    /\ pc = "move_mount"
    /\ stack' = Append(stack, mnt)
    /\ pc' = "propagate"
    /\ UNCHANGED <<req, cfg, round, attempt, bindNow, mnt, handed, faults>>

(* legacy_mount: mount(2) attaches at once, rec_attr follows on the attached mount. *)
LegacyMount ==
    /\ pc = "legacy"
    /\ stack' = Append(stack, Detached(LegacyAttrs(cfg.flags), <<>>))
    /\ pc' = IF cfg.hasRec THEN "legacy_rec" ELSE "propagate"
    /\ UNCHANGED <<req, cfg, round, attempt, bindNow, mnt, handed, faults>>

LegacyRec ==
    /\ pc = "legacy_rec"
    /\ handed' = handed \cup {cfg.rec}
    /\ IF AttrAccepted(cfg.rec)
       THEN /\ stack' = [stack EXCEPT ![Len(stack)] = ApplyRec(@, cfg.rec)]
            /\ pc' = "propagate" /\ UNCHANGED <<round, attempt, bindNow>>
       ELSE CallFails("EINVAL") /\ UNCHANGED stack
    /\ UNCHANGED <<req, cfg, mnt, faults>>

(* apply_mount_propagation: one mount_setattr per propagation option, in their order. *)
apply_mount_propagation ==
    /\ pc = "propagate"
    /\ stack' = IF cfg.prop = <<>> THEN stack
                ELSE [stack EXCEPT ![Len(stack)].prop = Last(cfg.prop) \ {"REC"}]
    /\ pc' = "ok"
    /\ UNCHANGED <<req, cfg, round, attempt, bindNow, mnt, handed, faults>>

Finished == pc \in {"ok", "err"} /\ UNCHANGED vars

Next ==
    \/ SetupMount \/ Prepare \/ OpenTree \/ Fsopen \/ Fsconfig \/ Fsmount \/ CopyUp
    \/ SetattrFlags \/ SetattrRec \/ MoveMount \/ LegacyMount \/ LegacyRec
    \/ apply_mount_propagation
    \/ \E e \in Errno : Fault(e)
    \/ Finished

Spec == Init /\ [][Next]_vars /\ WF_vars(Next)

----------------------------------------------------------------------------
(* What an option list asks for, stated without the parser: the last option that speaks    *)
(* of an attribute decides it, and a recursive option overrides the plain ones.            *)
Attributes == {"RDONLY", "NOSUID", "NODEV", "NOEXEC", "NODIRATIME"}

Speaks(o, kind, a) == MountRecursive(o).kind = kind /\ a \in MountRecursive(o).bits

LastWord(opts, a) ==
    LET about == SelectSeq(opts, LAMBDA o : Speaks(o, "flag", a))
    IN  about # <<>> /\ ~MountRecursive(Last(about)).clear

Recursively(opts, a, clear) ==
    \E i \in DOMAIN opts : Speaks(opts[i], "recursive", a) /\ MountRecursive(opts[i]).clear = clear

Asked(r, a) ==
    \/ Recursively(r.opts, a, FALSE)
    \/ /\ ~Recursively(r.opts, a, TRUE)
       /\ LastWord(r.opts, a)
       /\ ~(a = "RDONLY" /\ r.dest = "/dev")

Top == stack[Len(stack)]

(* The type invariant of the mount flow. *)
TypeOK ==
    /\ req \in Requests
    /\ round \in {"first", "again", "retry"} /\ attempt \in 0..RetryMax
    /\ bindNow \in BOOLEAN
    /\ pc = "ok" => stack # <<>>
    /\ Len(faults) <= MaxFaults

(* Whichever way a new filesystem was mounted - the fd-based calls at the first try, after   *)
(* retries, or mount(2) after fsconfig refused - the mount the container sees has exactly    *)
(* the attributes its options ask for (mount_into_container and legacy_mount agree).         *)
OptionsTakeEffect ==
    pc = "ok" /\ ~Binding =>
        \A a \in Attributes : a \in Top.attrs <=> Asked(req, a)

(* A recursive attribute of an rbind mount reaches the mounts below the bound directory,     *)
(* and a plain one does not touch them (the two mount_setattr calls of the bind flow).       *)
RecursiveReachesBelow ==
    pc = "ok" /\ Binding /\ ~bindNow =>
        \A i \in DOMAIN Top.sub : \A a \in Attributes :
            a \in Top.sub[i] <=> \/ Recursively(req.opts, a, FALSE)
                                 \/ a \in req.src /\ ~Recursively(req.opts, a, TRUE)

(* A tmpfs mounted with tmpcopyup always shows the directory it covers, read-only or not     *)
(* and however often mount_fn had to run.                                                    *)
CopiedUp == pc = "ok" /\ cfg.tmpcopyup => Top.copied

(* Retries stack a mount on itself only where a call failed after the mount was attached:     *)
(* the recursive attributes that follow a mount(2), and the propagation of a cgroup mount,    *)
(* whose bind mount then comes on top.  Otherwise one mount is left at the destination.       *)
AttachedOnce ==
    LET late(f) == f.at = "legacy_rec" \/ (req.typ = "cgroup" /\ f.at = "propagate")
    IN  pc = "ok" => Len(stack) = 1 + Len(SelectSeq(faults, late))
=============================================================================
