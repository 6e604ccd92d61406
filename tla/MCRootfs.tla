------------------------------ MODULE MCRootfs ------------------------------
(***************************************************************************)
(* The container's file system: one mount of the spec (MountInto), the     *)
(* mount namespace and the change of root (MountNamespace), the masked and *)
(* read-only paths (CoveredPaths), and /dev with the console (RootfsDev).  *)
(* Every behaviour explores one of them.                                   *)
(***************************************************************************)
EXTENDS Integers, Sequences, FiniteSets, TLC, RootfsDev

\* One mount: every pair of options of each family, and the entries that take the special
\* flows of setup_mount.
Entry(typ, dest, opts) ==
    [typ |-> typ, dest |-> dest, opts |-> opts, src |-> {"NOSUID", "NOATIME"},
     hasSource |-> TRUE, destKind |-> "dir", srcIsProc |-> FALSE]
Pairs(S) == {<<a, b>> : a, b \in S}
PlainOptions == {"ro", "rw", "nosuid", "suid", "noatime", "relatime", "nodiratime", "size=1"}
FreshMounts ==
    {Entry("tmpfs", d, o) : d \in {"/d", "/dev"}, o \in Pairs(PlainOptions)}
      \cup {Entry("tmpfs", "/d", <<"tmpcopyup", o, "rro">>) : o \in {"ro", "defaults"}}
      \cup {Entry("tmpfs", "/d", o) : o \in {<<"tmpcopyup", "ro">>, <<"ro", "rrw">>, <<"rnoatime">>,
              <<"rnorelatime", "idmap">>, <<"ro", "shared", "rslave">>, <<"noatime", "strictatime">>,
              <<"rnoatime", "rstrictatime">>, <<"noexec", "rexec", "nodev">>}}
      \cup {Entry("ext4", "/d", <<"tmpcopyup">>)}
BindMounts ==
    {Entry("none", "/d", <<b, o, p>>) : b \in {"bind", "rbind"}, o \in {"ro", "suid", "strictatime"},
        p \in {"rro", "rsuid", "rprivate", "defaults"}}
SpecialMounts ==
    {[Entry("proc", "/proc", <<"nosuid">>) EXCEPT !.destKind = k] : k \in {"dir", "symlink"}}
      \cup {Entry("sysfs", d, <<"ro">>) : d \in {"/proc", "/proc/other", "/sys"}}
      \cup {Entry("cgroup", "/sys/fs/cgroup", o) : o \in {<<"ro">>, <<"ro", "private">>, <<"nosuid", "rro">>}}
      \cup {[Entry("tmpfs", "/d", <<>>) EXCEPT !.hasSource = FALSE]}

\* Hosts with one mount, with /sys and a separate mount above the rootfs, with a mount on
\* the rootfs itself, and with a mount inside the rootfs.
Rootfs == <<"b", "r">>
Trees == {{<<>>}, {<<>>, <<"sys">>, <<"b">>}, {<<>>, <<"proc">>, <<"b", "r">>},
          {<<>>, <<"b", "r">>, <<"sys">>, <<"b", "r", "v">>}}
TargetLists == {<< <<"p">>, <<"p", "q">> >>, << <<"v", "x">>, <<"v", "x", "y">> >>}
HostTargets == {<<"n">>, <<"b", "r", "v">>}
Propagations == {"none", "shared", "slave", "private", "unbindable", "rshared", "rslave", "rprivate",
                 "runbindable", "other"}

\* Covered paths: proc is a directory with a directory, a file and a volume in it.
Tree == (<<>> :> "dir") @@ (<<"proc">> :> "dir") @@ (<<"proc", "sys">> :> "dir")
          @@ (<<"proc", "sys", "f">> :> "file") @@ (<<"proc", "keys">> :> "file")
          @@ (<<"proc", "vol">> :> "dir") @@ (<<"proc", "vol", "f">> :> "file")
Covered == {<<"proc">>, <<"proc", "sys">>, <<"proc", "sys", "f">>, <<"proc", "keys">>, <<"proc", "vol">>, <<"absent">>}
Lists == {<<>>} \cup {<<p>> : p \in Covered} \cup {<<p, q>> : p, q \in Covered}
CoverJobs == [rootRo : BOOLEAN, readonly : Lists, masked : Lists]

\* /dev: devices of the spec beside and in place of the default ones, and what was there.
HostDevices == "null" :> <<1, 3>> @@ "zero" :> <<1, 5>> @@ "full" :> <<1, 7>> @@ "tty" :> <<5, 0>>
             @@ "urandom" :> <<1, 9>> @@ "random" :> <<1, 8>> @@ "ptmx" :> <<5, 2>>
Dev(name, number, mode, owner) ==
    [name |-> name, valid |-> TRUE, number |-> number, mode |-> mode, owner |-> owner]
Fuse == Dev("fuse", <<10, 229>>, {"user", "group"}, <<7>>)
MyZero == Dev("zero", <<1, 5>>, {"user"}, <<>>)
NotNull == Dev("null", <<1, 5>>, Who, <<>>)
Ptmx == Dev("ptmx", <<5, 2>>, Who, <<>>)
Outside == [Fuse EXCEPT !.valid = FALSE]
Node(kind, what) == [kind |-> kind, what |-> what, mode |-> Who, owner |-> 0]
Left == {<<>>, "fd" :> Node("link", "/proc/self/fd"), "ptmx" :> Node("made", <<5, 2>>),
         "console" :> Node("link", "/elsewhere"), "zero" :> Node("file", <<0, 0>>)}
HostNull == [f \in 0 .. 2 |-> "host null"]
Streams == {HostNull, [f \in 0 .. 2 |-> "pipe"], (0 :> "pipe" @@ 1 :> "host null" @@ 2 :> "pipe")}

DevJobs ==
    [socket : {"none"}, listening : {FALSE}, detached : {TRUE}, terminal : {FALSE}, kcore : BOOLEAN,
     bind : BOOLEAN, devpts : BOOLEAN, before : Left, inherited : {HostNull}, given : {<<>>},
     devices : {<<>>, <<Fuse>>, <<MyZero, Fuse>>, <<NotNull>>, <<Ptmx>>, <<Outside>>, <<Fuse, Fuse>>},
     umask : {<<>>, <<{"other"}>>}]
ConsoleJobs ==
    [socket : {"none", "absolute"}, listening : BOOLEAN, detached : BOOLEAN, terminal : BOOLEAN, kcore : {TRUE},
     bind : BOOLEAN, devpts : BOOLEAN, before : Left, inherited : Streams, given : {<<>>, <<HostNull>>},
     devices : {<<MyZero, Fuse>>}, umask : {<<>>}]
RootfsJobs == DevJobs \cup ConsoleJobs

-----------------------------------------------------------------------------
VARIABLES
    part,  \* the part this behaviour explores
    mountReq, mountCfg, mountPc, round, attempt, bindNow, mnt, stack, mountHanded, faults,
    nsMounts, hostOwn, conf, nsPc, clone, events,
    coverJob, coverMounts, coverPc, coverI

mountVars == <<mountReq, mountCfg, mountPc, round, attempt, bindNow, mnt, stack,
               mountHanded, faults>>
nsVars == <<nsMounts, hostOwn, conf, nsPc, clone, events>>
coverVars == <<coverJob, coverMounts, coverPc, coverI>>
vars == <<part, mountVars, nsVars, coverVars, devfsVars>>

M == INSTANCE MountInto
    WITH Requests <- FreshMounts \cup BindMounts \cup SpecialMounts, MaxFaults <- 3,
         RetryMax <- 3, req <- mountReq, cfg <- mountCfg, pc <- mountPc,
         handed <- mountHanded
M0 == INSTANCE MountInto
    WITH Requests <- {Entry("tmpfs", "/d", <<>>)}, MaxFaults <- 0, RetryMax <- 3,
         req <- mountReq, cfg <- mountCfg, pc <- mountPc, handed <- mountHanded

N == INSTANCE MountNamespace
    WITH Rootfs <- Rootfs, HostTrees <- Trees, TargetLists <- TargetLists, HostTargets <- HostTargets,
         MaxEvents <- 2, Asked <- Propagations, NoPivot <- FALSE, mounts <- nsMounts, pc <- nsPc
NP == INSTANCE MountNamespace
    WITH Rootfs <- Rootfs, HostTrees <- Trees, TargetLists <- TargetLists, HostTargets <- HostTargets,
         MaxEvents <- 2, Asked <- Propagations \ {"shared", "rshared"}, NoPivot <- TRUE, mounts <- nsMounts, pc <- nsPc
N0 == INSTANCE MountNamespace
    WITH Rootfs <- Rootfs, HostTrees <- {{<<>>}}, TargetLists <- {<<>>}, HostTargets <- {},
         MaxEvents <- 0, Asked <- {"private"}, NoPivot <- FALSE, mounts <- nsMounts, pc <- nsPc

C == INSTANCE CoveredPaths
    WITH Tree <- Tree, Volumes <- <<<<"proc", "vol">>>>, Jobs <- CoverJobs, job <- coverJob,
         mounts <- coverMounts, pc <- coverPc, i <- coverI
C0 == INSTANCE CoveredPaths
    WITH Tree <- Tree, Volumes <- <<>>,
         Jobs <- {[rootRo |-> FALSE, readonly |-> <<>>, masked |-> <<>>]}, job <- coverJob,
         mounts <- coverMounts, pc <- coverPc, i <- coverI

D0 == INSTANCE RootfsDev
    WITH Jobs <- {[socket |-> "none", listening |-> FALSE, detached |-> TRUE,
                    terminal |-> FALSE, kcore |-> FALSE, bind |-> FALSE, devpts |-> FALSE,
                    before |-> <<>>, inherited |-> HostNull, given |-> <<>>, devices |-> <<>>,
                    umask |-> <<>>]}

\* One part starts in any of its initial states; the others stay in their first one.
Init ==
    /\ part \in {"mount", "pivot", "no pivot", "covered paths", "dev"}
    /\ IF part = "mount" THEN M!Init ELSE M0!Init
    /\ IF part = "pivot" THEN N!Init
       ELSE IF part = "no pivot" THEN NP!Init
       ELSE N0!Init /\ ~conf.userns /\ \A m \in nsMounts : m.group = 0
    /\ IF part = "covered paths" THEN C!Init ELSE C0!Init
    /\ IF part = "dev" THEN DevfsInit ELSE D0!DevfsInit

\* These parts may come to an end; the others never stop before they have returned.
Stopped ==
    /\ part \in {"covered paths", "dev"}
    /\ UNCHANGED vars

Next ==
    \/ part = "mount" /\ M!Next /\ UNCHANGED <<part, nsVars, coverVars, devfsVars>>
    \/ part = "pivot" /\ N!Next /\ UNCHANGED <<part, mountVars, coverVars, devfsVars>>
    \/ part = "no pivot" /\ NP!Next /\ UNCHANGED <<part, mountVars, coverVars, devfsVars>>
    \/ part = "covered paths" /\ C!Next /\ UNCHANGED <<part, mountVars, nsVars, devfsVars>>
    \/ part = "dev" /\ DevfsNext /\ UNCHANGED <<part, mountVars, nsVars, coverVars>>
    \/ Stopped

Spec == Init /\ [][Next]_vars

-----------------------------------------------------------------------------
\* The variables of each part have their types.
TypeOK ==
    /\ part = "mount" => M!TypeOK
    /\ part \in {"pivot", "no pivot"} => N!TypeOK
    /\ C!TypeOK /\ DevfsTypeOK

\* One mount: retries stack a mount on itself only where a call failed after the mount was
\* attached; whichever way a new file system was mounted, it has exactly the attributes its options ask for; a recursive attribute of an
\* rbind mount reaches the mounts below it and a plain one does not; a tmpfs with tmpcopyup
\* shows the directory it covers.
MountedOnceAsAsked ==
    /\ M!AttachedOnce
    /\ M!OptionsTakeEffect
    /\ M!RecursiveReachesBelow
    /\ M!CopiedUp

\* Change of root: nothing that is mounted or unmounted reaches the host's mount namespace,
\* but for a mount of the spec below a mount of the host inside the rootfs that is still shared
\* with the host.
HostUntouched == N!HostUntouched

\* Change of root: pivot_root is never refused because the parent of the rootfs is shared,
\* after it the container sees nothing of the old root tree, and the root mount is shared
\* exactly when the spec asks for it.
RootIsChanged ==
    /\ part = "pivot" => N!RootIsEntered
    /\ part = "pivot" => N!OldRootGone
    /\ part = "pivot" => N!RootPropagationAsAsked

\* Covered paths: a masked path and all below it is out of reach and nothing else is, and
\* what can be reached is read-only exactly if the last of the read-only paths and file
\* systems above it says so.
CoveredAsAsked ==
    /\ part = "covered paths" => C!MaskedIsHidden
    /\ part = "covered paths" => C!ReadonlyIsExact
=============================================================================
