----------------------------- MODULE RootfsDev ------------------------------
(***************************************************************************)
(* The container's /dev and the standard streams of its init process: the  *)
(* console socket, the links and devices of /dev, the move of streams from *)
(* the host's /dev/null to the container's, and the console.               *)
(*                                                                         *)
(* /dev is a function from names to nodes [kind, what, mode, owner]: a     *)
(* link to a path, a device with its number (made or bound), or a file.  A *)
(* mode is the set of who may write, which is what the umask takes away.   *)
(***************************************************************************)
EXTENDS Integers, Sequences, Functions

CONSTANTS
    Jobs,     \* what is asked for, and where: see MCRootfs
    HostDev   \* name -> number of the devices of the host

Who == {"user", "group", "other"}
DevNames == {"kcore", "fd", "stdin", "stdout", "stderr", "null", "zero", "full", "tty", "urandom",
             "random", "ptmx", "console", "fuse"}

VARIABLES
    devfsJob, devfsPc,
    cwd,     \* working directory: "own" or "container"
    sock,    \* the console socket: "none", "connected" or "closed"
    dev,     \* name -> node, for the names there are
    umask, devfsK,  \* who may not write to what is made; the device at hand
    fds,     \* what the streams 0, 1 and 2 refer to
    master   \* where the master of the console is: "none", "socket" or "caller"

devfsVars == <<devfsJob, devfsPc, cwd, sock, dev, umask, devfsK, fds, master>>

-----------------------------------------------------------------------------
(* The builder: terminal and console socket *)

\* check_terminal: a socket exactly for a detached container with a terminal
CheckTerminal(j) == (j.socket # "none") = (j.detached /\ j.terminal)

DevfsInit ==
    /\ devfsJob \in {j \in Jobs : CheckTerminal(j)}
    /\ devfsPc = IF devfsJob.socket # "none" THEN "enter" ELSE "stdio"
    /\ cwd = "own" /\ sock = "none"
    /\ dev = devfsJob.before
    /\ umask = {"group", "other"} /\ devfsK = 1
    /\ fds = devfsJob.inherited
    /\ master = "none"

DevfsFail == devfsPc' = "failed"

\* setup_console_socket works in the container's directory, where it makes a link
\* to the socket and connects to it by the short name.
EnterDir ==
    /\ devfsPc = "enter"
    /\ cwd' = "container" /\ devfsPc' = "connect"
    /\ UNCHANGED <<devfsJob, sock, dev, umask, devfsK, fds, master>>

\* The socket is listened to under a path that a relative name means in the working
\* directory of the caller; a link's relative target is followed from the directory
\* the link is in.
LinkLeadsToSocket == devfsJob.listening /\ (devfsJob.socket = "absolute" \/ cwd = "own")

\* The guard restores the working directory on every way out.
ConnectSocket ==
    /\ devfsPc = "connect"
    /\ cwd' = "own"
    /\ IF LinkLeadsToSocket THEN sock' = "connected" /\ devfsPc' = "stdio" ELSE DevfsFail /\ UNCHANGED sock
    /\ UNCHANGED <<devfsJob, dev, umask, devfsK, fds, master>>

-----------------------------------------------------------------------------
(* The init process *)

\* Without a console, the streams that were given are used.
PassStdio ==
    /\ devfsPc = "stdio"
    /\ fds' = IF devfsJob.socket = "none" /\ ~devfsJob.terminal /\ devfsJob.given # <<>> THEN devfsJob.given[1] ELSE fds
    /\ devfsPc' = "links"
    /\ UNCHANGED <<devfsJob, cwd, sock, dev, umask, devfsK, master>>

Link(to) == [kind |-> "link", what |-> to, mode |-> Who, owner |-> 0]

\* /dev with the nodes of new in it, which cover what has their names
Over(new) ==
    [n \in DOMAIN new \cup DOMAIN dev |-> IF n \in DOMAIN new THEN new[n] ELSE dev[n]]
With(name, node) == Over([n \in {name} |-> node])

\* setup_kcore_symlink, setup_default_symlinks
Links ==
    LET target == [fd |-> "/proc/self/fd", stdin |-> "/proc/self/fd/0", stdout |-> "/proc/self/fd/1",
                   stderr |-> "/proc/self/fd/2", kcore |-> "/proc/kcore"]
    IN  [n \in IF devfsJob.kcore THEN DOMAIN target ELSE DOMAIN target \ {"kcore"} |-> Link(target[n])]

\* symlink refuses a name that is taken.
MakeLinks ==
    /\ devfsPc = "links"
    /\ IF DOMAIN Links \cap DOMAIN dev # {} THEN DevfsFail /\ UNCHANGED dev
       ELSE dev' = Over(Links) /\ devfsPc' = "umask"
    /\ UNCHANGED <<devfsJob, cwd, sock, umask, devfsK, fds, master>>

DefaultDevice(name, number) == [name |-> name, valid |-> TRUE, number |-> number, mode |-> Who, owner |-> <<>>]

\* default_devices
default_devices ==
    <<DefaultDevice("null", <<1, 3>>), DefaultDevice("zero", <<1, 5>>), DefaultDevice("full", <<1, 7>>),
      DefaultDevice("tty", <<5, 0>>), DefaultDevice("urandom", <<1, 9>>), DefaultDevice("random", <<1, 8>>)>>

\* prepare_rootfs: those of the spec, then the defaults whose path it does not use
Unused(i) ==
    LET d == default_devices[i]
    IN  IF \E e \in Range(devfsJob.devices) : e.name = d.name THEN <<>> ELSE <<d>>
AllDevices == devfsJob.devices \o Unused(1) \o Unused(2) \o Unused(3) \o Unused(4) \o Unused(5) \o Unused(6)

(* mutant: the umask of the runtime stays in force *)
ClearUmask_not ==
    /\ devfsPc = "umask"
    /\ devfsPc' = "device"
    /\ UNCHANGED <<devfsJob, cwd, sock, dev, umask, devfsK, fds, master>>

ClearUmask ==
    /\ devfsPc = "umask"
    /\ umask' = {} /\ devfsPc' = "device"
    /\ UNCHANGED <<devfsJob, cwd, sock, dev, devfsK, fds, master>>

\* bind_dev: the host's device on top of a file, which is made if need be
BindDev(d) ==
    IF d.name \notin DOMAIN HostDev THEN DevfsFail /\ UNCHANGED <<dev, devfsK>>
    ELSE /\ dev' = With(d.name, [kind |-> "bound", what |-> HostDev[d.name], mode |-> Who, owner |-> 0])
         /\ devfsK' = devfsK + 1 /\ UNCHANGED devfsPc

\* mknod_dev; mknod refuses a name that is taken.
MknodDev(d) ==
    IF d.name \in DOMAIN dev THEN DevfsFail /\ UNCHANGED <<dev, devfsK>>
    ELSE /\ dev' = With(d.name, [kind |-> "made", what |-> d.number, mode |-> d.mode \ umask,
                                 owner |-> IF d.owner = <<>> THEN 0 ELSE d.owner[1]])
         /\ devfsK' = devfsK + 1 /\ UNCHANGED devfsPc

\* create_devices
CreateDevice ==
    /\ devfsPc = "device" /\ devfsK <= Len(AllDevices)
    /\ IF ~AllDevices[devfsK].valid THEN DevfsFail /\ UNCHANGED <<dev, devfsK>>
       ELSE IF devfsJob.bind THEN BindDev(AllDevices[devfsK]) ELSE MknodDev(AllDevices[devfsK])
    /\ UNCHANGED <<devfsJob, cwd, sock, umask, fds, master>>

RestoreUmask ==
    /\ devfsPc = "device" /\ devfsK > Len(AllDevices)
    /\ umask' = {"group", "other"} /\ devfsPc' = "ptmx"
    /\ UNCHANGED <<devfsJob, cwd, sock, dev, devfsK, fds, master>>

\* setup_ptmx removes what is there; a device that is bound is busy.
SetupPtmx ==
    /\ devfsPc = "ptmx"
    /\ IF "ptmx" \in DOMAIN dev /\ dev["ptmx"].kind = "bound" THEN DevfsFail /\ UNCHANGED dev
       ELSE dev' = With("ptmx", Link("pts/ptmx")) /\ devfsPc' = "null"
    /\ UNCHANGED <<devfsJob, cwd, sock, umask, devfsK, fds, master>>

\* verify_dev_null
IsDevNull(node) == node.kind \in {"made", "bound"} /\ node.what = <<1, 3>>

\* reopen_dev_null: streams with the number of /dev/null are pointed to the
\* container's.
ReopenDevNull ==
    /\ devfsPc = "null"
    /\ IF ~IsDevNull(dev["null"]) THEN DevfsFail /\ UNCHANGED fds
       ELSE /\ fds' = [f \in 0 .. 2 |-> IF fds[f] = "host null" THEN "null" ELSE fds[f]]
            /\ devfsPc' = "console"
    /\ UNCHANGED <<devfsJob, cwd, sock, dev, umask, devfsK, master>>

-----------------------------------------------------------------------------
(* setup_console *)

\* Both ends must be of the container's devpts.
VerifyPtmxHandle == devfsJob.devpts /\ dev["ptmx"] = Link("pts/ptmx")
VerifyPtySlave == devfsJob.devpts

ConnectStdio == [f \in 0 .. 2 |-> "console"]

\* mount_console: the file is made unless it is there; a link is refused.
MountConsole ==
    With("console", [kind |-> "bound", what |-> <<136, 0>>, mode |-> Who, owner |-> 0])

\* The slave becomes the console, the terminal and the streams; then the master goes
\* to the socket, which is closed, or to the caller.
SetupConsole ==
    /\ devfsPc = "console"
    /\ IF devfsJob.socket = "none" /\ ~devfsJob.terminal
       THEN devfsPc' = "user_umask" /\ UNCHANGED <<dev, fds, sock, master>>
       ELSE IF ~VerifyPtmxHandle \/ ~VerifyPtySlave \/ ("console" \in DOMAIN dev /\ dev["console"].kind = "link")
       THEN DevfsFail /\ UNCHANGED <<dev, fds, sock, master>>
       ELSE /\ dev' = MountConsole
            /\ fds' = ConnectStdio
            /\ master' = IF sock = "connected" THEN "socket" ELSE "caller"
            /\ sock' = IF sock = "connected" THEN "closed" ELSE sock
            /\ devfsPc' = "user_umask"
    /\ UNCHANGED <<devfsJob, cwd, umask, devfsK>>

\* The umask of the spec's user, if it is one.
SetUmask ==
    /\ devfsPc = "user_umask"
    /\ umask' = IF devfsJob.umask = <<>> THEN umask ELSE devfsJob.umask[1]
    /\ devfsPc' = "done"
    /\ UNCHANGED <<devfsJob, cwd, sock, dev, devfsK, fds, master>>

DevfsNext ==
    \/ EnterDir \/ ConnectSocket \/ PassStdio \/ MakeLinks \/ ClearUmask \/ CreateDevice \/ RestoreUmask
    \/ SetupPtmx \/ ReopenDevNull \/ SetupConsole \/ SetUmask

DevfsSpec == DevfsInit /\ [][DevfsNext]_devfsVars

-----------------------------------------------------------------------------
(* Properties *)

\* The variables have their types, and the working directory is the container's only
\* while the socket is connected to.
DevfsTypeOK ==
    /\ DOMAIN dev \subseteq DevNames /\ umask \subseteq Who /\ DOMAIN fds = 0 .. 2
    /\ (cwd = "container") = (devfsPc = "connect")
    /\ (master # "none") => fds = [f \in 0 .. 2 |-> "console"]

\* Every device that was asked for, or is there by default, has the number, exactly
\* the mode, and the owner asked for, or is the host's where devices are bound; the
\* links are there, and ptmx is that of the container's own devpts.
DevicesAsAsked ==
    devfsPc = "done" =>
        LET asked == Range(devfsJob.devices)
            wanted == asked \cup {d \in Range(default_devices) : \A e \in asked : e.name # d.name}
        IN  /\ \A d \in {w \in wanted : w.name # "ptmx"} :
                  IF devfsJob.bind THEN dev[d.name].what = HostDev[d.name]
                  ELSE /\ dev[d.name].what = d.number /\ dev[d.name].mode = d.mode
                       /\ d.owner # <<>> => dev[d.name].owner = d.owner[1]
            /\ dev["ptmx"] = Link("pts/ptmx") /\ dev["fd"] = Link("/proc/self/fd")

\* No stream of the payload refers to the /dev/null of the host.
NoHostNull == devfsPc = "done" => \A f \in 0 .. 2 : fds[f] # "host null"

\* Apart from /dev, the process makes files under the umask it had, or under that
\* of its user.
UmaskIsOwn ==
    devfsPc \in {"ptmx", "null", "console", "user_umask", "done"} =>
        umask = IF devfsPc = "done" /\ devfsJob.umask # <<>> THEN devfsJob.umask[1] ELSE {"group", "other"}

\* /dev: every device has the number, the mode and the owner asked for, or is the host's
\* where devices are bound; no stream of the payload refers to the /dev/null of the host;
\* apart from /dev, the process makes files under its own umask or that of its user.
DevAsAsked == DevicesAsAsked /\ NoHostNull /\ UmaskIsOwn
=============================================================================
