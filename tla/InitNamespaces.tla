--------------------------- MODULE InitNamespaces ---------------------------
(***************************************************************************)
(* A spec is validated, and then the intermediate and the init process     *)
(* enter its namespaces and write what the spec asks for into them: names, *)
(* sysctls, id maps, clock offsets, masked and read-only paths.  The spec  *)
(* is accepted or refused before any namespace exists; the model composes  *)
(* both halves, so that a check missing in the validator shows as a write  *)
(* to the host.                                                            *)
(*                                                                         *)
(* A namespace of the spec is [typ, path]; its path is "none" (a new one), *)
(* "other" (that of another container), "host", "missing" or "empty" (a    *)
(* path of no characters).  The validator compares a path with the host's  *)
(* for the network only.  Optional values are <<>> or <<value>>.           *)
(***************************************************************************)
EXTENDS Integers, Sequences, FiniteSets

CONSTANTS
    Specs,  \* the specs explored
    Hosts   \* [rootless, inUserns, apparmor : BOOLEAN]: who runs the runtime

Types == {"user", "pid", "uts", "ipc", "net", "cgroup", "mnt", "time"}

\* Sysctl keys, one of each kind the validator tells apart.
SysctlKeys == {"kernel.shmmax", "fs.mqueue.msg_max", "net.core.somaxconn", "kernel.domainname",
               "kernel.hostname", "user.max_user_namespaces", "vm.swappiness"}

\* The namespace whose value a key sets; vm keys belong to the whole host.
SysctlScope(key) ==
    CASE key \in {"kernel.shmmax", "fs.mqueue.msg_max"} -> "ipc"
      [] key = "net.core.somaxconn" -> "net"
      [] key \in {"kernel.domainname", "kernel.hostname"} -> "uts"
      [] key = "user.max_user_namespaces" -> "user"
      [] OTHER -> "none"

VARIABLES
    nsSpec, host,
    nsPc,    \* next step
    nsAt,    \* type -> namespace the process is in: "host", "new" or "other"
    opened,  \* mount namespaces in which the path of a namespace was opened
    writes,  \* <<what, namespace>> written so far
    attr,    \* the sched_attr given to the kernel, <<>> before
    ioprio   \* the value given to ioprio_set, <<>> before

nsVars == <<nsSpec, host, nsPc, nsAt, opened, writes, attr, ioprio>>

-----------------------------------------------------------------------------
(* Validator *)

HasNs(s, typ) == \E i \in DOMAIN s.ns : s.ns[i].typ = typ
Ns(s, typ) == s.ns[CHOOSE i \in DOMAIN s.ns : s.ns[i].typ = typ]

NamespaceTypesOk(s) == \A i, j \in DOMAIN s.ns : s.ns[i].typ = s.ns[j].typ => i = j

UtsOk(s) == s.hostname \/ s.domainname => HasNs(s, "uts")

MntOk(s) == s.masked \/ s.readonly => HasNs(s, "mnt")

\* Is the network namespace of the spec the host's?  <<>> if its path cannot be read.
IsHostNet(s) ==
    IF ~HasNs(s, "net") THEN <<TRUE>>
    ELSE CASE Ns(s, "net").path \in {"none", "empty"} -> <<FALSE>>
           [] Ns(s, "net").path = "missing" -> <<>>
           [] OTHER -> <<Ns(s, "net").path = "host">>

\* validate_spec_for_sysctl: a key needs the namespace it belongs to; the host
\* name has a field of its own.
SysctlOk(s) ==
    \A key \in s.sysctl :
        CASE SysctlScope(key) = "ipc" -> HasNs(s, "ipc")
          [] SysctlScope(key) = "net" -> IsHostNet(s) = <<FALSE>>
          [] key = "kernel.domainname" -> HasNs(s, "uts")
          [] SysctlScope(key) = "user" -> HasNs(s, "user")
          [] OTHER -> FALSE

\* validate_spec_for_scheduler; an absent number is 0.
SchedulerOk(s) ==
    s.sched # <<>> =>
        LET c == s.sched[1]
        IN  /\ c.policy \in {"other", "batch"} => c.nice \in -20 .. 19
            /\ c.priority # 0 => c.policy \in {"fifo", "rr"}
            /\ c.deadline # 0 => c.policy = "deadline"

IoPriorityOk(s) == s.io # <<>> => s.io[1].priority \in 0 .. 7

\* validate_spec_for_intel_rdt: a slash is refused in a longer name only.
ClosIdOk(s) == s.clos \notin {".", "..", "a/b"}

\* Clock offsets need a new time namespace.
TimeOk(s) == s.offsets # "none" => HasNs(s, "time") /\ Ns(s, "time").path = "none"

\* container_userns_has_mappings
UsernsHasMappings(s) ==
    /\ HasNs(s, "user")
    /\ Ns(s, "user").path # "none" \/ s.maps

\* validate_idmapped_mounts: every mount that asks for an id map is refused, for
\* one reason or another; the last one is that they are not supported.
IdmapError(s, m) ==
    IF ~m.idmap /\ m.uid = "none" /\ m.gid = "none" THEN "none"
    ELSE IF ~m.bind THEN "MountIdmapNonBind"
    ELSE IF host.rootless THEN "MountIdmapRootless"
    ELSE IF ~(m.uid = "some" /\ m.gid = "some") /\ ~(m.uid = "none" /\ m.gid = "none")
         THEN "MountIdmapMissingMappings"
    ELSE IF m.uid = "none" /\ ~UsernsHasMappings(s) THEN "MountIdmapMissingMappings"
    ELSE "MountIdmapUnsupported"

\* dev_valid_name: a name as its length, whether it is all dots, and whether it
\* has a slash, a colon or white space.
DevValidName(n) == n.len \in 1 .. 15 /\ ~(n.dots /\ n.len <= 2) /\ ~n.separator

NetDevicesOk(s) ==
    s.netdev # {} =>
        /\ HasNs(s, "net") /\ ~host.rootless
        /\ \A d \in s.netdev : DevValidName(d.name) /\ (d.rename # <<>> => DevValidName(d.rename[1]))

\* validate_spec_for_new_user_ns
UserNsOk(s) ==
    /\ s.maps => HasNs(s, "user")
    /\ host.rootless => host.inUserns \/ HasNs(s, "user")

\* InitContainerBuilder::validate_spec and Validator::validate_spec
ValidateSpec(s) ==
    /\ s.version = "1"
    /\ NamespaceTypesOk(s) /\ UtsOk(s) /\ MntOk(s) /\ SysctlOk(s)
    /\ SchedulerOk(s) /\ IoPriorityOk(s) /\ ClosIdOk(s) /\ TimeOk(s)
    /\ \A m \in s.mounts : IdmapError(s, m) = "none"
    /\ NetDevicesOk(s) /\ UserNsOk(s)
    /\ s.apparmor => host.apparmor

-----------------------------------------------------------------------------
(* Entering the namespaces *)

(* mutant: the mount namespace is entered before those bound to host paths *)
RestOrder_mount_first == <<"mnt", "uts", "ipc", "net", "cgroup">>

\* ORDERED_NAMESPACES without those the intermediate process enters.
RestOrder == <<"uts", "ipc", "net", "cgroup", "mnt">>

Goto(l) == nsPc' = l

\* unshare_or_setns: a path is opened in the mount namespace the process is in.  The
\* kernel lets nobody enter the user namespace they are in.
Enter(typ, next) ==
    LET path == Ns(nsSpec, typ).path
    IN  CASE path = "none" -> /\ nsAt' = [nsAt EXCEPT ![typ] = "new"]
                              /\ Goto(next) /\ UNCHANGED opened
          [] path \in {"missing", "empty"} \/ (path = "host" /\ typ = "user") ->
                Goto("failed") /\ UNCHANGED <<nsAt, opened>>
          [] OTHER -> /\ nsAt' = [nsAt EXCEPT ![typ] = path]
                      /\ opened' = opened \cup {nsAt["mnt"]}
                      /\ Goto(next)

EnterIfAsked(label, typ, next) ==
    /\ nsPc = label
    /\ IF HasNs(nsSpec, typ) THEN Enter(typ, next) ELSE Goto(next) /\ UNCHANGED <<nsAt, opened>>
    /\ UNCHANGED <<nsSpec, host, writes, attr, ioprio>>

\* A step that writes what it is asked to, in the namespace of a type.
Write(label, asked, what, typ, next) ==
    /\ nsPc = label
    /\ writes' = IF asked THEN writes \cup {<<what, nsAt[typ]>>} ELSE writes
    /\ Goto(next)
    /\ UNCHANGED <<nsSpec, host, nsAt, opened, attr, ioprio>>

NamespacesInit ==
    /\ nsSpec \in Specs
    /\ host \in Hosts
    /\ nsPc = "validate"
    /\ nsAt = [t \in Types |-> "host"]
    /\ opened = {} /\ writes = {} /\ attr = <<>> /\ ioprio = <<>>

Validate ==
    /\ nsPc = "validate"
    /\ Goto(IF ValidateSpec(nsSpec) THEN "user" ELSE "refused")
    /\ UNCHANGED <<nsSpec, host, nsAt, opened, writes, attr, ioprio>>

\* setup_userns: the main process writes the maps of a new user namespace.
EnterUser == EnterIfAsked("user", "user", "maps")
WriteMaps == Write("maps", nsAt["user"] = "new" /\ nsSpec.maps, "maps", "user", "time")

EnterTime == EnterIfAsked("time", "time", "offsets")

\* setup_time_offsets, for a new time namespace and offsets that are not empty
WriteOffsets == Write("offsets", nsAt["time"] = "new" /\ nsSpec.offsets = "some", "offsets", "time", "pid")

EnterPid == EnterIfAsked("pid", "pid", "io")

\* class << 13 | priority
IoPrioValue(class, priority) == class * 8192 + priority

SetIoPriority ==
    /\ nsPc = "io"
    /\ ioprio' = IF nsSpec.io = <<>> THEN <<>>
                 ELSE <<IoPrioValue(CASE nsSpec.io[1].class = "rt" -> 1
                                     [] nsSpec.io[1].class = "be" -> 2
                                     [] nsSpec.io[1].class = "idle" -> 3, nsSpec.io[1].priority)>>
    /\ Goto("sched")
    /\ UNCHANGED <<nsSpec, host, nsAt, opened, writes, attr>>

\* setup_scheduler hands the fields on; the kernel may refuse them.
SetupScheduler ==
    /\ nsPc = "sched"
    /\ \/ attr' = nsSpec.sched /\ Goto("rest1")
       \/ nsSpec.sched # <<>> /\ Goto("failed") /\ UNCHANGED attr
    /\ UNCHANGED <<nsSpec, host, nsAt, opened, writes, ioprio>>

Label(i) == <<"rest1", "rest2", "rest3", "rest4", "rest5", "names">>[i]

\* apply_rest_namespaces
ApplyRest == \E i \in 1 .. 5 : EnterIfAsked(Label(i), RestOrder[i], Label(i + 1))

\* The names are set only in a new uts namespace.
SetNames ==
    /\ nsPc = "names"
    /\ LET new == HasNs(nsSpec, "uts") /\ Ns(nsSpec, "uts").path = "none"
       IN  writes' = writes
               \cup (IF new /\ nsSpec.hostname THEN {<<"hostname", nsAt["uts"]>>} ELSE {})
               \cup (IF new /\ nsSpec.domainname THEN {<<"domainname", nsAt["uts"]>>} ELSE {})
    /\ Goto("sysctl")
    /\ UNCHANGED <<nsSpec, host, nsAt, opened, attr, ioprio>>

\* sysctl, after the root was changed; a key that cannot be written is an error.
Sysctl ==
    /\ nsPc = "sysctl"
    /\ \/ /\ writes' = writes \cup {<<key, IF SysctlScope(key) = "none" THEN "host" ELSE nsAt[SysctlScope(key)]>> :
                                      key \in nsSpec.sysctl}
          /\ Goto("paths")
       \/ nsSpec.sysctl # {} /\ Goto("failed") /\ UNCHANGED writes
    /\ UNCHANGED <<nsSpec, host, nsAt, opened, attr, ioprio>>

\* readonly_path and masked_paths mount over the paths.
CoverPaths == Write("paths", nsSpec.masked \/ nsSpec.readonly, "paths", "mnt", "done")

NamespacesNext ==
    \/ Validate \/ EnterUser \/ WriteMaps \/ EnterTime \/ WriteOffsets \/ EnterPid
    \/ SetIoPriority \/ SetupScheduler \/ ApplyRest \/ SetNames \/ Sysctl \/ CoverPaths

NamespacesSpec == NamespacesInit /\ [][NamespacesNext]_nsVars

-----------------------------------------------------------------------------
(* Properties *)

\* The process is in a namespace other than the host's only for the types of the
\* spec, and nothing is entered or written before the spec was accepted.
NamespacesTypeOK ==
    /\ host \in Hosts
    /\ nsAt \in [Types -> {"host", "new", "other"}]
    /\ \A t \in Types : nsAt[t] # "host" => /\ HasNs(nsSpec, t)
                                         /\ (nsAt[t] = "new") = (Ns(nsSpec, t).path = "none")
    /\ nsPc \in {"validate", "refused"} => nsAt = [t \in Types |-> "host"] /\ writes = {}
    /\ opened \subseteq {"host", "new", "other"}

\* The spec names the host's own namespace for what is written: an ipc or a uts one
\* for a sysctl, a mount one for masked and read-only paths.  The validator, which
\* refuses the network one of the host, asks only that there is one.
AsksForHost(s, what) ==
    \E t \in {"ipc", "uts", "mnt"} :
        /\ t = IF what = "paths" THEN "mnt" ELSE SysctlScope(what)
        /\ HasNs(s, t) /\ Ns(s, t).path = "host"

\* A spec that was accepted makes the processes write to a namespace of the host only
\* where it names that namespace by its path: never a host or domain name, an id map,
\* a clock offset or a sysctl of the network or of users, and nothing because a
\* namespace is missing from the spec.
HostUntouched == \A w \in writes : w[2] = "host" => AsksForHost(nsSpec, w[1])

\* A namespace of another container is written to by sysctls and covered paths only;
\* id maps, clock offsets and names go to namespaces made for this container.
JoinedStaysAsItIs ==
    \A w \in writes : w[1] \in {"maps", "offsets", "hostname", "domainname"} => w[2] = "new"

\* "We also have to enter into mount namespace last since namespace may be bind to
\* /proc path": every path of a namespace is opened in the host's mount namespace.
PathsOpenedOnHost == opened \subseteq {"host"}

\* When the process is set up, everything the spec asks for has been written.
AskedIsDone ==
    nsPc = "done" =>
        LET done == {w[1] : w \in writes}
        IN  /\ nsSpec.hostname /\ Ns(nsSpec, "uts").path = "none" => "hostname" \in done
            /\ nsSpec.domainname /\ Ns(nsSpec, "uts").path = "none" => "domainname" \in done
            /\ nsSpec.offsets = "some" => "offsets" \in done
            /\ nsSpec.maps /\ Ns(nsSpec, "user").path = "none" => "maps" \in done
            /\ nsSpec.sysctl \subseteq done
            /\ nsSpec.masked \/ nsSpec.readonly => "paths" \in done

\* The kernel gets no parameter that is foreign to the policy, and a level that
\* does not run into the class.
SchedulingIsCoherent ==
    /\ attr # <<>> => /\ attr[1].deadline # 0 => attr[1].policy = "deadline"
                      /\ attr[1].priority # 0 => attr[1].policy \in {"fifo", "rr"}
    /\ ioprio # <<>> => /\ ioprio[1] \div 8192 \in 1 .. 3
                        /\ ioprio[1] % 8192 \in 0 .. 7

\* Together: what the namespaces of an accepted spec are entered and written for, and
\* nothing else.  A namespace of the host is written to if the spec names it, the
\* network and the user namespace excepted.
EnteredAsAsked ==
    /\ PathsOpenedOnHost
    /\ AskedIsDone
    /\ JoinedStaysAsItIs
    /\ HostUntouched
    /\ SchedulingIsCoherent
=============================================================================
