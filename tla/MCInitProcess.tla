--------------------------- MODULE MCInitProcess ---------------------------
(***************************************************************************)
(* What the init process does to itself before the payload: the validated  *)
(* spec and the namespaces (InitNamespaces), the user namespace and its id *)
(* maps (UserNamespace), ids, capabilities, file descriptors and the       *)
(* working directory (InitPrivileges), and the seccomp profile, through    *)
(* libseccomp (SeccompProfile) and through the compiler of the seccomp     *)
(* crate (SeccompBpf).  Every behaviour explores one of them.              *)
(***************************************************************************)
EXTENDS Integers, Sequences, FiniteSets, InitNamespaces, UserNamespace, InitPrivileges

\* Namespaces of the spec: none, one of each type by every path, a full set of new ones,
\* a full set that is joined, and a type given twice.
NsOf(t, p) == [typ |-> t, path |-> p]
Plain == [version |-> "1", ns |-> <<>>, hostname |-> FALSE, domainname |-> FALSE, sysctl |-> {},
          masked |-> FALSE, readonly |-> FALSE, offsets |-> "none", maps |-> FALSE, mounts |-> {},
          netdev |-> {}, sched |-> <<>>, io |-> <<>>, clos |-> "a", apparmor |-> FALSE]
All == <<"user", "pid", "uts", "ipc", "net", "cgroup", "mnt", "time">>
NsLists ==
    {<<>>, <<NsOf("uts", "none"), NsOf("uts", "other")>>,
     [i \in 1 .. 8 |-> NsOf(All[i], "none")], [i \in 1 .. 8 |-> NsOf(All[9 - i], "other")],
     <<NsOf("mnt", "none"), NsOf("net", "other"), NsOf("user", "none"), NsOf("time", "other")>>}
    \cup {<<NsOf("net", p)>> : p \in {"none", "other", "host", "missing", "empty"}}
    \cup {<<NsOf(t, p)>> : t \in {"user", "uts", "ipc", "mnt", "time"}, p \in {"none", "other", "host"}}
Idmap(b, m, u, g) == [bind |-> b, idmap |-> m, uid |-> u, gid |-> g]
Sched(p, n, pr, d) == [policy |-> p, nice |-> n, priority |-> pr, deadline |-> d]
Name(l, d, s) == [len |-> l, dots |-> d, separator |-> s]
Names == {Name(0, FALSE, FALSE), Name(15, FALSE, FALSE), Name(2, TRUE, FALSE), Name(3, TRUE, FALSE), Name(4, FALSE, TRUE)}
NsSpecs ==
    {[Plain EXCEPT !.ns = n, !.hostname = h, !.domainname = d, !.masked = m, !.readonly = m] :
        n \in NsLists, h, d, m \in BOOLEAN}
    \cup {[Plain EXCEPT !.ns = n, !.sysctl = k] : n \in NsLists, k \in {x \in SUBSET SysctlKeys : Cardinality(x) \in 1 .. 2}}
    \cup {[Plain EXCEPT !.ns = n, !.offsets = o, !.maps = m] : n \in NsLists, o \in {"empty", "some"}, m \in BOOLEAN}
    \cup {[Plain EXCEPT !.ns = n, !.maps = mp, !.mounts = {Idmap(b, m, u, g)}] :
            n \in {<<>>, <<NsOf("user", "none")>>}, mp, b, m \in BOOLEAN,
            u, g \in {"none", "empty", "some"}}
    \cup {[Plain EXCEPT !.ns = n, !.netdev = {[name |-> d, rename |-> r]}] : n \in NsLists, d \in Names, r \in {<<>>, <<Name(16, FALSE, FALSE)>>}}
    \cup {[Plain EXCEPT !.sched = <<Sched(p, n, pr, d)>>] :
            p \in {"other", "batch", "fifo", "rr", "deadline"}, n \in {-20, 19, 20}, pr, d \in {0, 1}}
    \cup {[Plain EXCEPT !.io = <<[class |-> c, priority |-> p]>>] : c \in {"rt", "be", "idle"}, p \in {-1, 0, 7, 8}}
    \cup {[Plain EXCEPT !.clos = c, !.version = v] : c \in {"..", "/", "a/b"}, v \in {"1", "2"}}
    \cup {[Plain EXCEPT !.apparmor = TRUE]}
NsHosts == {[rootless |-> r, inUserns |-> u, apparmor |-> u] : r, u \in BOOLEAN}

\* Id maps: mapped, unmapped and just past the end of a mapping; the caller's own id is 5.
M(c, h, s) == [container |-> c, host |-> h, size |-> s]
MapLists == {<<>>, <<M(0, 5, 1)>>, <<M(0, 5, 0)>>, <<M(0, 1, 3)>>, <<M(1, 5, 1)>>,
             <<M(0, 5, 1), M(1, 1, 2)>>, <<M(0, 5, 2), M(1, 1, 2)>>, <<M(0, 1, 2), M(2, 2, 1)>>}
MapSpecs ==
    [uid_mappings : MapLists, gid_mappings : MapLists, user : {0, 1}, group : {0, 2},
     additional_gids : {{}, {0}, {0, 1}, {2}, {6}}, mount_uids : {{}, {1}},
     mount_gids : {{}, {2}}, privileged : BOOLEAN, caller : {5}, installed : BOOLEAN]

\* Privileges: every combination of capability lists, for root and another user; what the
\* other steps depend on, with a few capability lists.
CapLists == {<<>>, <<{}>>, <<{"NET_RAW"}>>, <<{"NET_RAW", "SETPCAP"}>>}
Capabilities ==
    {<<>>} \cup {<<c>> : c \in [bounding : CapLists, effective : CapLists,
                                permitted : CapLists, inheritable : CapLists, ambient : CapLists]}
Usual ==
    [uid |-> 1, gid |-> 1, gids |-> {}, capabilities |-> <<>>, held |-> Cap, inherited |-> {},
     no_new_privileges |-> <<TRUE>>, seccomp |-> TRUE, cwd |-> "/work", chdir |-> "ok",
     chdir_as_user |-> "ok", getcwd |-> "inside", listen_fds |-> <<>>,
     preserve_fds |-> 0, home |-> "", passwd_home |-> "/home/u"]
CapCases ==
    {[Usual EXCEPT !.capabilities = c, !.uid = u, !.held = h[1], !.inherited = h[2]] :
        c \in Capabilities, u \in {0, 1},
        h \in {<<Cap, {}>>, <<Cap, {"NET_RAW", "SYS_ADMIN"}>>, <<Cap \ {"SETPCAP"}, {"NET_RAW"}>>}}
FewCaps == {<<>>, <<[bounding |-> <<{}>>, effective |-> <<{}>>, permitted |-> <<{}>>,
                     inheritable |-> <<>>, ambient |-> <<>>]>>}
FdCases ==
    {[Usual EXCEPT !.capabilities = c, !.no_new_privileges = n, !.seccomp = s, !.listen_fds = l,
                   !.preserve_fds = p, !.gids = g] :
        c \in FewCaps, n \in {<<>>, <<TRUE>>, <<FALSE>>}, s \in BOOLEAN,
        l \in {<<>>, <<<<>>>>, <<<<0>>>>, <<<<1>>>>}, p \in 0 .. 1, g \in {{}, {7}}}
CwdCases ==
    {[Usual EXCEPT !.cwd = d, !.chdir = a, !.chdir_as_user = b, !.getcwd = w, !.home = h] :
        d \in {"", "/work"}, a \in {"ok", "EPERM", "EACCES"}, b \in {"ok", "EACCES"},
        w \in {"inside", "outside", "unlinked"}, h \in {"", "/root"}}
Processes == CapCases \cup FdCases \cup CwdCases

\* Profiles for libseccomp: no test, one, two arguments, one argument twice, every comparison.
Entry(names, action, errno, args) == [names |-> names, action |-> action, errno |-> errno, args |-> args]
Test(n, op, v) == [index |-> n, op |-> op, value |-> v, two |-> <<>>]
Mask(n, v, m) == [index |-> n, op |-> "masked_eq", value |-> v, two |-> m]
Profile(default, errno, syscalls) ==
    [default |-> default, errno |-> errno, flags |-> {}, archs |-> {"native"},
     syscalls |-> syscalls, listener |-> TRUE]
Known == {"read", "write", "sendmsg", "recvmsg", "clone"}
Tests == {<<>>, <<<<Test(0, "eq", 1)>>>>, <<<<Test(0, "gt", 0), Test(1, "le", 1)>>>>,
          <<<<Test(0, "lt", 1), Test(0, "ge", 2)>>>>, <<<<Test(1, "ne", 1)>>>>,
          <<<<Mask(0, 1, <<3>>), Mask(1, 0, <<>>)>>>>}
Defaults == {<<"allow", <<>>>>, <<"errno", <<>>>>, <<"errno", <<2>>>>, <<"kill", <<>>>>,
             <<"trace", <<70000>>>>, <<"notify", <<>>>>}
First == {Entry({"clone", "unknown"}, a[1], a[2], t) :
            a \in {<<"allow", <<>>>>, <<"errno", <<1>>>>, <<"errno", <<2>>>>, <<"kill_thread", <<>>>>,
                   <<"trace", <<>>>>, <<"trace", <<70000>>>>, <<"notify", <<>>>>}, t \in Tests}
Second == {Entry({"sendmsg", "recvmsg", "read"}, "allow", <<>>, <<>>),
           Entry({"recvmsg"}, "notify", <<>>, <<>>), Entry({"write"}, "notify", <<>>, <<>>),
           Entry({"sendmsg"}, "errno", <<>>, <<>>), Entry({"sendmsg"}, "notify", <<>>, <<>>)}
LibProfiles ==
    {Profile(d[1], d[2], <<f, s>>) : d \in Defaults, f \in First, s \in Second}
    \cup {[Profile("allow", <<>>, <<f>>) EXCEPT !.listener = FALSE,
             !.flags = {"log", "tsync", "spec_allow", "wait_killable"}] : f \in First}
    \cup {[Profile("allow", <<>>, <<>>) EXCEPT !.archs = {"vax"}],
          Profile("allow", <<>>, <<Entry({"unknown"}, "notify", <<>>, <<>>)>>)}
LibCalls == [name : Known, args : [0 .. 1 -> 0 .. 2]]

\* Profiles for the compiler: lists of names around where they fill a jump and a chunk, one
\* and several names and tests, several entries, unknown names, other architectures and flags.
JumpMax == 12
X32Bit == 16
Rule(names, action, args) == [names |-> names, action |-> action, args |-> args]
P(default, entries) ==
    [default_action |-> default, syscalls |-> entries, write |-> 1, architectures |-> <<X32Bit + 1>>, flags |-> {}]
Arg(n, op, v) == [index |-> n, op |-> op, value |-> v, value_two |-> v]
Ops == {"Equal", "NotEqual", "LessThan", "LessOrEqual", "GreaterOrEqual", "GreaterThan", "MaskedEqual"}
BpfProfiles ==
    {P(d, <<Rule([i \in 1 .. n |-> n - i], a, <<>>)>>) :
        d \in {"Allow", "Notify"}, a \in {"Trap", "Notify"}, n \in {0, 1, 2, 5} \cup JumpMax - 3 .. JumpMax + 1}
    \cup {P("Trap", <<Rule(names, "Allow", <<<<Arg(n, op, v)>>>>)>>) :
            names \in {<<2>>, <<1, 0>>, <<2, 1, 5>>}, n \in {0, 1}, v \in 0 .. 3, op \in Ops}
    \cup {P("Trap", <<Rule(<<2, 1>>, a, <<t>>), Rule(<<5>>, "Allow", u)>>) :
            a \in {"Allow", "Errno", "Errno1"}, t \in {<<>>, <<Arg(0, "Equal", 1)>>},
            u \in {<<>>, <<<<Arg(0, "Equal", 1)>>>>}}
    \cup {P("Trap", <<Rule(<<2>>, "Allow", <<<<Arg(0, "Equal", 1), Arg(1, "NotEqual", 0)>>>>)>>),
          P("Trap", <<Rule(<<2>>, "Allow", <<<<Arg(6, "Equal", 1)>>>>)>>),
          P("Errno", <<Rule(<<2>>, "Allow", <<>>)>>), P("Allow", <<Rule(<<3, -1>>, "Trap", <<>>)>>)}
    \cup {[P("Allow", <<Rule(<<2>>, "Trap", <<>>)>>) EXCEPT !.architectures = a, !.flags = f] :
            a \in {<<>>, <<X32Bit + 1, X32Bit + 2, X32Bit + 3>>}, f \in {{}, {"LOG"}, {"TSYNC"}}}
BpfCalls == [arch : {X32Bit + 1, X32Bit + 2}, nr : {0, 1, 2, 5, 10, 12, X32Bit},
             args : {[n \in 0 .. 1 |-> IF n = 0 THEN v ELSE w] : v \in 0 .. 3, w \in {0, 3}}]

-----------------------------------------------------------------------------
VARIABLES
    part,  \* the part this behaviour explores
    libProfile, libPc, entry, ctx, fd, main, listener,
    bpfProfile, bpfCall, program, bpfAt, acc, verdict

libVars == <<libProfile, libPc, entry, ctx, fd, main, listener>>
bpfVars == <<bpfProfile, bpfCall, program, bpfAt, acc, verdict>>
vars == <<part, nsVars, userVars, privVars, libVars, bpfVars>>

N0 == INSTANCE InitNamespaces
    WITH Specs <- {Plain},
         Hosts <- {[rootless |-> FALSE, inUserns |-> FALSE, apparmor |-> FALSE]}
U0 == INSTANCE UserNamespace
    WITH Spec0 <- {[uid_mappings |-> <<>>, gid_mappings |-> <<>>, user |-> 0, group |-> 0,
                    additional_gids |-> {}, mount_uids |-> {}, mount_gids |-> {},
                    privileged |-> FALSE, caller |-> 5, installed |-> FALSE]}
P0 == INSTANCE InitPrivileges WITH Process <- {Usual}

L == INSTANCE SeccompProfile
    WITH Profiles <- LibProfiles, Known <- Known, Calls <- LibCalls,
         KnownArchs <- {"native"}, profile <- libProfile, pc <- libPc
L0 == INSTANCE SeccompProfile
    WITH Profiles <- {Profile("allow", <<>>, <<>>)}, Known <- Known, Calls <- {},
         KnownArchs <- {"native"}, profile <- libProfile, pc <- libPc

B == INSTANCE SeccompBpf
    WITH WordBits <- 1, JumpMax <- JumpMax, X32Bit <- X32Bit, Profiles <- BpfProfiles,
         Calls <- BpfCalls, profile <- bpfProfile, call <- bpfCall, at <- bpfAt
B0 == INSTANCE SeccompBpf
    WITH WordBits <- 1, JumpMax <- JumpMax, X32Bit <- X32Bit,
         Profiles <- {P("Allow", <<>>)}, Calls <- {[arch |-> X32Bit, nr |-> 0, args |-> <<>>]},
         profile <- bpfProfile, call <- bpfCall, at <- bpfAt

\* One part starts in any of its initial states; the others stay in their first one.
Init ==
    /\ part \in {"namespaces", "user namespace", "privileges", "libseccomp", "seccomp"}
    /\ IF part = "namespaces" THEN NamespacesInit ELSE N0!NamespacesInit
    /\ IF part = "user namespace" THEN UsernsInit ELSE U0!UsernsInit
    /\ IF part = "privileges" THEN PrivilegesInit ELSE P0!PrivilegesInit
    /\ IF part = "libseccomp" THEN L!Init ELSE L0!Init
    /\ IF part = "seccomp" THEN B!Init ELSE B0!Init

\* These parts may come to an end; the others never stop before they have returned.
PartEnds ==
    /\ part \in {"namespaces", "libseccomp"}
    /\ UNCHANGED vars

Next ==
    \/ part = "namespaces" /\ NamespacesNext /\ UNCHANGED <<part, userVars, privVars, libVars, bpfVars>>
    \/ part = "user namespace" /\ UsernsNext /\ UNCHANGED <<part, nsVars, privVars, libVars, bpfVars>>
    \/ part = "privileges" /\ PrivilegesNext /\ UNCHANGED <<part, nsVars, userVars, libVars, bpfVars>>
    \/ part = "libseccomp" /\ L!Next /\ UNCHANGED <<part, nsVars, userVars, privVars, bpfVars>>
    \/ part = "seccomp" /\ B!Next /\ UNCHANGED <<part, nsVars, userVars, privVars, libVars>>
    \/ PartEnds

Spec ==
    /\ Init /\ [][Next]_vars
    /\ WF_libVars(part = "libseccomp" /\ L!InitSteps)
    /\ WF_libVars(part = "libseccomp" /\ L!MainSteps)

-----------------------------------------------------------------------------
\* The variables of each part have their types.
TypeOK ==
    /\ NamespacesTypeOK /\ PrivilegesTypeOK /\ B!TypeOK
    /\ part = "user namespace" => UsernsTypeOK
    /\ part = "libseccomp" => L!TypeOK

\* libseccomp: the loaded filter decides every call as the profile says, and the payload is
\* not reached with a filter that notifies unless the listener has the fd.
ProfileInForce ==
    /\ part = "libseccomp" => L!FilterMeansProfile
    /\ L!NotifiedIsListened

\* libseccomp: under its own filter the init process gets rid of the notification fd, or
\* fails.
NeverHangs == part = "libseccomp" => L!NeverHangs

\* seccomp crate: the program the compiler emits decides every call as the profile says.
DecidesAsMeant == B!DecidesAsMeant
=============================================================================
