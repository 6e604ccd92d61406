-------------------------- MODULE MCResourceLimits --------------------------
(***************************************************************************)
(* The resource limits a container is given: memory (MemoryControllers),   *)
(* cpu and cpusets (CpuControllers), I/O, tasks and huge pages             *)
(* (IoControllers), device access (Devices), Intel RDT (IntelRdt) and the  *)
(* NUMA memory policy (MemoryPolicy).  Every behaviour explores one of     *)
(* them.                                                                   *)
(***************************************************************************)
EXTENDS Integers, Sequences, TLC, MemoryControllers, Devices, IntelRdt

Opt(S) == {<<>>} \cup {<<v>> : v \in S}

\* memory: every pair of limit and swap total, and some of the settings that go with them.
NoMemory == [limit |-> <<>>, swap |-> <<>>, reservation |-> <<>>, swappiness |-> <<>>,
             kernel |-> <<>>, kernel_tcp |-> <<>>]
MemoryRequests ==
    {[NoMemory EXCEPT !.limit = l, !.swap = s] :
        l \in Opt({-2, -1, 0, 2, 4}), s \in Opt({-2, -1, 0, 2, 3, 4})}
      \cup {[NoMemory EXCEPT !.limit = l, !.swap = <<4>>, !.reservation = <<r>>, !.swappiness = s] :
              l \in {<<2>>, <<3>>}, r \in {-2, -1, 0, 1}, s \in {<<>>, <<10>>, <<101>>}}
      \cup {[NoMemory EXCEPT !.kernel = <<3>>, !.kernel_tcp = <<2>>]}

\* cpu: values of the fit computed from the formula; masks over more than one byte and word.
Fit == 3 :> 2 @@ 100 :> 17 @@ 1024 :> 100 @@ 22000 :> 1204 @@ 262143 :> 10000
NoCpu == [shares |-> <<>>, quota |-> <<>>, period |-> <<>>, burst |-> <<>>, idle |-> <<>>,
          rt_runtime |-> <<>>, rt_period |-> <<>>, cpus |-> <<>>, mems |-> <<>>]
CpuRequests ==
    {[NoCpu EXCEPT !.shares = s, !.quota = q, !.period = p] :
        s \in Opt({0, 2, 262144}), q \in Opt({-1, 7}), p \in Opt({3, 20})}
      \cup {[NoCpu EXCEPT !.shares = <<1024>>, !.cpus = <<c>>, !.mems = m] :
        c \in {<<>>, <<<<0>>>>, <<<<1, 4>>, <<>>, <<9>>>>, <<<<3, 1>>>>, <<<<0, 2, 5>>>>, <<<<-1>>>>},
        m \in {<<>>, <<<<<<5, 6>>>>>>}}
      \cup {[NoCpu EXCEPT !.rt_runtime = r, !.rt_period = <<n>>, !.idle = <<1>>] :
        r \in Opt({0, 5}), n \in {0, 6}}
      \cup {[NoCpu EXCEPT !.burst = <<3>>, !.quota = <<7>>], [NoCpu EXCEPT !.shares = <<100>>],
            [NoCpu EXCEPT !.quota = <<0>>, !.period = <<20>>], [NoCpu EXCEPT !.quota = <<7>>, !.period = <<0>>]}
Unifieds ==
    {<<>>, "cpu.weight" :> 100, "cpu.weight" :> 22000,
     "cpu.max" :> [quota |-> 4, period |-> <<5>>] @@ "cpuset.cpus" :> <<<<2, 3>>>>,
     "cpu.max" :> [quota |-> -1, period |-> <<>>] @@ "cpu/max" :> [quota |-> 1, period |-> <<>>]}

\* I/O, tasks and huge pages: devices of both types and one that does not exist.
Kinds == {"read_bps", "write_bps", "read_iops", "write_iops"}
NoIo == [weight |-> <<>>, leaf_weight |-> <<>>, weight_device |-> <<>>,
         throttle |-> [k \in Kinds |-> <<>>], hugepages |-> <<>>, pids |-> <<>>,
         class_id |-> <<>>, priorities |-> <<>>]
Page(n, name, limit) == [digits |-> n, name |-> name, limit |-> limit]
Throttled(k, list) == [NoIo EXCEPT !.throttle[k] = list]
IoRequests ==
    {[NoIo EXCEPT !.weight = <<w>>] : w \in {0, 5, 10, 11, 20, 500, 999, 1000}}
      \cup {[NoIo EXCEPT !.weight = <<10>>, !.leaf_weight = <<l>>, !.weight_device = <<<<"sda", 20>>>>] :
              l \in {0, 1}}
      \cup {Throttled(k, <<<<"sda", 3>>, <<d, 4>>>>) : k \in Kinds, d \in {"sda", "sdb", "tty", "none"}}
      \cup {[Throttled("read_bps", <<<<"sdb", 0>>>>) EXCEPT !.pids = <<p>>] : p \in {-1, 0, 7}}
      \cup {[Throttled("write_iops", <<<<"sdb", 5>>>>) EXCEPT !.hugepages = h, !.pids = <<3>>] :
              h \in {<<Page(<<2>>, "2MB", 8)>>,
                     <<Page(<<2>>, "2MB", 6), Page(<<3>>, "3MB", 1), Page(<<1>>, "1GB", 1)>>,
                     <<Page(<<1>>, "1GB", 2), Page(<<>>, "GB", 1)>>, <<Page(<<64>>, "64KB", 4)>>}}
      \cup {[NoIo EXCEPT !.class_id = <<9>>, !.priorities = <<1>>]}

\* devices: both resets, wildcards by absence and by -1, merged and partial accesses,
\* denials, an unsupported type, an unknown letter, no access; then two updates at once.
Absent == -2
Rule(allow, typ, major, minor, access) ==
    [allow |-> allow, typ |-> typ, major |-> major, minor |-> minor, access |-> access]
DenyAll == Rule(FALSE, "a", Absent, Absent, <<RWM>>)
AllowAll == Rule(TRUE, "none", Absent, Absent, <<>>)
UserRules ==
    {DenyAll, AllowAll,
     Rule(TRUE, "c", 1, 3, <<{"r", "w"}>>), Rule(FALSE, "c", 1, 3, <<{"w"}>>),
     Rule(FALSE, "c", 1, Absent, <<RWM>>), Rule(TRUE, "c", 4, -1, <<{"r", "w"}>>),
     Rule(TRUE, "b", 8, Absent, <<{"r"}>>), Rule(TRUE, "b", 8, Absent, <<{"w"}>>),
     Rule(TRUE, "c", Absent, 3, <<RWM>>), Rule(TRUE, "b", -1, Absent, <<{"r"}>>),
     Rule(TRUE, "p", 1, 3, <<{"r"}>>), Rule(TRUE, "c", 5, 1, <<{"x"}>>),
     Rule(TRUE, "b", 8, 0, <<{"x"}>>), Rule(TRUE, "b", 8, 0, <<>>), Rule(TRUE, "b", 8, 0, <<{}>>)}
UserRuleLists == {<<>>} \cup {<<r>> : r \in UserRules} \cup {<<r, s>> : r, s \in UserRules}
CgroupManagers ==
    {[kind |-> k, version |-> 0, rootless |-> FALSE] : k \in {"fs", "v1"}}
      \cup {[kind |-> "systemd", version |-> v, rootless |-> r] : v \in {239, 240}, r \in BOOLEAN}
Filtered == {{[by |-> "create", kind |-> "ebpf", rules |-> <<DenyAll>>]}}
DeviceLines ==
    << <<"section", "c">>, <<"group", 1, "mem">>, <<"path", 4>>, <<"group", 4, "tty">>, <<"blank">>,
       <<"section", "b">>, <<"group", 8, "sd">>, <<"group", 65, "sd">> >>
Accesses == [typ : {"c", "b"}, major : {1, 4, 8, 65}, minor : {0, 3},
           access : {{"r"}, {"w"}, {"m"}, {"r", "w"}, RWM}]
DeviceNodes == {<<"c", 1, 3>>}
RaceRules == {<<DenyAll>>, <<AllowAll>>, <<DenyAll, Rule(TRUE, "c", 4, -1, <<RWM>>)>>}
RaceManagers == {m \in CgroupManagers : m.kind # "v1" /\ m.version # 239}

\* Intel RDT: own groups with every combination of the schema fields, and groups shared
\* under a closID with schemas that match, differ and do not parse.
Section(clos, l3, mb, schemata, monitoring) ==
    [clos |-> clos, l3 |-> l3, mb |-> mb, schemata |-> schemata, monitoring |-> monitoring]
L3 == <<"L3", "half">>
MB == <<"MB", "low">>
RdtSpecs ==
    {Section(<<>>, l3, mb, list, mon) :
        l3 \in {<<>>, << <<L3, <<"MB", "full">>>> >>}, mb \in {<<>>, << <<MB>> >>},
        list \in {<<>>, << <<"L2", "half">> >>}, mon \in BOOLEAN}
    \cup {Section(<<"shared">>, l3, <<>>, <<>>, mon) :
        l3 \in {<<>>, << <<<<"L3", "full">>>> >>, << <<L3>> >>, << <<<<"L3", "bad">>>> >>}, mon \in BOOLEAN}
    \cup {Section(<<"fresh">>, << <<L3>> >>, << <<MB>> >>, <<>>, mon) : mon \in BOOLEAN}

\* NUMA: node lists around a word boundary, under every mode and flag set.
Entries == {<<>>, <<0>>, <<2>>, <<3>>, <<4>>, <<8>>, <<1, 3>>, <<3, 3>>, <<5, 9>>, <<4, 2>>, <<-1>>}
NodeStrings ==
    {<<>>, << <<>> >>} \cup {<< <<a>> >> : a \in Entries} \cup {<< <<a, b>> >> : a, b \in Entries}

-----------------------------------------------------------------------------
VARIABLES
    part,  \* the part this behaviour explores
    cpuV1, cpuV2, cpuUnit, cpuLast, version, cpuApplies,
    has, ioV1, ioV2, ioUnit, ioLast, ioApplies,
    policy, outcome, applied

cpuVars == <<cpuV1, cpuV2, cpuUnit, cpuLast, version, cpuApplies>>
ioVars == <<has, ioV1, ioV2, ioUnit, ioLast, ioApplies>>
numaVars == <<policy, outcome, applied>>
vars == <<part, memVars, cpuVars, ioVars, devVars, rdtVars, numaVars>>

M0 == INSTANCE MemoryControllers
    WITH Requests <- {}, MemoryManagers <- {"v1"}, MaxApplies <- 0

C == INSTANCE CpuControllers
    WITH SecUsec <- 20, DefaultPeriod <- 2, Fit <- Fit, ByteBits <- 2, WordBytes <- 2,
         CpuRequests <- CpuRequests, Unifieds <- Unifieds, SystemdVersions <- {243, 245},
         MaxApplies <- 2, v1 <- cpuV1, v2 <- cpuV2, unit <- cpuUnit, last <- cpuLast,
         applies <- cpuApplies
C0 == INSTANCE CpuControllers
    WITH SecUsec <- 20, DefaultPeriod <- 2, Fit <- Fit, ByteBits <- 2, WordBytes <- 2,
         CpuRequests <- {}, Unifieds <- {}, SystemdVersions <- {245}, MaxApplies <- 0,
         v1 <- cpuV1, v2 <- cpuV2, unit <- cpuUnit, last <- cpuLast, applies <- cpuApplies

I == INSTANCE IoControllers
    WITH BlockDevices <- {"sda", "sdb"}, CharDevices <- {"tty"}, UnknownDevices <- {"none"},
         Requests <- IoRequests, KnownPages <- {"2MB", "1GB"}, MaxApplies <- 2, v1 <- ioV1,
         v2 <- ioV2, unit <- ioUnit, last <- ioLast, applies <- ioApplies
I0 == INSTANCE IoControllers
    WITH BlockDevices <- {"sda", "sdb"}, CharDevices <- {"tty"}, UnknownDevices <- {"none"},
         Requests <- {}, KnownPages <- {"2MB", "1GB"}, MaxApplies <- 0, v1 <- ioV1,
         v2 <- ioV2, unit <- ioUnit, last <- ioLast, applies <- ioApplies

\* The constants of Devices are those of the part "device race".
D == INSTANCE Devices
    WITH Updaters <- {"u1"}, RuleLists <- UserRuleLists, DeviceManagers <- CgroupManagers,
         Probes <- Accesses
D0 == INSTANCE Devices
    WITH Updaters <- {}, RuleLists <- {}, FirstFilters <- {},
         DeviceManagers <- {[kind |-> "v1", version |-> 0, rootless |-> FALSE]}

R0 == INSTANCE IntelRdt
    WITH Specs <- {Section(<<>>, <<>>, <<>>, <<>>, FALSE)}, Hosts <- {{"L3"}}, Prepared <- {{}}

N == INSTANCE MemoryPolicy
    WITH Bits <- 4, NodeStrings <- NodeStrings
N0 == INSTANCE MemoryPolicy
    WITH Bits <- 4, NodeStrings <- {<<>>}

\* One part starts in any of its initial states; the others stay in their first one.
Init ==
    /\ part \in {"memory", "cpu", "io", "devices", "device race", "rdt", "numa"}
    /\ IF part = "memory" THEN MemoryInit ELSE M0!MemoryInit /\ swapon
    /\ IF part = "cpu" THEN C!Init ELSE C0!Init
    /\ IF part = "io" THEN I!Init ELSE I0!Init /\ has = {}
    /\ IF part = "devices" THEN D!DevicesInit
       ELSE IF part = "device race" THEN DevicesInit
       ELSE D0!DevicesInit
    /\ IF part = "rdt" THEN RdtInit ELSE R0!RdtInit
    /\ IF part = "numa" THEN N!Init
       ELSE N0!Init /\ policy.mode = "default" /\ policy.flags = {}

\* These parts may come to an end; the others never stop before they have returned.
PartEnds ==
    /\ part \in {"memory", "cpu", "io", "devices", "device race"}
    /\ UNCHANGED vars

Next ==
    \/ part = "memory" /\ MemoryNext /\ UNCHANGED <<part, cpuVars, ioVars, devVars, rdtVars, numaVars>>
    \/ part = "cpu" /\ C!Next /\ UNCHANGED <<part, memVars, ioVars, devVars, rdtVars, numaVars>>
    \/ part = "io" /\ I!Next /\ UNCHANGED <<part, memVars, cpuVars, devVars, rdtVars, numaVars>>
    \/ part = "devices" /\ D!DevicesNext /\ UNCHANGED <<part, memVars, cpuVars, ioVars, rdtVars, numaVars>>
    \/ part = "device race" /\ DevicesNext /\ UNCHANGED <<part, memVars, cpuVars, ioVars, rdtVars, numaVars>>
    \/ part = "rdt" /\ RdtNext /\ UNCHANGED <<part, memVars, cpuVars, ioVars, devVars, numaVars>>
    \/ part = "numa" /\ N!Next /\ UNCHANGED <<part, memVars, cpuVars, ioVars, devVars, rdtVars>>
    \/ PartEnds

Spec == Init /\ [][Next]_vars

-----------------------------------------------------------------------------
\* The variables of each part have their types.
TypeOK ==
    /\ MemoryTypeOK /\ C!TypeOK /\ I!TypeOK /\ N!TypeOK
    /\ part = "devices" => D!DevicesTypeOK
    /\ part = "device race" => DevicesTypeOK
    /\ part = "rdt" => RdtTypeOK

\* cpu and I/O: the v2 files and systemd leave the same weight, period, cpus, nodes and
\* quota in force, and all managers throttle every device in the same way.
ManagersAgree ==
    /\ C!ManagersAgree
    /\ I!ThrottlesAgree

\* cpu: an update leaves alone what it does not name.
UnnamedIsKept == C!UnnamedIsKept

\* devices: the compiled program decides every access as the last rule that applies to it
\* does, the list given to systemd never allows a single access the rules refuse, and the
\* default devices are usable after a successful apply.
AccessAsRuled ==
    /\ part = "devices" => D!ProgramDecides
    /\ part = "devices" => D!SystemdGrantsNoMore
    /\ part = "devices" => D!DefaultsStayOpen

\* numa: the kernel is told of the nodes the list names, but for a highest one at the last
\* bit of a word.
MaskIsTheNodes == N!MaskIsTheNodes
=============================================================================
