--------------------------- MODULE IoControllers ---------------------------
(***************************************************************************)
(* Block I/O, huge page, task and network limits of the OCI resources,     *)
(* applied to three containers at once: through the cgroup v1 files, the   *)
(* cgroup v2 files and the properties of a systemd unit.                   *)
(*                                                                         *)
(* Options are <<>> or <<v>>; a throttle is a sequence of <<device, rate>>.*)
(* Which optional files a kernel has is fixed for a behaviour.             *)
(***************************************************************************)
EXTENDS Integers, Sequences, FiniteSets, SequencesExt

CONSTANTS
    BlockDevices, CharDevices,  \* the devices /sys/dev/block and /sys/dev/char know
    UnknownDevices,             \* numbers no device has
    Requests,                   \* the resources that may be applied
    KnownPages,                 \* the huge page sizes the kernel supports
    MaxApplies                  \* bound on the number of requests

Devices == BlockDevices \cup CharDevices \cup UnknownDevices
Kinds == <<"read_bps", "write_bps", "read_iops", "write_iops">>
NoLimit == -1
U16 == 65536

VARIABLES
    has,        \* optional files: "blkio.weight", "io.bfq.weight", "rsvd"
    v1, v2,     \* the files of the v1 and the v2 container
    unit,       \* the properties of the systemd unit, as the limits they stand for
    last,       \* the last request and what each manager returned
    applies

vars == <<has, v1, v2, unit, last, applies>>

NoRequest == [weight |-> <<>>, leaf_weight |-> <<>>, weight_device |-> <<>>,
              throttle |-> [k \in Range(Kinds) |-> <<>>], hugepages |-> <<>>, pids |-> <<>>,
              class_id |-> <<>>, priorities |-> <<>>]

-----------------------------------------------------------------------------
(* Writes: a file, the entry of the file it sets and the value.  A write    *)
(* with the file "error" is a refusal by the controller itself.             *)

W(file, key, val) == << [file |-> file, key |-> key, val |-> val] >>
Refuse == W("error", "-", 0)
EachOf(list, writes(_)) == FlattenSeq([i \in DOMAIN list |-> writes(list[i])])

\* External: a write is refused where the kernel has no such file, device or page size, and
\* for a v2 rate of zero.
KernelRefuses(w) ==
    \/ w.file = "error"
    \/ w.file \in {"blkio.weight", "io.bfq.weight", "rsvd"} /\ w.file \notin has
    \/ w.file \in {"throttle", "io.max"} /\ w.key[2] \notin BlockDevices
    \/ w.file = "io.max" /\ w.val = 0
    \/ w.file \in {"hugetlb", "rsvd"} /\ w.key \notin KnownPages

RunWrites(files, writes) ==
    FoldLeft(LAMBDA acc, w : IF ~acc.ok THEN acc
                             ELSE IF KernelRefuses(w) THEN [acc EXCEPT !.ok = FALSE]
                             ELSE [acc EXCEPT !.files[<<w.file, w.key>>] = w.val],
             [files |-> files, ok |-> TRUE], writes)

-----------------------------------------------------------------------------
(* The numbers.                                                             *)

\* [10, 1000] onto [1, 10000]; the product is taken in 32 bits
convert_cfq_io_weight_to_bfq(v) ==
    IF v = 0 THEN 0 ELSE (1 + ((v - 10) * 9999) \div 990) % U16

\* number & (number - 1) = 0
is_power_of_two(n) == n # 0 /\ \E k \in 0..20 : n = 2^k

-----------------------------------------------------------------------------
(* Huge pages.  A page size is [digits |-> the leading number or <<>>,      *)
(* name |-> the size]; v1 and v2 differ in the names of the files only.     *)

HugeTlbWrites(h) ==
    IF h.digits = <<>> \/ ~is_power_of_two(h.digits[1]) THEN Refuse
    ELSE W("hugetlb", h.name, h.limit) \o
         (IF "rsvd" \in has /\ h.name \in KnownPages THEN W("rsvd", h.name, h.limit) ELSE <<>>)

-----------------------------------------------------------------------------
(* v1 *)

Blkio(r) ==
    (IF r.weight = <<>> \/ r.weight = <<0>> THEN <<>>
     ELSE W(IF "blkio.weight" \in has THEN "blkio.weight" ELSE "blkio.bfq.weight", "-", r.weight[1]))
    \o EachOf(Kinds, LAMBDA k : EachOf(r.throttle[k], LAMBDA t : W("throttle", <<k, t[1]>>, t[2])))

HugeTlbV1(h) == HugeTlbWrites(h)

PidsV1(limit) == W("pids.max", "-", IF limit > 0 THEN limit ELSE NoLimit)

NetworkClassifier(r) ==
    IF r.class_id = <<>> THEN <<>> ELSE W("net_cls.classid", "-", r.class_id[1])

NetworkPriority(r) ==
    IF r.priorities = <<>> THEN <<>> ELSE W("net_prio.ifpriomap", "-", r.priorities[1])

\* The manager takes its subsystems in a hash map's order; this is one such order.
V1Writes(r) ==
    Blkio(r) \o EachOf(r.hugepages, HugeTlbV1)
    \o (IF r.pids = <<>> THEN <<>> ELSE PidsV1(r.pids[1])) 
    \o NetworkClassifier(r) \o NetworkPriority(r)

-----------------------------------------------------------------------------
(* v2 *)

IoWeight(weight) ==
    CASE weight \in {<<>>, <<0>>} -> <<>>
      [] weight \notin {<<>>, <<0>>} /\ weight[1] \notin 10..1000 -> Refuse
      [] OTHER -> IF "io.bfq.weight" \in has THEN W("io.bfq.weight", "-", weight[1])
                  ELSE W("io.weight", "-", convert_cfq_io_weight_to_bfq(weight[1]))

Io(r) ==
    (IF r.leaf_weight # <<>> /\ r.leaf_weight[1] > 0 THEN Refuse ELSE <<>>)
    \o IoWeight(r.weight)
    \o EachOf(r.weight_device, LAMBDA d : W("io.bfq.weight", d[1], d[2]))
    \o EachOf(Kinds, LAMBDA k : EachOf(r.throttle[k], LAMBDA t : W("io.max", <<k, t[1]>>, t[2])))

\* "mapping 0 to 1 due to systemd limitations"
PidsV2(limit) == W("pids.max", "-", IF limit = 0 THEN 1 ELSE IF limit > 0 THEN limit ELSE NoLimit)

V2Writes(r) ==
    EachOf(r.hugepages, HugeTlbWrites) \o Io(r)
    \o (IF r.pids = <<>> THEN <<>> ELSE PidsV2(r.pids[1]))

-----------------------------------------------------------------------------
(* systemd: no weights, no huge pages, no network; devices by their path.   *)

\* /sys/dev/block first, then /sys/dev/char
dev_path_from_major_minor(d) == d \in BlockDevices \cup CharDevices

UnitRefuses(r) ==
    \E k \in Range(Kinds) : \E i \in DOMAIN r.throttle[k] :
        ~dev_path_from_major_minor(r.throttle[k][i][1])

UnitPids(limit) == IF limit > 0 THEN limit ELSE NoLimit

RateOf(list, d, old) ==
    FoldLeft(LAMBDA acc, t : IF t[1] = d THEN t[2] ELSE acc, old, list)

UnitAfter(r) ==
    [throttle |-> [k \in Range(Kinds) |-> [d \in Devices |-> RateOf(r.throttle[k], d, unit.throttle[k][d])]],
     tasks |-> IF r.pids = <<>> THEN unit.tasks ELSE UnitPids(r.pids[1])]

-----------------------------------------------------------------------------
Keys(file) ==
    CASE file \in {"throttle", "io.max"} -> Range(Kinds) \X Devices
      [] file \in {"hugetlb", "rsvd"} -> KnownPages
      [] file = "io.bfq.weight" -> {"-"} \cup Devices
      [] OTHER -> {"-"}
FilesOf(names) == UNION {{<<f, k>> : k \in Keys(f)} : f \in names}
V1Files == FilesOf({"blkio.weight", "blkio.bfq.weight", "throttle", "hugetlb", "rsvd", "pids.max",
                    "net_cls.classid", "net_prio.ifpriomap"})
V2Files == FilesOf({"io.weight", "io.bfq.weight", "io.max", "hugetlb", "rsvd", "pids.max"})

Init ==
    /\ has \in SUBSET {"blkio.weight", "io.bfq.weight", "rsvd"}
    /\ v1 = [f \in V1Files |-> NoLimit]
    /\ v2 = [f \in V2Files |-> NoLimit]
    /\ unit = [throttle |-> [k \in Range(Kinds) |-> [d \in Devices |-> NoLimit]], tasks |-> NoLimit]
    /\ last = [req |-> NoRequest, v1 |-> "none", v2 |-> "none", unit |-> "none"]
    /\ applies = 0

Result(ok) == IF ok THEN "ok" ELSE "error"

Apply(r) ==
    /\ applies < MaxApplies
    /\ LET r1 == RunWrites(v1, V1Writes(r))
           r2 == RunWrites(v2, V2Writes(r))
       IN  /\ v1' = r1.files /\ v2' = r2.files
           /\ unit' = IF UnitRefuses(r) THEN unit ELSE UnitAfter(r)
           /\ last' = [req |-> r, v1 |-> Result(r1.ok), v2 |-> Result(r2.ok),
                       unit |-> Result(~UnitRefuses(r))]
    /\ applies' = applies + 1
    /\ UNCHANGED has

Next == \E r \in Requests : Apply(r)

Spec == Init /\ [][Next]_vars

-----------------------------------------------------------------------------
(* Properties *)

TypeOK ==
    /\ \A f \in V1Files : v1[f] \in Int
    /\ \A f \in V2Files : v2[f] \in Int /\ (f[1] = "io.weight" => v2[f] \in {NoLimit} \cup 1..10000)
    /\ applies \in 0..MaxApplies

\* The first request, where all three managers accept it, throttles every device in the same
\* way: the v1 throttle files, the lines of io.max and the unit's bandwidth properties say the
\* same rate for the same device and direction.
ThrottlesAgree ==
    applies = 1 /\ {last.v1, last.v2, last.unit} = {"ok"} =>
        \A k \in Range(Kinds), d \in Devices :
            /\ v1[<<"throttle", <<k, d>>>>] = v2[<<"io.max", <<k, d>>>>]
            /\ v1[<<"throttle", <<k, d>>>>] = unit.throttle[k][d]

=============================================================================
