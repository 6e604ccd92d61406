-------------------------- MODULE CpuControllers --------------------------
(***************************************************************************)
(* The cpu and cpuset sections of the OCI resources, and the "unified"     *)
(* section, applied by the three cgroup managers of libcgroups.  Three     *)
(* containers get the same sequence of requests: one through the cgroup v1 *)
(* files, one through the cgroup v2 files, one through the properties of a *)
(* systemd unit, which systemd turns back into v2 files.                   *)
(*                                                                         *)
(* Options are <<>> or <<v>>.  Microseconds are scaled: SecUsec stands for *)
(* MICROSECS_PER_SEC and DefaultPeriod for 100_000.                        *)
(***************************************************************************)
EXTENDS Integers, Sequences, FiniteSets, SequencesExt

CONSTANTS
    SecUsec, DefaultPeriod,
    Fit,            \* the quadratic fit shares -> weight, on the shares in use
    ByteBits, WordBytes, \* bits of a byte of a mask, bytes of a word of a bit set
    CpuRequests,    \* the cpu sections that may be applied
    Unifieds,       \* the unified sections that may be applied
    SystemdVersions,
    MaxApplies      \* bound on the number of requests

NoQuota == -1   \* "max", u64::MAX and -1: no quota

VARIABLES
    v1,         \* the cpu files of the v1 container
    v2,         \* the cpu and cpuset files of the v2 container
    unit,       \* the properties of the systemd unit
    last,       \* the last request and what each manager returned
    version,    \* the version systemd reports
    applies

vars == <<v1, v2, unit, last, version, applies>>

NoCpu == [shares |-> <<>>, quota |-> <<>>, period |-> <<>>, burst |-> <<>>, idle |-> <<>>,
          rt_runtime |-> <<>>, rt_period |-> <<>>, cpus |-> <<>>, mems |-> <<>>]
CpuFields == {"shares", "quota", "period", "burst", "idle", "rt_runtime", "rt_period"}

-----------------------------------------------------------------------------
(* Lists of cpus: a sequence of parts, each the numbers between dashes; -1  *)
(* is text that is not a number.                                            *)

\* External: the set a list names, for the kernel
KernelAccepts(list) ==
    \A i \in DOMAIN list :
        /\ Len(list[i]) <= 2 /\ \A j \in DOMAIN list[i] : list[i][j] >= 0
        /\ Len(list[i]) = 2 => list[i][1] <= list[i][2]
PartSet(part) == IF part = <<>> THEN {}
                 ELSE IF Len(part) = 1 THEN {part[1]} ELSE part[1]..part[2]
ListSet(list) == UNION {PartSet(list[i]) : i \in DOMAIN list}

\* to_bitmask refuses what it cannot parse and a range that runs backwards.
BitmaskRefuses(list) ==
    \E i \in DOMAIN list :
        \/ \E j \in DOMAIN list[i] : j <= 2 /\ list[i][j] < 0
        \/ Len(list[i]) >= 2 /\ list[i][1] > list[i][2]

\* to_bitmask: the set bits, as bytes, the most significant first and without leading
\* zeroes.  A byte is the set of its set bits; the bit set grows by whole words.
to_bitmask(list) ==
    LET S     == ListSet(list)
        bits  == ByteBits * WordBytes
        top   == CHOOSE n \in S \cup {ByteBits - 1} : \A k \in S \cup {ByteBits - 1} : k <= n
        words == top \div bits + 1
        n     == words * WordBytes
        byte(i) == {b \in 0..(ByteBits - 1) : i * ByteBits + b \in S}
        all   == [k \in 1..n |-> byte(n - k)]
        first == CHOOSE k \in 1..(n + 1) : (k = n + 1 \/ all[k] # {}) /\ \A j \in 1..(k - 1) : all[j] = {}
    IN  SubSeq(all, first, n)

(* mutant: the mask goes out as it is *)
WireMask_big_endian(mask) == mask

\* The D-Bus client sends the mask least significant byte first.
WireMask(mask) == Reverse(mask)

\* External: the cpus a mask names, for systemd
MaskSet(wire) == UNION {{(i - 1) * ByteBits + b : b \in wire[i]} : i \in DOMAIN wire}

-----------------------------------------------------------------------------
\* The quadratic fit itself is floating point; its values are the constant Fit.
convert_shares_to_cgroup2(shares) ==
    CASE shares = 0 -> 0
      [] shares \in 1..2 -> 1
      [] shares >= 262144 -> 10000
      [] OTHER -> Fit[shares]

\* v2 and systemd have no realtime scheduling; zeroes ask for nothing.
RealtimeRefused(cpu) ==
    \E opt \in {cpu.rt_runtime, cpu.rt_period} : opt # <<>> /\ opt[1] > 0

-----------------------------------------------------------------------------
(* v1: Cpu::needs_to_handle and Cpu::apply.  What the kernel refuses of     *)
(* these writes is left out.                                                *)

needs_to_handle(cpu) ==
    \E f \in {"shares", "period", "quota", "rt_period", "rt_runtime", "idle"} : cpu[f] # <<>>

WrittenV1(cpu, f) == cpu[f] # <<>> /\ (f \in {"burst", "idle"} \/ cpu[f][1] # 0)

ApplyV1(cpu) ==
    [f \in CpuFields |-> IF needs_to_handle(cpu) /\ WrittenV1(cpu, f) THEN cpu[f][1] ELSE v1[f]]

-----------------------------------------------------------------------------
(* v2: each controller is a sequence of writes; the first that fails ends   *)
(* the application.                                                         *)

\* External: what the kernel makes of a write to a cpu or cpuset file
KernelRefuses(files, w) ==
    CASE w.file = "cpu.max" -> w.val.period = <<0>>
      [] w.file \in {"cpuset.cpus", "cpuset.mems"} -> ~KernelAccepts(w.val)
      [] w.file = "cpu.weight" -> w.val \notin 1..10000
      [] OTHER -> w.file \notin DOMAIN files
AfterWrite(files, w) ==
    CASE w.file = "cpu.max" ->
            [files EXCEPT !["cpu.max"] =
                [quota |-> w.val.quota, period |-> IF w.val.period = <<>> THEN @.period ELSE w.val.period[1]]]
      [] w.file \in {"cpuset.cpus", "cpuset.mems"} -> [files EXCEPT ![w.file] = ListSet(w.val)]
      [] OTHER -> [files EXCEPT ![w.file] = w.val]

Put(file, val) == << [file |-> file, val |-> val] >>

(* mutant: a period alone lifts the quota *)
create_period_only_value_max(period) == [quota |-> NoQuota, period |-> <<period>>]

\* the period alone: the quota that is in force is written back with it
create_period_only_value(period) == [quota |-> v2["cpu.max"].quota, period |-> <<period>>]

QuotaOf(q) == IF q > 0 THEN q ELSE NoQuota

NewCpuMax(cpu) ==
    CASE cpu.quota = <<>> /\ cpu.period # <<>> -> Put("cpu.max", create_period_only_value(cpu.period[1]))
      [] cpu.quota # <<>> -> Put("cpu.max", [quota |-> QuotaOf(cpu.quota[1]), period |-> cpu.period])
      [] OTHER -> <<>>

CpuWrites(cpu) ==
    (IF cpu.shares # <<>> /\ convert_shares_to_cgroup2(cpu.shares[1]) # 0
     THEN Put("cpu.weight", convert_shares_to_cgroup2(cpu.shares[1])) ELSE <<>>)
      \o NewCpuMax(cpu)
      \o (IF cpu.burst # <<>> THEN Put("cpu.max.burst", cpu.burst[1]) ELSE <<>>)
      \o (IF cpu.idle # <<>> THEN Put("cpu.idle", cpu.idle[1]) ELSE <<>>)

CpuSetWrites(cpu) ==
    (IF cpu.cpus # <<>> THEN Put("cpuset.cpus", cpu.cpus[1]) ELSE <<>>)
      \o (IF cpu.mems # <<>> THEN Put("cpuset.mems", cpu.mems[1]) ELSE <<>>)

\* Unified::apply_impl: a name that is no CONTROLLER.PARAMETER is refused; keys are a
\* hash map's, in any order
MalformedName(key) == key \in {"cpu/max", "cpuset", ".max"}
UnifiedWrites(unified, order) ==
    FlattenSeq([i \in DOMAIN order |->
        IF MalformedName(order[i]) THEN Put("error", 0) ELSE Put(order[i], unified[order[i]])])

RunWrites(files, writes) ==
    FoldLeft(LAMBDA acc, w : IF ~acc.ok THEN acc
                             ELSE IF KernelRefuses(acc.files, w) THEN [acc EXCEPT !.ok = FALSE]
                             ELSE [acc EXCEPT !.files = AfterWrite(@, w)],
             [files |-> files, ok |-> TRUE], writes)

\* Manager::apply: cpu, then cpuset, then (last) unified
ApplyV2(cpu, unified, order) ==
    IF RealtimeRefused(cpu) THEN [files |-> v2, ok |-> FALSE]
    ELSE RunWrites(v2, CpuWrites(cpu) \o CpuSetWrites(cpu) \o UnifiedWrites(unified, order))

-----------------------------------------------------------------------------
(* systemd: the properties of one call.                                     *)

\* CPUQuotaPerSecUSec counts per second of cpu time
UnitQuota(cpu) ==
    IF cpu.quota # <<>> /\ cpu.quota[1] > 0
    THEN (cpu.quota[1] * SecUsec) \div (IF cpu.period = <<>> THEN DefaultPeriod ELSE cpu.period[1])
    ELSE NoQuota

\* the division by a period of zero
DividesByZero(cpu) == cpu.quota # <<>> /\ cpu.quota[1] > 0 /\ cpu.period = <<0>>

CpuProperties(cpu) ==
    [unit EXCEPT !.weight = IF cpu.shares # <<>> /\ convert_shares_to_cgroup2(cpu.shares[1]) # 0
                            THEN convert_shares_to_cgroup2(cpu.shares[1]) ELSE @,
                 !.quota = UnitQuota(cpu),
                 !.period = IF cpu.period # <<>> /\ cpu.period[1] > 0 THEN cpu.period[1] ELSE DefaultPeriod]

\* CpuSet::apply asks for a recent systemd before it looks at the request
CpuSetRefused(cpu) ==
    version <= 243 \/ \E opt \in {cpu.cpus, cpu.mems} : opt # <<>> /\ BitmaskRefuses(opt[1])
CpuSetProperties(props, cpu) ==
    [props EXCEPT !.cpus = IF cpu.cpus # <<>> THEN WireMask(to_bitmask(cpu.cpus[1])) ELSE @,
                  !.mems = IF cpu.mems # <<>> THEN WireMask(to_bitmask(cpu.mems[1])) ELSE @]

\* Unified::apply: the keys it knows; "max" is no number; a weight is converted like shares
UnifiedRefused(unified) ==
    \E key \in DOMAIN unified :
        \/ MalformedName(key)
        \/ key = "cpu.max" /\ unified[key].quota = NoQuota
        \/ key \in {"cpuset.cpus", "cpuset.mems"} /\ (version <= 243 \/ BitmaskRefuses(unified[key]))
UnifiedProperties(props, unified) ==
    LET given(key) == key \in DOMAIN unified IN
    [props EXCEPT
        !.weight = IF given("cpu.weight") THEN convert_shares_to_cgroup2(unified["cpu.weight"]) ELSE @,
        !.quota  = IF given("cpu.max") THEN unified["cpu.max"].quota ELSE @,
        !.period = IF given("cpu.max") /\ unified["cpu.max"].period # <<>>
                   THEN unified["cpu.max"].period[1] ELSE @,
        !.cpus = IF given("cpuset.cpus") THEN WireMask(to_bitmask(unified["cpuset.cpus"])) ELSE @,
        !.mems = IF given("cpuset.mems") THEN WireMask(to_bitmask(unified["cpuset.mems"])) ELSE @]

\* Manager::apply: every controller, unified last, then one SetUnitProperties call.  A
\* request without a cpu section skips the cpu and cpuset controllers.
ApplyUnit(cpu, unified) ==
    LET given == cpu # NoCpu
        props == IF given THEN CpuSetProperties(CpuProperties(cpu), cpu) ELSE unit
    IN  CASE given /\ ~RealtimeRefused(cpu) /\ DividesByZero(cpu) -> [props |-> unit, result |-> "panic"]
          [] \/ given /\ (RealtimeRefused(cpu) \/ CpuSetRefused(cpu))
             \/ UnifiedRefused(unified) -> [props |-> unit, result |-> "error"]
          [] OTHER -> [props |-> UnifiedProperties(props, unified), result |-> "ok"]

-----------------------------------------------------------------------------
Init ==
    /\ v1 = [shares |-> 1024, quota |-> NoQuota, period |-> DefaultPeriod, burst |-> 0, idle |-> 0,
             rt_runtime |-> 0, rt_period |-> SecUsec]
    /\ v2 = ("cpu.weight" :> 100 @@ "cpu.max" :> [quota |-> NoQuota, period |-> DefaultPeriod] @@
             "cpu.max.burst" :> 0 @@ "cpu.idle" :> 0 @@ "cpuset.cpus" :> {} @@ "cpuset.mems" :> {})
    /\ unit = [weight |-> 100, quota |-> NoQuota, period |-> DefaultPeriod, cpus |-> <<>>, mems |-> <<>>]
    /\ last = [cpu |-> NoCpu, unified |-> <<>>, v1 |-> "none", v2 |-> "none", unit |-> "none"]
    /\ version \in SystemdVersions
    /\ applies = 0

Apply(cpu, unified) ==
    /\ applies < MaxApplies
    /\ \E order \in SetToAllKPermutations(DOMAIN unified) :
        /\ Len(order) = Cardinality(DOMAIN unified)
        /\ LET r2 == ApplyV2(cpu, unified, order)
               ru == ApplyUnit(cpu, unified)
           IN  /\ v1' = ApplyV1(cpu)
               /\ v2' = r2.files
               /\ unit' = ru.props
               /\ last' = [cpu |-> cpu, unified |-> unified, v1 |-> "ok",
                           v2 |-> IF r2.ok THEN "ok" ELSE "error", unit |-> ru.result]
    /\ applies' = applies + 1
    /\ UNCHANGED version

Next == \E cpu \in CpuRequests, unified \in Unifieds : Apply(cpu, unified)

Spec == Init /\ [][Next]_vars

-----------------------------------------------------------------------------
(* Properties *)

TypeOK ==
    /\ v1.quota \in Int /\ v1.period > 0 /\ v1.shares > 0
    /\ v2["cpu.weight"] \in 1..10000 /\ v2["cpu.max"].period > 0
    /\ unit.weight \in 0..10000 /\ unit.period \in Nat
    /\ applies \in 0..MaxApplies

\* External: the quota systemd writes to cpu.max for the unit
UnitCpuMaxQuota == IF unit.quota = NoQuota THEN NoQuota ELSE (unit.quota * unit.period) \div SecUsec

\* The same first request through the v2 files and through systemd, when both accept it,
\* leaves the same cpu weight, period, cpus and memory nodes in force, and the same quota up
\* to the microsecond that CPUQuotaPerSecUSec rounds away.  Requests with unified entries
\* are left out: v2 writes their text as it is, and the unit takes a cpu.weight for shares.
ManagersAgree ==
    applies = 1 /\ last.v2 = "ok" /\ last.unit = "ok" /\ last.unified = <<>> =>
        /\ v2["cpu.weight"] = unit.weight /\ v2["cpu.max"].period = unit.period
        /\ MaskSet(unit.cpus) = v2["cpuset.cpus"] /\ MaskSet(unit.mems) = v2["cpuset.mems"]
        /\ IF v2["cpu.max"].quota = NoQuota THEN UnitCpuMaxQuota = NoQuota
           ELSE v2["cpu.max"].quota - UnitCpuMaxQuota \in {0, 1}

\* An update leaves alone what it does not name: in the v1 and in the v2 files the quota, the
\* period and the weight survive a request without them, although v2 keeps quota and period
\* in one file.  A request is one step: nobody else writes the files while it is applied.
\* The unit is left out: a request with a cpu section sets its quota and period anew.
UnnamedIsKept ==
    [][ LET cpu == last'.cpu IN
        /\ \A f \in CpuFields : cpu[f] = <<>> => v1'[f] = v1[f]
        /\ last'.unified = <<>> =>
              /\ cpu.quota = <<>> => v2'["cpu.max"].quota = v2["cpu.max"].quota
              /\ cpu.period = <<>> => v2'["cpu.max"].period = v2["cpu.max"].period
              /\ cpu.shares = <<>> => v2'["cpu.weight"] = v2["cpu.weight"] ]_vars

=============================================================================
