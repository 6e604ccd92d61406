---------------------------- MODULE CgroupStats ----------------------------
(***************************************************************************)
(* `youki events`: the runtime reads the statistics files of a container's *)
(* cgroup one after the other, parses each and prints one report, once or  *)
(* over and over, while the container runs, its counters move, it exits    *)
(* and somebody deletes it.                                                *)
(*                                                                         *)
(* A file is a pair <<prefix, leaf>>, and <<"hugetlb", leaf, page size,    *)
(* reservation family or not>> for huge pages.                             *)
(***************************************************************************)
EXTENDS Integers, Sequences, FiniteSets, FiniteSetsExt, SequencesExt, TLC

CONSTANTS
    Cpus,        \* number of cores
    TickUs,      \* microseconds in one USER_HZ tick of cpuacct.stat
    MaxMoves,    \* bound: kernel counter changes explored
    Setups       \* [version, features, mounted, page] the host may have

VARIABLES
    setup,    \* the host: cgroup version, kernel features, v1 hierarchies
    k,        \* the kernel's counters of the cgroup
    exists,   \* the cgroup directory is there
    exited,   \* the container's processes are gone
    moves,    \* counter changes so far
    pc,       \* "idle", "reading" or "ended"
    oneshot,  \* the --stats flag
    todo,     \* controllers whose statistics are not read yet
    files,    \* files the current controller still reads
    rep,      \* the report being filled in
    printed,  \* the last report printed, <<>> before the first
    start,    \* history: the counters when the report was begun
    failed    \* stats returned an error

vars == <<setup, k, exists, exited, moves, pc, oneshot, todo, files, rep,
          printed, start, failed>>

Has(feature) == feature \in setup.features

-----------------------------------------------------------------------------
(* The kernel: its counters and the files there are.                       *)

Core == 1 .. Cpus
KernelInit ==
    [user |-> [c \in Core |-> 0], sys |-> [c \in Core |-> 0], mem |-> 0, peak |-> 0,
     swap |-> 0, msPeak |-> 0, swPeak |-> 0, fails |-> 0, huge |-> 0, rsvd |-> 0,
     bytes |-> 0]

Total(f) == FoldFunction(+, 0, f)
Larger(a, b) == IF a > b THEN a ELSE b

\* How the hugetlb controller names a page size given in kB (mem_fmt).
MemFmt(kb) ==
    IF kb >= 1048576 THEN <<kb \div 1048576, "GB">>
    ELSE IF kb >= 1024 THEN <<kb \div 1024, "MB">> ELSE <<kb, "KB">>

\* The files of this host.
Present(f) ==
    exists /\ CASE f[1] = "hugetlb" -> f[3] = MemFmt(setup.page) /\ (f[4] => Has("rsvd"))
                [] f[1] = "memory.memsw" -> Has("swap")
                [] f[1] = "memory.swap" -> Has("swap") /\ (f[2] = "peak" => Has("peak"))
                [] f[1] = "memory" /\ f[2] = "peak" -> Has("peak")
                [] f[2] = "pressure" -> Has("psi")
                [] f[2] = "weight" -> Has("weight")
                [] OTHER -> TRUE

-----------------------------------------------------------------------------
(* What the parsers make of a file that is there; the kernel's own files   *)
(* are well formed.                                                        *)

\* parse_single_value: the usage, the peak or the failures in a file.
ParseSingleValue(f) ==
    CASE f[2] \in {"usage_in_bytes", "current"} ->
            CASE f[1] = "memory" -> k.mem
              [] f[1] = "memory.memsw" -> k.mem + k.swap
              [] f[1] = "memory.swap" -> k.swap
              [] f[1] = "hugetlb" -> IF f[4] THEN k.rsvd ELSE k.huge
              [] OTHER -> 0
      [] f[2] \in {"max_usage_in_bytes", "peak"} ->
            CASE f[1] = "memory" -> k.peak
              [] f[1] = "memory.memsw" -> k.msPeak
              [] f[1] = "memory.swap" -> k.swPeak
              [] f[1] = "hugetlb" -> IF f[4] THEN k.rsvd ELSE k.huge
              [] OTHER -> 0
      [] f[2] = "failcnt" -> IF f[1] = "memory" THEN k.fails ELSE 0

\* parse_flat_keyed_data: v1 counts ticks in cpuacct.stat, v2 microseconds in cpu.stat.
ParseFlatKeyedData(f) ==
    CASE f = <<"cpuacct", "stat">> ->
            [user |-> Total(k.user) \div TickUs, system |-> Total(k.sys) \div TickUs]
      [] f = <<"cpu", "stat">> ->
            [usage_usec |-> Total(k.user) + Total(k.sys),
             user_usec |-> Total(k.user), system_usec |-> Total(k.sys)]
      [] f = <<"memory", "events">> -> [oom |-> k.fails]

\* parse_nested_keyed_data: the bytes of the device in io.stat.
ParseNestedKeyedData == [rbytes |-> k.bytes, wbytes |-> k.bytes]

\* parse_blkio_file: the line of the sum is passed over.
ParseBlkioFile == {<<"Read", k.bytes>>, <<"Write", k.bytes>>}

\* extract_page_size: the moniker of hugepages-<kb>kB.
ExtractPageSize(kb) ==
    IF kb >= 1048576 THEN <<kb \div 1048576, "GB">>
    ELSE IF kb >= 1024 THEN <<kb \div 1024, "MB">> ELSE <<kb, "KB">>

\* supported_page_sizes: the host's one page size.
SupportedPageSizes == {ExtractPageSize(setup.page)}

-----------------------------------------------------------------------------
(* Which files each controller reads, in the order it reads them.          *)

Named(p, leaves) == [i \in DOMAIN leaves |-> <<p, leaves[i]>>]
Prefixed(leaves) == [i \in DOMAIN leaves |-> <<"hugetlb", leaves[i], CHOOSE s \in SupportedPageSizes : TRUE, TRUE>>]

(* mutant: the peak is read before the usage *)
MemoryDataV1_peak_first(p) ==
    Named(p, <<"max_usage_in_bytes", "usage_in_bytes", "limit_in_bytes", "failcnt">>)

MemoryDataV1(p) ==
    Named(p, <<"usage_in_bytes", "max_usage_in_bytes", "limit_in_bytes", "failcnt">>)

MemoryDataV2(p) == Named(p, <<"current", "max", "peak", "events">>)

MemoryStatsV1 ==
    MemoryDataV1("memory") \o MemoryDataV1("memory.memsw") \o MemoryDataV1("memory.kmem")
    \o MemoryDataV1("memory.kmem.tcp") \o Named("memory", <<"use_hierarchy", "stat">>)

MemoryStatsV2 ==
    MemoryDataV2("memory") \o MemoryDataV2("memory.swap") \o Named("memory", <<"stat", "pressure">>)

HugeTlbStatsV1 == Prefixed(<<"usage_in_bytes", "max_usage_in_bytes", "failcnt">>)
HugeTlbStatsV2 == Prefixed(<<"events", "current">>)

CpuAcctStats == Named("cpuacct", <<"stat", "usage", "usage_all", "usage_percpu">>)

ThrottlingPolicyStats == Named("blkio", <<"throttle.io_service_bytes", "throttle.io_serviced">>)

WeightDivisionPolicyStats ==
    Named("blkio", <<"time_recursive", "sectors_recursive", "io_service_bytes_recursive",
                     "io_serviced_recursive", "io_service_time_recursive",
                     "io_wait_time_recursive", "io_queued_recursive", "io_merged_recursive">>)

\* Blkio::stats chooses the policy by the presence of blkio.weight.
BlkioStats ==
    IF Present(<<"blkio", "weight">>) THEN WeightDivisionPolicyStats
    ELSE ThrottlingPolicyStats

CpuStatsV1 == Named("cpu", <<"stat">>)
CpuStatsV2 == Named("cpu", <<"stat", "pressure">>)
IoStats == Named("io", <<"stat", "pressure">>)
PidStats == Named("pids", <<"current", "max">>)

FilesOf(c) ==
    LET v1 == setup.version = 1
    IN  CASE c = "cpu" -> IF v1 THEN CpuStatsV1 ELSE CpuStatsV2
          [] c = "cpuacct" -> CpuAcctStats
          [] c = "hugetlb" -> IF v1 THEN HugeTlbStatsV1 ELSE HugeTlbStatsV2
          [] c = "blkio" -> BlkioStats
          [] c = "io" -> IoStats
          [] c = "memory" -> IF v1 THEN MemoryStatsV1 ELSE MemoryStatsV2
          [] c = "pids" -> PidStats

-----------------------------------------------------------------------------
(* What a file puts in the report.                                         *)

\* Stats::default(), the fields the properties tell apart.
StatsDefault ==
    [total |-> 0, user |-> 0, kernel |-> 0, perUser |-> <<>>, perKernel |-> <<>>,
     perTotal |-> <<>>, serviceBytes |-> {},
     usage |-> [p \in {"memory", "swap", "kmem", "tcp", "hugetlb"} |-> 0],
     maxUsage |-> [p \in {"memory", "swap", "kmem", "tcp", "hugetlb"} |-> 0],
     failCount |-> [p \in {"memory", "swap", "kmem", "tcp", "hugetlb"} |-> 0]]

Kind(p) ==
    CASE p = "memory" -> "memory" [] p \in {"memory.memsw", "memory.swap"} -> "swap"
      [] p = "memory.kmem" -> "kmem" [] p = "memory.kmem.tcp" -> "tcp" [] p = "hugetlb" -> "hugetlb"

\* Cpu::stats of v2, which scales microseconds.
FillCpu(t) ==
    [rep EXCEPT !.total = 1000 * t.usage_usec,
                !.user = 1000 * t.user_usec, !.kernel = 1000 * t.system_usec]

\* get_total_cpu_usage: cpuacct.stat, as it is, then the nanoseconds of cpuacct.usage.
FillTotalCpuUsage(f) ==
    IF f[2] = "usage" THEN [rep EXCEPT !.total = 1000 * (Total(k.user) + Total(k.sys))]
    ELSE LET t == ParseFlatKeyedData(f)
         IN  [rep EXCEPT !.user = t.user, !.kernel = t.system]

\* get_per_core_usage: cpuacct.usage_all, then usage_percpu, all in nanoseconds.
FillPerCoreUsage(f) ==
    IF f[2] = "usage_percpu"
    THEN [rep EXCEPT !.perTotal = [c \in Core |-> 1000 * (k.user[c] + k.sys[c])]]
    ELSE [rep EXCEPT !.perUser = [c \in Core |-> 1000 * k.user[c]],
                     !.perKernel = [c \in Core |-> 1000 * k.sys[c]]]

\* Io::stats: the bytes of every device.
FillIo(t) == [rep EXCEPT !.serviceBytes = {<<"read", t.rbytes>>, <<"write", t.wbytes>>}]

\* get_memory_data and the hugetlb files of one page size.
FillMemoryData(f) ==
    LET at == Kind(f[1])
    IN  CASE f[2] \in {"usage_in_bytes", "current"} -> [rep EXCEPT !.usage[at] = ParseSingleValue(f)]
          [] f[2] \in {"max_usage_in_bytes", "peak"} -> [rep EXCEPT !.maxUsage[at] = ParseSingleValue(f)]
          [] f[2] = "failcnt" -> [rep EXCEPT !.failCount[at] = ParseSingleValue(f)]
          [] f = <<"memory", "events">> -> [rep EXCEPT !.failCount[at] = ParseFlatKeyedData(f).oom]
          [] OTHER -> rep

\* The limits, the pressure, the pids and the other numbers a report shows are read in
\* their turn, and not kept.
Fill(f) ==
    CASE f = <<"cpu", "stat">> /\ setup.version = 2 -> FillCpu(ParseFlatKeyedData(f))
      [] f[1] = "cpuacct" /\ f[2] \in {"stat", "usage"} -> FillTotalCpuUsage(f)
      [] f[1] = "cpuacct" /\ f[2] \notin {"stat", "usage"} -> FillPerCoreUsage(f)
      [] f = <<"io", "stat">> -> FillIo(ParseNestedKeyedData)
      [] f[2] \in {"throttle.io_service_bytes", "io_service_bytes_recursive"} ->
            [rep EXCEPT !.serviceBytes = ParseBlkioFile]
      [] f[1] \in {"memory", "memory.memsw", "memory.swap", "memory.kmem", "memory.kmem.tcp", "hugetlb"} ->
            FillMemoryData(f)
      [] OTHER -> rep

-----------------------------------------------------------------------------
Controllers == IF setup.version = 1 THEN setup.mounted
               ELSE {"cpu", "hugetlb", "io", "memory", "pids"}

Init ==
    /\ setup \in Setups /\ oneshot \in BOOLEAN
    /\ k = KernelInit /\ exists = TRUE /\ exited = FALSE /\ moves = 0
    /\ pc = "idle" /\ todo = {} /\ files = <<>> /\ rep = StatsDefault
    /\ printed = <<>> /\ start = KernelInit /\ failed = FALSE

\* The container runs: one counter, or a counter and its peak, moves.  Only the
\* counters of a controller that is read are moved.
KernelStep(c, new) ==
    /\ ~exited /\ moves < MaxMoves /\ c \cap Controllers # {}
    /\ k' = new /\ moves' = moves + 1
    /\ UNCHANGED <<setup, exists, exited, pc, oneshot, todo, files, rep, printed, start, failed>>

CpuTime == IF setup.version = 1 THEN {"cpuacct"} ELSE {"cpu"}

RunOnCore ==
    \E c \in Core : \/ KernelStep(CpuTime, [k EXCEPT !.user[c] = @ + TickUs])
                    \/ KernelStep(CpuTime, [k EXCEPT !.sys[c] = @ + 1])

Allocate == KernelStep({"memory"}, [k EXCEPT !.mem = @ + 1, !.peak = Larger(@, k.mem + 1),
                                 !.msPeak = Larger(@, k.mem + k.swap + 1)])
Free == k.mem > 0 /\ KernelStep({"memory"}, [k EXCEPT !.mem = @ - 1])
SwapOut == k.mem > 0 /\ KernelStep({"memory"}, [k EXCEPT !.mem = @ - 1, !.swap = @ + 1,
                                             !.swPeak = Larger(@, k.swap + 1)])
HitLimit == KernelStep({"memory"}, [k EXCEPT !.fails = @ + 1])
ReserveHuge == KernelStep({"hugetlb"}, [k EXCEPT !.rsvd = @ + 1])
FaultHuge == k.huge < k.rsvd /\ KernelStep({"hugetlb"}, [k EXCEPT !.huge = @ + 1])
DoIo == KernelStep({"blkio", "io"}, [k EXCEPT !.bytes = @ + 1])

\* The container's last process exits, and the cgroup is removed by a delete.
Exit == ~exited /\ exited' = TRUE
        /\ UNCHANGED <<setup, k, exists, moves, pc, oneshot, todo, files, rep, printed, start, failed>>
RemoveCgroup == exited /\ exists /\ exists' = FALSE
        /\ UNCHANGED <<setup, k, exited, moves, pc, oneshot, todo, files, rep, printed, start, failed>>

\* Container::events, and each turn of its loop: stats starts from the default
\* report.  The status was checked once, before the first turn.
Events ==
    /\ pc = "idle" /\ (printed = <<>> => ~exited)
    /\ pc' = "reading" /\ todo' = Controllers /\ files' = <<>>
    /\ rep' = StatsDefault /\ start' = k
    /\ UNCHANGED <<setup, k, exists, exited, moves, oneshot, printed, failed>>

\* The status check fails: the command reports an incorrect status.
EventsRefused ==
    /\ pc = "idle" /\ printed = <<>> /\ exited
    /\ pc' = "ended"
    /\ UNCHANGED <<setup, k, exists, exited, moves, oneshot, todo, files, rep, printed, start, failed>>

\* v1 walks a hash map, v2 the fixed CONTROLLER_TYPES.
V2Order == <<"cpu", "hugetlb", "io", "memory", "pids">>
MayBeNext(c) == setup.version = 2 =>
    \A d \in todo : \E i, j \in 1 .. 5 : V2Order[i] = c /\ V2Order[j] = d /\ i <= j

NextController ==
    /\ pc = "reading" /\ files = <<>>
    /\ \E c \in todo :
        /\ MayBeNext(c)
        /\ todo' = todo \ {c} /\ files' = FilesOf(c)
    /\ UNCHANGED <<setup, k, exists, exited, moves, pc, oneshot, rep, printed, start, failed>>

\* The first file of a page size falls back to the family without reservations;
\* memory.peak may be missing; every other missing file is an error.
FallsBack(f) == f[1] = "hugetlb" /\ f[2] \in {"usage_in_bytes", "events"} /\ f[4]
MayBeMissing(f) == f[2] = "peak"

ReadFile ==
    /\ pc = "reading" /\ files # <<>>
    /\ LET f == Head(files)
       IN  \/ /\ Present(f)
              /\ rep' = Fill(f) /\ files' = Tail(files) /\ UNCHANGED <<pc, failed>>
           \/ /\ ~Present(f) /\ FallsBack(f)
              /\ files' = [i \in DOMAIN files |-> [files[i] EXCEPT ![4] = FALSE]]
              /\ UNCHANGED <<pc, rep, failed>>
           \/ /\ ~Present(f) /\ MayBeMissing(f)
              /\ files' = Tail(files) /\ UNCHANGED <<pc, rep, failed>>
           \/ /\ ~Present(f) /\ ~FallsBack(f) /\ ~MayBeMissing(f)
              /\ pc' = "ended" /\ failed' = TRUE /\ UNCHANGED <<files, rep>>
    /\ UNCHANGED <<setup, k, exists, exited, moves, oneshot, todo, printed, start>>

\* The report is printed; without --stats the command sleeps and starts again.
PrintReport ==
    /\ pc = "reading" /\ files = <<>> /\ todo = {}
    /\ printed' = <<rep>> /\ pc' = IF oneshot THEN "ended" ELSE "idle"
    /\ UNCHANGED <<setup, k, exists, exited, moves, oneshot, todo, files, rep, start, failed>>

Reader == Events \/ EventsRefused \/ NextController \/ ReadFile \/ PrintReport

Next ==
    \/ RunOnCore \/ Allocate \/ Free \/ SwapOut \/ HitLimit \/ ReserveHuge \/ FaultHuge \/ DoIo
    \/ Exit \/ RemoveCgroup
    \/ Events \/ EventsRefused \/ NextController \/ ReadFile \/ PrintReport

Spec == Init /\ [][Next]_vars /\ WF_vars(Reader)

-----------------------------------------------------------------------------
TypeOK ==
    /\ setup \in Setups /\ exists \in BOOLEAN /\ exited \in BOOLEAN /\ oneshot \in BOOLEAN
    /\ failed \in BOOLEAN /\ moves \in 0 .. MaxMoves /\ pc \in {"idle", "reading", "ended"}
    /\ todo \subseteq Controllers /\ DOMAIN rep = DOMAIN StatsDefault
    /\ \A i \in DOMAIN files : Len(files[i]) \in {2, 4}

\* A report has just been printed.
JustPrinted == pc # "reading" /\ printed # <<>> /\ ~failed

\* No report shows a usage above its own peak: the kernel keeps usage <= peak at
\* every moment, and get_memory_data and stats_for_page_size read the usage before
\* the peak, of the same family of files, and give up when the cgroup disappears
\* between the two.  A peak the kernel does not offer is reported as 0.
PeakCoversUsage ==
    JustPrinted =>
        \A p \in {"memory", "swap", "hugetlb"} :
            \/ printed[1].usage[p] <= printed[1].maxUsage[p]
            \/ setup.version = 2 /\ (p = "hugetlb" \/ ~Has("peak"))

\* The parts of the cpu time never exceed the whole: get_total_cpu_usage and
\* get_per_core_usage read the itemised file first and the sum after it, while
\* the container keeps running.  Each number is taken in its own unit: the user and
\* kernel times of a v1 report are the ticks of cpuacct.stat, which nobody scales,
\* although "runtime CPU statistics use nanoseconds" (v2/cpu.rs).
CpuPartsWithinTotal ==
    JustPrinted =>
        LET r == printed[1]
            unit == IF setup.version = 1 THEN 1000 * TickUs ELSE 1
        IN  /\ (r.user + r.kernel) * unit <= r.total
            /\ \A c \in DOMAIN r.perUser : r.perUser[c] + r.perKernel[c] <= r.perTotal[c]
            /\ r.perTotal # <<>> => r.total <= Total(r.perTotal)

\* Every cumulative counter of a report lies between its value when stats was
\* called and its value now, for every controller the host has, on both cgroup
\* versions: nothing is stale or lost.  The user and kernel times of a v1 report are
\* ticks, all other times nanoseconds.
ReportIsCurrent ==
    JustPrinted =>
        LET r == printed[1]
            within(low, v, high) == low <= v /\ v <= high
            cpu(x) == 1000 * (Total(x.user) + Total(x.sys))
            part(t) == IF setup.version = 1 THEN Total(t) \div TickUs ELSE 1000 * Total(t)
        IN  /\ CpuTime \cap Controllers # {} =>
                   /\ within(cpu(start), r.total, cpu(k))
                   /\ within(part(start.user), r.user, part(k.user))
                   /\ within(part(start.sys), r.kernel, part(k.sys))
            /\ "memory" \in Controllers =>
                   within(start.fails, r.failCount["memory"], k.fails)
            /\ Controllers \cap {"blkio", "io"} # {} =>
                   /\ Cardinality(r.serviceBytes) = 2
                   /\ \A e \in r.serviceBytes : within(start.bytes, e[2], k.bytes)
            /\ "hugetlb" \in Controllers =>
                   IF Has("rsvd") THEN within(start.rsvd, r.usage["hugetlb"], k.rsvd)
                   ELSE within(start.huge, r.usage["hugetlb"], k.huge)

\* Once the container is deleted, `youki events` ends, although its loop never
\* looks at the container's status again: the next read fails.
EventsEnd == ~exists ~> pc = "ended"

-----------------------------------------------------------------------------
=============================================================================
