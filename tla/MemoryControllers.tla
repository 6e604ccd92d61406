------------------------- MODULE MemoryControllers -------------------------
(***************************************************************************)
(* The memory limits of one container, written by the three cgroup         *)
(* managers of libcgroups: the cgroup v1 files, the cgroup v2 files, and   *)
(* the properties of a systemd unit.  A client (container creation or      *)
(* `youki update`) turns the memory section of the OCI resources into      *)
(* writes and makes them one at a time; the container's memory grows and   *)
(* shrinks between them.                                                   *)
(*                                                                         *)
(* An OCI amount is an option, <<>> or <<v>>, with -1 for "unlimited".     *)
(***************************************************************************)
EXTENDS Integers, Sequences, FiniteSets

CONSTANTS
    Clients,        \* processes that apply memory resources
    MaxBytes,       \* the largest finite limit
    Requests,       \* the memory sections clients may apply
    MemoryManagers,       \* the managers in use: "v1", "v2", "systemd"
    MaxApplies      \* bound on the number of applications

\* What a limit file holds when nothing limits it (the kernel's page counter maximum).
Unlimited == MaxBytes + 1

V1Files == {"limit", "memsw", "soft", "oom", "swappiness", "kmem", "kmem_tcp"}
V2Files == {"max", "swap", "low"}

VARIABLES
    mgr,        \* the manager that owns the container's cgroup
    swapon,     \* the kernel accounts swap: memory.swap.max exists
    kern,       \* the contents of the memory files
    usage,      \* memory of the container the kernel cannot reclaim
    client,     \* per client: what it applies, what is left to write, the outcome
    applies     \* applications started so far

memVars == <<mgr, swapon, kern, usage, client, applies>>

NoRequest == [limit |-> <<>>, swap |-> <<>>, reservation |-> <<>>, swappiness |-> <<>>,
              kernel |-> <<>>, kernel_tcp |-> <<>>]

-----------------------------------------------------------------------------
(* The kernel's memory controllers and systemd, as libcgroups uses them.    *)

\* External: v1 keeps limit <= memsw, and cannot shrink a limit below what is in use.
\* v2 reclaims instead.  Without swap accounting the swap files are missing.
KernelWrite(file, val) ==
    LET v == IF val = -1 THEN Unlimited ELSE val IN
    IF v < 0 THEN "EINVAL"
    ELSE IF file \in {"memsw", "swap"} /\ ~swapon THEN "ENOENT"
    ELSE IF file = "limit" /\ swapon /\ v > kern["memsw"] THEN "EINVAL"
    ELSE IF file = "memsw" /\ v < kern["limit"] THEN "EINVAL"
    ELSE IF file \in {"limit", "memsw"} /\ v < usage THEN "EBUSY"
    ELSE "ok"

\* External: what a file holds after a write; "max" and -1 lift the limit.
Stored(val) == IF val = -1 THEN Unlimited ELSE val

\* External: systemd turns the properties of a unit into writes of the v2 files,
\* and ignores a swap limit the kernel does not support.
UnitFiles(properties) ==
    [f \in V2Files |->
        IF f \in DOMAIN properties /\ (f = "swap" => swapon) THEN properties[f] ELSE kern[f]]

-----------------------------------------------------------------------------
\* v1 Memory::get_memory_limit: the limit in force, a number also when there is none
get_memory_limit == kern["limit"]

(* Plans: the writes one application makes, in order.  The file "error"     *)
(* stands for a refusal at that point; a tolerant write may find no file.   *)

Write(file, val) == [file |-> file, val |-> val, tolerant |-> FALSE]
Refuse == << Write("error", 0) >>
IfGiven(opt, plan(_)) == IF opt = <<>> THEN <<>> ELSE plan(opt[1])

\* v1 Memory::set_memory and set_swap: zero means "not asked for"
set_memory(val) == IF val = 0 THEN <<>> ELSE << Write("limit", val) >>
set_swap(val) == IF val = 0 THEN <<>> ELSE << Write("memsw", val) >>

(* mutant: the limit is always written before the swap limit *)
set_memory_and_swap_limit_first(limit, swap, is_updated) == set_memory(limit) \o set_swap(swap)

\* the order of the two writes follows from the limit in force
set_memory_and_swap(limit, swap, is_updated) ==
    (IF is_updated THEN set_swap(swap) \o set_memory(limit) ELSE <<>>)
        \o set_memory(limit) \o set_swap(swap)

\* v1 Memory::apply (limit and swap), given the limit read from the kernel
ApplyLimits(memory, current_limit) ==
    LET limit == memory.limit
        swap  == memory.swap
    IN  CASE limit # <<>> /\ swap # <<>> ->
                set_memory_and_swap(limit[1], swap[1],
                                    swap[1] = -1 \/ current_limit < swap[1])
          [] limit = <<-1>> /\ swap = <<>> -> set_memory_and_swap(-1, -1, TRUE)
          [] limit # <<>> /\ limit # <<-1>> /\ swap = <<>> ->
                set_memory_and_swap(limit[1], 0, current_limit < 0)
          [] limit = <<>> /\ swap # <<>> -> set_memory_and_swap(0, swap[1], FALSE)
          [] OTHER -> <<>>

\* v1 Controller::apply, after the limits: the soft limit, the OOM killer (no caller
\* ever disables it), swappiness, and the kernel memory limits
ApplyOthers(memory) ==
    IfGiven(memory.reservation, LAMBDA r : IF r = 0 THEN <<>> ELSE << Write("soft", r) >>)
      \o << Write("oom", 0) >>
      \o IfGiven(memory.swappiness, LAMBDA s : IF s <= 100 THEN << Write("swappiness", s) >>
                                               ELSE Refuse)
      \o IfGiven(memory.kernel, LAMBDA k : << Write("kmem", k) >>)
      \o IfGiven(memory.kernel_tcp, LAMBDA k : << Write("kmem_tcp", k) >>)

\* v1 Controller::apply
V1Plan(memory, current_limit) == ApplyLimits(memory, current_limit) \o ApplyOthers(memory)

\* v2 Memory::set and set_swap: without swap support, no swap and unlimited swap are harmless
SetV2(file, val) == IF val = 0 THEN <<>> ELSE << Write(file, val) >>
SetSwapV2(val) == << [Write("swap", val) EXCEPT !.tolerant = val \in {-1, 0}] >>

\* The OCI swap is memory plus swap; the v2 file is swap alone.
ConvertedSwap(limit, swap) ==
    IF swap < limit THEN Refuse ELSE IF swap # 0 THEN SetSwapV2(swap - limit) ELSE <<>>

V2Limits(limit, swap) ==
    IF limit < -1 \/ (swap # <<>> /\ swap[1] < -1) THEN Refuse
    ELSE IF swap = <<>> THEN (IF limit = -1 THEN SetSwapV2(-1) ELSE <<>>) \o SetV2("max", limit)
    ELSE IF -1 \in {limit, swap[1]}
    THEN (IF swap[1] # 0 THEN SetSwapV2(swap[1]) ELSE <<>>) \o SetV2("max", limit)
    ELSE ConvertedSwap(limit, swap[1]) \o SetV2("max", limit)

\* v2 Memory::apply
V2Plan(memory) ==
    IF memory.reservation = <<>> /\ memory.limit = <<>> /\ memory.swap = <<>> THEN <<>>
    ELSE (IF memory.limit # <<>> THEN V2Limits(memory.limit[1], memory.swap)
          ELSE IF memory.swap # <<>> THEN Refuse ELSE <<>>)
         \o IfGiven(memory.reservation, LAMBDA r : IF r < -1 THEN Refuse ELSE SetV2("low", r))

-----------------------------------------------------------------------------
(* systemd: the properties of one SetUnitProperties call, or none when the  *)
(* request is refused.                                                      *)

\* Memory::apply_swap
UnitSwap(limit, swap) ==
    CASE (limit = <<-1>> /\ swap = <<>>) \/ swap = <<-1>> -> <<Unlimited>>
      [] limit # <<>> /\ swap # <<>> /\ swap[1] > 0 /\ limit[1] > 0 /\ limit[1] <= swap[1] ->
            <<swap[1] - limit[1]>>
      [] OTHER -> <<>>

UnitSwapRefused(limit, swap) ==
    swap # <<>> /\ (swap[1] = 0 \/ (swap[1] > 0 /\ limit \in {<<>>, <<0>>, <<-1>>}))

UnitRefuses(memory) ==
    \/ \E opt \in {memory.reservation, memory.limit} : opt # <<>> /\ (opt[1] = 0 \/ opt[1] < -1)
    \/ UnitSwapRefused(memory.limit, memory.swap)

\* Memory::apply: MemoryLow, MemoryMax and MemorySwapMax
UnitProperties(memory) ==
    LET given == [low |-> memory.reservation, max |-> memory.limit,
                  swap |-> UnitSwap(memory.limit, memory.swap)]
    IN  [f \in {g \in V2Files : given[g] # <<>>} |-> Stored(given[f][1])]

-----------------------------------------------------------------------------
MemoryInit ==
    /\ mgr \in MemoryManagers
    /\ swapon \in BOOLEAN
    /\ kern = [f \in V1Files \cup V2Files |->
                 IF f \in {"soft", "limit", "memsw", "kmem", "kmem_tcp", "max", "swap"} THEN Unlimited
                 ELSE IF f = "swappiness" THEN 60 ELSE 0]
    /\ usage = 0
    /\ client = [c \in Clients |->
                   [state |-> "idle", req |-> NoRequest, plan |-> <<>>, before |-> kern,
                    error |-> <<>>]]
    /\ applies = 0

\* A file manager reads what it needs and settles on its writes.
BeginFiles(c, memory) ==
    /\ client[c].state = "idle" /\ applies < MaxApplies
    /\ mgr \in {"v1", "v2"}
    /\ client' = [client EXCEPT ![c] =
                    [state |-> "writing", req |-> memory, before |-> kern, error |-> <<>>,
                     plan |-> IF mgr = "v1" THEN V1Plan(memory, get_memory_limit) ELSE V2Plan(memory)]]
    /\ applies' = applies + 1
    /\ UNCHANGED <<mgr, swapon, kern, usage>>

\* The next write, or the refusal the plan has at this point.
NextWrite(c) ==
    /\ client[c].state = "writing" /\ client[c].plan # <<>>
    /\ LET w   == Head(client[c].plan)
           res == IF w.file = "error" THEN "EINVAL" ELSE KernelWrite(w.file, w.val)
           ok  == res = "ok" \/ (res = "ENOENT" /\ w.tolerant)
       IN  /\ kern' = IF res = "ok" THEN [kern EXCEPT ![w.file] = Stored(w.val)] ELSE kern
           /\ client' = [client EXCEPT ![c].plan = Tail(@), ![c].error = IF ok THEN <<>> ELSE <<w.file, res>>,
                                       ![c].state = IF ok THEN "writing" ELSE "failed"]
           /\ usage' = IF w.file = "max" /\ res = "ok" /\ usage > Stored(w.val)
                       THEN Stored(w.val) ELSE usage
    /\ UNCHANGED <<mgr, swapon, applies>>

EndFiles(c) ==
    /\ client[c].state = "writing" /\ client[c].plan = <<>>
    /\ client' = [client EXCEPT ![c].state = "done"]
    /\ UNCHANGED <<mgr, swapon, kern, usage, applies>>

\* The systemd manager collects the properties and hands them over in one call.
ApplyUnit(c, memory) ==
    /\ client[c].state = "idle" /\ applies < MaxApplies
    /\ mgr = "systemd"
    /\ client' = [client EXCEPT ![c] =
                    [state |-> IF UnitRefuses(memory) THEN "failed" ELSE "done", req |-> memory,
                     plan |-> <<>>, before |-> kern, error |-> <<>>]]
    /\ kern' = IF UnitRefuses(memory) THEN kern
               ELSE [f \in DOMAIN kern |->
                       IF f \in V2Files THEN UnitFiles(UnitProperties(memory))[f] ELSE kern[f]]
    /\ usage' = IF usage > kern'["max"] THEN kern'["max"] ELSE usage
    /\ applies' = applies + 1
    /\ UNCHANGED <<mgr, swapon>>

\* The process that applied the request exits; the next update is a new one.
Forget(c) ==
    /\ client[c].state \in {"done", "failed"} /\ applies < MaxApplies
    /\ client' = [client EXCEPT ![c].state = "idle"]
    /\ UNCHANGED <<mgr, swapon, kern, usage, applies>>

\* The container's unreclaimable memory changes, within its limit.
Use(n) ==
    /\ n <= IF mgr = "v1" THEN kern["limit"] ELSE kern["max"]
    /\ n # usage
    /\ usage' = n
    /\ UNCHANGED <<mgr, swapon, kern, client, applies>>

MemoryNext ==
    \/ \E c \in Clients :
          \/ \E r \in Requests : BeginFiles(c, r) \/ ApplyUnit(c, r)
          \/ NextWrite(c) \/ EndFiles(c) \/ Forget(c)
    \/ \E n \in {0, MaxBytes} : Use(n)

MemorySpec == MemoryInit /\ [][MemoryNext]_memVars

-----------------------------------------------------------------------------
(* Properties *)

MemoryTypeOK ==
    /\ mgr \in MemoryManagers /\ swapon \in BOOLEAN
    /\ \A f \in DOMAIN kern : kern[f] \in 0..100 \cup {Unlimited}
    /\ usage \in 0..MaxBytes /\ applies \in 0..MaxApplies
    /\ \A c \in Clients : client[c].state \in {"idle", "writing", "done", "failed"}

\* A request the kernel could honour: a limit no larger than the swap total.
Consistent(r) ==
    /\ r.limit # <<>> /\ r.swap # <<>> /\ r.limit[1] > 0
    /\ r.swap[1] = -1 \/ r.limit[1] <= r.swap[1]

\* The order in which v1 writes the limit and the swap limit (memory.rs set_memory_and_swap,
\* "so it won't fail") works from whatever limits are in force: a consistent request is never
\* refused by the kernel's validation, only for want of memory.
ConsistentUpdateSucceeds ==
    \A c \in Clients :
        mgr = "v1" /\ Consistent(client[c].req) =>
            client[c].error \notin {<<"limit", "EINVAL">>, <<"memsw", "EINVAL">>}

\* What an application that returned Ok leaves in force is what the OCI section asks for,
\* whichever manager wrote it: the memory limit, and memory plus swap together.
LandsAsAsked ==
    \A c \in Clients :
        LET r == client[c].req IN
        client[c].state = "done" /\ Consistent(r) /\ swapon =>
            IF mgr = "v1" THEN kern["limit"] = r.limit[1] /\ kern["memsw"] = Stored(r.swap[1])
            ELSE /\ kern["max"] = r.limit[1]
                 /\ kern["swap"] = IF r.swap[1] = -1 THEN Unlimited ELSE r.swap[1] - r.limit[1]

\* Together: what `youki update` promises of the memory section.
UpdateLands == ConsistentUpdateSucceeds /\ LandsAsAsked
=============================================================================
