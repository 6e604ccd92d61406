--------------------------- MODULE ContainerCreate ---------------------------
(***************************************************************************)
(* How `youki create` and `youki exec` bring a container process to life.  *)
(*                                                                         *)
(* The main process clones an intermediate process, which joins the cgroup *)
(* and the user, time and pid namespaces and clones the init process.      *)
(* The three talk over four one-directional SOCK_SEQPACKET channels that   *)
(* every clone duplicates: a receiver sees end-of-file only when the queue *)
(* is empty and NO process holds a copy of the sending end.  Each step of  *)
(* a child may fail or the child may be killed; the main process then has  *)
(* to notice, give up, and clean up.                                       *)
(***************************************************************************)
EXTENDS Integers, Sequences

CONSTANT Specs   \* the container_args the processes may be started with

Child == {"inter", "init"}
Proc == {"main"} \cup Child

\* The sending end of a channel is named after its receiver, except that the
\* main process receives from each child on a channel of its own.
Chan == {"interMain", "initMain", "inter", "init"}

(***************************************************************************)
(* What the protocol depends on in ContainerArgs: the kind of container,   *)
(* the user and time namespaces (absent, new, or joined by path), the time *)
(* offsets, hooks, network devices, seccomp profile and noNewPrivileges of *)
(* the spec, whether the intermediate is rootless, and as_sibling.         *)
(***************************************************************************)
ContainerArgs ==
    [kind : {"init", "tenant"}, userns : {"none", "new", "path"},
     timens : {"none", "new", "path"}, offsets : {"none", "empty", "some"},
     hooks : BOOLEAN, netDevices : {"none", "empty", "some"},
     seccomp : {"none", "plain", "notify"}, noNewPrivs : {"none", "some"},
     rootless : BOOLEAN, sibling : BOOLEAN]

\* adapt_spec_for_tenant: a tenant joins the namespaces of the init process by
\* path and its rebuilt linux section has no seccomp and no network devices.
TenantArgs(a) ==
    /\ a.userns # "new"
    /\ a.timens # "new"
    /\ a.netDevices = "none"
    /\ a.seccomp = "none"

ASSUME SpecsAssumption ==
    /\ Specs \subseteq ContainerArgs
    /\ \A a \in Specs : a.kind = "tenant" => TenantArgs(a)

MainMsg == {"WriteMapping", "WriteTimeOffsets", "IntermediateReady",
            "HookRequest", "SetupNetworkDeviceReady", "SeccompNotify",
            "InitReady", "ExecFailed", "OtherError"}
ReplyMsg == {"MappingWritten", "TimeOffsetsWritten", "HookDone",
             "MoveNetworkDevice", "SeccompNotifyDone"}
Msg == MainMsg \cup ReplyMsg

\* InitRequest, and what the main process does for its children in all.
InitRequest == {"Hooks", "Network", "Seccomp", "Ready"}
Duty == {"Mapping", "Offsets"} \cup InitRequest

MainPc == {"clone", "close", "map", "time", "drop", "ready", "serve", "wait",
           "record", "cleanup", "kill", "ok", "failed", "uncleaned"}
InterPc == {"none", "start", "userns", "mapAck", "timens", "timeAck", "fork",
            "ready", "closing", "exited"}
InitPc == {"none", "closing", "setup", "hookAck", "pivot", "netAck", "early",
           "earlyAck", "caps", "lateAck", "ready", "closeMain", "notify",
           "started", "payload", "exited"}

VARIABLES
    args,       \* the ContainerArgs all three processes share
    pc,         \* where each process is
    queue,      \* messages sent on each channel and not received yet
    holders,    \* the processes holding a copy of each channel's sender
    cgroup,     \* the children that are members of the container's cgroup
    served,     \* what the main process has done for its children
    pending,    \* pending_requests of the main process's InitRequestSequence
    filtered,   \* has the init process loaded its seccomp filter?
    victims,    \* the pids cleanup read from cgroup.procs
    state,      \* state.json: "Creating", "Created", or "Removed"
    notified,   \* has someone connected to the notify socket?
    surprised   \* the processes that received a message they do not expect

vars == <<args, pc, queue, holders, cgroup, served, pending, filtered,
          victims, state, notified, surprised>>

TypeOK ==
    /\ args \in Specs
    /\ pc \in [Proc -> MainPc \cup InterPc \cup InitPc]
    /\ pc["main"] \in MainPc
    /\ pc["inter"] \in InterPc
    /\ pc["init"] \in InitPc
    /\ queue \in [Chan -> Seq(Msg)]
    /\ holders \in [Chan -> SUBSET Proc]
    /\ cgroup \subseteq Child
    /\ served \subseteq Duty
    /\ pending \subseteq InitRequest
    /\ filtered \in BOOLEAN
    /\ victims \subseteq Child
    /\ state \in {"Creating", "Created", "Removed"}
    /\ notified \in BOOLEAN
    /\ surprised \subseteq Proc

\* create_container_state has saved status Creating; the channels exist and
\* nobody but the main process holds them.
Init ==
    /\ args \in Specs
    /\ pc = [p \in Proc |-> IF p = "main" THEN "clone" ELSE "none"]
    /\ queue = [c \in Chan |-> <<>>]
    /\ holders = [c \in Chan |-> {"main"}]
    /\ cgroup = {}
    /\ served = {}
    /\ pending = {}
    /\ filtered = FALSE
    /\ victims = {}
    /\ state = "Creating"
    /\ notified = FALSE
    /\ surprised = {}

-----------------------------------------------------------------------------
(* Channels and processes. *)

\* recv returns: a message is queued, or every copy of the sender is closed.
Readable(c) == queue[c] # <<>> \/ holders[c] = {}

\* What recv returns; an empty read is the error BrokenChannel.
Received(c) == IF queue[c] = <<>> THEN "BrokenChannel" ELSE Head(queue[c])

Rest(c) == IF queue[c] = <<>> THEN <<>> ELSE Tail(queue[c])

Consume(c) == queue' = [queue EXCEPT ![c] = Rest(c)]
Send(c, m) == queue' = [queue EXCEPT ![c] = Append(@, m)]
Reply(c, d, m) ==
    queue' = [queue EXCEPT ![c] = Rest(c), ![d] = Append(@, m)]

Goto(p, l) == pc' = [pc EXCEPT ![p] = l]

\* Process p closes its copies of the senders of the channels in C.
Close(p, C) ==
    holders' = [c \in Chan |-> IF c \in C THEN holders[c] \ {p} ELSE holders[c]]

\* The processes in P are gone: their descriptors are closed, and they leave
\* the cgroup.
Gone(P) ==
    /\ holders' = [c \in Chan |-> holders[c] \ P]
    /\ cgroup' = cgroup \ P

Errors == {"ExecFailed", "OtherError", "BrokenChannel"}
Note(p, m) == surprised' = IF m \in Errors THEN surprised ELSE surprised \cup {p}

-----------------------------------------------------------------------------
(* The main process. *)

\* UserNamespaceConfig::new is Some for a user namespace without a path.
ExpectsMapping == args.userns = "new"

\* Mutant of ExpectsOffsets: a time namespace joined by path counts as well.
ExpectsOffsetsAnyTimens == args.offsets = "some" /\ args.timens # "none"

\* build_timens_offsets is Some: offsets, and a time namespace without a path.
ExpectsOffsets == args.offsets = "some" /\ args.timens = "new"

\* InitRequestSequence::new and from_requirements.
Requirements ==
    (IF args.kind = "init" /\ args.hooks THEN {"Hooks"} ELSE {})
    \cup (IF args.netDevices = "some" THEN {"Network"} ELSE {})
    \cup (IF args.seccomp = "notify" THEN {"Seccomp"} ELSE {})
    \cup {"Ready"}

Phase(r) == CASE r \in {"Hooks", "Network"} -> 0
              [] r = "Seccomp" -> 1
              [] r = "Ready" -> 2

RequestOf(m) == CASE m = "HookRequest" -> "Hooks"
                  [] m = "SetupNetworkDeviceReady" -> "Network"
                  [] m = "SeccompNotify" -> "Seccomp"
                  [] m = "InitReady" -> "Ready"
                  [] OTHER -> "none"

\* InitRequestSequence::accept: expected, and nothing of an earlier phase is
\* still to come.
Accepts(m) ==
    /\ RequestOf(m) \in pending
    /\ ~ \E r \in pending : Phase(r) < Phase(RequestOf(m))

ReplyTo(r) == CASE r = "Hooks" -> "HookDone"
                [] r = "Network" -> "MoveNetworkDevice"
                [] r = "Seccomp" -> "SeccompNotifyDone"

\* The steps of run_container before the clone, and the clone itself; any of
\* them may fail.
MainClone ==
    /\ pc["main"] = "clone"
    /\ \/ /\ pc' = [pc EXCEPT !["main"] = "close", !["inter"] = "start"]
          /\ holders' = [c \in Chan |-> {"main", "inter"}]
       \/ Goto("main", "cleanup") /\ UNCHANGED holders
    /\ UNCHANGED <<args, queue, cgroup, served, pending, filtered, victims,
                   state, notified, surprised>>

\* Mutant of MainClose: the main process keeps its own copy of a sender.
MainCloseKeepsInterMain ==
    /\ pc["main"] = "close"
    /\ Close("main", {"initMain"})
    /\ Goto("main", IF ExpectsMapping THEN "map"
                    ELSE IF ExpectsOffsets THEN "time" ELSE "drop")
    /\ UNCHANGED <<args, queue, cgroup, served, pending, filtered, victims,
                   state, notified, surprised>>

MainClose ==
    /\ pc["main"] = "close"
    /\ Close("main", {"interMain", "initMain"})
    /\ Goto("main", IF ExpectsMapping THEN "map"
                    ELSE IF ExpectsOffsets THEN "time" ELSE "drop")
    /\ UNCHANGED <<args, queue, cgroup, served, pending, filtered, victims,
                   state, notified, surprised>>

\* Receive one message; anything but the expected one is an error.
MainRecvError(l, c, want) ==
    /\ pc["main"] = l
    /\ Readable(c)
    /\ Received(c) # want
    /\ Consume(c)
    /\ Note("main", Received(c))
    /\ Goto("main", "cleanup")
    /\ UNCHANGED <<args, holders, cgroup, served, pending, filtered, victims,
                   state, notified>>

\* Receive a request of the intermediate process, write its file in /proc
\* (setup_mapping, timens_offsets), and answer.
MainWrite(l, want, duty, answer, next) ==
    /\ pc["main"] = l
    /\ Readable("interMain")
    /\ Received("interMain") = want
    /\ \/ /\ Reply("interMain", "inter", answer)
          /\ served' = served \cup {duty}
          /\ Goto("main", next)
       \/ Consume("interMain") /\ Goto("main", "cleanup") /\ UNCHANGED served
    /\ UNCHANGED <<args, holders, cgroup, pending, filtered, victims, state,
                   notified, surprised>>

MainMap ==
    \/ MainWrite("map", "WriteMapping", "Mapping", "MappingWritten",
                 IF ExpectsOffsets THEN "time" ELSE "drop")
    \/ MainRecvError("map", "interMain", "WriteMapping")

MainTime ==
    \/ MainWrite("time", "WriteTimeOffsets", "Offsets", "TimeOffsetsWritten",
                 "drop")
    \/ MainRecvError("time", "interMain", "WriteTimeOffsets")

\* Nothing more to say to the intermediate process.
MainDrop ==
    /\ pc["main"] = "drop"
    /\ Close("main", {"inter"})
    /\ Goto("main", "ready")
    /\ UNCHANGED <<args, queue, cgroup, served, pending, filtered, victims,
                   state, notified, surprised>>

MainInterReady ==
    \/ /\ pc["main"] = "ready"
       /\ Readable("interMain")
       /\ Received("interMain") = "IntermediateReady"
       /\ Consume("interMain")
       /\ pending' = Requirements
       /\ Goto("main", "serve")
       /\ UNCHANGED <<args, holders, cgroup, served, filtered, victims, state,
                      notified, surprised>>
    \/ MainRecvError("ready", "interMain", "IntermediateReady")

\* One turn of the init request loop: run the hooks, move the network devices
\* or pass the seccomp fd to the listener, and answer.  Each may fail.
MainServe ==
    LET m == Received("initMain")
        r == RequestOf(m)
    IN  /\ pc["main"] = "serve"
        /\ Readable("initMain")
        /\ Accepts(m)
        /\ r # "Ready"
        /\ pending' = pending \ {r}
        /\ \/ /\ Reply("initMain", "init", ReplyTo(r))
              /\ served' = served \cup {r}
              /\ UNCHANGED pc
           \/ Consume("initMain") /\ Goto("main", "cleanup") /\ UNCHANGED served
        /\ UNCHANGED <<args, holders, cgroup, filtered, victims, state,
                       notified, surprised>>

\* InitReady ends the loop, and the sender to the init process is closed.
MainInitReady ==
    /\ pc["main"] = "serve"
    /\ Readable("initMain")
    /\ Received("initMain") = "InitReady"
    /\ Accepts("InitReady")
    /\ Consume("initMain")
    /\ pending' = pending \ {"Ready"}
    /\ served' = served \cup {"Ready"}
    /\ Close("main", {"init"})
    /\ Goto("main", "wait")
    /\ UNCHANGED <<args, cgroup, filtered, victims, state, notified, surprised>>

MainServeError ==
    /\ pc["main"] = "serve"
    /\ Readable("initMain")
    /\ ~ Accepts(Received("initMain"))
    /\ Consume("initMain")
    /\ Note("main", Received("initMain"))
    /\ Goto("main", "cleanup")
    /\ UNCHANGED <<args, holders, cgroup, served, pending, filtered, victims,
                   state, notified>>

\* waitpid of the intermediate process; for a sibling it is ECHILD at once.
MainWait ==
    /\ pc["main"] = "wait"
    /\ pc["inter"] = "exited" \/ args.sibling
    /\ Goto("main", "record")
    /\ UNCHANGED <<args, queue, holders, cgroup, served, pending, filtered,
                   victims, state, notified, surprised>>

\* The rest of run_container: Intel RDT, then status Created is saved (an init
\* container only), and the runtime exits.
MainRecord ==
    /\ pc["main"] = "record"
    /\ state' = IF args.kind = "init" THEN "Created" ELSE state
    /\ Goto("main", "ok")
    /\ Close("main", Chan)
    /\ UNCHANGED <<args, queue, cgroup, served, pending, filtered, victims,
                   notified, surprised>>

MainRecordError ==
    /\ pc["main"] = "record"
    /\ args.kind = "init"
    /\ Goto("main", "cleanup")
    /\ UNCHANGED <<args, queue, holders, cgroup, served, pending, filtered,
                   victims, state, notified, surprised>>

\* create and cleanup_container.  Only an init container is cleaned up:
\* remove() of the cgroup manager reads cgroup.procs ...
MainCleanup ==
    /\ pc["main"] = "cleanup"
    /\ args.kind = "init"
    /\ victims' = cgroup
    /\ Goto("main", "kill")
    /\ UNCHANGED <<args, queue, holders, cgroup, served, pending, filtered,
                   state, notified, surprised>>

\* ... kills every process it read, and the container directory is removed.
MainKill ==
    /\ pc["main"] = "kill"
    /\ pc' = [p \in Proc |-> IF p = "main" THEN "failed"
                             ELSE IF p \in victims THEN "exited" ELSE pc[p]]
    /\ Gone(victims \cup {"main"})
    /\ state' = "Removed"
    /\ UNCHANGED <<args, queue, served, pending, filtered, victims, notified,
                   surprised>>

\* A tenant is not cleaned up.  The cleanup of an init container kills nobody
\* when the cgroup manager cannot be created, which leaves the directory behind,
\* or when remove() fails before its first signal or finds no unit to stop,
\* after which the directory is removed all the same.
MainGiveUp ==
    /\ pc["main"] = "cleanup"
    /\ \/ args.kind = "tenant" /\ Goto("main", "failed") /\ UNCHANGED state
       \/ /\ args.kind = "init"
          /\ Goto("main", "uncleaned")
          /\ state' \in {state, "Removed"}
    /\ Close("main", Chan)
    /\ UNCHANGED <<args, queue, cgroup, served, pending, filtered, victims,
                   notified, surprised>>

Main ==
    \/ MainClone \/ MainClose \/ MainMap \/ MainTime \/ MainDrop
    \/ MainInterReady \/ MainServe \/ MainInitReady \/ MainServeError
    \/ MainWait \/ MainRecord \/ MainRecordError
    \/ MainCleanup \/ MainKill \/ MainGiveUp

-----------------------------------------------------------------------------
(* The intermediate process. *)

\* Mutant of InterCgroup: a refused cgroup is ignored for everyone.
InterCgroupIgnoresError ==
    /\ pc["inter"] = "start"
    /\ cgroup' = cgroup \cup {"inter"} \/ UNCHANGED cgroup
    /\ Goto("inter", "userns")
    /\ UNCHANGED <<args, queue, holders, served, pending, filtered, victims,
                   state, notified, surprised>>

\* apply_cgroups.  A rootless manager leaves the process where it is when the
\* cgroup filesystem refuses it.
InterCgroup ==
    /\ pc["inter"] = "start"
    /\ \/ cgroup' = cgroup \cup {"inter"}
       \/ args.rootless /\ UNCHANGED cgroup
    /\ Goto("inter", "userns")
    /\ UNCHANGED <<args, queue, holders, served, pending, filtered, victims,
                   state, notified, surprised>>

\* Mutant of InterUserns: the acknowledgement of the mapping is not awaited.
InterUsernsNoWait ==
    /\ pc["inter"] = "userns"
    /\ Goto("inter", "timens")
    /\ IF args.userns = "new" THEN Send("interMain", "WriteMapping")
       ELSE UNCHANGED queue
    /\ UNCHANGED <<args, holders, cgroup, served, pending, filtered, victims,
                   state, notified, surprised>>

\* setup_userns: only a namespace without a path asks for a mapping.
InterUserns ==
    /\ pc["inter"] = "userns"
    /\ \/ /\ args.userns = "new"
          /\ Send("interMain", "WriteMapping")
          /\ Goto("inter", "mapAck")
       \/ args.userns # "new" /\ Goto("inter", "timens") /\ UNCHANGED queue
    /\ UNCHANGED <<args, holders, cgroup, served, pending, filtered, victims,
                   state, notified, surprised>>

\* wait_for_mapping_ack and wait_for_time_offsets_ack; an error is reported on
\* interMain and ends the process.
InterAck(l, want, next) ==
    /\ pc["inter"] = l
    /\ Readable("inter")
    /\ IF Received("inter") = want
       THEN /\ Consume("inter")
            /\ Goto("inter", next)
            /\ UNCHANGED <<holders, cgroup, surprised>>
       ELSE /\ Reply("inter", "interMain", "OtherError")
            /\ Note("inter", Received("inter"))
            /\ Goto("inter", "exited")
            /\ Gone({"inter"})
    /\ UNCHANGED <<args, served, pending, filtered, victims, state, notified>>

InterMapAck == InterAck("mapAck", "MappingWritten", "timens")

\* set_id(0, 0), rlimits, then the time namespace and its offsets.
InterTimens ==
    /\ pc["inter"] = "timens"
    /\ LET asks == args.timens = "new" /\ args.offsets = "some"
       IN  \/ /\ asks
              /\ Send("interMain", "WriteTimeOffsets")
              /\ Goto("inter", "timeAck")
           \/ ~asks /\ Goto("inter", "fork") /\ UNCHANGED queue
    /\ UNCHANGED <<args, holders, cgroup, served, pending, filtered, victims,
                   state, notified, surprised>>

InterTimeAck == InterAck("timeAck", "TimeOffsetsWritten", "fork")

\* container_clone_sibling: the init process inherits every descriptor and the
\* cgroup.
InterFork ==
    /\ pc["inter"] = "fork"
    /\ pc' = [pc EXCEPT !["inter"] = "ready", !["init"] = "closing"]
    /\ holders' = [c \in Chan |-> IF "inter" \in holders[c]
                                  THEN holders[c] \cup {"init"} ELSE holders[c]]
    /\ cgroup' = IF "inter" \in cgroup THEN cgroup \cup {"init"} ELSE cgroup
    /\ UNCHANGED <<args, queue, served, pending, filtered, victims, state,
                   notified, surprised>>

InterReady ==
    /\ pc["inter"] = "ready"
    /\ Send("interMain", "IntermediateReady")
    /\ Goto("inter", "closing")
    /\ UNCHANGED <<args, holders, cgroup, served, pending, filtered, victims,
                   state, notified, surprised>>

InterExit ==
    /\ pc["inter"] = "closing"
    /\ Goto("inter", "exited")
    /\ Gone({"inter"})
    /\ UNCHANGED <<args, queue, served, pending, filtered, victims, state,
                   notified, surprised>>

\* Any other step may fail: the clone callback reports it and exits.
InterFail ==
    /\ pc["inter"] \in {"start", "userns", "timens", "fork", "ready"}
    /\ Send("interMain", "OtherError")
    /\ Goto("inter", "exited")
    /\ Gone({"inter"})
    /\ UNCHANGED <<args, served, pending, filtered, victims, state, notified,
                   surprised>>

Inter ==
    \/ InterCgroup \/ InterUserns \/ InterMapAck \/ InterTimens \/ InterTimeAck
    \/ InterFork \/ InterReady \/ InterExit \/ InterFail

-----------------------------------------------------------------------------
(* The init process. *)

InitCloseKeepsInit ==
    /\ pc["init"] = "closing"
    /\ Close("init", {"inter", "interMain"})
    /\ Goto("init", "setup")
    /\ UNCHANGED <<args, queue, cgroup, served, pending, filtered, victims,
                   state, notified, surprised>>

\* The clone callback closes the senders the init process does not use.
InitClose ==
    /\ pc["init"] = "closing"
    /\ Close("init", {"init", "inter", "interMain"})
    /\ Goto("init", "setup")
    /\ UNCHANGED <<args, queue, cgroup, served, pending, filtered, victims,
                   state, notified, surprised>>

\* A step that ends in a request to the main process, or goes on without one.
InitAsk(l, asks, m, wait, next) ==
    /\ pc["init"] = l
    /\ \/ asks /\ Send("initMain", m) /\ Goto("init", wait)
       \/ ~asks /\ Goto("init", next) /\ UNCHANGED queue
    /\ UNCHANGED <<args, holders, cgroup, served, pending, victims, state,
                   notified, surprised>>

\* The clone callback reports a failure of container_init_process on initMain
\* (send fails once that sender is closed) and exits.
InitAwait(l, want, next) ==
    /\ pc["init"] = l
    /\ Readable("init")
    /\ IF Received("init") = want
       THEN /\ Consume("init")
            /\ Goto("init", next)
            /\ UNCHANGED <<holders, cgroup, surprised>>
       ELSE /\ Reply("init", "initMain", "ExecFailed")
            /\ Note("init", Received("init"))
            /\ Goto("init", "exited")
            /\ Gone({"init"})
    /\ UNCHANGED <<args, served, pending, filtered, victims, state, notified>>

\* Mutant of InitSetup: the hooks are requested and not awaited.
InitSetupNoWait ==
    /\ InitAsk("setup", args.kind = "init" /\ args.hooks, "HookRequest",
               "pivot", "pivot")
    /\ UNCHANGED filtered

\* Namespaces and prepare_rootfs, then the hooks of an init container.
InitSetup ==
    /\ InitAsk("setup", args.kind = "init" /\ args.hooks, "HookRequest",
               "hookAck", "pivot")
    /\ UNCHANGED filtered

InitHooksDone == InitAwait("hookAck", "HookDone", "pivot")

\* create_container hooks, pivot_root, console, users, fds, then the network.
InitPivot ==
    /\ InitAsk("pivot", args.netDevices = "some", "SetupNetworkDeviceReady",
               "netAck", "early")
    /\ UNCHANGED filtered

InitNetworkMoved == InitAwait("netAck", "MoveNetworkDevice", "early")

\* initialize_seccomp loads the filter and returns an fd only if it notifies;
\* sync_seccomp sends that fd.
InitFilter(l, now, wait, next) ==
    LET loads == args.seccomp # "none" /\ now
    IN  /\ InitAsk(l, loads /\ args.seccomp = "notify", "SeccompNotify", wait,
                   next)
        /\ filtered' = (filtered \/ loads)

\* Without noNewPrivileges the filter is loaded before capabilities are dropped,
InitEarlyFilter ==
    InitFilter("early", args.noNewPrivs = "none", "earlyAck", "caps")

InitEarlyDone == InitAwait("earlyAck", "SeccompNotifyDone", "caps")

\* Mutant of InitLateFilter: the listener's answer is not awaited.
InitLateFilterNoWait ==
    InitFilter("caps", args.noNewPrivs = "some", "ready", "ready")

\* and with it, after capabilities and cwd, as late as possible.
InitLateFilter ==
    InitFilter("caps", args.noNewPrivs = "some", "lateAck", "ready")

InitLateDone == InitAwait("lateAck", "SeccompNotifyDone", "ready")

InitReady ==
    /\ InitAsk("ready", TRUE, "InitReady", "closeMain", "closeMain")
    /\ UNCHANGED filtered

InitCloseMain ==
    /\ pc["init"] = "closeMain"
    /\ Close("init", {"initMain"})
    /\ Goto("init", "notify")
    /\ UNCHANGED <<args, queue, cgroup, served, pending, filtered, victims,
                   state, notified, surprised>>

\* wait_for_container_start returns, then start_container hooks ...
InitStarted ==
    /\ pc["init"] = "notify"
    /\ notified
    /\ Goto("init", "started")
    /\ UNCHANGED <<args, queue, holders, cgroup, served, pending, filtered,
                   victims, state, notified, surprised>>

\* ... and the payload replaces the process.
InitExec ==
    /\ pc["init"] = "started"
    /\ Goto("init", "payload")
    /\ UNCHANGED <<args, queue, holders, cgroup, served, pending, filtered,
                   victims, state, notified, surprised>>

InitFail ==
    /\ pc["init"] \in {"setup", "pivot", "early", "caps", "ready", "started"}
    /\ IF "init" \in holders["initMain"]
       THEN Send("initMain", "ExecFailed") ELSE UNCHANGED queue
    /\ Goto("init", "exited")
    /\ Gone({"init"})
    /\ UNCHANGED <<args, served, pending, filtered, victims, state, notified,
                   surprised>>

InitProcess ==
    \/ InitClose \/ InitSetup \/ InitHooksDone \/ InitPivot \/ InitNetworkMoved
    \/ InitEarlyFilter \/ InitEarlyDone \/ InitLateFilter \/ InitLateDone
    \/ InitReady \/ InitCloseMain \/ InitStarted \/ InitExec \/ InitFail

-----------------------------------------------------------------------------
(* The environment. *)

\* `youki start` of a created container, or the tenant builder after create,
\* connects to the notify socket.
NotifyContainerStart ==
    /\ IF args.kind = "init" THEN state = "Created" ELSE pc["main"] = "ok"
    /\ ~notified
    /\ notified' = TRUE
    /\ UNCHANGED <<args, pc, queue, holders, cgroup, served, pending, filtered,
                   victims, state, surprised>>

\* A child is killed: by the OOM killer, an operator, or by its own exit.
Crash(p) ==
    /\ pc[p] \notin {"none", "exited"}
    /\ Goto(p, "exited")
    /\ Gone({p})
    /\ UNCHANGED <<args, queue, served, pending, filtered, victims, state,
                   notified, surprised>>

\* Every process is gone.
Finished ==
    /\ pc["main"] \in {"ok", "failed", "uncleaned"}
    /\ \A p \in Child : pc[p] \in {"none", "exited"}

Idle == Finished /\ UNCHANGED vars

Next ==
    \/ Main \/ Inter \/ InitProcess \/ NotifyContainerStart
    \/ \E p \in Child : Crash(p)
    \/ Idle

\* The kernel schedules every process that can run, and hooks and listeners
\* the main process waits for return.
Fairness == WF_vars(Main) /\ WF_vars(Inter) /\ WF_vars(InitProcess)

Spec == Init /\ [][Next]_vars

FairSpec == Spec /\ Fairness
-----------------------------------------------------------------------------
(* Properties. *)

\* No process ever receives a message it is not waiting for: what each child
\* asks for is decided from the spec by other code than what the main process
\* expects (UserNamespaceConfig, build_timens_offsets, InitRequestSequence).
NoSurprise == surprised = {}

\* By the time the init process exists, the main process has written the id
\* mappings and time offsets of the namespaces it is born into (the kernel
\* takes timens_offsets only while the namespace is empty), and the init
\* process is captured by the cgroup unless a rootless manager left it out.
InitBornReady ==
    /\ pc["init"] # "none" => /\ ExpectsMapping => "Mapping" \in served
                              /\ ExpectsOffsets => "Offsets" \in served
    /\ pc["init"] \notin {"none", "exited"} /\ ~args.rootless => "init" \in cgroup

\* Hooks have run and network devices have been moved before the init process
\* puts itself under its seccomp filter (InitPhase).
SetupBeforeFilter ==
    filtered => Requirements \cap {"Hooks", "Network"} \subseteq served

\* When create succeeds, every request the spec calls for was served and no
\* message is left unread on any channel.
CreatedIsComplete ==
    pc["main"] \in {"wait", "record", "ok"} =>
        /\ Requirements \subseteq served
        /\ \A c \in Chan : queue[c] = <<>>

\* A create that fails leaves no child behind and no container directory, even
\* though cleanup kills only the pids it read from cgroup.procs beforehand.  The
\* cleanups that killed nobody, because remove() failed or found nothing to stop,
\* end in "uncleaned": cleanup_container goes on to remove the directory, and a
\* child that had joined the cgroup may outlive it.
FailedCreateLeavesNothing ==
    pc["main"] = "failed" /\ args.kind = "init" /\ ~args.rootless
    => /\ pc["inter"] \in {"none", "exited"}
       /\ pc["init"] \in {"none", "exited"}
       /\ state = "Removed"

\* The main process always returns, whichever child fails or dies where.
MainReturns == <>(pc["main"] \in {"ok", "failed", "uncleaned"})

\* Closing the senders releases the receivers: when the main process has given
\* up, the init process does not go on waiting for its answer, and after a
\* cleanup the intermediate process does not either.  That one keeps a sender of
\* the channel it reads, so that only the kill of the cleanup releases it.
WaitersReleased ==
    /\ pc["main"] \in {"failed", "uncleaned"} ~>
           pc["init"] \notin {"hookAck", "netAck", "earlyAck", "lateAck"}
    /\ pc["main"] = "failed" ~> pc["inter"] \notin {"mapAck", "timeAck"}
=============================================================================
