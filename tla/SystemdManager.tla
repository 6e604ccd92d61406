--------------------------- MODULE SystemdManager ---------------------------
(***************************************************************************)
(* The systemd cgroup manager (libcgroups/src/systemd/manager.rs) and the  *)
(* D-Bus client below it: connecting with retries, and add_task, apply and *)
(* remove as sequences of method calls on one socket.  Messages are        *)
(* records here; DBusConnection has their bytes.  systemd, which answers   *)
(* calls in order and runs jobs after it has answered, and the kernel's    *)
(* cgroup v2 tree are external.                                            *)
(***************************************************************************)
EXTENDS Naturals, Sequences, FiniteSets

CONSTANTS
    Programs,        \* what managers are created for: the components of the
                     \* parent slice's name, the cgroup below the unit (exec
                     \* --cgroup) or <<>>, and the operations
    Buses,           \* subset of {"system", "session"}
    PrivateSocket,   \* we are root and /run/systemd/private exists
    LateReplies,     \* whether recv() may also time out after Manager::new():
                     \* a set of BOOLEAN
    MaxRetries,      \* CONNECT_MAX_RETRIES
    MaxPolls,        \* polls until cgroup_wait_timeout_duration
    MaxDisturbances  \* units that others stop behind our back

VARIABLES
    bus, parent, sub, sdPc, retry, sdTodo, outcome,   \* the manager and its caller
    late,                            \* replies may come late
    serial, queue, inbox,            \* the current connection
    polls, sdLevel,                    \* the two loops
    unit, members, joined,           \* systemd's unit and its processes
    enabled, disturbances,
    tookOwn, stopped                 \* history: replies taken, StopUnit served

conn == <<serial, queue, inbox>>
systemd == <<unit, members, joined, disturbances>>
loops == <<polls, sdLevel>>
sdVars == <<bus, parent, sub, late, sdPc, retry, sdTodo, outcome, conn, loops, systemd, enabled,
          tookOwn, stopped>>

-----------------------------------------------------------------------------
(* Paths. *)

\* expand_slice(): test-a-b.slice is test.slice/test-a.slice/test-a-b.slice.
\* A name is the sequence of its components, a path a sequence of names.
ExpandSlice(slice) ==
    IF slice = <<"">> THEN <<>>          \* "-.slice"
    ELSE [i \in 1..Len(slice) |-> SubSeq(slice, 1, i)]

InvalidSlice(slice) == slice = <<>> \/ (Len(slice) > 1 /\ \E i \in 1..Len(slice) : slice[i] = "")

\* construct_cgroups_path(), below the delegation boundary.
CgroupsPath == ExpandSlice(parent) \o <<<<"unit">>>> \o sub

\* The level of the unit in that path, and the last one; 0 is the boundary.
UnitLevel == Len(ExpandSlice(parent)) + 1
LastLevel == Len(CgroupsPath)

-----------------------------------------------------------------------------
(* The connection. *)

Members == {"ControlGroup", "GetUnit", "StartTransientUnit", "AttachProcessesToUnit",
            "Version", "SetUnitProperties", "StopUnit"}

\* The signatures of systemd's replies, and those the proxy expects.
ReplySignature(member) ==
    CASE member \in {"GetUnit", "StartTransientUnit", "StopUnit"} -> "o"
      [] member \in {"ControlGroup", "Version"} -> "v"
      [] OTHER -> ""

Expected(member) == IF ReplySignature(member) = "o" THEN "s" ELSE ReplySignature(member)

\* method_call() on the reply: an object path will do for a string.
Accept(member, reply) ==
    CASE ~reply.ok -> "error"
      [] reply.ok /\ Expected(member) = "" -> "ok"
      [] OTHER -> IF reply.signature = Expected(member)
                     \/ (Expected(member) = "s" /\ reply.signature = "o")
                  THEN "ok" ELSE "error"     \* or a panic, for a reply without body

Call(member) ==
    /\ serial' = serial + 1
    /\ queue' = Append(queue, [serial |-> serial + 1, member |-> member])
    /\ UNCHANGED inbox

\* What method_call(member) returns: the first message in the socket is the
\* reply; when there is none for RECV_TIMEOUT_SECS recv() fails with EAGAIN.
Receive(member, out, mayTimeOut) ==
    \/ /\ inbox # <<>>
       /\ inbox' = Tail(inbox)
       /\ out = Accept(member, Head(inbox))
       /\ tookOwn' = (tookOwn /\ Head(inbox).serial = serial)
       /\ UNCHANGED <<serial, queue>>
    \/ /\ inbox = <<>>
       /\ mayTimeOut
       /\ out = "EAGAIN"
       /\ UNCHANGED <<conn, tookOwn>>

Results == {"ok", "error", "EAGAIN"}

\* A new socket: nothing sent or received on the old one is seen again.
NewConnection ==
    /\ serial' = 1
    /\ queue' = <<>>
    /\ inbox' = <<>>

-----------------------------------------------------------------------------
(* Manager::new(). *)

SystemdInit ==
    /\ bus \in Buses
    /\ late \in LateReplies
    /\ sdPc = "connect"
    /\ retry = 0
    /\ \E program \in Programs : 
         sdTodo = program.ops /\ parent = program.parent /\ sub = program.sub
    /\ outcome = [op \in {"add_task", "apply", "remove"} |-> "none"]
    /\ serial = 0 /\ queue = <<>> /\ inbox = <<>>
    /\ polls = 0 /\ sdLevel = 0
    /\ unit \in {"none", "active"}
    /\ Head(sdTodo) = "apply" => unit = "active"   \* youki update
    /\ members = IF unit = "active" THEN {"init"} ELSE {}
    /\ joined = {}
    /\ enabled = {}
    /\ disturbances = 0
    /\ tookOwn = TRUE /\ stopped = FALSE

\* One attempt of the loop failed: backoff and reconnect, or give up.
Retry ==
    /\ retry' = retry + 1
    /\ sdPc' = IF retry + 1 = MaxRetries THEN "failed" ELSE "connect"

\* DbusConnection::new() on one socket: connect, auth and, on a bus, hello.
Attempts == {"ok", "EAGAIN", "error"}

\* new_system(): any failure of the bus falls through to the private socket.
NewSystem(standard, private) ==
    CASE standard = "ok" -> "ok"
      [] standard # "ok" /\ PrivateSocket -> private
      [] OTHER -> "error"

TryConnect ==
    /\ sdPc = "connect"
    /\ \E standard, private \in Attempts :
         LET result == IF bus = "system" THEN NewSystem(standard, private) ELSE standard IN
         /\ CASE result = "ok" -> NewConnection /\ sdPc' = "connected" /\ UNCHANGED retry
              [] result = "EAGAIN" -> Retry /\ UNCHANGED conn
              [] OTHER -> sdPc' = "failed" /\ UNCHANGED <<retry, conn>>
    /\ UNCHANGED <<bus, parent, sub, late, sdTodo, outcome, loops, systemd, enabled, tookOwn, stopped>>

\* construct_cgroups_path(): a bad slice name, else the call for the root.
ConstructCgroupsPath ==
    /\ sdPc = "connected"
    /\ IF InvalidSlice(parent)
       THEN sdPc' = "failed" /\ UNCHANGED conn
       ELSE sdPc' = "root" /\ Call("ControlGroup")
    /\ UNCHANGED <<bus, parent, sub, late, retry, sdTodo, outcome, loops, systemd, enabled,
                   tookOwn, stopped>>

ControlCgroupRoot ==
    /\ sdPc = "root"
    /\ \E out \in Results :
         /\ Receive("ControlGroup", out, TRUE)
         /\ CASE out = "ok" -> sdPc' = "ready" /\ UNCHANGED retry
              [] out = "EAGAIN" -> Retry
              [] OTHER -> sdPc' = "failed" /\ UNCHANGED retry
    /\ UNCHANGED <<bus, parent, sub, late, sdTodo, outcome, loops, systemd, enabled, stopped>>

-----------------------------------------------------------------------------
(* The operations of CgroupManager. *)

Return(op, result) ==
    /\ outcome' = [outcome EXCEPT ![op] = result]
    /\ IF result = "ok"
       THEN sdTodo' = Tail(sdTodo) /\ sdPc' = (IF Len(sdTodo) = 1 THEN "done" ELSE "ready")
       ELSE sdPc' = "failed" /\ UNCHANGED sdTodo

SystemdGoto(label) == sdPc' = label /\ UNCHANGED <<sdTodo, outcome>>

\* add_task() and remove() begin with transient_unit_exists().
Begin ==
    /\ sdPc = "ready"
    /\ CASE Head(sdTodo) = "add_task" -> sdPc' = "add.exists" /\ Call("GetUnit")
         [] Head(sdTodo) = "apply" -> sdPc' = "apply.version" /\ Call("Version")
         [] OTHER -> sdPc' = "remove.exists" /\ Call("GetUnit")
    /\ UNCHANGED <<bus, parent, sub, late, retry, sdTodo, outcome, loops, systemd, enabled,
                   tookOwn, stopped>>

\* The reply is awaited, and the next call of the operation is made.
Awaited(label, member, After(_)) ==
    /\ sdPc = label
    /\ \E out \in Results :
         /\ Receive(member, out, late)
         /\ After(out)
    /\ UNCHANGED <<bus, parent, sub, late, retry, loops, systemd, enabled, stopped>>

AddExists == Awaited("add.exists", "GetUnit",
    LAMBDA out : SystemdGoto(IF out = "ok" THEN "add.attach" ELSE "add.start"))

AddAttached == Awaited("add.attached", "AttachProcessesToUnit",
    LAMBDA out : Return("add_task", out))

AddStartedIsEnough == Awaited("add.started", "StartTransientUnit",
    LAMBDA out : Return("add_task", out))

AddStarted == Awaited("add.started", "StartTransientUnit",
    LAMBDA out : IF out = "ok" THEN SystemdGoto("add.wait") ELSE Return("add_task", out))

SendNext ==
    /\ \/ sdPc = "add.attach" /\ sdPc' = "add.attached" /\ Call("AttachProcessesToUnit")
       \/ sdPc = "add.start" /\ sdPc' = "add.started" /\ Call("StartTransientUnit")
       \/ sdPc = "apply.set" /\ sdPc' = "apply.applied" /\ Call("SetUnitProperties")
       \/ sdPc = "remove.stop" /\ sdPc' = "remove.stopped" /\ Call("StopUnit")
    /\ UNCHANGED <<bus, parent, sub, late, retry, sdTodo, outcome, loops, systemd, enabled,
                   tookOwn, stopped>>

\* The processes get_all_pids() sees in the path of this manager: the job of
\* a new unit puts them in the unit itself, never in a cgroup below it.
Visible == IF sub = <<>> THEN members ELSE {}

\* wait_for_process_in_cgroup(): a cgroup not set up yet reads as empty.
AddWait ==
    /\ sdPc = "add.wait"
    /\ IF "self" \in Visible
       THEN Return("add_task", "ok") /\ UNCHANGED polls
       ELSE IF polls = MaxPolls
            THEN Return("add_task", "error") /\ UNCHANGED polls
            ELSE polls' = polls + 1 /\ UNCHANGED <<sdPc, sdTodo, outcome>>
    /\ UNCHANGED <<bus, parent, sub, late, retry, conn, sdLevel, systemd, enabled, tookOwn, stopped>>

ApplyVersion ==
    /\ Awaited("apply.version", "Version",
         LAMBDA out : IF out = "ok" THEN SystemdGoto("apply.attach") ELSE Return("apply", out))

\* The directories on the path that exist: slices and unit while the unit is
\* active, the sub cgroup once a process was attached there.
Exists(l) == l = 0 \/ (unit = "active" /\ (l <= UnitLevel \/ "sub" \in joined))

\* The kernel's answer to +controller in subtree_control of a level.
MayEnable(l) ==
    /\ l = 0 \/ l - 1 \in enabled
    /\ ~(l = UnitLevel /\ members # {})

\* ensure_controllers_attached(), one level of the loop a step.
EnsureControllersAttached ==
    /\ sdPc = "apply.attach"
    /\ CASE ~Exists(sdLevel) ->            \* only a warning
              SystemdGoto("apply.set") /\ UNCHANGED <<enabled, sdLevel>>
         [] Exists(sdLevel) /\ sdLevel > 0 /\ sdLevel = LastLevel ->
              SystemdGoto("apply.set") /\ UNCHANGED <<enabled, sdLevel>>
         [] OTHER ->
              IF MayEnable(sdLevel)
              THEN /\ enabled' = enabled \cup {sdLevel}
                   /\ sdLevel' = sdLevel + 1
                   /\ UNCHANGED <<sdPc, sdTodo, outcome>>
              ELSE Return("apply", "error") /\ UNCHANGED <<enabled, sdLevel>>
    /\ UNCHANGED <<bus, parent, sub, late, retry, conn, polls, systemd, tookOwn, stopped>>

\* set_unit_properties() (there always are properties: the device policy is one), then
\* the device filter on the unit's directory, whose failure a rootless manager ignores.
ApplyApplied == Awaited("apply.applied", "SetUnitProperties",
    LAMBDA out : \E filtered, rootless \in BOOLEAN :
        /\ filtered => Exists(LastLevel)
        /\ Return("apply", IF out = "ok" /\ ~filtered /\ ~rootless THEN "error" ELSE out))

RemoveExists == Awaited("remove.exists", "GetUnit",
    LAMBDA out : IF out = "ok" THEN SystemdGoto("remove.stop") ELSE Return("remove", "ok"))

RemoveStopped == Awaited("remove.stopped", "StopUnit",
    LAMBDA out : Return("remove", out))

Client ==
    \/ TryConnect \/ ConstructCgroupsPath \/ ControlCgroupRoot
    \/ Begin \/ SendNext
    \/ AddExists \/ AddAttached \/ AddStarted \/ AddWait
    \/ ApplyVersion \/ EnsureControllersAttached \/ ApplyApplied
    \/ RemoveExists \/ RemoveStopped

-----------------------------------------------------------------------------
(* systemd. *)

\* What the call does at once, and whether it succeeds.
Succeeds(member) ==
    CASE member \in {"GetUnit", "StopUnit", "SetUnitProperties", "AttachProcessesToUnit"} ->
             unit # "none"
      [] member = "StartTransientUnit" -> unit = "none"
      [] OTHER -> TRUE

Effect(member) ==
    CASE member = "StartTransientUnit" /\ unit = "none" ->
             unit' = "starting" /\ UNCHANGED <<members, joined, stopped>>
      [] member = "StopUnit" /\ unit # "none" ->
             unit' = "stopping" /\ stopped' = TRUE /\ UNCHANGED <<members, joined>>
      [] member = "AttachProcessesToUnit" /\ unit # "none" ->
             /\ members' = IF sub = <<>> THEN members \cup {"self"} ELSE members
             /\ joined' = joined \cup {"self"} \cup (IF sub = <<>> THEN {} ELSE {"sub"})
             /\ UNCHANGED <<unit, stopped>>
      [] OTHER -> UNCHANGED <<unit, members, joined, stopped>>

Serve ==
    /\ queue # <<>>
    /\ LET call == Head(queue) IN
         /\ inbox' = Append(inbox, [serial |-> call.serial,
                                    ok |-> Succeeds(call.member),
                                    signature |-> ReplySignature(call.member)])
         /\ Effect(call.member)
    /\ queue' = Tail(queue)
    /\ UNCHANGED <<bus, parent, sub, late, sdPc, retry, sdTodo, outcome, serial, loops, enabled,
                   disturbances, tookOwn>>

\* The job of a transient unit: slices, cgroup, then the processes.
StartJob ==
    /\ unit = "starting"
    /\ unit' = "active"
    /\ members' = {"self"}
    /\ joined' = joined \cup {"self"}
    /\ UNCHANGED <<bus, parent, sub, late, sdPc, retry, sdTodo, outcome, conn, loops, enabled,
                   disturbances, tookOwn, stopped>>

StopJob ==
    /\ unit = "stopping"
    /\ unit' = "none"
    /\ members' = {}
    /\ UNCHANGED <<bus, parent, sub, late, sdPc, retry, sdTodo, outcome, conn, loops, joined, enabled,
                   disturbances, tookOwn, stopped>>

\* Another command stops the unit.
Disturb ==
    /\ unit = "active" /\ disturbances < MaxDisturbances
    /\ unit' = "stopping"
    /\ disturbances' = disturbances + 1
    /\ UNCHANGED <<bus, parent, sub, late, sdPc, retry, sdTodo, outcome, conn, loops, members, joined, enabled,
                   tookOwn, stopped>>

SystemdEnded == sdPc \in {"done", "failed"}

SystemdTerminated == SystemdEnded /\ queue = <<>> /\ unit \in {"none", "active"} /\ UNCHANGED sdVars

SystemdNext == Client \/ Serve \/ StartJob \/ StopJob \/ Disturb \/ SystemdTerminated

\* The client runs until it blocks in recv(); systemd works off its queue.
Fairness == WF_sdVars(Client) /\ WF_sdVars(Serve) /\ WF_sdVars(StartJob) /\ WF_sdVars(StopJob)

SystemdSpec == SystemdInit /\ [][SystemdNext]_sdVars /\ Fairness

-----------------------------------------------------------------------------
(* Properties. *)

\* Shape of the state of the manager, its connection and systemd.
SystemdTypeOK ==
    /\ bus \in Buses /\ retry \in 0..MaxRetries
    /\ outcome \in [{"add_task", "apply", "remove"} -> {"none"} \cup Results]
    /\ \A i \in 1..Len(queue) : queue[i].member \in Members
    /\ Len(queue) + Len(inbox) <= serial
    /\ polls \in 0..MaxPolls /\ sdLevel \in 0..LastLevel /\ enabled \subseteq 0..(LastLevel - 1)
    /\ unit \in {"none", "starting", "active", "stopping"}

\* send_message() never compares the reply's serial with the call's; the
\* message it takes is nevertheless the answer to the call it just made,
\* because Manager::new() leaves the socket behind after every timeout.
OwnReply == tookOwn

\* add_task() returns Ok only after the process has been put in the unit,
\* although systemd answers StartTransientUnit before it runs the job.
AddedHasJoined == outcome["add_task"] = "ok" => "self" \in joined

\* After a successful apply() every level above the unit hands its
\* controllers down, and the unit itself, which holds processes, does not; a
\* rootless manager may also have been asked for a cgroup below the unit that
\* no process was put into.
LimitsReachTheUnit ==
    outcome["apply"] = "ok" /\ disturbances = 0 =>
        enabled = 0..(LastLevel - 1) \/ (sub # <<>> /\ "sub" \notin joined)

\* remove() returns Ok only if the unit was told to stop, or was not there.
RemovedIsStopped ==
    outcome["remove"] = "ok" => stopped \/ disturbances > 0 \/ unit = "none"

\* What the manager reports is done: a successful add_task() and apply() did
\* what they promise even when recv() times out; that replies are the
\* caller's own, and that remove() stops the unit, needs timely replies.
ReportedIsDone ==
    /\ AddedHasJoined
    /\ LimitsReachTheUnit
    /\ ~late => OwnReply /\ RemovedIsStopped

\* Every recv() is bounded by SO_RCVTIMEO and the wait by its deadline, so
\* the caller gets an answer, as long as systemd goes on with what it has accepted.
Returns == <>SystemdEnded
=============================================================================
