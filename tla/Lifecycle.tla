------------------------------ MODULE Lifecycle ------------------------------
(***************************************************************************)
(* The youki commands that act on one container id, and what they share:   *)
(* the container directory with state.json, youki_config.json and the      *)
(* notify socket, the cgroup with its freezer, and the init process.       *)
(*                                                                         *)
(* Each command is a process of its own.  It reads state.json once, works  *)
(* on its copy, and may write the copy back; nothing locks the directory,  *)
(* so commands interleave between any two of their steps, and a command    *)
(* may die between any two of them.  The creation protocol is one step     *)
(* here; module ContainerCreate opens it up.                               *)
(***************************************************************************)
EXTENDS Integers, FiniteSets

CONSTANTS
    Cmds,         \* command processes
    MaxCreates,   \* bound on the number of create attempts
    Environments  \* the circumstances explored

AllOps == {"create", "start", "kill", "delete", "pause", "resume"}
Fallible == {"open", "config", "spawn", "freeze", "signal", "thaw", "cgroup",
             "remove", "hooks", "rmdir"}

(***************************************************************************)
(* An environment: the commands that are issued and the signals `youki     *)
(* kill` is used with; how many commands run at the same time, and whether *)
(* the caller waits for create to return before it goes on; the number of  *)
(* creates; whether the container lives in cgroup v1 (Legacy, Hybrid); the *)
(* steps whose system calls may fail; and whether a command may be killed  *)
(* between two steps.                                                      *)
(***************************************************************************)
Environment ==
    [ops : SUBSET AllOps, signals : SUBSET {"KILL", "TERM"}, active : Nat,
     alone : BOOLEAN, creates : 0..MaxCreates, v1 : BOOLEAN,
     mayFail : SUBSET Fallible, mayCrash : BOOLEAN]

ASSUME LifecycleAssumption ==
    /\ IsFiniteSet(Cmds)
    /\ MaxCreates \in Nat \ {0}
    /\ Environments \subseteq Environment

\* Init processes, and directories, are numbered by the create they come from.
Pids == 1..MaxCreates
None == 0

Status == {"Creating", "Created", "Running", "Stopped", "Paused"}

Pc == {"idle", "load", "check", "connect", "freeze", "signal", "thaw", "kill",
       "open", "write", "uncgroup", "reap", "rmdir", "exists", "mkdir",
       "config", "bind", "spawn"}

VARIABLES
    env,        \* the environment, one and the same all along
    dir,        \* the container directory: None, or the create that made it
    file,       \* state.json
    config,     \* is youki_config.json there?
    sock,       \* notify.sock: None, or the create that bound it
    proc,       \* the init processes
    doomed,     \* processes with a fatal signal pending
    spared,     \* processes a failed remove() left, and its caller went on
    notified,   \* processes whose notify socket was connected to
    cgroup,     \* does the container's cgroup exist?
    frozen,     \* is it frozen?
    creates,    \* create attempts so far
    loc         \* the local state of each command

vars == <<env, dir, file, config, sock, proc, doomed, spared, notified,
          cgroup, frozen, creates, loc>>

\* state.json: missing, truncated by a save that has not written yet, damaged
\* by two overlapping saves, or holding a State.
File == [kind : {"absent", "empty", "garbage", "json"},
         status : Status, pid : Pids \cup {None}]
NoFile == [kind |-> "absent", status |-> "Creating", pid |-> None]

Local == [op : AllOps, sig : {"KILL", "TERM"}, flag : BOOLEAN, pc : Pc,
          status : Status, pid : Pids \cup {None}, inode : Pids \cup {None}]
Idle == [op |-> "start", sig |-> "KILL", flag |-> FALSE, pc |-> "idle",
         status |-> "Creating", pid |-> None, inode |-> None]

TypeOK ==
    /\ env \in Environments
    /\ dir \in Pids \cup {None}
    /\ file \in File
    /\ config \in BOOLEAN
    /\ sock \in Pids \cup {None}
    /\ proc \in [Pids -> {"none", "waiting", "running", "dead"}]
    /\ doomed \subseteq Pids
    /\ spared \subseteq Pids
    /\ notified \subseteq Pids
    /\ cgroup \in BOOLEAN
    /\ frozen \in BOOLEAN
    /\ creates \in 0..MaxCreates
    /\ loc \in [Cmds -> Local]

Init ==
    /\ env \in Environments
    /\ dir = None
    /\ file = NoFile
    /\ config = FALSE
    /\ sock = None
    /\ proc = [p \in Pids |-> "none"]
    /\ doomed = {}
    /\ spared = {}
    /\ notified = {}
    /\ cgroup = FALSE
    /\ frozen = FALSE
    /\ creates = 0
    /\ loc = [c \in Cmds |-> Idle]

-----------------------------------------------------------------------------
(* Status and state.json. *)

Alive(p) == p # None /\ proc[p] \in {"waiting", "running"}
Members == {p \in Pids : Alive(p)}

\* Mutant of Refresh: a live process is always Running once it was Created.
RefreshForgetsPaused(status, pid) ==
    IF ~Alive(pid) THEN "Stopped"
    ELSE IF status \in {"Creating", "Created"} THEN status
    ELSE "Running"

\* Container::refresh_status.
Refresh(status, pid) ==
    IF ~Alive(pid) THEN "Stopped"
    ELSE IF status \in {"Creating", "Created", "Paused"} THEN status
    ELSE "Running"

\* ContainerStatus::can_kill.
CanKill(s) == s \in {"Created", "Running", "Paused"}

\* How the lengths of two saved States compare: Creating comes without pid,
\* creator and time; the other statuses differ only in their own names.
Length(status) == CASE status = "Creating" -> 0
                    [] status = "Paused" -> 1
                    [] OTHER -> 2

\* A write at offset 0 of a file that is longer leaves the end of the old text.
Overwritten(status, pid) ==
    [kind |-> IF \/ file.kind = "garbage"
                 \/ file.kind = "json" /\ Length(status) < Length(file.status)
              THEN "garbage" ELSE "json",
     status |-> status, pid |-> pid]

Goto(c, l) == loc' = [loc EXCEPT ![c].pc = l]
Exit(c) == loc' = [loc EXCEPT ![c] = Idle]
Save(c, s) == loc' = [loc EXCEPT ![c] = [@ EXCEPT !.pc = "open", !.status = s]]
Fails(step) == step \in env.mayFail

\* A signal to the processes P: SIGKILL is fatal, SIGTERM may be handled or,
\* for the first process of a pid namespace, ignored.
Deliver(P, sig) ==
    IF sig = "KILL" THEN doomed' = doomed \cup P
    ELSE \E D \in SUBSET P : doomed' = doomed \cup D

-----------------------------------------------------------------------------
(* A command begins, loads its container, and checks its status. *)

Begin(c) ==
    /\ loc[c].pc = "idle"
    /\ Cardinality({d \in Cmds : loc[d].pc # "idle"}) < env.active
    /\ \E op \in env.ops, sig \in env.signals \cup {"KILL"}, flag \in BOOLEAN :
        /\ IF op = "kill" THEN sig \in env.signals ELSE sig = "KILL"
        /\ op \notin {"kill", "delete"} => ~flag
        /\ op = "create" => creates < env.creates
        /\ env.alone => \A d \in Cmds : loc[d].pc # "idle" =>
                            op # "create" /\ loc[d].op # "create"
        /\ creates' = IF op = "create" THEN creates + 1 ELSE creates
        /\ loc' = [loc EXCEPT ![c] =
                     [Idle EXCEPT !.op = op, !.sig = sig, !.flag = flag,
                                  !.pc = IF op = "create" THEN "exists" ELSE "load",
                                  !.pid = IF op = "create" THEN creates' ELSE None]]
    /\ UNCHANGED <<env, dir, file, config, sock, proc, doomed, spared,
                   notified, cgroup, frozen>>

\* load_container: the directory exists and state.json parses.
Load(c) ==
    /\ loc[c].pc = "load"
    /\ IF dir # None /\ file.kind = "json"
       THEN loc' = [loc EXCEPT ![c] =
                       [@ EXCEPT !.pc = "check", !.pid = file.pid,
                                 !.status = Refresh(file.status, file.pid)]]
       ELSE Exit(c)
    /\ UNCHANGED <<env, dir, file, config, sock, proc, doomed, spared,
                   notified, cgroup, frozen, creates>>

\* Where start, kill, delete, pause and resume go from a status; "idle" is the
\* error IncorrectStatus.
StartFrom(s) == IF s = "Created" THEN "connect" ELSE "idle"
KillFrom(s, all) ==
    IF all /\ (CanKill(s) \/ s = "Stopped") THEN "freeze"
    ELSE IF CanKill(s) THEN "kill" ELSE "idle"

\* Mutant of DeleteFrom: a created container is taken for one without processes.
DeleteFromSparesCreated(s, force) ==
    IF s = "Stopped" THEN "uncgroup"
    ELSE IF s = "Created" THEN "rmdir"
    ELSE IF force THEN "freeze" ELSE "idle"

DeleteFrom(s, force) ==
    IF s = "Stopped" THEN "uncgroup"
    ELSE IF s = "Created" \/ force THEN "freeze" ELSE "idle"
PauseFrom(s) == IF s = "Running" THEN "freeze" ELSE "idle"
ResumeFrom(s) == IF s = "Paused" THEN "thaw" ELSE "idle"

\* Every command refreshes the status it loaded once more and checks it.
Check(c) ==
    LET me == loc[c]
        s == Refresh(me.status, me.pid)
        next == CASE me.op = "start" -> StartFrom(s)
                  [] me.op = "kill" -> KillFrom(s, me.flag)
                  [] me.op = "delete" -> DeleteFrom(s, me.flag)
                  [] me.op = "pause" -> PauseFrom(s)
                  [] me.op = "resume" -> ResumeFrom(s)
    IN  /\ me.pc = "check"
        /\ IF next = "idle" THEN Exit(c)
           ELSE loc' = [loc EXCEPT ![c] = [@ EXCEPT !.pc = next, !.status = s]]
        /\ UNCHANGED <<env, dir, file, config, sock, proc, doomed, spared,
                       notified, cgroup, frozen, creates>>

-----------------------------------------------------------------------------
(* The effects. *)

\* start: load the config, connect to the notify socket, then save Running.
\* Poststart hooks run after the save and change nothing here.
Connect(c) ==
    /\ loc[c].pc = "connect"
    /\ IF config /\ sock # None /\ Alive(sock) /\ proc[sock] = "waiting"
       THEN notified' = notified \cup {sock} /\ Save(c, "Running")
       ELSE UNCHANGED notified /\ Exit(c)
    /\ UNCHANGED <<env, dir, file, config, sock, proc, doomed, spared, cgroup,
                   frozen, creates>>

\* The v1 controller re-creates a missing freezer directory; the v2 controller
\* needs the cgroup.
CanFreeze == cgroup \/ env.v1

\* What a failed freeze leaves: v1 tries to thaw again, v2 has written its file
\* and cannot confirm it, or nothing was written.
LeftByFailure == {frozen} \cup (IF cgroup THEN {~env.v1} ELSE {})

\* pause, and the first half of kill_all_processes, where a failure to freeze
\* is only logged.  Both need the config for the path of the cgroup.
Freeze(c) ==
    LET all == loc[c].op \in {"kill", "delete"}
    IN  /\ loc[c].pc = "freeze"
        /\ \/ /\ config /\ CanFreeze
              /\ frozen' = TRUE
              /\ IF all THEN Goto(c, "signal") ELSE Save(c, "Paused")
           \/ /\ config /\ (~CanFreeze \/ Fails("freeze"))
              /\ frozen' \in LeftByFailure
              /\ IF all THEN Goto(c, "signal") ELSE Exit(c)
           \/ ~config /\ UNCHANGED frozen /\ Exit(c)
        /\ UNCHANGED <<env, dir, file, config, sock, proc, doomed, spared,
                       notified, cgroup, creates>>

\* The second half: read the pids of the cgroup and signal each one.  An error
\* here returns before the cgroup is thawed.
Signal(c) ==
    /\ loc[c].pc = "signal"
    /\ \/ /\ cgroup
          /\ Deliver(Members, IF loc[c].op = "delete" THEN "KILL" ELSE loc[c].sig)
          /\ Goto(c, "thaw")
       \/ (~cgroup \/ Fails("signal")) /\ Exit(c) /\ UNCHANGED doomed
    /\ UNCHANGED <<env, dir, file, config, sock, proc, spared, notified,
                   cgroup, frozen, creates>>

\* Mutant of KillOne: a paused container is not thawed.
KillOneLeavesFrozen(c) ==
    /\ loc[c].pc = "kill"
    /\ Deliver({p \in Members : p = loc[c].pid}, loc[c].sig)
    /\ Save(c, "Stopped")
    /\ UNCHANGED <<env, dir, file, config, sock, proc, spared, notified,
                   cgroup, frozen, creates>>

\* kill_one_process: the frozen processes of cgroup v1 are thawed for SIGKILL.
KillOne(c) ==
    LET me == loc[c]
    IN  /\ me.pc = "kill"
        /\ \/ /\ Deliver({p \in Members : p = me.pid}, me.sig)
              /\ IF me.status = "Paused" /\ me.sig = "KILL" /\ env.v1
                 THEN Goto(c, "thaw") ELSE Save(c, "Stopped")
           \/ Fails("signal") /\ Exit(c) /\ UNCHANGED doomed
        /\ UNCHANGED <<env, dir, file, config, sock, proc, spared, notified,
                       cgroup, frozen, creates>>

\* The thaw of resume, of kill_one_process (where it may fail) and the last
\* step of kill_all_processes (where a failure is only logged).
Thaw(c) ==
    LET me == loc[c]
        all == me.op = "delete" \/ (me.op = "kill" /\ me.flag)
        saved == IF me.op = "resume" THEN "Running" ELSE "Stopped"
    IN  /\ me.pc = "thaw"
        /\ \/ (all \/ config) /\ frozen' = FALSE /\ Save(c, saved)
           \/ ~all /\ ~config /\ UNCHANGED frozen /\ Exit(c)
           \/ /\ Fails("thaw")
              /\ UNCHANGED frozen \/ (~env.v1 /\ frozen' = FALSE)
              /\ IF all THEN Save(c, saved) ELSE Exit(c)
        /\ UNCHANGED <<env, dir, file, config, sock, proc, doomed, spared,
                       notified, cgroup, creates>>

\* State::save, first half: open state.json and truncate it.  When it fails, a
\* create that had its process running cleans up; everyone else gives up.
Open(c) ==
    LET me == loc[c]
        last == me.op = "create" /\ me.status = "Created"
    IN  /\ me.pc = "open"
        /\ \/ /\ dir # None
              /\ file' = [NoFile EXCEPT !.kind = "empty"]
              /\ loc' = [loc EXCEPT ![c] = [@ EXCEPT !.pc = "write", !.inode = dir]]
           \/ /\ dir = None \/ Fails("open")
              /\ UNCHANGED file
              /\ IF last THEN Goto(c, "uncgroup") ELSE Exit(c)
        /\ UNCHANGED <<env, dir, config, sock, proc, doomed, spared, notified,
                       cgroup, frozen, creates>>

\* Second half: write the state.  Written to a file that was removed in
\* between, it is lost.
Write(c) ==
    LET me == loc[c]
        creating == me.op = "create" /\ me.status = "Creating"
    IN  /\ me.pc = "write"
        /\ file' = IF dir = me.inode /\ file.kind # "absent"
                   THEN Overwritten(me.status, IF creating THEN None ELSE me.pid)
                   ELSE file
        /\ CASE creating -> Goto(c, "config")
             [] me.op = "delete" -> Goto(c, "uncgroup")
             [] OTHER -> Exit(c)
        /\ UNCHANGED <<env, dir, config, sock, proc, doomed, spared, notified,
                       cgroup, frozen, creates>>

-----------------------------------------------------------------------------
(* The end of delete, and cleanup_container of a failed create. *)

\* Mutant of Uncgroup: remove() does not kill the members.
UncgroupSparesMembers(c) ==
    /\ loc[c].pc = "uncgroup"
    /\ Goto(c, IF loc[c].op = "create" \/ config THEN "reap" ELSE "rmdir")
    /\ UNCHANGED <<env, dir, file, config, sock, proc, doomed, spared,
                   notified, cgroup, frozen, creates>>

\* remove() of the cgroup manager kills every member.  Without a config (or a
\* directory) delete has no cgroup to remove; cleanup has the path at hand.
\* Both give up when the manager itself cannot be made.  When remove() fails
\* before its first signal delete gives up, and cleanup goes on; both go on when
\* systemd does not own up to a unit that could be stopped.
Uncgroup(c) ==
    LET creator == loc[c].op = "create"
        managed == creator \/ (dir # None /\ config)
    IN  /\ loc[c].pc = "uncgroup"
        /\ \/ /\ managed
              /\ doomed' = IF cgroup THEN doomed \cup Members ELSE doomed
              /\ Goto(c, "reap") /\ UNCHANGED spared
           \/ /\ managed /\ Fails("remove") /\ (creator \/ ~env.v1)
              /\ spared' = spared \cup (Members \ doomed)
              /\ Goto(c, "rmdir") /\ UNCHANGED doomed
           \/ /\ ~creator /\ dir # None /\ ~config
              /\ Goto(c, "rmdir") /\ UNCHANGED <<doomed, spared>>
           \/ /\ \/ ~creator /\ (dir = None \/ Fails("remove"))
                 \/ Fails("cgroup")
              /\ Exit(c) /\ UNCHANGED <<doomed, spared>>
        /\ UNCHANGED <<env, dir, file, config, sock, proc, notified, cgroup,
                       frozen, creates>>

\* delete_with_retry removes the cgroup once it is empty, or gives up.  Then
\* delete runs the poststop hooks.  Cleanup goes on after an error.
Reap(c) ==
    /\ loc[c].pc = "reap"
    /\ \/ /\ Members = {} \/ ~cgroup
          /\ cgroup' = FALSE
          /\ frozen' = FALSE
          /\ \/ Goto(c, "rmdir")
             \/ loc[c].op = "delete" /\ Fails("hooks") /\ Exit(c)
       \/ /\ cgroup
          /\ Members # {} \/ Fails("cgroup")
          /\ UNCHANGED <<cgroup, frozen>>
          /\ IF loc[c].op = "create" THEN Goto(c, "rmdir") ELSE Exit(c)
    /\ UNCHANGED <<env, dir, file, config, sock, proc, doomed, spared,
                   notified, creates>>

\* remove_dir_all: one entry after the other, in the order the directory lists
\* them, and the directory last.
Rmdir(c) ==
    /\ loc[c].pc = "rmdir"
    /\ \/ /\ dir # None /\ file.kind # "absent"
          /\ file' = NoFile /\ UNCHANGED <<config, sock, dir, loc>>
       \/ /\ dir # None /\ config
          /\ config' = FALSE /\ UNCHANGED <<file, sock, dir, loc>>
       \/ /\ dir # None /\ sock # None
          /\ sock' = None /\ UNCHANGED <<file, config, dir, loc>>
       \/ /\ file.kind = "absent" /\ ~config /\ sock = None
          /\ dir' = None
          /\ Exit(c) /\ UNCHANGED <<file, config, sock>>
       \/ /\ Fails("rmdir")
          /\ Exit(c) /\ UNCHANGED <<file, config, sock, dir>>
    /\ UNCHANGED <<env, proc, doomed, spared, notified, cgroup, frozen,
                   creates>>

-----------------------------------------------------------------------------
(* create: InitContainerBuilder::build. *)

\* create_container_dir: exists() ...
Exists(c) ==
    /\ loc[c].pc = "exists"
    /\ IF dir = None THEN Goto(c, "mkdir") ELSE Exit(c)
    /\ UNCHANGED <<env, dir, file, config, sock, proc, doomed, spared,
                   notified, cgroup, frozen, creates>>

\* ... then create_dir_all, which accepts a directory that is there by now;
\* create_container_state saves Creating without a pid.
Mkdir(c) ==
    /\ loc[c].pc = "mkdir"
    /\ dir' = IF dir = None THEN loc[c].pid ELSE dir
    /\ Save(c, "Creating")
    /\ UNCHANGED <<env, file, config, sock, proc, doomed, spared, notified,
                   cgroup, frozen, creates>>

\* The config is saved; an error up to here leaves the directory behind.
Config(c) ==
    /\ loc[c].pc = "config"
    /\ \/ dir # None /\ config' = TRUE /\ Goto(c, "bind")
       \/ (dir = None \/ Fails("config")) /\ UNCHANGED config /\ Exit(c)
    /\ UNCHANGED <<env, dir, file, sock, proc, doomed, spared, notified,
                   cgroup, frozen, creates>>

\* NotifyListener::new; from here on every error is cleaned up.
Bind(c) ==
    /\ loc[c].pc = "bind"
    /\ IF dir # None /\ sock = None
       THEN sock' = loc[c].pid /\ Goto(c, "spawn")
       ELSE UNCHANGED sock /\ Goto(c, "uncgroup")
    /\ UNCHANGED <<env, dir, file, config, proc, doomed, spared, notified,
                   cgroup, frozen, creates>>

\* container_main_process: the init process waits in the cgroup, and status
\* Created is saved with its pid.  An error may come before or after that
\* process exists.
Spawn(c) ==
    /\ loc[c].pc = "spawn"
    /\ \/ /\ proc' = [proc EXCEPT ![loc[c].pid] = "waiting"]
          /\ cgroup' = TRUE
          /\ Save(c, "Created") \/ (Fails("spawn") /\ Goto(c, "uncgroup"))
       \/ Fails("spawn") /\ UNCHANGED <<proc, cgroup>> /\ Goto(c, "uncgroup")
    /\ UNCHANGED <<env, dir, file, config, sock, doomed, spared, notified,
                   frozen, creates>>

-----------------------------------------------------------------------------
(* The environment. *)

Run(p) == ~frozen /\ p \notin doomed

\* The init process accepts the connection and becomes the payload, or fails.
InitStart(p) ==
    /\ proc[p] = "waiting" /\ p \in notified /\ Run(p)
    /\ proc' = [proc EXCEPT ![p] = "running"]
    /\ UNCHANGED <<env, dir, file, config, sock, doomed, spared, notified,
                   cgroup, frozen, creates, loc>>

ProcessExit(p) ==
    /\ proc[p] = "running" \/ (proc[p] = "waiting" /\ p \in notified)
    /\ Run(p)
    /\ proc' = [proc EXCEPT ![p] = "dead"]
    /\ UNCHANGED <<env, dir, file, config, sock, doomed, spared, notified,
                   cgroup, frozen, creates, loc>>

\* A fatal signal takes effect; in cgroup v1 not while the process is frozen.
Die(p) ==
    /\ Alive(p) /\ p \in doomed
    /\ ~(frozen /\ env.v1)
    /\ proc' = [proc EXCEPT ![p] = "dead"]
    /\ UNCHANGED <<env, dir, file, config, sock, doomed, spared, notified,
                   cgroup, frozen, creates, loc>>

Crash(c) ==
    /\ env.mayCrash
    /\ loc[c].pc # "idle"
    /\ Exit(c)
    /\ UNCHANGED <<env, dir, file, config, sock, proc, doomed, spared,
                   notified, cgroup, frozen, creates>>

Step(c) ==
    \/ Load(c) \/ Check(c) \/ Connect(c) \/ Freeze(c) \/ Signal(c) \/ KillOne(c)
    \/ Thaw(c) \/ Open(c) \/ Write(c) \/ Uncgroup(c) \/ Reap(c) \/ Rmdir(c)
    \/ Exists(c) \/ Mkdir(c) \/ Config(c) \/ Bind(c) \/ Spawn(c)

Next ==
    \/ \E c \in Cmds : Begin(c) \/ Step(c) \/ Crash(c)
    \/ \E p \in Pids : InitStart(p) \/ ProcessExit(p) \/ Die(p)

\* The kernel runs every command that can run and delivers fatal signals, also
\* to a process that is frozen and thawed again and again; a command need never
\* be issued, and a payload need never exit.
Fairness ==
    /\ \A c \in Cmds : WF_vars(Step(c))
    /\ \A p \in Pids : SF_vars(Die(p))

Spec == Init /\ [][Next]_vars
FairSpec == Spec /\ Fairness

-----------------------------------------------------------------------------
(* Properties. *)

AllIdle == \A c \in Cmds : loc[c].pc = "idle"

\* What `youki state` should report of a process that is not about to die.
Truth(p) ==
    IF ~Alive(p) THEN "Stopped"
    ELSE IF frozen THEN "Paused"
    ELSE IF proc[p] = "waiting" /\ p \notin notified THEN "Created"
    ELSE "Running"

\* Commands one after the other, none of which dies or fails half way through
\* a save, a kill, a thaw, a removal or, on cgroup v2, where nothing takes back
\* the request of a pause that failed, a freeze.
Orderly ==
    /\ env.active = 1 /\ ~env.mayCrash /\ env.signals = {"KILL"}
    /\ env.mayFail \cap {"open", "signal", "thaw", "remove", "rmdir"} = {}
    /\ env.v1 \/ "freeze" \notin env.mayFail

\* Between two commands state.json parses, and the status a command reports
\* from it is the truth: Created exactly while the init process waits for its
\* start, Paused exactly while the cgroup is frozen, Stopped when it is gone.
ReportedIsTrue ==
    Orderly /\ AllIdle /\ dir # None =>
        /\ file.kind = "json"
        /\ file.pid \in doomed \/ Refresh(file.status, file.pid) = Truth(file.pid)

\* youki_config.json, which names the cgroup, is there for as long as a process
\* is that has not been sent SIGKILL: delete and the cleanup of create kill
\* through the cgroup before they remove the first file, whoever else acts on
\* the container and wherever a command dies, if create is left alone.  The one
\* way to an orphan is a remove() that did not kill and was passed over: by
\* cleanup_container, which removes the directory whatever remove() returned,
\* or by delete when systemd does not admit to the unit.
NoOrphan ==
    env.alone /\ (dir = None \/ ~config) => Members \subseteq doomed \cup spared

\* A process that was sent SIGKILL dies, or its container is paused and says
\* so (then resume, or another kill, lets the signal through).  In cgroup v1,
\* where a frozen process keeps a signal pending, this rests on
\* kill_one_process thawing a paused container for SIGKILL.
KillTakesEffect ==
    \A p \in Pids : p \in doomed ~> proc[p] = "dead" \/ file.status = "Paused"

\* The same of commands that do not interleave, which is how kill_one_process
\* may rely on the status it loaded.
OrderlyKillTakesEffect ==
    \A p \in Pids : Orderly /\ p \in doomed ~> proc[p] = "dead" \/ file.status = "Paused"

\* The life of a process as its container's id tells it: one that is sent a
\* fatal signal is over, one whose notify socket was connected to is running.
Life(p) ==
    IF proc[p] = "none" THEN "unborn"
    ELSE IF proc[p] = "dead" \/ p \in doomed THEN "stopped"
    ELSE IF proc[p] = "running" \/ p \in notified THEN "running"
    ELSE "created"

C == INSTANCE ContainerLife WITH
        life <- [p \in Pids |-> Life(p)], known <- config, lost <- spared,
        sound <- "remove" \notin env.mayFail

\* However the steps of the commands interleave, fail and are cut short, what
\* they do is the life of one container after another, if create is left alone
\* (start, kill, delete, pause and resume implement ContainerLife), and only
\* where remove() may fail is a process ever lost.
ImplementsContainerLife == C!Spec

\* A container reported Running was started (ContainerStatus::Running).
RunningWasStarted ==
    AllIdle /\ file.kind = "json" /\ Refresh(file.status, file.pid) = "Running"
    => file.pid \in notified \cup doomed

\* Without force, delete removes nothing of a container that is being created.
CreatingIsNotDeleted ==
    \A c, d \in Cmds :
        /\ loc[c].op = "delete" /\ ~loc[c].flag
        /\ loc[c].pc \in {"reap", "rmdir"}
        /\ loc[d].op = "create" /\ loc[d].pc \in {"config", "bind", "spawn"}
        => dir # loc[d].pid
=============================================================================
