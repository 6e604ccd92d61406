# A TLA+ verification of youki

youki is an OCI container runtime. This directory holds TLA+ models of the parts
of it where order, interleaving and partial failure matter, the TLC runs over
them, and TLAPS proofs, for every value of the constants, of most of the safety
properties of its concurrent parts: the creation of a container, the commands that
act on it, the cgroup managers, the set-up of init, and supervision.

`PROJECT.json` lists the parts of the system, the runs, a mutant for every
property that shows it can fail, the source lines behind every definition, the
findings, the hazards and the theorems.

## The system and its parts

* **Creation** (`libcontainer/src/process`, `channel.rs`, `builder_impl.rs`).
  The main process clones an *intermediate* process, which joins the cgroup and
  the user, time and pid namespaces and clones the *init* process. Four
  one-directional channels carry their requests and acknowledgements.
* **What init becomes** (`process/init`, `namespaces.rs`, `user_ns.rs`,
  `capabilities.rs`, `seccomp`, `rootfs`). It enters namespaces, mounts the
  container's file system, changes its root, covers paths, takes its ids, drops
  privileges, loads its seccomp filter and waits to be started.
* **Lifecycle commands** (`libcontainer/src/container`). `create`, `start`,
  `kill`, `delete`, `pause` and `resume` are separate processes that meet in the
  container directory, the cgroup with its freezer, and the init process. There
  is no lock.
* **cgroups** (`libcgroups`). Managers for v1, v2 and systemd, the last over a
  D-Bus client of its own; freezers; controllers that turn OCI limits into file
  contents or unit properties; device programs; statistics.
* **Supervision** (`hooks.rs`, `youki/src/commands/foreground.rs`,
  `container_events.rs`). Hooks with timeouts, the relay of a foreground
  container, `youki events`.

## Modules

`Lifecycle` sees all of creation as one step, `Spawn`. `ContainerCreate` opens
that step up, and sees each thing the init process does as one step. The modules
about init open those up in turn. In the same way `Freezer` opens up the steps
`Freeze` and `Thaw` of `Lifecycle`, `CgroupV1`, `CgroupV2` and `SystemdManager`
the steps that join and remove a cgroup, and `DBusConnection` one call of
`SystemdManager`.

| Module | Models | Its state and actions |
|---|---|---|
| `ContainerCreate` | creation protocol of create and exec | `pc` of the three processes, `queue` and `holders` of each channel, `cgroup`, `pending` requests; one action per step of `container_main_process`, `container_intermediate_process`, `container_init_process`, `cleanup_container`; `Crash` |
| `Lifecycle` | the commands on one id | `dir`, `file`, `config`, `sock`, `proc`, `cgroup`, `frozen`, and `loc`, each command's private copy of what it loaded; one action per system call that matters |
| `ContainerLife` | what the commands promise | the life of each process, and whether the id leads to a container |
| `CgroupV1`, `CgroupV2` | the file managers | directory tree, processes, controllers; one action per directory, file or signal |
| `Freezer` | pause and resume down to the freezers | retries, deadline, what the kernel was asked and what it has done |
| `SystemdManager` | the systemd manager | its calls in order, the socket, the unit and its jobs |
| `DBusConnection`, `DBusCodec` | the D-Bus client | bytes sent and received, what a timed-out call leaves in the socket; the encoding itself |
| `MemoryControllers`, `CpuControllers`, `IoControllers` | limits of the three managers | contents of the files and properties; one write a step where order matters |
| `Devices` | device rules | the emulator, the eBPF compiler, the swap of programs, DeviceAllow, the v1 files |
| `IntelRdt` | resctrl groups | groups, monitoring groups, tasks, what each container recorded for its deletion |
| `MemoryPolicy` | `set_mempolicy` | validation and the node mask |
| `MountInto` | one mount of the spec | options, the fd-based calls, retries, fallbacks |
| `MountNamespace` | change of root | mounts of host and container with peer groups and masters |
| `CoveredPaths` | read-only and masked paths | the mount tree |
| `RootfsDev` | `/dev`, streams, console | nodes, umask, descriptors |
| `InitNamespaces` | validator and namespaces | where each namespace of the process is, and what was written to which |
| `UserNamespace` | id mappings | validation, maps, `setgroups`, ids taken |
| `InitPrivileges` | the end of init | credentials, capabilities, descriptors, working directory |
| `SeccompProfile` | libseccomp and the notify fd | rules loaded, who holds the fd |
| `SeccompBpf` | the compiler of `experiment/seccomp` | the plan, the program, and its run on a call |
| `Hooks` | `run_hooks` | the hook, its pipe, the thread that waits |
| `Foreground` | `handle_foreground` | children, signals, terminal, stdout and its reader, the relay thread |
| `CgroupStats` | statistics and `events` | the kernel's counters, the report being filled in file by file |

Modules named `MC...` give the constants their values. Modules named `...Proofs`
hold the proofs, each `EXTENDS` the components it is about: `ContainerCreateProofs`,
`LifecycleProofs`, `CgroupProofs` (`CgroupV2`, `Freezer` and `SystemdManager`),
`HierarchyProofs` (`CgroupV1`), `SupervisionProofs` (`Hooks` and `Foreground`), `InitProofs` (`InitPrivileges`,
`InitNamespaces` and `UserNamespace`), `ResourceProofs` (`IntelRdt` and
`MemoryControllers`) and `DeviceProofs` (`Devices`, `RootfsDev`).

The kernel, systemd, the D-Bus peer, libseccomp, shadow-utils and the processes
inside a container are not youki's code. They are modelled from how youki uses
them and marked `external` in the map: the cgroup tree and its rules, mount
propagation, credentials across `exec`, the BPF interpreters, resctrl, pipes,
pseudo-terminals and signals. Payloads, names and messages are model values;
an optional value is `<<>>` or `<<v>>`.

## The two cores

### `ContainerCreate`

`pc` is where each of the three processes is. `queue` holds the unread messages
of each channel, and `holders` the processes that hold a copy of its sending
end. Clones duplicate descriptors, so a receiver sees end-of-file only when its
queue and its `holders` are empty. `cgroup` is cgroup membership, `pending` the
main process's `InitRequestSequence`, `victims` what cleanup read from
`cgroup.procs`, and `state` the status in `state.json`. `served`, `filtered` and
`surprised` record history for the properties.

| Actions | Code |
|---|---|
| `MainClone`, `MainRecord`, `MainRecordError` | `run_container` |
| `MainClose` ... `MainWait` | `container_main_process`, in its order |
| `MainCleanup`, `MainKill`, `MainGiveUp` | `create`, `cleanup_container`, `remove` of the cgroup manager; `MainGiveUp` is a cleanup that killed nobody, or none |
| `InterCgroup` ... `InterExit`, `InterFail` | `container_intermediate_process` and its clone callback |
| `InitClose` ... `InitExec`, `InitFail` | `container_init_process` and its clone callback |
| `NotifyContainerStart` | `start`, or the tenant builder after create |
| `Crash` | a child is killed between two of its steps |

`ContainerArgs` keeps what the protocol branches on. Every fallible step of a
child may fail, and so may the main process's work for a request. Cleanup reads
the pids and kills them in two steps, so a fork can come in between, and it may
kill nobody (`uncleaned`): the cgroup manager cannot be made, or `remove` fails
before its first signal and the directory is removed all the same. A failed
`send` is a failed step. A crash of the main process is in `Lifecycle`. The
messages `AskMountFd`, `MountFdReply` and `MountFdError` are left out, since only
unit tests send them.

### `Lifecycle` and `ContainerLife`

`dir`, `file`, `config` and `sock` are the container directory and its files;
`proc`, `doomed` and `notified` say of each init process whether it is alive,
was sent a fatal signal, was connected to; `cgroup` and `frozen` are the cgroup, and
`spared` is whom a `remove` that killed nobody left, when its caller went on.
`env`, chosen once in `Init`, is the environment of a behaviour: which commands,
how many at a time, which steps may fail, whether commands may die.

| Actions | Code |
|---|---|
| `Begin` | a command is issued |
| `Load`, `Check` | `load_container`, then each command's `refresh_status` and match (`StartFrom`, `KillFrom`, `DeleteFrom`, `PauseFrom`, `ResumeFrom`) |
| `Connect` | `start` |
| `Freeze`, `Signal`, `Thaw`, `KillOne` | `pause`, `kill_all_processes`, `resume`, `kill_one_process` |
| `Open`, `Write` | `State::save`: truncate, then write |
| `Uncgroup`, `Reap`, `Rmdir` | the end of `delete`, and `cleanup_container` |
| `Exists` ... `Spawn` | `InitContainerBuilder::build` |
| `InitStart`, `ProcessExit`, `Die`, `Crash` | the init process, the kernel, the death of a command |

A command works on the status it loaded, so it can be stale. A save truncates
and then writes, so a crash in between leaves an empty file, and two overlapping
saves can leave the tail of the longer text behind the shorter one. Pids are
never reused, a save of `youki_config.json` is one step, and the container's
cgroup holds init processes only.

`ContainerLife` is what the runtime promises of a container id, without files,
sockets or freezers: a process is born waiting, and only while the id leads to a
container; its payload runs only after a `start`; a process that was told to die
or has ended is never revived; and the id stops leading to a container only when
nobody is left behind who was not at least told to die. Where the removal of a
cgroup may fail (`~sound`) a process may be given up alive, and only there.
`Lifecycle` implements it under the mapping `life[p] <- Life(p)`,
`known <- config`, `lost <- spared`.

## Runs

Each of five runs covers several components. They never interact, so the run's
module chooses one in `Init` (the variable `part`), gives the others a fixed
idle state, and adds their behaviours up instead of multiplying them. It `EXTENDS`
the components that theorems are about, so that the invariant TLC checks is the
definition the theorem names, and takes the others, and further instances of the
same component, with `INSTANCE`. The components it extends share one name space,
which is why their `Init`, `Next`, `Spec` and `vars` have prefixes (`V2Init`,
`hookVars`). A property of such a run is named for what an operation promises and
is the conjunction of the component properties that say so; the comment on each
states them. The type invariant of each component is defined in its module, and in
the `MC` module for all of them; it can be added to the cfg. The cfgs spend their
time on the rest. Where the guards of a `CASE` overlap, the first that holds is
meant, as TLC reads it; the modules with theorems have no such `CASE`.

| Run | States | Shows |
|---|---|---|
| `create` | 44,552 | Create and exec, privileged and rootless, any child failing or dying anywhere. No process receives a message it does not expect; init is born with mappings, offsets and cgroup in place; hooks and devices come before the seccomp filter; success means everything was served and nothing is unread; a failed privileged create that was cleaned up leaves no child and no directory; the main process returns and no child waits forever. |
| `lifecycle` | 916,161 | Five environments: one command at a time on cgroup v1 and on v2; the same with commands that fail and die anywhere; two at a time; two at a time where removing a cgroup may fail. Between orderly commands the reported status is the truth; no living process that was not killed loses the config that leads to it, unless a removal that killed nobody was passed over; SIGKILL gets through to a paused container; all of it implements `ContainerLife`. |
| `cgroup_managers` | 330,833 | v1, two v1 siblings, v2 while creating and while removing, freezers, systemd with timely and late replies, D-Bus with one call of any kind and with several calls whose replies may be late. Calls of the v1 manager may fail anywhere, and siblings fill their cpusets read by read. A container is placed in and removed from every hierarchy; controllers reach its cgroup; `pause` freezes everything or is undone; a D-Bus call returns the first reply in its socket, its own if none before was late; every operation ends. |
| `resource_limits` | 182,452 | What limits become. An update lands whatever was in force, and keeps what it does not name; managers agree; device programs decide as the rules do and are swapped without a gap; a resctrl group in use stays; the NUMA mask is the node list, up to its last bit. |
| `rootfs` | 432,588 | A mount is attached once with what its options ask for, through all retries and fallbacks; the host, which mounts and unmounts meanwhile, sees no event but below its own shared mounts inside the rootfs; the root is changed and the old one gone; masked and read-only paths and `/dev` are as asked. |
| `init_process` | 336,690 | Namespaces entered, and the host's written to only where the spec names them; ids mapped and taken; capabilities bounded; the profile in force and its listener served; the filter libseccomp is given decides each call as the profile says, and the program of the experimental compiler does for the profiles one rule can hold. |
| `supervision` | 644,580 | Hooks in order and none left running; the foreground relay returns init's status and all its output; statistics are consistent although read one after the other; all three end. |

Five runs are expected to be violated. Each states what a comment in the code
says, and shows an execution in which the code does otherwise.

* `create_rootless_userns`: in `setup_userns` the intermediate process waits on
  a channel whose sender it holds itself. If writing the mappings fails and a
  rootless cleanup cannot kill it, it waits forever.
* `lifecycle_pause_kill`: on cgroup v1, `kill` decides whether to thaw from the
  status it loaded. A concurrent `pause` leaves the process frozen with SIGKILL
  pending, and `kill` then overwrites `Paused`.
* `lifecycle_kill_created`: `kill` saves `Stopped` whatever the signal did. A
  created container that ignores the signal is then reported `Running`.
* `lifecycle_delete_creating`: a state without pid is refreshed to `Stopped`,
  so `delete` without force removes a container that is being created.
* `mount_no_pivot`: with `--no-pivot` and `rootfsPropagation` shared, `move_root`
  unmounts `/sys` and `/proc` while `/` is still a peer of the host's `/`.

### Where the properties stop

Some properties hold only with an exception. The exception is part of the property,
and each names something the code does; without it TLC finds an execution.

**The code breaks the plain property here.**

* `FailedCreateLeavesNothing` is about privileged create whose cleanup got as far as
  reading the pids. `cleanup_container` goes on to remove the directory when `remove`
  failed before its first signal, and returns early, directory and all, when it cannot
  make its cgroup manager; a rootless child may be outside the cgroup. The cleanups
  that killed nobody end in `uncleaned`.
* `NoOrphan` and `ImplementsContainerLife` except `spared`: processes that were alive
  when a `remove` killed nobody and its caller went on, which `cleanup_container` always
  does and `delete` does when systemd denies having the unit.
* `MaskIsTheNodes`: `build_nodemask` passes the size of its mask as `maxnode`, of which
  the kernel reads one bit less. A highest node that is the last bit of a word is not
  seen, and alone is refused with `EINVAL`.
* `HostUntouched`, mounts: `make_parent_mount_private` deals with the mount the rootfs
  is on. With a shared propagation and no user namespace a mount of the host *inside*
  the rootfs stays a peer of its clone, and what the spec mounts below it appears in the
  host, once (`Strays`). "no pivot" is without `shared`, because of `mount_no_pivot`.
* `EnteredAsAsked`: the validator refuses the host's network namespace by its path, and
  no other. A spec that names the host's ipc, uts or mount namespace has sysctls written
  to it and paths covered in it (`AsksForHost`).
* `PayloadAsAsked`: a capability the runtime itself was started with as inheritable
  stays so unless the spec lists inheritable capabilities (`StillInheritable`).
* `DecidesAsMeant`, the compiler of `experiment/seccomp`: a plan holds one rule
  (`OneRule`), so entries with different actions or tests, several tests, and an errno
  action without a value are not compiled as written. More names than one chunk (254 in
  the code) give the action to every other call, and a section of 253 to 255
  instructions wraps the jump a foreign architecture takes (`ShortEnough`). GreaterThan
  is compiled as GreaterOrEqual, MaskedEqual as a test for any bit (`ComparedOtherwise`).
* `NeverHangs`: the check refuses a profile that notifies `write`, but the fd leaves the
  process with `sendmsg`. Under a profile that notifies that, init waits for a listener
  that has not been told (`WaitsForItself`).
* `ReportIsConsistent`: a v1 report gives user and kernel time in the ticks of
  `cpuacct.stat` and every other time in nanoseconds; the property takes each in its own
  unit. v2 scales all of them.
* `SupervisionEnds`: the foreground run waits for ever on a stdout that is full and that
  nobody reads. `ReturnsFaithfully` excepts output after stdout was closed: the relay ends
  with the first write that fails. It also takes the hang-up of the terminal for the end
  of the output, so init keeps its terminal open in the part about output.
* `ExchangeIsFaithful`: replies are not matched to calls. After a timeout the next call
  returns the late reply, and every later call is one behind; after a message was left
  half read a call may return anything (`ReadGarbled`). In `SystemdManager`, where a reply
  may be late (`late`), only `AddedHasJoined` and `LimitsReachTheUnit` are stated.
* `MountedOnceAsAsked`: a retry stacks a mount on itself after a failure of the recursive
  attributes that follow `mount(2)`, or of the propagation of a cgroup mount.

**The property is about a part of the executions.**

* `ReportedIsTrue` and `OrderlyKillTakesEffect` are about `Orderly` environments:
  one command at a time, SIGKILL only, no crashes, no failures of `open`, `signal`,
  `thaw`, `remove` or `rmdir`, and on v2, whose freezer does not undo a request, none of
  `freeze`. The code does not undo a half-done save, an early return of `kill --all` that
  leaves the cgroup frozen, a failed thaw after SIGKILL, or a half-removed directory. So
  the status after a sequence of *failing* commands is covered only for the failures that
  remain: those of `config`, `spawn`, `cgroup`, `hooks`, and of `freeze` on v1.
* Killing takes effect means that the process dies *or* `state.json` says
  `Paused`: a `pause` issued after `kill`, before the signal took effect, freezes
  the process again.
* All passing environments leave create alone (`alone`): no other command is
  issued while one runs. Two creates can both find no directory, and the loser's
  cleanup then removes the winner's.
* `WaitersReleased` in `create` is without a new user namespace, because of
  `create_rootless_userns`, and asks nothing of an intermediate process that no cleanup
  killed.
* What the root looks like afterwards is stated for pivot_root only. The host mounts and
  unmounts meanwhile, but not the mount the rootfs is on, nor one above it.
* `FailedPauseThaws` is about v1; the v2 freezer does not undo its request.
* v1 memory limits are updated by one client. The order of writes follows the
  limit read before; a second updater in between can make a consistent update fail.
* `ManagersAgree` of the cpu part is about the first request to a fresh cgroup, without
  unified entries; `UnnamedIsKept` is about the files of v1 and v2; `DefaultsStayOpen` in
  v1 is about rules that begin by denying everything.
* A statistics file of the kernel is well formed, so the parsers meet a file that is
  missing and no other error. Limits, pressure and the number of pids are read in their
  turn and not kept in the modelled report.
* A hook's state fits the pipe and always encodes: it was loaded from `state.json` or
  has just been saved to it. A descendant that keeps the terminal writes a bounded
  number of times: the drain of the relay has no bound of its own.
* `supervision` has no deadlock check, since hooks without a timeout and payloads may
  hang for ever. The parts of the other runs that may stop do so through the step
  `Stopped`.

### Bounds

`ContainerCreate` needs none: each process takes a bounded number of steps.
`NamespaceArgs` takes every combination the intermediate process looks at,
`RequestArgs` every one init looks at, and a few specs combine both; the two
groups interact only through whether the intermediate process finished. In
`Lifecycle`, `creates` bounds create attempts (two, so that a container can be
created again after delete) and `active` is two where commands overlap, since
each hazard listed is a race of two. A command can be issued again, so
sequences of commands are unbounded.

Loops keep their shape and lose length. Pause tries 30 times and thaws on every
seventh (1000 and 50 in the code); v1 removal tries 4 times, v2 removal 4; the
systemd manager polls twice; `EBUSY` is met up to 3 times with 3 retries. Each is
enough for a loop to succeed first time, in the middle, last, and never. Numbers
keep their wrap-around at a smaller width: cpu masks are words of 2 bytes of 2
bits, user ids have 3 bits, BPF words 1 bit with jumps of at most 12 (255 in the code,
so that lists of 9 to 13 names lie on both sides of a chunk), NUMA masks
words of 4 bits, memory limits run to 4. The kernel's counters move twice under one
report, the host mounts or unmounts twice, and three D-Bus calls follow each other on a
socket, so that the first is late for the second and the second for the third. Two requests follow each other where one
meets what the other left. Two device updaters, two RDT containers with two
groups, and two v1 siblings are the races of the hazard list.

### Fairness

Each thread or process that youki runs is weakly fair once begun, because the
kernel schedules it: the three processes of creation, lifecycle commands, remove
and pause, the systemd client, the init and main process at the seccomp
hand-over, the threads of hooks and of the foreground relay, the reader of
statistics. So is the peer where a call has no timeout of its own: systemd serves
what it received and runs its jobs, and a hook of which `run_hooks` waits without
timeout is assumed to end. Crashes, lost replies, new commands, `start`, and the
exit of a payload are never forced. `Die` in `Lifecycle` is strongly fair: a
pending SIGKILL is delivered as soon as a v1 cgroup is thawed, and a process
frozen and thawed again and again does get to run in between.

## Proofs

TLC checks the instances above; the theorems hold for every value of the constants
that satisfies the hypotheses named here. Each proof has the same shape: an
inductive invariant that TLC confirmed first, one step per action, and a last step
that reads the property off the invariant. The invariant is needed because the
property speaks of the end of an operation, and is kept only because of what was
true at each step before it. A hypothesis is a definition of the proof module, its
comment says why the code is entitled to it, and the constants of the runs satisfy it.

**`ContainerCreateProofs`**, for every set `Specs` that satisfies `SpecsAssumption`:

* `TypeCorrect`: `[]TypeOK`, one lemma per process.
* `BornReady`: `[]InitBornReady`. The property says nothing of the intermediate
  process. `BornInv` adds that an unread acknowledgement stands for something
  written, that the intermediate process passes each waiting point only with the
  file written, and that from `apply_cgroups` on it is in the cgroup unless rootless.
* `FilterComesLast`: `[]SetupBeforeFilter`. `FilterInv` says the same of the answers
  init waits for.
* `NobodyIsSurprised`, `CreateIsComplete`: `[]NoSurprise`, `[]CreatedIsComplete`. The
  invariant is the dialogue itself. `InterTurns` and `InitTurns` say, label by label,
  which one message is on its way between main and each child, who waits for it, and
  that what main still has to serve is exactly what lies ahead of init. A child that
  has died leaves a message its channel was owed, or end-of-file.
* `FailureLeavesNothing`: `[]FailedCreateLeavesNothing`. `CleanInv` adds that whoever
  is alive when cleanup kills was among the pids it read. It speaks of the cleanups that
  get to kill, as the property does.

**`LifecycleProofs`**, for every set of commands, bound on creates and set of
environments:

* `Invariance`: `[]IInv`, which is `TypeOK` with `Paths` (which steps a create takes),
  `Footing` (a config is in a directory, members have a cgroup, pids are used in
  order) and, in environments that leave create alone, `Care`. `NoOrphan` speaks of
  files and processes only: that `reap` and `rmdir` may remove the config needs to
  know that whoever gets there has killed every member, or went on after a `remove` that
  did not, and that `spawn` may add a process needs the config to be there, so nobody to
  be removing it. `Care` says both.
* `TypeCorrectness`, `NobodyIsOrphaned`: its consequences `[]TypeOK`, `[]NoOrphan`.
* `Refinement`: `Spec => ImplementsContainerLife`, if every environment leaves create
  alone. `LifeStep` maps each action to a step of `ContainerLife` or a stutter;
  `SignalIsStop` shows that a signal to the cgroup is the `Stop` of those of its members
  that were not killed before; a `remove` that is passed over is a `GiveUp`.
* `ReportIsTrue`: `[]ReportedIsTrue`. In an `Orderly` environment one command runs at
  a time, and `Turn` says what that command knows at each of its steps: what it has
  loaded still is the state, and what it is about to save will be the truth.

**`CgroupProofs`**:

* `PauseWhole`: `[]PauseIsWhole`, for every number of tries and any deadline.
* `RemovalIsExact`: `RemovesExactly`, an action property, assuming `Cgroups` (paths are
  sequences of names, not the root). `TreeInv`: every directory has its parents, so
  one that has no subdirectory and no process can go and nothing goes with it.
* `LimitsFindTheirFiles`: `[]ControllersReachTheLeaf`, assuming `Cgroups`, `Unnested`
  (no container's cgroup lies above another's, where the kernel allows no processes)
  and that the needed controllers are available. `HandedDown`: a level that exists was
  made after the one above it had handed everything down, whichever command made it.
* `DoneAsReported`: `[]ReportedIsDone`, assuming `YoukiPrograms` (the sequences of
  operations create, exec, update and delete make). `Dialogue` says which call is unanswered at
  each label, and `Astray` the only place where a late reply can break that:
  after `GetUnit` of `add_task` has timed out. `UnitInv` then shows that no call still
  in the socket can undo what was reported, and `LevelInv` how far `apply` has handed
  the controllers down.

**`HierarchyProofs`**:

* `HierarchiesAgree`: `[]InEveryHierarchy`, for every number of containers, assuming
  `Hosted` (the machine has cpus, and each mounted hierarchy is the only one of some
  controller the manager knows). `HostInv` says that only a container's own processes
  are in its cgroup; `Standing`, `People` and `Placed` say for one container which
  hierarchies its operation has handled, and `Fills` how far the cpuset has been filled:
  what was read above is not empty, whatever a sibling writes between the read and the
  write. Whoever fails half way through `add_task` exits, so when a remove begins every
  other process is in every hierarchy, and the first `rmdir` that succeeds shows that
  none is left. `FrameKeeps` shows once for all actions that a sibling's step leaves
  what a container rests on.

**`SupervisionProofs`**:

* `HooksInOrder`: `[]OneAfterAnother`, for all lists of hooks. `ProcessInv`: the next
  hook is spawned, and `run_hooks` returns, only once the last one has been reaped.
* `ForegroundIsFaithful`: `[]ReturnsFaithfully`, for every bound and whether the
  terminal may be reopened or not. `OutputInv` counts: what init wrote is on stdout or
  in the terminal, until stdout is closed. `RelayInv`: the relay drains only after it was told to stop, which
  is after init has ended, so what it leaves behind is not init's.

**`InitProofs`**:

* `PayloadGetsWhatIsAsked`: `[]PayloadAsAsked`, assuming `Typed` (ids and capabilities
  are of their types, and no more descriptors are handed over than exist). `CredInv` follows the five capability sets through the
  change of user, the drop and `exec`; `FilterInv`, `CwdInv` and `FdInv` say which of
  two places loads the filter, enters the directory, and counts the descriptors.
* `NamespacesAreAsAsked`: `[]EnteredAsAsked`, assuming `SpecShape` (a
  namespace is new, the host's, another container's or not there, of whatever type).
  `PlaceInv` gives the namespace of every type at every step, `WritesInv` what was
  written where: a write before its namespace is entered would go to the host.
* `IdsAreAsAsked`: `[]IdsAsAsked`, assuming `Mapped` (mappings are lists of extents of
  natural numbers). `UserInv` carries what the validator refused to the steps that
  would panic on it, and the order of `setgroups`, the maps and the ids.

**`ResourceProofs`**:

* `GroupIsKept`: `[]StaysInItsGroup`, assuming `OwnNames` (no container id is the closID
  of another; youki does not compare them). A container records for deletion no group
  but its own.
* `UpdatesLand`: `[]UpdateLands`, for all amounts, assuming `OneClient` (one update at a
  time, amounts within what the kernel counts). The kernel refuses a limit above
  memory+swap at every single write. `V1Stage` and `V2Stage` list what can be left of
  a plan, and what the files must hold for the rest to be accepted.

**`DeviceProofs`**:

* `FilterStays`: `[]NewestStays`, for all updaters, assuming `Earlier` (the filters in
  place at first are not those of the updates). `FilterInv`: whoever detaches has read
  what it detaches before the newest program was attached.
* `DevIsAsAsked`: `[]DevAsAsked`, for every spec, assuming `OwnPaths` (no device of the
  spec is at `/dev/fd` or `/dev/console`, where the runtime puts its own). `DevfsInv`:
  the devices made so far are as asked and stay so, because `mknod` refuses a name that
  is taken, a bind of the same name shows the same device, and the umask is empty just
  while they are made. `AllAreListed` shows that the list has what is wanted.

### What is only model-checked

* Liveness (`MainReturns`, `WaitersReleased`, `OrderlyKillTakesEffect`, `OperationsEnd`,
  `NeverHangs`, `SupervisionEnds`): fairness is out of the prover's reach.
* `ExchangeIsFaithful`, `CoveredAsAsked`: the encoding and the mount tree are recursive
  operators. `DecidesAsMeant`, `AccessAsRuled`, `ReportIsConsistent`, `MaskIsTheNodes`,
  `ManagersAgree`, `UnnamedIsKept`: what a compiler, an emulator, a parser or a
  conversion computes for every input would need induction over that input.
* `MountedOnceAsAsked`, `HostUntouched` and `RootIsChanged` rest on folds over options
  and mounts. `ProfileInForce` was not attempted.

## Not modelled, and why

* **Checkpoint and restore** are done by CRIU; **command-line parsing** and
  `info`, `list`, `ps`, `features`, `spec` only read or format. **Network devices**:
  the handshake is in `ContainerCreate`, the netlink messages are I/O.
* **Tenant builder**: its exec pipe, which carries an exec error to the parent.
* **Intel RDT**: deletion by container id of states written by older versions, and
  the search for the resctrl mount point.
* **Kernel checks** on v1 cpu files. Writes may be refused in the model, but not
  for the kernel's own reasons.
* **Details reduced to their outcome**: `EINTR`, never
  returned; the `ENOSPC` retries of the BPF program query, one step; the conversion of cpu
  shares to a weight by a floating-point fit, a table of constants; device modes,
  reduced to who may write; the SELinux option of a mount, data only; arguments and
  environment of a hook; the copy of stdin to the terminal and failing ioctls in the
  foreground run; a container without a mount namespace.
* **Pid reuse.** Every command trusts the pid in `state.json`; the models never reuse
  one.
* The WebAssembly executors, the integration-test crates and the tools are not part
  of the runtime's control.
