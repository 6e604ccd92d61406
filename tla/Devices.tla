------------------------------ MODULE Devices ------------------------------
(***************************************************************************)
(* Device access of a container.  cgroup v2 has no device files: the rules *)
(* are folded by the emulator, compiled to an eBPF program and swapped for *)
(* the programs already attached to the cgroup.  Under systemd the rules   *)
(* also go to the unit as DevicePolicy and DeviceAllow, from which systemd *)
(* derives a program of its own.  cgroup v1 takes the rules one by one.    *)
(*                                                                         *)
(* An access is a set of the letters r, w and m; an optional one is <<>>   *)
(* or <<access>>.  An optional number that is absent is None.              *)
(***************************************************************************)
EXTENDS Integers, Sequences, FiniteSets, SequencesExt, TLC

CONSTANTS
    Updaters,     \* processes that apply device rules to the one cgroup
    RuleLists,    \* linux.resources.devices lists explored
    DeviceManagers,     \* [kind: {"fs", "systemd", "v1"}, version: Nat, rootless: BOOLEAN]
    FirstFilters, \* sets of programs attached at the start
    ProcDevices,  \* the lines of /proc/devices
    Nodes,        \* <<type, major, minor>> of the nodes under /dev/char and /dev/block
    Probes        \* accesses asked of a filter: [typ, major, minor, access]

None == -2
RWM == {"r", "w", "m"}

VARIABLES
    manager,   \* the cgroup manager of the container
    rules,     \* updater -> its rule list
    devPc,        \* updater -> next step of apply
    old,       \* updater -> programs bpf_prog::query returned, not yet detached
    attached,  \* programs attached to the cgroup
    newest,    \* the eBPF programs of apply_devices, in the order they were attached
    whitelist, \* the cgroup v1 device controller: [allow, ex]
    written    \* updater -> rules written to it

devVars == <<manager, rules, devPc, old, attached, newest, whitelist, written>>

-----------------------------------------------------------------------------
(* Rules *)

Allow(typ, major, minor, access) ==
    [allow |-> TRUE, typ |-> typ, major |-> major, minor |-> minor, access |-> <<access>>]

\* default_devices, as LinuxDeviceCgroup::from makes rules of them.
DefaultDevices ==
    <<Allow("c", 1, 3, RWM), Allow("c", 1, 5, RWM), Allow("c", 1, 7, RWM),
      Allow("c", 5, 0, RWM), Allow("c", 1, 9, RWM), Allow("c", 1, 8, RWM)>>

\* default_allow_devices: mknod of anything, console, pts, ptmx and tun.
DefaultAllowDevices ==
    <<Allow("c", None, None, {"m"}), Allow("b", None, None, {"m"}), Allow("c", 5, 1, RWM),
      Allow("c", 136, None, RWM), Allow("c", 5, 2, RWM), Allow("c", 10, 200, RWM)>>

Defaults == DefaultDevices \o DefaultAllowDevices

\* A rule without a type is of type a.
Typ(rule) == IF rule.typ = "none" THEN "a" ELSE rule.typ

\* Emulator::add_rule
AddRule(e, rule) ==
    CASE Typ(rule) = "a" -> [allow |-> rule.allow, rules |-> <<>>]
      [] Typ(rule) # "a" /\ rule.access = <<>> -> e
      [] OTHER -> [e EXCEPT !.rules = Append(@, rule)]

\* Emulator::with_default_allow(false) and add_rules
Emulate(list) == FoldLeft(AddRule, [allow |-> FALSE, rules |-> <<>>], list)

-----------------------------------------------------------------------------
(* The eBPF program.  r2 .. r5 hold the type, the access, the major and the  *)
(* minor of the access asked for, r1 is a scratch register, r0 the verdict.  *)

Insn(op, dst, value, off) == [op |-> op, dst |-> dst, value |-> value, off |-> off]

\* bpf_dev_type and bpf_access refuse the other types and letters.
Unsupported(rule) == Typ(rule) \in {"u", "p"} \/ ~(rule.access[1] \subseteq RWM)

(* mutant: the jump of the access test skips one instruction too few *)
RuleCode_short_jump(rule) ==
    LET access == rule.access[1]
        tests(b, n) == IF b THEN n ELSE 0
        hasAccess == access # RWM
        hasMajor == rule.major >= 0
        hasMinor == rule.minor >= 0
        count == 1 + tests(hasAccess, 3) + tests(hasMajor, 1) + tests(hasMinor, 1) + 2
        afterType == count - 1
        afterAccess == afterType - tests(hasAccess, 3)
        afterMajor == afterAccess - tests(hasMajor, 1)
        afterMinor == afterMajor - tests(hasMinor, 1)
    IN  <<Insn("jne", 2, Typ(rule), afterType)>>
        \o (IF hasAccess THEN <<Insn("mov_r3", 1, {}, 0), Insn("and", 1, access, 0),
                                Insn("jne_r3", 1, {}, afterAccess - 1)>> ELSE <<>>)
        \o (IF hasMajor THEN <<Insn("jne", 4, rule.major, afterMajor)>> ELSE <<>>)
        \o (IF hasMinor THEN <<Insn("jne", 5, rule.minor, afterMinor)>> ELSE <<>>)
        \o <<Insn("mov", 0, rule.allow, 0), Insn("exit", 0, {}, 0)>>

\* Program::add_rule: tests that jump past the rule, then its verdict.
RuleCode(rule) ==
    LET access == rule.access[1]
        tests(b, n) == IF b THEN n ELSE 0
        hasAccess == access # RWM
        hasMajor == rule.major >= 0
        hasMinor == rule.minor >= 0
        count == 1 + tests(hasAccess, 3) + tests(hasMajor, 1) + tests(hasMinor, 1) + 2
        afterType == count - 1
        afterAccess == afterType - tests(hasAccess, 3)
        afterMajor == afterAccess - tests(hasMajor, 1)
        afterMinor == afterMajor - tests(hasMinor, 1)
    IN  <<Insn("jne", 2, Typ(rule), afterType)>>
        \o (IF hasAccess THEN <<Insn("mov_r3", 1, {}, 0), Insn("and", 1, access, 0),
                                Insn("jne_r3", 1, {}, afterAccess)>> ELSE <<>>)
        \o (IF hasMajor THEN <<Insn("jne", 4, rule.major, afterMajor)>> ELSE <<>>)
        \o (IF hasMinor THEN <<Insn("jne", 5, rule.minor, afterMinor)>> ELSE <<>>)
        \o <<Insn("mov", 0, rule.allow, 0), Insn("exit", 0, {}, 0)>>

\* Program::from_rules: the last rule is tested first; finalize adds the default.
FromRules(e) ==
    FlattenSeq([i \in 1 .. Len(e.rules) |-> RuleCode(e.rules[Len(e.rules) + 1 - i])])
    \o <<Insn("mov", 0, e.allow, 0), Insn("exit", 0, {}, 0)>>

\* The kernel's interpreter: instruction i with the registers r, of which a program
\* writes the first two.
Execute(code, r) ==
    LET run[i \in 1 .. Len(code), r0 \in BOOLEAN, r1 \in SUBSET RWM] ==
            LET insn == code[i]
                Unless(equal) == run[i + 1 + (IF equal THEN 0 ELSE insn.off), r0, r1]
            IN  CASE insn.op = "exit"   -> r0
                  [] insn.op = "mov"    -> run[i + 1, insn.value, r1]
                  [] insn.op = "mov_r3" -> run[i + 1, r0, r[3]]
                  [] insn.op = "and"    -> run[i + 1, r0, r1 \cap insn.value]
                  [] insn.op = "jne"    -> Unless((IF insn.dst = 1 THEN r1 ELSE r[insn.dst]) = insn.value)
                  [] insn.op = "jne_r3" -> Unless(r1 = r[3])
    IN  run[1, r[0], r[1]]

\* Program::init loads the registers from struct bpf_cgroup_dev_ctx.
LoadContext(probe) ==
    (0 :> FALSE) @@ (1 :> {}) @@ (2 :> probe.typ) @@ (3 :> probe.access)
    @@ (4 :> probe.major) @@ (5 :> probe.minor)

\* What apply_devices compiles: the user's rules, then the defaults.
FilterRules(list) == Emulate(list \o Defaults)

ProgramAllows(list, probe) == Execute(FromRules(FilterRules(list)), LoadContext(probe))

-----------------------------------------------------------------------------
(* systemd's DevicePolicy and DeviceAllow *)

\* find_device_group_in: the first group name listed for the major in the section
\* of the type; a section ends at a blank line and node paths are no groups.
FindDeviceGroup(typ, major) ==
    LET InSection(i) == \E h \in 1 .. i - 1 :
            /\ ProcDevices[h] = <<"section", typ>>
            /\ \A k \in h + 1 .. i - 1 : ProcDevices[k] # <<"blank">>
        found == {i \in DOMAIN ProcDevices :
                    /\ ProcDevices[i][1] = "group"
                    /\ ProcDevices[i][2] = major
                    /\ InSection(i)}
    IN  IF found = {} THEN <<>>
        ELSE <<ProcDevices[CHOOSE i \in found : \A j \in found : i <= j][3]>>

\* The DeviceAllow path of a rule: <<>> for a rule that is passed over.  A path is
\* <<type, "any">>, <<type, "major", n>>, <<type, "group", name>> or
\* <<type, "node", n, m>>.
DevicePath(rule, version) ==
    LET typ == Typ(rule)
        group == FindDeviceGroup(typ, rule.major)
    IN  CASE rule.major < 0 /\ rule.minor < 0 -> << <<typ, "any">> >>
          [] rule.major < 0 /\ rule.minor >= 0 -> <<>>
          [] rule.major >= 0 /\ rule.minor < 0 ->
                 IF version >= 240 THEN << <<typ, "major", rule.major>> >>
                 ELSE IF group = <<>> THEN <<>> ELSE << <<typ, "group", group[1]>> >>
          [] OTHER -> IF version < 240 /\ <<typ, rule.major, rule.minor>> \notin Nodes THEN <<>>
                      ELSE << <<typ, "node", rule.major, rule.minor>> >>

\* The list that is sent: one entry for a path with the accesses of its rules
\* merged, and none with an empty access.
AllowList(list, version) ==
    LET paths == {p \in {DevicePath(list[i], version) : i \in DOMAIN list} : p # <<>>}
        access(p) == RWM \cap UNION {list[i].access[1] :
                         i \in {j \in DOMAIN list : DevicePath(list[j], version) = p}}
    IN  {[path |-> p[1], access |-> access(p)] : p \in {q \in paths : access(q) # {}}}

HasDeny(list) == \E i \in DOMAIN Emulate(list).rules : ~Emulate(list).rules[i].allow

\* Devices::apply_devices_from
SystemdDevices(list, version) ==
    LET user == Emulate(list)
        all == FilterRules(list).rules
    IN  CASE user.allow /\ ~HasDeny(list) -> [error |-> FALSE, policy |-> "auto", allow |-> {}]
          [] HasDeny(list) -> [error |-> FALSE, policy |-> "strict", allow |-> {}]
          [] OTHER -> IF \E i \in DOMAIN all : Typ(all[i]) \in {"u", "p"}
                      THEN [error |-> TRUE, policy |-> "auto", allow |-> {}]
                      ELSE [error |-> FALSE, policy |-> "strict", allow |-> AllowList(all, version)]

\* systemd resolves a group name to every major listed under it.
GroupMajors(typ, name) == {ProcDevices[i][2] : i \in {j \in DOMAIN ProcDevices :
                              /\ ProcDevices[j][1] = "group" /\ ProcDevices[j][3] = name
                              /\ FindDeviceGroup(typ, ProcDevices[j][2]) = <<name>>}}

PathNames(path, probe) ==
    /\ path[1] = probe.typ
    /\ CASE path[2] = "any" -> TRUE
         [] path[2] = "major" -> path[3] = probe.major
         [] path[2] = "group" -> probe.major \in GroupMajors(path[1], path[3])
         [] path[2] = "node" -> path[3] = probe.major /\ path[4] = probe.minor

\* The verdict of the program systemd derives from the unit's properties.
SystemdAllows(list, version, probe) ==
    LET sent == SystemdDevices(list, version)
    IN  \/ sent.policy = "auto"
        \/ \E entry \in sent.allow : PathNames(entry.path, probe) /\ probe.access \subseteq entry.access

-----------------------------------------------------------------------------
(* The cgroup v1 device controller *)

\* The rule as it is written: the kernel takes "a" for everything, refuses pipes,
\* unbuffered devices, negative numbers and unknown letters.
V1Refuses(rule) ==
    /\ Typ(rule) # "a"
    /\ \/ Typ(rule) \in {"u", "p"}
       \/ rule.major = -1 \/ rule.minor = -1
       \/ rule.access # <<>> /\ ~(rule.access[1] \subseteq RWM)

\* A write to devices.allow or devices.deny: exceptions are kept by device and
\* hold the accesses that differ from the default.
V1Apply(w, rule) ==
    LET key == <<Typ(rule), rule.major, rule.minor>>
        held == IF key \in DOMAIN w.ex THEN w.ex[key] ELSE {}
        access == IF rule.access = <<>> THEN {} ELSE rule.access[1]
    IN  IF Typ(rule) = "a" THEN [allow |-> rule.allow, ex |-> <<>>]
        ELSE [w EXCEPT !.ex = (key :> IF rule.allow # w.allow THEN held \cup access
                                      ELSE held \ access) @@ w.ex]

V1Allows(w, probe) ==
    LET Names(key) == /\ key[1] = probe.typ
                      /\ key[2] \in {None, probe.major}
                      /\ key[3] \in {None, probe.minor}
        named == {key \in DOMAIN w.ex : Names(key)}
    IN  IF w.allow THEN \A key \in named : w.ex[key] \cap probe.access = {}
        ELSE \E key \in named : probe.access \subseteq w.ex[key]

-----------------------------------------------------------------------------
(* apply *)

Ebpf(u) == [by |-> u, kind |-> "ebpf", rules |-> rules[u]]
Unit(u) == [by |-> u, kind |-> "systemd", rules |-> rules[u]]

DeviceGoto(u, label) == devPc' = [devPc EXCEPT ![u] = label]

\* An error of apply_devices is only a warning for a rootless systemd manager.
Fails(u) == DeviceGoto(u, IF manager.kind = "systemd" /\ manager.rootless THEN "skipped" ELSE "failed")

DevicesInit ==
    /\ manager \in DeviceManagers
    /\ rules \in [Updaters -> RuleLists]
    /\ devPc = [u \in Updaters |-> CASE manager.kind = "fs" -> "compile"
                                  [] manager.kind = "systemd" -> "properties"
                                  [] manager.kind = "v1" -> "write"]
    /\ old = [u \in Updaters |-> {}]
    /\ attached \in IF manager.kind = "v1" THEN {{}} ELSE FirstFilters
    /\ newest = <<>>
    /\ whitelist = [allow |-> TRUE, ex |-> <<>>]
    /\ written = [u \in Updaters |-> 0]

\* Manager::apply of systemd: the properties are set, and systemd replaces the
\* program it derived before.
SetUnitProperties(u) ==
    /\ devPc[u] = "properties"
    /\ LET sent == SystemdDevices(rules[u], manager.version)
           others == {p \in attached : p.kind # "systemd"}
       IN  IF sent.error THEN DeviceGoto(u, "failed") /\ UNCHANGED attached
           ELSE /\ DeviceGoto(u, "compile")
                /\ attached' = others \cup IF sent.policy = "auto" THEN {} ELSE {Unit(u)}
    /\ UNCHANGED <<manager, rules, old, newest, whitelist, written>>

Compile(u) ==
    /\ devPc[u] = "compile"
    /\ IF \E i \in DOMAIN FilterRules(rules[u]).rules : Unsupported(FilterRules(rules[u]).rules[i])
       THEN Fails(u) ELSE DeviceGoto(u, "load")
    /\ UNCHANGED <<manager, rules, old, attached, newest, whitelist, written>>

\* bump_memlock_rlimit and load: the kernel may refuse either.
Load(u) ==
    /\ devPc[u] = "load"
    /\ DeviceGoto(u, "query") \/ Fails(u)
    /\ UNCHANGED <<manager, rules, old, attached, newest, whitelist, written>>

\* The cgroup is opened and query collects the programs attached now.
Query(u) ==
    /\ devPc[u] = "query"
    /\ \/ old' = [old EXCEPT ![u] = attached] /\ DeviceGoto(u, "open")
       \/ Fails(u) /\ UNCHANGED old
    /\ UNCHANGED <<manager, rules, attached, newest, whitelist, written>>

\* query, second part: a program that is gone by now has no fd and is passed over.
OpenPrograms(u) ==
    /\ devPc[u] = "open"
    /\ old' = [old EXCEPT ![u] = @ \cap attached]
    /\ DeviceGoto(u, "attach")
    /\ UNCHANGED <<manager, rules, attached, newest, whitelist, written>>

(* mutant: the programs to detach are read after the attach *)
Attach_then_query(u) ==
    /\ devPc[u] = "attach"
    /\ attached' = attached \cup {Ebpf(u)}
    /\ newest' = Append(newest, Ebpf(u))
    /\ old' = [old EXCEPT ![u] = attached']
    /\ DeviceGoto(u, "detach")
    /\ UNCHANGED <<manager, rules, whitelist, written>>

\* attach with BPF_F_ALLOW_MULTI: all programs have to allow an access.
Attach(u) ==
    /\ devPc[u] = "attach"
    /\ \/ /\ attached' = attached \cup {Ebpf(u)}
          /\ newest' = Append(newest, Ebpf(u))
          /\ DeviceGoto(u, "detach")
       \/ Fails(u) /\ UNCHANGED <<attached, newest>>
    /\ UNCHANGED <<manager, rules, old, whitelist, written>>

\* detach2, one program after the other; one that is gone is an error.
Detach(u) ==
    /\ devPc[u] = "detach"
    /\ IF old[u] = {} THEN DeviceGoto(u, "done") /\ UNCHANGED <<old, attached>>
       ELSE \E p \in old[u] :
              /\ IF p \in attached THEN UNCHANGED devPc ELSE Fails(u)
              /\ attached' = attached \ {p}
              /\ old' = [old EXCEPT ![u] = @ \ {p}]
    /\ UNCHANGED <<manager, rules, newest, whitelist, written>>

\* The rules of Devices::apply of cgroup v1.
V1List(u) == rules[u] \o Defaults

\* apply_device: one write.
V1Write(u) ==
    /\ devPc[u] = "write"
    /\ LET rule == V1List(u)[written[u] + 1]
       IN  IF V1Refuses(rule) THEN DeviceGoto(u, "failed") /\ UNCHANGED <<whitelist, written>>
           ELSE /\ whitelist' = V1Apply(whitelist, rule)
                /\ written' = [written EXCEPT ![u] = @ + 1]
                /\ IF written[u] + 1 = Len(V1List(u)) THEN DeviceGoto(u, "done") ELSE UNCHANGED devPc
    /\ UNCHANGED <<manager, rules, old, attached, newest>>

DevicesNext == \E u \in Updaters :
    \/ SetUnitProperties(u) \/ Compile(u) \/ Load(u) \/ Query(u)
    \/ OpenPrograms(u) \/ Attach(u) \/ Detach(u) \/ V1Write(u)

DevicesSpec == DevicesInit /\ [][DevicesNext]_devVars

-----------------------------------------------------------------------------
(* Properties *)

\* Every variable has its shape; only attached programs and programs that were
\* attached are waiting to be detached.
DevicesTypeOK ==
    /\ manager \in DeviceManagers
    /\ rules \in [Updaters -> RuleLists]
    /\ devPc \in [Updaters -> {"properties", "compile", "load", "query", "open", "attach", "detach",
                            "write", "done", "skipped", "failed"}]
    /\ \A p \in attached \cup UNION {old[u] : u \in Updaters} :
          p.kind \in {"ebpf", "systemd"} /\ p.rules \in RuleLists
    /\ \A u \in Updaters : Ebpf(u) \notin old[u]
    /\ Len(newest) <= Cardinality(Updaters)
    /\ whitelist.allow \in BOOLEAN
    /\ \A u \in Updaters : written[u] \in 0 .. Len(rules[u] \o Defaults)

\* What the rules mean, read from the front: a rule of type a resets the verdict,
\* a rule that names the device and covers the access sets it.
Decide(list, probe) ==
    LET Step(verdict, rule) ==
            CASE Typ(rule) = "a" -> rule.allow
              [] Typ(rule) # "a" /\ rule.access = <<>> -> verdict
              [] OTHER -> IF /\ Typ(rule) = probe.typ
                             /\ rule.major < 0 \/ rule.major = probe.major
                             /\ rule.minor < 0 \/ rule.minor = probe.minor
                             /\ probe.access \subseteq rule.access[1]
                          THEN rule.allow ELSE verdict
    IN  FoldLeft(Step, FALSE, list \o Defaults)

\* The emulator, the reversed order of the rules, the jumps over the tests and the
\* default together decide every access as the last rule that applies to it does.
ProgramDecides ==
    \A u \in Updaters : devPc[u] = "load" =>
        \A probe \in Probes : ProgramAllows(rules[u], probe) = Decide(rules[u], probe)

\* The list given to systemd, which is what remains if no eBPF program is attached
\* afterwards, never allows a single access that the rules refuse.  Before version
\* 240 a major is sent as its group, so the other majors of the group come with it.
SystemdGrantsNoMore ==
    manager.kind = "systemd" =>
        \A u \in Updaters : devPc[u] \in {"compile", "skipped"} =>
            \A probe \in {p \in Probes : Cardinality(p.access) = 1} :
                SystemdAllows(rules[u], manager.version, probe) =>
                    \/ Decide(rules[u], probe)
                    \/ /\ manager.version < 240
                       /\ \E name \in {FindDeviceGroup(probe.typ, probe.major)} \ {<<>>} :
                             \E major \in GroupMajors(probe.typ, name[1]) :
                                Decide(rules[u], [probe EXCEPT !.major = major])

\* Attaching before detaching, and detaching only what was there before, keeps the
\* program attached last in place whatever another apply does at the same time: a
\* cgroup that got a filter is never without one.
NewestStays == newest # <<>> => Last(newest) \in attached

\* The default devices are usable after a successful apply, under the program of
\* cgroup v2 and, when the rules start from a deny of everything, under cgroup v1.
DefaultsStayOpen ==
    \A u \in Updaters : devPc[u] = "done" =>
        \A i \in DOMAIN DefaultDevices :
            LET d == DefaultDevices[i]
                probe == [typ |-> d.typ, major |-> d.major, minor |-> d.minor, access |-> RWM]
                fromDeny == rules[u] # <<>> /\ Typ(rules[u][1]) = "a" /\ ~rules[u][1].allow
            IN  IF manager.kind = "v1"
                THEN fromDeny /\ Updaters = {u} => V1Allows(whitelist, probe)
                ELSE ProgramAllows(rules[u], probe)
=============================================================================
