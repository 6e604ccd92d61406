---------------------------- MODULE DeviceProofs ----------------------------
(***************************************************************************)
(* The device filter of a cgroup (Devices) while several updates replace   *)
(* it, for every set of updaters, rules and managers; and the devices of   *)
(* the container's /dev (RootfsDev), for every spec.                       *)
(***************************************************************************)
EXTENDS Devices, RootfsDev, SequenceTheorems, TLAPS

\* The filters in place at first are not those of the updates that are made, and the
\* managers are the three there are.
Earlier ==
    /\ \A filters \in FirstFilters : \A p \in filters : p.by \notin Updaters
    /\ \A m \in DeviceManagers : m.kind \in {"fs", "systemd", "v1"}

\* The labels of an apply that has not attached its program yet.
BeforeAttach == {"properties", "compile", "load", "query", "open", "attach"}

\* A program that is not attached yet is nowhere, and whoever detaches programs has
\* read them before the newest was attached.
FilterInv ==
    /\ DOMAIN devPc = Updaters /\ DOMAIN old = Updaters
    /\ newest \in Seq({Ebpf(u) : u \in Updaters})
    /\ newest # <<>> => Last(newest) \in attached
    /\ \A u \in Updaters : devPc[u] \in BeforeAttach =>
          Ebpf(u) \notin attached /\ \A v \in Updaters : Ebpf(u) \notin old[v]
    /\ \A u \in Updaters : devPc[u] = "detach" => newest # <<>> /\ Last(newest) \notin old[u]

\* The programs of two updates are two programs.
LEMMA ProgramsDiffer ==
    ASSUME NEW u, NEW v
    PROVE  /\ Ebpf(u).by = u /\ Ebpf(u).kind = "ebpf" /\ Unit(u).kind = "systemd"
           /\ Ebpf(u) = Ebpf(v) => u = v
           /\ Ebpf(u) # Unit(v)
  <1>1. \A x : Ebpf(x).by = x /\ Ebpf(x).kind = "ebpf" /\ Unit(x).kind = "systemd"
    BY Zenon DEF Ebpf, Unit
  <1>. QED BY Zenon, <1>1, "ebpf" # "systemd"

\* The last of a list of programs is one of them.
LEMMA LastIsOne ==
    ASSUME NEW S, NEW list \in Seq(S)
    PROVE  /\ list # <<>> => Last(list) \in S
           /\ \A p \in S : /\ Append(list, p) \in Seq(S) /\ Append(list, p) # <<>>
                           /\ Last(Append(list, p)) = p
  BY SMTT(30) DEF Last

\* A cgroup that got a filter is never without the newest one, whichever updates
\* query, attach and detach at the same time.
THEOREM FilterStays ==
    ASSUME Earlier
    PROVE  DevicesSpec => []NewestStays
  <1>1. DevicesInit => FilterInv
    <2>. SUFFICES ASSUME DevicesInit PROVE FilterInv
      BY Zenon
    <2>1. /\ DOMAIN devPc = Updaters /\ old = [u \in Updaters |-> {}] /\ newest = <<>>
          /\ attached \in {{}} \cup FirstFilters
      BY Zenon DEF DevicesInit
    <2>2. \A u \in Updaters : devPc[u] # "detach"
      <3>1. \A u \in Updaters : devPc[u] = CASE manager.kind = "fs" -> "compile"
                                              [] manager.kind = "systemd" -> "properties"
                                              [] manager.kind = "v1" -> "write"
        BY Zenon DEF DevicesInit
      <3>2. manager.kind \in {"fs", "systemd", "v1"}
        BY Zenon DEF DevicesInit, Earlier
      <3>. QED BY Zenon, <3>1, <3>2
    <2>3. \A u \in Updaters : Ebpf(u) \notin attached
      BY ZenonT(60), <2>1, ProgramsDiffer DEF Earlier
    <2>4. <<>> \in Seq({Ebpf(u) : u \in Updaters})
      OBVIOUS
    <2>. QED BY Zenon, <2>1, <2>2, <2>3, <2>4 DEF FilterInv
  <1>2. FilterInv /\ [DevicesNext]_devVars => FilterInv'
    <2>. SUFFICES ASSUME FilterInv, [DevicesNext]_devVars PROVE FilterInv'
      BY Zenon
    <2>. DEFINE Programs == {Ebpf(u) : u \in Updaters}
    <2>0. /\ DOMAIN devPc = Updaters /\ DOMAIN old = Updaters /\ newest \in Seq(Programs)
          /\ newest # <<>> => Last(newest) \in attached
          /\ \A u \in Updaters : devPc[u] \in BeforeAttach =>
                Ebpf(u) \notin attached /\ \A v \in Updaters : Ebpf(u) \notin old[v]
          /\ \A u \in Updaters : devPc[u] = "detach" => newest # <<>> /\ Last(newest) \notin old[u]
      BY Zenon DEF FilterInv
    <2>1. rules' = rules => Programs' = Programs /\ \A u : Ebpf(u)' = Ebpf(u)
      BY Zenon DEF Ebpf
    <2>2. newest # <<>> => Last(newest).kind = "ebpf"
      <3>1. newest # <<>> => Last(newest) \in Programs
        BY Zenon, <2>0, LastIsOne
      <3>2. \A p \in Programs : p.kind = "ebpf"
        BY ProgramsDiffer
      <3>. QED BY Zenon, <3>1, <3>2
    <2>. HIDE DEF Programs
    <2>3. ASSUME NEW u \in Updaters, UNCHANGED <<rules, old, newest>>,
                 devPc[u] \in BeforeAttach, NEW to \in (BeforeAttach \cup {"failed", "skipped"}),
                 devPc' = [devPc EXCEPT ![u] = to],
                 newest # <<>> => Last(newest) \in attached',
                 \A v \in Updaters : Ebpf(v) \in attached' => Ebpf(v) \in attached
          PROVE  FilterInv'
      <3>1. DOMAIN devPc' = Updaters /\ DOMAIN old' = Updaters /\ newest' \in Seq(Programs')
        BY Zenon, <2>0, <2>1, <2>3
      <3>2. to # "detach" /\ (to \in BeforeAttach => devPc[u] \in BeforeAttach)
        BY Zenon, <2>3 DEF BeforeAttach
      <3>3. /\ devPc'[u] = to
            /\ \A v \in Updaters : v # u => devPc'[v] = devPc[v]
        BY Zenon, <2>0, <2>3
      <3>4. /\ \A v \in Updaters : devPc'[v] \in BeforeAttach => devPc[v] \in BeforeAttach
            /\ \A v \in Updaters : devPc'[v] = "detach" => devPc[v] = "detach"
        BY Zenon, <3>2, <3>3
      <3>5. \A v \in Updaters : devPc'[v] \in BeforeAttach =>
                Ebpf(v) \notin attached' /\ \A x \in Updaters : Ebpf(v) \notin old'[x]
        BY Zenon, <2>0, <2>3, <3>4
      <3>6. \A v \in Updaters : devPc'[v] = "detach" => newest' # <<>> /\ Last(newest') \notin old'[v]
        BY Zenon, <2>0, <2>3, <3>4
      <3>7. newest' # <<>> => Last(newest') \in attached'
        BY Zenon, <2>3
      <3>8. \A v : Ebpf(v)' = Ebpf(v)
        BY Zenon, <2>1, <2>3
      <3>. QED BY Zenon, <3>1, <3>5, <3>6, <3>7, <3>8 DEF FilterInv, Programs
    <2>4. ASSUME NEW u \in Updaters, SetUnitProperties(u)
          PROVE  FilterInv'
      <3>1. /\ UNCHANGED <<rules, old, newest>> /\ devPc[u] = "properties"
            /\ \/ devPc' = [devPc EXCEPT ![u] = "failed"] /\ attached' = attached
               \/ /\ devPc' = [devPc EXCEPT ![u] = "compile"]
                  /\ {p \in attached : p.kind # "systemd"} \subseteq attached'
                  /\ attached' \subseteq attached \cup {Unit(u)}
        BY Zenon, <2>4 DEF SetUnitProperties, DeviceGoto
      <3>2. newest # <<>> => Last(newest) \in attached'
        BY Zenon, <2>0, <2>2, <3>1, "ebpf" # "systemd"
      <3>3. \A v \in Updaters : Ebpf(v) \in attached' => Ebpf(v) \in attached
        BY Zenon, <3>1, ProgramsDiffer
      <3>4. /\ devPc[u] \in BeforeAttach
            /\ \E to \in BeforeAttach \cup {"failed", "skipped"} : devPc' = [devPc EXCEPT ![u] = to]
        BY Zenon, <3>1 DEF BeforeAttach
      <3>. QED BY Zenon, <2>3, <3>1, <3>2, <3>3, <3>4
    <2>5. ASSUME NEW u \in Updaters, Compile(u) \/ Load(u)
          PROVE  FilterInv'
      <3>1. /\ UNCHANGED <<rules, old, newest, attached>> /\ devPc[u] \in {"compile", "load"}
            /\ \E to \in {"load", "query", "skipped", "failed"} : devPc' = [devPc EXCEPT ![u] = to]
        BY Zenon, <2>5 DEF Compile, Load, Fails, DeviceGoto
      <3>2. /\ devPc[u] \in BeforeAttach
            /\ \E to \in BeforeAttach \cup {"failed", "skipped"} : devPc' = [devPc EXCEPT ![u] = to]
        BY Zenon, <3>1 DEF BeforeAttach
      <3>. QED BY Zenon, <2>0, <2>3, <3>1, <3>2
    <2>6. ASSUME NEW u \in Updaters, Query(u) \/ OpenPrograms(u)
          PROVE  FilterInv'
      <3>0. /\ UNCHANGED <<rules, attached, newest>> /\ devPc[u] \in {"query", "open"}
            /\ {"query", "open"} \subseteq BeforeAttach /\ "open" # "detach" /\ "attach" # "detach"
        BY Zenon, <2>6 DEF Query, OpenPrograms, BeforeAttach
      <3>1. CASE Fails(u) /\ UNCHANGED old
        <4>1. \E to \in {"failed", "skipped"} : devPc' = [devPc EXCEPT ![u] = to]
          BY Zenon, <3>1 DEF Fails, DeviceGoto
        <4>. QED BY Zenon, <2>0, <2>3, <3>0, <3>1, <4>1
      <3>2. CASE \E found \in SUBSET attached, to \in {"open", "attach"} :
                    old' = [old EXCEPT ![u] = found] /\ devPc' = [devPc EXCEPT ![u] = to]
        <4>1. PICK found \in SUBSET attached, to \in {"open", "attach"} :
                  old' = [old EXCEPT ![u] = found] /\ devPc' = [devPc EXCEPT ![u] = to]
          BY Zenon, <3>2
        <4>2. /\ DOMAIN devPc' = Updaters /\ DOMAIN old' = Updaters /\ newest' \in Seq(Programs')
              /\ devPc'[u] = to /\ old'[u] = found
              /\ \A v \in Updaters : v # u => devPc'[v] = devPc[v] /\ old'[v] = old[v]
          BY Zenon, <2>0, <2>1, <3>0, <4>1
        <4>3. \A v \in Updaters : devPc'[v] \in BeforeAttach =>
                  Ebpf(v) \notin attached /\ \A x \in Updaters : Ebpf(v) \notin old'[x]
          BY Zenon, <2>0, <3>0, <4>1, <4>2
        <4>4. \A v \in Updaters : devPc'[v] = "detach" => newest # <<>> /\ Last(newest) \notin old'[v]
          BY Zenon, <2>0, <3>0, <4>1, <4>2
        <4>5. newest' = newest /\ attached' = attached /\ \A v : Ebpf(v)' = Ebpf(v)
          BY Zenon, <2>1, <3>0
        <4>. QED BY Zenon, <2>0, <4>2, <4>3, <4>4, <4>5 DEF FilterInv, Programs
      <3>3. CASE Query(u)
        <4>1. attached \in SUBSET attached
          BY Zenon
        <4>. QED BY Zenon, <3>1, <3>2, <3>3, <4>1 DEF Query, DeviceGoto
      <3>4. CASE OpenPrograms(u)
        <4>1. old[u] \cap attached \in SUBSET attached
          BY Zenon
        <4>. QED BY Zenon, <3>2, <3>4, <4>1 DEF OpenPrograms, DeviceGoto
      <3>. QED BY Zenon, <2>6, <3>3, <3>4
    <2>7. ASSUME NEW u \in Updaters, Attach(u)
          PROVE  FilterInv'
      <3>0. devPc[u] = "attach" /\ rules' = rules /\ old' = old /\ "attach" \in BeforeAttach
        BY Zenon, <2>7 DEF Attach, BeforeAttach
      <3>1. CASE /\ attached' = attached \cup {Ebpf(u)} /\ newest' = Append(newest, Ebpf(u))
                 /\ devPc' = [devPc EXCEPT ![u] = "detach"]
        <4>1. Ebpf(u) \in Programs
          BY Zenon DEF Programs
        <4>8. Append(newest, Ebpf(u)) \in Seq(Programs) /\ Append(newest, Ebpf(u)) # <<>>
              /\ Last(Append(newest, Ebpf(u))) = Ebpf(u)
          BY ZenonT(60), <2>0, <4>1, LastIsOne
        <4>2. newest' \in Seq(Programs') /\ newest' # <<>> /\ Last(newest') = Ebpf(u)
          BY Zenon, <2>1, <3>0, <3>1, <4>8
        <4>3. /\ DOMAIN devPc' = Updaters /\ devPc'[u] = "detach"
              /\ \A v \in Updaters : v # u => devPc'[v] = devPc[v]
          BY Zenon, <2>0, <3>1
        <4>4. "detach" \notin BeforeAttach
          BY Zenon DEF BeforeAttach
        <4>5. \A v \in Updaters : devPc'[v] \in BeforeAttach =>
                 Ebpf(v) \notin attached' /\ \A x \in Updaters : Ebpf(v) \notin old[x]
          BY Zenon, <2>0, <3>1, <4>3, <4>4, ProgramsDiffer
        <4>6. \A v \in Updaters : Ebpf(u) \notin old[v]
          BY Zenon, <2>0, <3>0
        <4>7. Last(newest') \in attached' /\ \A v \in Updaters : Last(newest') \notin old[v]
          BY Zenon, <3>1, <4>2, <4>6
        <4>. QED BY Zenon, <2>0, <2>1, <3>0, <4>2, <4>3, <4>5, <4>7 DEF FilterInv, Programs
      <3>2. CASE /\ Fails(u) /\ UNCHANGED <<attached, newest>>
        <4>1. \E to \in {"failed", "skipped"} : devPc' = [devPc EXCEPT ![u] = to]
          BY Zenon, <3>2 DEF Fails, DeviceGoto
        <4>. QED BY Zenon, <2>0, <2>3, <3>0, <3>2, <4>1
      <3>. QED BY Zenon, <2>7, <3>1, <3>2 DEF Attach, DeviceGoto
    <2>8. ASSUME NEW u \in Updaters, Detach(u)
          PROVE  FilterInv'
      <3>0. devPc[u] = "detach" /\ UNCHANGED <<rules, newest>>
        BY Zenon, <2>8 DEF Detach
      <3>1. /\ \/ devPc' = devPc
               \/ \E to \in {"done", "failed", "skipped"} : devPc' = [devPc EXCEPT ![u] = to]
            /\ \/ old' = old /\ attached' = attached
               \/ \E p \in old[u] : attached' = attached \ {p} /\ old' = [old EXCEPT ![u] = @ \ {p}]
        BY Zenon, <2>8 DEF Detach, Fails, DeviceGoto
      <3>2. /\ DOMAIN old' = Updaters /\ attached' \subseteq attached
            /\ \A v \in Updaters : old'[v] \subseteq old[v]
            /\ attached \ old[u] \subseteq attached'
        BY Zenon, <2>0, <3>1
      <3>3. /\ DOMAIN devPc' = Updaters
            /\ \A v \in Updaters : devPc'[v] \in BeforeAttach => devPc[v] \in BeforeAttach
            /\ \A v \in Updaters : devPc'[v] = "detach" => devPc[v] = "detach"
        <4>1. "done" \notin BeforeAttach /\ "failed" \notin BeforeAttach /\ "skipped" \notin BeforeAttach
              /\ "done" # "detach" /\ "failed" # "detach" /\ "skipped" # "detach"
          BY Zenon DEF BeforeAttach
        <4>. QED BY Zenon, <2>0, <3>1, <4>1
      <3>4. newest' \in Seq(Programs') /\ (newest # <<>> => Last(newest) \in attached')
        BY Zenon, <2>0, <2>1, <3>0, <3>2
      <3>. QED BY ZenonT(60), <2>0, <2>1, <3>0, <3>2, <3>3, <3>4 DEF FilterInv, Programs
    <2>9. ASSUME NEW u \in Updaters, V1Write(u)
          PROVE  FilterInv'
      <3>0. UNCHANGED <<rules, old, attached, newest>>
        BY Zenon, <2>9 DEF V1Write
      <3>1. devPc' = devPc \/ \E to \in {"done", "failed"} : devPc' = [devPc EXCEPT ![u] = to]
        BY Zenon, <2>9 DEF V1Write, DeviceGoto
      <3>2. /\ DOMAIN devPc' = Updaters
            /\ \A v \in Updaters : devPc'[v] \in BeforeAttach => devPc[v] \in BeforeAttach
            /\ \A v \in Updaters : devPc'[v] = "detach" => devPc[v] = "detach"
        <4>1. "done" \notin BeforeAttach /\ "failed" \notin BeforeAttach
              /\ "done" # "detach" /\ "failed" # "detach"
          BY Zenon DEF BeforeAttach
        <4>. QED BY Zenon, <2>0, <3>1, <4>1
      <3>. QED BY Zenon, <2>0, <2>1, <3>0, <3>2 DEF FilterInv, Programs
    <2>10. CASE UNCHANGED devVars
      BY Zenon, <2>0, <2>1, <2>10 DEF FilterInv, devVars, Programs
    <2>. QED BY Zenon, <2>4, <2>5, <2>6, <2>7, <2>8, <2>9, <2>10 DEF DevicesNext
  <1>3. FilterInv => NewestStays
    BY Zenon DEF FilterInv, NewestStays
  <1>. QED BY <1>1, <1>2, <1>3, PTL DEF DevicesSpec

-----------------------------------------------------------------------------
(* The devices of a container. *)

\* The devices of a spec are a list, none of them where the runtime links /dev/fd or
\* mounts the console.
OwnPaths ==
    \A j \in Jobs :
        /\ \E S : j.devices \in Seq(S)
        /\ \A d \in Range(j.devices) : d.name \notin {"fd", "console"}

\* A device of the list is in /dev as it was asked for.
Right(d, at) ==
    /\ d.name \in DOMAIN at
    /\ IF devfsJob.bind THEN at[d.name].what = HostDev[d.name]
       ELSE /\ at[d.name].what = d.number /\ at[d.name].mode = d.mode
            /\ d.owner # <<>> => at[d.name].owner = d.owner[1]

AfterDevices == {"ptmx", "null", "console", "user_umask", "done"}
AfterNull == {"console", "user_umask", "done"}

DevfsInv ==
    /\ devfsJob \in Jobs
    /\ devfsPc \in {"enter", "connect", "stdio", "links", "umask", "device", "failed"} \cup AfterDevices
    /\ devfsK \in Nat \ {0}
    /\ devfsPc \in {"enter", "connect", "stdio", "links", "umask"} => devfsK = 1
    /\ devfsPc \in {"umask", "device"} \cup AfterDevices =>
          "fd" \in DOMAIN dev /\ dev["fd"] = Link("/proc/self/fd")
    /\ devfsPc = "device" =>
          /\ umask = {}
          /\ \A i \in 1 .. Len(AllDevices) : i < devfsK => Right(AllDevices[i], dev)
    /\ devfsPc \in AfterDevices =>
          \A i \in 1 .. Len(AllDevices) : AllDevices[i].name # "ptmx" => Right(AllDevices[i], dev)
    /\ devfsPc \in AfterDevices \ {"ptmx"} => "ptmx" \in DOMAIN dev /\ dev["ptmx"] = Link("pts/ptmx")
    /\ devfsPc \in AfterNull => \A f \in 0 .. 2 : fds[f] # "host null"
    /\ UmaskIsOwn

\* One node in /dev leaves the others as they are.
LEMMA WithOne ==
    ASSUME NEW n, NEW v
    PROVE  /\ DOMAIN With(n, v) = DOMAIN dev \cup {n}
           /\ With(n, v)[n] = v
           /\ \A x \in DOMAIN dev : x # n => With(n, v)[x] = dev[x]
  BY Zenon DEF With, Over

\* What is in one of two lists is in both together.
LEMMA InConcat ==
    ASSUME NEW S, NEW s \in Seq(S), NEW t \in Seq(S)
    PROVE  /\ s \o t \in Seq(S)
           /\ \A i \in 1 .. Len(s) : \E h \in 1 .. Len(s \o t) : (s \o t)[h] = s[i]
           /\ \A i \in 1 .. Len(t) : \E h \in 1 .. Len(s \o t) : (s \o t)[h] = t[i]
           /\ \A h \in 1 .. Len(s \o t) : (\E i \in 1 .. Len(s) : (s \o t)[h] = s[i])
                                           \/ (\E i \in 1 .. Len(t) : (s \o t)[h] = t[i])
  <1>1. /\ s \o t \in Seq(S) /\ Len(s \o t) = Len(s) + Len(t) /\ Len(s) \in Nat /\ Len(t) \in Nat
        /\ \A i \in 1 .. Len(s) + Len(t) : (s \o t)[i] = IF i <= Len(s) THEN s[i] ELSE t[i - Len(s)]
    BY Zenon, ConcatProperties, LenProperties
  <1>2. \A i \in 1 .. Len(t) : /\ Len(s) + i \in 1 .. Len(s \o t)
                               /\ (s \o t)[Len(s) + i] = t[i]
    BY <1>1
  <1>3. \A i \in 1 .. Len(s) : i \in 1 .. Len(s \o t) /\ (s \o t)[i] = s[i]
    BY <1>1
  <1>4. \A h \in 1 .. Len(s \o t) : IF h <= Len(s) THEN h \in 1 .. Len(s) /\ (s \o t)[h] = s[h]
                                    ELSE h - Len(s) \in 1 .. Len(t) /\ (s \o t)[h] = t[h - Len(s)]
    BY <1>1
  <1>. QED BY Zenon, <1>1, <1>2, <1>3, <1>4

\* Every device asked for, and every default whose path is not used, is in the list.
LEMMA AllAreListed ==
    ASSUME OwnPaths, devfsJob \in Jobs
    PROVE  /\ Len(AllDevices) \in Nat
           /\ \A i \in 1 .. Len(AllDevices) :
                 \/ AllDevices[i] \in Range(devfsJob.devices)
                 \/ AllDevices[i] \in Range(default_devices)
           /\ \A d \in Range(devfsJob.devices) : \E i \in 1 .. Len(AllDevices) : AllDevices[i] = d
           /\ \A d \in Range(default_devices) :
                 \/ \E e \in Range(devfsJob.devices) : e.name = d.name
                 \/ \E i \in 1 .. Len(AllDevices) : AllDevices[i] = d
PROOF
  <1>. DEFINE given == devfsJob.devices
              S == Range(given) \cup Range(default_devices)
  <1>1. given \in Seq(Range(given)) /\ given \in Seq(S) /\ \A d \in Range(given) : \E i \in 1 .. Len(given) : given[i] = d
    <2>1. PICK T : given \in Seq(T)
      BY Zenon DEF OwnPaths
    <2>. QED BY <2>1 DEF Range
  <1>2. /\ DOMAIN default_devices = 1 .. 6
        /\ \A d \in Range(default_devices) : \E i \in 1 .. 6 : default_devices[i] = d
        /\ \A i \in 1 .. 6 : default_devices[i] \in S
    BY DEF default_devices, Range
  <1>3. ASSUME NEW i \in 1 .. 6
        PROVE  /\ Unused(i) \in Seq(S)
               /\ \/ \E e \in Range(given) : e.name = default_devices[i].name
                  \/ \E h \in 1 .. Len(Unused(i)) : Unused(i)[h] = default_devices[i]
    <2>. DEFINE d == default_devices[i]
    <2>1. d \in S
      BY Zenon, <1>2
    <2>2. <<>> \in Seq(S) /\ <<d>> \in Seq(S) /\ Len(<<d>>) = 1 /\ <<d>>[1] = d
      <3>. HIDE DEF d, S
      <3>. QED BY <2>1
    <2>3. Unused(i) = IF \E e \in Range(given) : e.name = d.name THEN <<>> ELSE <<d>>
      BY Zenon DEF Unused
    <2>. HIDE DEF S, d, given
    <2>4. CASE \E e \in Range(given) : e.name = d.name
      BY Zenon, <2>2, <2>3, <2>4 DEF d
    <2>5. CASE ~\E e \in Range(given) : e.name = d.name
      <3>1. Unused(i) = <<d>>
        BY Zenon, <2>3, <2>5
      <3>2. 1 \in 1 .. Len(Unused(i))
        BY <2>2, <3>1
      <3>. QED BY Zenon, <2>2, <3>1, <3>2 DEF d
    <2>. QED BY Zenon, <2>4, <2>5
  <1>. DEFINE s1 == given \o Unused(1)
              s2 == s1 \o Unused(2)
              s3 == s2 \o Unused(3)
              s4 == s3 \o Unused(4)
              s5 == s4 \o Unused(5)
              s6 == s5 \o Unused(6)
              Has(s, x) == \E i \in 1 .. Len(s) : s[i] = x
              Used(i) == \E e \in Range(given) : e.name = default_devices[i].name
  <1>4. AllDevices = s6
    BY Zenon DEF AllDevices
  <1>5. \A i \in 1 .. 6 : Unused(i) \in Seq(S) /\ (Used(i) \/ Has(Unused(i), default_devices[i]))
    BY Zenon, <1>3
  <1>. HIDE DEF S, given, Used
  <1>6. ASSUME NEW s \in Seq(S), NEW t \in Seq(S)
        PROVE  s \o t \in Seq(S) /\ \A x : Has(s, x) \/ Has(t, x) => Has(s \o t, x)
    <2>1. /\ s \o t \in Seq(S)
          /\ \A i \in 1 .. Len(s) : \E h \in 1 .. Len(s \o t) : (s \o t)[h] = s[i]
          /\ \A i \in 1 .. Len(t) : \E h \in 1 .. Len(s \o t) : (s \o t)[h] = t[i]
      <3>. HIDE DEF Has
      <3>. QED BY SMTT(30), InConcat
    <2>2. ASSUME NEW x, Has(s, x)
          PROVE  Has(s \o t, x)
      <3>1. PICK i \in 1 .. Len(s) : s[i] = x
        BY Zenon, <2>2
      <3>2. PICK h \in 1 .. Len(s \o t) : (s \o t)[h] = s[i]
        BY Zenon, <2>1
      <3>. QED BY Zenon, <3>1, <3>2
    <2>3. ASSUME NEW x, Has(t, x)
          PROVE  Has(s \o t, x)
      <3>1. PICK i \in 1 .. Len(t) : t[i] = x
        BY Zenon, <2>3
      <3>2. PICK h \in 1 .. Len(s \o t) : (s \o t)[h] = t[i]
        BY Zenon, <2>1
      <3>. QED BY Zenon, <3>1, <3>2
    <2>. HIDE DEF Has
    <2>. QED BY Zenon, <2>1, <2>2, <2>3
  <1>. HIDE DEF Has
  <1>7. 1 \in 1 .. 6 /\ 2 \in 1 .. 6 /\ 3 \in 1 .. 6 /\ 4 \in 1 .. 6 /\ 5 \in 1 .. 6 /\ 6 \in 1 .. 6
    OBVIOUS
  <1>8. s1 \in Seq(S) /\ \A x : Has(given, x) \/ Has(Unused(1), x) => Has(s1, x)
    BY Zenon, <1>1, <1>5, <1>6, <1>7
  <1>. HIDE DEF s1
  <1>9. s2 \in Seq(S) /\ \A x : Has(s1, x) \/ Has(Unused(2), x) => Has(s2, x)
    BY Zenon, <1>8, <1>5, <1>6, <1>7
  <1>. HIDE DEF s2
  <1>10. s3 \in Seq(S) /\ \A x : Has(s2, x) \/ Has(Unused(3), x) => Has(s3, x)
    BY Zenon, <1>9, <1>5, <1>6, <1>7
  <1>. HIDE DEF s3
  <1>11. s4 \in Seq(S) /\ \A x : Has(s3, x) \/ Has(Unused(4), x) => Has(s4, x)
    BY Zenon, <1>10, <1>5, <1>6, <1>7
  <1>. HIDE DEF s4
  <1>12. s5 \in Seq(S) /\ \A x : Has(s4, x) \/ Has(Unused(5), x) => Has(s5, x)
    BY Zenon, <1>11, <1>5, <1>6, <1>7
  <1>. HIDE DEF s5
  <1>13. s6 \in Seq(S) /\ \A x : Has(s5, x) \/ Has(Unused(6), x) => Has(s6, x)
    BY Zenon, <1>12, <1>5, <1>6, <1>7
  <1>. HIDE DEF s6
  <1>14. \A x : Has(given, x) => Has(s6, x)
    BY Zenon, <1>8, <1>9, <1>10, <1>11, <1>12, <1>13
  <1>15. \A i \in 1 .. 6 : Used(i) \/ Has(s6, default_devices[i])
    <2>1. /\ Used(1) \/ Has(s6, default_devices[1])
          /\ Used(2) \/ Has(s6, default_devices[2])
          /\ Used(3) \/ Has(s6, default_devices[3])
          /\ Used(4) \/ Has(s6, default_devices[4])
          /\ Used(5) \/ Has(s6, default_devices[5])
          /\ Used(6) \/ Has(s6, default_devices[6])
      BY Zenon, <1>5, <1>7, <1>8, <1>9, <1>10, <1>11, <1>12, <1>13
    <2>2. \A i \in 1 .. 6 : i \in {1, 2, 3, 4, 5, 6}
      OBVIOUS
    <2>. QED BY Zenon, <2>1, <2>2
  <1>16. Len(s6) \in Nat /\ \A i \in 1 .. Len(s6) : s6[i] \in S
    BY Zenon, <1>13, ElementOfSeq, LenProperties
  <1>17. \A i \in 1 .. Len(s6) : s6[i] \in Range(given) \/ s6[i] \in Range(default_devices)
    BY Zenon, <1>16 DEF S
  <1>18. \A d \in Range(given) : Has(s6, d)
    BY Zenon, <1>1, <1>14 DEF Has
  <1>19. \A d \in Range(default_devices) : (\E e \in Range(given) : e.name = d.name) \/ Has(s6, d)
    BY Zenon, <1>2, <1>15 DEF Used
  <1>. QED BY Zenon, <1>4, <1>16, <1>17, <1>18, <1>19 DEF Has, given

\* The listed devices are away from /dev/fd and from the console.
LEMMA ListedElsewhere ==
    ASSUME OwnPaths, devfsJob \in Jobs
    PROVE  \A i \in 1 .. Len(AllDevices) : AllDevices[i].name \notin {"fd", "console"}
  <1>1. \A d \in Range(default_devices) : d.name \notin {"fd", "console"}
    BY DEF default_devices, DefaultDevice, Range
  <1>2. \A d \in Range(devfsJob.devices) : d.name \notin {"fd", "console"}
    BY Zenon DEF OwnPaths
  <1>. QED BY Zenon, <1>1, <1>2, AllAreListed

\* A job and the list of its devices stay.
LEMMA ListStays ==
    ASSUME devfsJob' = devfsJob
    PROVE  AllDevices' = AllDevices /\ \A d, at : Right(d, at)' = Right(d, at)
  BY DEF AllDevices, Unused, Right

\* DevfsInv holds before init begins.
LEMMA DevfsStart == DevfsInit => DevfsInv
  BY DEF DevfsInit, DevfsInv, AfterDevices, AfterNull, UmaskIsOwn

\* Making one more device keeps those already made as they were asked for.
LEMMA DeviceIsRight ==
    ASSUME OwnPaths, DevfsInv, CreateDevice
    PROVE  DevfsInv'
PROOF
  <1>. DEFINE d == AllDevices[devfsK]
  <1>1. /\ devfsJob' = devfsJob /\ umask' = umask /\ devfsPc = "device" /\ umask = {}
        /\ devfsK \in Nat \ {0} /\ devfsK <= Len(AllDevices) /\ devfsJob \in Jobs
        /\ "fd" \in DOMAIN dev /\ dev["fd"] = Link("/proc/self/fd")
        /\ \A i \in 1 .. Len(AllDevices) : i < devfsK => Right(AllDevices[i], dev)
    BY Zenon DEF CreateDevice, DevfsInv
  <1>2. Len(AllDevices) \in Nat /\ devfsK \in 1 .. Len(AllDevices)
    BY <1>1, AllAreListed
  <1>3. d.name \notin {"fd", "console"}
    BY Zenon, <1>1, <1>2, ListedElsewhere
  <1>4. AllDevices' = AllDevices /\ \A e, at : Right(e, at)' = Right(e, at)
    BY Zenon, <1>1, ListStays
  <1>5. CASE devfsPc' = "failed" /\ devfsK' = devfsK
    BY Zenon, <1>1, <1>5 DEF DevfsInv, AfterDevices, AfterNull, UmaskIsOwn
  <1>6. ASSUME NEW node, dev' = With(d.name, node), devfsK' = devfsK + 1, devfsPc' = devfsPc,
               Right(d, dev'),
               devfsJob.bind => node.what = HostDev[d.name],
               ~devfsJob.bind => d.name \notin DOMAIN dev
        PROVE  DevfsInv'
    <2>1. /\ DOMAIN dev' = DOMAIN dev \cup {d.name} /\ dev'[d.name] = node
          /\ \A x \in DOMAIN dev : x # d.name => dev'[x] = dev[x]
      <3>. DEFINE n == d.name
      <3>1. dev' = With(n, node)
        BY Zenon, <1>6
      <3>. HIDE DEF n
      <3>2. /\ DOMAIN With(n, node) = DOMAIN dev \cup {n} /\ With(n, node)[n] = node
            /\ \A x \in DOMAIN dev : x # n => With(n, node)[x] = dev[x]
        BY Zenon DEF With, Over
      <3>. QED BY Zenon, <3>1, <3>2 DEF n
    <2>2. "fd" \in DOMAIN dev' /\ dev'["fd"] = Link("/proc/self/fd")
      BY Zenon, <1>1, <1>3, <2>1
    <2>3. ASSUME NEW i \in 1 .. Len(AllDevices), i < devfsK + 1
          PROVE  Right(AllDevices[i], dev')
      <3>1. CASE i = devfsK
        BY Zenon, <1>6, <3>1
      <3>2. CASE i < devfsK
        <4>. DEFINE e == AllDevices[i]
        <4>1. Right(e, dev)
          BY Zenon, <1>1, <3>2
        <4>. HIDE DEF d, e
        <4>2. e.name = d.name => Right(e, dev')
          BY Zenon, <1>6, <2>1, <4>1 DEF Right
        <4>3. e.name # d.name => Right(e, dev')
          BY Zenon, <2>1, <4>1 DEF Right
        <4>. QED BY Zenon, <4>2, <4>3 DEF e
      <3>. QED BY <1>1, <1>2, <2>3, <3>1, <3>2
    <2>4. \A i \in 1 .. Len(AllDevices') : i < devfsK' => Right(AllDevices[i], dev)'
      <3>1. \A i \in 1 .. Len(AllDevices) : Right(AllDevices[i], dev)' = Right(AllDevices[i], dev')
        BY Zenon, <1>1, <1>4 DEF Right
      <3>. QED BY Zenon, <1>4, <1>6, <2>3, <3>1
    <2>5. Link("/proc/self/fd")' = Link("/proc/self/fd")
      BY Zenon DEF Link
    <2>. HIDE DEF d
    <2>. QED BY <1>1, <1>4, <1>6, <2>2, <2>4, <2>5 DEF DevfsInv, AfterDevices, AfterNull, UmaskIsOwn
  <1>7. CASE d.valid /\ devfsJob.bind /\ d.name \in DOMAIN HostDev
    <2>. DEFINE node == [kind |-> "bound", what |-> HostDev[d.name], mode |-> Who, owner |-> 0]
    <2>1. dev' = With(d.name, node) /\ devfsK' = devfsK + 1 /\ devfsPc' = devfsPc
      BY Zenon, <1>7 DEF CreateDevice, BindDev
    <2>2. node.what = HostDev[d.name]
      BY Zenon
    <2>3. Right(d, dev')
      <3>. HIDE DEF d, node
      <3>1. d.name \in DOMAIN dev' /\ dev'[d.name] = node
        BY Zenon, <2>1, WithOne
      <3>. QED BY Zenon, <1>7, <2>2, <3>1 DEF Right
    <2>. HIDE DEF node, d
    <2>. QED BY Zenon, <1>6, <1>7, <2>1, <2>2, <2>3
  <1>8. CASE d.valid /\ ~devfsJob.bind /\ d.name \notin DOMAIN dev
    <2>. DEFINE node == [kind |-> "made", what |-> d.number, mode |-> d.mode \ umask,
                         owner |-> IF d.owner = <<>> THEN 0 ELSE d.owner[1]]
    <2>1. dev' = With(d.name, node) /\ devfsK' = devfsK + 1 /\ devfsPc' = devfsPc
      BY Zenon, <1>8 DEF CreateDevice, MknodDev
    <2>2. /\ node.what = d.number /\ node.mode = d.mode
          /\ d.owner # <<>> => node.owner = d.owner[1]
      BY Zenon, <1>1
    <2>3. Right(d, dev')
      <3>. HIDE DEF d, node
      <3>1. d.name \in DOMAIN dev' /\ dev'[d.name] = node
        BY Zenon, <2>1, WithOne
      <3>. QED BY Zenon, <1>8, <2>2, <3>1 DEF Right
    <2>. HIDE DEF node, d
    <2>. QED BY Zenon, <1>6, <1>8, <2>1, <2>3
  <1>9. CASE ~d.valid
    BY Zenon, <1>5, <1>9 DEF CreateDevice, DevfsFail
  <1>10. CASE d.valid /\ devfsJob.bind /\ d.name \notin DOMAIN HostDev
    BY Zenon, <1>5, <1>10 DEF CreateDevice, BindDev, DevfsFail
  <1>11. CASE d.valid /\ ~devfsJob.bind /\ d.name \in DOMAIN dev
    BY Zenon, <1>5, <1>11 DEF CreateDevice, MknodDev, DevfsFail
  <1>. HIDE DEF d
  <1>. QED BY Zenon, <1>7, <1>8, <1>9, <1>10, <1>11


\* Every step keeps DevfsInv.
LEMMA DevfsStep == OwnPaths /\ DevfsInv /\ [DevfsNext]_devfsVars => DevfsInv'
PROOF
  <1>. SUFFICES ASSUME OwnPaths, DevfsInv, [DevfsNext]_devfsVars
                PROVE  DevfsInv'
    BY Zenon
  <1>. USE DEF AfterDevices, AfterNull
  <1>1. ASSUME devfsJob' = devfsJob
        PROVE  AllDevices' = AllDevices /\ \A d, at : Right(d, at)' = Right(d, at)
    BY Zenon, <1>1, ListStays
  <1>2. CASE EnterDir
    BY Zenon, <1>2 DEF EnterDir, DevfsInv, UmaskIsOwn
  <1>3. CASE ConnectSocket
    BY Zenon, <1>3 DEF ConnectSocket, DevfsFail, DevfsInv, UmaskIsOwn
  <1>4. CASE PassStdio
    BY Zenon, <1>4 DEF PassStdio, DevfsInv, UmaskIsOwn
  <1>5. CASE MakeLinks
    <2>1. "fd" \in DOMAIN Over(Links) /\ Over(Links)["fd"] = Link("/proc/self/fd")
      <3>1. "fd" \in DOMAIN Links /\ Links["fd"] = Link("/proc/self/fd")
        BY Zenon DEF Links
      <3>. QED BY Zenon, <3>1 DEF Over
    <2>2. Link("/proc/self/fd")' = Link("/proc/self/fd")
      BY Zenon DEF Link
    <2>. QED BY Zenon, <1>5, <2>1, <2>2 DEF MakeLinks, DevfsFail, DevfsInv, UmaskIsOwn
  <1>6. CASE ClearUmask
    <2>1. Len(AllDevices) \in Nat
      BY Zenon, AllAreListed DEF DevfsInv
    <2>2. AllDevices' = AllDevices
      BY Zenon, <1>1, <1>6 DEF ClearUmask
    <2>. QED BY <1>6, <2>1, <2>2 DEF ClearUmask, DevfsInv, UmaskIsOwn, Link
  <1>7. CASE CreateDevice
    BY Zenon, <1>7, DeviceIsRight
  <1>8. CASE RestoreUmask
    <2>1. /\ Len(AllDevices) \in Nat /\ AllDevices' = AllDevices
          /\ \A i \in 1 .. Len(AllDevices) : Right(AllDevices[i], dev)' = Right(AllDevices[i], dev)
      BY Zenon, <1>1, <1>8, AllAreListed DEF RestoreUmask, DevfsInv, Right
    <2>2. \A i \in 1 .. Len(AllDevices) : Right(AllDevices[i], dev)
      BY <1>8, <2>1 DEF RestoreUmask, DevfsInv
    <2>. QED BY Zenon, <1>8, <2>1, <2>2 DEF RestoreUmask, DevfsInv, UmaskIsOwn, Link
  <1>9. CASE SetupPtmx
    <2>1. CASE devfsPc' = "failed"
      BY Zenon, <1>9, <2>1 DEF SetupPtmx, DevfsInv, UmaskIsOwn
    <2>2. CASE dev' = With("ptmx", Link("pts/ptmx")) /\ devfsPc' = "null"
      <3>1. /\ DOMAIN dev' = DOMAIN dev \cup {"ptmx"} /\ dev'["ptmx"] = Link("pts/ptmx")
            /\ \A x \in DOMAIN dev : x # "ptmx" => dev'[x] = dev[x]
        BY Zenon, <2>2 DEF With, Over
      <3>2. AllDevices' = AllDevices
        BY Zenon, <1>1, <1>9 DEF SetupPtmx
      <3>3. \A i \in 1 .. Len(AllDevices) : AllDevices[i].name # "ptmx" => Right(AllDevices[i], dev)'
        BY <1>9, <3>1, <3>2 DEF SetupPtmx, DevfsInv, Right
      <3>. QED BY Zenon, <1>9, <2>2, <3>1, <3>2, <3>3 DEF SetupPtmx, DevfsInv, UmaskIsOwn, Link
    <2>. QED BY Zenon, <1>9, <2>1, <2>2 DEF SetupPtmx, DevfsFail
  <1>10. CASE ReopenDevNull
    <2>1. AllDevices' = AllDevices /\ \A i \in 1 .. Len(AllDevices) : Right(AllDevices[i], dev)' = Right(AllDevices[i], dev)
      BY Zenon, <1>1, <1>10 DEF ReopenDevNull, Right
    <2>. QED BY Zenon, <1>10, <2>1 DEF ReopenDevNull, DevfsFail, DevfsInv, UmaskIsOwn, Link
  <1>11. CASE SetupConsole
    <2>0. AllDevices' = AllDevices
      BY Zenon, <1>1, <1>11 DEF SetupConsole
    <2>1. CASE dev' = dev /\ fds' = fds
      <3>1. \A i \in 1 .. Len(AllDevices) : Right(AllDevices[i], dev)' = Right(AllDevices[i], dev)
        BY Zenon, <1>11, <2>0, <2>1 DEF SetupConsole, Right
      <3>. QED BY Zenon, <1>11, <2>0, <2>1, <3>1 DEF SetupConsole, DevfsFail, DevfsInv, UmaskIsOwn, Link
    <2>2. CASE dev' = MountConsole /\ fds' = ConnectStdio /\ devfsPc' = "user_umask"
      <3>1. /\ DOMAIN dev' = DOMAIN dev \cup {"console"}
            /\ \A x \in DOMAIN dev : x # "console" => dev'[x] = dev[x]
        BY Zenon, <2>2 DEF MountConsole, With, Over
      <3>2. \A i \in 1 .. Len(AllDevices) : AllDevices[i].name # "console"
        BY Zenon, ListedElsewhere DEF DevfsInv
      <3>3. \A i \in 1 .. Len(AllDevices) : AllDevices[i].name # "ptmx" => Right(AllDevices[i], dev)'
        BY ZenonT(60), <1>11, <2>0, <3>1, <3>2 DEF SetupConsole, DevfsInv, Right
      <3>4. \A f \in 0 .. 2 : fds'[f] # "host null"
        BY Zenon, <2>2 DEF ConnectStdio
      <3>. QED BY Zenon, <1>11, <2>0, <2>2, <3>1, <3>3, <3>4 DEF SetupConsole, DevfsInv, UmaskIsOwn, Link
    <2>. QED BY Zenon, <1>11, <2>1, <2>2 DEF SetupConsole
  <1>12. CASE SetUmask
    <2>1. AllDevices' = AllDevices /\ \A i \in 1 .. Len(AllDevices) : Right(AllDevices[i], dev)' = Right(AllDevices[i], dev)
      BY Zenon, <1>1, <1>12 DEF SetUmask, Right
    <2>. QED BY Zenon, <1>12, <2>1 DEF SetUmask, DevfsInv, UmaskIsOwn, Link
  <1>13. CASE UNCHANGED devfsVars
    <2>1. AllDevices' = AllDevices /\ \A i \in 1 .. Len(AllDevices) : Right(AllDevices[i], dev)' = Right(AllDevices[i], dev)
      BY Zenon, <1>1, <1>13 DEF devfsVars, Right
    <2>. QED BY Zenon, <1>13, <2>1 DEF devfsVars, DevfsInv, UmaskIsOwn, Link
  <1>. QED
    BY Zenon, <1>2, <1>3, <1>4, <1>5, <1>6, <1>7, <1>8, <1>9, <1>10, <1>11, <1>12, <1>13 DEF DevfsNext

\* The invariant holds what is promised of /dev, the streams and the umask.
LEMMA DevfsGoal == OwnPaths /\ DevfsInv => DevAsAsked
PROOF
  <1>. SUFFICES ASSUME OwnPaths, DevfsInv
                PROVE  DevAsAsked
    BY Zenon
  <1>1. NoHostNull /\ UmaskIsOwn
    BY Zenon DEF DevfsInv, NoHostNull, AfterNull
  <1>2. DevicesAsAsked
    <2>. SUFFICES ASSUME devfsPc = "done"
                  PROVE  DevicesAsAsked
      BY Zenon DEF DevicesAsAsked
    <2>1. devfsJob \in Jobs
      BY Zenon DEF DevfsInv
    <2>2. \A i \in 1 .. Len(AllDevices) : AllDevices[i].name # "ptmx" => Right(AllDevices[i], dev)
      BY Zenon DEF DevfsInv, AfterDevices
    <2>3. dev["ptmx"] = Link("pts/ptmx") /\ dev["fd"] = Link("/proc/self/fd")
      BY Zenon DEF DevfsInv, AfterDevices
    <2>4. \A d \in Range(devfsJob.devices) : d.name # "ptmx" => Right(d, dev)
      BY Zenon, <2>1, <2>2, AllAreListed
    <2>5. \A d \in Range(default_devices) :
             d.name # "ptmx" /\ (\A e \in Range(devfsJob.devices) : e.name # d.name) => Right(d, dev)
      BY Zenon, <2>1, <2>2, AllAreListed
    <2>. QED BY Zenon, <2>3, <2>4, <2>5 DEF DevicesAsAsked, Right
  <1>. QED BY Zenon, <1>1, <1>2 DEF DevAsAsked

\* When init is done with /dev, every device asked for or there by default has the number,
\* the mode and the owner asked for, or is the host's where devices are bound; the streams
\* have left the host's /dev/null and the umask is the process's own.  This holds for every
\* set of jobs whose devices are away from /dev/fd and the console.
THEOREM DevIsAsAsked == OwnPaths => (DevfsSpec => []DevAsAsked)
PROOF
  <1>. SUFFICES ASSUME OwnPaths PROVE DevfsSpec => []DevAsAsked
    BY Zenon
  <1>1. DevfsInit => DevfsInv
    BY Zenon, DevfsStart
  <1>2. DevfsInv /\ [DevfsNext]_devfsVars => DevfsInv'
    BY Zenon, DevfsStep
  <1>3. DevfsInv => DevAsAsked
    BY Zenon, DevfsGoal
  <1>. QED BY <1>1, <1>2, <1>3, PTL DEF DevfsSpec
=============================================================================
