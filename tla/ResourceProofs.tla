--------------------------- MODULE ResourceProofs ---------------------------
(***************************************************************************)
(* What the resource limits of a container promise while others change     *)
(* theirs: its process stays in its resource control group (IntelRdt), and *)
(* an update of its memory limits lands as it was asked for, whichever     *)
(* manager writes it (MemoryControllers).                                  *)
(***************************************************************************)
EXTENDS IntelRdt, MemoryControllers, SequenceTheorems, TLAPS

-----------------------------------------------------------------------------
(* Resource control groups *)

\* No container is named like a group that is shared under a closID.  youki does
\* not compare the two: a group made for a container would be removed with it.
OwnNames == \A c \in Containers, s \in Specs : s.clos # <<>> => s.clos[1] # c

\* Where the process of a container is: in its group, then where it is while it runs.
InGroup(c) == <<Id(c), "">>
AtHome(c) == <<Id(c), IF rdtSpec[c].monitoring THEN c ELSE "">>

\* A container records its own group for deletion and no other, and its process is
\* where the last step has put it.
RdtInv ==
    /\ rdtSpec \in [Containers -> Specs]
    /\ DOMAIN task = Containers /\ DOMAIN rdtPc = Containers /\ DOMAIN state = Containers
    /\ \A c \in Containers :
        /\ state[c].dir # <<>> => state[c].dir[1] = c
        /\ rdtPc[c] \in {"mon", "montasks"} => rdtSpec[c].monitoring
        /\ rdtPc[c] \in {"schemata", "mon", "montasks"} => task[c] = InGroup(c)
        /\ rdtPc[c] \in {"record", "running"} => task[c] = AtHome(c)

\* While a container runs its process stays in its group and its monitoring group,
\* whichever containers are created, fail and are deleted meanwhile.
THEOREM GroupIsKept ==
    ASSUME OwnNames
    PROVE  RdtSpec => []StaysInItsGroup
PROOF
  <1>0. \A c : /\ rdtSpec[c].monitoring => AtHome(c) = <<Id(c), c>>
               /\ ~rdtSpec[c].monitoring => AtHome(c) = InGroup(c)
               /\ InGroup(c)[1] = Id(c) /\ AtHome(c)[1] = Id(c)
    BY Zenon DEF AtHome, InGroup
  <1>1. RdtInit => RdtInv
    <2>. SUFFICES ASSUME RdtInit PROVE RdtInv
      BY Zenon
    <2>1. \A c \in Containers : state[c].dir = <<>> /\ rdtPc[c] = "setup"
      BY Zenon DEF RdtInit, NoPaths
    <2>. QED BY Zenon, <2>1 DEF RdtInit, RdtInv
  <1>2. RdtInv /\ [RdtNext]_rdtVars => RdtInv'
    <2>. SUFFICES ASSUME RdtInv, [RdtNext]_rdtVars PROVE RdtInv'
      BY Zenon
    <2>0. rdtSpec' = rdtSpec => \A c : InGroup(c)' = InGroup(c) /\ AtHome(c)' = AtHome(c)
      BY Zenon DEF InGroup, AtHome, Id
    <2>1. ASSUME NEW c \in Containers, CheckGroup(c) \/ MakeGroup(c)
          PROVE  RdtInv'
      <3>1. /\ UNCHANGED <<rdtSpec, task, state>>
            /\ \E to \in {"tasks", "failed", "mkdir"} : rdtPc' = [rdtPc EXCEPT ![c] = to]
        BY Zenon, <2>1 DEF CheckGroup, MakeGroup, RdtGoto
      <3>. QED BY Zenon, <2>0, <3>1 DEF RdtInv
    <2>2. ASSUME NEW c \in Containers, WriteTasks(c)
          PROVE  RdtInv'
      <3>1. /\ UNCHANGED <<rdtSpec, state>>
            /\ \/ rdtPc' = [rdtPc EXCEPT ![c] = "failed"] /\ task' = task
               \/ rdtPc' = [rdtPc EXCEPT ![c] = "schemata"] /\ task' = [task EXCEPT ![c] = InGroup(c)]
        BY Zenon, <2>2 DEF InGroup, WriteTasks, RdtGoto
      <3>. QED BY SMTT(30), <2>0, <3>1 DEF RdtInv
    <2>3. ASSUME NEW c \in Containers, WriteSchemata(c)
          PROVE  RdtInv'
      <3>1. /\ UNCHANGED <<rdtSpec, task, state>> /\ rdtPc[c] = "schemata"
            /\ \E to \in {AfterSchemata(c), "failed"} : rdtPc' = [rdtPc EXCEPT ![c] = to]
        BY Zenon, <2>3 DEF WriteSchemata, RdtGoto
      <3>. QED BY SMTT(30), <1>0, <2>0, <3>1 DEF RdtInv, AfterSchemata
    <2>4. ASSUME NEW c \in Containers, MakeMonitoring(c)
          PROVE  RdtInv'
      <3>1. /\ UNCHANGED <<rdtSpec, task, state>> /\ rdtPc[c] = "mon"
            /\ \E to \in {"montasks", "failed"} : rdtPc' = [rdtPc EXCEPT ![c] = to]
        BY Zenon, <2>4 DEF MakeMonitoring, RdtGoto
      <3>. QED BY Zenon, <2>0, <3>1 DEF RdtInv
    <2>5. ASSUME NEW c \in Containers, WriteMonitoringTasks(c)
          PROVE  RdtInv'
      <3>1. /\ UNCHANGED <<rdtSpec, state>> /\ rdtPc[c] = "montasks"
            /\ \/ rdtPc' = [rdtPc EXCEPT ![c] = "failed"] /\ task' = task
               \/ rdtPc' = [rdtPc EXCEPT ![c] = "record"] /\ task' = [task EXCEPT ![c] = AtHome(c)]
        <4>1. rdtSpec[c].monitoring
          BY Zenon, <2>5 DEF WriteMonitoringTasks, RdtInv
        <4>. QED BY Zenon, <1>0, <2>5, <4>1 DEF WriteMonitoringTasks, RdtGoto
      <3>. QED BY SMTT(30), <2>0, <3>1 DEF RdtInv
    <2>6. ASSUME NEW c \in Containers, Record(c)
          PROVE  RdtInv'
      BY Zenon, <2>0, <2>6 DEF Record, RdtGoto, RdtInv, Id, ClosIdSet
    <2>7. ASSUME NEW c \in Containers, CleanupMonitoring(c)
          PROVE  RdtInv'
      <3>1. /\ UNCHANGED <<rdtSpec, state>> /\ task' = [task EXCEPT ![c] = <<Default, "">>]
            /\ \E to \in {"deleting", "aborting"} : rdtPc' = [rdtPc EXCEPT ![c] = to]
        BY Zenon, <2>7 DEF CleanupMonitoring, RdtGoto
      <3>. QED BY Zenon, <2>0, <3>1 DEF RdtInv
    <2>8. ASSUME NEW c \in Containers, CleanupGroup(c)
          PROVE  RdtInv'
      <3>1. /\ UNCHANGED <<rdtSpec, state>>
            /\ \E to \in {"deleted", "aborted"} : rdtPc' = [rdtPc EXCEPT ![c] = to]
            /\ \/ task' = task
               \/ state[c].dir # <<>> /\ task' = [d \in Containers |->
                    IF task[d][1] = state[c].dir[1] THEN <<Default, "">> ELSE task[d]]
        BY Zenon, <2>8 DEF CleanupGroup, RdtGoto
      <3>2. \A d \in Containers : d # c => Id(d) # c
        BY Zenon DEF OwnNames, RdtInv, Id
      <3>3. ASSUME NEW d \in Containers, d # c,
                   rdtPc[d] \in {"schemata", "mon", "montasks", "record", "running"}
            PROVE  task'[d] = task[d]
        <4>1. task[d][1] = Id(d)
          BY Zenon, <1>0, <3>3 DEF RdtInv
        <4>2. CASE task' = task
          BY Zenon, <4>2
        <4>3. CASE state[c].dir # <<>> /\ task' = [e \in Containers |->
                    IF task[e][1] = state[c].dir[1] THEN <<Default, "">> ELSE task[e]]
          <5>1. state[c].dir[1] = c
            BY Zenon, <4>3 DEF RdtInv
          <5>. QED BY Zenon, <3>2, <3>3, <4>1, <4>3, <5>1
        <4>. QED BY Zenon, <3>1, <4>2, <4>3
      <3>4. DOMAIN task' = Containers
        BY Zenon, <3>1 DEF RdtInv
      <3>5. PICK to \in {"deleted", "aborted"} : rdtPc' = [rdtPc EXCEPT ![c] = to]
        BY Zenon, <3>1
      <3>6. DOMAIN rdtPc' = Containers /\ rdtPc'[c] \in {"deleted", "aborted"}
            /\ \A d \in Containers : d # c => rdtPc'[d] = rdtPc[d]
        BY Zenon, <3>5 DEF RdtInv
      <3>7. ASSUME NEW d \in Containers
            PROVE  /\ rdtPc'[d] \in {"mon", "montasks"} => rdtSpec[d].monitoring
                   /\ rdtPc'[d] \in {"schemata", "mon", "montasks"} => task'[d] = InGroup(d)
                   /\ rdtPc'[d] \in {"record", "running"} => task'[d] = AtHome(d)
        <4>1. CASE d = c
          BY Zenon, <3>6, <4>1
        <4>2. CASE d # c
          BY Zenon, <3>3, <3>6, <4>2 DEF RdtInv
        <4>. QED BY Zenon, <4>1, <4>2
      <3>. QED BY ZenonT(60), <2>0, <3>1, <3>4, <3>6, <3>7 DEF RdtInv
    <2>9. CASE UNCHANGED rdtVars
      BY Zenon, <2>0, <2>9 DEF RdtInv, rdtVars
    <2>. QED
      BY Zenon, <2>1, <2>2, <2>3, <2>4, <2>5, <2>6, <2>7, <2>8, <2>9 DEF RdtNext, Done
  <1>3. RdtInv => StaysInItsGroup
    BY Zenon DEF RdtInv, AtHome, StaysInItsGroup
  <1>. QED BY <1>1, <1>2, <1>3, PTL DEF RdtSpec

-----------------------------------------------------------------------------
(* Memory limits *)

\* The settings of a memory section are absent or whole numbers, and no finite
\* limit is beyond the largest one the kernel counts.
MemoryRequest(r) ==
    /\ \A k \in {"limit", "swap", "reservation", "swappiness", "kernel", "kernel_tcp"} :
          k \in DOMAIN r /\ (r[k] # <<>> => \E v \in Int : r[k] = <<v>>)
    /\ r.limit # <<>> => r.limit[1] <= MaxBytes
    /\ r.swap # <<>> => r.swap[1] <= MaxBytes

\* One process at a time updates the container: the limits are read before the
\* first write, and two updates that overlap may leave neither in force.
OneClient ==
    /\ MaxBytes \in Nat
    /\ \A r \in Requests : MemoryRequest(r)
    /\ \A a, b \in Clients : a = b

MemoryFiles == V1Files \cup V2Files

\* The writes of a plan, and those that leave the limits alone.
Writes ==
    {w \in [file : MemoryFiles \cup {"error"}, val : Int, tolerant : BOOLEAN] :
        w.file = "limit" => w.val <= MaxBytes}
QuietWrites == {w \in Writes : w.file \notin {"limit", "memsw", "max", "swap"}}
Quiet(p) == p \in Seq(QuietWrites)

\* A plan that begins with a write of a value to a file.
Begins(p, file, val) == p # <<>> /\ Head(p).file = file /\ Head(p).val = val

\* What is left of the writes of a v1 plan, from its end.
V1Last(p, s) == Begins(p, "memsw", s) /\ Quiet(Tail(p))
V1Limit(p, l, s) == Begins(p, "limit", l) /\ V1Last(Tail(p), s)
V1Again(p, l, s) == Begins(p, "limit", l) /\ V1Limit(Tail(p), l, s)
V1First(p, l, s) == Begins(p, "memsw", s) /\ V1Again(Tail(p), l, s)

\* What the files k hold before each of them (sw: there is a swap file).
V1Stage(k, sw, p, l, s) ==
    \/ V1First(p, l, s) /\ k["limit"] <= Stored(s)
    \/ V1Again(p, l, s) /\ (sw => k["memsw"] = Stored(s))
    \/ V1Limit(p, l, s) /\ (sw => l <= k["memsw"])
    \/ V1Last(p, s) /\ k["limit"] = l
    \/ Quiet(p) /\ k["limit"] = l /\ (sw => k["memsw"] = Stored(s))

\* The same for v2, whose swap file holds swap alone.
SwapAlone(l, s) == IF s = -1 THEN -1 ELSE s - l
V2Max(p, l) == Begins(p, "max", l) /\ Quiet(Tail(p))
V2First(p, l, s) == Begins(p, "swap", SwapAlone(l, s)) /\ V2Max(Tail(p), l)
V2Stage(k, sw, p, l, s) ==
    \/ V2First(p, l, s)
    \/ V2Max(p, l) /\ (sw => k["swap"] = Stored(SwapAlone(l, s)))
    \/ Quiet(p) /\ k["max"] = l /\ (sw => k["swap"] = Stored(SwapAlone(l, s)))

\* The kernel's files.
KernOk(k, sw) ==
    /\ k \in [MemoryFiles -> Int]
    /\ k["limit"] <= Unlimited
    /\ sw => k["limit"] <= k["memsw"]

\* How far a consistent request has come under the manager m.
Landed(k, m, l, s) ==
    IF m = "v1" THEN k["limit"] = l /\ k["memsw"] = Stored(s)
    ELSE k["max"] = l /\ k["swap"] = Stored(SwapAlone(l, s))
Underway(x, k, m, sw) ==
    LET l == x.req.limit[1]
        s == x.req.swap[1]
    IN  /\ m = "v1" => x.error \notin {<<"limit", "EINVAL">>, <<"memsw", "EINVAL">>}
        /\ x.state = "writing" => (IF m = "v1" THEN V1Stage(k, sw, x.plan, l, s)
                                   ELSE V2Stage(k, sw, x.plan, l, s))
        /\ x.state = "done" /\ sw => Landed(k, m, l, s)

\* A client: what it applies is well formed, and on its way if it is consistent.
ClientOk(x, k, m, sw) ==
    /\ DOMAIN x = {"state", "req", "plan", "before", "error"}
    /\ x.req \in Requests \cup {NoRequest}
    /\ x.state = "writing" => m \in {"v1", "v2"} /\ x.plan \in Seq(Writes)
    /\ Consistent(x.req) => Underway(x, k, m, sw)

MemInv ==
    /\ KernOk(kern, swapon)
    /\ DOMAIN client = Clients
    /\ usage \in Int
    /\ \A c \in Clients : ClientOk(client[c], kern, mgr, swapon)

\* A consistent request asks for amounts the kernel can hold.
Amounts(l, s) == l \in Int /\ s \in Int /\ l > 0 /\ l <= MaxBytes /\ s <= MaxBytes /\ (s = -1 \/ l <= s)

\* The answer to a write of a plan.
Answer(w) == IF w.file = "error" THEN "EINVAL" ELSE KernelWrite(w.file, w.val)

\* The files after a write.
After(w, k) == IF Answer(w) = "ok" THEN [k EXCEPT ![w.file] = Stored(w.val)] ELSE k

\* What each answer of the kernel says about the write.
LEMMA KernelAnswers ==
    ASSUME MaxBytes \in Nat, KernOk(kern, swapon), NEW w \in Writes
    PROVE  /\ Answer(w) = "ok" => /\ w.file \in MemoryFiles /\ Stored(w.val) >= 0
                                  /\ w.file \in {"memsw", "swap"} => swapon
                                  /\ w.file = "limit" /\ swapon => Stored(w.val) <= kern["memsw"]
                                  /\ w.file = "memsw" => Stored(w.val) >= kern["limit"]
           /\ Answer(w) = "ENOENT" => w.file \in {"memsw", "swap"} /\ ~swapon
           /\ Answer(w) = "EINVAL" /\ w.file = "limit" =>
                 Stored(w.val) < 0 \/ (swapon /\ Stored(w.val) > kern["memsw"])
           /\ Answer(w) = "EINVAL" /\ w.file = "memsw" =>
                 Stored(w.val) < 0 \/ Stored(w.val) < kern["limit"]
  <1>. DEFINE v == IF w.val = -1 THEN Unlimited ELSE w.val
  <1>1. /\ w.file \in MemoryFiles \cup {"error"} /\ v \in Int /\ v = Stored(w.val)
        /\ kern["limit"] \in Int /\ kern["memsw"] \in Int
    BY DEF Writes, Stored, Unlimited, KernOk, MemoryFiles, V1Files
  <1>2. CASE w.file = "error"
    BY Zenon, <1>2 DEF Answer
  <1>3. CASE w.file # "error"
    <2>1. Answer(w) =
            IF v < 0 THEN "EINVAL"
            ELSE IF w.file \in {"memsw", "swap"} /\ ~swapon THEN "ENOENT"
            ELSE IF w.file = "limit" /\ swapon /\ v > kern["memsw"] THEN "EINVAL"
            ELSE IF w.file = "memsw" /\ v < kern["limit"] THEN "EINVAL"
            ELSE IF w.file \in {"limit", "memsw"} /\ v < usage THEN "EBUSY"
            ELSE "ok"
      BY Zenon, <1>3 DEF Answer, KernelWrite
    <2>. HIDE DEF v
    <2>. QED BY <1>1, <1>3, <2>1
  <1>. QED BY Zenon, <1>2, <1>3

\* The first write of a plan and the others.
LEMMA PlanSplits ==
    ASSUME NEW S, NEW p \in Seq(S), p # <<>>
    PROVE  Head(p) \in S /\ Tail(p) \in Seq(S)
  OBVIOUS

\* A write keeps the files in order.
LEMMA WriteKeepsFiles ==
    ASSUME MaxBytes \in Nat, KernOk(kern, swapon), NEW w \in Writes
    PROVE  /\ KernOk(After(w, kern), swapon)
           /\ \A f \in MemoryFiles \ {w.file} : After(w, kern)[f] = kern[f]
           /\ Answer(w) = "ok" => After(w, kern)[w.file] = Stored(w.val)
           /\ Answer(w) # "ok" => After(w, kern) = kern
  <1>1. w.val \in Int /\ (w.file = "limit" => w.val <= MaxBytes)
    BY Zenon DEF Writes
  <1>2. Stored(w.val) \in Int /\ (w.file = "limit" => Stored(w.val) <= Unlimited)
    BY <1>1 DEF Stored, Unlimited
  <1>3. CASE Answer(w) = "ok"
    <2>1. w.file \in MemoryFiles /\ After(w, kern) = [kern EXCEPT ![w.file] = Stored(w.val)]
      BY Zenon, <1>3, KernelAnswers DEF After
    <2>2. After(w, kern) \in [MemoryFiles -> Int]
      BY Zenon, <1>2, <2>1 DEF KernOk
    <2>3. /\ \A f \in MemoryFiles \ {w.file} : After(w, kern)[f] = kern[f]
          /\ After(w, kern)[w.file] = Stored(w.val)
      BY Zenon, <2>1 DEF KernOk
    <2>4. "limit" \in MemoryFiles /\ "memsw" \in MemoryFiles /\ kern["limit"] \in Int /\ kern["memsw"] \in Int
      BY Zenon DEF MemoryFiles, V1Files, KernOk
    <2>. QED BY Zenon, <1>2, <1>3, <2>2, <2>3, <2>4, KernelAnswers DEF KernOk
  <1>4. CASE Answer(w) # "ok"
    BY Zenon, <1>4 DEF After
  <1>. QED BY Zenon, <1>3, <1>4

\* The numbers of a consistent request.
LEMMA StoredAmounts ==
    ASSUME MaxBytes \in Nat, NEW l, NEW s, Amounts(l, s)
    PROVE  /\ l \in Int /\ Stored(l) = l /\ l > 0
           /\ Stored(s) \in Int /\ l <= Stored(s)
           /\ SwapAlone(l, s) \in Int /\ Stored(SwapAlone(l, s)) >= 0
  BY DEF Amounts, Stored, SwapAlone, Unlimited

\* v1: every write of a consistent request is accepted unless memory is wanting, and
\* what is in force after it is what the next one needs.
LEMMA V1Step ==
    ASSUME MaxBytes \in Nat, KernOk(kern, swapon), NEW p \in Seq(Writes), p # <<>>,
           NEW l, NEW s, Amounts(l, s), V1Stage(kern, swapon, p, l, s)
    PROVE  /\ Answer(Head(p)) = "EINVAL" => Head(p).file \notin {"limit", "memsw"}
           /\ Answer(Head(p)) \in {"ok", "ENOENT"} =>
                 V1Stage(After(Head(p), kern), swapon, Tail(p), l, s)
  <1>. DEFINE w == Head(p)
              k == After(w, kern)
  <1>1. w \in Writes /\ Tail(p) \in Seq(Writes)
    BY Zenon, PlanSplits
  <1>2. /\ l \in Int /\ Stored(l) = l /\ l > 0 /\ Stored(s) \in Int /\ l <= Stored(s)
    BY Zenon, StoredAmounts
  <1>3. /\ "limit" \in MemoryFiles /\ "memsw" \in MemoryFiles
        /\ kern["limit"] \in Int /\ kern["memsw"] \in Int
    BY Zenon DEF MemoryFiles, V1Files, KernOk
  <1>4. /\ \A f \in MemoryFiles \ {w.file} : k[f] = kern[f]
        /\ Answer(w) = "ok" => k[w.file] = Stored(w.val)
        /\ Answer(w) # "ok" => k = kern
    BY Zenon, <1>1, WriteKeepsFiles
  <1>5. /\ Answer(w) = "ENOENT" => w.file \in {"memsw", "swap"} /\ ~swapon
        /\ Answer(w) = "EINVAL" /\ w.file = "limit" =>
              Stored(w.val) < 0 \/ (swapon /\ Stored(w.val) > kern["memsw"])
        /\ Answer(w) = "EINVAL" /\ w.file = "memsw" =>
              Stored(w.val) < 0 \/ Stored(w.val) < kern["limit"]
    BY Zenon, <1>1, KernelAnswers
  <1>. HIDE DEF k
  <1>6. CASE V1First(p, l, s) /\ kern["limit"] <= Stored(s)
    <2>1. w.file = "memsw" /\ w.val = s /\ V1Again(Tail(p), l, s)
      BY Zenon, <1>6 DEF V1First, Begins
    <2>2. Answer(w) # "EINVAL"
      BY <1>2, <1>3, <1>5, <1>6, <2>1
    <2>3. Answer(w) \in {"ok", "ENOENT"} => (swapon => k["memsw"] = Stored(s))
      BY Zenon, <1>4, <1>5, <2>1
    <2>. QED BY Zenon, <2>1, <2>2, <2>3 DEF V1Stage, k
  <1>7. CASE V1Again(p, l, s) /\ (swapon => kern["memsw"] = Stored(s))
    <2>1. w.file = "limit" /\ w.val = l /\ V1Limit(Tail(p), l, s)
      BY Zenon, <1>7 DEF V1Again, Begins
    <2>2. Answer(w) # "EINVAL"
      BY <1>2, <1>3, <1>5, <1>7, <2>1
    <2>3. swapon => l <= k["memsw"]
      BY Zenon, <1>2, <1>3, <1>4, <1>7, <2>1
    <2>. QED BY Zenon, <2>1, <2>2, <2>3 DEF V1Stage, k
  <1>8. CASE V1Limit(p, l, s) /\ (swapon => l <= kern["memsw"])
    <2>1. w.file = "limit" /\ w.val = l /\ V1Last(Tail(p), s)
      BY Zenon, <1>8 DEF V1Limit, Begins
    <2>2. Answer(w) # "EINVAL"
      BY <1>2, <1>3, <1>5, <1>8, <2>1
    <2>3. Answer(w) \in {"ok", "ENOENT"} => k["limit"] = l
      BY Zenon, <1>2, <1>4, <1>5, <2>1
    <2>. QED BY Zenon, <2>1, <2>2, <2>3 DEF V1Stage, k
  <1>9. CASE V1Last(p, s) /\ kern["limit"] = l
    <2>1. w.file = "memsw" /\ w.val = s /\ Quiet(Tail(p))
      BY Zenon, <1>9 DEF V1Last, Begins
    <2>2. Answer(w) # "EINVAL"
      BY <1>2, <1>3, <1>5, <1>9, <2>1
    <2>3. /\ k["limit"] = l
          /\ Answer(w) \in {"ok", "ENOENT"} => (swapon => k["memsw"] = Stored(s))
      BY Zenon, <1>3, <1>4, <1>5, <1>9, <2>1
    <2>. QED BY Zenon, <2>1, <2>2, <2>3 DEF V1Stage, k
  <1>10. CASE Quiet(p) /\ kern["limit"] = l /\ (swapon => kern["memsw"] = Stored(s))
    <2>1. w \in QuietWrites /\ Quiet(Tail(p))
      BY Zenon, <1>10, PlanSplits DEF Quiet
    <2>2. w.file \notin {"limit", "memsw"}
      BY Zenon, <2>1 DEF QuietWrites
    <2>3. k["limit"] = kern["limit"] /\ k["memsw"] = kern["memsw"]
      BY Zenon, <1>3, <1>4, <2>2
    <2>. QED BY Zenon, <1>10, <2>1, <2>2, <2>3 DEF V1Stage, k
  <1>. QED BY Zenon, <1>6, <1>7, <1>8, <1>9, <1>10 DEF V1Stage

\* v2: the same, where the swap limit comes first and the kernel reclaims.
LEMMA V2Step ==
    ASSUME MaxBytes \in Nat, KernOk(kern, swapon), NEW p \in Seq(Writes), p # <<>>,
           NEW l, NEW s, Amounts(l, s), V2Stage(kern, swapon, p, l, s),
           Answer(Head(p)) \in {"ok", "ENOENT"}
    PROVE  V2Stage(After(Head(p), kern), swapon, Tail(p), l, s)
  <1>. DEFINE w == Head(p)
              k == After(w, kern)
  <1>1. w \in Writes
    BY Zenon, PlanSplits
  <1>2. Stored(l) = l
    BY Zenon, StoredAmounts
  <1>3. "max" \in MemoryFiles /\ "swap" \in MemoryFiles
    BY Zenon DEF MemoryFiles, V2Files
  <1>4. /\ \A f \in MemoryFiles \ {w.file} : k[f] = kern[f]
        /\ Answer(w) = "ok" => k[w.file] = Stored(w.val)
    BY Zenon, <1>1, WriteKeepsFiles
  <1>5. Answer(w) = "ENOENT" => w.file \in {"memsw", "swap"} /\ ~swapon
    BY Zenon, <1>1, KernelAnswers
  <1>. HIDE DEF k
  <1>6. CASE V2First(p, l, s)
    <2>1. w.file = "swap" /\ w.val = SwapAlone(l, s) /\ V2Max(Tail(p), l)
      BY Zenon, <1>6 DEF V2First, Begins
    <2>2. swapon => k["swap"] = Stored(SwapAlone(l, s))
      BY Zenon, <1>4, <1>5, <2>1
    <2>. QED BY Zenon, <2>1, <2>2 DEF V2Stage, k
  <1>7. CASE V2Max(p, l) /\ (swapon => kern["swap"] = Stored(SwapAlone(l, s)))
    <2>1. w.file = "max" /\ w.val = l /\ Quiet(Tail(p))
      BY Zenon, <1>7 DEF V2Max, Begins
    <2>2. k["max"] = l /\ k["swap"] = kern["swap"]
      BY Zenon, <1>2, <1>3, <1>4, <1>5, <2>1
    <2>. QED BY Zenon, <1>7, <2>1, <2>2 DEF V2Stage, k
  <1>8. CASE Quiet(p) /\ kern["max"] = l /\ (swapon => kern["swap"] = Stored(SwapAlone(l, s)))
    <2>1. w \in QuietWrites /\ Quiet(Tail(p))
      BY Zenon, <1>8, PlanSplits DEF Quiet
    <2>2. w.file \notin {"max", "swap"}
      BY Zenon, <2>1 DEF QuietWrites
    <2>3. k["max"] = kern["max"] /\ k["swap"] = kern["swap"]
      BY Zenon, <1>3, <1>4, <2>2
    <2>. QED BY Zenon, <1>8, <2>1, <2>3 DEF V2Stage, k
  <1>. QED BY Zenon, <1>6, <1>7, <1>8 DEF V2Stage

\* A plan that is put behind a write.
LEMMA Prepended ==
    ASSUME NEW S, NEW w \in S, NEW q \in Seq(S)
    PROVE  /\ <<w>> \o q \in Seq(S) /\ <<w>> \o q # <<>>
           /\ Head(<<w>> \o q) = w /\ Tail(<<w>> \o q) = q
  <1>1. <<w>> \in Seq(S) /\ <<w>> \o q \in Seq(S) /\ Len(<<w>> \o q) = 1 + Len(q)
    OBVIOUS
  <1>2. <<w>> \o q # <<>> /\ Head(<<w>> \o q) = w
    BY <1>1
  <1>3. Tail(<<w>> \o q) \in Seq(S) /\ Len(Tail(<<w>> \o q)) = Len(q)
    BY <1>1, <1>2
  <1>4. \A i \in 1 .. Len(q) : Tail(<<w>> \o q)[i] = q[i]
    BY <1>1, <1>2, <1>3
  <1>. QED BY Zenon, <1>1, <1>2, <1>3, <1>4, SeqEqual

\* One write of a known file is a plan.
LEMMA OneWrite ==
    ASSUME NEW file \in MemoryFiles \cup {"error"}, NEW val \in Int,
           file = "limit" => val <= MaxBytes
    PROVE  /\ Write(file, val) \in Writes /\ << Write(file, val) >> \in Seq(Writes)
           /\ Write(file, val).file = file /\ Write(file, val).val = val
           /\ file \notin {"limit", "memsw", "max", "swap"} =>
                 Write(file, val) \in QuietWrites /\ << Write(file, val) >> \in Seq(QuietWrites)
  <1>1. Write(file, val) \in Writes /\ Write(file, val).file = file /\ Write(file, val).val = val
    BY Zenon DEF Write, Writes
  <1>2. file \notin {"limit", "memsw", "max", "swap"} => Write(file, val) \in QuietWrites
    BY Zenon, <1>1 DEF QuietWrites
  <1>. HIDE DEF Write
  <1>. QED BY <1>1, <1>2

\* Plans, one after the other.
LEMMA PlansJoin ==
    ASSUME NEW S, NEW p \in Seq(S), NEW q \in Seq(S)
    PROVE  p \o q \in Seq(S)
  OBVIOUS

\* A setting that is given is a whole number.
LEMMA GivenIsInt ==
    ASSUME NEW r, MemoryRequest(r)
    PROVE  /\ r.limit # <<>> => r.limit[1] \in Int /\ r.limit[1] <= MaxBytes /\ r.limit = <<r.limit[1]>>
           /\ r.swap # <<>> => r.swap[1] \in Int /\ r.swap[1] <= MaxBytes /\ r.swap = <<r.swap[1]>>
           /\ r.reservation # <<>> => r.reservation[1] \in Int
           /\ r.swappiness # <<>> => r.swappiness[1] \in Int
           /\ r.kernel # <<>> => r.kernel[1] \in Int
           /\ r.kernel_tcp # <<>> => r.kernel_tcp[1] \in Int
  <1>1. \A v \in Int : <<v>>[1] = v
    BY Zenon
  <1>2. \A k \in {"limit", "swap", "reservation", "swappiness", "kernel", "kernel_tcp"} :
           r[k] # <<>> => r[k][1] \in Int /\ r[k] = <<r[k][1]>>
    BY Zenon, <1>1 DEF MemoryRequest
  <1>. QED BY Zenon, <1>2 DEF MemoryRequest

\* A plan that touches no limit is a plan.
LEMMA QuietIsPlan == Seq(QuietWrites) \subseteq Seq(Writes)
  <1>1. QuietWrites \subseteq Writes
    BY Zenon DEF QuietWrites
  <1>. QED BY <1>1

\* The settings that follow the limits touch no limit.
LEMMA OthersAreQuiet ==
    ASSUME NEW r, MemoryRequest(r)
    PROVE  ApplyOthers(r) \in Seq(QuietWrites)
  <1>. DEFINE soft == IF r.reservation = <<>> THEN <<>>
                      ELSE IF r.reservation[1] = 0 THEN <<>> ELSE << Write("soft", r.reservation[1]) >>
              swappiness == IF r.swappiness = <<>> THEN <<>>
                            ELSE IF r.swappiness[1] <= 100 THEN << Write("swappiness", r.swappiness[1]) >>
                            ELSE << Write("error", 0) >>
              kmem == IF r.kernel = <<>> THEN <<>> ELSE << Write("kmem", r.kernel[1]) >>
              tcp == IF r.kernel_tcp = <<>> THEN <<>> ELSE << Write("kmem_tcp", r.kernel_tcp[1]) >>
  <1>1. ASSUME NEW file \in {"soft", "oom", "swappiness", "kmem", "kmem_tcp", "error"}, NEW val \in Int
        PROVE  << Write(file, val) >> \in Seq(QuietWrites)
    <2>1. file \in MemoryFiles \cup {"error"} /\ file \notin {"limit", "memsw", "max", "swap"}
      BY Zenon DEF MemoryFiles, V1Files
    <2>. QED BY Zenon, <2>1, OneWrite
  <1>2. <<>> \in Seq(QuietWrites)
    OBVIOUS
  <1>3. /\ soft \in Seq(QuietWrites) /\ << Write("oom", 0) >> \in Seq(QuietWrites)
        /\ swappiness \in Seq(QuietWrites) /\ kmem \in Seq(QuietWrites) /\ tcp \in Seq(QuietWrites)
    BY <1>1, <1>2, GivenIsInt
  <1>4. ApplyOthers(r) = soft \o << Write("oom", 0) >> \o swappiness \o kmem \o tcp
    BY Zenon DEF ApplyOthers, IfGiven, Refuse
  <1>. HIDE DEF soft, swappiness, kmem, tcp
  <1>5. /\ soft \o << Write("oom", 0) >> \in Seq(QuietWrites)
        /\ soft \o << Write("oom", 0) >> \o swappiness \in Seq(QuietWrites)
        /\ soft \o << Write("oom", 0) >> \o swappiness \o kmem \in Seq(QuietWrites)
    BY Zenon, <1>3, PlansJoin
  <1>. QED BY Zenon, <1>3, <1>4, <1>5, PlansJoin

\* The writes of the limit and of the swap limit, in the order v1 chooses.
LEMMA LimitWrites ==
    ASSUME NEW l \in Int, NEW s \in Int, l <= MaxBytes, NEW upd \in BOOLEAN
    PROVE  /\ set_memory(l) \in Seq(Writes) /\ set_swap(s) \in Seq(Writes)
           /\ set_memory_and_swap(l, s, upd) \in Seq(Writes)
  <1>1. set_memory(l) \in Seq(Writes) /\ set_swap(s) \in Seq(Writes)
    <2>1. "limit" \in MemoryFiles /\ "memsw" \in MemoryFiles
      BY Zenon DEF MemoryFiles, V1Files
    <2>2. << Write("limit", l) >> \in Seq(Writes) /\ << Write("memsw", s) >> \in Seq(Writes)
      BY Zenon, <2>1, OneWrite
    <2>3. <<>> \in Seq(Writes)
      OBVIOUS
    <2>. QED BY Zenon, <2>2, <2>3 DEF set_memory, set_swap
  <1>2. (IF upd THEN set_swap(s) \o set_memory(l) ELSE <<>>) \in Seq(Writes)
    <2>1. CASE upd
      BY Zenon, <1>1, <2>1, PlansJoin
    <2>2. CASE ~upd
      BY <2>2
    <2>. QED BY Zenon, <2>1, <2>2
  <1>3. (IF upd THEN set_swap(s) \o set_memory(l) ELSE <<>>) \o set_memory(l) \in Seq(Writes)
    BY Zenon, <1>1, <1>2, PlansJoin
  <1>. QED BY Zenon, <1>1, <1>3, PlansJoin DEF set_memory_and_swap

\* v1 Memory::apply plans writes of known files.
LEMMA V1PlanIsPlan ==
    ASSUME MaxBytes \in Nat, NEW r, MemoryRequest(r), NEW current \in Int
    PROVE  V1Plan(r, current) \in Seq(Writes)
  <1>1. ApplyLimits(r, current) \in Seq(Writes)
    <2>0. -1 \in Int /\ 0 \in Int /\ -1 <= MaxBytes /\ 0 <= MaxBytes /\ (current < 0) \in BOOLEAN
      OBVIOUS
    <2>1. CASE r.limit # <<>> /\ r.swap # <<>>
      <3>. DEFINE upd == r.swap[1] = -1 \/ current < r.swap[1]
      <3>1. ApplyLimits(r, current) = set_memory_and_swap(r.limit[1], r.swap[1], upd)
        BY Zenon, <2>1 DEF ApplyLimits
      <3>. QED BY Zenon, <2>1, <3>1, GivenIsInt, LimitWrites
    <2>2. CASE r.limit = <<-1>> /\ r.swap = <<>>
      <3>1. ApplyLimits(r, current) = set_memory_and_swap(-1, -1, TRUE)
        BY Zenon, <2>2 DEF ApplyLimits
      <3>. QED BY Zenon, <2>0, <3>1, LimitWrites
    <2>3. CASE r.limit # <<>> /\ r.limit # <<-1>> /\ r.swap = <<>>
      <3>1. ApplyLimits(r, current) = set_memory_and_swap(r.limit[1], 0, current < 0)
        BY Zenon, <2>3 DEF ApplyLimits
      <3>. QED BY Zenon, <2>0, <2>3, <3>1, GivenIsInt, LimitWrites
    <2>4. CASE r.limit = <<>> /\ r.swap # <<>>
      <3>1. ApplyLimits(r, current) = set_memory_and_swap(0, r.swap[1], FALSE)
        BY Zenon, <2>4 DEF ApplyLimits
      <3>. QED BY Zenon, <2>0, <2>4, <3>1, GivenIsInt, LimitWrites
    <2>5. CASE r.limit = <<>> /\ r.swap = <<>>
      BY <2>5 DEF ApplyLimits
    <2>. QED BY Zenon, <2>1, <2>2, <2>3, <2>4, <2>5
  <1>. QED BY Zenon, <1>1, QuietIsPlan, OthersAreQuiet, PlansJoin DEF V1Plan

\* The plan of a consistent request under v1: both limits, in an order that the
\* limits in force allow, and then what touches no limit.
LEMMA V1PlanBegins ==
    ASSUME MaxBytes \in Nat, KernOk(kern, swapon), NEW r, MemoryRequest(r), Consistent(r)
    PROVE  V1Stage(kern, swapon, V1Plan(r, get_memory_limit), r.limit[1], r.swap[1])
  <1>. DEFINE l == r.limit[1]
              s == r.swap[1]
              A == Write("memsw", s)
              B == Write("limit", l)
              R == ApplyOthers(r)
              upd == s = -1 \/ kern["limit"] < s
  <1>1. l \in Int /\ s \in Int /\ l > 0 /\ l <= MaxBytes /\ s # 0 /\ (s = -1 \/ l <= s)
    BY GivenIsInt DEF Consistent
  <1>2. r.limit # <<>> /\ r.swap # <<>>
    BY Zenon DEF Consistent
  <1>3. kern["limit"] \in Int /\ kern["memsw"] \in Int /\ kern["limit"] <= Unlimited
        /\ (swapon => kern["limit"] <= kern["memsw"])
    BY Zenon DEF KernOk, MemoryFiles, V1Files
  <1>4. R \in Seq(QuietWrites) /\ R \in Seq(Writes)
    BY Zenon, OthersAreQuiet, QuietIsPlan
  <1>5. A \in Writes /\ B \in Writes /\ A.file = "memsw" /\ A.val = s /\ B.file = "limit" /\ B.val = l
    <2>1. /\ "memsw" \in MemoryFiles \cup {"error"} /\ "memsw" # "limit" /\ s \in Int
          /\ "limit" \in MemoryFiles \cup {"error"} /\ l \in Int /\ l <= MaxBytes
      BY <1>1 DEF MemoryFiles, V1Files
    <2>2. A \in Writes /\ A.file = "memsw" /\ A.val = s
      BY Zenon, <2>1, OneWrite
    <2>3. B \in Writes /\ B.file = "limit" /\ B.val = l
      BY Zenon, <2>1, OneWrite
    <2>. QED BY Zenon, <2>2, <2>3
  <1>6. V1Plan(r, get_memory_limit) = ((IF upd THEN <<A>> \o <<B>> ELSE <<>>) \o <<B>> \o <<A>>) \o R
    <2>1. set_memory(l) = <<B>> /\ set_swap(s) = <<A>>
      BY <1>1 DEF set_memory, set_swap
    <2>2. ApplyLimits(r, get_memory_limit) = set_memory_and_swap(l, s, upd)
      BY Zenon, <1>2 DEF ApplyLimits, get_memory_limit
    <2>. QED BY Zenon, <2>1, <2>2 DEF V1Plan, set_memory_and_swap
  <1>. HIDE DEF A, B, R, l, s
  <1>. DEFINE a == <<A>>
              b == <<B>>
  <1>7. a \in Seq(Writes) /\ b \in Seq(Writes)
    BY <1>5
  <1>. DEFINE p3 == a \o R
              p2 == b \o p3
              p1 == b \o p2
              p0 == a \o p1
  <1>8. V1Last(p3, s) /\ p3 \in Seq(Writes)
    BY Zenon, <1>4, <1>5, Prepended DEF V1Last, Begins, Quiet
  <1>. HIDE DEF p3
  <1>9. V1Limit(p2, l, s) /\ p2 \in Seq(Writes)
    BY Zenon, <1>5, <1>8, Prepended DEF V1Limit, Begins
  <1>. HIDE DEF p2
  <1>10. V1Again(p1, l, s) /\ p1 \in Seq(Writes)
    BY Zenon, <1>5, <1>9, Prepended DEF V1Again, Begins
  <1>. HIDE DEF p1
  <1>11. V1First(p0, l, s)
    BY Zenon, <1>5, <1>10, Prepended DEF V1First, Begins
  <1>. HIDE DEF p0, a, b
  <1>12. CASE upd
    <2>1. V1Plan(r, get_memory_limit) = p0
      <3>1. V1Plan(r, get_memory_limit) = (((a \o b) \o b) \o a) \o R
        BY Zenon, <1>6, <1>12 DEF a, b
      <3>. DEFINE q == (a \o b) \o b
      <3>2. a \o b \in Seq(Writes) /\ q \in Seq(Writes)
        BY Zenon, <1>7, PlansJoin
      <3>3. q \o p3 = (a \o b) \o p2
        BY SMTT(30), <1>7, <1>8, <3>2, ConcatAssociative DEF p2
      <3>. HIDE DEF q
      <3>4. (q \o a) \o R = q \o p3
        BY SMTT(30), <1>4, <1>7, <3>2, ConcatAssociative DEF p3
      <3>5. (a \o b) \o p2 = p0
        BY SMTT(30), <1>7, <1>9, ConcatAssociative DEF p0, p1
      <3>. QED BY Zenon, <3>1, <3>3, <3>4, <3>5 DEF q
    <2>2. kern["limit"] <= Stored(s)
      BY <1>1, <1>3, <1>12 DEF Stored, Unlimited
    <2>. QED BY Zenon, <1>11, <2>1, <2>2 DEF V1Stage, l, s
  <1>13. CASE ~upd
    <2>1. V1Plan(r, get_memory_limit) = p2
      <3>1. V1Plan(r, get_memory_limit) = ((<<>> \o b) \o a) \o R
        BY Zenon, <1>6, <1>13 DEF a, b
      <3>2. <<>> \o b = b
        BY <1>7
      <3>3. (b \o a) \o R = p2
        BY SMTT(30), <1>4, <1>7, ConcatAssociative DEF p2, p3
      <3>. QED BY Zenon, <3>1, <3>2, <3>3
    <2>2. swapon => l <= kern["memsw"]
      BY <1>1, <1>3, <1>13
    <2>. QED BY Zenon, <1>9, <2>1, <2>2 DEF V1Stage, l, s
  <1>. QED BY Zenon, <1>12, <1>13

\* v2 Memory::set_swap is a write of the swap file, which may find none.
LEMMA SwapWrite ==
    ASSUME NEW v \in Int
    PROVE  \E w \in Writes : SetSwapV2(v) = <<w>> /\ w.file = "swap" /\ w.val = v
  <1>. DEFINE b == v \in {-1, 0}
              w == [file |-> "swap", val |-> v, tolerant |-> b]
  <1>1. b \in BOOLEAN
    OBVIOUS
  <1>2. SetSwapV2(v) = <<w>>
    <2>. HIDE DEF b
    <2>1. [[file |-> "swap", val |-> v, tolerant |-> FALSE] EXCEPT !.tolerant = b] = w
      OBVIOUS
    <2>. QED BY Zenon, <2>1 DEF SetSwapV2, Write, b
  <1>3. w \in Writes /\ w.file = "swap" /\ w.val = v
    <2>. HIDE DEF b
    <2>. QED BY Zenon, <1>1 DEF Writes, MemoryFiles, V2Files
  <1>. HIDE DEF w
  <1>. QED BY Zenon, <1>2, <1>3

\* v2 Memory::apply plans writes of known files.
LEMMA V2PlanIsPlan ==
    ASSUME MaxBytes \in Nat, NEW r, MemoryRequest(r)
    PROVE  V2Plan(r) \in Seq(Writes)
  <1>1. <<>> \in Seq(Writes)
    OBVIOUS
  <1>2. Refuse \in Seq(Writes)
    BY OneWrite, 0 \in Int DEF Refuse
  <1>3. ASSUME NEW v \in Int
        PROVE  /\ SetV2("max", v) \in Seq(Writes) /\ SetV2("low", v) \in Seq(Writes)
               /\ SetSwapV2(v) \in Seq(Writes)
    <2>1. << Write("max", v) >> \in Seq(Writes) /\ << Write("low", v) >> \in Seq(Writes)
      BY Zenon, OneWrite DEF MemoryFiles, V2Files
    <2>2. PICK w \in Writes : SetSwapV2(v) = <<w>>
      BY Zenon, SwapWrite
    <2>3. SetSwapV2(v) \in Seq(Writes)
      BY <2>2
    <2>. QED BY Zenon, <1>1, <2>1, <2>3 DEF SetV2
  <1>4. ASSUME NEW l \in Int, NEW opt, opt # <<>> => opt[1] \in Int
        PROVE  V2Limits(l, opt) \in Seq(Writes)
    <2>. DEFINE first == IF opt = <<>> THEN (IF l = -1 THEN SetSwapV2(-1) ELSE <<>>)
                         ELSE IF -1 \in {l, opt[1]} THEN (IF opt[1] # 0 THEN SetSwapV2(opt[1]) ELSE <<>>)
                         ELSE ConvertedSwap(l, opt[1])
    <2>1. V2Limits(l, opt) \in {Refuse, first \o SetV2("max", l)}
      BY Zenon DEF V2Limits
    <2>2. opt # <<>> => ConvertedSwap(l, opt[1]) \in Seq(Writes)
      <3>1. opt # <<>> => opt[1] - l \in Int
        BY <1>4
      <3>. QED BY Zenon, <1>1, <1>2, <1>3, <3>1 DEF ConvertedSwap
    <2>3. first \in Seq(Writes)
      BY <1>1, <1>3, <1>4, <2>2, -1 \in Int
    <2>. HIDE DEF first
    <2>4. first \o SetV2("max", l) \in Seq(Writes)
      BY Zenon, <1>3, <2>3, PlansJoin
    <2>. QED BY Zenon, <1>2, <2>1, <2>4
  <1>. DEFINE limits == IF r.limit # <<>> THEN V2Limits(r.limit[1], r.swap)
                        ELSE IF r.swap # <<>> THEN Refuse ELSE <<>>
              low == IF r.reservation = <<>> THEN <<>>
                     ELSE IF r.reservation[1] < -1 THEN Refuse ELSE SetV2("low", r.reservation[1])
  <1>5. limits \in Seq(Writes) /\ low \in Seq(Writes)
    BY Zenon, <1>1, <1>2, <1>3, <1>4, GivenIsInt
  <1>6. V2Plan(r) \in {<<>>, limits \o low}
    BY Zenon DEF V2Plan, IfGiven
  <1>. HIDE DEF limits, low
  <1>. QED BY Zenon, <1>1, <1>5, <1>6, PlansJoin

\* The plan of a consistent request under v2: swap alone, the limit, the low mark.
LEMMA V2PlanBegins ==
    ASSUME MaxBytes \in Nat, NEW k, NEW sw, NEW r, MemoryRequest(r), Consistent(r)
    PROVE  V2Stage(k, sw, V2Plan(r), r.limit[1], r.swap[1])
  <1>. DEFINE l == r.limit[1]
              s == r.swap[1]
              x == SwapAlone(l, s)
              M == Write("max", l)
              low == IF r.reservation = <<>> THEN <<>>
                     ELSE IF r.reservation[1] < -1 THEN Refuse ELSE SetV2("low", r.reservation[1])
  <1>1. /\ l \in Int /\ s \in Int /\ l > 0 /\ l <= MaxBytes /\ s # 0 /\ (s = -1 \/ l <= s)
        /\ r.limit # <<>> /\ r.swap # <<>>
    BY GivenIsInt DEF Consistent
  <1>2. x \in Int
    BY <1>1 DEF SwapAlone
  <1>3. low \in Seq(QuietWrites)
    <2>1. <<>> \in Seq(QuietWrites)
      OBVIOUS
    <2>2. Refuse \in Seq(QuietWrites)
      BY OneWrite, 0 \in Int DEF Refuse
    <2>3. \A v \in Int : << Write("low", v) >> \in Seq(QuietWrites)
      BY Zenon, OneWrite DEF MemoryFiles, V2Files
    <2>. QED BY Zenon, <2>1, <2>2, <2>3, GivenIsInt DEF SetV2
  <1>. HIDE DEF x
  <1>4. PICK W \in Writes : SetSwapV2(x) = <<W>> /\ W.file = "swap" /\ W.val = x
    BY Zenon, <1>2, SwapWrite
  <1>5. M \in Writes /\ M.file = "max" /\ M.val = l
    <2>1. "max" \in MemoryFiles \cup {"error"} /\ "max" # "limit" /\ l \in Int
      BY Zenon, <1>1 DEF MemoryFiles, V2Files
    <2>. QED BY Zenon, <2>1, OneWrite
  <1>6. V2Plan(r) = (<<W>> \o <<M>>) \o low
    <2>1. V2Limits(l, r.swap) = SetSwapV2(x) \o SetV2("max", l)
      <3>1. CASE s = -1
        BY <1>1, <3>1 DEF V2Limits, SwapAlone, x
      <3>2. CASE s # -1
        <4>1. ConvertedSwap(l, s) = SetSwapV2(x)
          BY <1>1, <3>2 DEF ConvertedSwap, SwapAlone, x
        <4>2. ~(l < -1) /\ ~(s < -1) /\ -1 \notin {l, s}
          BY <1>1, <3>2
        <4>3. V2Limits(l, r.swap) = ConvertedSwap(l, s) \o SetV2("max", l)
          BY Zenon, <1>1, <4>2 DEF V2Limits
        <4>. QED BY Zenon, <4>1, <4>3
      <3>. QED BY Zenon, <3>1, <3>2
    <2>2. SetSwapV2(x) = <<W>> /\ SetV2("max", l) = <<M>>
      BY <1>1, <1>4 DEF SetV2
    <2>3. V2Plan(r) = V2Limits(l, r.swap) \o low
      BY Zenon, <1>1 DEF V2Plan, IfGiven
    <2>. QED BY Zenon, <2>1, <2>2, <2>3
  <1>. HIDE DEF M, low, l, s, x
  <1>. DEFINE a == <<W>>
              b == <<M>>
              p1 == b \o low
              p0 == a \o p1
  <1>7. a \in Seq(Writes) /\ b \in Seq(Writes) /\ low \in Seq(Writes)
    BY <1>3, <1>5, <1>4, QuietIsPlan
  <1>8. V2Max(p1, l) /\ p1 \in Seq(Writes)
    BY Zenon, <1>3, <1>5, <1>4, <1>7, Prepended DEF V2Max, Begins, Quiet
  <1>. HIDE DEF p1
  <1>9. V2First(p0, l, s)
    BY Zenon, <1>5, <1>4, <1>8, Prepended DEF V2First, Begins, x
  <1>10. (a \o b) \o low = p0
    <2>. HIDE DEF a, b
    <2>. QED BY SMTT(30), <1>7, ConcatAssociative DEF p1
  <1>. QED BY Zenon, <1>6, <1>9, <1>10 DEF V2Stage, l, s

\* A consistent request as the numbers it asks for.
LEMMA ConsistentAmounts ==
    ASSUME OneClient, NEW r \in Requests \cup {NoRequest}, Consistent(r)
    PROVE  MemoryRequest(r) /\ Amounts(r.limit[1], r.swap[1])
  <1>1. r # NoRequest
    BY DEF Consistent, NoRequest
  <1>2. MemoryRequest(r)
    BY Zenon, <1>1 DEF OneClient
  <1>. QED BY Zenon, <1>2, GivenIsInt DEF Consistent, Amounts

\* The files of a unit after the properties of a request were set.
Unit(r) == [f \in DOMAIN kern |-> IF f \in V2Files THEN UnitFiles(UnitProperties(r))[f] ELSE kern[f]]

\* systemd: one call sets the limit and the swap limit of a consistent request.
LEMMA UnitLands ==
    ASSUME MaxBytes \in Nat, KernOk(kern, swapon), NEW r, MemoryRequest(r)
    PROVE  /\ KernOk(Unit(r), swapon)
           /\ Consistent(r) /\ swapon => Landed(Unit(r), "systemd", r.limit[1], r.swap[1])
  <1>. DEFINE given == [low |-> r.reservation, max |-> r.limit, swap |-> UnitSwap(r.limit, r.swap)]
              P == UnitProperties(r)
  <1>1. P = [f \in {g \in V2Files : given[g] # <<>>} |-> Stored(given[f][1])]
    BY Zenon DEF UnitProperties
  <1>2. /\ given["low"] = r.reservation /\ given["max"] = r.limit
        /\ given["swap"] = UnitSwap(r.limit, r.swap)
    BY Zenon
  <1>3. UnitSwap(r.limit, r.swap) # <<>> => UnitSwap(r.limit, r.swap)[1] \in Int
    <2>1. CASE (r.limit = <<-1>> /\ r.swap = <<>>) \/ r.swap = <<-1>>
      <3>1. UnitSwap(r.limit, r.swap) = <<Unlimited>>
        BY <2>1 DEF UnitSwap
      <3>. QED BY <3>1 DEF Unlimited
    <2>2. CASE /\ r.limit # <<>> /\ r.swap # <<>> /\ r.swap[1] > 0 /\ r.limit[1] > 0
               /\ r.limit[1] <= r.swap[1]
               /\ ~((r.limit = <<-1>> /\ r.swap = <<>>) \/ r.swap = <<-1>>)
      <3>1. UnitSwap(r.limit, r.swap) = <<r.swap[1] - r.limit[1]>>
        BY Zenon, <2>2 DEF UnitSwap
      <3>. QED BY <2>2, <3>1, GivenIsInt
    <2>3. CASE /\ ~((r.limit = <<-1>> /\ r.swap = <<>>) \/ r.swap = <<-1>>)
               /\ ~(/\ r.limit # <<>> /\ r.swap # <<>> /\ r.swap[1] > 0 /\ r.limit[1] > 0
                    /\ r.limit[1] <= r.swap[1])
      BY Zenon, <2>3 DEF UnitSwap
    <2>. QED BY Zenon, <2>1, <2>2, <2>3
  <1>4. \A f \in V2Files : given[f] # <<>> => given[f][1] \in Int
    BY Zenon, <1>2, <1>3, GivenIsInt DEF V2Files
  <1>. HIDE DEF given, P
  <1>5. \A f \in DOMAIN P : P[f] \in Int
    BY <1>1, <1>4 DEF Stored, Unlimited
  <1>6. \A f \in V2Files : UnitFiles(P)[f] = IF f \in DOMAIN P /\ (f = "swap" => swapon) THEN P[f] ELSE kern[f]
    BY Zenon DEF UnitFiles
  <1>7. DOMAIN kern = MemoryFiles /\ \A f \in MemoryFiles : kern[f] \in Int
    BY Zenon DEF KernOk
  <1>8. Unit(r) = [f \in MemoryFiles |-> IF f \in V2Files THEN UnitFiles(P)[f] ELSE kern[f]]
    BY Zenon, <1>7 DEF Unit, P
  <1>9. KernOk(Unit(r), swapon)
    <2>1. Unit(r) \in [MemoryFiles -> Int]
      BY Zenon, <1>5, <1>6, <1>7, <1>8
    <2>2. Unit(r)["limit"] = kern["limit"] /\ Unit(r)["memsw"] = kern["memsw"]
      BY Zenon, <1>8 DEF MemoryFiles, V1Files, V2Files
    <2>. QED BY Zenon, <2>1, <2>2 DEF KernOk
  <1>10. ASSUME Consistent(r), swapon
         PROVE  Landed(Unit(r), "systemd", r.limit[1], r.swap[1])
    <2>1. /\ r.limit[1] \in Int /\ r.swap[1] \in Int /\ r.limit[1] > 0 /\ r.limit # <<>> /\ r.swap # <<>>
          /\ r.swap[1] = -1 \/ r.limit[1] <= r.swap[1]
          /\ r.swap = <<r.swap[1]>> /\ r.limit = <<r.limit[1]>>
      BY Zenon, <1>10, GivenIsInt DEF Consistent
    <2>2. "max" \in V2Files /\ "swap" \in V2Files /\ V2Files \subseteq MemoryFiles
      BY Zenon DEF V2Files, MemoryFiles
    <2>3. Unit(r)["max"] = r.limit[1]
      <3>1. "max" \in DOMAIN P /\ P["max"] = r.limit[1]
        BY <1>1, <1>2, <2>1, <2>2 DEF Stored
      <3>. QED BY Zenon, <1>6, <1>8, <2>2, <3>1
    <2>4. UnitSwap(r.limit, r.swap) # <<>>
          /\ Stored(UnitSwap(r.limit, r.swap)[1]) = Stored(SwapAlone(r.limit[1], r.swap[1]))
      <3>1. CASE r.swap[1] = -1
        <4>1. UnitSwap(r.limit, r.swap) = <<Unlimited>>
          BY <2>1, <3>1 DEF UnitSwap
        <4>. QED BY <3>1, <4>1 DEF Stored, SwapAlone, Unlimited
      <3>2. CASE r.swap[1] # -1
        <4>1. r.swap # <<-1>> /\ r.swap[1] > 0
          BY <2>1, <3>2
        <4>2. UnitSwap(r.limit, r.swap) = <<r.swap[1] - r.limit[1]>>
          BY Zenon, <2>1, <4>1 DEF UnitSwap
        <4>. QED BY <3>2, <4>2 DEF SwapAlone
      <3>. QED BY Zenon, <3>1, <3>2
    <2>5. Unit(r)["swap"] = Stored(SwapAlone(r.limit[1], r.swap[1]))
      <3>1. "swap" \in DOMAIN P /\ P["swap"] = Stored(SwapAlone(r.limit[1], r.swap[1]))
        BY Zenon, <1>1, <1>2, <2>2, <2>4
      <3>. QED BY Zenon, <1>6, <1>8, <1>10, <2>2, <3>1
    <2>. QED BY Zenon, <2>3, <2>5 DEF Landed
  <1>. QED BY Zenon, <1>9, <1>10

\* A client that has just planned the writes of a request.
LEMMA BegunIsOk ==
    ASSUME OneClient, KernOk(kern, swapon), mgr \in {"v1", "v2"}, NEW r \in Requests, NEW before
    PROVE  ClientOk([state |-> "writing", req |-> r, before |-> before, error |-> <<>>,
                     plan |-> IF mgr = "v1" THEN V1Plan(r, get_memory_limit) ELSE V2Plan(r)],
                    kern, mgr, swapon)
  <1>. DEFINE plan == IF mgr = "v1" THEN V1Plan(r, get_memory_limit) ELSE V2Plan(r)
              x == [state |-> "writing", req |-> r, before |-> before, error |-> <<>>, plan |-> plan]
  <1>1. MaxBytes \in Nat /\ MemoryRequest(r)
    BY Zenon DEF OneClient
  <1>2. get_memory_limit \in Int
    BY Zenon DEF get_memory_limit, KernOk, MemoryFiles, V1Files
  <1>3. plan \in Seq(Writes)
    BY Zenon, <1>1, <1>2, V1PlanIsPlan, V2PlanIsPlan
  <1>4. Consistent(r) => IF mgr = "v1" THEN V1Stage(kern, swapon, plan, r.limit[1], r.swap[1])
                         ELSE V2Stage(kern, swapon, plan, r.limit[1], r.swap[1])
    BY Zenon, <1>1, V1PlanBegins, V2PlanBegins
  <1>. HIDE DEF plan
  <1>5. /\ DOMAIN x = {"state", "req", "plan", "before", "error"}
        /\ x.state = "writing" /\ x.req = r /\ x.plan = plan /\ x.error = <<>>
    BY Zenon
  <1>6. <<>> \notin {<<"limit", "EINVAL">>, <<"memsw", "EINVAL">>}
    BY Zenon
  <1>. HIDE DEF x
  <1>7. Consistent(x.req) => Underway(x, kern, mgr, swapon)
    BY Zenon, <1>4, <1>5, <1>6 DEF Underway
  <1>8. ClientOk(x, kern, mgr, swapon)
    BY Zenon, <1>3, <1>5, <1>7 DEF ClientOk
  <1>. QED BY Zenon, <1>8 DEF x, plan

\* A client after one write, whether it was accepted or not.
LEMMA WrittenIsOk ==
    ASSUME OneClient, KernOk(kern, swapon), NEW x, ClientOk(x, kern, mgr, swapon),
           x.state = "writing", x.plan # <<>>, NEW y, DOMAIN y = DOMAIN x, y.req = x.req, y.plan = Tail(x.plan),
           \/ Answer(Head(x.plan)) \in {"ok", "ENOENT"} /\ y.state = "writing" /\ y.error = <<>>
           \/ y.state = "failed" /\ y.error = <<Head(x.plan).file, Answer(Head(x.plan))>>
    PROVE  ClientOk(y, After(Head(x.plan), kern), mgr, swapon)
  <1>. DEFINE l == x.req.limit[1]
              s == x.req.swap[1]
              w == Head(x.plan)
              k == After(w, kern)
  <1>1. MaxBytes \in Nat /\ mgr \in {"v1", "v2"} /\ x.plan \in Seq(Writes) /\ x.req \in Requests \cup {NoRequest}
    BY Zenon DEF OneClient, ClientOk
  <1>2. Tail(x.plan) \in Seq(Writes)
    BY Zenon, <1>1, PlanSplits
  <1>3. ASSUME Consistent(x.req)
        PROVE  Underway(y, k, mgr, swapon)
    <2>1. Amounts(l, s) /\ Underway(x, kern, mgr, swapon)
      BY Zenon, <1>1, <1>3, ConsistentAmounts DEF ClientOk
    <2>. HIDE DEF k, l, s, w
    <2>2. CASE mgr = "v1"
      <3>1. V1Stage(kern, swapon, x.plan, l, s)
        BY Zenon, <2>1, <2>2 DEF Underway, l, s
      <3>2. /\ Answer(w) = "EINVAL" => w.file \notin {"limit", "memsw"}
            /\ Answer(w) \in {"ok", "ENOENT"} => V1Stage(k, swapon, Tail(x.plan), l, s)
        BY Zenon, <1>1, <2>1, <3>1, V1Step DEF k, w
      <3>3. y.error \notin {<<"limit", "EINVAL">>, <<"memsw", "EINVAL">>}
        <4>1. CASE y.error = <<>>
          BY <4>1
        <4>2. CASE y.error = <<w.file, Answer(w)>>
          <5>1. \A a, b, c, d : <<a, b>> = <<c, d>> => a = c /\ b = d
            BY Zenon
          <5>2. /\ y.error = <<"limit", "EINVAL">> => w.file = "limit" /\ Answer(w) = "EINVAL"
                /\ y.error = <<"memsw", "EINVAL">> => w.file = "memsw" /\ Answer(w) = "EINVAL"
            BY <4>2, <5>1
          <5>. QED BY Zenon, <3>2, <5>2
        <4>. QED BY Zenon, <4>1, <4>2 DEF w
      <3>4. y.state = "writing" => V1Stage(k, swapon, y.plan, l, s)
        BY Zenon, <3>2 DEF w
      <3>. QED BY Zenon, <2>2, <3>3, <3>4 DEF Underway, l, s
    <2>3. CASE mgr = "v2"
      <3>1. V2Stage(kern, swapon, x.plan, l, s)
        BY Zenon, <2>1, <2>3 DEF Underway, l, s
      <3>2. Answer(w) \in {"ok", "ENOENT"} => V2Stage(k, swapon, Tail(x.plan), l, s)
        BY Zenon, <1>1, <2>1, <3>1, V2Step DEF k, w
      <3>3. y.state = "writing" => V2Stage(k, swapon, y.plan, l, s)
        BY Zenon, <3>2 DEF w
      <3>. QED BY Zenon, <2>3, <3>3 DEF Underway, l, s
    <2>. QED BY Zenon, <1>1, <2>2, <2>3
  <1>. HIDE DEF k
  <1>4. Consistent(y.req) => Underway(y, k, mgr, swapon)
    BY Zenon, <1>3
  <1>5. ClientOk(y, k, mgr, swapon)
    BY Zenon, <1>1, <1>2, <1>4 DEF ClientOk
  <1>. QED BY Zenon, <1>5 DEF k

\* A client that has made its writes.
LEMMA EndedIsOk ==
    ASSUME NEW x, ClientOk(x, kern, mgr, swapon), x.state = "writing", x.plan = <<>>,
           NEW y, DOMAIN y = DOMAIN x, y.req = x.req, y.error = x.error, y.state = "done"
    PROVE  ClientOk(y, kern, mgr, swapon)
  <1>. DEFINE l == x.req.limit[1]
              s == x.req.swap[1]
  <1>1. ASSUME Consistent(x.req)
        PROVE  Underway(y, kern, mgr, swapon)
    <2>1. Underway(x, kern, mgr, swapon) /\ mgr \in {"v1", "v2"}
      BY Zenon, <1>1 DEF ClientOk
    <2>2. /\ mgr = "v1" => V1Stage(kern, swapon, <<>>, l, s)
          /\ mgr = "v2" => V2Stage(kern, swapon, <<>>, l, s)
      BY Zenon, <2>1 DEF Underway
    <2>3. swapon => Landed(kern, mgr, l, s)
      BY Zenon, <2>1, <2>2 DEF V1Stage, V1First, V1Again, V1Limit, V1Last, V2Stage, V2First, V2Max, Begins, Landed
    <2>. QED BY Zenon, <2>1, <2>3 DEF Underway
  <1>. QED BY Zenon, <1>1 DEF ClientOk

\* A client that is not writing keeps what it has, whatever the container uses.
LEMMA ForgottenIsOk ==
    ASSUME NEW x, ClientOk(x, kern, mgr, swapon), NEW y, DOMAIN y = DOMAIN x, y.req = x.req,
           y.error = x.error, y.state = "idle"
    PROVE  ClientOk(y, kern, mgr, swapon)
  BY Zenon DEF ClientOk, Underway

\* What a consistent update asks for is accepted but for want of memory, and in force
\* when it returned: under the v1 files, the v2 files and systemd, from whatever
\* limits were in force before.
THEOREM UpdatesLand ==
    ASSUME OneClient
    PROVE  MemorySpec => []UpdateLands
  <1>0. MaxBytes \in Nat /\ \A a, b \in Clients : a = b
    BY Zenon DEF OneClient
  <1>1. MemoryInit => MemInv
    <2>. SUFFICES ASSUME MemoryInit PROVE MemInv
      BY Zenon
    <2>1. KernOk(kern, swapon) /\ usage \in Int
      BY <1>0 DEF MemoryInit, KernOk, Unlimited, MemoryFiles, V1Files, V2Files
    <2>2. DOMAIN client = Clients
      BY Zenon DEF MemoryInit
    <2>3. ASSUME NEW c \in Clients
          PROVE  ClientOk(client[c], kern, mgr, swapon)
      <3>1. client[c] = [state |-> "idle", req |-> NoRequest, plan |-> <<>>, before |-> kern, error |-> <<>>]
        BY Zenon DEF MemoryInit
      <3>2. /\ DOMAIN client[c] = {"state", "req", "plan", "before", "error"}
            /\ client[c].state = "idle" /\ client[c].req = NoRequest
        BY <3>1
      <3>3. ~Consistent(NoRequest)
        BY Zenon DEF Consistent, NoRequest
      <3>. QED BY Zenon, <3>2, <3>3, "idle" # "writing" DEF ClientOk
    <2>. QED BY Zenon, <2>1, <2>2, <2>3 DEF MemInv
  <1>2. MemInv /\ [MemoryNext]_memVars => MemInv'
    <2>. SUFFICES ASSUME MemInv, [MemoryNext]_memVars PROVE MemInv'
      BY Zenon
    <2>0. /\ KernOk(kern, swapon) /\ DOMAIN client = Clients /\ usage \in Int
          /\ \A c \in Clients : ClientOk(client[c], kern, mgr, swapon)
      BY Zenon DEF MemInv
    <2>1. ASSUME NEW c \in Clients, UNCHANGED <<mgr, swapon>>, KernOk(kern', swapon), usage' \in Int,
                 DOMAIN client' = Clients, ClientOk(client'[c], kern', mgr, swapon)
          PROVE  MemInv'
      <3>1. \A b \in Clients : ClientOk(client'[b], kern', mgr', swapon')
        BY Zenon, <1>0, <2>1
      <3>. QED BY Zenon, <2>1, <3>1 DEF MemInv
    <2>2. ASSUME NEW c \in Clients, NEW r \in Requests, BeginFiles(c, r)
          PROVE  MemInv'
      <3>1. /\ UNCHANGED <<mgr, swapon, kern, usage>> /\ mgr \in {"v1", "v2"}
            /\ client' = [client EXCEPT ![c] =
                 [state |-> "writing", req |-> r, before |-> kern, error |-> <<>>,
                  plan |-> IF mgr = "v1" THEN V1Plan(r, get_memory_limit) ELSE V2Plan(r)]]
        BY Zenon, <2>2 DEF BeginFiles
      <3>2. DOMAIN client' = Clients /\ client'[c] =
                 [state |-> "writing", req |-> r, before |-> kern, error |-> <<>>,
                  plan |-> IF mgr = "v1" THEN V1Plan(r, get_memory_limit) ELSE V2Plan(r)]
        BY Zenon, <2>0, <3>1
      <3>3. ClientOk(client'[c], kern, mgr, swapon)
        BY Zenon, <2>0, <3>1, <3>2, BegunIsOk
      <3>. QED BY Zenon, <2>0, <2>1, <3>1, <3>2, <3>3
    <2>3. ASSUME NEW c \in Clients, NextWrite(c)
          PROVE  MemInv'
      <3>. DEFINE x == client[c]
                  w == Head(client[c].plan)
                  ok == Answer(w) = "ok" \/ (Answer(w) = "ENOENT" /\ w.tolerant)
      <3>1. /\ UNCHANGED <<mgr, swapon>> /\ client[c].state = "writing" /\ client[c].plan # <<>>
            /\ kern' = After(w, kern)
            /\ client' = [client EXCEPT ![c].plan = Tail(@), ![c].error = IF ok THEN <<>> ELSE <<w.file, Answer(w)>>,
                                        ![c].state = IF ok THEN "writing" ELSE "failed"]
            /\ usage' \in {usage, Stored(w.val)}
        BY Zenon, <2>3 DEF NextWrite, Answer, After
      <3>2. DOMAIN client[c] = {"state", "req", "plan", "before", "error"} /\ client[c].plan \in Seq(Writes)
        BY Zenon, <2>0, <3>1 DEF ClientOk
      <3>3. w \in Writes
        BY Zenon, <3>1, <3>2, PlanSplits
      <3>4. KernOk(kern', swapon)
        BY Zenon, <1>0, <2>0, <3>1, <3>3, WriteKeepsFiles
      <3>5. usage' \in Int
        <4>1. w.val \in Int
          BY Zenon, <3>3 DEF Writes
        <4>. QED BY <1>0, <2>0, <3>1, <4>1 DEF Stored, Unlimited
      <3>. HIDE DEF w, ok
      <3>6. /\ DOMAIN client' = Clients /\ DOMAIN client'[c] = DOMAIN client[c]
            /\ client'[c].req = client[c].req /\ client'[c].plan = Tail(client[c].plan)
            /\ client'[c].error = (IF ok THEN <<>> ELSE <<w.file, Answer(w)>>)
            /\ client'[c].state = (IF ok THEN "writing" ELSE "failed")
        BY Zenon, <2>0, <3>1, <3>2
      <3>7. \/ Answer(w) \in {"ok", "ENOENT"} /\ client'[c].state = "writing" /\ client'[c].error = <<>>
            \/ client'[c].state = "failed" /\ client'[c].error = <<w.file, Answer(w)>>
        BY Zenon, <3>6 DEF ok
      <3>8. ClientOk(client'[c], kern', mgr, swapon)
        BY Zenon, <2>0, <3>1, <3>6, <3>7, WrittenIsOk DEF w
      <3>. QED BY Zenon, <2>1, <3>1, <3>4, <3>5, <3>6, <3>8
    <2>4. ASSUME NEW c \in Clients, EndFiles(c)
          PROVE  MemInv'
      <3>1. /\ UNCHANGED <<mgr, swapon, kern, usage>> /\ client[c].state = "writing" /\ client[c].plan = <<>>
            /\ client' = [client EXCEPT ![c].state = "done"]
        BY Zenon, <2>4 DEF EndFiles
      <3>2. DOMAIN client[c] = {"state", "req", "plan", "before", "error"}
        BY Zenon, <2>0 DEF ClientOk
      <3>3. /\ DOMAIN client' = Clients /\ DOMAIN client'[c] = DOMAIN client[c]
            /\ client'[c].req = client[c].req /\ client'[c].error = client[c].error
            /\ client'[c].state = "done"
        BY Zenon, <2>0, <3>1, <3>2
      <3>4. ClientOk(client'[c], kern, mgr, swapon)
        BY Zenon, <2>0, <3>1, <3>3, EndedIsOk
      <3>. QED BY Zenon, <2>0, <2>1, <3>1, <3>3, <3>4
    <2>5. ASSUME NEW c \in Clients, Forget(c)
          PROVE  MemInv'
      <3>1. /\ UNCHANGED <<mgr, swapon, kern, usage>> /\ client' = [client EXCEPT ![c].state = "idle"]
        BY Zenon, <2>5 DEF Forget
      <3>2. DOMAIN client[c] = {"state", "req", "plan", "before", "error"}
        BY Zenon, <2>0 DEF ClientOk
      <3>3. /\ DOMAIN client' = Clients /\ DOMAIN client'[c] = DOMAIN client[c]
            /\ client'[c].req = client[c].req /\ client'[c].error = client[c].error
            /\ client'[c].state = "idle"
        BY Zenon, <2>0, <3>1, <3>2
      <3>4. ClientOk(client'[c], kern, mgr, swapon)
        BY Zenon, <2>0, <3>1, <3>3, ForgottenIsOk
      <3>. QED BY Zenon, <2>0, <2>1, <3>1, <3>3, <3>4
    <2>6. ASSUME NEW c \in Clients, NEW r \in Requests, ApplyUnit(c, r)
          PROVE  MemInv'
      <3>. DEFINE to == IF UnitRefuses(r) THEN "failed" ELSE "done"
      <3>1. /\ UNCHANGED <<mgr, swapon>> /\ mgr = "systemd"
            /\ client' = [client EXCEPT ![c] = [state |-> to, req |-> r, plan |-> <<>>, before |-> kern, error |-> <<>>]]
            /\ kern' = IF UnitRefuses(r) THEN kern ELSE Unit(r)
            /\ usage' \in {usage, kern'["max"]}
        BY Zenon, <2>6 DEF ApplyUnit, Unit
      <3>2. MemoryRequest(r)
        BY Zenon DEF OneClient
      <3>3. KernOk(kern', swapon)
        BY Zenon, <1>0, <2>0, <3>1, <3>2, UnitLands
      <3>4. usage' \in Int
        BY Zenon, <2>0, <3>1, <3>3 DEF KernOk, MemoryFiles, V2Files
      <3>5. DOMAIN client' = Clients
            /\ client'[c] = [state |-> to, req |-> r, plan |-> <<>>, before |-> kern, error |-> <<>>]
        BY Zenon, <2>0, <3>1
      <3>. HIDE DEF to
      <3>6. /\ DOMAIN client'[c] = {"state", "req", "plan", "before", "error"}
            /\ client'[c].state = to /\ client'[c].req = r
        BY <3>5
      <3>7. to = "failed" \/ (to = "done" /\ kern' = Unit(r))
        BY Zenon, <3>1 DEF to
      <3>8. Consistent(r) => Underway(client'[c], kern', mgr, swapon)
        <4>1. Consistent(r) /\ swapon /\ to = "done" => Landed(kern', mgr, r.limit[1], r.swap[1])
          BY Zenon, <1>0, <2>0, <3>1, <3>2, <3>7, UnitLands
        <4>. QED BY Zenon, <3>1, <3>6, <3>7, <4>1 DEF Underway
      <3>9. ClientOk(client'[c], kern', mgr, swapon)
        BY Zenon, <3>6, <3>7, <3>8 DEF ClientOk
      <3>. QED BY Zenon, <2>1, <3>1, <3>3, <3>4, <3>5, <3>9
    <2>7. ASSUME NEW n \in {0, MaxBytes}, Use(n)
          PROVE  MemInv'
      <3>1. UNCHANGED <<mgr, swapon, kern, client>> /\ usage' \in Int
        BY <1>0, <2>7 DEF Use
      <3>. QED BY Zenon, <2>0, <3>1 DEF MemInv
    <2>8. CASE UNCHANGED memVars
      BY Zenon, <2>0, <2>8 DEF MemInv, memVars
    <2>. QED BY Zenon, <2>2, <2>3, <2>4, <2>5, <2>6, <2>7, <2>8 DEF MemoryNext
  <1>3. MemInv => UpdateLands
    <2>. SUFFICES ASSUME MemInv, NEW c \in Clients, Consistent(client[c].req)
                  PROVE  /\ mgr = "v1" => client[c].error \notin {<<"limit", "EINVAL">>, <<"memsw", "EINVAL">>}
                         /\ client[c].state = "done" /\ swapon =>
                              Landed(kern, mgr, client[c].req.limit[1], client[c].req.swap[1])
      BY <1>0, ConsistentAmounts DEF UpdateLands, ConsistentUpdateSucceeds, LandsAsAsked, Landed, SwapAlone, Stored,
                      Unlimited, MemInv, ClientOk, Amounts
    <2>. QED BY Zenon DEF MemInv, ClientOk, Underway
  <1>. QED BY <1>1, <1>2, <1>3, PTL DEF MemorySpec
=============================================================================
