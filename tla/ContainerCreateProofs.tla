----------------------- MODULE ContainerCreateProofs -----------------------
(***************************************************************************)
(* Theorems about the creation protocol, for every set of container_args:  *)
(* what the main process says to the intermediate process and then to the  *)
(* init process, and what follows from both dialogues.  No message is      *)
(* unexpected, none is left over when a create succeeds, and one that      *)
(* fails leaves nobody behind.                                             *)
(***************************************************************************)
EXTENDS ContainerCreate, TLAPS

-----------------------------------------------------------------------------
(* Channels. *)

Contains(s, m) == \E i \in 1..Len(s) : s[i] = m

\* The head of a queue is one of its messages, and what is left after a receive
\* was there before.
LEMMA RestContains ==
    ASSUME NEW s \in Seq(Msg), s # <<>>
    PROVE  /\ Head(s) \in Msg
           /\ Contains(s, Head(s))
           /\ Tail(s) \in Seq(Msg)
           /\ \A x : Contains(Tail(s), x) => Contains(s, x)
  BY SMTT(30) DEF Contains

\* Sending adds only the message sent.
LEMMA AppendContains ==
    ASSUME NEW s \in Seq(Msg), NEW m \in Msg
    PROVE  /\ Append(s, m) \in Seq(Msg)
           /\ \A x : Contains(Append(s, m), x) => Contains(s, x) \/ x = m
  BY SMTT(30) DEF Contains

-----------------------------------------------------------------------------
(* Type correctness. *)

\* What is left of a queue after a receive is a sequence of messages.
LEMMA RestType ==
    ASSUME TypeOK, NEW c \in Chan
    PROVE  Rest(c) \in Seq(Msg)
  BY Zenon, RestContains DEF Rest, TypeOK

\* recv keeps the queues well typed,
LEMMA ConsumeType ==
    ASSUME TypeOK, NEW c \in Chan, Consume(c)
    PROVE  queue' \in [Chan -> Seq(Msg)]
  BY Zenon, RestType DEF Consume, TypeOK

\* and so does a send of a known message,
LEMMA SendType ==
    ASSUME TypeOK, NEW c \in Chan, NEW m \in Msg, Send(c, m)
    PROVE  queue' \in [Chan -> Seq(Msg)]
  BY Zenon, AppendContains DEF Send, TypeOK

\* and a receive followed by an answer.
LEMMA ReplyType ==
    ASSUME TypeOK, NEW c \in Chan, NEW d \in Chan, c # d, NEW m \in Msg,
           Reply(c, d, m)
    PROVE  queue' \in [Chan -> Seq(Msg)]
  BY Zenon, RestType, AppendContains DEF Reply, TypeOK

\* A process that goes to a label of its own keeps the labels well typed.
LEMMA GotoType ==
    ASSUME TypeOK, NEW p \in Proc, NEW l, Goto(p, l),
           \/ p = "main" /\ l \in MainPc
           \/ p = "inter" /\ l \in InterPc
           \/ p = "init" /\ l \in InitPc
    PROVE  /\ pc' \in [Proc -> MainPc \cup InterPc \cup InitPc]
           /\ pc'["main"] \in MainPc
           /\ pc'["inter"] \in InterPc
           /\ pc'["init"] \in InitPc
  BY Zenon DEF Goto, TypeOK, Proc, Child

\* Closing senders, or the exit of processes, only shrinks sets of processes.
LEMMA HoldersType ==
    ASSUME TypeOK
    PROVE  /\ \A p, C : Close(p, C) => holders' \in [Chan -> SUBSET Proc]
           /\ \A P : Gone(P) => /\ holders' \in [Chan -> SUBSET Proc]
                                /\ cgroup' \subseteq Child
  BY Zenon DEF Close, Gone, TypeOK

\* Recording an unexpected message adds only the process that received it.
LEMMA NoteType ==
    ASSUME TypeOK, NEW p \in Proc, NEW m, Note(p, m)
    PROVE  surprised' \subseteq Proc
  BY Zenon DEF Note, TypeOK

\* Every step of container_main_process keeps the types,
LEMMA TypeMain ==
    ASSUME TypeOK, Main PROVE TypeOK'
PROOF
  <1>. USE DEF Proc, Child, Chan
  <1>m. "main" \in Proc BY Zenon
  <1>1. CASE MainClone
    BY SMTT(30), <1>1 DEF MainClone, Goto, TypeOK, MainPc, InterPc
  <1>2. CASE MainClose
    BY Zenon, <1>2, <1>m, HoldersType, GotoType DEF MainClose, TypeOK, MainPc
  <1>3. ASSUME NEW l, NEW c \in Chan, NEW w, MainRecvError(l, c, w) PROVE TypeOK'
    BY Zenon, <1>3, <1>m, ConsumeType, NoteType, GotoType DEF MainRecvError, TypeOK, MainPc
  <1>4. ASSUME NEW l, NEW w, NEW d \in Duty, NEW a \in Msg, NEW n \in MainPc,
               MainWrite(l, w, d, a, n)
        PROVE TypeOK'
    <2>1. queue' \in [Chan -> Seq(Msg)]
      BY Zenon, <1>4, ConsumeType, ReplyType DEF MainWrite
    <2>. QED BY Zenon, <1>4, <2>1, <1>m, GotoType DEF MainWrite, TypeOK, MainPc
  <1>5. CASE MainMap
    BY Zenon, <1>5, <1>3, <1>4 DEF MainMap, Duty, Msg, ReplyMsg, MainPc
  <1>6. CASE MainTime
    BY Zenon, <1>6, <1>3, <1>4 DEF MainTime, Duty, Msg, ReplyMsg, MainPc
  <1>7. CASE MainDrop
    BY Zenon, <1>7, <1>m, HoldersType, GotoType DEF MainDrop, TypeOK, MainPc
  <1>8. CASE MainInterReady
    BY Zenon, <1>8, <1>3, <1>m, ConsumeType, GotoType
    DEF MainInterReady, TypeOK, MainPc, Requirements, InitRequest
  <1>9. CASE MainServe
    <2> DEFINE r == RequestOf(Received("initMain"))
    <2>1. r \in pending /\ r # "Ready" /\ r \in InitRequest
      BY Zenon, <1>9 DEF MainServe, Accepts, TypeOK
    <2>2. ReplyTo(r) \in Msg
      BY Zenon, <2>1 DEF ReplyTo, InitRequest, Msg, ReplyMsg
    <2>3. queue' \in [Chan -> Seq(Msg)]
      BY Zenon, <1>9, <2>2, ConsumeType, ReplyType DEF MainServe
    <2>4. served' \subseteq Duty /\ pending' \subseteq InitRequest
      BY Zenon, <1>9, <2>1 DEF MainServe, TypeOK, Duty
    <2>. QED BY Zenon, <1>9, <2>3, <2>4, <1>m, GotoType DEF MainServe, TypeOK, MainPc
  <1>10. CASE MainInitReady
    BY Zenon, <1>10, <1>m, ConsumeType, HoldersType, GotoType
    DEF MainInitReady, TypeOK, MainPc, Duty, InitRequest
  <1>11. CASE MainServeError
    BY Zenon, <1>11, <1>m, ConsumeType, NoteType, GotoType DEF MainServeError, TypeOK, MainPc
  <1>12. CASE MainWait
    BY Zenon, <1>12, <1>m, GotoType DEF MainWait, TypeOK, MainPc
  <1>13. CASE MainRecord
    BY Zenon, <1>13, <1>m, GotoType, HoldersType DEF MainRecord, TypeOK, MainPc
  <1>14. CASE MainRecordError
    BY Zenon, <1>14, <1>m, GotoType DEF MainRecordError, TypeOK, MainPc
  <1>15. CASE MainCleanup
    BY Zenon, <1>15, <1>m, GotoType DEF MainCleanup, TypeOK, MainPc
  <1>16. CASE MainKill
    BY Zenon, <1>16, HoldersType DEF MainKill, TypeOK, MainPc, InterPc, InitPc
  <1>17. CASE MainGiveUp
    BY Zenon, <1>17, <1>m, GotoType, HoldersType DEF MainGiveUp, TypeOK, MainPc
  <1>. QED
    BY Zenon, <1>1, <1>2, <1>5, <1>6, <1>7, <1>8, <1>9, <1>10, <1>11, <1>12, <1>13,
       <1>14, <1>15, <1>16, <1>17 DEF Main

\* every step of container_intermediate_process does,
LEMMA TypeInter ==
    ASSUME TypeOK, Inter PROVE TypeOK'
PROOF
  <1>. USE DEF Proc, Child, Chan
  <1>p. "inter" \in Proc BY Zenon
  <1>m. {"WriteMapping", "WriteTimeOffsets", "IntermediateReady", "OtherError"}
          \subseteq Msg
    BY Zenon DEF Msg, MainMsg
  <1>1. CASE InterCgroup
    BY Zenon, <1>1, <1>p, GotoType DEF InterCgroup, TypeOK, InterPc
  <1>2. CASE InterUserns
    BY Zenon, <1>2, <1>p, <1>m, SendType, GotoType DEF InterUserns, TypeOK, InterPc
  <1>3. ASSUME NEW l, NEW w, NEW n \in InterPc, InterAck(l, w, n) PROVE TypeOK'
    <2>1. queue' \in [Chan -> Seq(Msg)]
      BY Zenon, <1>3, <1>m, ConsumeType, ReplyType DEF InterAck
    <2>2. surprised' \subseteq Proc /\ cgroup' \subseteq Child
            /\ holders' \in [Chan -> SUBSET Proc]
      BY Zenon, <1>3, <1>p, NoteType, HoldersType DEF InterAck, TypeOK
    <2>. QED BY Zenon, <1>3, <2>1, <2>2, <1>p, GotoType DEF InterAck, TypeOK, InterPc
  <1>4. CASE InterMapAck \/ InterTimeAck
    BY Zenon, <1>4, <1>3 DEF InterMapAck, InterTimeAck, InterPc
  <1>5. CASE InterTimens
    BY Zenon, <1>5, <1>p, <1>m, SendType, GotoType DEF InterTimens, TypeOK, InterPc
  <1>6. CASE InterFork
    BY Zenon, <1>6 DEF InterFork, TypeOK, InterPc, InitPc
  <1>7. CASE InterReady
    BY Zenon, <1>7, <1>p, <1>m, SendType, GotoType DEF InterReady, TypeOK, InterPc
  <1>8. CASE InterExit
    BY Zenon, <1>8, <1>p, GotoType, HoldersType DEF InterExit, TypeOK, InterPc
  <1>9. CASE InterFail
    BY Zenon, <1>9, <1>p, <1>m, SendType, GotoType, HoldersType
    DEF InterFail, TypeOK, InterPc
  <1>. QED
    BY Zenon, <1>1, <1>2, <1>4, <1>5, <1>6, <1>7, <1>8, <1>9 DEF Inter

\* and every step of container_init_process.
LEMMA TypeInit ==
    ASSUME TypeOK, InitProcess PROVE TypeOK'
PROOF
  <1>. USE DEF Proc, Child, Chan
  <1>p. "init" \in Proc BY Zenon
  <1>m. {"HookRequest", "SetupNetworkDeviceReady", "SeccompNotify", "InitReady",
         "ExecFailed"} \subseteq Msg
    BY Zenon DEF Msg, MainMsg
  <1>1. CASE InitClose
    BY SMTT(30), <1>1, <1>p, GotoType, HoldersType DEF InitClose, TypeOK, InitPc
  <1>2. ASSUME NEW l, NEW asks, NEW m \in Msg, NEW w \in InitPc, NEW n \in InitPc,
               InitAsk(l, asks, m, w, n), filtered' \in BOOLEAN
        PROVE TypeOK'
    BY Zenon, <1>2, <1>p, SendType, GotoType DEF InitAsk, TypeOK
  <1>3. ASSUME NEW l, NEW w, NEW n \in InitPc, InitAwait(l, w, n) PROVE TypeOK'
    <2>1. queue' \in [Chan -> Seq(Msg)]
      BY Zenon, <1>3, <1>m, ConsumeType, ReplyType DEF InitAwait
    <2>2. surprised' \subseteq Proc /\ cgroup' \subseteq Child
            /\ holders' \in [Chan -> SUBSET Proc]
      BY Zenon, <1>3, <1>p, NoteType, HoldersType DEF InitAwait, TypeOK
    <2>. QED BY Zenon, <1>3, <2>1, <2>2, <1>p, GotoType DEF InitAwait, TypeOK, InitPc
  <1>4. CASE InitSetup \/ InitPivot \/ InitReady
    BY ZenonT(60), <1>4, <1>2, <1>m DEF InitSetup, InitPivot, InitReady, InitPc, TypeOK
  <1>5. CASE InitHooksDone \/ InitNetworkMoved \/ InitEarlyDone \/ InitLateDone
    BY Zenon, <1>5, <1>3
    DEF InitHooksDone, InitNetworkMoved, InitEarlyDone, InitLateDone, InitPc
  <1>6. ASSUME NEW l, NEW now, NEW w \in InitPc, NEW n \in InitPc,
               InitFilter(l, now, w, n)
        PROVE TypeOK'
    BY Zenon, <1>6, <1>2, <1>m DEF InitFilter, TypeOK
  <1>7. CASE InitEarlyFilter \/ InitLateFilter
    BY Zenon, <1>7, <1>6 DEF InitEarlyFilter, InitLateFilter, InitPc
  <1>8. CASE InitCloseMain
    BY Zenon, <1>8, <1>p, GotoType, HoldersType DEF InitCloseMain, TypeOK, InitPc
  <1>9. CASE InitStarted \/ InitExec
    BY Zenon, <1>9, <1>p, GotoType DEF InitStarted, InitExec, TypeOK, InitPc
  <1>10. CASE InitFail
    BY Zenon, <1>10, <1>p, <1>m, SendType, GotoType, HoldersType
    DEF InitFail, TypeOK, InitPc
  <1>. QED
    BY Zenon, <1>1, <1>4, <1>5, <1>7, <1>8, <1>9, <1>10 DEF InitProcess

\* The variables keep their types: every step of the main, intermediate and
\* init processes sends known messages and goes to a label of its own process.
THEOREM TypeCorrect == Spec => []TypeOK
PROOF
  <1>1. Init => TypeOK
    <2>. SUFFICES ASSUME Init PROVE TypeOK
      BY Zenon
    <2>1. queue \in [Chan -> Seq(Msg)]
      <3>1. <<>> \in Seq(Msg)
        OBVIOUS
      <3>. QED BY Zenon, <3>1 DEF Init
    <2>2. holders \in [Chan -> SUBSET Proc]
      BY Zenon DEF Init, Proc
    <2>. QED BY ZenonT(30), <2>1, <2>2 DEF Init, TypeOK, Proc, Child, MainPc, InterPc, InitPc
  <1>2. TypeOK /\ [Next]_vars => TypeOK'
    <2>. SUFFICES ASSUME TypeOK, [Next]_vars PROVE TypeOK'
      BY Zenon
    <2>1. CASE NotifyContainerStart
      BY Zenon, <2>1 DEF NotifyContainerStart, TypeOK
    <2>2. ASSUME NEW p \in Child, Crash(p) PROVE TypeOK'
      BY Zenon, <2>2, GotoType, HoldersType
      DEF Crash, TypeOK, Proc, Child, InterPc, InitPc
    <2>3. CASE UNCHANGED vars
      BY Zenon, <2>3 DEF vars, TypeOK
    <2>. QED
      BY Zenon, <2>1, <2>2, <2>3, TypeMain, TypeInter, TypeInit DEF Next, Idle
  <1>. QED BY <1>1, <1>2, PTL DEF Spec

-----------------------------------------------------------------------------
(* The init process is born ready. *)

\* InitBornReady is not inductive: it says nothing of the intermediate process,
\* whose acknowledgements stand for what the main process has written.
BornInv ==
    /\ Contains(queue["inter"], "MappingWritten") => "Mapping" \in served
    /\ Contains(queue["inter"], "TimeOffsetsWritten") => "Offsets" \in served
    /\ pc["inter"] \in {"timens", "timeAck", "fork", "ready", "closing"}
         => (ExpectsMapping => "Mapping" \in served)
    /\ pc["inter"] \in {"fork", "ready", "closing"}
         => (ExpectsOffsets => "Offsets" \in served)
    /\ pc["inter"] \notin {"none", "start", "exited"} /\ ~args.rootless
         => "inter" \in cgroup
    /\ "init" \in cgroup \cup victims => pc["init"] # "none"
    /\ InitBornReady

\* What a step that leaves the intermediate process where it is, or ends it,
\* has to respect.
LEMMA BornFrame ==
    ASSUME TypeOK, BornInv, UNCHANGED args,
           served \subseteq served',
           \/ queue'["inter"] = queue["inter"]
           \/ /\ queue["inter"] # <<>>
              /\ queue'["inter"] = Tail(queue["inter"]),
           pc'["inter"] = pc["inter"] \/ pc'["inter"] = "exited",
           pc'["init"] = "none" <=> pc["init"] = "none",
           pc["init"] = "exited" => pc'["init"] = "exited",
           cgroup' \cup victims' \subseteq cgroup \cup victims,
           \A p \in Child : p \in cgroup /\ pc'[p] # "exited" => p \in cgroup'
    PROVE  BornInv'
PROOF
  <1>1. \A x : Contains(queue'["inter"], x) => Contains(queue["inter"], x)
    BY Zenon, RestContains DEF TypeOK, Chan
  <1>. QED
    BY Zenon, <1>1 DEF BornInv, InitBornReady, ExpectsMapping, ExpectsOffsets, Child

\* The main process answers a mapping or offsets request only after writing it.
LEMMA BornMain ==
    ASSUME TypeOK, BornInv, Main PROVE BornInv'
PROOF
  <1>. USE DEF Proc, Child, Chan
  <1>1. CASE MainClone
    <2>1. CASE pc["inter"]' = "start"
      BY Zenon, <1>1, <2>1
      DEF MainClone, Goto, TypeOK, BornInv, InitBornReady, ExpectsMapping, ExpectsOffsets
    <2>2. CASE pc["inter"]' # "start"
      BY Zenon, <1>1, <2>2, BornFrame DEF MainClone, Goto, TypeOK
    <2>. QED BY Zenon, <2>1, <2>2
  <1>2. CASE MainClose \/ MainDrop \/ MainWait \/ MainRecord \/ MainRecordError
             \/ MainGiveUp
    BY Zenon, <1>2, BornFrame
    DEF MainClose, MainDrop, MainWait, MainRecord, MainRecordError, MainGiveUp,
        Goto, TypeOK
  <1>3. ASSUME NEW l, NEW c \in {"interMain", "initMain"}, NEW w,
               MainRecvError(l, c, w)
        PROVE BornInv'
    BY Zenon, <1>3, BornFrame DEF MainRecvError, Consume, Goto, TypeOK
  <1>4. ASSUME NEW l, NEW w, NEW d \in Duty, NEW a \in Msg, NEW n,
               MainWrite(l, w, d, a, n),
               a = "MappingWritten" => d = "Mapping",
               a = "TimeOffsetsWritten" => d = "Offsets"
        PROVE BornInv'
    <2>1. CASE served' = served \cup {d} /\ Reply("interMain", "inter", a)
      <3>1. queue'["inter"] = Append(queue["inter"], a)
        BY Zenon, <2>1 DEF Reply, TypeOK
      <3>2. \A x : Contains(queue'["inter"], x) => Contains(queue["inter"], x) \/ x = a
        BY SMTT(30), <3>1, AppendContains DEF TypeOK
      <3>3. pc'["inter"] = pc["inter"] /\ pc'["init"] = pc["init"]
        BY Zenon, <1>4 DEF MainWrite, Goto, TypeOK
      <3>. QED
        BY Zenon, <1>4, <2>1, <3>2, <3>3
        DEF MainWrite, BornInv, InitBornReady, ExpectsMapping, ExpectsOffsets
    <2>2. CASE Consume("interMain") /\ UNCHANGED served
      BY Zenon, <1>4, <2>2, BornFrame DEF MainWrite, Consume, Goto, TypeOK
    <2>. QED BY Zenon, <1>4, <2>1, <2>2 DEF MainWrite
  <1>5. CASE MainMap \/ MainTime
    BY SMTT(30), <1>5, <1>3, <1>4 DEF MainMap, MainTime, Duty, Msg, ReplyMsg
  <1>6. CASE MainInterReady
    BY Zenon, <1>6, <1>3, BornFrame DEF MainInterReady, Consume, Goto, TypeOK
  <1>7. CASE MainServe \/ MainInitReady \/ MainServeError
    BY Zenon, <1>7, BornFrame
    DEF MainServe, MainInitReady, MainServeError, Consume, Reply, Goto, TypeOK
  <1>8. CASE MainCleanup
    BY Zenon, <1>8, BornFrame DEF MainCleanup, Goto, TypeOK
  <1>9. CASE MainKill
    BY Zenon, <1>9, BornFrame DEF MainKill, Gone, TypeOK, BornInv
  <1>. QED
    BY Zenon, <1>1, <1>2, <1>5, <1>6, <1>7, <1>8, <1>9 DEF Main

\* The intermediate process clones the init process only after the answers, and
\* after it has joined the cgroup.
LEMMA BornInter ==
    ASSUME TypeOK, BornInv, Inter PROVE BornInv'
PROOF
  <1>. USE DEF Proc, Child, Chan
  <1>1. CASE InterCgroup
    BY Zenon, <1>1 DEF InterCgroup, Goto, TypeOK, BornInv, InitBornReady,
                ExpectsMapping, ExpectsOffsets
  <1>2. CASE InterUserns
    BY ZenonT(60), <1>2 DEF InterUserns, Send, Goto, TypeOK, BornInv, InitBornReady,
                ExpectsMapping, ExpectsOffsets
  <1>3. ASSUME NEW l, NEW w, NEW n, InterAck(l, w, n), Received("inter") # w
        PROVE BornInv'
    BY Zenon, <1>3, BornFrame DEF InterAck, Reply, Rest, Goto, Gone, TypeOK
  <1>4. ASSUME NEW l, NEW w, NEW n, InterAck(l, w, n), Received("inter") = w,
               w # "BrokenChannel"
        PROVE /\ Contains(queue["inter"], w)
              /\ \A x : Contains(queue'["inter"], x) => Contains(queue["inter"], x)
    <2>1. queue["inter"] # <<>> /\ Head(queue["inter"]) = w
      BY Zenon, <1>4 DEF Received
    <2>2. queue'["inter"] = Tail(queue["inter"])
      BY Zenon, <1>4, <2>1 DEF InterAck, Consume, Rest, TypeOK
    <2>. QED BY SMTT(30), <2>1, <2>2, RestContains DEF TypeOK
  <1>5. CASE InterMapAck /\ Received("inter") = "MappingWritten"
    BY SMTT(30), <1>4, <1>5
    DEF InterMapAck, InterAck, Goto, TypeOK, BornInv, InitBornReady,
        ExpectsMapping, ExpectsOffsets
  <1>6. CASE InterTimeAck /\ Received("inter") = "TimeOffsetsWritten"
    BY SMTT(30), <1>4, <1>6
    DEF InterTimeAck, InterAck, Goto, TypeOK, BornInv, InitBornReady,
        ExpectsMapping, ExpectsOffsets
  <1>7. CASE InterTimens
    BY Zenon, <1>7 DEF InterTimens, Send, Goto, TypeOK, BornInv, InitBornReady,
                ExpectsMapping, ExpectsOffsets
  <1>8. CASE InterFork
    BY Zenon, <1>8 DEF InterFork, TypeOK, BornInv, InitBornReady, ExpectsMapping,
                ExpectsOffsets
  <1>9. CASE InterReady
    BY Zenon, <1>9 DEF InterReady, Send, Goto, TypeOK, BornInv, InitBornReady,
                ExpectsMapping, ExpectsOffsets
  <1>10. CASE InterExit \/ InterFail
    BY Zenon, <1>10, BornFrame DEF InterExit, InterFail, Send, Goto, Gone, TypeOK
  <1>. QED
    BY Zenon, <1>1, <1>2, <1>3, <1>5, <1>6, <1>7, <1>8, <1>9, <1>10
    DEF Inter, InterMapAck, InterTimeAck

\* The init process changes neither what was written nor, while it lives, its
\* cgroup.
LEMMA BornInit ==
    ASSUME TypeOK, BornInv, InitProcess PROVE BornInv'
PROOF
  <1>. USE DEF Proc, Child, Chan
  <1>1. ASSUME NEW l, NEW asks, NEW m, NEW w, NEW n, l # "none", w # "none",
               n # "none", l # "exited", InitAsk(l, asks, m, w, n)
        PROVE BornInv'
    BY Zenon, <1>1, BornFrame DEF InitAsk, Send, Goto, TypeOK
  <1>2. ASSUME NEW l, NEW w, NEW n, l # "none", n # "none", l # "exited",
               InitAwait(l, w, n)
        PROVE BornInv'
    BY Zenon, <1>2, BornFrame DEF InitAwait, Consume, Reply, Goto, Gone, TypeOK
  <1>3. CASE InitSetup \/ InitPivot \/ InitReady \/ InitEarlyFilter \/ InitLateFilter
    BY Zenon, <1>1, <1>3 DEF InitSetup, InitPivot, InitReady, InitEarlyFilter,
                      InitLateFilter, InitFilter
  <1>4. CASE InitHooksDone \/ InitNetworkMoved \/ InitEarlyDone \/ InitLateDone
    BY Zenon, <1>2, <1>4 DEF InitHooksDone, InitNetworkMoved, InitEarlyDone, InitLateDone
  <1>5. CASE InitClose \/ InitCloseMain \/ InitStarted \/ InitExec
    BY Zenon, <1>5, BornFrame DEF InitClose, InitCloseMain, InitStarted, InitExec,
                           Goto, TypeOK
  <1>6. CASE InitFail
    BY Zenon, <1>6, BornFrame DEF InitFail, Send, Goto, Gone, TypeOK
  <1>. QED BY Zenon, <1>3, <1>4, <1>5, <1>6 DEF InitProcess

\* BornInv is inductive.
LEMMA BornInvariance == Spec => []BornInv
PROOF
  <1>1. Init => BornInv
    BY SMTT(30) DEF Init, BornInv, InitBornReady, Contains, Proc, Child, Chan
  <1>2. TypeOK /\ BornInv /\ [Next]_vars => BornInv'
    <2>. SUFFICES ASSUME TypeOK, BornInv, [Next]_vars PROVE BornInv'
      BY Zenon
    <2>1. CASE NotifyContainerStart
      BY Zenon, <2>1, BornFrame DEF NotifyContainerStart
    <2>2. ASSUME NEW p \in Child, Crash(p) PROVE BornInv'
      BY Zenon, <2>2, BornFrame DEF Crash, Goto, Gone, TypeOK, Child, Proc
    <2>3. CASE UNCHANGED vars
      BY Zenon, <2>3, BornFrame DEF vars
    <2>. QED
      BY Zenon, <2>1, <2>2, <2>3, BornMain, BornInter, BornInit DEF Next, Idle
  <1>. QED BY <1>1, <1>2, TypeCorrect, PTL DEF Spec

\* For every container_args: when the init process exists, the main process has
\* written its id mappings and time offsets, and the init process is in the
\* cgroup unless a rootless manager left it out.
THEOREM BornReady == Spec => []InitBornReady
PROOF
  <1>1. BornInv => InitBornReady
    BY Zenon DEF BornInv
  <1>. QED BY <1>1, BornInvariance, PTL

-----------------------------------------------------------------------------
(* Hooks and network devices come before the seccomp filter. *)

NeedsHooks == args.kind = "init" /\ args.hooks
NeedsNetwork == args.netDevices = "some"

\* As above, for the answers the init process waits for: the main process runs
\* the hooks and moves the devices before it sends them.
FilterInv ==
    /\ Contains(queue["init"], "HookDone") => "Hooks" \in served
    /\ Contains(queue["init"], "MoveNetworkDevice") => "Network" \in served
    /\ pc["init"] \notin {"none", "closing", "setup", "hookAck", "exited"}
         => (NeedsHooks => "Hooks" \in served)
    /\ pc["init"] \notin {"none", "closing", "setup", "hookAck", "pivot",
                          "netAck", "exited"}
         => (NeedsNetwork => "Network" \in served)
    /\ filtered => /\ NeedsHooks => "Hooks" \in served
                   /\ NeedsNetwork => "Network" \in served

\* A step that neither loads the filter nor takes the init process past a hook
\* or network request keeps FilterInv.
LEMMA FilterFrame ==
    ASSUME TypeOK, FilterInv, UNCHANGED <<args, filtered>>,
           served \subseteq served',
           \/ queue'["init"] = queue["init"]
           \/ /\ queue["init"] # <<>>
              /\ queue'["init"] = Tail(queue["init"]),
           \/ pc'["init"] \in {pc["init"], "exited", "closing"}
           \/ pc["init"] = "closing" /\ pc'["init"] = "setup"
           \/ pc["init"] = "ready" /\ pc'["init"] = "closeMain"
           \/ pc["init"] = "closeMain" /\ pc'["init"] = "notify"
           \/ pc["init"] = "notify" /\ pc'["init"] = "started"
           \/ pc["init"] = "started" /\ pc'["init"] = "payload"
           \/ pc["init"] = "earlyAck" /\ pc'["init"] = "caps"
           \/ pc["init"] = "lateAck" /\ pc'["init"] = "ready"
    PROVE  FilterInv'
PROOF
  <1>1. \A x : Contains(queue'["init"], x) => Contains(queue["init"], x)
    BY Zenon, RestContains DEF TypeOK, Chan
  <1>. QED
    BY Zenon, <1>1 DEF FilterInv, NeedsHooks, NeedsNetwork

\* The main process answers a hook or network request only after serving it.
LEMMA FilterMain ==
    ASSUME TypeOK, FilterInv, Main PROVE FilterInv'
PROOF
  <1>. USE DEF Proc, Child, Chan
  <1>1. CASE MainClone \/ MainClose \/ MainDrop \/ MainWait \/ MainRecord
             \/ MainRecordError \/ MainGiveUp \/ MainCleanup
    BY Zenon, <1>1, FilterFrame
    DEF MainClone, MainClose, MainDrop, MainWait, MainRecord, MainRecordError,
        MainGiveUp, MainCleanup, Goto, TypeOK
  <1>2. ASSUME NEW l, NEW c \in {"interMain", "initMain"}, NEW w,
               MainRecvError(l, c, w)
        PROVE FilterInv'
    BY Zenon, <1>2, FilterFrame DEF MainRecvError, Consume, Goto, TypeOK
  <1>3. ASSUME NEW l, NEW w, NEW d, NEW a, NEW n, MainWrite(l, w, d, a, n)
        PROVE FilterInv'
    BY Zenon, <1>3, FilterFrame DEF MainWrite, Consume, Reply, Goto, TypeOK
  <1>4. CASE MainMap \/ MainTime
    BY Zenon, <1>2, <1>3, <1>4 DEF MainMap, MainTime
  <1>5. CASE MainInterReady
    BY Zenon, <1>5, <1>2, FilterFrame DEF MainInterReady, Consume, Goto, TypeOK
  <1>6. CASE MainInitReady \/ MainServeError
    BY Zenon, <1>6, FilterFrame DEF MainInitReady, MainServeError, Consume, Goto, TypeOK
  <1>7. CASE MainServe
    <2> DEFINE r == RequestOf(Received("initMain"))
    <2>1. r \in {"Hooks", "Network", "Seccomp"}
      BY Zenon, <1>7 DEF MainServe, Accepts, TypeOK, InitRequest
    <2>2. CASE Reply("initMain", "init", ReplyTo(r)) /\ served' = served \cup {r}
      <3>1. /\ ReplyTo(r) \in Msg
            /\ ReplyTo(r) = "HookDone" => r = "Hooks"
            /\ ReplyTo(r) = "MoveNetworkDevice" => r = "Network"
        BY Zenon, <2>1 DEF ReplyTo, Msg, ReplyMsg
      <3>2. queue'["init"] = Append(queue["init"], ReplyTo(r))
        BY Zenon, <2>2 DEF Reply, TypeOK
      <3>3. \A x : Contains(queue'["init"], x)
                    => Contains(queue["init"], x) \/ x = ReplyTo(r)
        BY SMTT(30), <3>1, <3>2, AppendContains DEF TypeOK
      <3>4. pc'["init"] = pc["init"] /\ UNCHANGED <<args, filtered>>
        BY Zenon, <1>7 DEF MainServe, Goto, TypeOK
      <3>. HIDE DEF r
      <3>. QED
        BY Zenon, <2>2, <3>1, <3>3, <3>4 DEF FilterInv, NeedsHooks, NeedsNetwork
    <2>3. CASE Consume("initMain") /\ Goto("main", "cleanup") /\ UNCHANGED served
      BY Zenon, <1>7, <2>3, FilterFrame DEF MainServe, Consume, Goto, TypeOK
    <2>. QED BY Zenon, <1>7, <2>2, <2>3 DEF MainServe
  <1>8. CASE MainKill
    BY Zenon, <1>8, FilterFrame DEF MainKill, TypeOK
  <1>. QED
    BY Zenon, <1>1, <1>4, <1>5, <1>6, <1>7, <1>8 DEF Main

\* The intermediate process touches nothing FilterInv is about.
LEMMA FilterInter ==
    ASSUME TypeOK, FilterInv, Inter PROVE FilterInv'
PROOF
  <1>. USE DEF Proc, Child, Chan
  <1>1. CASE InterCgroup \/ InterUserns \/ InterTimens \/ InterFork \/ InterReady
             \/ InterExit \/ InterFail
    BY Zenon, <1>1, FilterFrame
    DEF InterCgroup, InterUserns, InterTimens, InterFork, InterReady, InterExit,
        InterFail, Send, Goto, TypeOK
  <1>2. CASE InterMapAck \/ InterTimeAck
    BY Zenon, <1>2, FilterFrame
    DEF InterMapAck, InterTimeAck, InterAck, Consume, Reply, Goto, TypeOK
  <1>. QED BY Zenon, <1>1, <1>2 DEF Inter

\* The init process loads its filter only past the answers it waits for.
LEMMA FilterInit ==
    ASSUME TypeOK, FilterInv, InitProcess PROVE FilterInv'
PROOF
  <1>. USE DEF Proc, Child, Chan
  <1>1. CASE InitClose \/ InitCloseMain \/ InitStarted \/ InitExec
    BY Zenon, <1>1, FilterFrame DEF InitClose, InitCloseMain, InitStarted, InitExec,
                             Goto, TypeOK
  <1>2. CASE InitFail
    BY Zenon, <1>2, FilterFrame DEF InitFail, Send, Goto, TypeOK
  <1>3. CASE InitReady
    BY Zenon, <1>3, FilterFrame DEF InitReady, InitAsk, Send, Goto, TypeOK
  <1>4. CASE InitSetup \/ InitPivot
    BY SMTT(30), <1>4 DEF InitSetup, InitPivot, InitAsk, Send, Goto, TypeOK, FilterInv,
                NeedsHooks, NeedsNetwork
  <1>5. CASE InitEarlyFilter \/ InitLateFilter
    BY Zenon, <1>5 DEF InitEarlyFilter, InitLateFilter, InitFilter, InitAsk, Send,
                Goto, TypeOK, FilterInv, NeedsHooks, NeedsNetwork
  <1>6. ASSUME NEW l, NEW w, NEW n, InitAwait(l, w, n), Received("init") # w
        PROVE FilterInv'
    BY Zenon, <1>6, FilterFrame DEF InitAwait, Reply, Rest, Goto, TypeOK
  <1>7. ASSUME NEW l, NEW w, NEW n, InitAwait(l, w, n), Received("init") = w,
               w # "BrokenChannel"
        PROVE /\ Contains(queue["init"], w)
              /\ \A x : Contains(queue'["init"], x) => Contains(queue["init"], x)
    <2>1. queue["init"] # <<>> /\ Head(queue["init"]) = w
      BY Zenon, <1>7 DEF Received
    <2>2. queue'["init"] = Tail(queue["init"])
      BY Zenon, <1>7, <2>1 DEF InitAwait, Consume, Rest, TypeOK
    <2>. QED BY SMTT(30), <2>1, <2>2, RestContains DEF TypeOK
  <1>8. CASE InitHooksDone /\ Received("init") = "HookDone"
    BY Zenon, <1>7, <1>8 DEF InitHooksDone, InitAwait, Goto, TypeOK, FilterInv,
                      NeedsHooks, NeedsNetwork
  <1>9. CASE InitNetworkMoved /\ Received("init") = "MoveNetworkDevice"
    BY Zenon, <1>7, <1>9 DEF InitNetworkMoved, InitAwait, Goto, TypeOK, FilterInv,
                      NeedsHooks, NeedsNetwork
  <1>10. CASE InitEarlyDone /\ Received("init") = "SeccompNotifyDone"
    BY Zenon, <1>7, <1>10 DEF InitEarlyDone, InitAwait, Goto, TypeOK, FilterInv,
                       NeedsHooks, NeedsNetwork
  <1>11. CASE InitLateDone /\ Received("init") = "SeccompNotifyDone"
    BY Zenon, <1>7, <1>11 DEF InitLateDone, InitAwait, Goto, TypeOK, FilterInv,
                       NeedsHooks, NeedsNetwork
  <1>. QED
    BY Zenon, <1>1, <1>2, <1>3, <1>4, <1>5, <1>6, <1>8, <1>9, <1>10, <1>11
    DEF InitProcess, InitHooksDone, InitNetworkMoved, InitEarlyDone, InitLateDone

\* For every container_args: the init process loads its seccomp filter only
\* after the main process has run the hooks and moved the network devices the
\* spec calls for.
THEOREM FilterComesLast == Spec => []SetupBeforeFilter
PROOF
  <1>1. Init => FilterInv
    BY SMTT(30) DEF Init, FilterInv, Contains, Proc, Child, Chan
  <1>2. TypeOK /\ FilterInv /\ [Next]_vars => FilterInv'
    <2>. SUFFICES ASSUME TypeOK, FilterInv, [Next]_vars PROVE FilterInv'
      BY Zenon
    <2>1. CASE NotifyContainerStart
      BY Zenon, <2>1, FilterFrame DEF NotifyContainerStart
    <2>2. ASSUME NEW p \in Child, Crash(p) PROVE FilterInv'
      BY Zenon, <2>2, FilterFrame DEF Crash, Goto, TypeOK, Child, Proc
    <2>3. CASE UNCHANGED vars
      BY Zenon, <2>3, FilterFrame DEF vars
    <2>. QED
      BY Zenon, <2>1, <2>2, <2>3, FilterMain, FilterInter, FilterInit DEF Next, Idle
  <1>3. FilterInv => SetupBeforeFilter
    BY Zenon DEF FilterInv, SetupBeforeFilter, Requirements, NeedsHooks, NeedsNetwork
  <1>. QED BY <1>1, <1>2, <1>3, TypeCorrect, PTL DEF Spec


-----------------------------------------------------------------------------
(* The intermediate process asks for one thing at a time, so that neither     *)
(* channel of the two holds more than one message; which one it is follows     *)
(* from where both ends are.                                                   *)

Quiet(c) == queue[c] = <<>>
Only(c, m) == queue[c] = <<m>>

\* Where the main process stands.
Over == pc["main"] \in {"cleanup", "kill", "failed", "uncleaned"}
Complete == pc["main"] \in {"wait", "record", "ok"}
Asked == pc["main"] = "serve" \/ Complete
Listening == pc["main"] \in {"close", "map", "time", "drop", "ready", "serve"}

\* The request of the intermediate process that the main process hears next.
MapTurn == ExpectsMapping /\ pc["main"] \in {"close", "map"}
TimeTurn ==
    /\ ExpectsOffsets
    /\ pc["main"] = "time" \/ (~ExpectsMapping /\ pc["main"] = "close")
ReadyTurn ==
    \/ pc["main"] \in {"drop", "ready"}
    \/ ~ExpectsMapping /\ ~ExpectsOffsets /\ pc["main"] = "close"
SecondTurn == IF ExpectsOffsets THEN TimeTurn ELSE ReadyTurn
FirstTurn == IF ExpectsMapping THEN MapTurn ELSE SecondTurn

\* A request of the intermediate process is unread, answered, or dropped by a
\* main process that gave up.
Turn(turn, m, next, a) ==
    \/ turn /\ Only("interMain", m) /\ Quiet("inter")
    \/ next /\ Quiet("interMain") /\ Only("inter", a)
    \/ Over /\ Quiet("interMain") /\ Quiet("inter")

\* Its senders stay open until it exits, so that neither it nor the main process
\* sees end-of-file while it lives.
InterTurns ==
    /\ pc["main"] = "map" => ExpectsMapping
    /\ pc["main"] = "time" => ExpectsOffsets
    /\ pc["inter"] \in {"none", "start", "userns", "timens", "fork", "ready"}
         => Quiet("interMain") /\ Quiet("inter")
    /\ pc["main"] = "clone" => pc["inter"] = "none"
    /\ pc["inter"] = "none" => pc["main"] = "clone" \/ Over
    /\ pc["inter"] \in {"start", "userns"} => FirstTurn
    /\ pc["inter"] = "mapAck"
         => ExpectsMapping /\ Turn(MapTurn, "WriteMapping", SecondTurn, "MappingWritten")
    /\ pc["inter"] = "timens" => SecondTurn
    /\ pc["inter"] = "timeAck"
         => ExpectsOffsets
            /\ Turn(TimeTurn, "WriteTimeOffsets", ReadyTurn, "TimeOffsetsWritten")
    /\ pc["inter"] \in {"fork", "ready"} => ReadyTurn
    /\ pc["inter"] = "closing"
         => /\ Quiet("inter")
            /\ \/ ReadyTurn /\ Only("interMain", "IntermediateReady")
               \/ (Asked \/ Over) /\ Quiet("interMain")
    /\ pc["inter"] = "exited"
         => \/ ~Asked /\ (Quiet("interMain") \/ Only("interMain", "OtherError"))
            \/ MapTurn /\ Only("interMain", "WriteMapping")
            \/ TimeTurn /\ Only("interMain", "WriteTimeOffsets")
            \/ ReadyTurn /\ Only("interMain", "IntermediateReady") /\ Quiet("inter")
            \/ Asked /\ Quiet("interMain") /\ Quiet("inter")
    /\ pc["inter"] \notin {"none", "exited"} => \A c \in Chan : "inter" \in holders[c]

-----------------------------------------------------------------------------
(* What the steps do to the channels. *)

\* recv on a channel with at most one message.
LEMMA OneMessage ==
    ASSUME NEW c \in Chan
    PROVE  /\ Quiet(c) => Received(c) = "BrokenChannel" /\ Rest(c) = <<>>
           /\ \A m : Only(c, m) => ~Quiet(c) /\ Received(c) = m /\ Rest(c) = <<>>
           /\ \A m, n : Only(c, m) /\ Only(c, n) => m = n
PROOF
  <1>1. \A m : <<m>> # <<>> /\ Head(<<m>>) = m /\ Tail(<<m>>) = <<>>
    OBVIOUS
  <1>2. \A m, n : <<m>> = <<n>> => m = n
    BY Zenon
  <1>. QED BY Zenon, <1>1, <1>2 DEF Quiet, Only, Received, Rest

\* A step leaves channel c alone.
Same(c) == queue'[c] = queue[c]

\* Then its message is the same one.
LEMMA SameMessage ==
    ASSUME NEW c \in Chan, Same(c)
    PROVE  /\ Quiet(c)' <=> Quiet(c)
           /\ \A m : Only(c, m)' <=> Only(c, m)
  BY Zenon DEF Quiet, Only, Same

\* recv empties a channel of one message and touches no other,
LEMMA ConsumeOne ==
    ASSUME TypeOK, NEW c \in Chan, Consume(c)
    PROVE  /\ \A d \in Chan \ {c} : Same(d)
           /\ Quiet(c) \/ (\E m : Only(c, m)) => Quiet(c)'
  <1>1. queue'[c] = Rest(c) /\ \A d \in Chan \ {c} : queue'[d] = queue[d]
    BY Zenon DEF Consume, TypeOK
  <1>. QED BY Zenon, <1>1, OneMessage DEF Same, Quiet

\* send puts one message in an empty channel,
LEMMA SendOne ==
    ASSUME TypeOK, NEW c \in Chan, NEW m, Send(c, m)
    PROVE  /\ \A d \in Chan \ {c} : Same(d)
           /\ Quiet(c) => Only(c, m)'
  <1>1. queue'[c] = Append(queue[c], m) /\ \A d \in Chan \ {c} : queue'[d] = queue[d]
    BY Zenon DEF Send, TypeOK
  <1>2. Append(<<>>, m) = <<m>>
    OBVIOUS
  <1>. QED BY Zenon, <1>1, <1>2 DEF Same, Quiet, Only

\* and a receive with an answer does both.
LEMMA ReplyOne ==
    ASSUME TypeOK, NEW c \in Chan, NEW d \in Chan, c # d, NEW m, Reply(c, d, m)
    PROVE  /\ \A e \in Chan \ {c, d} : Same(e)
           /\ Quiet(c) \/ (\E n : Only(c, n)) => Quiet(c)'
           /\ Quiet(d) => Only(d, m)'
  <1>1. /\ queue'[c] = Rest(c)
        /\ queue'[d] = Append(queue[d], m)
        /\ \A e \in Chan \ {c, d} : queue'[e] = queue[e]
    BY Zenon DEF Reply, TypeOK
  <1>2. Append(<<>>, m) = <<m>>
    OBVIOUS
  <1>. QED BY Zenon, <1>1, <1>2, OneMessage DEF Same, Quiet, Only

-----------------------------------------------------------------------------
(* What the steps of a child leave alone. *)

\* A child that ends, or closes its own senders, leaves those of others open.
LEMMA OthersHold ==
    ASSUME TypeOK, NEW p \in Proc, NEW q \in Proc, p # q, NEW c \in Chan
    PROVE  /\ \A C : Close(p, C) => (q \in holders'[c] <=> q \in holders[c])
           /\ Gone({p}) => (q \in holders'[c] <=> q \in holders[c])
  BY Zenon DEF Close, Gone, TypeOK

\* Steps of the intermediate process other than its fork.
LEMMA InterLocal ==
    ASSUME TypeOK, Inter, ~InterFork
    PROVE  /\ UNCHANGED <<args, served, pending, victims, state>>
           /\ \A p \in Proc \ {"inter"} : pc'[p] = pc[p]
           /\ pc["inter"] \notin {"none", "exited"}
           /\ pc["inter"] \in {"ready", "closing"} => pc'["inter"] \in {"closing", "exited"}
           /\ Same("init") /\ Same("initMain")
           /\ \A p \in Proc \ {"inter"} :
                \A c \in Chan : p \in holders'[c] <=> p \in holders[c]
PROOF
  <1>. USE DEF Proc, Child, Chan
  <1>1. CASE InterCgroup
    BY Zenon, <1>1 DEF InterCgroup, Goto, TypeOK, Same
  <1>2. CASE InterUserns
    BY Zenon, <1>2, SendOne DEF InterUserns, Goto, TypeOK, Same
  <1>3. ASSUME NEW l, NEW w, NEW n, InterAck(l, w, n)
        PROVE  /\ UNCHANGED <<args, served, pending, victims, state>>
               /\ \A p \in Proc \ {"inter"} : pc'[p] = pc[p]
               /\ pc["inter"] = l
               /\ Same("init") /\ Same("initMain")
               /\ \A p \in Proc \ {"inter"} :
                    \A c \in Chan : p \in holders'[c] <=> p \in holders[c]
    BY Zenon, <1>3, ConsumeOne, ReplyOne, OthersHold DEF InterAck, Goto, TypeOK
  <1>4. CASE InterMapAck \/ InterTimeAck
    BY SMTT(30), <1>3, <1>4 DEF InterMapAck, InterTimeAck
  <1>5. CASE InterTimens
    BY Zenon, <1>5, SendOne DEF InterTimens, Goto, TypeOK, Same
  <1>6. CASE InterReady
    BY Zenon, <1>6, SendOne DEF InterReady, Goto, TypeOK
  <1>7. CASE InterExit
    BY Zenon, <1>7, OthersHold DEF InterExit, Goto, TypeOK, Same
  <1>8. CASE InterFail
    BY Zenon, <1>8, SendOne, OthersHold DEF InterFail, Goto, TypeOK
  <1>. QED BY Zenon, <1>1, <1>2, <1>4, <1>5, <1>6, <1>7, <1>8 DEF Inter

\* Steps of the init process.
LEMMA InitLocal ==
    ASSUME TypeOK, InitProcess
    PROVE  /\ UNCHANGED <<args, served, pending, victims, state>>
           /\ \A p \in Proc \ {"init"} : pc'[p] = pc[p]
           /\ pc["init"] \notin {"none", "exited"}
           /\ Same("inter") /\ Same("interMain")
           /\ \A p \in Proc \ {"init"} :
                \A c \in Chan : p \in holders'[c] <=> p \in holders[c]
PROOF
  <1>. USE DEF Proc, Child, Chan
  <1>1. CASE InitClose \/ InitCloseMain
    BY Zenon, <1>1, OthersHold DEF InitClose, InitCloseMain, Goto, TypeOK, Same
  <1>2. CASE InitSetup
    BY Zenon, <1>2, SendOne DEF InitSetup, InitAsk, Goto, TypeOK, Same
  <1>3. CASE InitPivot \/ InitReady
    BY Zenon, <1>3, SendOne DEF InitPivot, InitReady, InitAsk, Goto, TypeOK, Same
  <1>4. CASE InitEarlyFilter \/ InitLateFilter
    BY Zenon, <1>4, SendOne
       DEF InitEarlyFilter, InitLateFilter, InitFilter, InitAsk, Goto, TypeOK, Same
  <1>5. ASSUME NEW l, NEW w, NEW n, InitAwait(l, w, n)
        PROVE  /\ UNCHANGED <<args, served, pending, victims, state>>
               /\ \A p \in Proc \ {"init"} : pc'[p] = pc[p]
               /\ pc["init"] = l
               /\ Same("inter") /\ Same("interMain")
               /\ \A p \in Proc \ {"init"} :
                    \A c \in Chan : p \in holders'[c] <=> p \in holders[c]
    BY Zenon, <1>5, ConsumeOne, ReplyOne, OthersHold DEF InitAwait, Goto, TypeOK
  <1>6. CASE InitHooksDone \/ InitNetworkMoved \/ InitEarlyDone \/ InitLateDone
    BY SMTT(30), <1>5, <1>6 DEF InitHooksDone, InitNetworkMoved, InitEarlyDone, InitLateDone
  <1>7. CASE InitStarted \/ InitExec
    BY Zenon, <1>7 DEF InitStarted, InitExec, Goto, TypeOK, Same
  <1>8. CASE InitFail
    <2>1. Same("inter") /\ Same("interMain")
      BY Zenon, <1>8, SendOne DEF InitFail, Same
    <2>. QED BY Zenon, <1>8, <2>1, OthersHold DEF InitFail, Goto, TypeOK
  <1>. QED BY Zenon, <1>1, <1>2, <1>3, <1>4, <1>6, <1>7, <1>8 DEF InitProcess

-----------------------------------------------------------------------------
(* The dialogue with the intermediate process. *)

\* Steps that are none of its business.
LEMMA InterElsewhere ==
    ASSUME InterTurns, UNCHANGED args, Same("interMain"), Same("inter"),
           pc'["inter"] = pc["inter"],
           \/ pc'["main"] = pc["main"]
           \/ Asked /\ (Asked' \/ Over')
           \/ Over /\ Over',
           pc["inter"] \notin {"none", "exited"} =>
             \A c \in Chan : "inter" \in holders[c] => "inter" \in holders'[c]
    PROVE  InterTurns'
PROOF
  <1>1. /\ Quiet("interMain")' <=> Quiet("interMain")
        /\ Quiet("inter")' <=> Quiet("inter")
        /\ \A m : Only("interMain", m)' <=> Only("interMain", m)
        /\ \A m : Only("inter", m)' <=> Only("inter", m)
    BY Zenon, SameMessage DEF Chan
  <1>2. (ExpectsMapping' <=> ExpectsMapping) /\ (ExpectsOffsets' <=> ExpectsOffsets)
    BY Zenon DEF ExpectsMapping, ExpectsOffsets
  <1>3. CASE pc'["main"] = pc["main"]
    BY SMTT(30), <1>1, <1>2, <1>3
    DEF InterTurns, Turn, FirstTurn, SecondTurn, MapTurn, TimeTurn, ReadyTurn, Over,
        Asked, Complete
  <1>4. CASE Asked /\ (Asked' \/ Over')
    BY Zenon, <1>1, <1>2, <1>4
    DEF InterTurns, Turn, FirstTurn, SecondTurn, MapTurn, TimeTurn, ReadyTurn, Over,
        Asked, Complete
  <1>5. CASE Over /\ Over'
    BY Zenon, <1>1, <1>2, <1>5
    DEF InterTurns, Turn, FirstTurn, SecondTurn, MapTurn, TimeTurn, ReadyTurn, Over,
        Asked, Complete
  <1>. QED BY Zenon, <1>3, <1>4, <1>5

\* The intermediate process is killed.
LEMMA InterGone ==
    ASSUME TypeOK, InterTurns, UNCHANGED args, Same("interMain"), Same("inter"),
           pc["inter"] # "none" \/ Over, pc'["inter"] = "exited",
           pc'["main"] = pc["main"] \/ (Over /\ Over')
    PROVE  InterTurns'
PROOF
  <1>1. /\ Quiet("interMain")' <=> Quiet("interMain")
        /\ Quiet("inter")' <=> Quiet("inter")
        /\ \A m : Only("interMain", m)' <=> Only("interMain", m)
        /\ \A m : Only("inter", m)' <=> Only("inter", m)
    BY Zenon, SameMessage DEF Chan
  <1>2. (ExpectsMapping' <=> ExpectsMapping) /\ (ExpectsOffsets' <=> ExpectsOffsets)
    BY Zenon DEF ExpectsMapping, ExpectsOffsets
  <1>0. pc["inter"] \in InterPc
    BY Zenon DEF TypeOK
  <1>3. CASE pc'["main"] = pc["main"]
    BY Zenon, <1>0, <1>1, <1>2, <1>3
    DEF InterTurns, Turn, FirstTurn, SecondTurn, MapTurn, TimeTurn, ReadyTurn, Over,
        Asked, Complete, InterPc
  <1>4. CASE Over /\ Over'
    BY Zenon, <1>0, <1>1, <1>2, <1>4
    DEF InterTurns, Turn, FirstTurn, SecondTurn, MapTurn, TimeTurn, ReadyTurn, Over,
        Asked, Complete, InterPc
  <1>. QED BY Zenon, <1>3, <1>4

\* At most one message is under way to the main process,
LEMMA InterMainOne ==
    ASSUME TypeOK, InterTurns
    PROVE  Quiet("interMain") \/ \E m : Only("interMain", m)
  BY Zenon DEF TypeOK, InterTurns, Turn, InterPc

\* and the main process misses the message it waits for only when the
\* intermediate process is gone.
LEMMA InterRefused ==
    ASSUME TypeOK, InterTurns, NEW l, NEW w, MainRecvError(l, "interMain", w),
           \/ l = "map" /\ w = "WriteMapping"
           \/ l = "time" /\ w = "WriteTimeOffsets"
           \/ l = "ready" /\ w = "IntermediateReady"
    PROVE  pc["inter"] = "exited" /\ Received("interMain") \in Errors
PROOF
  <1>1. pc["main"] = l /\ Received("interMain") # w /\ Readable("interMain")
    BY Zenon DEF MainRecvError
  <1>2. pc["inter"] # "none" /\ pc["inter"] \in InterPc
    BY Zenon, <1>1 DEF InterTurns, Over, TypeOK
  <1>3. \A m : Only("interMain", m) => m # w /\ m = Received("interMain")
    BY Zenon, <1>1, OneMessage DEF Chan
  <1>4. ASSUME pc["inter"] # "exited" PROVE FALSE
    <2>1. "inter" \in holders["interMain"]
      BY Zenon, <1>2, <1>4 DEF InterTurns, Chan
    <2>2. ~Quiet("interMain")
      BY Zenon, <2>1, <1>1 DEF Readable, Quiet
    <2>. QED
      BY Zenon, <1>1, <1>2, <1>3, <1>4, <2>2
      DEF InterTurns, Turn, MapTurn, TimeTurn, ReadyTurn, Asked, Complete, Over, InterPc
  <1>5. Quiet("interMain") \/ Only("interMain", "OtherError")
    BY Zenon, <1>1, <1>3, <1>4
    DEF InterTurns, MapTurn, TimeTurn, ReadyTurn, Asked, Complete
  <1>. QED BY Zenon, <1>4, <1>5, OneMessage DEF Chan, Errors

\* The main process starts the intermediate process and goes through its
\* requests in turn.
LEMMA InterMain ==
    ASSUME TypeOK, InterTurns,
           MainClone \/ MainClose \/ MainMap \/ MainTime \/ MainDrop \/ MainInterReady
    PROVE  InterTurns'
PROOF
  <1>. USE DEF Proc, Child, Chan
  <1>t. pc["inter"] \in InterPc /\ pc["main"] \in MainPc
    BY Zenon DEF TypeOK
  <1>e. UNCHANGED args => /\ ExpectsMapping' <=> ExpectsMapping
                          /\ ExpectsOffsets' <=> ExpectsOffsets
    BY Zenon DEF ExpectsMapping, ExpectsOffsets
  <1>s. \A c \in Chan : Same(c) => /\ Quiet(c)' <=> Quiet(c)
                                   /\ \A m : Only(c, m)' <=> Only(c, m)
    BY Zenon, SameMessage
  <1>q. UNCHANGED queue => \A c \in Chan : Same(c)
    BY Zenon DEF Same
  <1>1. CASE MainClone
    <2>1. /\ UNCHANGED args /\ Same("inter") /\ Same("interMain")
          /\ pc["main"] = "clone" /\ pc["inter"] = "none"
      BY Zenon, <1>1, <1>q DEF MainClone, InterTurns
    <2>2. CASE pc' = [pc EXCEPT !["main"] = "close", !["inter"] = "start"]
               /\ holders' = [c \in Chan |-> {"main", "inter"}]
      <3>1. pc'["main"] = "close" /\ pc'["inter"] = "start"
        BY Zenon, <2>2 DEF TypeOK
      <3>2. \A c \in Chan : "inter" \in holders'[c]
        BY Zenon, <2>2
      <3>. QED
        BY Zenon, <2>1, <3>1, <3>2, <1>e, <1>s
        DEF InterTurns, FirstTurn, SecondTurn, MapTurn, TimeTurn, ReadyTurn
    <2>3. CASE Goto("main", "cleanup")
      <3>1. pc'["main"] = "cleanup" /\ pc'["inter"] = "none"
        BY Zenon, <2>1, <2>3 DEF TypeOK, Goto
      <3>. QED BY Zenon, <2>1, <3>1, <1>e, <1>s DEF InterTurns, Over
    <2>. QED BY Zenon, <1>1, <2>2, <2>3 DEF MainClone
  <1>2. CASE MainClose
    <2>1. /\ UNCHANGED args /\ Same("inter") /\ Same("interMain")
          /\ pc["main"] = "close" /\ pc'["inter"] = pc["inter"]
          /\ pc'["main"] = IF ExpectsMapping THEN "map"
                           ELSE IF ExpectsOffsets THEN "time" ELSE "drop"
      BY Zenon, <1>2, <1>q DEF MainClose, Goto, TypeOK
    <2>2. \A c \in Chan : "inter" \in holders[c] => "inter" \in holders'[c]
      BY Zenon, <1>2 DEF MainClose, Close
    <2>. QED
      BY Zenon, <2>1, <2>2, <1>e, <1>s, <1>t
      DEF InterTurns, Turn, FirstTurn, SecondTurn, MapTurn, TimeTurn, ReadyTurn, Over,
          Asked, Complete, InterPc
  <1>3. CASE MainDrop
    <2>1. /\ UNCHANGED args /\ Same("inter") /\ Same("interMain")
          /\ pc["main"] = "drop" /\ pc'["inter"] = pc["inter"]
          /\ pc'["main"] = "ready"
      BY Zenon, <1>3, <1>q DEF MainDrop, Goto, TypeOK
    <2>2. \A c \in Chan : "inter" \in holders[c] => "inter" \in holders'[c]
      BY Zenon, <1>3 DEF MainDrop, Close
    <2>. QED
      BY Zenon, <2>1, <2>2, <1>e, <1>s, <1>t
      DEF InterTurns, Turn, FirstTurn, SecondTurn, MapTurn, TimeTurn, ReadyTurn, Over,
          Asked, Complete, InterPc
  <1>m. Quiet("interMain") \/ \E m : Only("interMain", m)
    BY Zenon, InterMainOne
  <1>4. ASSUME NEW l, NEW w, MainRecvError(l, "interMain", w),
               \/ l = "map" /\ w = "WriteMapping"
               \/ l = "time" /\ w = "WriteTimeOffsets"
               \/ l = "ready" /\ w = "IntermediateReady"
        PROVE  InterTurns'
    <2>1. /\ UNCHANGED <<args, holders>> /\ pc["main"] = l /\ pc'["inter"] = pc["inter"]
          /\ pc'["main"] = "cleanup"
      BY Zenon, <1>4 DEF MainRecvError, Goto, TypeOK
    <2>2. Same("inter") /\ Quiet("interMain")'
      BY Zenon, <1>4, <1>m, ConsumeOne DEF MainRecvError
    <2>4. pc["inter"] = "exited"
      BY Zenon, <1>4, InterRefused
    <2>. QED
      BY Zenon, <2>1, <2>2, <2>4, <1>e, <1>s
      DEF InterTurns, Asked, Complete
  <1>5. ASSUME NEW l \in {"map", "time"}, NEW w, NEW d, NEW a, NEW n,
               MainWrite(l, w, d, a, n),
               \/ /\ l = "map" /\ w = "WriteMapping" /\ a = "MappingWritten"
                  /\ n = IF ExpectsOffsets THEN "time" ELSE "drop"
               \/ /\ l = "time" /\ w = "WriteTimeOffsets" /\ a = "TimeOffsetsWritten"
                  /\ n = "drop"
        PROVE  InterTurns'
    <2>1. /\ UNCHANGED <<args, holders>> /\ pc["main"] = l /\ pc'["inter"] = pc["inter"]
          /\ pc'["main"] \in {n, "cleanup"}
      BY Zenon, <1>5 DEF MainWrite, Goto, TypeOK
    <2>2. Received("interMain") = w
      BY Zenon, <1>5 DEF MainWrite
    <2>3. Only("interMain", w)
      BY Zenon, <2>2, <1>5, <1>m, OneMessage
    <2>4. \A m : Only("interMain", m) => m = w
      BY Zenon, <2>3, OneMessage
    <2>5. CASE Reply("interMain", "inter", a) /\ Goto("main", n)
      <3>1. Quiet("interMain")' /\ (Quiet("inter") => Only("inter", a)')
        BY Zenon, <2>3, <2>5, ReplyOne
      <3>2. pc'["main"] = n
        BY Zenon, <2>5 DEF Goto, TypeOK
      <3>. QED
        BY Zenon, <1>5, <2>1, <2>3, <2>4, <3>1, <3>2, <1>e, <1>t, OneMessage
        DEF InterTurns, Turn, FirstTurn, SecondTurn, MapTurn, TimeTurn, ReadyTurn, Over,
            Asked, Complete, InterPc
    <2>6. CASE Consume("interMain") /\ Goto("main", "cleanup")
      <3>1. Quiet("interMain")' /\ Same("inter")
        BY Zenon, <2>3, <2>6, ConsumeOne
      <3>2. pc'["main"] = "cleanup"
        BY Zenon, <2>6 DEF Goto, TypeOK
      <3>. QED
        BY Zenon, <1>5, <2>1, <2>3, <2>4, <3>1, <3>2, <1>e, <1>s, <1>t, OneMessage
        DEF InterTurns, Turn, FirstTurn, SecondTurn, MapTurn, TimeTurn, ReadyTurn, Over,
            Asked, Complete, InterPc
    <2>. QED BY Zenon, <1>5, <2>5, <2>6 DEF MainWrite
  <1>6. CASE MainMap
    BY Zenon, <1>6, <1>4, <1>5 DEF MainMap
  <1>7. CASE MainTime
    BY Zenon, <1>7, <1>4, <1>5 DEF MainTime
  <1>8. CASE MainInterReady
    <2>1. CASE MainRecvError("ready", "interMain", "IntermediateReady")
      BY Zenon, <2>1, <1>4
    <2>2. CASE /\ pc["main"] = "ready" /\ Received("interMain") = "IntermediateReady"
               /\ Consume("interMain") /\ Goto("main", "serve")
               /\ UNCHANGED <<args, holders>>
      <3>1. Only("interMain", "IntermediateReady")
        BY Zenon, <2>2, <1>m, OneMessage
      <3>2. \A m : Only("interMain", m) => m = "IntermediateReady"
        BY Zenon, <3>1, OneMessage
      <3>3. Quiet("interMain")' /\ Same("inter")
        BY Zenon, <2>2, <3>1, ConsumeOne
      <3>4. pc'["main"] = "serve" /\ pc'["inter"] = pc["inter"]
        BY Zenon, <2>2 DEF Goto, TypeOK
      <3>. QED
        BY Zenon, <2>2, <3>1, <3>2, <3>3, <3>4, <1>e, <1>s, <1>t, OneMessage
        DEF InterTurns, Turn, FirstTurn, SecondTurn, MapTurn, TimeTurn, ReadyTurn, Over,
            Asked, Complete, InterPc
    <2>. QED BY Zenon, <1>8, <2>1, <2>2 DEF MainInterReady
  <1>. QED BY Zenon, <1>1, <1>2, <1>3, <1>6, <1>7, <1>8

\* The intermediate process always finds the answer it waits for: it holds its
\* own sender open, so it can never see end-of-file.
LEMMA InterAnswered ==
    ASSUME TypeOK, InterTurns, NEW l, NEW w, NEW n, InterAck(l, w, n),
           \/ l = "mapAck" /\ w = "MappingWritten"
           \/ l = "timeAck" /\ w = "TimeOffsetsWritten"
    PROVE  Received("inter") = w /\ Only("inter", w)
PROOF
  <1>1. "inter" \in holders["inter"]
    BY Zenon DEF InterAck, InterTurns, Chan
  <1>2. ~Quiet("inter")
    BY Zenon, <1>1 DEF InterAck, Readable, Quiet
  <1>3. Only("inter", w)
    BY Zenon, <1>2 DEF InterAck, InterTurns, Turn
  <1>. QED BY Zenon, <1>3, OneMessage DEF Chan

\* The steps of the intermediate process.
LEMMA InterSteps ==
    ASSUME TypeOK, InterTurns, Inter PROVE InterTurns'
PROOF
  <1>. USE DEF Proc, Child, Chan
  <1>t. pc["inter"] \in InterPc /\ pc["main"] \in MainPc
    BY Zenon DEF TypeOK
  <1>e. UNCHANGED args => /\ ExpectsMapping' <=> ExpectsMapping
                          /\ ExpectsOffsets' <=> ExpectsOffsets
    BY Zenon DEF ExpectsMapping, ExpectsOffsets
  <1>s. \A c \in Chan : Same(c) => /\ Quiet(c)' <=> Quiet(c)
                                   /\ \A m : Only(c, m)' <=> Only(c, m)
    BY Zenon, SameMessage
  <1>q. UNCHANGED queue => \A c \in Chan : Same(c)
    BY Zenon DEF Same
  <1>1. CASE InterCgroup
    <2>1. /\ UNCHANGED <<args, holders>> /\ Same("inter") /\ Same("interMain")
          /\ pc'["main"] = pc["main"] /\ pc["inter"] = "start" /\ pc'["inter"] = "userns"
      BY Zenon, <1>1, <1>q DEF InterCgroup, Goto, TypeOK
    <2>. QED
      BY Zenon, <2>1, <1>e, <1>s
      DEF InterTurns, FirstTurn, SecondTurn, MapTurn, TimeTurn, ReadyTurn, Over
  <1>2. CASE InterUserns
    <2>1. /\ UNCHANGED <<args, holders>>
          /\ pc'["main"] = pc["main"] /\ pc["inter"] = "userns"
          /\ pc'["inter"] = IF ExpectsMapping THEN "mapAck" ELSE "timens"
      BY Zenon, <1>2 DEF InterUserns, Goto, TypeOK, ExpectsMapping
    <2>2. CASE ExpectsMapping
      <3>1. Same("inter") /\ (Quiet("interMain") => Only("interMain", "WriteMapping")')
        BY Zenon, <1>2, <2>2, SendOne DEF InterUserns, ExpectsMapping
      <3>. QED
        BY Zenon, <2>1, <2>2, <3>1, <1>e, <1>s
        DEF InterTurns, Turn, FirstTurn, SecondTurn, MapTurn, TimeTurn, ReadyTurn, Over
    <2>3. CASE ~ExpectsMapping
      <3>1. Same("inter") /\ Same("interMain")
        BY Zenon, <1>2, <2>3, <1>q DEF InterUserns, ExpectsMapping
      <3>. QED
        BY Zenon, <2>1, <2>3, <3>1, <1>e, <1>s
        DEF InterTurns, Turn, FirstTurn, SecondTurn, MapTurn, TimeTurn, ReadyTurn, Over
    <2>. QED BY Zenon, <2>2, <2>3
  <1>3. ASSUME NEW l, NEW w, NEW n, InterAck(l, w, n),
               \/ l = "mapAck" /\ w = "MappingWritten" /\ n = "timens"
               \/ l = "timeAck" /\ w = "TimeOffsetsWritten" /\ n = "fork"
        PROVE  InterTurns'
    <2>1. Received("inter") = w /\ Only("inter", w)
      BY Zenon, <1>3, InterAnswered
    <2>2. /\ UNCHANGED <<args, holders>> /\ Consume("inter")
          /\ pc'["main"] = pc["main"] /\ pc["inter"] = l /\ pc'["inter"] = n
      BY Zenon, <1>3, <2>1 DEF InterAck, Goto, TypeOK
    <2>3. Same("interMain") /\ Quiet("inter")' /\ ~Quiet("inter")
      BY Zenon, <2>1, <2>2, ConsumeOne, OneMessage
    <2>. QED
      BY Zenon, <1>3, <2>1, <2>2, <2>3, <1>e, <1>s
      DEF InterTurns, Turn, FirstTurn, SecondTurn, MapTurn, TimeTurn, ReadyTurn, Over
  <1>4. CASE InterTimens
    <2>1. /\ UNCHANGED <<args, holders>>
          /\ pc'["main"] = pc["main"] /\ pc["inter"] = "timens"
          /\ pc'["inter"] = IF ExpectsOffsets THEN "timeAck" ELSE "fork"
      BY Zenon, <1>4 DEF InterTimens, Goto, TypeOK, ExpectsOffsets
    <2>2. CASE ExpectsOffsets
      <3>1. Same("inter") /\ (Quiet("interMain") => Only("interMain", "WriteTimeOffsets")')
        BY Zenon, <1>4, <2>2, SendOne DEF InterTimens, ExpectsOffsets
      <3>. QED
        BY Zenon, <2>1, <2>2, <3>1, <1>e, <1>s
        DEF InterTurns, Turn, FirstTurn, SecondTurn, MapTurn, TimeTurn, ReadyTurn, Over
    <2>3. CASE ~ExpectsOffsets
      <3>1. Same("inter") /\ Same("interMain")
        BY Zenon, <1>4, <2>3, <1>q DEF InterTimens, ExpectsOffsets
      <3>. QED
        BY Zenon, <2>1, <2>3, <3>1, <1>e, <1>s
        DEF InterTurns, Turn, FirstTurn, SecondTurn, MapTurn, TimeTurn, ReadyTurn, Over
    <2>. QED BY Zenon, <2>2, <2>3
  <1>5. CASE InterFork
    <2>1. /\ UNCHANGED args /\ Same("inter") /\ Same("interMain")
          /\ pc'["main"] = pc["main"] /\ pc["inter"] = "fork" /\ pc'["inter"] = "ready"
      BY Zenon, <1>5, <1>q DEF InterFork, TypeOK
    <2>2. \A c \in Chan : "inter" \in holders[c] => "inter" \in holders'[c]
      BY Zenon, <1>5 DEF InterFork
    <2>. QED
      BY Zenon, <2>1, <2>2, <1>e, <1>s DEF InterTurns, ReadyTurn, Over
  <1>6. CASE InterReady
    <2>1. /\ UNCHANGED <<args, holders>>
          /\ pc'["main"] = pc["main"] /\ pc["inter"] = "ready" /\ pc'["inter"] = "closing"
      BY Zenon, <1>6 DEF InterReady, Goto, TypeOK
    <2>2. Same("inter") /\ (Quiet("interMain") => Only("interMain", "IntermediateReady")')
      BY Zenon, <1>6, SendOne DEF InterReady
    <2>. QED
      BY Zenon, <2>1, <2>2, <1>e, <1>s DEF InterTurns, ReadyTurn, Over
  <1>7. CASE InterExit
    BY Zenon, <1>7, <1>q, InterGone DEF InterExit, Goto, TypeOK
  <1>8. CASE InterFail
    <2>1. /\ UNCHANGED args
          /\ pc'["main"] = pc["main"] /\ pc'["inter"] = "exited"
          /\ pc["inter"] \in {"start", "userns", "timens", "fork", "ready"}
      BY Zenon, <1>8 DEF InterFail, Goto, TypeOK
    <2>2. Same("inter") /\ (Quiet("interMain") => Only("interMain", "OtherError")')
      BY Zenon, <1>8, SendOne DEF InterFail
    <2>. QED
      BY Zenon, <2>1, <2>2, <1>e, <1>s
      DEF InterTurns, FirstTurn, SecondTurn, MapTurn, TimeTurn, ReadyTurn, Over,
          Asked, Complete
  <1>. QED
    BY Zenon, <1>1, <1>2, <1>3, <1>4, <1>5, <1>6, <1>7, <1>8
    DEF Inter, InterMapAck, InterTimeAck

\* Every other step of the system.
LEMMA InterRest ==
    ASSUME TypeOK, InterTurns,
           \/ MainServe \/ MainInitReady \/ MainServeError \/ MainWait \/ MainRecord
           \/ MainRecordError \/ MainCleanup \/ MainKill \/ MainGiveUp
           \/ InitProcess \/ NotifyContainerStart \/ \E p \in Child : Crash(p)
           \/ UNCHANGED vars
    PROVE  InterTurns'
PROOF
  <1>. USE DEF Proc, Child, Chan
  <1>q. UNCHANGED queue => \A c \in Chan : Same(c)
    BY Zenon DEF Same
  <1>c. \A p \in {"main", "init"} : \A C : Close(p, C) =>
          \A c \in Chan : "inter" \in holders[c] => "inter" \in holders'[c]
    BY SMTT(30) DEF Close, TypeOK
  <1>g. \A P : Gone(P) /\ "inter" \notin P =>
          \A c \in Chan : "inter" \in holders[c] => "inter" \in holders'[c]
    BY SMTT(30) DEF Gone, TypeOK
  <1>1. CASE MainServe
    <2>1. Same("inter") /\ Same("interMain")
      BY Zenon, <1>1, ConsumeOne, ReplyOne DEF MainServe
    <2>2. /\ UNCHANGED <<args, holders>> /\ pc'["inter"] = pc["inter"]
          /\ pc'["main"] = pc["main"] \/ (pc["main"] = "serve" /\ pc'["main"] = "cleanup")
      BY Zenon, <1>1 DEF MainServe, Goto, TypeOK
    <2>. QED BY Zenon, <2>1, <2>2, InterElsewhere DEF Asked, Over
  <1>2. CASE MainInitReady
    <2>1. Same("inter") /\ Same("interMain")
      BY Zenon, <1>2, ConsumeOne DEF MainInitReady
    <2>2. /\ UNCHANGED args /\ pc'["inter"] = pc["inter"]
          /\ pc["main"] = "serve" /\ pc'["main"] = "wait"
      BY Zenon, <1>2 DEF MainInitReady, Goto, TypeOK
    <2>3. \A c \in Chan : "inter" \in holders[c] => "inter" \in holders'[c]
      BY Zenon, <1>2, <1>c DEF MainInitReady
    <2>. QED BY Zenon, <2>1, <2>2, <2>3, InterElsewhere DEF Asked, Complete
  <1>3. CASE MainServeError
    <2>1. Same("inter") /\ Same("interMain")
      BY Zenon, <1>3, ConsumeOne DEF MainServeError
    <2>2. /\ UNCHANGED <<args, holders>> /\ pc'["inter"] = pc["inter"]
          /\ pc["main"] = "serve" /\ pc'["main"] = "cleanup"
      BY Zenon, <1>3 DEF MainServeError, Goto, TypeOK
    <2>. QED BY Zenon, <2>1, <2>2, InterElsewhere DEF Asked, Over
  <1>4. CASE MainWait \/ MainRecord \/ MainRecordError \/ MainCleanup \/ MainGiveUp
    <2>1. /\ UNCHANGED args /\ pc'["inter"] = pc["inter"]
          /\ \/ Asked /\ (Asked' \/ Over')
             \/ Over /\ Over'
      BY Zenon, <1>4
      DEF MainWait, MainRecord, MainRecordError, MainCleanup, MainGiveUp, Goto, TypeOK,
          Asked, Complete, Over
    <2>2. \A c \in Chan : "inter" \in holders[c] => "inter" \in holders'[c]
      BY Zenon, <1>4, <1>c
      DEF MainWait, MainRecord, MainRecordError, MainCleanup, MainGiveUp
    <2>3. Same("inter") /\ Same("interMain")
      BY Zenon, <1>4, <1>q DEF MainWait, MainRecord, MainRecordError, MainCleanup, MainGiveUp
    <2>. QED BY Zenon, <2>1, <2>2, <2>3, InterElsewhere
  <1>5. CASE MainKill
    <2>1. /\ UNCHANGED args /\ Same("inter") /\ Same("interMain")
          /\ Over /\ Over'
          /\ pc'["inter"] = IF "inter" \in victims THEN "exited" ELSE pc["inter"]
      BY Zenon, <1>5, <1>q DEF MainKill, TypeOK, Over
    <2>2. CASE pc'["inter"] = pc["inter"]
      <3>1. pc["inter"] \notin {"none", "exited"} => "inter" \notin victims
        BY Zenon, <2>1, <2>2
      <3>2. pc["inter"] \notin {"none", "exited"} =>
              \A c \in Chan : "inter" \in holders[c] => "inter" \in holders'[c]
        BY Zenon, <1>5, <3>1, <1>g DEF MainKill
      <3>. QED BY Zenon, <2>1, <2>2, <3>2, InterElsewhere
    <2>3. CASE pc'["inter"] # pc["inter"]
      <3>1. pc'["inter"] = "exited"
        BY Zenon, <2>1, <2>3
      <3>. QED BY Zenon, <2>1, <3>1, InterGone
    <2>. QED BY Zenon, <2>2, <2>3
  <1>6. CASE InitProcess
    BY Zenon, <1>6, InitLocal, InterElsewhere
  <1>7. CASE Crash("inter")
    BY Zenon, <1>7, <1>q, InterGone DEF Crash, Goto, TypeOK
  <1>8. CASE Crash("init")
    BY Zenon, <1>8, <1>q, <1>g, InterElsewhere DEF Crash, Goto, TypeOK
  <1>9. CASE NotifyContainerStart \/ UNCHANGED vars
    BY Zenon, <1>9, <1>q, InterElsewhere DEF NotifyContainerStart, vars
  <1>. QED BY Zenon, <1>1, <1>2, <1>3, <1>4, <1>5, <1>6, <1>7, <1>8, <1>9

-----------------------------------------------------------------------------
(* The init process too asks for one thing at a time, in the order of its      *)
(* labels, and the main process accepts what the spec calls for, in phases.    *)

\* The requests of the init process the main process has still to serve.
Missing == Requirements \ served

\* The requests the init process has been through when it is at label l.
Behind(l) ==
    CASE l \in {"closing", "setup", "hookAck"} -> {}
      [] l \in {"pivot", "netAck"} -> {"Hooks"}
      [] l \in {"early", "earlyAck"} -> {"Hooks", "Network"}
      [] l \in {"caps", "lateAck"} ->
            IF args.noNewPrivs = "some" THEN {"Hooks", "Network"}
            ELSE {"Hooks", "Network", "Seccomp"}
      [] OTHER -> {"Hooks", "Network", "Seccomp"}

\* InitRequestSequence::accept would take m.
Owed(m) ==
    /\ RequestOf(m) \in Missing
    /\ \A r \in Missing : Phase(r) >= Phase(RequestOf(m))

\* The init process waits at l for the answer a to its request m.
InitTurn(l, m, a) ==
    /\ RequestOf(m) \in Requirements
    /\ \/ /\ Listening /\ Only("initMain", m) /\ Quiet("init")
          /\ Missing = Requirements \ Behind(l)
       \/ /\ pc["main"] = "serve" /\ Quiet("initMain") /\ Only("init", a)
          /\ Missing = Requirements \ (Behind(l) \cup {RequestOf(m)})
       \/ Over /\ Quiet("init")

\* What is missing is exactly what lies ahead of the init process.
InitTurns ==
    /\ ~Asked /\ ~Over => served \cap InitRequest = {}
    /\ pc["main"] = "serve" => pending = Missing
    /\ Complete => Missing = {} /\ pc["init"] # "none"
    /\ pc["init"] = "none" => Quiet("initMain") /\ Quiet("init")
    /\ pc["init"] # "none" => pc["inter"] \in {"ready", "closing", "exited"}
    /\ pc["init"] \in {"closing", "setup", "pivot", "early", "caps", "ready"}
         => /\ Quiet("init")
            /\ \/ Listening /\ Quiet("initMain") /\ Missing = Requirements \ Behind(pc["init"])
               \/ Over
    /\ pc["init"] = "hookAck" => InitTurn("hookAck", "HookRequest", "HookDone")
    /\ pc["init"] = "netAck"
         => InitTurn("netAck", "SetupNetworkDeviceReady", "MoveNetworkDevice")
    /\ pc["init"] = "earlyAck"
         => args.noNewPrivs = "none"
            /\ InitTurn("earlyAck", "SeccompNotify", "SeccompNotifyDone")
    /\ pc["init"] = "lateAck"
         => args.noNewPrivs = "some"
            /\ InitTurn("lateAck", "SeccompNotify", "SeccompNotifyDone")
    /\ pc["init"] \in {"closeMain", "notify", "started", "payload"}
         => /\ Quiet("init")
            /\ \/ Listening /\ Only("initMain", "InitReady") /\ Missing = {"Ready"}
               \/ Complete /\ Quiet("initMain")
               \/ Over
    /\ pc["init"] = "exited"
         => \/ Listening /\ (Quiet("initMain") \/ Only("initMain", "ExecFailed"))
            \/ Listening /\ \E m \in MainMsg : /\ Only("initMain", m) /\ Owed(m)
                                               /\ m = "InitReady" => Quiet("init")
            \/ Complete /\ Quiet("initMain") /\ Quiet("init")
            \/ Over
    /\ Listening => "main" \in holders["init"]
    /\ pc["init"] \in {"notify", "started", "payload"} => "init" \notin holders["initMain"]
    /\ pc["init"] \notin {"none", "exited", "notify", "started", "payload"}
         => "init" \in holders["initMain"]

\* Whoever is alive when cleanup has read cgroup.procs was read.
Living == {p \in Child : pc[p] \notin {"none", "exited"}}

CleanInv ==
    /\ pc["main"] = "kill" /\ ~args.rootless => Living \subseteq victims
    /\ FailedCreateLeavesNothing

-----------------------------------------------------------------------------
(* The dialogue with the init process. *)

\* InitReady is always called for.
LEMMA RequirementsType ==
    /\ Requirements \subseteq InitRequest
    /\ "Ready" \in Requirements
    /\ UNCHANGED args => Requirements' = Requirements
  BY Zenon DEF Requirements, InitRequest

\* What the init process may ask for where it is, the main process accepts.
LEMMA OwedInTurn ==
    /\ Missing = Requirements \ Behind("hookAck") /\ "Hooks" \in Requirements
         => Owed("HookRequest")
    /\ Missing = Requirements \ Behind("netAck") /\ "Network" \in Requirements
         => Owed("SetupNetworkDeviceReady")
    /\ Missing = Requirements \ Behind("earlyAck") /\ "Seccomp" \in Requirements
         => Owed("SeccompNotify")
    /\ Missing = Requirements \ Behind("lateAck") /\ "Seccomp" \in Requirements
       /\ args.noNewPrivs = "some"
         => Owed("SeccompNotify")
    /\ Missing = {"Ready"} => Owed("InitReady")
  BY SMTT(30), RequirementsType DEF Owed, Behind, RequestOf, Phase, InitRequest, Missing

\* Steps that are none of its business.
LEMMA InitElsewhere ==
    ASSUME TypeOK, InitTurns, UNCHANGED <<args, pending>>, Same("initMain"), Same("init"),
           pc'["init"] = pc["init"],
           served' \cap InitRequest = served \cap InitRequest,
           \/ pc'["main"] = pc["main"]
           \/ ~Asked /\ ~Over /\ (Over' \/ (Listening' /\ ~Asked'))
           \/ Complete /\ (Complete' \/ Over')
           \/ Over /\ Over',
           pc["init"] # "none" => pc'["inter"] \in {"ready", "closing", "exited"},
           (Listening => "main" \in holders["init"])
             => (Listening' => "main" \in holders'["init"]),
           pc["init"] \notin {"none", "exited"} =>
             ("init" \in holders'["initMain"] <=> "init" \in holders["initMain"])
    PROVE  InitTurns'
PROOF
  <1>1. /\ Quiet("initMain")' <=> Quiet("initMain")
        /\ Quiet("init")' <=> Quiet("init")
        /\ \A m : Only("initMain", m)' <=> Only("initMain", m)
        /\ \A m : Only("init", m)' <=> Only("init", m)
    BY Zenon, SameMessage DEF Chan
  <1>2. Requirements' = Requirements /\ Missing' = Missing
    BY Zenon, RequirementsType DEF Missing
  <1>3. \A l : Behind(l)' = Behind(l)
    BY Zenon DEF Behind
  <1>4. \A m : Owed(m)' <=> Owed(m)
    BY Zenon, <1>2 DEF Owed
  <1>5. CASE pc'["main"] = pc["main"]
    BY SMTT(30), <1>1, <1>2, <1>3, <1>4, <1>5
    DEF InitTurns, InitTurn, Listening, Asked, Complete, Over
  <1>6. CASE ~Asked /\ ~Over /\ (Over' \/ (Listening' /\ ~Asked'))
    BY SMTT(30), <1>1, <1>2, <1>3, <1>4, <1>6
    DEF InitTurns, InitTurn, Listening, Asked, Complete, Over
  <1>7. CASE Complete /\ (Complete' \/ Over')
    BY Zenon, <1>1, <1>2, <1>3, <1>4, <1>7
    DEF InitTurns, InitTurn, Listening, Asked, Complete, Over
  <1>8. CASE Over /\ Over'
    BY SMTT(30), <1>1, <1>2, <1>3, <1>4, <1>8
    DEF InitTurns, InitTurn, Listening, Asked, Complete, Over
  <1>. QED BY Zenon, <1>5, <1>6, <1>7, <1>8

\* The init process is killed.
LEMMA InitGone ==
    ASSUME TypeOK, InitTurns, UNCHANGED <<args, pending, served>>,
           Same("initMain"), Same("init"),
           pc'["init"] = "exited",
           \/ pc["init"] # "none" /\ pc'["inter"] \in {pc["inter"], "exited"}
           \/ pc'["inter"] = "exited",
           \/ pc["init"] # "none" /\ pc'["main"] = pc["main"]
           \/ Over /\ Over',
           (Listening => "main" \in holders["init"])
             => (Listening' => "main" \in holders'["init"])
    PROVE  InitTurns'
PROOF
  <1>1. /\ Quiet("initMain")' <=> Quiet("initMain")
        /\ Quiet("init")' <=> Quiet("init")
        /\ \A m : Only("initMain", m)' <=> Only("initMain", m)
        /\ \A m : Only("init", m)' <=> Only("init", m)
    BY Zenon, SameMessage DEF Chan
  <1>2. Requirements' = Requirements /\ Missing' = Missing
    BY Zenon, RequirementsType DEF Missing
  <1>3. \A m : Owed(m)' <=> Owed(m)
    BY Zenon, <1>2 DEF Owed
  <1>4. pc["init"] \in InitPc /\ pc["main"] \in MainPc
    BY Zenon DEF TypeOK
  <1>5. CASE Over /\ Over'
    BY Zenon, <1>1, <1>2, <1>5 DEF InitTurns, Listening, Asked, Complete, Over
  <1>6. CASE pc["init"] # "none" /\ pc'["main"] = pc["main"] /\ ~Over
    <2>1. /\ ~Asked' /\ ~Over' => served' \cap InitRequest = {}
          /\ pc'["main"] = "serve" => pending' = Missing'
          /\ Complete' => Missing' = {} /\ pc'["init"] # "none"
          /\ pc'["inter"] \in {"ready", "closing", "exited"}
          /\ Listening' => "main" \in holders'["init"]
      BY Zenon, <1>2, <1>6 DEF InitTurns, Listening, Asked, Complete, Over
    <2>2. \/ Listening' /\ (Quiet("initMain")' \/ Only("initMain", "ExecFailed")')
          \/ Listening' /\ \E m \in MainMsg : /\ Only("initMain", m)' /\ Owed(m)'
                                              /\ m = "InitReady" => Quiet("init")'
          \/ Complete' /\ Quiet("initMain")' /\ Quiet("init")'
      <3>. (Listening' <=> Listening) /\ (Complete' <=> Complete)
        BY Zenon, <1>6 DEF Listening, Complete
      <3>1. CASE pc["init"] \in {"closing", "setup", "pivot", "early", "caps", "ready"}
        BY Zenon, <3>1, <1>1, <1>6 DEF InitTurns
      <3>2. CASE pc["init"] = "hookAck"
        <4>1. "HookRequest" \in MainMsg /\ RequestOf("HookRequest") = "Hooks"
          BY Zenon DEF MainMsg, RequestOf
        <4>. QED BY Zenon, <3>2, <4>1, <1>1, <1>3, <1>6, OwedInTurn DEF InitTurns, InitTurn, Listening
      <3>3. CASE pc["init"] = "netAck"
        <4>1. /\ "SetupNetworkDeviceReady" \in MainMsg
              /\ RequestOf("SetupNetworkDeviceReady") = "Network"
          BY Zenon DEF MainMsg, RequestOf
        <4>. QED BY Zenon, <3>3, <4>1, <1>1, <1>3, <1>6, OwedInTurn DEF InitTurns, InitTurn, Listening
      <3>4. CASE pc["init"] \in {"earlyAck", "lateAck"}
        <4>1. "SeccompNotify" \in MainMsg /\ RequestOf("SeccompNotify") = "Seccomp"
          BY Zenon DEF MainMsg, RequestOf
        <4>. QED BY Zenon, <3>4, <4>1, <1>1, <1>3, <1>6, OwedInTurn DEF InitTurns, InitTurn, Listening
      <3>5. CASE pc["init"] \in {"closeMain", "notify", "started", "payload"}
        <4>1. "InitReady" \in MainMsg
          BY Zenon DEF MainMsg
        <4>. QED BY Zenon, <3>5, <4>1, <1>1, <1>3, <1>6, OwedInTurn DEF InitTurns
      <3>6. CASE pc["init"] = "exited"
        BY Zenon, <3>6, <1>1, <1>3, <1>6 DEF InitTurns
      <3>. QED BY Zenon, <3>1, <3>2, <3>3, <3>4, <3>5, <3>6, <1>4, <1>6 DEF InitPc
    <2>. QED BY Zenon, <2>1, <2>2 DEF InitTurns
  <1>. QED BY Zenon, <1>5, <1>6 DEF Over

\* InitRequestSequence::accept takes what the init process still owes, in phase.
LEMMA AcceptsOwed ==
    ASSUME InitTurns, pc["main"] = "serve"
    PROVE  \A m : Accepts(m) <=> Owed(m)
PROOF
  <1>1. pending = Missing /\ Missing \subseteq InitRequest
    BY Zenon, RequirementsType DEF InitTurns, Missing
  <1>2. \A r \in InitRequest : Phase(r) \in 0..2
    BY SMTT(30) DEF InitRequest, Phase
  <1>. QED BY SMTT(30), <1>1, <1>2 DEF Accepts, Owed

\* What the main process can find on initMain.
LEMMA ServeCases ==
    ASSUME TypeOK, InitTurns, pc["main"] = "serve", Readable("initMain")
    PROVE  \/ /\ pc["init"] \in {"hookAck", "netAck", "earlyAck", "lateAck",
                                 "closeMain", "notify", "started", "payload"}
              /\ Quiet("init")
              /\ \E m : Only("initMain", m) /\ Accepts(m)
           \/ /\ pc["init"] = "exited"
              /\ \E m : /\ Only("initMain", m) /\ Accepts(m)
                        /\ m = "InitReady" => Quiet("init")
           \/ /\ pc["init"] \in {"none", "exited"}
              /\ Quiet("initMain") \/ Only("initMain", "ExecFailed")
PROOF
  <1>1. pc["init"] \in InitPc
    BY Zenon DEF TypeOK
  <1>2. /\ RequestOf("HookRequest") = "Hooks"
        /\ RequestOf("SetupNetworkDeviceReady") = "Network"
        /\ RequestOf("SeccompNotify") = "Seccomp"
    BY Zenon DEF RequestOf
  <1>3. Quiet("initMain") =>
          pc["init"] \in {"none", "exited", "notify", "started", "payload"}
    BY Zenon, <1>1 DEF Readable, Quiet, InitTurns, InitPc
  <1>. QED
    BY SMTT(30), <1>1, <1>2, <1>3, OwedInTurn, AcceptsOwed
    DEF InitTurns, InitTurn, InitPc, Listening, Complete, Over

\* The main process begins to listen, and serves the requests.
LEMMA InitMain ==
    ASSUME TypeOK, InterTurns, InitTurns,
           MainClone \/ MainInterReady \/ MainServe \/ MainInitReady \/ MainServeError
    PROVE  InitTurns'
PROOF
  <1>. USE DEF Proc, Child, Chan
  <1>t. pc["init"] \in InitPc /\ pc["main"] \in MainPc
    BY Zenon DEF TypeOK
  <1>s. \A c \in Chan : Same(c) => /\ Quiet(c)' <=> Quiet(c)
                                   /\ \A m : Only(c, m)' <=> Only(c, m)
    BY Zenon, SameMessage
  <1>q. UNCHANGED queue => \A c \in Chan : Same(c)
    BY Zenon DEF Same
  <1>b. UNCHANGED args => \A l : Behind(l)' = Behind(l)
    BY Zenon DEF Behind
  <1>1. CASE MainClone
    <2>1. /\ UNCHANGED <<args, queue, served, pending>> /\ pc'["init"] = pc["init"]
          /\ pc["main"] = "clone" /\ pc["inter"] = "none"
          /\ pc["init"] = "none"
          /\ pc'["main"] \in {"close", "cleanup"}
      BY Zenon, <1>1 DEF MainClone, Goto, TypeOK, InterTurns, InitTurns
    <2>2. pc'["main"] = "close" => "main" \in holders'["init"]
      BY SMTT(30), <1>1 DEF MainClone, Goto, TypeOK
    <2>. QED
      BY Zenon, <2>1, <2>2, <1>q, InitElsewhere DEF Listening, Over, Asked, Complete
  <1>2. CASE MainInterReady
    <2>1. CASE MainRecvError("ready", "interMain", "IntermediateReady")
      <3>1. Same("init") /\ Same("initMain")
        BY Zenon, <2>1, ConsumeOne DEF MainRecvError
      <3>2. /\ UNCHANGED <<args, served, pending, holders>> /\ pc'["init"] = pc["init"]
            /\ pc'["inter"] = pc["inter"]
            /\ pc["main"] = "ready" /\ pc'["main"] = "cleanup"
        BY Zenon, <2>1 DEF MainRecvError, Goto, TypeOK
      <3>3. pc["init"] # "none" => pc["inter"] \in {"ready", "closing", "exited"}
        BY Zenon DEF InitTurns
      <3>. QED BY Zenon, <3>1, <3>2, <3>3, InitElsewhere DEF Listening, Over, Asked, Complete
    <2>2. CASE /\ pc["main"] = "ready" /\ Consume("interMain") /\ Goto("main", "serve")
               /\ pending' = Requirements /\ UNCHANGED <<args, holders, served>>
      <3>1. Same("init") /\ Same("initMain")
        BY Zenon, <2>2, ConsumeOne
      <3>2. /\ pc'["init"] = pc["init"] /\ pc'["inter"] = pc["inter"]
            /\ pc'["main"] = "serve"
        BY Zenon, <2>2 DEF Goto, TypeOK
      <3>3. /\ Missing' = Missing /\ Requirements' = Requirements /\ pending' = Missing
            /\ \A m : Owed(m)' <=> Owed(m)
        BY Zenon, <2>2, RequirementsType DEF Missing, InitTurns, Asked, Over, Complete, Owed
      <3>. QED
        BY SMTT(30), <2>2, <3>1, <3>2, <3>3, <1>s, <1>b
        DEF InitTurns, InitTurn, Listening, Asked, Complete, Over
    <2>. QED BY Zenon, <1>2, <2>1, <2>2 DEF MainInterReady
  <1>r. /\ \A m \in Errors : RequestOf(m) \notin InitRequest
        /\ RequestOf("HookRequest") = "Hooks" /\ ReplyTo("Hooks") = "HookDone"
        /\ RequestOf("SetupNetworkDeviceReady") = "Network"
        /\ ReplyTo("Network") = "MoveNetworkDevice"
        /\ RequestOf("SeccompNotify") = "Seccomp"
        /\ ReplyTo("Seccomp") = "SeccompNotifyDone"
        /\ RequestOf("InitReady") = "Ready"
    BY Zenon DEF RequestOf, Errors, InitRequest, ReplyTo
  <1>3. CASE MainServe
    <2>m. PICK m : m = Received("initMain")
      BY Zenon
    <2>r. PICK r : r = RequestOf(m)
      BY Zenon
    <2>1. /\ UNCHANGED <<args, holders>> /\ pc["main"] = "serve" /\ Readable("initMain")
          /\ Accepts(m) /\ r # "Ready" /\ r \in pending /\ pending' = pending \ {r}
          /\ pc'["init"] = pc["init"] /\ pc'["inter"] = pc["inter"]
      BY Zenon, <1>3, <2>m, <2>r DEF MainServe, Accepts, Goto, TypeOK
    <2>2. m \notin Errors
      BY Zenon, <2>1, <2>r, <1>r DEF TypeOK
    <2>3. Only("initMain", m) /\ \A n : Only("initMain", n) => n = m
      BY Zenon, <2>1, <2>2, <2>m, ServeCases, OneMessage DEF Errors
    <2>4. ~Quiet("initMain")
      BY Zenon, <2>3, OneMessage
    <2>5. \/ /\ pc["init"] \in {"hookAck", "netAck", "earlyAck", "lateAck"}
             /\ Quiet("init")
          \/ pc["init"] = "exited"
      <3>1. pc["init"] \notin {"closeMain", "notify", "started", "payload"}
        BY Zenon, <2>1, <2>3, <2>4, <2>r, <1>r DEF InitTurns, Complete, Over
      <3>2. pc["init"] # "none"
        BY Zenon, <2>4 DEF InitTurns
      <3>. QED BY Zenon, <2>1, <2>2, <2>3, <2>4, <3>1, <3>2, ServeCases DEF Errors
    <2>6. CASE /\ Reply("initMain", "init", ReplyTo(r)) /\ served' = served \cup {r}
               /\ UNCHANGED pc
      <3>1. Quiet("initMain")' /\ (Quiet("init") => Only("init", ReplyTo(r))')
        <4>1. \E n : Only("initMain", n)
          BY Zenon, <2>3
        <4>. QED BY Zenon, <4>1, <2>6, ReplyOne
      <3>2. /\ Missing' = Missing \ {r} /\ Requirements' = Requirements
            /\ pending' = Missing'
        BY Zenon, <2>1, <2>6, RequirementsType DEF InitTurns, Missing
      <3>3. ~Over /\ Listening
        BY Zenon, <2>1 DEF Over, Listening
      <3>4. /\ pc["init"] = "hookAck" => m = "HookRequest"
            /\ pc["init"] = "netAck" => m = "SetupNetworkDeviceReady"
            /\ pc["init"] \in {"earlyAck", "lateAck"} => m = "SeccompNotify"
            /\ pc["init"] \in {"hookAck", "netAck", "earlyAck", "lateAck"}
                 => Missing = Requirements \ Behind(pc["init"])
        BY Zenon, <2>3, <2>4, <3>3 DEF InitTurns, InitTurn
      <3>5. /\ pc["init"] = "hookAck" => InitTurn("hookAck", "HookRequest", "HookDone")'
            /\ pc["init"] = "netAck"
                 => InitTurn("netAck", "SetupNetworkDeviceReady", "MoveNetworkDevice")'
            /\ pc["init"] = "earlyAck"
                 => InitTurn("earlyAck", "SeccompNotify", "SeccompNotifyDone")'
            /\ pc["init"] = "lateAck"
                 => InitTurn("lateAck", "SeccompNotify", "SeccompNotifyDone")'
        BY SMTT(30), <2>1, <2>5, <2>6, <2>r, <3>1, <3>2, <3>4, <1>b, <1>r DEF InitTurns, InitTurn
      <3>. QED
        BY Zenon, <2>1, <2>5, <2>6, <3>1, <3>2, <3>3, <3>5
        DEF InitTurns, Listening, Asked, Complete, Over
    <2>7. CASE Consume("initMain") /\ Goto("main", "cleanup") /\ UNCHANGED served
      <3>1. Same("init") /\ pc'["main"] = "cleanup"
        BY Zenon, <2>7, ConsumeOne DEF Goto, TypeOK
      <3>2. Requirements' = Requirements
        BY Zenon, <2>1, RequirementsType
      <3>. QED
        BY Zenon, <2>1, <2>3, <2>4, <2>5, <2>7, <2>r, <3>1, <3>2, <1>b, <1>r, <1>s
        DEF InitTurns, InitTurn, Listening, Asked, Complete, Over
    <2>. QED BY Zenon, <1>3, <2>m, <2>r, <2>6, <2>7 DEF MainServe
  <1>4. CASE MainInitReady
    <2>1. /\ UNCHANGED args /\ pc["main"] = "serve" /\ Readable("initMain")
          /\ Received("initMain") = "InitReady" /\ Accepts("InitReady")
          /\ served' = served \cup {"Ready"}
          /\ pc'["init"] = pc["init"] /\ pc'["inter"] = pc["inter"] /\ pc'["main"] = "wait"
      BY Zenon, <1>4 DEF MainInitReady, Goto, TypeOK
    <2>2. Only("initMain", "InitReady") /\ \A n : Only("initMain", n) => n = "InitReady"
      BY Zenon, <2>1, ServeCases, OneMessage
    <2>3. ~Quiet("initMain")
      BY Zenon, <2>2, OneMessage
    <2>4. Quiet("init") /\ pc["init"] # "none"
      BY Zenon, <2>1, <2>2, <2>3, ServeCases
    <2>5. Same("init") /\ Quiet("initMain")'
      BY Zenon, <1>4, <2>2, ConsumeOne DEF MainInitReady
    <2>6. Missing \subseteq {"Ready"}
      <3>1. Owed("InitReady") /\ Missing \subseteq InitRequest
        BY Zenon, <2>1, AcceptsOwed, RequirementsType DEF Missing
      <3>. QED BY SMTT(30), <3>1, <1>r DEF Owed, InitRequest, Phase
    <2>7. Missing' = {} /\ Requirements' = Requirements
      BY Zenon, <2>1, <2>6, RequirementsType DEF Missing
    <2>8. pc["init"] \in {"closeMain", "notify", "started", "payload", "exited"}
      BY Zenon, <2>1, <2>2, <2>3, <1>t
      DEF InitTurns, InitTurn, InitPc, Listening, Over, Complete
    <2>9. "init" \in holders'["initMain"] <=> "init" \in holders["initMain"]
      BY Zenon, <1>4 DEF MainInitReady, Close, TypeOK
    <2>. QED
      BY Zenon, <2>1, <2>4, <2>5, <2>7, <2>8, <2>9, <1>s
      DEF InitTurns, Listening, Asked, Complete, Over
  <1>5. CASE MainServeError
    <2>1. /\ UNCHANGED <<args, holders, served, pending>> /\ pc["main"] = "serve"
          /\ Readable("initMain") /\ ~Accepts(Received("initMain"))
          /\ pc'["init"] = pc["init"] /\ pc'["inter"] = pc["inter"]
          /\ pc'["main"] = "cleanup"
      BY Zenon, <1>5 DEF MainServeError, Goto, TypeOK
    <2>2. pc["init"] \in {"none", "exited"}
      BY Zenon, <2>1, ServeCases, OneMessage
    <2>3. pc["init"] = "none" => Quiet("initMain") /\ Quiet("init")
      BY Zenon DEF InitTurns
    <2>4. Same("init") /\ (Quiet("initMain") => Quiet("initMain")')
      BY Zenon, <1>5, ConsumeOne DEF MainServeError
    <2>. QED
      BY Zenon, <2>1, <2>2, <2>3, <2>4, <1>s DEF InitTurns, Listening, Asked, Complete, Over
  <1>. QED BY Zenon, <1>1, <1>2, <1>3, <1>4, <1>5

\* Where the init process goes once a request of its is behind it.
LEMMA BehindSteps ==
    /\ Behind("closing") = {} /\ Behind("setup") = {} /\ Behind("hookAck") = {}
    /\ Behind("pivot") = {"Hooks"} /\ Behind("netAck") = {"Hooks"}
    /\ Behind("early") = {"Hooks", "Network"} /\ Behind("earlyAck") = {"Hooks", "Network"}
    /\ Behind("caps") = IF args.noNewPrivs = "some" THEN {"Hooks", "Network"}
                        ELSE {"Hooks", "Network", "Seccomp"}
    /\ Behind("lateAck") = Behind("caps")
    /\ Behind("ready") = {"Hooks", "Network", "Seccomp"}
  BY Zenon DEF Behind

\* The init process asks,
LEMMA InitRequests ==
    ASSUME TypeOK, InitTurns, NEW l, NEW m, NEW wait,
           pc["init"] = l, Send("initMain", m), Goto("init", wait),
           UNCHANGED <<args, holders, served, pending>>,
           l \in {"setup", "pivot", "early", "caps"},
           \/ wait = "hookAck" /\ m = "HookRequest"
           \/ wait = "netAck" /\ m = "SetupNetworkDeviceReady"
           \/ wait = "earlyAck" /\ m = "SeccompNotify" /\ args.noNewPrivs = "none"
           \/ wait = "lateAck" /\ m = "SeccompNotify" /\ args.noNewPrivs = "some",
           RequestOf(m) \in Requirements,
           Behind(wait) = Behind(l)
    PROVE  InitTurns'
PROOF
  <1>. USE DEF Proc, Child, Chan
  <1>1. pc'["main"] = pc["main"] /\ pc'["inter"] = pc["inter"] /\ pc'["init"] = wait
    BY Zenon DEF Goto, TypeOK
  <1>2. Requirements' = Requirements /\ Missing' = Missing
    BY Zenon, RequirementsType DEF Missing
  <1>3. \A k : Behind(k)' = Behind(k)
    BY Zenon DEF Behind
  <1>4. Same("init") /\ (Quiet("initMain") => Only("initMain", m)')
    BY Zenon, SendOne
  <1>5. /\ Quiet("init")'
        /\ \/ Over
           \/ Listening /\ Only("initMain", m)' /\ Missing = Requirements \ Behind(l)
    BY Zenon, <1>4, SameMessage DEF InitTurns
  <1>6. \A a : InitTurn(wait, m, a)'
    BY Zenon, <1>1, <1>2, <1>3, <1>5 DEF InitTurn, Listening, Over
  <1>. QED
    BY Zenon, <1>1, <1>2, <1>5, <1>6 DEF InitTurns, Listening, Asked, Complete, Over

\* or goes on when the spec calls for nothing here.
LEMMA InitGoesOn ==
    ASSUME TypeOK, InitTurns, NEW l, NEW next,
           pc["init"] = l, Goto("init", next),
           UNCHANGED <<args, queue, holders, served, pending>>,
           l \in {"setup", "pivot", "early", "caps"},
           next \in {"pivot", "early", "caps", "ready"},
           Requirements \ Behind(next) = Requirements \ Behind(l)
    PROVE  InitTurns'
PROOF
  <1>. USE DEF Proc, Child, Chan
  <1>1. pc'["main"] = pc["main"] /\ pc'["inter"] = pc["inter"] /\ pc'["init"] = next
    BY Zenon DEF Goto, TypeOK
  <1>2. Requirements' = Requirements /\ Missing' = Missing
    BY Zenon, RequirementsType DEF Missing
  <1>3. \A k : Behind(k)' = Behind(k)
    BY Zenon DEF Behind
  <1>4. Same("init") /\ Same("initMain")
    BY Zenon DEF Same
  <1>5. /\ Quiet("init")'
        /\ \/ Over
           \/ Listening /\ Quiet("initMain")' /\ Missing = Requirements \ Behind(l)
    BY Zenon, <1>4, SameMessage DEF InitTurns
  <1>. QED
    BY Zenon, <1>1, <1>2, <1>3, <1>5 DEF InitTurns, Listening, Asked, Complete, Over

\* The init process has its answer, or finds that the main process gave up.
LEMMA InitAwaits ==
    ASSUME TypeOK, InitTurns, NEW l, NEW m, NEW a \in ReplyMsg, NEW next,
           InitAwait(l, a, next),
           l \in {"hookAck", "netAck", "earlyAck", "lateAck"}, InitTurn(l, m, a),
           next \in {"pivot", "early", "caps", "ready"},
           Requirements \ (Behind(l) \cup {RequestOf(m)}) = Requirements \ Behind(next)
    PROVE  InitTurns' /\ (Received("init") = a \/ Received("init") \in Errors)
PROOF
  <1>. USE DEF Proc, Child, Chan
  <1>1. /\ UNCHANGED <<args, served, pending>> /\ pc["init"] = l /\ Readable("init")
        /\ pc'["main"] = pc["main"] /\ pc'["inter"] = pc["inter"]
        /\ pc'["init"] = IF Received("init") = a THEN next ELSE "exited"
    BY Zenon DEF InitAwait, Goto, TypeOK
  <1>2. Requirements' = Requirements /\ Missing' = Missing
    BY Zenon, <1>1, RequirementsType DEF Missing
  <1>3. \A k : Behind(k)' = Behind(k)
    BY Zenon, <1>1 DEF Behind
  <1>4. CASE Quiet("init")
    <2>1. Over
      BY Zenon, <1>1, <1>4, OneMessage DEF InitTurn, InitTurns, Readable, Quiet, Listening
    <2>2. Received("init") = "BrokenChannel"
      BY Zenon, <1>4, OneMessage
    <2>3. pc'["init"] = "exited"
      BY Zenon, <1>1, <2>2 DEF ReplyMsg
    <2>. QED
      BY Zenon, <1>1, <2>1, <2>2, <2>3 DEF InitTurns, Listening, Asked, Complete, Over, Errors
  <1>5. CASE ~Quiet("init")
    <2>1. /\ pc["main"] = "serve" /\ Quiet("initMain") /\ Only("init", a)
          /\ Missing = Requirements \ Behind(next)
      BY Zenon, <1>5 DEF InitTurn
    <2>2. Received("init") = a
      BY Zenon, <2>1, OneMessage
    <2>3. Consume("init") /\ UNCHANGED holders /\ pc'["init"] = next
      BY Zenon, <1>1, <2>2 DEF InitAwait
    <2>4. Same("initMain") /\ Quiet("init")'
      BY Zenon, <2>1, <2>3, ConsumeOne
    <2>5. Quiet("initMain")'
      BY Zenon, <2>1, <2>4, SameMessage
    <2>. QED
      BY Zenon, <1>1, <1>2, <1>3, <2>1, <2>2, <2>3, <2>4, <2>5
      DEF InitTurns, Listening, Asked, Complete, Over
  <1>. QED BY Zenon, <1>4, <1>5

\* The steps of the init process.
LEMMA InitSteps ==
    ASSUME TypeOK, InitTurns, InitProcess
    PROVE  InitTurns' /\ (surprised = {} => surprised' = {})
PROOF
  <1>. USE DEF Proc, Child, Chan
  <1>a. args.noNewPrivs \in {"none", "some"}
    BY Zenon, SpecsAssumption DEF TypeOK, ContainerArgs
  <1>n. /\ RequestOf("HookRequest") = "Hooks"
        /\ RequestOf("SetupNetworkDeviceReady") = "Network"
        /\ RequestOf("SeccompNotify") = "Seccomp"
        /\ {"HookDone", "MoveNetworkDevice", "SeccompNotifyDone"} \subseteq ReplyMsg
    BY Zenon DEF RequestOf, ReplyMsg
  <1>r. /\ "Hooks" \in Requirements <=> args.kind = "init" /\ args.hooks
        /\ "Network" \in Requirements <=> args.netDevices = "some"
        /\ "Seccomp" \in Requirements <=> args.seccomp = "notify"
    BY Zenon DEF Requirements
  <1>s. \A c \in Chan : Same(c) => /\ Quiet(c)' <=> Quiet(c)
                                   /\ \A m : Only(c, m)' <=> Only(c, m)
    BY Zenon, SameMessage
  <1>q. UNCHANGED queue => \A c \in Chan : Same(c)
    BY Zenon DEF Same
  <1>1. CASE InitClose
    <2>1. /\ UNCHANGED <<args, served, pending, surprised>> /\ Same("init")
          /\ Same("initMain")
          /\ pc["init"] = "closing" /\ pc'["init"] = "setup"
          /\ pc'["main"] = pc["main"] /\ pc'["inter"] = pc["inter"]
      BY Zenon, <1>1, <1>q DEF InitClose, Goto, TypeOK
    <2>2. /\ "main" \in holders["init"] => "main" \in holders'["init"]
          /\ holders'["initMain"] = holders["initMain"]
      BY Zenon, <1>1 DEF InitClose, Close, TypeOK
    <2>3. /\ Requirements' = Requirements /\ Missing' = Missing
          /\ Behind("setup")' = {} /\ Behind("closing") = {}
      BY Zenon, <2>1, RequirementsType DEF Missing, Behind
    <2>. QED
      BY Zenon, <2>1, <2>2, <2>3, <1>s DEF InitTurns, Listening, Asked, Complete, Over
  <1>2. CASE InitSetup
    <2>1. InitTurns'
      BY SMTT(30), <1>2, <1>n, <1>r, BehindSteps, InitRequests, InitGoesOn
      DEF InitSetup, InitAsk
    <2>. QED BY Zenon, <1>2, <2>1 DEF InitSetup, InitAsk
  <1>3. CASE InitPivot
    <2>1. InitTurns'
      BY SMTT(30), <1>3, <1>n, <1>r, BehindSteps, InitRequests, InitGoesOn
      DEF InitPivot, InitAsk
    <2>. QED BY Zenon, <1>3, <2>1 DEF InitPivot, InitAsk
  <1>4. CASE InitEarlyFilter
    <2>1. InitTurns'
      BY SMTT(30), <1>4, <1>n, <1>r, <1>a, BehindSteps, InitRequests, InitGoesOn
      DEF InitEarlyFilter, InitFilter, InitAsk
    <2>. QED BY Zenon, <1>4, <2>1 DEF InitEarlyFilter, InitFilter, InitAsk
  <1>5. CASE InitLateFilter
    <2>1. InitTurns'
      BY SMTT(30), <1>5, <1>n, <1>r, <1>a, BehindSteps, InitRequests, InitGoesOn
      DEF InitLateFilter, InitFilter, InitAsk
    <2>. QED BY Zenon, <1>5, <2>1 DEF InitLateFilter, InitFilter, InitAsk
  <1>6. CASE InitHooksDone
    BY SMTT(30), <1>6, <1>n, BehindSteps, InitAwaits DEF InitHooksDone, InitTurns, InitAwait, Note
  <1>7. CASE InitNetworkMoved
    BY SMTT(30), <1>7, <1>n, BehindSteps, InitAwaits DEF InitNetworkMoved, InitTurns, InitAwait, Note
  <1>8. CASE InitEarlyDone
    BY SMTT(30), <1>8, <1>n, BehindSteps, InitAwaits DEF InitEarlyDone, InitTurns, InitAwait, Note
  <1>9. CASE InitLateDone
    BY SMTT(30), <1>9, <1>n, BehindSteps, InitAwaits DEF InitLateDone, InitTurns, InitAwait, Note
  <1>10. CASE InitReady
    <2>1. /\ UNCHANGED <<args, holders, served, pending, surprised>>
          /\ Send("initMain", "InitReady")
          /\ pc["init"] = "ready" /\ pc'["init"] = "closeMain"
          /\ pc'["main"] = pc["main"] /\ pc'["inter"] = pc["inter"]
      BY Zenon, <1>10 DEF InitReady, InitAsk, Goto, TypeOK
    <2>2. Same("init") /\ (Quiet("initMain") => Only("initMain", "InitReady")')
      BY Zenon, <2>1, SendOne
    <2>3. Requirements' = Requirements /\ Missing' = Missing
      BY Zenon, <2>1, RequirementsType DEF Missing
    <2>4. Requirements \ Behind("ready") = {"Ready"}
      BY Zenon, BehindSteps, RequirementsType DEF InitRequest
    <2>. QED
      BY Zenon, <2>1, <2>2, <2>3, <2>4, <1>s DEF InitTurns, Listening, Asked, Complete, Over
  <1>11. CASE InitCloseMain \/ InitStarted \/ InitExec
    <2>1. /\ UNCHANGED <<args, served, pending, surprised>> /\ Same("init")
          /\ Same("initMain")
          /\ pc["init"] \in {"closeMain", "notify", "started"}
          /\ pc'["init"] \in {"notify", "started", "payload"}
          /\ pc'["main"] = pc["main"] /\ pc'["inter"] = pc["inter"]
      BY Zenon, <1>11, <1>q DEF InitCloseMain, InitStarted, InitExec, Goto, TypeOK
    <2>2. /\ "main" \in holders["init"] => "main" \in holders'["init"]
          /\ "init" \notin holders'["initMain"]
      BY SMTT(30), <1>11 DEF InitCloseMain, InitStarted, InitExec, Close, TypeOK, InitTurns
    <2>3. Requirements' = Requirements /\ Missing' = Missing
      BY Zenon, <2>1, RequirementsType DEF Missing
    <2>. QED
      BY SMTT(30), <2>1, <2>2, <2>3, <1>s DEF InitTurns, Listening, Asked, Complete, Over
  <1>12. CASE InitFail
    <2>1. /\ UNCHANGED <<args, served, pending, surprised>>
          /\ pc["init"] \in {"setup", "pivot", "early", "caps", "ready", "started"}
          /\ pc'["init"] = "exited"
          /\ pc'["main"] = pc["main"] /\ pc'["inter"] = pc["inter"]
      BY Zenon, <1>12 DEF InitFail, Goto, TypeOK
    <2>2. "main" \in holders["init"] => "main" \in holders'["init"]
      BY Zenon, <1>12 DEF InitFail, Gone, TypeOK
    <2>3. CASE pc["init"] = "started"
      <3>1. Same("init") /\ Same("initMain")
        BY Zenon, <1>12, <2>3, <1>q DEF InitFail, InitTurns
      <3>. QED BY Zenon, <2>1, <2>2, <2>3, <3>1, InitGone DEF Listening
    <2>4. CASE pc["init"] # "started"
      <3>1. Same("init") /\ (Quiet("initMain") => Only("initMain", "ExecFailed")')
        BY Zenon, <1>12, <2>1, <2>4, SendOne DEF InitFail, InitTurns
      <3>2. Requirements' = Requirements /\ Missing' = Missing
        BY Zenon, <2>1, RequirementsType DEF Missing
      <3>. QED
        BY Zenon, <2>1, <2>2, <2>4, <3>1, <3>2, <1>s
        DEF InitTurns, Listening, Asked, Complete, Over
    <2>. QED BY Zenon, <2>3, <2>4
  <1>. QED
    BY Zenon, <1>1, <1>2, <1>3, <1>4, <1>5, <1>6, <1>7, <1>8, <1>9, <1>10, <1>11, <1>12
    DEF InitProcess

\* Every other step of the system.
LEMMA InitRest ==
    ASSUME TypeOK, BornInv, InterTurns, InitTurns,
           \/ MainClose \/ MainMap \/ MainTime \/ MainDrop \/ MainWait \/ MainRecord
           \/ MainRecordError \/ MainCleanup \/ MainKill \/ MainGiveUp
           \/ Inter \/ NotifyContainerStart \/ \E p \in Child : Crash(p)
           \/ UNCHANGED vars
    PROVE  InitTurns'
PROOF
  <1>. USE DEF Proc, Child, Chan
  <1>q. UNCHANGED queue => \A c \in Chan : Same(c)
    BY Zenon DEF Same
  <1>s. \A c \in Chan : Same(c) => /\ Quiet(c)' <=> Quiet(c)
                                   /\ \A m : Only(c, m)' <=> Only(c, m)
    BY Zenon, SameMessage
  <1>i. pc["init"] # "none" => pc["inter"] \in {"ready", "closing", "exited"}
    BY Zenon DEF InitTurns
  <1>g. \A P : Gone(P) /\ "main" \notin P =>
          /\ "main" \in holders["init"] => "main" \in holders'["init"]
          /\ "init" \notin P =>
               ("init" \in holders'["initMain"] <=> "init" \in holders["initMain"])
    BY SMTT(30) DEF Gone, TypeOK
  <1>1. CASE MainClose \/ MainDrop
    <2>1. /\ UNCHANGED <<args, served, pending>> /\ Same("init") /\ Same("initMain")
          /\ pc'["init"] = pc["init"] /\ pc'["inter"] = pc["inter"]
          /\ ~Asked /\ ~Over /\ Listening /\ Listening' /\ ~Asked'
      BY Zenon, <1>1, <1>q
      DEF MainClose, MainDrop, Goto, TypeOK, Asked, Over, Listening, Complete
    <2>2. /\ "main" \in holders["init"] => "main" \in holders'["init"]
          /\ "init" \in holders'["initMain"] <=> "init" \in holders["initMain"]
      BY SMTT(30), <1>1 DEF MainClose, MainDrop, Close, TypeOK
    <2>. QED BY Zenon, <2>1, <2>2, <1>i, InitElsewhere
  <1>2. ASSUME NEW l \in {"map", "time"}, NEW w, MainRecvError(l, "interMain", w)
        PROVE  InitTurns'
    <2>1. Same("init") /\ Same("initMain")
      BY Zenon, <1>2, ConsumeOne DEF MainRecvError
    <2>2. /\ UNCHANGED <<args, served, pending, holders>>
          /\ pc'["init"] = pc["init"] /\ pc'["inter"] = pc["inter"]
          /\ ~Asked /\ ~Over /\ Over' /\ ~Listening'
      BY Zenon, <1>2 DEF MainRecvError, Goto, TypeOK, Asked, Over, Listening, Complete
    <2>. QED BY Zenon, <2>1, <2>2, <1>i, InitElsewhere
  <1>3. ASSUME NEW l \in {"map", "time"}, NEW w, NEW d \in {"Mapping", "Offsets"}, NEW a,
               NEW n \in {"time", "drop"}, MainWrite(l, w, d, a, n)
        PROVE  InitTurns'
    <2>1. Same("init") /\ Same("initMain")
      BY Zenon, <1>3, ConsumeOne, ReplyOne DEF MainWrite
    <2>2. /\ UNCHANGED <<args, pending, holders>>
          /\ pc'["init"] = pc["init"] /\ pc'["inter"] = pc["inter"]
          /\ ~Asked /\ ~Over /\ Listening /\ (Over' \/ (Listening' /\ ~Asked'))
      BY Zenon, <1>3 DEF MainWrite, Goto, TypeOK, Asked, Over, Listening, Complete
    <2>3. served' \cap InitRequest = served \cap InitRequest
      BY Zenon, <1>3 DEF MainWrite, InitRequest
    <2>. QED BY Zenon, <2>1, <2>2, <2>3, <1>i, InitElsewhere
  <1>4. CASE MainMap
    BY Zenon, <1>4, <1>2, <1>3 DEF MainMap
  <1>5. CASE MainTime
    BY Zenon, <1>5, <1>2, <1>3 DEF MainTime
  <1>6. CASE MainWait \/ MainRecord \/ MainRecordError \/ MainCleanup \/ MainGiveUp
    <2>1. /\ UNCHANGED <<args, served, pending>> /\ Same("init") /\ Same("initMain")
          /\ pc'["init"] = pc["init"] /\ pc'["inter"] = pc["inter"]
          /\ \/ Complete /\ (Complete' \/ Over')
             \/ Over /\ Over'
          /\ ~Listening'
      BY SMTT(30), <1>6, <1>q
      DEF MainWait, MainRecord, MainRecordError, MainCleanup, MainGiveUp, Goto, TypeOK,
          Complete, Over, Listening
    <2>2. "init" \in holders'["initMain"] <=> "init" \in holders["initMain"]
      BY SMTT(30), <1>6
      DEF MainWait, MainRecord, MainRecordError, MainCleanup, MainGiveUp, Close, TypeOK
    <2>. QED BY Zenon, <2>1, <2>2, <1>i, InitElsewhere
  <1>7. CASE MainKill
    <2>1. /\ UNCHANGED <<args, served, pending>> /\ Same("init") /\ Same("initMain")
          /\ Over /\ Over' /\ ~Listening'
          /\ pc'["init"] = IF "init" \in victims THEN "exited" ELSE pc["init"]
          /\ pc'["inter"] = IF "inter" \in victims THEN "exited" ELSE pc["inter"]
      BY Zenon, <1>7, <1>q DEF MainKill, TypeOK, Over, Listening
    <2>2. CASE "init" \in victims
      <3>1. pc["init"] # "none"
        BY Zenon, <2>2 DEF BornInv
      <3>. QED BY Zenon, <2>1, <2>2, <3>1, InitGone
    <2>3. CASE "init" \notin victims
      <3>1. "init" \in holders'["initMain"] <=> "init" \in holders["initMain"]
        BY Zenon, <1>7, <2>3 DEF MainKill, Gone, TypeOK
      <3>. QED BY Zenon, <2>1, <2>3, <3>1, <1>i, InitElsewhere
    <2>. QED BY Zenon, <2>2, <2>3
  <1>8. CASE InterFork
    <2>1. /\ UNCHANGED <<args, served, pending>> /\ Same("init") /\ Same("initMain")
          /\ pc'["main"] = pc["main"] /\ pc["inter"] = "fork" /\ pc'["inter"] = "ready"
          /\ pc'["init"] = "closing"
      BY Zenon, <1>8, <1>q DEF InterFork, TypeOK
    <2>2. pc["init"] = "none" /\ Quiet("init")' /\ Quiet("initMain")'
      BY Zenon, <2>1, <1>s DEF InitTurns
    <2>3. Listening /\ ~Asked
      BY Zenon, <2>1 DEF InterTurns, ReadyTurn, Listening, Asked, Complete
    <2>4. /\ served' \cap InitRequest = {}
          /\ Missing' = Requirements' /\ Requirements' \ Behind("closing")' = Requirements'
      BY Zenon, <2>1, <2>3, RequirementsType
      DEF InitTurns, Missing, Over, Listening, Asked, Complete, Behind
    <2>5. "main" \in holders'["init"] /\ "init" \in holders'["initMain"]
      BY Zenon, <1>8, <2>1, <2>3 DEF InterFork, InterTurns, InitTurns, TypeOK
    <2>. QED
      BY Zenon, <2>1, <2>2, <2>3, <2>4, <2>5 DEF InitTurns, Listening, Asked, Complete, Over
  <1>9. CASE Inter /\ ~InterFork
    <2>1. /\ UNCHANGED <<args, served, pending>> /\ pc'["main"] = pc["main"]
          /\ pc'["init"] = pc["init"]
          /\ pc["inter"] \in {"ready", "closing", "exited"}
               => pc'["inter"] \in {"ready", "closing", "exited"}
      BY Zenon, <1>9, InterLocal
    <2>2. Same("init") /\ Same("initMain")
      BY Zenon, <1>9, InterLocal
    <2>3. /\ "main" \in holders["init"] => "main" \in holders'["init"]
          /\ "init" \in holders'["initMain"] <=> "init" \in holders["initMain"]
      BY Zenon, <1>9, InterLocal
    <2>4. Listening' <=> Listening
      BY Zenon, <2>1 DEF Listening
    <2>. QED BY Zenon, <2>1, <2>2, <2>3, <2>4, <1>i, InitElsewhere
  <1>10. CASE Crash("init")
    <2>1. /\ UNCHANGED <<args, served, pending>> /\ Same("init") /\ Same("initMain")
          /\ pc'["main"] = pc["main"] /\ pc'["inter"] = pc["inter"]
          /\ pc["init"] # "none" /\ pc'["init"] = "exited"
          /\ "main" \in holders["init"] => "main" \in holders'["init"]
      BY Zenon, <1>10, <1>q, <1>g DEF Crash, Goto, TypeOK
    <2>. QED BY Zenon, <2>1, InitGone DEF Listening
  <1>11. CASE Crash("inter")
    <2>1. /\ UNCHANGED <<args, served, pending>> /\ Same("init") /\ Same("initMain")
          /\ pc'["main"] = pc["main"] /\ pc'["init"] = pc["init"]
          /\ pc'["inter"] = "exited"
          /\ "main" \in holders["init"] => "main" \in holders'["init"]
          /\ "init" \in holders'["initMain"] <=> "init" \in holders["initMain"]
      BY SMTT(30), <1>11, <1>q, <1>g DEF Crash, Goto, TypeOK
    <2>. QED BY Zenon, <2>1, InitElsewhere DEF Listening
  <1>12. CASE NotifyContainerStart \/ UNCHANGED vars
    <2>1. /\ UNCHANGED <<args, served, pending, pc, holders>> /\ Same("init")
          /\ Same("initMain")
      BY Zenon, <1>12, <1>q DEF NotifyContainerStart, vars
    <2>. QED BY Zenon, <2>1, <1>i, InitElsewhere DEF Listening
  <1>. QED
    BY Zenon, <1>1, <1>4, <1>5, <1>6, <1>7, <1>8, <1>9, <1>10, <1>11, <1>12

-----------------------------------------------------------------------------
(* What the dialogues give. *)

\* A message that is not expected is always one of the two error messages.
LEMMA SurpriseStep ==
    ASSUME TypeOK, InterTurns, InitTurns, [Next]_vars, NoSurprise
    PROVE  NoSurprise'
PROOF
  <1>. USE DEF Proc, Child, Chan
  <1>1. CASE MainMap \/ MainTime \/ MainInterReady
    <2>1. ASSUME NEW l, NEW w, MainRecvError(l, "interMain", w),
                 \/ l = "map" /\ w = "WriteMapping"
                 \/ l = "time" /\ w = "WriteTimeOffsets"
                 \/ l = "ready" /\ w = "IntermediateReady"
          PROVE  NoSurprise'
      BY Zenon, <2>1, InterRefused DEF NoSurprise, MainRecvError, Note
    <2>2. ASSUME NEW l, NEW w, NEW d, NEW a, NEW n, MainWrite(l, w, d, a, n)
          PROVE  NoSurprise'
      BY Zenon, <2>2 DEF NoSurprise, MainWrite
    <2>3. CASE MainMap
      BY Zenon, <2>1, <2>2, <2>3 DEF MainMap
    <2>4. CASE MainTime
      BY Zenon, <2>1, <2>2, <2>4 DEF MainTime
    <2>5. CASE MainInterReady
      BY Zenon, <2>1, <2>5 DEF MainInterReady, NoSurprise
    <2>. QED BY Zenon, <1>1, <2>3, <2>4, <2>5
  <1>2. CASE MainServeError
    <2>1. Received("initMain") \in Errors
      BY Zenon, <1>2, ServeCases, OneMessage DEF MainServeError, Errors
    <2>. QED BY Zenon, <1>2, <2>1 DEF MainServeError, Note, NoSurprise
  <1>3. CASE Main /\ ~(MainMap \/ MainTime \/ MainInterReady \/ MainServeError)
    BY Zenon, <1>3
    DEF Main, MainClone, MainClose, MainDrop, MainServe, MainInitReady, MainWait,
        MainRecord, MainRecordError, MainCleanup, MainKill, MainGiveUp, NoSurprise
  <1>4. CASE Inter
    <2>1. ASSUME NEW l, NEW w, NEW n, InterAck(l, w, n),
                 \/ l = "mapAck" /\ w = "MappingWritten"
                 \/ l = "timeAck" /\ w = "TimeOffsetsWritten"
          PROVE  NoSurprise'
      BY Zenon, <2>1, InterAnswered DEF InterAck, NoSurprise
    <2>. QED
      BY Zenon, <1>4, <2>1
      DEF Inter, InterCgroup, InterUserns, InterMapAck, InterTimens, InterTimeAck,
          InterFork, InterReady, InterExit, InterFail, NoSurprise
  <1>5. CASE InitProcess
    BY Zenon, <1>5, InitSteps DEF NoSurprise
  <1>6. CASE NotifyContainerStart \/ (\E p \in Child : Crash(p)) \/ UNCHANGED vars
    BY Zenon, <1>6 DEF NotifyContainerStart, Crash, vars, NoSurprise
  <1>. QED BY Zenon, <1>1, <1>2, <1>3, <1>4, <1>5, <1>6 DEF Next, Idle

\* Cleanup finds every living child in the cgroup, and none is born after it.
LEMMA CleanStep ==
    ASSUME TypeOK, TypeOK', BornInv, InterTurns, InitTurns, CleanInv, [Next]_vars
    PROVE  CleanInv'
PROOF
  <1>. USE DEF Proc, Child, Chan
  <1>1. CASE MainCleanup
    <2>1. /\ pc["main"] = "cleanup" /\ pc'["main"] = "kill" /\ victims' = cgroup
          /\ UNCHANGED args /\ \A p \in Child : pc'[p] = pc[p]
      BY Zenon, <1>1 DEF MainCleanup, Goto, TypeOK
    <2>2. pc["inter"] # "start"
      BY Zenon, <2>1 DEF InterTurns, FirstTurn, SecondTurn, MapTurn, TimeTurn, ReadyTurn
    <2>3. ~args.rootless => Living \subseteq cgroup
      BY Zenon, <2>2 DEF BornInv, InitBornReady, Living
    <2>. QED BY Zenon, <2>1, <2>3 DEF CleanInv, FailedCreateLeavesNothing, Living
  <1>2. CASE MainKill
    <2>1. /\ pc["main"] = "kill" /\ pc'["main"] = "failed" /\ state' = "Removed"
          /\ UNCHANGED args
          /\ \A p \in Child : pc'[p] = IF p \in victims THEN "exited" ELSE pc[p]
      BY Zenon, <1>2 DEF MainKill, TypeOK
    <2>. QED BY Zenon, <2>1 DEF CleanInv, FailedCreateLeavesNothing, Living
  <1>3. CASE MainGiveUp
    <2>1. /\ pc'["main"] \in {"failed", "uncleaned"} /\ UNCHANGED args
          /\ pc'["main"] = "failed" => args.kind = "tenant"
      BY Zenon, <1>3 DEF MainGiveUp, Goto, TypeOK
    <2>. QED BY Zenon, <2>1 DEF CleanInv, FailedCreateLeavesNothing
  <1>4. CASE Main /\ ~(MainCleanup \/ MainKill \/ MainGiveUp)
    <2>1. pc'["main"] \notin {"kill", "failed"}
      BY Zenon, <1>4
      DEF Main, MainClone, MainClose, MainMap, MainTime, MainDrop, MainInterReady,
          MainServe, MainInitReady, MainServeError, MainWait, MainRecord,
          MainRecordError, MainWrite, MainRecvError, Goto, TypeOK
    <2>. QED BY Zenon, <2>1 DEF CleanInv, FailedCreateLeavesNothing
  <1>5. CASE \/ Inter \/ InitProcess \/ NotifyContainerStart
             \/ (\E p \in Child : Crash(p)) \/ UNCHANGED vars
    <2>1. CASE InterFork
      <3>1. pc'["main"] = pc["main"] /\ pc["main"] \notin {"kill", "failed"}
        BY Zenon, <2>1 DEF InterFork, InterTurns, ReadyTurn, TypeOK
      <3>. QED BY Zenon, <3>1 DEF CleanInv, FailedCreateLeavesNothing
    <2>2. CASE ~InterFork
      <3>1. /\ UNCHANGED <<args, victims, state>> /\ pc'["main"] = pc["main"]
            /\ \A p \in Child : pc[p] \in {"none", "exited"}
                 => pc'[p] \in {"none", "exited"}
        <4>1. CASE Inter
          BY Zenon, <2>2, <4>1, InterLocal
        <4>2. CASE InitProcess
          BY Zenon, <4>2, InitLocal
        <4>3. ASSUME NEW p \in Child, Crash(p)
              PROVE  /\ UNCHANGED <<args, victims, state>> /\ pc'["main"] = pc["main"]
                     /\ \A q \in Child : pc[q] \in {"none", "exited"}
                          => pc'[q] \in {"none", "exited"}
          BY Zenon, <4>3 DEF Crash, Goto, TypeOK
        <4>4. CASE NotifyContainerStart \/ UNCHANGED vars
          BY Zenon, <4>4 DEF NotifyContainerStart, vars
        <4>. QED BY Zenon, <1>5, <4>1, <4>2, <4>3, <4>4
      <3>. QED BY Zenon, <3>1 DEF CleanInv, FailedCreateLeavesNothing, Living
    <2>. QED BY Zenon, <2>1, <2>2
  <1>. QED BY Zenon, <1>1, <1>2, <1>3, <1>4, <1>5 DEF Next, Main, Idle

\* Both dialogues, and what cleanup relies on, are inductive with BornInv.
LEMMA DialogueInvariance ==
    Spec => [](InterTurns /\ InitTurns /\ NoSurprise /\ CleanInv)
PROOF
  <1>1. Init => InterTurns /\ InitTurns /\ NoSurprise /\ CleanInv
    <2>. SUFFICES ASSUME Init PROVE InterTurns /\ InitTurns /\ NoSurprise /\ CleanInv
      BY Zenon
    <2>1. /\ pc["main"] = "clone" /\ pc["inter"] = "none" /\ pc["init"] = "none"
          /\ \A c \in Chan : Quiet(c)
      BY Zenon DEF Init, Quiet, Proc, Child
    <2>2. served = {} /\ surprised = {}
      BY Zenon DEF Init
    <2>. QED
      BY Zenon, <2>1, <2>2
      DEF InterTurns, InitTurns, NoSurprise, CleanInv, FailedCreateLeavesNothing, Over,
          Asked, Complete, Listening, Chan
  <1>2. /\ TypeOK /\ BornInv /\ InterTurns /\ InitTurns /\ NoSurprise /\ CleanInv
        /\ [Next]_vars /\ TypeOK'
        => (InterTurns /\ InitTurns /\ NoSurprise /\ CleanInv)'
    <2>. SUFFICES ASSUME TypeOK, BornInv, InterTurns, InitTurns, NoSurprise, CleanInv,
                         [Next]_vars, TypeOK'
                  PROVE  (InterTurns /\ InitTurns /\ NoSurprise /\ CleanInv)'
      BY Zenon
    <2>1. InterTurns'
      BY Zenon, InterMain, InterSteps, InterRest DEF Next, Main, Idle
    <2>2. InitTurns'
      BY Zenon, InitMain, InitSteps, InitRest DEF Next, Main, Idle
    <2>. QED BY Zenon, <2>1, <2>2, SurpriseStep, CleanStep
  <1>. QED BY <1>1, <1>2, TypeCorrect, BornInvariance, PTL DEF Spec

\* For every container_args: no process of a create or an exec receives a
\* message it does not expect, so what the children ask for and what the main
\* process derives from the spec always agree.
THEOREM NobodyIsSurprised == Spec => []NoSurprise
  BY DialogueInvariance, PTL

\* For every container_args: a create that succeeds has served every request
\* its spec calls for, and leaves every channel empty.
THEOREM CreateIsComplete == Spec => []CreatedIsComplete
PROOF
  <1>1. TypeOK /\ InterTurns /\ InitTurns => CreatedIsComplete
    <2>. SUFFICES ASSUME TypeOK, InterTurns, InitTurns, Complete
                  PROVE  Requirements \subseteq served /\ \A c \in Chan : queue[c] = <<>>
      BY Zenon DEF CreatedIsComplete, Complete
    <2>1. Requirements \subseteq served
      BY Zenon DEF InitTurns, Missing
    <2>2. Quiet("interMain") /\ Quiet("inter")
      BY Zenon DEF TypeOK, InterPc, InterTurns, Turn, FirstTurn, SecondTurn, MapTurn, TimeTurn,
             ReadyTurn, Over, Asked, Complete
    <2>3. Quiet("initMain") /\ Quiet("init")
      BY Zenon DEF TypeOK, InitPc, InitTurns, InitTurn, Over, Asked, Complete, Listening
    <2>. QED BY Zenon, <2>1, <2>2, <2>3 DEF Quiet, Chan
  <1>. QED BY <1>1, TypeCorrect, DialogueInvariance, PTL

\* For every container_args: when the create of an init container fails and its
\* cgroup manager could be made, no child is left and the container directory is
\* gone, although cleanup kills only the pids it read beforehand.
THEOREM FailureLeavesNothing == Spec => []FailedCreateLeavesNothing
PROOF
  <1>1. CleanInv => FailedCreateLeavesNothing
    BY Zenon DEF CleanInv
  <1>. QED BY <1>1, DialogueInvariance, PTL

=============================================================================
