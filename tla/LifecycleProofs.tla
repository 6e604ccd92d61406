-------------------------- MODULE LifecycleProofs --------------------------
(***************************************************************************)
(* Lifecycle, for any number of commands and of creates: the type          *)
(* invariant, NoOrphan, that the commands implement ContainerLife, and     *)
(* that what is reported of a container between two commands is the truth. *)
(***************************************************************************)
EXTENDS Lifecycle, TLAPS

(* What the steps of a command do to its record, and to nobody else's. *)

\* A command moves on within its own record.
LEMMA GotoLocal ==
    ASSUME loc \in [Cmds -> Local], NEW c \in Cmds, NEW l \in Pc, Goto(c, l)
    PROVE  /\ loc' \in [Cmds -> Local]
           /\ loc'[c].pc = l /\ loc'[c].op = loc[c].op
           /\ loc'[c].pid = loc[c].pid /\ loc'[c].status = loc[c].status
           /\ \A d \in Cmds : d # c => loc'[d] = loc[d]
  BY Zenon DEF Goto, Local

\* A command returns; its record is that of an idle one.
LEMMA ExitLocal ==
    ASSUME loc \in [Cmds -> Local], NEW c \in Cmds, Exit(c)
    PROVE  /\ loc' \in [Cmds -> Local]
           /\ loc'[c] = Idle
           /\ \A d \in Cmds : d # c => loc'[d] = loc[d]
  BY Zenon DEF Exit, Local, Idle, AllOps, Pc, Status

\* A command turns to saving a status.
LEMMA SaveLocal ==
    ASSUME loc \in [Cmds -> Local], NEW c \in Cmds, NEW s \in Status, Save(c, s)
    PROVE  /\ loc' \in [Cmds -> Local]
           /\ loc'[c].pc = "open" /\ loc'[c].op = loc[c].op
           /\ loc'[c].pid = loc[c].pid /\ loc'[c].status = s
           /\ \A d \in Cmds : d # c => loc'[d] = loc[d]
  BY ZenonT(30) DEF Save, Local, Pc

\* A command's record is replaced by another one.
LEMMA SetLocal ==
    ASSUME loc \in [Cmds -> Local], NEW c \in Cmds, NEW r \in Local,
           loc' = [loc EXCEPT ![c] = r]
    PROVE  /\ loc' \in [Cmds -> Local]
           /\ loc'[c] = r
           /\ \A d \in Cmds : d # c => loc'[d] = loc[d]
  BY Zenon

\* A refreshed status is one of the statuses (Container::refresh_status).
LEMMA RefreshStatus ==
    ASSUME NEW s \in Status, NEW p PROVE Refresh(s, p) \in Status
  BY Zenon DEF Refresh, Status

\* A command begins: a create with the next pid and, if it is to be left alone,
\* with nobody else about.
LEMMA BeginLocal ==
    ASSUME TypeOK, NEW c \in Cmds, Begin(c)
    PROVE  /\ loc' \in [Cmds -> Local]
           /\ \A d \in Cmds : d # c => loc'[d] = loc[d]
           /\ creates' \in 0..MaxCreates
           /\ IF loc'[c].op = "create"
              THEN /\ loc'[c].pc = "exists" /\ loc'[c].pid = creates'
                   /\ creates' = creates + 1 /\ creates' \in Pids
              ELSE loc'[c].pc = "load" /\ creates' = creates
           /\ env.alone => \A d \in Cmds : loc[d].pc # "idle" =>
                              loc'[c].op # "create" /\ loc[d].op # "create"
<1>1. /\ env.ops \subseteq AllOps
      /\ env.signals \subseteq {"KILL", "TERM"}
      /\ env.creates \in 0..MaxCreates
  BY Zenon, LifecycleAssumption DEF TypeOK, Environment
<1> DEFINE r(op, sig, flag) ==
      [Idle EXCEPT !.op = op, !.sig = sig, !.flag = flag,
                   !.pc = IF op = "create" THEN "exists" ELSE "load",
                   !.pid = IF op = "create" THEN creates' ELSE None]
<1>2. PICK op \in env.ops, sig \in env.signals \cup {"KILL"}, flag \in BOOLEAN :
        /\ op = "create" => creates < env.creates
        /\ env.alone => \A d \in Cmds : loc[d].pc # "idle" =>
                            op # "create" /\ loc[d].op # "create"
        /\ creates' = IF op = "create" THEN creates + 1 ELSE creates
        /\ loc' = [loc EXCEPT ![c] = r(op, sig, flag)]
  BY ZenonT(60) DEF Begin
<1>3. creates' \in 0..MaxCreates /\ (op = "create" => creates' \in Pids)
  BY SMTT(30), <1>1, <1>2, LifecycleAssumption DEF TypeOK, Pids
<1>4. r(op, sig, flag) \in Local
  BY ZenonT(30), <1>1, <1>3 DEF Local, Idle, Pc, Status
<1>5. /\ loc' \in [Cmds -> Local]
      /\ loc'[c] = r(op, sig, flag)
      /\ \A d \in Cmds : d # c => loc'[d] = loc[d]
  <2> HIDE DEF r
  <2> QED BY Zenon, <1>2, <1>4, SetLocal DEF TypeOK
<1>6. /\ loc'[c].op = op
      /\ loc'[c].pc = IF op = "create" THEN "exists" ELSE "load"
      /\ loc'[c].pid = IF op = "create" THEN creates' ELSE None
  BY Zenon, <1>5 DEF Idle
<1> QED
  BY Zenon, <1>2, <1>3, <1>5, <1>6

\* load_container gives up, or leads to the check of the status.
LEMMA LoadLocal ==
    ASSUME TypeOK, NEW c \in Cmds, Load(c)
    PROVE  /\ loc' \in [Cmds -> Local]
           /\ \A d \in Cmds : d # c => loc'[d] = loc[d]
           /\ loc'[c] = Idle \/ (loc'[c].op = loc[c].op /\ loc'[c].pc = "check")
<1>1. CASE Exit(c)
  BY Zenon, <1>1, ExitLocal DEF TypeOK
<1>2. CASE ~Exit(c)
  <2> DEFINE r == [loc[c] EXCEPT !.pc = "check", !.pid = file.pid,
                                 !.status = Refresh(file.status, file.pid)]
  <2>1. Refresh(file.status, file.pid) \in Status /\ file.pid \in Pids \cup {None}
    BY Zenon, RefreshStatus DEF TypeOK, File
  <2>2. loc[c] \in Local
    BY Zenon DEF TypeOK
  <2>3. r \in Local /\ r.op = loc[c].op /\ r.pc = "check"
    BY Zenon, <2>1, <2>2 DEF Local, Pc
  <2>4. loc' = [loc EXCEPT ![c] = r]
    BY Zenon, <1>2 DEF Load
  <2> HIDE DEF r
  <2> QED
    BY Zenon, <2>3, <2>4, SetLocal DEF TypeOK
<1> QED
  BY Zenon, <1>1, <1>2

\* The check of the status gives up, or leads to an effect.
LEMMA CheckLocal ==
    ASSUME TypeOK, NEW c \in Cmds, Check(c), loc[c].op # "create"
    PROVE  /\ loc' \in [Cmds -> Local]
           /\ \A d \in Cmds : d # c => loc'[d] = loc[d]
           /\ \/ loc'[c] = Idle
              \/ /\ loc'[c].op = loc[c].op
                 /\ loc'[c].pc \in {"connect", "freeze", "kill", "uncgroup", "thaw"}
<1>1. CASE Exit(c)
  BY Zenon, <1>1, ExitLocal DEF TypeOK
<1>2. CASE ~Exit(c)
  <2> DEFINE s == Refresh(loc[c].status, loc[c].pid)
             r(l) == [loc[c] EXCEPT !.pc = l, !.status = s]
  <2>1. loc[c] \in Local
    BY Zenon DEF TypeOK
  <2>2. s \in Status /\ loc[c].op \in AllOps \ {"create"}
    BY Zenon, <2>1, RefreshStatus DEF Local
  <2>3. PICK l \in {"connect", "freeze", "kill", "uncgroup", "thaw"} :
          loc' = [loc EXCEPT ![c] = r(l)]
    <3> HIDE DEF s
    <3> QED
      BY Zenon, <1>2, <2>2 DEF Check, StartFrom, KillFrom, DeleteFrom, PauseFrom,
                        ResumeFrom, AllOps, s
  <2>4. r(l) \in Local /\ r(l).op = loc[c].op /\ r(l).pc = l
    <3> HIDE DEF s
    <3> QED BY ZenonT(30), <2>1, <2>2, <2>3 DEF Local, Pc
  <2> HIDE DEF r
  <2> QED
    BY Zenon, <2>3, <2>4, SetLocal DEF TypeOK
<1> QED
  BY Zenon, <1>1, <1>2

\* A save opens state.json, or gives up, or leads create to its cleanup.
LEMMA OpenLocal ==
    ASSUME TypeOK, NEW c \in Cmds, Open(c)
    PROVE  /\ loc' \in [Cmds -> Local]
           /\ \A d \in Cmds : d # c => loc'[d] = loc[d]
           /\ \/ loc'[c] = Idle
              \/ /\ loc'[c].op = loc[c].op /\ loc'[c].pid = loc[c].pid
                 /\ loc'[c].status = loc[c].status
                 /\ loc'[c].pc = "write" \/ (loc'[c].pc = "uncgroup" /\ loc[c].op = "create")
<1> DEFINE r == [loc[c] EXCEPT !.pc = "write", !.inode = dir]
<1>0. loc[c] \in Local
  BY Zenon DEF TypeOK
<1>1. CASE Exit(c)
  BY Zenon, <1>1, ExitLocal DEF TypeOK
<1>2. CASE Goto(c, "uncgroup") /\ loc[c].op = "create"
  BY Zenon, <1>2, GotoLocal DEF TypeOK, Pc
<1>3. CASE loc' = [loc EXCEPT ![c] = r]
  <2>1. /\ r \in Local /\ r.op = loc[c].op /\ r.pid = loc[c].pid
        /\ r.status = loc[c].status /\ r.pc = "write"
    BY Zenon, <1>0 DEF TypeOK, Local, Pc
  <2> HIDE DEF r
  <2> QED
    BY Zenon, <1>3, <2>1, SetLocal DEF TypeOK
<1> QED
  BY Zenon, <1>1, <1>2, <1>3 DEF Open

-----------------------------------------------------------------------------
(* The inductive invariant. *)

\* The steps of create before its process exists: the ones only create takes,
\* and the save of Creating.
OfCreate == {"exists", "mkdir", "config", "bind", "spawn"}
Saving == {"open", "write"}
Before(c) ==
    /\ loc[c].op = "create"
    /\ loc[c].pc \in OfCreate \/ (loc[c].pc \in Saving /\ loc[c].status = "Creating")

\* Which steps a create takes, and who takes the steps of create.
Paths ==
    \A c \in Cmds :
        /\ loc[c].pc \in OfCreate => loc[c].op = "create"
        /\ loc[c].op = "create" =>
              /\ loc[c].pc \in OfCreate \cup Saving \cup {"uncgroup", "reap", "rmdir"}
              /\ loc[c].pc \in Saving => loc[c].status \in {"Creating", "Created"}

\* The files and the cgroup that processes and commands rely on.
Footing ==
    /\ config => dir # None
    /\ Members # {} => cgroup
    /\ \A p \in Pids : p > creates => proc[p] = "none"
    /\ \A p \in doomed \cup notified : proc[p] # "none"
    /\ \A c \in Cmds : loc[c].op = "create" =>
          loc[c].pid \in Pids /\ loc[c].pid <= creates

\* Every process of the cgroup was killed, or was there when a remove() failed
\* that its caller passed over.
Handled == Members \subseteq doomed \cup spared

\* A create that is left alone finds its pid unused and nobody it would leave
\* behind; whoever removes files has killed every process first, or been told
\* by remove() that it could not.
Care ==
    /\ \A c, d \in Cmds :
          loc[c].op = "create" /\ loc[d].pc # "idle" => c = d
    /\ \A c \in Cmds : Before(c) =>
          /\ proc[loc[c].pid] = "none"
          /\ loc[c].pc # "exists" => Handled
          /\ loc[c].pc \in {"bind", "spawn"} => config
    /\ \A c \in Cmds :
          loc[c].pc \in {"reap", "rmdir"} => Handled
    /\ ~config => Handled

IInv == TypeOK /\ Paths /\ Footing /\ (env.alone => Care)

-----------------------------------------------------------------------------
(* Every step keeps it. *)

\* The variables keep their types, through every step of every command.
LEMMA TypeStep == IInv /\ [Next]_vars => TypeOK'
<1> SUFFICES ASSUME IInv, [Next]_vars PROVE TypeOK'
  BY Zenon
<1> USE DEF IInv
<1>1. ASSUME NEW c \in Cmds, Begin(c) PROVE TypeOK'
  BY Zenon, <1>1, BeginLocal DEF Begin, TypeOK
<1>2. ASSUME NEW c \in Cmds, Load(c) PROVE TypeOK'
  BY Zenon, <1>2, LoadLocal DEF Load, TypeOK
<1>3. ASSUME NEW c \in Cmds, Check(c) PROVE TypeOK'
  BY Zenon, <1>3, CheckLocal DEF Check, Paths, OfCreate, Saving, TypeOK
<1>4. ASSUME NEW c \in Cmds, Connect(c) PROVE TypeOK'
  <2>1. loc' \in [Cmds -> Local]
    BY Zenon, <1>4, ExitLocal, SaveLocal DEF Connect, TypeOK, Status
  <2>2. notified' \subseteq Pids
    BY Zenon, <1>4 DEF Connect, TypeOK
  <2> QED
    BY Zenon, <1>4, <2>1, <2>2 DEF Connect, TypeOK
<1>5. ASSUME NEW c \in Cmds, Freeze(c) PROVE TypeOK'
  BY Zenon, <1>5, GotoLocal, ExitLocal, SaveLocal DEF Freeze, TypeOK, Pc, Status, LeftByFailure
<1>6. ASSUME NEW c \in Cmds, Signal(c) PROVE TypeOK'
  BY Zenon, <1>6, GotoLocal, ExitLocal DEF Signal, TypeOK, Pc, Status, Deliver, Members
<1>7. ASSUME NEW c \in Cmds, KillOne(c) PROVE TypeOK'
  BY SMTT(30), <1>7, GotoLocal, ExitLocal, SaveLocal DEF KillOne, TypeOK, Pc, Status, Deliver, Members
<1>8. ASSUME NEW c \in Cmds, Thaw(c) PROVE TypeOK'
  BY Zenon, <1>8, ExitLocal, SaveLocal DEF Thaw, TypeOK, Pc, Status
<1>9. ASSUME NEW c \in Cmds, Open(c) PROVE TypeOK'
  <2>1. file' \in File
    BY Zenon, <1>9 DEF Open, TypeOK, File, NoFile, Status
  <2> QED
    BY Zenon, <1>9, <2>1, OpenLocal DEF Open, TypeOK
<1>10. ASSUME NEW c \in Cmds, Write(c) PROVE TypeOK'
  BY ZenonT(60), <1>10, GotoLocal, ExitLocal DEF Write, TypeOK, Pc, Status, Overwritten, File, Local
<1>11. ASSUME NEW c \in Cmds, Uncgroup(c) PROVE TypeOK'
  BY Zenon, <1>11, GotoLocal, ExitLocal DEF Uncgroup, TypeOK, Pc, Status, Members
<1>12. ASSUME NEW c \in Cmds, Reap(c) PROVE TypeOK'
  BY Zenon, <1>12, GotoLocal, ExitLocal DEF Reap, TypeOK, Pc, Status
<1>13. ASSUME NEW c \in Cmds, Rmdir(c) PROVE TypeOK'
  <2>1. loc' \in [Cmds -> Local]
    BY Zenon, <1>13, ExitLocal DEF Rmdir, TypeOK
  <2>2. file' \in File
    BY SMTT(30), <1>13 DEF Rmdir, TypeOK, File, NoFile, Status
  <2> QED
    BY Zenon, <1>13, <2>1, <2>2 DEF Rmdir, TypeOK
<1>14. ASSUME NEW c \in Cmds, Exists(c) PROVE TypeOK'
  BY Zenon, <1>14, GotoLocal, ExitLocal DEF Exists, TypeOK, Pc, Status
<1>15. ASSUME NEW c \in Cmds, Mkdir(c) PROVE TypeOK'
  BY Zenon, <1>15, SaveLocal DEF Mkdir, TypeOK, Pc, Status, Local
<1>16. ASSUME NEW c \in Cmds, Config(c) PROVE TypeOK'
  BY Zenon, <1>16, GotoLocal, ExitLocal DEF Config, TypeOK, Pc, Status
<1>17. ASSUME NEW c \in Cmds, Bind(c) PROVE TypeOK'
  BY ZenonT(60), <1>17, GotoLocal DEF Bind, TypeOK, Pc, Status, Local
<1>18. ASSUME NEW c \in Cmds, Spawn(c) PROVE TypeOK'
  BY Zenon, <1>18, GotoLocal, SaveLocal DEF Spawn, TypeOK, Pc, Status
<1>19. ASSUME NEW c \in Cmds, Crash(c) PROVE TypeOK'
  BY Zenon, <1>19, ExitLocal DEF Crash, TypeOK
<1>20. ASSUME NEW p \in Pids, InitStart(p) \/ ProcessExit(p) \/ Die(p) PROVE TypeOK'
  BY Zenon, <1>20 DEF InitStart, ProcessExit, Die, TypeOK
<1>21. CASE UNCHANGED vars
  BY Zenon, <1>21 DEF vars, TypeOK
<1> QED
  BY Zenon, <1>1, <1>2, <1>3, <1>4, <1>5, <1>6, <1>7, <1>8, <1>9, <1>10, <1>11, <1>12, <1>13, <1>14, <1>15, <1>16, <1>17, <1>18, <1>19, <1>20, <1>21 DEF Next, Step

\* Create takes its own steps, and nobody else takes them.
LEMMA PathsStep == IInv /\ [Next]_vars => Paths'
<1> SUFFICES ASSUME IInv, [Next]_vars PROVE Paths'
  BY Zenon
<1> USE DEF IInv
<1>1. ASSUME NEW c \in Cmds, Begin(c) PROVE Paths'
  <2>1. /\ \A d \in Cmds : d # c => loc'[d] = loc[d]
        /\ creates' \in 0..MaxCreates
        /\ IF loc'[c].op = "create"
           THEN /\ loc'[c].pc = "exists" /\ loc'[c].pid = creates'
                /\ creates' = creates + 1 /\ creates' \in Pids
           ELSE loc'[c].pc = "load" /\ creates' = creates
    BY Zenon, <1>1, BeginLocal
  <2>2. loc[c].pc = "idle" /\ UNCHANGED <<env, dir, config, proc, doomed, spared, notified, cgroup>>
    BY Zenon, <1>1 DEF Begin
  <2> QED
    BY Zenon, <2>1, <2>2 DEF Paths, OfCreate, Saving, Idle
<1>2. ASSUME NEW c \in Cmds, Load(c) PROVE Paths'
  <2>1. /\ \A d \in Cmds : d # c => loc'[d] = loc[d]
        /\ loc'[c] = Idle \/ (loc'[c].op = loc[c].op /\ loc'[c].pc = "check")
    BY Zenon, <1>2, LoadLocal
  <2>2. loc[c].pc = "load" /\ creates' = creates /\ UNCHANGED <<env, dir, config, proc, doomed, spared, notified, cgroup>>
    BY Zenon, <1>2 DEF Load
  <2> QED
    BY SMTT(30), <2>1, <2>2 DEF Paths, OfCreate, Saving, Idle
<1>3. ASSUME NEW c \in Cmds, Check(c) PROVE Paths'
  <2>0. loc[c].op # "create"
    BY Zenon, <1>3 DEF Check, Paths, OfCreate, Saving
  <2>1. /\ \A d \in Cmds : d # c => loc'[d] = loc[d]
        /\ \/ loc'[c] = Idle
           \/ /\ loc'[c].op = loc[c].op
              /\ loc'[c].pc \in {"connect", "freeze", "kill", "uncgroup", "thaw"}
    BY Zenon, <1>3, <2>0, CheckLocal
  <2>2. loc[c].pc = "check" /\ creates' = creates /\ UNCHANGED <<env, dir, config, proc, doomed, spared, notified, cgroup>>
    BY Zenon, <1>3 DEF Check
  <2> QED
    BY SMTT(30), <2>0, <2>1, <2>2 DEF Paths, OfCreate, Saving, Idle
<1>4. ASSUME NEW c \in Cmds, Connect(c) PROVE Paths'
  BY SMTT(30), <1>4, ExitLocal, SaveLocal DEF Connect, TypeOK, Paths, OfCreate, Saving, Idle, Pc, Status
<1>5. ASSUME NEW c \in Cmds, Freeze(c) PROVE Paths'
  BY SMTT(30), <1>5, GotoLocal, ExitLocal, SaveLocal DEF Freeze, TypeOK, Paths, OfCreate, Saving, Idle, Pc, Status
<1>6. ASSUME NEW c \in Cmds, Signal(c) PROVE Paths'
  BY SMTT(30), <1>6, GotoLocal, ExitLocal DEF Signal, TypeOK, Paths, OfCreate, Saving, Idle, Pc, Status
<1>7. ASSUME NEW c \in Cmds, KillOne(c) PROVE Paths'
  BY SMTT(30), <1>7, GotoLocal, ExitLocal, SaveLocal DEF KillOne, TypeOK, Paths, OfCreate, Saving, Idle, Pc, Status
<1>8. ASSUME NEW c \in Cmds, Thaw(c) PROVE Paths'
  BY SMTT(30), <1>8, ExitLocal, SaveLocal DEF Thaw, TypeOK, Paths, OfCreate, Saving, Idle, Pc, Status
<1>9. ASSUME NEW c \in Cmds, Open(c) PROVE Paths'
  <2>1. /\ \A d \in Cmds : d # c => loc'[d] = loc[d]
        /\ \/ loc'[c] = Idle
           \/ /\ loc'[c].op = loc[c].op /\ loc'[c].pid = loc[c].pid
              /\ loc'[c].status = loc[c].status
              /\ loc'[c].pc = "write" \/ (loc'[c].pc = "uncgroup" /\ loc[c].op = "create")
    BY Zenon, <1>9, OpenLocal
  <2>2. loc[c].pc = "open" /\ creates' = creates /\ UNCHANGED <<env, dir, config, proc, doomed, spared, notified, cgroup>>
    BY Zenon, <1>9 DEF Open
  <2> QED
    BY SMTT(30), <2>1, <2>2 DEF Paths, OfCreate, Saving, Idle
<1>10. ASSUME NEW c \in Cmds, Write(c) PROVE Paths'
  BY SMTT(30), <1>10, GotoLocal, ExitLocal DEF Write, TypeOK, Paths, OfCreate, Saving, Idle, Pc, Status
<1>11. ASSUME NEW c \in Cmds, Uncgroup(c) PROVE Paths'
  BY SMTT(30), <1>11, GotoLocal, ExitLocal DEF Uncgroup, TypeOK, Paths, OfCreate, Saving, Idle, Pc, Status
<1>12. ASSUME NEW c \in Cmds, Reap(c) PROVE Paths'
  BY SMTT(30), <1>12, GotoLocal, ExitLocal DEF Reap, TypeOK, Paths, OfCreate, Saving, Idle, Pc, Status
<1>13. ASSUME NEW c \in Cmds, Rmdir(c) PROVE Paths'
  BY SMTT(30), <1>13, ExitLocal DEF Rmdir, TypeOK, Paths, OfCreate, Saving, Idle, Pc, Status
<1>14. ASSUME NEW c \in Cmds, Exists(c) PROVE Paths'
  BY SMTT(30), <1>14, GotoLocal, ExitLocal DEF Exists, TypeOK, Paths, OfCreate, Saving, Idle, Pc, Status
<1>15. ASSUME NEW c \in Cmds, Mkdir(c) PROVE Paths'
  BY SMTT(30), <1>15, SaveLocal DEF Mkdir, TypeOK, Paths, OfCreate, Saving, Idle, Pc, Status
<1>16. ASSUME NEW c \in Cmds, Config(c) PROVE Paths'
  BY SMTT(30), <1>16, GotoLocal, ExitLocal DEF Config, TypeOK, Paths, OfCreate, Saving, Idle, Pc, Status
<1>17. ASSUME NEW c \in Cmds, Bind(c) PROVE Paths'
  BY SMTT(30), <1>17, GotoLocal DEF Bind, TypeOK, Paths, OfCreate, Saving, Idle, Pc, Status
<1>18. ASSUME NEW c \in Cmds, Spawn(c) PROVE Paths'
  BY SMTT(30), <1>18, GotoLocal, SaveLocal DEF Spawn, TypeOK, Paths, OfCreate, Saving, Idle, Pc, Status
<1>19. ASSUME NEW c \in Cmds, Crash(c) PROVE Paths'
  BY SMTT(30), <1>19, ExitLocal DEF Crash, TypeOK, Paths, OfCreate, Saving, Idle, Pc, Status
<1>20. ASSUME NEW p \in Pids, InitStart(p) \/ ProcessExit(p) \/ Die(p) PROVE Paths'
  BY Zenon, <1>20 DEF InitStart, ProcessExit, Die, TypeOK, Paths, OfCreate, Saving, Idle, Pc, Status
<1>21. CASE UNCHANGED vars
  BY Zenon, <1>21 DEF vars, TypeOK, Paths, OfCreate, Saving, Idle, Pc, Status
<1> QED
  BY Zenon, <1>1, <1>2, <1>3, <1>4, <1>5, <1>6, <1>7, <1>8, <1>9, <1>10, <1>11,
     <1>12, <1>13, <1>14, <1>15, <1>16, <1>17, <1>18, <1>19, <1>20, <1>21 DEF Next, Step

\* Files, cgroup and pids stay as processes and commands rely on them.
LEMMA FootingStep == IInv /\ [Next]_vars => Footing'
<1> SUFFICES ASSUME IInv, [Next]_vars PROVE Footing'
  BY Zenon
<1> USE DEF IInv
<1>1. ASSUME NEW c \in Cmds, Begin(c) PROVE Footing'
  <2>1. /\ \A d \in Cmds : d # c => loc'[d] = loc[d]
        /\ creates' \in 0..MaxCreates
        /\ IF loc'[c].op = "create"
           THEN /\ loc'[c].pc = "exists" /\ loc'[c].pid = creates'
                /\ creates' = creates + 1 /\ creates' \in Pids
           ELSE loc'[c].pc = "load" /\ creates' = creates
    BY Zenon, <1>1, BeginLocal
  <2>2. loc[c].pc = "idle" /\ UNCHANGED <<env, dir, config, proc, doomed, spared, notified, cgroup>>
    BY Zenon, <1>1 DEF Begin
  <2>3. \A p \in Pids : p > creates' => p > creates
    BY SMTT(30), <2>1 DEF TypeOK, Pids
  <2>4. \A d \in Cmds : loc'[d].op = "create" => loc'[d].pid \in Pids /\ loc'[d].pid <= creates'
    BY SMTT(30), <2>1 DEF TypeOK, Footing, Pids
  <2>5. Members' = Members
    BY Zenon, <2>2 DEF Members, Alive
  <2> QED
    BY Zenon, <2>2, <2>3, <2>4, <2>5 DEF TypeOK, Footing
<1>2. ASSUME NEW c \in Cmds, Load(c) PROVE Footing'
  <2>1. /\ \A d \in Cmds : d # c => loc'[d] = loc[d]
        /\ loc'[c] = Idle \/ (loc'[c].op = loc[c].op /\ loc'[c].pc = "check")
    BY Zenon, <1>2, LoadLocal
  <2>2. loc[c].pc = "load" /\ creates' = creates /\ UNCHANGED <<env, dir, config, proc, doomed, spared, notified, cgroup>>
    BY Zenon, <1>2 DEF Load
  <2> QED
    BY SMTT(30), <2>1, <2>2 DEF TypeOK, Footing, Paths, OfCreate, Saving, Members, Alive, Idle
<1>3. ASSUME NEW c \in Cmds, Check(c) PROVE Footing'
  <2>0. loc[c].op # "create"
    BY Zenon, <1>3 DEF Check, Paths, OfCreate, Saving
  <2>1. /\ \A d \in Cmds : d # c => loc'[d] = loc[d]
        /\ \/ loc'[c] = Idle
           \/ /\ loc'[c].op = loc[c].op
              /\ loc'[c].pc \in {"connect", "freeze", "kill", "uncgroup", "thaw"}
    BY Zenon, <1>3, <2>0, CheckLocal
  <2>2. loc[c].pc = "check" /\ creates' = creates /\ UNCHANGED <<env, dir, config, proc, doomed, spared, notified, cgroup>>
    BY Zenon, <1>3 DEF Check
  <2> QED
    BY SMTT(30), <2>0, <2>1, <2>2 DEF TypeOK, Footing, Paths, OfCreate, Saving, Members, Alive, Idle
<1>4. ASSUME NEW c \in Cmds, Connect(c) PROVE Footing'
  BY SMTT(30), <1>4, ExitLocal, SaveLocal DEF Connect, TypeOK, Footing, Paths, OfCreate, Saving, Members, Alive, Idle, Pc, Status
<1>5. ASSUME NEW c \in Cmds, Freeze(c) PROVE Footing'
  BY SMTT(30), <1>5, GotoLocal, ExitLocal, SaveLocal DEF Freeze, TypeOK, Footing, Paths, OfCreate, Saving, Members, Alive, Idle, Pc, Status
<1>6. ASSUME NEW c \in Cmds, Signal(c) PROVE Footing'
  <2>1. doomed' \subseteq doomed \cup Members
    BY Zenon, <1>6 DEF Signal, Deliver
  <2>2. \A d \in Cmds : loc'[d].op = "create" => loc'[d].op = loc[d].op /\ loc'[d].pid = loc[d].pid
    BY SMTT(30), <1>6, GotoLocal, ExitLocal DEF Signal, TypeOK, Idle, Pc, Status
  <2> QED
    BY Zenon, <1>6, <2>1, <2>2 DEF Signal, TypeOK, Footing, Members, Alive
<1>7. ASSUME NEW c \in Cmds, KillOne(c) PROVE Footing'
  <2>1. doomed' \subseteq doomed \cup Members
    BY Zenon, <1>7 DEF KillOne, Deliver
  <2>2. \A d \in Cmds : loc'[d].op = "create" => loc'[d].op = loc[d].op /\ loc'[d].pid = loc[d].pid
    BY SMTT(30), <1>7, GotoLocal, ExitLocal, SaveLocal DEF KillOne, TypeOK, Idle, Pc, Status
  <2> QED
    BY Zenon, <1>7, <2>1, <2>2 DEF KillOne, TypeOK, Footing, Members, Alive
<1>8. ASSUME NEW c \in Cmds, Thaw(c) PROVE Footing'
  BY SMTT(30), <1>8, ExitLocal, SaveLocal DEF Thaw, TypeOK, Footing, Paths, OfCreate, Saving, Members, Alive, Idle, Pc, Status
<1>9. ASSUME NEW c \in Cmds, Open(c) PROVE Footing'
  <2>1. /\ \A d \in Cmds : d # c => loc'[d] = loc[d]
        /\ \/ loc'[c] = Idle
           \/ /\ loc'[c].op = loc[c].op /\ loc'[c].pid = loc[c].pid
              /\ loc'[c].status = loc[c].status
              /\ loc'[c].pc = "write" \/ (loc'[c].pc = "uncgroup" /\ loc[c].op = "create")
    BY Zenon, <1>9, OpenLocal
  <2>2. loc[c].pc = "open" /\ creates' = creates /\ UNCHANGED <<env, dir, config, proc, doomed, spared, notified, cgroup>>
    BY Zenon, <1>9 DEF Open
  <2> QED
    BY SMTT(30), <2>1, <2>2 DEF TypeOK, Footing, Paths, OfCreate, Saving, Members, Alive, Idle
<1>10. ASSUME NEW c \in Cmds, Write(c) PROVE Footing'
  BY SMTT(30), <1>10, GotoLocal, ExitLocal DEF Write, TypeOK, Footing, Paths, OfCreate, Saving, Members, Alive, Idle, Pc, Status
<1>11. ASSUME NEW c \in Cmds, Uncgroup(c) PROVE Footing'
  BY SMTT(30), <1>11, GotoLocal, ExitLocal DEF Uncgroup, TypeOK, Footing, Paths, OfCreate, Saving, Members, Alive, Idle, Pc, Status
<1>12. ASSUME NEW c \in Cmds, Reap(c) PROVE Footing'
  BY SMTT(30), <1>12, GotoLocal, ExitLocal DEF Reap, TypeOK, Footing, Paths, OfCreate, Saving, Members, Alive, Idle, Pc, Status
<1>13. ASSUME NEW c \in Cmds, Rmdir(c) PROVE Footing'
  BY SMTT(30), <1>13, ExitLocal DEF Rmdir, TypeOK, Footing, Paths, OfCreate, Saving, Members, Alive, Idle, Pc, Status
<1>14. ASSUME NEW c \in Cmds, Exists(c) PROVE Footing'
  BY SMTT(30), <1>14, GotoLocal, ExitLocal DEF Exists, TypeOK, Footing, Paths, OfCreate, Saving, Members, Alive, Idle, Pc, Status
<1>15. ASSUME NEW c \in Cmds, Mkdir(c) PROVE Footing'
  BY SMTT(30), <1>15, SaveLocal DEF Mkdir, TypeOK, Footing, Paths, OfCreate, Saving, Members, Alive, Idle, Pc, Status
<1>16. ASSUME NEW c \in Cmds, Config(c) PROVE Footing'
  BY SMTT(30), <1>16, GotoLocal, ExitLocal DEF Config, TypeOK, Footing, Paths, OfCreate, Saving, Members, Alive, Idle, Pc, Status
<1>17. ASSUME NEW c \in Cmds, Bind(c) PROVE Footing'
  BY SMTT(30), <1>17, GotoLocal DEF Bind, TypeOK, Footing, Paths, OfCreate, Saving, Members, Alive, Idle, Pc, Status
<1>18. ASSUME NEW c \in Cmds, Spawn(c) PROVE Footing'
  <2>1. loc[c].op = "create" /\ loc[c].pid \in Pids /\ loc[c].pid <= creates
    BY Zenon, <1>18 DEF Spawn, Paths, OfCreate, Footing
  <2>2. \A d \in Cmds : loc'[d].op = loc[d].op /\ loc'[d].pid = loc[d].pid
    BY Zenon, <1>18, GotoLocal, SaveLocal DEF Spawn, TypeOK, Pc, Status
  <2>3. CASE UNCHANGED <<proc, cgroup>>
    BY Zenon, <1>18, <2>2, <2>3 DEF Spawn, Footing, Members, Alive
  <2>4. CASE proc' = [proc EXCEPT ![loc[c].pid] = "waiting"] /\ cgroup'
    <3>1. proc'[loc[c].pid] = "waiting" /\ \A p \in Pids : p # loc[c].pid => proc'[p] = proc[p]
      BY Zenon, <2>1, <2>4 DEF TypeOK
    <3>2. UNCHANGED <<dir, config, doomed, notified, creates>>
      BY Zenon, <1>18 DEF Spawn
    <3>3. \A p \in Pids : p > creates' => proc'[p] = "none"
      BY SMTT(30), <2>1, <3>1, <3>2 DEF Footing, TypeOK, Pids
    <3> QED
      BY Zenon, <2>2, <2>4, <3>1, <3>2, <3>3 DEF TypeOK, Footing
  <2> QED
    BY Zenon, <1>18, <2>3, <2>4 DEF Spawn
<1>19. ASSUME NEW c \in Cmds, Crash(c) PROVE Footing'
  BY SMTT(30), <1>19, ExitLocal DEF Crash, TypeOK, Footing, Paths, OfCreate, Saving, Members, Alive, Idle, Pc, Status
<1>20. ASSUME NEW p \in Pids, InitStart(p) \/ ProcessExit(p) \/ Die(p) PROVE Footing'
  BY SMTT(30), <1>20 DEF InitStart, ProcessExit, Die, TypeOK, Footing, Members, Alive
<1>21. CASE UNCHANGED vars
  BY Zenon, <1>21 DEF vars, TypeOK, Footing, Members, Alive
<1> QED
  BY Zenon, <1>1, <1>2, <1>3, <1>4, <1>5, <1>6, <1>7, <1>8, <1>9, <1>10, <1>11,
     <1>12, <1>13, <1>14, <1>15, <1>16, <1>17, <1>18, <1>19, <1>20, <1>21 DEF Next, Step

\* A step that brings no process to life and takes no config away: it adds to
\* the processes that were killed, and goes on where Care says it may.
Benign(c) ==
    /\ \A d \in Cmds : d # c => loc'[d] = loc[d]
    /\ UNCHANGED proc /\ doomed \subseteq doomed' /\ spared \subseteq spared'
    /\ config => config'
    /\ loc[c].pc # "idle"
    /\ loc'[c].op = "create" => loc[c].op = "create"
    /\ Before(c)' => /\ Before(c) /\ loc'[c].pid = loc[c].pid
                     /\ loc'[c].pc # "exists" => Handled
                     /\ loc'[c].pc \in {"bind", "spawn"} => config'
    /\ loc'[c].pc \in {"reap", "rmdir"} => Handled'

\* Such a step keeps Care.
LEMMA BenignCare ==
    ASSUME Care, NEW c \in Cmds, Benign(c)
    PROVE  Care'
<1>1. Members' = Members
  BY Zenon DEF Benign, Members, Alive
<1>0. Handled => Handled'
  BY Zenon, <1>1 DEF Benign, Handled
<1>2. \A d \in Cmds : d # c => (Before(d)' <=> Before(d))
  BY Zenon DEF Benign, Before
<1>3. \A a, d \in Cmds : (loc[a].op = "create" /\ loc[d].pc # "idle" => a = d)'
  BY SMTT(30) DEF Benign, Care
<1>4. \A d \in Cmds : (Before(d) =>
          /\ proc[loc[d].pid] = "none"
          /\ loc[d].pc # "exists" => Handled
          /\ loc[d].pc \in {"bind", "spawn"} => config)'
  <2> TAKE d \in Cmds
  <2>1. CASE d = c
    BY Zenon, <1>0, <2>1 DEF Benign, Care
  <2>2. CASE d # c
    BY Zenon, <1>0, <1>2, <2>2 DEF Benign, Care
  <2> QED
    BY Zenon, <2>1, <2>2
<1>5. \A d \in Cmds : (loc[d].pc \in {"reap", "rmdir"} => Handled)'
  <2> TAKE d \in Cmds
  <2>1. CASE d = c
    BY Zenon, <1>0, <2>1 DEF Benign
  <2>2. CASE d # c
    BY Zenon, <1>0, <2>2 DEF Benign, Care
  <2> QED
    BY Zenon, <2>1, <2>2
<1>6. (~config => Handled)'
  BY Zenon, <1>0 DEF Benign, Care
<1> QED
  BY Zenon, <1>3, <1>4, <1>5, <1>6 DEF Care

\* A create that is left alone, and whoever removes files, leaves nobody behind.
LEMMA CareStep == IInv /\ env.alone /\ [Next]_vars => Care'
<1> SUFFICES ASSUME IInv, env.alone, [Next]_vars PROVE Care'
  BY Zenon
<1> USE DEF IInv
<1>1. ASSUME NEW c \in Cmds, Begin(c) PROVE Care'
  <2>1. /\ \A d \in Cmds : d # c => loc'[d] = loc[d]
        /\ IF loc'[c].op = "create"
           THEN /\ loc'[c].pc = "exists" /\ loc'[c].pid = creates'
                /\ creates' = creates + 1 /\ creates' \in Pids
           ELSE loc'[c].pc = "load"
        /\ \A d \in Cmds : loc[d].pc # "idle" => loc'[c].op # "create" /\ loc[d].op # "create"
    BY Zenon, <1>1, BeginLocal
  <2>2. /\ loc[c].pc = "idle" /\ loc[c].op # "create"
        /\ UNCHANGED <<config, proc>> /\ (Handled' <=> Handled)
    BY Zenon, <1>1 DEF Begin, Members, Alive, Handled, Paths, OfCreate, Saving
  <2>3. \A d \in Cmds : d # c => (Before(d)' <=> Before(d))
    BY Zenon, <2>1 DEF Before
  <2>4. Before(c)' => loc'[c].pc = "exists" /\ proc'[loc'[c].pid] = "none"
    BY SMTT(30), <2>1, <2>2 DEF Before, OfCreate, Saving, Footing, TypeOK, Pids
  <2>5. \A a, d \in Cmds : (loc[a].op = "create" /\ loc[d].pc # "idle" => a = d)'
    BY SMTT(30), <2>1, <2>2 DEF Care, Paths, OfCreate, Saving
  <2>6. \A d \in Cmds : (Before(d) =>
            /\ proc[loc[d].pid] = "none"
            /\ loc[d].pc # "exists" => Handled
            /\ loc[d].pc \in {"bind", "spawn"} => config)'
    <3> TAKE d \in Cmds
    <3>1. CASE d = c
      BY Zenon, <2>4, <3>1
    <3>2. CASE d # c
      BY Zenon, <2>1, <2>2, <2>3, <3>2 DEF Care
    <3> QED
      BY Zenon, <3>1, <3>2
  <2>7. \A d \in Cmds : (loc[d].pc \in {"reap", "rmdir"} => Handled)'
    BY Zenon, <2>1, <2>2 DEF Care
  <2> QED
    BY Zenon, <2>2, <2>5, <2>6, <2>7 DEF Care
<1>2. ASSUME NEW c \in Cmds, Load(c) PROVE Care'
  <2>1. /\ \A d \in Cmds : d # c => loc'[d] = loc[d]
        /\ loc'[c] = Idle \/ (loc'[c].op = loc[c].op /\ loc'[c].pc = "check")
    BY Zenon, <1>2, LoadLocal
  <2>2. loc[c].pc = "load" /\ creates' = creates /\ UNCHANGED <<env, dir, config, proc, doomed, spared, notified, cgroup>>
    BY Zenon, <1>2 DEF Load
  <2>3. Benign(c)
    BY SMTT(30), <2>1, <2>2 DEF Benign, Before, Paths, OfCreate, Saving, Idle, Care
  <2> QED
    BY Zenon, <2>3, BenignCare
<1>3. ASSUME NEW c \in Cmds, Check(c) PROVE Care'
  <2>0. loc[c].op # "create"
    BY Zenon, <1>3 DEF Check, Paths, OfCreate, Saving
  <2>1. /\ \A d \in Cmds : d # c => loc'[d] = loc[d]
        /\ \/ loc'[c] = Idle
           \/ /\ loc'[c].op = loc[c].op
              /\ loc'[c].pc \in {"connect", "freeze", "kill", "uncgroup", "thaw"}
    BY Zenon, <1>3, <2>0, CheckLocal
  <2>2. loc[c].pc = "check" /\ creates' = creates /\ UNCHANGED <<env, dir, config, proc, doomed, spared, notified, cgroup>>
    BY Zenon, <1>3 DEF Check
  <2>3. Benign(c)
    BY SMTT(30), <2>0, <2>1, <2>2 DEF Benign, Before, Paths, OfCreate, Saving, Idle, Care
  <2> QED
    BY Zenon, <2>3, BenignCare
<1>4. ASSUME NEW c \in Cmds, Connect(c) PROVE Care'
  <2>1. Benign(c)
    BY SMTT(30), <1>4, ExitLocal, SaveLocal DEF Connect, Benign, TypeOK, Before, OfCreate, Saving, Idle, Pc, Status, Paths
  <2> QED
    BY Zenon, <2>1, BenignCare
<1>5. ASSUME NEW c \in Cmds, Freeze(c) PROVE Care'
  <2>1. Benign(c)
    BY SMTT(30), <1>5, GotoLocal, ExitLocal, SaveLocal DEF Freeze, Benign, TypeOK, Before, OfCreate, Saving, Idle, Pc, Status, Paths
  <2> QED
    BY Zenon, <2>1, BenignCare
<1>6. ASSUME NEW c \in Cmds, Signal(c) PROVE Care'
  <2>1. Benign(c)
    BY SMTT(30), <1>6, GotoLocal, ExitLocal DEF Signal, Benign, TypeOK, Before, OfCreate, Saving, Idle, Pc, Status, Deliver, Paths
  <2> QED
    BY Zenon, <2>1, BenignCare
<1>7. ASSUME NEW c \in Cmds, KillOne(c) PROVE Care'
  <2>1. Benign(c)
    BY SMTT(30), <1>7, GotoLocal, ExitLocal, SaveLocal DEF KillOne, Benign, TypeOK, Before, OfCreate, Saving, Idle, Pc, Status, Deliver, Paths
  <2> QED
    BY Zenon, <2>1, BenignCare
<1>8. ASSUME NEW c \in Cmds, Thaw(c) PROVE Care'
  <2>1. Benign(c)
    BY SMTT(30), <1>8, ExitLocal, SaveLocal DEF Thaw, Benign, TypeOK, Before, OfCreate, Saving, Idle, Pc, Status, Paths
  <2> QED
    BY Zenon, <2>1, BenignCare
<1>9. ASSUME NEW c \in Cmds, Open(c) PROVE Care'
  <2>1. /\ \A d \in Cmds : d # c => loc'[d] = loc[d]
        /\ \/ loc'[c] = Idle
           \/ /\ loc'[c].op = loc[c].op /\ loc'[c].pid = loc[c].pid
              /\ loc'[c].status = loc[c].status
              /\ loc'[c].pc = "write" \/ (loc'[c].pc = "uncgroup" /\ loc[c].op = "create")
    BY Zenon, <1>9, OpenLocal
  <2>2. loc[c].pc = "open" /\ creates' = creates /\ UNCHANGED <<env, dir, config, proc, doomed, spared, notified, cgroup>>
    BY Zenon, <1>9 DEF Open
  <2>3. Benign(c)
    BY SMTT(30), <2>1, <2>2 DEF Benign, Before, Paths, OfCreate, Saving, Idle, Care
  <2> QED
    BY Zenon, <2>3, BenignCare
<1>10. ASSUME NEW c \in Cmds, Write(c) PROVE Care'
  <2>1. Benign(c)
    BY SMTT(30), <1>10, GotoLocal, ExitLocal DEF Write, Benign, TypeOK, Before, OfCreate, Saving, Idle, Pc, Status, Care, Paths
  <2> QED
    BY Zenon, <2>1, BenignCare
<1>11. ASSUME NEW c \in Cmds, Uncgroup(c) PROVE Care'
  <2>1. /\ \A d \in Cmds : d # c => loc'[d] = loc[d]
        /\ loc'[c] = Idle \/ (loc'[c].op = loc[c].op /\ loc'[c].pc \in {"reap", "rmdir"})
    BY Zenon, <1>11, GotoLocal, ExitLocal DEF Uncgroup, TypeOK, Pc
  <2>2. /\ loc[c].pc = "uncgroup" /\ UNCHANGED <<proc, config>>
        /\ doomed \subseteq doomed' /\ spared \subseteq spared'
    BY Zenon, <1>11 DEF Uncgroup
  <2>3. /\ Members' = Members
        /\ loc'[c] = Idle => loc'[c].pc = "idle" /\ loc'[c].op # "create"
    BY SMTT(30), <2>2 DEF Members, Alive, Idle
  <2>4. loc'[c] = Idle \/ Members \subseteq doomed' \cup spared'
    <3>1. CASE Exit(c)
      BY Zenon, <3>1, ExitLocal DEF TypeOK
    <3>2. CASE doomed' = IF cgroup THEN doomed \cup Members ELSE doomed
      BY Zenon, <3>2 DEF Footing
    <3>3. CASE spared' = spared \cup (Members \ doomed) /\ UNCHANGED doomed
      BY Zenon, <3>3
    <3>4. CASE ~config /\ UNCHANGED <<doomed, spared>>
      BY Zenon, <3>4 DEF Care, Handled
    <3> QED
      BY Zenon, <1>11, <3>1, <3>2, <3>3, <3>4 DEF Uncgroup
  <2>5. loc'[c].pc \in {"reap", "rmdir"} => Handled'
    BY Zenon, <2>3, <2>4 DEF Handled
  <2>6. Benign(c)
    BY Zenon, <2>1, <2>2, <2>3, <2>5 DEF Benign, Before, OfCreate, Saving
  <2> QED
    BY Zenon, <2>6, BenignCare
<1>12. ASSUME NEW c \in Cmds, Reap(c) PROVE Care'
  <2>0. Handled'
    BY Zenon, <1>12 DEF Reap, Care, Handled, Members, Alive
  <2>1. Benign(c)
    BY SMTT(30), <1>12, <2>0, GotoLocal, ExitLocal DEF Reap, Benign, TypeOK, Before, OfCreate, Saving, Idle, Pc, Status
  <2> QED
    BY Zenon, <2>1, BenignCare
<1>13. ASSUME NEW c \in Cmds, Rmdir(c) PROVE Care'
  <2>1. loc[c].pc = "rmdir" /\ Handled /\ UNCHANGED <<proc, doomed, spared>>
    BY Zenon, <1>13 DEF Rmdir, Care
  <2>0. Handled'
    BY Zenon, <2>1 DEF Handled, Members, Alive
  <2>2. CASE config => config'
    <3>1. Benign(c)
      BY SMTT(30), <1>13, <2>0, <2>1, <2>2, ExitLocal DEF Rmdir, Benign, TypeOK, Before, OfCreate, Saving, Idle
    <3> QED
      BY Zenon, <3>1, BenignCare
  <2>3. CASE ~(config => config')
    <3>1. UNCHANGED loc
      BY Zenon, <1>13, <2>1, <2>3 DEF Rmdir
    <3>2. \A d \in Cmds : ~Before(d)'
      BY Zenon, <2>1, <3>1 DEF Care, Before, OfCreate, Saving
    <3> QED
      BY Zenon, <2>0, <2>1, <3>1, <3>2 DEF Care
  <2> QED
    BY Zenon, <2>2, <2>3
<1>14. ASSUME NEW c \in Cmds, Exists(c) PROVE Care'
  <2>1. Benign(c)
    BY SMTT(30), <1>14, GotoLocal, ExitLocal DEF Exists, Benign, TypeOK, Before, OfCreate, Saving, Idle, Pc, Status, Care, Footing, Handled
  <2> QED
    BY Zenon, <2>1, BenignCare
<1>15. ASSUME NEW c \in Cmds, Mkdir(c) PROVE Care'
  <2>1. Benign(c)
    BY Zenon, <1>15, SaveLocal DEF Mkdir, Benign, TypeOK, Before, OfCreate, Saving, Idle, Pc, Status, Care
  <2> QED
    BY Zenon, <2>1, BenignCare
<1>16. ASSUME NEW c \in Cmds, Config(c) PROVE Care'
  <2>1. Benign(c)
    BY SMTT(30), <1>16, GotoLocal, ExitLocal DEF Config, Benign, TypeOK, Before, OfCreate, Saving, Idle, Pc, Status, Care
  <2> QED
    BY Zenon, <2>1, BenignCare
<1>17. ASSUME NEW c \in Cmds, Bind(c) PROVE Care'
  <2>1. Benign(c)
    BY Zenon, <1>17, GotoLocal DEF Bind, Benign, TypeOK, Before, OfCreate, Saving, Idle, Pc, Status, Care
  <2> QED
    BY Zenon, <2>1, BenignCare
<1>18. ASSUME NEW c \in Cmds, Spawn(c) PROVE Care'
  <2>1. /\ loc[c].pc = "spawn" /\ Before(c) /\ config /\ Handled
        /\ UNCHANGED <<config, doomed, spared>> /\ loc[c].pid \in Pids
    BY Zenon, <1>18 DEF Spawn, Care, Before, Paths, OfCreate, Footing
  <2>2. /\ \A d \in Cmds : d # c => loc'[d] = loc[d]
        /\ loc'[c].pc \in {"open", "uncgroup"} /\ loc'[c].op = loc[c].op
        /\ loc'[c].pc = "open" => loc'[c].status = "Created"
    BY Zenon, <1>18, GotoLocal, SaveLocal DEF Spawn, TypeOK, Pc, Status
  <2>3. \A d \in Cmds : d # c => loc[d].pc = "idle" /\ loc[d].op # "create"
    BY Zenon, <2>1 DEF Care, Before, Paths, OfCreate, Saving
  <2>4. \A d \in Cmds : ~Before(d)' /\ loc'[d].pc \notin {"reap", "rmdir"}
    BY Zenon, <2>2, <2>3 DEF Before, OfCreate, Saving
  <2>5. \A a, d \in Cmds : (loc[a].op = "create" /\ loc[d].pc # "idle" => a = d)'
    BY Zenon, <2>2, <2>3
  <2> QED
    BY Zenon, <2>1, <2>4, <2>5 DEF Care
<1>19. ASSUME NEW c \in Cmds, Crash(c) PROVE Care'
  <2>1. Benign(c)
    BY SMTT(30), <1>19, ExitLocal DEF Crash, Benign, TypeOK, Before, OfCreate, Saving, Idle, Pc, Status, Paths
  <2> QED
    BY Zenon, <2>1, BenignCare
<1>20. ASSUME NEW p \in Pids, InitStart(p) \/ ProcessExit(p) \/ Die(p) PROVE Care'
  <2>1. (Handled => Handled') /\ UNCHANGED <<loc, config>> /\ proc[p] # "none"
    BY Zenon, <1>20 DEF InitStart, ProcessExit, Die, TypeOK, Members, Alive, Handled
  <2>2. \A q \in Pids : proc[q] = "none" => proc'[q] = "none"
    BY Zenon, <1>20, <2>1 DEF InitStart, ProcessExit, Die, TypeOK
  <2>3. \A d \in Cmds : (Before(d)' <=> Before(d)) /\ (Before(d) => loc[d].pid \in Pids)
    BY Zenon, <2>1 DEF Before, Footing
  <2> QED
    BY Zenon, <2>1, <2>2, <2>3 DEF Care
<1>21. CASE UNCHANGED vars
  BY Zenon, <1>21 DEF vars, Care, Before, Members, Alive, Handled
<1> QED
  BY Zenon, <1>1, <1>2, <1>3, <1>4, <1>5, <1>6, <1>7, <1>8, <1>9, <1>10, <1>11,
     <1>12, <1>13, <1>14, <1>15, <1>16, <1>17, <1>18, <1>19, <1>20, <1>21 DEF Next, Step

-----------------------------------------------------------------------------
(* The theorems. *)

\* Every reachable state satisfies the inductive invariant, whatever the
\* commands, their number and the environment.
THEOREM Invariance == Spec => []IInv
<1>1. Init => IInv
  <2> SUFFICES ASSUME Init PROVE IInv
    BY Zenon
  <2>1. TypeOK
    <3>1. NoFile \in File /\ Idle \in Local
      BY Zenon DEF File, NoFile, Status, Idle, Local, AllOps, Pc
    <3>2. 0 \in 0..MaxCreates
      BY SMTT(30), LifecycleAssumption
    <3> QED
      BY Zenon, <3>1, <3>2 DEF Init, TypeOK
  <2>2. Members = {} /\ \A c \in Cmds : loc[c].op = "start" /\ loc[c].pc = "idle"
    BY Zenon DEF Init, Members, Alive, Idle
  <2>3. Paths /\ Footing
    BY Zenon, <2>2 DEF Init, Paths, Footing, OfCreate, Saving
  <2>4. Care
    BY Zenon, <2>2 DEF Init, Care, Before, Handled
  <2> QED
    BY Zenon, <2>1, <2>3, <2>4 DEF IInv
<1>2. IInv /\ [Next]_vars => IInv'
  <2> SUFFICES ASSUME IInv, [Next]_vars PROVE IInv'
    BY Zenon
  <2>1. env' = env
    BY ZenonT(30) DEF Next, Step, Begin, Load, Check, Connect, Freeze, Signal, KillOne,
           Thaw, Open, Write, Uncgroup, Reap, Rmdir, Exists, Mkdir, Config,
           Bind, Spawn, Crash, InitStart, ProcessExit, Die, vars
  <2> QED
    BY Zenon, <2>1, TypeStep, PathsStep, FootingStep, CareStep DEF IInv
<1> QED
  BY <1>1, <1>2, PTL DEF Spec

\* The variables of the commands and of what they share keep their types.
THEOREM TypeCorrectness == Spec => []TypeOK
<1>1. IInv => TypeOK
  BY Zenon DEF IInv
<1> QED
  BY <1>1, Invariance, PTL

\* No process that was not killed is without the config that leads to its
\* cgroup, if create is left alone (do_delete and cleanup_container kill
\* through the cgroup before they remove the directory), except the processes
\* of a cgroup whose removal failed without killing them.
THEOREM NobodyIsOrphaned == Spec => []NoOrphan
<1>1. IInv => NoOrphan
  BY Zenon DEF IInv, NoOrphan, Care, Footing, Handled
<1> QED
  BY <1>1, Invariance, PTL

(* The commands implement ContainerLife. *)

\* What counts for ContainerLife is the processes, the signals and connections
\* they have received, and the config.
LEMMA SameLife ==
    ASSUME UNCHANGED <<proc, doomed, spared, notified, config, env>>
    PROVE  UNCHANGED C!vars
  BY Zenon DEF C!vars, Life

\* A change to one process leaves the lives of the others as they are.
LEMMA OtherLives ==
    ASSUME NEW p \in Pids, NEW v,
           Life(p)' = v,
           \A q \in Pids : q # p => Life(q)' = Life(q)
    PROVE  [q \in Pids |-> Life(q)]' = [[q \in Pids |-> Life(q)] EXCEPT ![p] = v]
  BY Zenon

\* The processes that live are the members that were not killed.
LEMMA LiveMembers ==
    ASSUME TypeOK
    PROVE  C!Live = Members \ doomed
  BY SMTT(30) DEF TypeOK, C!Live, Life, Members, Alive, Pids, None

\* To signal processes of the cgroup is to stop the ones among them that were
\* not killed before (kill, delete and the cleanup of create).
LEMMA SignalIsStop ==
    ASSUME TypeOK, doomed \subseteq doomed', doomed' \subseteq doomed \cup Members,
           UNCHANGED <<proc, spared, notified, config, env>>
    PROVE  [C!Next]_(C!vars)
<1> DEFINE P == doomed' \ doomed
<1>1. P \subseteq C!Live /\ P \in SUBSET Pids
  BY Zenon, LiveMembers DEF Members
<1>2. \A q \in Pids : Life(q)' = IF q \in P THEN "stopped" ELSE Life(q)
  BY Zenon, <1>1 DEF Life, C!Live
<1>3. C!Stop(P)
  <2> HIDE DEF P
  <2> QED
    BY Zenon, <1>1, <1>2 DEF C!Stop
<1> QED
  BY Zenon, <1>1, <1>3 DEF C!Next

\* Every step of a command or a process is a step of ContainerLife or none.
LEMMA LifeStep ==
    ASSUME IInv, Care, [Next]_vars
    PROVE  [C!Next]_(C!vars)
<1>0. TypeOK
  BY Zenon DEF IInv
<1>1. ASSUME NEW c \in Cmds,
             \/ Begin(c) \/ Load(c) \/ Check(c) \/ Freeze(c) \/ Thaw(c) \/ Open(c)
             \/ Write(c) \/ Reap(c) \/ Exists(c) \/ Mkdir(c) \/ Bind(c) \/ Crash(c)
      PROVE  [C!Next]_(C!vars)
  <2>1. UNCHANGED <<proc, doomed, spared, notified, config, env>>
    BY Zenon, <1>1 DEF Begin, Load, Check, Freeze, Thaw, Open, Write, Reap, Exists,
                Mkdir, Bind, Crash
  <2> QED
    BY Zenon, <2>1, SameLife
<1>2. ASSUME NEW c \in Cmds, Signal(c) \/ KillOne(c) \/ Uncgroup(c)
      PROVE  [C!Next]_(C!vars)
  <2>1. /\ doomed \subseteq doomed' /\ doomed' \subseteq doomed \cup Members
        /\ UNCHANGED <<proc, notified, config, env>>
    BY Zenon, <1>2 DEF Signal, KillOne, Uncgroup, Deliver
  <2>2. CASE UNCHANGED spared
    BY Zenon, <1>0, <2>1, <2>2, SignalIsStop
  <2>3. CASE spared' # spared
    <3>1. /\ "remove" \in env.mayFail /\ UNCHANGED doomed
          /\ spared' = spared \cup (Members \ doomed)
      BY Zenon, <1>2, <2>3 DEF Signal, KillOne, Uncgroup, Fails
    <3>2. C!GiveUp
      BY Zenon, <1>0, <2>1, <3>1, LiveMembers DEF C!GiveUp, Life
    <3> QED
      BY Zenon, <3>2 DEF C!Next
  <2> QED
    BY Zenon, <2>2, <2>3
<1>3. ASSUME NEW c \in Cmds, Connect(c) PROVE [C!Next]_(C!vars)
  <2>1. UNCHANGED <<proc, doomed, spared, config, env>>
    BY Zenon, <1>3 DEF Connect
  <2>2. CASE UNCHANGED notified
    BY Zenon, <2>1, <2>2, SameLife
  <2>3. CASE notified' # notified
    <3>1. PICK p \in Pids : /\ config /\ proc[p] = "waiting" /\ p \notin notified
                           /\ notified' = notified \cup {p}
      BY Zenon, <1>0, <1>3, <2>3 DEF Connect, TypeOK
    <3>2. \A q \in Pids : q # p => Life(q)' = Life(q)
      BY Zenon, <2>1, <3>1 DEF Life
    <3>3. CASE p \in doomed
      <4>1. Life(p)' = Life(p)
        BY Zenon, <2>1, <3>1, <3>3 DEF Life
      <4> QED
        BY Zenon, <2>1, <3>2, <4>1 DEF C!vars
    <3>4. CASE p \notin doomed
      <4>1. Life(p) = "created" /\ Life(p)' = "running"
        BY Zenon, <2>1, <3>1, <3>4 DEF Life
      <4>2. [q \in Pids |-> Life(q)]' = [[q \in Pids |-> Life(q)] EXCEPT ![p] = "running"]
        BY Zenon, <3>1, <3>2, <4>1
      <4>3. C!Start(p)
        BY Zenon, <2>1, <3>1, <4>1, <4>2 DEF C!Start
      <4> QED
        BY Zenon, <3>1, <4>3 DEF C!Next
    <3> QED
      BY Zenon, <3>3, <3>4
  <2> QED
    BY Zenon, <2>2, <2>3
<1>4. ASSUME NEW c \in Cmds, Rmdir(c) PROVE [C!Next]_(C!vars)
  <2>1. UNCHANGED <<proc, doomed, spared, notified, env>> /\ Handled
    BY Zenon, <1>4 DEF Rmdir, Care
  <2>2. CASE UNCHANGED config
    BY Zenon, <2>1, <2>2, SameLife
  <2>3. CASE config' = FALSE
    <3>1. C!Live \subseteq spared
      BY Zenon, <1>0, <2>1, LiveMembers DEF Handled
    <3>2. C!Forget
      BY Zenon, <2>1, <2>3, <3>1 DEF C!Forget, Life
    <3> QED
      BY Zenon, <3>2 DEF C!Next
  <2> QED
    BY Zenon, <1>4, <2>2, <2>3 DEF Rmdir
<1>5. ASSUME NEW c \in Cmds, Config(c) PROVE [C!Next]_(C!vars)
  <2>1. UNCHANGED <<proc, doomed, spared, notified, env>>
    BY Zenon, <1>5 DEF Config
  <2>2. CASE UNCHANGED config
    BY Zenon, <2>1, <2>2, SameLife
  <2>3. CASE config' = TRUE
    <3>1. C!Register
      BY Zenon, <2>1, <2>3 DEF C!Register, Life
    <3> QED
      BY Zenon, <3>1 DEF C!Next
  <2> QED
    BY Zenon, <1>5, <2>2, <2>3 DEF Config
<1>6. ASSUME NEW c \in Cmds, Spawn(c) PROVE [C!Next]_(C!vars)
  <2>1. PICK p \in Pids :
          /\ p = loc[c].pid /\ proc[p] = "none" /\ Handled
          /\ config /\ UNCHANGED <<doomed, spared, notified, config, env>>
    BY Zenon, <1>6 DEF Spawn, IInv, Care, Before, Paths, OfCreate, Footing
  <2>2. CASE UNCHANGED proc
    BY Zenon, <2>1, <2>2, SameLife
  <2>3. CASE proc' = [proc EXCEPT ![p] = "waiting"]
    <3>1. proc'[p] = "waiting" /\ \A q \in Pids : q # p => proc'[q] = proc[q]
      BY Zenon, <1>0, <2>1, <2>3 DEF TypeOK
    <3>2. p \notin doomed \cup notified
      BY Zenon, <2>1 DEF IInv, Footing
    <3>3. Life(p) = "unborn" /\ Life(p)' = "created"
      BY Zenon, <2>1, <3>1, <3>2 DEF Life
    <3>4. \A q \in Pids : q # p => Life(q)' = Life(q)
      BY Zenon, <2>1, <3>1 DEF Life
    <3>5. C!Live \subseteq spared
      BY Zenon, <1>0, <2>1, LiveMembers DEF Handled
    <3>6. [q \in Pids |-> Life(q)]' = [[q \in Pids |-> Life(q)] EXCEPT ![p] = "created"]
      BY Zenon, <3>3, <3>4, OtherLives
    <3>7. C!Create(p)
      BY Zenon, <2>1, <3>3, <3>5, <3>6 DEF C!Create
    <3> QED
      BY Zenon, <2>1, <3>7 DEF C!Next
  <2> QED
    BY Zenon, <1>6, <2>1, <2>2, <2>3 DEF Spawn
<1>7. ASSUME NEW p \in Pids, InitStart(p) \/ ProcessExit(p) \/ Die(p)
      PROVE  [C!Next]_(C!vars)
  <2>1. /\ UNCHANGED <<doomed, spared, notified, config, env>> /\ proc[p] \in {"waiting", "running"}
        /\ \A q \in Pids : q # p => Life(q)' = Life(q)
    BY Zenon, <1>0, <1>7 DEF InitStart, ProcessExit, Die, Alive, TypeOK, Life
  <2>2. CASE Life(p)' = Life(p)
    BY Zenon, <2>1, <2>2 DEF C!vars
  <2>3. CASE Life(p)' # Life(p)
    <3>1. Life(p) \in {"created", "running"} /\ Life(p)' = "stopped"
      BY Zenon, <1>0, <1>7, <2>1, <2>3 DEF InitStart, ProcessExit, Die, Run, TypeOK, Life
    <3>2. \A q \in Pids : Life(q)' = IF q \in {p} THEN "stopped" ELSE Life(q)
      BY Zenon, <2>1, <3>1
    <3>3. C!Stop({p}) /\ {p} \in SUBSET Pids
      BY Zenon, <2>1, <3>1, <3>2 DEF C!Stop, C!Live
    <3> QED
      BY Zenon, <3>3 DEF C!Next
  <2> QED
    BY Zenon, <2>2, <2>3
<1>8. CASE UNCHANGED vars
  BY Zenon, <1>8, SameLife DEF vars
<1> QED
  BY Zenon, <1>1, <1>2, <1>3, <1>4, <1>5, <1>6, <1>7, <1>8 DEF Next, Step

\* Wherever create is left alone, what the commands do, however they interleave,
\* fail and die, is the life of one container after another: never two that
\* were not stopped, started once, and known until stopped.  Only a removal of
\* a cgroup that fails may lose processes, and no other failure does.
THEOREM Refinement ==
    ASSUME \A e \in Environments : e.alone
    PROVE  Spec => ImplementsContainerLife
<1>1. Init => C!Init
  BY Zenon DEF Init, C!Init, Life
<1>2. IInv /\ [Next]_vars => [C!Next]_(C!vars)
  <2> SUFFICES ASSUME IInv, [Next]_vars PROVE [C!Next]_(C!vars)
    BY Zenon
  <2>1. Care
    BY Zenon DEF IInv, TypeOK
  <2> QED
    BY Zenon, <2>1, LifeStep
<1> QED
  BY <1>1, <1>2, Invariance, PTL DEF Spec, ImplementsContainerLife, C!Spec

-----------------------------------------------------------------------------
(* The inductive invariant. *)

\* Status s tells how process p is, unless p is about to die.
Tells(s, p) ==
    Alive(p) /\ p \notin doomed =>
        /\ frozen <=> s = "Paused"
        /\ p \in notified <=> s # "Created"
        /\ s # "Creating"

\* state.json tells how its process is.
Sound == dir # None => file.kind = "json" /\ Tells(file.status, file.pid)

\* What holds of the shared state at any time.
Ground ==
    /\ \A p \in Pids : proc[p] = "running" => p \in notified
    /\ frozen => config
    /\ dir = None => file.kind = "absent" /\ sock = None
    /\ sock # None => sock = dir
    /\ file.pid \in {None, dir}
    /\ file.kind # "json" => file.pid = None

\* The steps each command takes.
Route(c) ==
    /\ loc[c].op = "kill" => loc[c].sig = "KILL"
    /\ loc[c].pc = "connect" => loc[c].op = "start"
    /\ loc[c].pc = "freeze" => loc[c].op \in {"pause", "kill", "delete"}
    /\ loc[c].pc = "signal" => loc[c].op \in {"kill", "delete"}
    /\ loc[c].pc = "kill" => loc[c].op = "kill"
    /\ loc[c].pc = "thaw" => loc[c].op \in {"resume", "kill", "delete"}
    /\ loc[c].pc \in {"uncgroup", "reap", "rmdir"} => loc[c].op \in {"create", "delete"}

\* A command that has loaded its container and not changed anything yet.
Looking(c) ==
    \/ loc[c].pc \in {"check", "connect", "freeze", "kill"}
    \/ loc[c].pc = "thaw" /\ loc[c].op = "resume"

\* The pid that goes with the status a command saves.
SavedPid(c) ==
    IF loc[c].op = "create" /\ loc[c].status = "Creating" THEN None ELSE loc[c].pid

\* What a command knows of the state while it is the only one.
Turn(c) ==
    /\ Route(c)
    /\ loc[c].pc \in {"load", "exists", "config", "bind", "spawn"} => Sound
    /\ Looking(c) =>
          Sound /\ dir # None /\ loc[c].pid = file.pid /\ Tells(loc[c].status, loc[c].pid)
    /\ loc[c].pc = "connect" => loc[c].status = "Created"
    /\ loc[c].pc = "freeze" /\ loc[c].op = "pause" => loc[c].status = "Running"
    /\ loc[c].pc = "thaw" /\ loc[c].op = "resume" => loc[c].status = "Paused"
    /\ loc[c].pc \in {"signal", "thaw"} =>
          dir # None /\ file.kind = "json" /\ loc[c].pid = file.pid
    /\ loc[c].pc = "thaw" /\ loc[c].op # "resume" => loc[c].pid \notin Members \ doomed
    /\ loc[c].pc \in Saving =>
          dir # None /\ loc[c].pid \in {None, dir} /\ Tells(loc[c].status, SavedPid(c))
    /\ loc[c].pc = "write" => loc[c].inode = dir /\ file.kind = "empty"
    /\ loc[c].pc = "uncgroup" => Sound /\ dir # None
    /\ loc[c].pc = "reap" /\ loc[c].op = "delete" => Sound /\ dir # None
    /\ loc[c].pc = "rmdir" => ~frozen
    /\ loc[c].pc = "mkdir" => dir = None
    /\ loc[c].op = "create" /\ loc[c].pc # "exists" => ~frozen
    /\ loc[c].op = "create" /\ loc[c].pc \in {"config", "bind", "spawn"} \cup Saving =>
          dir = loc[c].pid
    /\ loc[c].pc \in {"config", "bind", "spawn"} => file.pid = None
    /\ Before(c) => proc[loc[c].pid] = "none"

\* One command at a time.
Alone == \A c, d \in Cmds : loc[c].pc # "idle" /\ loc[d].pc # "idle" => c = d

Serial ==
    /\ Alone
    /\ Ground
    /\ AllIdle => Sound
    /\ \A c \in Cmds : loc[c].pc # "idle" => Turn(c)

RInv == Orderly => Serial

-----------------------------------------------------------------------------
(* What the steps of a command leave alone. *)

\* A command that moves on keeps the rest of its record.
LEMMA GotoRecord ==
    ASSUME loc \in [Cmds -> Local], NEW c \in Cmds, NEW l \in Pc, Goto(c, l)
    PROVE  /\ loc'[c].pc = l /\ loc'[c].op = loc[c].op /\ loc'[c].sig = loc[c].sig
           /\ loc'[c].pid = loc[c].pid /\ loc'[c].status = loc[c].status
           /\ \A d \in Cmds : d # c => loc'[d] = loc[d]
  BY Zenon DEF Goto, Local

\* A command that turns to saving a status keeps the rest of its record.
LEMMA SaveRecord ==
    ASSUME loc \in [Cmds -> Local], NEW c \in Cmds, NEW s \in Status, Save(c, s)
    PROVE  /\ loc'[c].pc = "open" /\ loc'[c].op = loc[c].op /\ loc'[c].sig = loc[c].sig
           /\ loc'[c].pid = loc[c].pid /\ loc'[c].status = s
           /\ \A d \in Cmds : d # c => loc'[d] = loc[d]
  BY Zenon DEF Save, Local, Pc

\* A command that returns is idle.
LEMMA ExitRecord ==
    ASSUME loc \in [Cmds -> Local], NEW c \in Cmds, Exit(c)
    PROVE  loc'[c].pc = "idle" /\ \A d \in Cmds : d # c => loc'[d] = loc[d]
  BY SMTT(30), ExitLocal DEF Idle

\* While a command is the only one, its own step is all there is to look at.
LEMMA OneAtATime ==
    ASSUME Serial, NEW c \in Cmds, loc[c].pc # "idle",
           \A d \in Cmds : d # c => loc'[d] = loc[d],
           Ground',
           loc'[c].pc = "idle" => Sound',
           loc'[c].pc # "idle" => Turn(c)'
    PROVE  Serial'
<1>1. \A d \in Cmds : d # c => loc'[d].pc = "idle"
  BY Zenon DEF Serial, Alone
<1>2. Alone'
  BY Zenon, <1>1 DEF Alone
<1>3. AllIdle' => Sound'
  BY Zenon DEF AllIdle
<1>4. \A d \in Cmds : loc'[d].pc # "idle" => Turn(d)'
  BY Zenon, <1>1
<1> QED
  BY Zenon, <1>2, <1>3, <1>4 DEF Serial

\* What an orderly environment excludes.
LEMMA OrderlyFacts ==
    ASSUME TypeOK, Orderly
    PROVE  /\ ~Fails("open") /\ ~Fails("signal") /\ ~Fails("thaw") /\ ~Fails("rmdir")
           /\ ~Fails("remove")
           /\ env.v1 \/ ~Fails("freeze")
           /\ env.active = 1 /\ ~env.mayCrash /\ env.signals = {"KILL"}
  BY Zenon DEF Orderly, Fails

\* state.json tells the same while nothing it is about changes.
LEMMA SoundFrame ==
    ASSUME UNCHANGED <<dir, file, proc, doomed, notified, frozen>>
    PROVE  Sound' <=> Sound
  BY Zenon DEF Sound, Tells, Alive

\* What holds of the shared state holds while it does not change.
LEMMA GroundFrame ==
    ASSUME Ground, UNCHANGED <<dir, file, config, sock, proc, notified, frozen>>
    PROVE  Ground'
  BY Zenon DEF Ground

-----------------------------------------------------------------------------
(* Every step keeps it. *)

\* load_container takes over what state.json tells.
LEMMA SerialLoad ==
    ASSUME IInv, IInv', Orderly, Serial, NEW c \in Cmds, Load(c)
    PROVE  Serial'
<1>1. /\ loc[c].pc = "load" /\ Sound /\ Ground /\ Turn(c)
      /\ UNCHANGED <<dir, file, config, sock, proc, doomed, notified, frozen>>
  BY Zenon DEF Load, Serial, Turn
<1> USE <1>1
<1>2. Sound' /\ Ground'
  BY Zenon, SoundFrame, GroundFrame
<1>3. \A d \in Cmds : d # c => loc'[d] = loc[d]
  BY Zenon, LoadLocal DEF IInv
<1>4. CASE Exit(c)
  BY Zenon, <1>2, <1>3, <1>4, ExitRecord, OneAtATime DEF IInv, TypeOK
<1>5. CASE ~Exit(c)
  <2>1. /\ dir # None /\ loc'[c].pc = "check" /\ loc'[c].pid = file.pid
        /\ loc'[c].status = Refresh(file.status, file.pid)
        /\ loc'[c].op = loc[c].op /\ loc'[c].sig = loc[c].sig
    <3> DEFINE t == Refresh(file.status, file.pid)
    <3>1. loc[c] \in Local /\ loc \in [Cmds -> Local]
      BY Zenon DEF IInv, TypeOK
    <3>2. /\ dir # None
          /\ loc' = [loc EXCEPT ![c] = [@ EXCEPT !.pc = "check", !.pid = file.pid, !.status = t]]
      BY Zenon, <1>5 DEF Load
    <3> HIDE DEF t
    <3>3. /\ loc'[c].pc = "check" /\ loc'[c].pid = file.pid /\ loc'[c].status = t
          /\ loc'[c].op = loc[c].op /\ loc'[c].sig = loc[c].sig
      BY Zenon, <3>1, <3>2 DEF Local
    <3> QED
      BY Zenon, <3>2, <3>3 DEF t
  <2>2. Tells(Refresh(file.status, file.pid), file.pid)
    BY Zenon, <2>1 DEF Sound, Tells, Refresh
  <2>3. Tells(loc[c].status, loc[c].pid)'
    BY Zenon, <2>1, <2>2 DEF Tells, Alive
  <2>4. loc[c].op # "create"
    BY Zenon DEF IInv, Paths, OfCreate, Saving
  <2>5. Turn(c)'
    BY Zenon, <1>2, <2>1, <2>3, <2>4 DEF Turn, Route, Looking, Saving, Before
  <2> QED
    BY Zenon, <1>2, <1>3, <2>1, <2>5, OneAtATime
<1> QED
  BY Zenon, <1>4, <1>5

\* The check of the status leads to an effect only from the right status.
LEMMA SerialCheck ==
    ASSUME IInv, IInv', Orderly, Serial, NEW c \in Cmds, Check(c)
    PROVE  Serial'
<1>1. /\ loc[c].pc = "check" /\ Ground /\ Turn(c)
      /\ Sound /\ dir # None /\ loc[c].pid = file.pid /\ Tells(loc[c].status, loc[c].pid)
      /\ UNCHANGED <<dir, file, config, sock, proc, doomed, notified, frozen>>
  BY Zenon DEF Check, Serial, Turn, Looking
<1> USE <1>1
<1>2. Sound' /\ Ground'
  BY Zenon, SoundFrame, GroundFrame
<1>3. loc[c].op \in AllOps \ {"create"}
  BY Zenon DEF IInv, Paths, OfCreate, Saving, TypeOK, Local
<1>4. \A d \in Cmds : d # c => loc'[d] = loc[d]
  BY Zenon, <1>3, CheckLocal DEF IInv
<1>5. CASE Exit(c)
  BY Zenon, <1>2, <1>4, <1>5, ExitRecord, OneAtATime DEF IInv, TypeOK
<1>6. CASE ~Exit(c)
  <2> DEFINE s == Refresh(loc[c].status, loc[c].pid)
  <2>1. Tells(s, loc[c].pid)
    BY Zenon DEF Tells, Refresh
  <2> HIDE DEF s
  <2>2. /\ loc'[c].op = loc[c].op /\ loc'[c].sig = loc[c].sig
        /\ loc'[c].pid = loc[c].pid /\ loc'[c].status = s
        /\ loc'[c].pc = CASE loc[c].op = "start" -> StartFrom(s)
                          [] loc[c].op = "kill" -> KillFrom(s, loc[c].flag)
                          [] loc[c].op = "delete" -> DeleteFrom(s, loc[c].flag)
                          [] loc[c].op = "pause" -> PauseFrom(s)
                          [] loc[c].op = "resume" -> ResumeFrom(s)
    <3> DEFINE n == CASE loc[c].op = "start" -> StartFrom(s)
                      [] loc[c].op = "kill" -> KillFrom(s, loc[c].flag)
                      [] loc[c].op = "delete" -> DeleteFrom(s, loc[c].flag)
                      [] loc[c].op = "pause" -> PauseFrom(s)
                      [] loc[c].op = "resume" -> ResumeFrom(s)
    <3>1. loc[c] \in Local /\ loc \in [Cmds -> Local]
      BY Zenon DEF IInv, TypeOK
    <3>2. loc' = [loc EXCEPT ![c] = [@ EXCEPT !.pc = n, !.status = s]]
      BY Zenon, <1>6 DEF Check, s
    <3> HIDE DEF n
    <3>3. /\ loc'[c].pc = n /\ loc'[c].pid = loc[c].pid /\ loc'[c].status = s
          /\ loc'[c].op = loc[c].op /\ loc'[c].sig = loc[c].sig
      BY Zenon, <3>1, <3>2 DEF Local
    <3> QED
      BY Zenon, <3>3 DEF n
  <2>3. \/ loc'[c].op = "start" /\ loc'[c].pc = "connect" /\ s = "Created"
        \/ loc'[c].op = "kill" /\ loc'[c].pc \in {"freeze", "kill"}
        \/ loc'[c].op = "delete" /\ loc'[c].pc \in {"freeze", "uncgroup"}
        \/ loc'[c].op = "pause" /\ loc'[c].pc = "freeze" /\ s = "Running"
        \/ loc'[c].op = "resume" /\ loc'[c].pc = "thaw" /\ s = "Paused"
        \/ loc'[c].pc = "idle"
    BY Zenon, <1>3, <2>2 DEF AllOps, StartFrom, KillFrom, DeleteFrom, PauseFrom, ResumeFrom
  <2>4. Tells(loc[c].status, loc[c].pid)'
    BY Zenon, <2>1, <2>2 DEF Tells, Alive
  <2>5. dir' # None /\ loc'[c].pid = file'.pid /\ file'.kind = "json"
    BY Zenon, <2>2 DEF Sound
  <2>6. loc'[c].pc # "idle" => Turn(c)'
    BY Zenon, <1>2, <2>2, <2>3, <2>4, <2>5 DEF Turn, Route, Looking, Saving, Before
  <2> QED
    BY Zenon, <1>2, <1>4, <2>6, OneAtATime
<1> QED
  BY Zenon, <1>5, <1>6

\* start connects to the socket of the process state.json names, and saves
\* Running.
LEMMA SerialConnect ==
    ASSUME IInv, IInv', Orderly, Serial, NEW c \in Cmds, Connect(c)
    PROVE  Serial'
<1>1. /\ loc[c].pc = "connect" /\ Ground /\ Turn(c)
      /\ Sound /\ dir # None /\ loc[c].pid = file.pid /\ Tells(loc[c].status, loc[c].pid)
      /\ loc[c].status = "Created" /\ loc[c].op = "start"
      /\ UNCHANGED <<dir, file, config, sock, proc, doomed, frozen>>
  BY Zenon DEF Connect, Serial, Turn, Route, Looking
<1> USE <1>1
<1>2. CASE Exit(c) /\ UNCHANGED notified
  <2>1. Sound' /\ Ground'
    BY Zenon, <1>2, SoundFrame, GroundFrame
  <2> QED
    BY Zenon, <1>2, <2>1, ExitRecord, OneAtATime DEF IInv, TypeOK
<1>3. CASE /\ sock # None /\ Alive(sock)
           /\ notified' = notified \cup {sock} /\ Save(c, "Running")
  <2>1. /\ loc'[c].pc = "open" /\ loc'[c].op = loc[c].op /\ loc'[c].sig = loc[c].sig
        /\ loc'[c].pid = loc[c].pid /\ loc'[c].status = "Running"
        /\ \A d \in Cmds : d # c => loc'[d] = loc[d]
    BY Zenon, <1>3, SaveRecord DEF IInv, TypeOK, Status
  <2>2. Ground'
    BY Zenon, <1>3 DEF Ground
  <2>3. loc[c].pid \in {None, sock}
    BY Zenon, <1>3 DEF Ground
  <2>4. Tells("Running", loc[c].pid)'
    <3> SUFFICES ASSUME Alive(loc[c].pid)', loc'[c].pid \notin doomed'
                 PROVE  ~frozen' /\ loc'[c].pid \in notified'
      BY Zenon DEF Tells
    <3>1. Alive(loc[c].pid) /\ loc[c].pid \notin doomed
      BY Zenon, <2>1 DEF Alive
    <3>2. loc[c].pid = sock
      BY Zenon, <2>3, <3>1 DEF Alive
    <3> QED
      BY Zenon, <1>3, <2>1, <3>1, <3>2 DEF Tells
  <2>5. SavedPid(c)' = loc'[c].pid /\ loc'[c].pid \in {None, dir'}
    BY Zenon, <2>1 DEF SavedPid, Ground
  <2>6. Turn(c)'
    BY Zenon, <2>1, <2>4, <2>5 DEF Turn, Route, Looking, Saving, Before, OfCreate
  <2> QED
    BY Zenon, <2>1, <2>2, <2>6, OneAtATime
<1> QED
  BY Zenon, <1>2, <1>3 DEF Connect

\* The freezer works for pause, which saves Paused, or it is left thawed; what
\* kill and delete leave for the moment no other command sees.
LEMMA SerialFreeze ==
    ASSUME IInv, IInv', Orderly, Serial, NEW c \in Cmds, Freeze(c)
    PROVE  Serial'
<1>1. /\ loc[c].pc = "freeze" /\ Ground /\ Turn(c)
      /\ Sound /\ dir # None /\ loc[c].pid = file.pid /\ Tells(loc[c].status, loc[c].pid)
      /\ loc[c].op = "pause" => loc[c].status = "Running"
      /\ loc[c].op \in {"pause", "kill", "delete"}
      /\ UNCHANGED <<env, dir, file, config, sock, proc, doomed, notified, cgroup>>
  BY Zenon DEF Freeze, Serial, Turn, Route, Looking
<1> USE <1>1
<1>2. Ground'
  BY SMTT(30) DEF Freeze, Ground, LeftByFailure
<1>3. file.kind = "json"
  BY Zenon DEF Sound
<1>4. CASE Goto(c, "signal") /\ loc[c].op \in {"kill", "delete"}
  <2>1. /\ loc'[c].pc = "signal" /\ loc'[c].op = loc[c].op /\ loc'[c].sig = loc[c].sig
        /\ loc'[c].pid = loc[c].pid
        /\ \A d \in Cmds : d # c => loc'[d] = loc[d]
    BY Zenon, <1>4, GotoRecord DEF IInv, TypeOK, Pc
  <2>2. Turn(c)'
    BY Zenon, <1>3, <1>4, <2>1 DEF Turn, Route, Looking, Saving, Before, OfCreate
  <2> QED
    BY Zenon, <1>2, <2>1, <2>2, OneAtATime
<1>5. CASE Save(c, "Paused") /\ frozen' = TRUE /\ loc[c].op = "pause"
  <2>1. /\ loc'[c].pc = "open" /\ loc'[c].op = loc[c].op /\ loc'[c].sig = loc[c].sig
        /\ loc'[c].pid = loc[c].pid /\ loc'[c].status = "Paused"
        /\ \A d \in Cmds : d # c => loc'[d] = loc[d]
    BY Zenon, <1>5, SaveRecord DEF IInv, TypeOK, Status
  <2>2. Tells("Paused", loc[c].pid)'
    BY Zenon, <1>5, <2>1 DEF Tells, Alive
  <2>3. SavedPid(c)' = loc'[c].pid /\ loc'[c].pid \in {None, dir'}
    BY Zenon, <2>1 DEF SavedPid, Ground
  <2>4. Turn(c)'
    BY Zenon, <1>5, <2>1, <2>2, <2>3 DEF Turn, Route, Looking, Saving, Before, OfCreate
  <2> QED
    BY Zenon, <1>2, <2>1, <2>4, OneAtATime
<1>6. CASE Exit(c) /\ UNCHANGED frozen
  <2>1. Sound'
    BY Zenon, <1>6, SoundFrame
  <2> QED
    BY Zenon, <1>2, <1>6, <2>1, ExitRecord, OneAtATime DEF IInv, TypeOK
<1>7. CASE /\ Exit(c) /\ frozen' \in LeftByFailure /\ loc[c].op = "pause"
           /\ ~CanFreeze \/ Fails("freeze")
  <2>1. frozen' = frozen \/ frozen' = FALSE
    BY Zenon, <1>7, OrderlyFacts DEF IInv, LeftByFailure, CanFreeze
  <2>2. Tells(file.status, file.pid)'
    BY Zenon, <1>3, <1>7, <2>1 DEF Sound, Tells, Alive
  <2>3. Sound'
    BY Zenon, <1>3, <2>2 DEF Sound
  <2> QED
    BY Zenon, <1>2, <1>7, <2>3, ExitRecord, OneAtATime DEF IInv, TypeOK
<1> QED
  BY Zenon, <1>4, <1>5, <1>6, <1>7 DEF Freeze

\* A cgroup that is gone had no members; one that is there loses them all.
LEMMA SerialSignal ==
    ASSUME IInv, IInv', Orderly, Serial, NEW c \in Cmds, Signal(c)
    PROVE  Serial'
<1>1. /\ loc[c].pc = "signal" /\ Ground /\ Turn(c) /\ loc[c].op \in {"kill", "delete"}
      /\ dir # None /\ file.kind = "json" /\ loc[c].pid = file.pid
      /\ UNCHANGED <<env, dir, file, config, sock, proc, notified, cgroup, frozen>>
  BY Zenon DEF Signal, Serial, Turn, Route
<1> USE <1>1
<1>2. Ground'
  BY Zenon, GroundFrame
<1>3. CASE Deliver(Members, "KILL") /\ Goto(c, "thaw")
  <2>1. /\ loc'[c].pc = "thaw" /\ loc'[c].op = loc[c].op /\ loc'[c].sig = loc[c].sig
        /\ loc'[c].pid = loc[c].pid
        /\ \A d \in Cmds : d # c => loc'[d] = loc[d]
    BY Zenon, <1>3, GotoRecord DEF IInv, TypeOK, Pc
  <2>2. Members' \subseteq doomed'
    BY Zenon, <1>3 DEF Deliver, Members, Alive
  <2>3. Turn(c)'
    BY Zenon, <2>1, <2>2 DEF Turn, Route, Looking, Saving, Before, OfCreate
  <2> QED
    BY Zenon, <1>2, <2>1, <2>3, OneAtATime
<1>4. CASE Exit(c) /\ ~cgroup /\ UNCHANGED doomed
  <2>1. ~Alive(file.pid)
    BY Zenon, <1>4 DEF IInv, Footing, Members, TypeOK, File, Alive
  <2>2. Sound'
    BY Zenon, <2>1 DEF Sound, Tells, Alive
  <2> QED
    BY Zenon, <1>2, <1>4, <2>2, ExitRecord, OneAtATime DEF IInv, TypeOK
<1> QED
  BY Zenon, <1>3, <1>4, OrderlyFacts DEF Signal, Turn, Route, IInv

\* kill_one_process kills the process state.json names.
LEMMA SerialKillOne ==
    ASSUME IInv, IInv', Orderly, Serial, NEW c \in Cmds, KillOne(c)
    PROVE  Serial'
<1>1. /\ loc[c].pc = "kill" /\ Ground /\ Turn(c) /\ loc[c].op = "kill" /\ loc[c].sig = "KILL"
      /\ dir # None /\ file.kind = "json" /\ loc[c].pid = file.pid
      /\ UNCHANGED <<env, dir, file, config, sock, proc, notified, cgroup, frozen>>
  BY Zenon DEF KillOne, Serial, Turn, Route, Looking, Sound
<1> USE <1>1
<1>2. Ground'
  BY Zenon, GroundFrame
<1>3. Deliver({p \in Members : p = loc[c].pid}, "KILL")
  BY Zenon, OrderlyFacts DEF KillOne, IInv
<1>4. loc[c].pid \notin Members' \ doomed'
  BY Zenon, <1>3 DEF Deliver, Members, Alive
<1>5. CASE Goto(c, "thaw")
  <2>1. /\ loc'[c].pc = "thaw" /\ loc'[c].op = loc[c].op /\ loc'[c].sig = loc[c].sig
        /\ loc'[c].pid = loc[c].pid
        /\ \A d \in Cmds : d # c => loc'[d] = loc[d]
    BY Zenon, <1>5, GotoRecord DEF IInv, TypeOK, Pc
  <2>2. Turn(c)'
    BY Zenon, <1>4, <2>1 DEF Turn, Route, Looking, Saving, Before, OfCreate
  <2> QED
    BY Zenon, <1>2, <2>1, <2>2, OneAtATime
<1>6. CASE Save(c, "Stopped")
  <2>1. /\ loc'[c].pc = "open" /\ loc'[c].op = loc[c].op /\ loc'[c].sig = loc[c].sig
        /\ loc'[c].pid = loc[c].pid /\ loc'[c].status = "Stopped"
        /\ \A d \in Cmds : d # c => loc'[d] = loc[d]
    BY Zenon, <1>6, SaveRecord DEF IInv, TypeOK, Status
  <2>2. Tells("Stopped", loc[c].pid)'
    <3>1. loc'[c].pid \in Pids \cup {None}
      BY Zenon DEF IInv, TypeOK, Local
    <3> QED
      BY Zenon, <1>4, <2>1, <3>1 DEF Tells, Members, Alive
  <2>3. SavedPid(c)' = loc'[c].pid /\ loc'[c].pid \in {None, dir'}
    BY Zenon, <2>1 DEF SavedPid, Ground
  <2>4. Turn(c)'
    BY Zenon, <2>1, <2>2, <2>3 DEF Turn, Route, Looking, Saving, Before, OfCreate
  <2> QED
    BY Zenon, <1>2, <2>1, <2>4, OneAtATime
<1> QED
  BY Zenon, <1>5, <1>6, OrderlyFacts DEF KillOne, IInv

\* A thaw leads to a save: of Running for resume, of Stopped for whoever killed
\* the process.
LEMMA SerialThaw ==
    ASSUME IInv, IInv', Orderly, Serial, NEW c \in Cmds, Thaw(c)
    PROVE  Serial'
<1>1. /\ loc[c].pc = "thaw" /\ Ground /\ Turn(c) /\ loc[c].op \in {"resume", "kill", "delete"}
      /\ dir # None /\ file.kind = "json" /\ loc[c].pid = file.pid
      /\ loc[c].op = "resume" => Sound /\ Tells("Paused", loc[c].pid)
      /\ loc[c].op # "resume" => loc[c].pid \notin Members \ doomed
      /\ UNCHANGED <<env, dir, file, config, sock, proc, doomed, notified, cgroup>>
  BY Zenon DEF Thaw, Serial, Turn, Route, Looking
<1> USE <1>1
<1>2. Ground'
  BY SMTT(30), OrderlyFacts DEF Thaw, Ground, IInv
<1>3. loc[c].pid \in Pids \cup {None}
  BY Zenon DEF IInv, TypeOK, Local
<1>4. loc[c].op # "resume" => ~Alive(loc[c].pid) \/ loc[c].pid \in doomed
  BY Zenon, <1>3 DEF Members, Alive
<1>5. CASE Exit(c) /\ UNCHANGED frozen
  <2>1. Sound'
    BY Zenon, <1>4, <1>5 DEF Sound, Tells, Alive
  <2> QED
    BY Zenon, <1>2, <1>5, <2>1, ExitRecord, OneAtATime DEF IInv, TypeOK
<1>6. ASSUME NEW s \in {"Running", "Stopped"}, Save(c, s), frozen' = FALSE,
             s = "Running" <=> loc[c].op = "resume"
      PROVE  Serial'
  <2>1. /\ loc'[c].pc = "open" /\ loc'[c].op = loc[c].op /\ loc'[c].sig = loc[c].sig
        /\ loc'[c].pid = loc[c].pid /\ loc'[c].status = s
        /\ \A d \in Cmds : d # c => loc'[d] = loc[d]
    BY Zenon, <1>6, SaveRecord DEF IInv, TypeOK, Status
  <2>2. Tells(s, loc[c].pid)'
    BY Zenon, <1>4, <1>6, <2>1 DEF Tells, Alive
  <2>3. SavedPid(c)' = loc'[c].pid /\ loc'[c].pid \in {None, dir'}
    BY Zenon, <2>1 DEF SavedPid, Ground
  <2>4. Turn(c)'
    BY Zenon, <2>1, <2>2, <2>3 DEF Turn, Route, Looking, Saving, Before, OfCreate
  <2> QED
    BY Zenon, <1>2, <2>1, <2>4, OneAtATime
<1> QED
  BY Zenon, <1>5, <1>6, OrderlyFacts DEF Thaw, IInv

\* A save truncates state.json, whose directory is there.
LEMMA SerialOpen ==
    ASSUME IInv, IInv', Orderly, Serial, NEW c \in Cmds, Open(c)
    PROVE  Serial'
<1>1. /\ loc[c].pc = "open" /\ Ground /\ Turn(c)
      /\ dir # None /\ loc[c].pid \in {None, dir} /\ Tells(loc[c].status, SavedPid(c))
      /\ UNCHANGED <<env, dir, config, sock, proc, doomed, notified, cgroup, frozen>>
  BY Zenon DEF Open, Serial, Turn, Saving
<1> USE <1>1
<1>2. /\ file' = [NoFile EXCEPT !.kind = "empty"]
      /\ loc' = [loc EXCEPT ![c] = [@ EXCEPT !.pc = "write", !.inode = dir]]
  BY Zenon, OrderlyFacts DEF Open, IInv
<1>3. /\ loc'[c].pc = "write" /\ loc'[c].op = loc[c].op /\ loc'[c].sig = loc[c].sig
      /\ loc'[c].pid = loc[c].pid /\ loc'[c].status = loc[c].status
      /\ loc'[c].inode = dir
      /\ \A d \in Cmds : d # c => loc'[d] = loc[d]
  BY SMTT(30), <1>2 DEF IInv, TypeOK, Local
<1>4. Ground'
  BY Zenon, <1>2 DEF Ground, NoFile
<1>5. SavedPid(c)' = SavedPid(c) /\ file'.kind = "empty"
  BY Zenon, <1>2, <1>3 DEF SavedPid, NoFile
<1>6. Tells(loc[c].status, SavedPid(c))'
  BY Zenon, <1>3, <1>5 DEF Tells, Alive
<1>7. Turn(c)'
  BY Zenon, <1>3, <1>5, <1>6 DEF Turn, Route, Looking, Saving, Before, OfCreate
<1> QED
  BY Zenon, <1>3, <1>4, <1>7, OneAtATime

\* The save writes a status that tells how the process is.
LEMMA SerialWrite ==
    ASSUME IInv, IInv', Orderly, Serial, NEW c \in Cmds, Write(c)
    PROVE  Serial'
<1>1. /\ loc[c].pc = "write" /\ Ground /\ Turn(c)
      /\ dir # None /\ loc[c].pid \in {None, dir} /\ Tells(loc[c].status, SavedPid(c))
      /\ loc[c].inode = dir /\ file.kind = "empty"
      /\ UNCHANGED <<env, dir, config, sock, proc, doomed, notified, cgroup, frozen>>
  BY Zenon DEF Write, Serial, Turn, Saving
<1> USE <1>1
<1>2. file' = [kind |-> "json", status |-> loc[c].status, pid |-> SavedPid(c)]
  BY Zenon DEF Write, Overwritten, SavedPid
<1>3. Ground'
  BY Zenon, <1>2 DEF Ground, SavedPid
<1>4. Sound'
  BY Zenon, <1>2 DEF Sound, Tells, Alive
<1>5. CASE loc[c].op = "create" /\ loc[c].status = "Creating" /\ Goto(c, "config")
  <2>1. /\ loc'[c].pc = "config" /\ loc'[c].op = loc[c].op /\ loc'[c].sig = loc[c].sig
        /\ loc'[c].pid = loc[c].pid
        /\ \A d \in Cmds : d # c => loc'[d] = loc[d]
    BY Zenon, <1>5, GotoRecord DEF IInv, TypeOK, Pc
  <2>2. proc'[loc'[c].pid] = "none" /\ ~frozen' /\ dir' = loc'[c].pid /\ file'.pid = None
    BY Zenon, <1>2, <1>5, <2>1 DEF Turn, Before, Saving, SavedPid
  <2>3. Turn(c)'
    BY Zenon, <1>4, <1>5, <2>1, <2>2 DEF Turn, Route, Looking, Saving, Before, OfCreate
  <2> QED
    BY Zenon, <1>3, <2>1, <2>3, OneAtATime
<1>6. CASE loc[c].op = "delete" /\ Goto(c, "uncgroup")
  <2>1. /\ loc'[c].pc = "uncgroup" /\ loc'[c].op = loc[c].op /\ loc'[c].sig = loc[c].sig
        /\ \A d \in Cmds : d # c => loc'[d] = loc[d]
    BY Zenon, <1>6, GotoRecord DEF IInv, TypeOK, Pc
  <2>2. Turn(c)'
    BY Zenon, <1>4, <1>6, <2>1 DEF Turn, Route, Looking, Saving, Before, OfCreate
  <2> QED
    BY Zenon, <1>3, <2>1, <2>2, OneAtATime
<1>7. CASE Exit(c)
  BY Zenon, <1>3, <1>4, <1>7, ExitRecord, OneAtATime DEF IInv, TypeOK
<1> QED
  BY Zenon, <1>5, <1>6, <1>7 DEF Write

\* The removal of the cgroup kills its members; without a config there is none.
LEMMA SerialUncgroup ==
    ASSUME IInv, IInv', Orderly, Serial, NEW c \in Cmds, Uncgroup(c)
    PROVE  Serial'
<1>1. /\ loc[c].pc = "uncgroup" /\ Ground /\ Turn(c) /\ loc[c].op \in {"create", "delete"}
      /\ Sound /\ dir # None
      /\ loc[c].op = "create" => ~frozen
      /\ UNCHANGED <<env, dir, file, config, sock, proc, notified, cgroup, frozen>>
  BY Zenon DEF Uncgroup, Serial, Turn, Route
<1> USE <1>1
<1>2. Ground'
  BY Zenon, GroundFrame
<1>3. Sound'
  <2>1. doomed \subseteq doomed'
    BY Zenon DEF Uncgroup
  <2> QED
    BY Zenon, <2>1 DEF Sound, Tells, Alive
<1>4. ASSUME NEW l \in {"reap", "rmdir"}, Goto(c, l), l = "rmdir" => ~config
      PROVE  Serial'
  <2>1. /\ loc'[c].pc = l /\ loc'[c].op = loc[c].op /\ loc'[c].sig = loc[c].sig
        /\ \A d \in Cmds : d # c => loc'[d] = loc[d]
    BY Zenon, <1>4, GotoRecord DEF IInv, TypeOK, Pc
  <2>2. l = "rmdir" => ~frozen'
    BY Zenon, <1>4 DEF Ground
  <2>3. Turn(c)'
    BY Zenon, <1>3, <2>1, <2>2 DEF Turn, Route, Looking, Saving, Before, OfCreate
  <2> QED
    BY Zenon, <1>2, <2>1, <2>3, OneAtATime
<1>5. CASE Exit(c)
  BY Zenon, <1>2, <1>3, <1>5, ExitRecord, OneAtATime DEF IInv, TypeOK
<1> QED
  BY Zenon, <1>4, <1>5, OrderlyFacts DEF Uncgroup, IInv

\* The cgroup goes once it is empty, or delete gives up.
LEMMA SerialReap ==
    ASSUME IInv, IInv', Orderly, Serial, NEW c \in Cmds, Reap(c)
    PROVE  Serial'
<1>1. /\ loc[c].pc = "reap" /\ Ground /\ Turn(c) /\ loc[c].op \in {"create", "delete"}
      /\ loc[c].op = "delete" => Sound
      /\ loc[c].op = "create" => ~frozen
      /\ UNCHANGED <<env, dir, file, config, sock, proc, doomed, notified>>
  BY Zenon DEF Reap, Serial, Turn, Route
<1> USE <1>1
<1>2. (frozen' = FALSE /\ Members = {}) \/ frozen' = frozen
  BY Zenon DEF Reap, IInv, Footing
<1>3. Ground'
  BY SMTT(30), <1>2 DEF Ground
<1>4. CASE Goto(c, "rmdir") /\ ~frozen'
  <2>1. /\ loc'[c].pc = "rmdir" /\ loc'[c].op = loc[c].op /\ loc'[c].sig = loc[c].sig
        /\ \A d \in Cmds : d # c => loc'[d] = loc[d]
    BY Zenon, <1>4, GotoRecord DEF IInv, TypeOK, Pc
  <2>2. Turn(c)'
    BY Zenon, <1>4, <2>1 DEF Turn, Route, Looking, Saving, Before, OfCreate
  <2> QED
    BY Zenon, <1>3, <2>1, <2>2, OneAtATime
<1>5. CASE Exit(c) /\ loc[c].op = "delete"
  <2>1. frozen' # frozen => ~Alive(file.pid)
    BY Zenon, <1>2 DEF Members, IInv, TypeOK, File, Alive
  <2>2. Sound'
    BY Zenon, <1>5, <2>1 DEF Sound, Tells, Alive
  <2> QED
    BY Zenon, <1>3, <1>5, <2>2, ExitRecord, OneAtATime DEF IInv, TypeOK
<1> QED
  BY SMTT(30), <1>4, <1>5 DEF Reap

\* The directory goes entry by entry, and the command with it.
LEMMA SerialRmdir ==
    ASSUME IInv, IInv', Orderly, Serial, NEW c \in Cmds, Rmdir(c)
    PROVE  Serial'
<1>1. /\ loc[c].pc = "rmdir" /\ Ground /\ Turn(c) /\ ~frozen
      /\ loc[c].op \in {"create", "delete"}
      /\ UNCHANGED <<env, proc, doomed, notified, cgroup, frozen>>
  BY Zenon DEF Rmdir, Serial, Turn, Route
<1> USE <1>1
<1>2. ~Fails("rmdir")
  BY Zenon, OrderlyFacts DEF IInv
<1>3. Ground'
  <2>1. CASE file' = NoFile /\ UNCHANGED <<config, sock, dir>>
    BY Zenon, <2>1 DEF Ground, NoFile
  <2>2. CASE UNCHANGED <<file, sock, dir>>
    BY Zenon, <2>2 DEF Ground
  <2>3. CASE sock' = None /\ UNCHANGED <<file, config, dir>>
    BY Zenon, <2>3 DEF Ground
  <2>4. CASE /\ dir' = None /\ file.kind = "absent" /\ sock = None
             /\ UNCHANGED <<file, config, sock>>
    BY Zenon, <2>4 DEF Ground
  <2> QED
    BY Zenon, <1>2, <2>1, <2>2, <2>3, <2>4 DEF Rmdir
<1>4. CASE UNCHANGED loc
  <2>1. Turn(c)'
    BY Zenon, <1>4 DEF Turn, Route, Looking, Saving, Before, OfCreate
  <2> QED
    BY Zenon, <1>3, <1>4, <2>1, OneAtATime
<1>5. CASE Exit(c) /\ dir' = None
  <2>1. Sound'
    BY Zenon, <1>5 DEF Sound
  <2> QED
    BY Zenon, <1>3, <1>5, <2>1, ExitRecord, OneAtATime DEF IInv, TypeOK
<1> QED
  BY Zenon, <1>2, <1>4, <1>5 DEF Rmdir

\* create goes on only if there is no directory, and then nothing is frozen.
LEMMA SerialExists ==
    ASSUME IInv, IInv', Orderly, Serial, NEW c \in Cmds, Exists(c)
    PROVE  Serial'
<1>1. /\ loc[c].pc = "exists" /\ Ground /\ Turn(c) /\ Sound
      /\ loc[c].op = "create" /\ proc[loc[c].pid] = "none"
      /\ UNCHANGED <<dir, file, config, sock, proc, doomed, notified, frozen>>
  BY Zenon DEF Exists, Serial, Turn, Before, IInv, Paths, OfCreate
<1> USE <1>1
<1>2. Sound' /\ Ground'
  BY Zenon, SoundFrame, GroundFrame
<1>3. CASE dir = None /\ Goto(c, "mkdir")
  <2>1. /\ loc'[c].pc = "mkdir" /\ loc'[c].op = loc[c].op /\ loc'[c].sig = loc[c].sig
        /\ loc'[c].pid = loc[c].pid
        /\ \A d \in Cmds : d # c => loc'[d] = loc[d]
    BY Zenon, <1>3, GotoRecord DEF IInv, TypeOK, Pc
  <2>2. ~frozen'
    BY Zenon, <1>3 DEF Ground, IInv, Footing
  <2>3. Turn(c)'
    BY Zenon, <1>3, <2>1, <2>2 DEF Turn, Route, Looking, Saving, Before, OfCreate
  <2> QED
    BY Zenon, <1>2, <2>1, <2>3, OneAtATime
<1>4. CASE Exit(c)
  BY Zenon, <1>2, <1>4, ExitRecord, OneAtATime DEF IInv, TypeOK
<1> QED
  BY Zenon, <1>3, <1>4 DEF Exists

\* create makes the directory, and turns to saving Creating without a pid.
LEMMA SerialMkdir ==
    ASSUME IInv, IInv', Orderly, Serial, NEW c \in Cmds, Mkdir(c)
    PROVE  Serial'
<1>1. /\ loc[c].pc = "mkdir" /\ Ground /\ Turn(c) /\ dir = None
      /\ loc[c].op = "create" /\ proc[loc[c].pid] = "none" /\ ~frozen
  BY Zenon DEF Mkdir, Serial, Turn, Before, IInv, Paths, OfCreate
<1> USE <1>1
<1>2. UNCHANGED <<file, config, sock, proc, doomed, notified, frozen>> /\ dir' = loc[c].pid
  BY Zenon DEF Mkdir
<1>3. Ground' /\ dir' # None
  BY SMTT(30), <1>2 DEF Ground, IInv, Footing, Pids, None
<1>4. /\ loc'[c].pc = "open" /\ loc'[c].op = loc[c].op /\ loc'[c].sig = loc[c].sig
      /\ loc'[c].pid = loc[c].pid /\ loc'[c].status = "Creating"
      /\ \A d \in Cmds : d # c => loc'[d] = loc[d]
  BY Zenon, SaveRecord DEF IInv, TypeOK, Status, Mkdir
<1>5. SavedPid(c)' = None
  BY Zenon, <1>4 DEF SavedPid
<1>6. Tells(loc[c].status, SavedPid(c))'
  BY Zenon, <1>5 DEF Tells, Alive
<1>7. Turn(c)'
  BY Zenon, <1>2, <1>3, <1>4, <1>6 DEF Turn, Route, Looking, Saving, Before, OfCreate
<1> QED
  BY Zenon, <1>3, <1>4, <1>7, OneAtATime

\* create saves the config, or leaves the directory with Creating in it.
LEMMA SerialConfig ==
    ASSUME IInv, IInv', Orderly, Serial, NEW c \in Cmds, Config(c)
    PROVE  Serial'
<1>1. /\ loc[c].pc = "config" /\ Ground /\ Turn(c) /\ Sound
      /\ loc[c].op = "create" /\ dir = loc[c].pid
      /\ UNCHANGED <<dir, file, sock, proc, doomed, notified, frozen>>
  BY Zenon DEF Config, Serial, Turn, IInv, Paths, OfCreate
<1> USE <1>1
<1>2. Sound' /\ Ground'
  <2>1. config => config'
    BY Zenon DEF Config
  <2> QED
    BY Zenon, <2>1, SoundFrame DEF Ground
<1>3. CASE Goto(c, "bind")
  <2>1. /\ loc'[c].pc = "bind" /\ loc'[c].op = loc[c].op /\ loc'[c].sig = loc[c].sig
        /\ loc'[c].pid = loc[c].pid
        /\ \A d \in Cmds : d # c => loc'[d] = loc[d]
    BY Zenon, <1>3, GotoRecord DEF IInv, TypeOK, Pc
  <2>2. Turn(c)'
    BY Zenon, <1>2, <2>1 DEF Turn, Route, Looking, Saving, Before, OfCreate
  <2> QED
    BY Zenon, <1>2, <2>1, <2>2, OneAtATime
<1>4. CASE Exit(c)
  BY Zenon, <1>2, <1>4, ExitRecord, OneAtATime DEF IInv, TypeOK
<1> QED
  BY Zenon, <1>3, <1>4 DEF Config

\* create binds the notify socket in its directory, or turns to its cleanup.
LEMMA SerialBind ==
    ASSUME IInv, IInv', Orderly, Serial, NEW c \in Cmds, Bind(c)
    PROVE  Serial'
<1>1. /\ loc[c].pc = "bind" /\ Ground /\ Turn(c) /\ Sound
      /\ loc[c].op = "create" /\ dir = loc[c].pid /\ dir # None
      /\ UNCHANGED <<dir, file, config, proc, doomed, notified, frozen>>
  BY SMTT(30) DEF Bind, Serial, Turn, IInv, Paths, Footing, OfCreate, Pids, None
<1> USE <1>1
<1>2. Sound' /\ Ground'
  <2>1. sock' \in {sock, dir}
    BY Zenon DEF Bind
  <2> QED
    BY Zenon, <2>1, SoundFrame DEF Ground
<1>3. ASSUME NEW l \in {"spawn", "uncgroup"}, Goto(c, l) PROVE Serial'
  <2>1. /\ loc'[c].pc = l /\ loc'[c].op = loc[c].op /\ loc'[c].sig = loc[c].sig
        /\ loc'[c].pid = loc[c].pid
        /\ \A d \in Cmds : d # c => loc'[d] = loc[d]
    BY Zenon, <1>3, GotoRecord DEF IInv, TypeOK, Pc
  <2>2. Turn(c)'
    BY Zenon, <1>2, <2>1 DEF Turn, Route, Looking, Saving, Before, OfCreate
  <2> QED
    BY Zenon, <1>2, <2>1, <2>2, OneAtATime
<1> QED
  BY Zenon, <1>3 DEF Bind

\* The new process waits, thawed and not notified; create saves Created with
\* its pid, or turns to its cleanup.
LEMMA SerialSpawn ==
    ASSUME IInv, IInv', Orderly, Serial, NEW c \in Cmds, Spawn(c)
    PROVE  Serial'
<1>1. /\ loc[c].pc = "spawn" /\ Ground /\ Turn(c) /\ Sound /\ file.pid = None
      /\ loc[c].op = "create" /\ dir = loc[c].pid /\ dir # None /\ ~frozen
      /\ loc[c].pid \in Pids /\ proc[loc[c].pid] = "none"
      /\ UNCHANGED <<dir, file, config, sock, doomed, notified, frozen>>
  BY SMTT(30) DEF Spawn, Serial, Turn, IInv, Paths, Footing, OfCreate, Pids, None, Before
<1> USE <1>1
<1>2. \A p \in Pids : proc'[p] = "running" => proc[p] = "running"
  BY Zenon DEF Spawn, IInv, TypeOK
<1>3. Ground'
  BY Zenon, <1>2 DEF Ground
<1>4. Sound'
  BY Zenon DEF Sound, Tells, Alive
<1>5. CASE Save(c, "Created")
  <2>1. /\ loc'[c].pc = "open" /\ loc'[c].op = loc[c].op /\ loc'[c].sig = loc[c].sig
        /\ loc'[c].pid = loc[c].pid /\ loc'[c].status = "Created"
        /\ \A d \in Cmds : d # c => loc'[d] = loc[d]
    BY Zenon, <1>5, SaveRecord DEF IInv, TypeOK, Status
  <2>2. loc[c].pid \notin notified
    BY Zenon DEF IInv, Footing
  <2>3. SavedPid(c)' = loc'[c].pid
    BY Zenon, <2>1 DEF SavedPid
  <2>4. Tells(loc[c].status, SavedPid(c))'
    BY Zenon, <2>1, <2>2, <2>3 DEF Tells
  <2>5. Turn(c)'
    BY Zenon, <2>1, <2>4 DEF Turn, Route, Looking, Saving, Before, OfCreate
  <2> QED
    BY Zenon, <1>3, <2>1, <2>5, OneAtATime
<1>6. CASE Goto(c, "uncgroup")
  <2>1. /\ loc'[c].pc = "uncgroup" /\ loc'[c].op = loc[c].op /\ loc'[c].sig = loc[c].sig
        /\ \A d \in Cmds : d # c => loc'[d] = loc[d]
    BY Zenon, <1>6, GotoRecord DEF IInv, TypeOK, Pc
  <2>2. Turn(c)'
    BY Zenon, <1>4, <2>1 DEF Turn, Route, Looking, Saving, Before, OfCreate
  <2> QED
    BY Zenon, <1>3, <2>1, <2>2, OneAtATime
<1> QED
  BY Zenon, <1>5, <1>6 DEF Spawn

\* A process that starts, exits or dies is told of as before, or is gone.
LEMMA SerialProcess ==
    ASSUME IInv, IInv', Orderly, Serial, NEW q \in Pids,
           InitStart(q) \/ ProcessExit(q) \/ Die(q)
    PROVE  Serial'
<1>1. /\ UNCHANGED <<env, dir, file, config, sock, doomed, notified, frozen, loc>>
      /\ \A p \in Pids : proc'[p] = "running" => p \in notified
      /\ \A p \in Pids : proc'[p] \in {"waiting", "running"} => proc[p] \in {"waiting", "running"}
      /\ \A p \in Pids : proc[p] = "none" => proc'[p] = "none"
  BY Zenon DEF InitStart, ProcessExit, Die, Alive, Serial, Ground, IInv, TypeOK
<1>2. \A p \in Pids \cup {None} : Alive(p)' => Alive(p)
  BY Zenon, <1>1 DEF Alive
<1>3. \A s : \A p \in Pids \cup {None} : Tells(s, p) => Tells(s, p)'
  BY Zenon, <1>1, <1>2 DEF Tells
<1>4. Members' \subseteq Members
  BY Zenon, <1>2 DEF Members
<1>5. Sound => Sound'
  BY Zenon, <1>1, <1>3 DEF Sound, IInv, TypeOK, File
<1>6. Ground'
  BY Zenon, <1>1 DEF Serial, Ground
<1>7. ASSUME NEW c \in Cmds, loc[c].pc # "idle" PROVE Turn(c)'
  <2>1. Turn(c)
    BY Zenon, <1>7 DEF Serial
  <2>2. loc[c].pid \in Pids \cup {None} /\ SavedPid(c) \in Pids \cup {None}
    BY Zenon DEF IInv, TypeOK, Local, SavedPid
  <2>3. (Looking(c)' <=> Looking(c)) /\ SavedPid(c)' = SavedPid(c)
    BY Zenon, <1>1 DEF Looking, SavedPid
  <2>4. (Before(c)' <=> Before(c)) /\ (Before(c) => loc[c].pid \in Pids)
    BY Zenon, <1>1 DEF Before, IInv, Footing
  <2>5. Tells(loc[c].status, loc[c].pid) => Tells(loc[c].status, loc[c].pid)'
    BY Zenon, <1>1, <1>3, <2>2
  <2>6. Tells(loc[c].status, SavedPid(c)) => Tells(loc[c].status, SavedPid(c))'
    BY Zenon, <1>1, <1>3, <2>2, <2>3
  <2>7. Route(c) => Route(c)'
    BY Zenon, <1>1 DEF Route
  <2>8. Members' \ doomed' \subseteq Members \ doomed /\ (Before(c) => proc[loc[c].pid] = "none")
    BY Zenon, <1>1, <1>4, <2>1 DEF Turn
  <2>9. Before(c)' => proc'[loc'[c].pid] = "none"
    BY Zenon, <1>1, <2>4, <2>8
  <2>10. dir' = dir /\ file' = file /\ frozen' = frozen /\ loc' = loc
    BY Zenon, <1>1
  <2> QED
    BY ZenonT(120), <1>5, <2>1, <2>3, <2>5, <2>6, <2>7, <2>8, <2>9, <2>10 DEF Turn
<1> QED
  BY Zenon, <1>1, <1>5, <1>6, <1>7 DEF Serial, Alone, AllIdle

\* The library's facts about finite sets.
FST == INSTANCE FiniteSetTheorems

\* A command begins when nobody is about, and finds what the last one left.
LEMMA SerialBegin ==
    ASSUME IInv, IInv', Orderly, Serial, NEW c \in Cmds, Begin(c)
    PROVE  Serial'
<1>1. \A d \in Cmds : loc[d].pc = "idle"
  <2> DEFINE S == {d \in Cmds : loc[d].pc # "idle"}
  <2>1. /\ FST!IsFiniteSet(Cmds) <=> IsFiniteSet(Cmds)
        /\ FST!Cardinality(S) = Cardinality(S)
    BY Zenon DEF IsFiniteSet, Cardinality, FST!IsFiniteSet, FST!Cardinality
  <2>2. FST!IsFiniteSet(S)
    BY Zenon, <2>1, LifecycleAssumption, FST!FS_Subset
  <2>3. FST!Cardinality(S) \in Nat /\ FST!Cardinality(S) < 1
    BY Zenon, <2>1, <2>2, FST!FS_CardinalityType DEF Begin, Orderly
  <2>4. S = {}
    BY SMTT(30), <2>2, <2>3, FST!FS_EmptySet
  <2> QED
    BY Zenon, <2>4
<1>2. /\ \A d \in Cmds : d # c => loc'[d] = loc[d]
      /\ IF loc'[c].op = "create"
         THEN /\ loc'[c].pc = "exists" /\ loc'[c].pid = creates'
              /\ creates' = creates + 1 /\ creates' \in Pids
         ELSE loc'[c].pc = "load" /\ creates' = creates
  BY Zenon, BeginLocal DEF IInv
<1>3. loc'[c].op = "kill" => loc'[c].sig = "KILL"
  <2> DEFINE r(op, sig, flag) ==
        [Idle EXCEPT !.op = op, !.sig = sig, !.flag = flag,
                     !.pc = IF op = "create" THEN "exists" ELSE "load",
                     !.pid = IF op = "create" THEN creates' ELSE None]
  <2>1. PICK op \in env.ops, sig \in env.signals \cup {"KILL"}, flag \in BOOLEAN :
          loc' = [loc EXCEPT ![c] = r(op, sig, flag)]
    BY Zenon DEF Begin
  <2>2. sig = "KILL"
    BY Zenon DEF Orderly
  <2> QED
    BY Zenon, <2>1, <2>2 DEF IInv, TypeOK, Idle
<1>4. Sound /\ Ground
  BY Zenon, <1>1 DEF Serial, AllIdle
<1>5. UNCHANGED <<dir, file, config, sock, proc, doomed, notified, frozen>>
  BY Zenon DEF Begin
<1>6. Sound' /\ Ground'
  BY Zenon, <1>4, <1>5, SoundFrame, GroundFrame
<1>7. loc'[c].op = "create" => proc'[loc'[c].pid] = "none"
  BY SMTT(30), <1>2, <1>5 DEF IInv, Footing, TypeOK, Pids
<1>8. Turn(c)'
  BY Zenon, <1>2, <1>3, <1>6, <1>7 DEF Route, Turn, Looking, Saving, Before
<1>9. Alone'
  BY Zenon, <1>1, <1>2 DEF Alone
<1>10. \A d \in Cmds : loc'[d].pc # "idle" => d = c
  BY Zenon, <1>1, <1>2
<1> QED
  BY Zenon, <1>6, <1>8, <1>9, <1>10 DEF Serial, AllIdle

-----------------------------------------------------------------------------
(* The theorem. *)

\* Every step of an orderly environment keeps it.
LEMMA SerialStep ==
    ASSUME IInv, IInv', RInv, [Next]_vars
    PROVE  RInv'
<1>1. env' = env
  BY ZenonT(30) DEF Next, Step, Begin, Load, Check, Connect, Freeze, Signal, KillOne,
         Thaw, Open, Write, Uncgroup, Reap, Rmdir, Exists, Mkdir, Config,
         Bind, Spawn, Crash, InitStart, ProcessExit, Die, vars
<1>2. SUFFICES ASSUME Orderly PROVE Serial'
  BY Zenon, <1>1 DEF RInv, Orderly
<1>3. Serial
  BY Zenon, <1>2 DEF RInv
<1>4. ASSUME NEW c \in Cmds PROVE ~Crash(c)
  BY Zenon, <1>2, OrderlyFacts DEF Crash, IInv
<1>5. CASE UNCHANGED vars
  <2>1. UNCHANGED <<dir, file, config, sock, proc, doomed, notified, frozen, loc>>
    BY Zenon, <1>5 DEF vars
  <2>2. (Sound' <=> Sound) /\ Members' = Members
    BY Zenon, <2>1, SoundFrame DEF Members, Alive
  <2>3. ASSUME NEW c \in Cmds, Turn(c) PROVE Turn(c)'
    BY SMTT(30), <2>1, <2>2, <2>3 DEF Route, Turn, Looking, Before, SavedPid, Tells, Alive
  <2> QED
    BY Zenon, <1>3, <2>1, <2>2, <2>3 DEF Serial, Alone, Ground, AllIdle
<1>6. CASE \E c \in Cmds : Begin(c) \/ Step(c) \/ Crash(c)
  BY Zenon, <1>2, <1>3, <1>4, <1>6, SerialBegin, SerialLoad, SerialCheck, SerialConnect,
     SerialFreeze, SerialSignal, SerialKillOne, SerialThaw, SerialOpen,
     SerialWrite, SerialUncgroup, SerialReap, SerialRmdir, SerialExists,
     SerialMkdir, SerialConfig, SerialBind, SerialSpawn DEF Step
<1>7. CASE \E p \in Pids : InitStart(p) \/ ProcessExit(p) \/ Die(p)
  BY Zenon, <1>2, <1>3, <1>7, SerialProcess
<1> QED
  BY Zenon, <1>5, <1>6, <1>7 DEF Next

\* Between two commands of an orderly environment state.json parses, and
\* Container::refresh_status makes the truth of it: whichever commands were
\* given, in whatever order, on either cgroup version, and whichever of their
\* other steps failed.
THEOREM ReportIsTrue == Spec => []ReportedIsTrue
<1>1. Init => RInv
  BY SMTT(30) DEF Init, RInv, Serial, Alone, Ground, AllIdle, Sound, NoFile, Idle
<1>2. RInv /\ IInv => ReportedIsTrue
  <2> SUFFICES ASSUME RInv, IInv, Orderly, AllIdle, dir # None
               PROVE  /\ file.kind = "json"
                      /\ file.pid \in doomed \/ Refresh(file.status, file.pid) = Truth(file.pid)
    BY Zenon DEF ReportedIsTrue
  <2>1. Sound /\ Ground
    BY Zenon DEF RInv, Serial
  <2>2. ASSUME Alive(file.pid), file.pid \notin doomed
        PROVE  Refresh(file.status, file.pid) = Truth(file.pid)
    BY Zenon, <2>1, <2>2 DEF Sound, Tells, Ground, Refresh, Truth, Alive, IInv, TypeOK, File
  <2>3. ~Alive(file.pid) => Refresh(file.status, file.pid) = Truth(file.pid)
    BY Zenon DEF Refresh, Truth
  <2> QED
    BY Zenon, <2>1, <2>2, <2>3 DEF Sound
<1> QED
  BY <1>1, <1>2, SerialStep, Invariance, PTL DEF Spec

=============================================================================
