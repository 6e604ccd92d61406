-------------------------- MODULE SupervisionProofs --------------------------
(***************************************************************************)
(* What the callers of run_hooks (Hooks) and handle_foreground             *)
(* (Foreground) may rely on, for every list of hooks, every size of the    *)
(* state and the pipe, every amount of output, and every signal.           *)
(***************************************************************************)
EXTENDS Hooks, Foreground, FiniteSetTheorems, SequenceTheorems, TLAPS

CONSTANT AnyHook  \* what a hook may be

-----------------------------------------------------------------------------
(* run_hooks *)

\* Where run_hooks is in its list, and that the hooks before have ended well.
ListInv ==
    /\ Len(hooks) \in Nat /\ n \in 1..(Len(hooks) + 1)
    /\ ran \in Seq([hook : Nat, ended : {"ok"}, got : Int]) /\ Len(ran) = n - 1
    /\ \A i \in 1..Len(ran) : ran[i].hook = i
    /\ hookPc \notin {"spawn", "returned"} => n <= Len(hooks)
    /\ result = "ok" => n = Len(hooks) + 1 /\ hookPc = "returned"
    /\ written \in Int /\ queue \in Int

\* Between two hooks, and after the last, none runs: the thread that waits for one
\* answers only once it has been waited for.
ProcessInv ==
    /\ hookPc \in {"spawn", "returned"} => proc # "running"
    /\ waiter \in {"send", "done"} => proc = "reaped"
    /\ chan # <<>> => waiter = "done"
    /\ hookPc \in {"write", "wait"} => waiter = "none"

\* The hooks run in their order, each after the one before ended with 0, run_hooks
\* returns Ok only if all of them did, and however it returns no hook is left running.
THEOREM HooksInOrder ==
    ASSUME Lists \subseteq Seq(AnyHook)
    PROVE  HooksSpec => []OneAfterAnother
PROOF
  <1>. DEFINE Inv == ListInv /\ ProcessInv
  <1>1. HooksInit => Inv
    <2>. SUFFICES ASSUME HooksInit PROVE Inv
      BY Zenon
    <2>1. hooks \in Seq(AnyHook) /\ Len(hooks) \in Nat /\ ran = <<>>
      BY DEF HooksInit
    <2>. QED BY <2>1 DEF HooksInit, ListInv, ProcessInv
  <1>2. Inv /\ [HooksNext]_hookVars => Inv'
    <2>. SUFFICES ASSUME Inv, [HooksNext]_hookVars PROVE Inv'
      BY Zenon
    <2>. USE DEF procVars, pipeVars, waitVars, Return
    <2>1. CASE Spawn
      BY <2>1 DEF Spawn, ListInv, ProcessInv
    <2>2. CASE WriteState \/ StartWait \/ Timeout
      <3>1. /\ UNCHANGED <<hooks, n, result, proc, chan, ran>>
            /\ hookPc \notin {"spawn", "returned"} /\ hookPc' \notin {"spawn", "returned"}
            /\ written' \in Int /\ queue' \in Int
            /\ waiter' = waiter \/ (hookPc = "wait" /\ waiter' = "waiting")
            /\ hookPc' \in {"write", "wait"} => hookPc = "write" /\ waiter' = waiter
        BY SMTT(30), <2>2 DEF WriteState, StartWait, Timeout, ListInv
      <3>2. hookPc = "wait" => chan = <<>>
        BY Zenon DEF ProcessInv
      <3>. QED BY Zenon, <3>1, <3>2 DEF ListInv, ProcessInv
    <2>3. CASE WriteFails \/ KillHook
      BY Zenon, <2>3 DEF WriteFails, KillHook, Kill, ListInv, ProcessInv
    <2>4. ASSUME NEW s, Finish(s), hookPc \in {"waitpid", "receive"}, UNCHANGED <<hooks, pipeVars>>
          PROVE  ListInv' /\ hookPc' \in {"spawn", "returned"}
      <3>1. CASE s = "ok"
        <4>. DEFINE last == [hook |-> n, ended |-> s, got |-> written - queue]
        <4>1. /\ ran' = Append(ran, last) /\ n' = n + 1 /\ hookPc' = "spawn"
              /\ result' = result /\ result # "ok"
          BY Zenon, <2>4, <3>1 DEF Finish, ListInv
        <4>2. last \in [hook : Nat, ended : {"ok"}, got : Int]
          BY <3>1 DEF ListInv
        <4>3. /\ ran' \in Seq([hook : Nat, ended : {"ok"}, got : Int])
              /\ Len(ran') = Len(ran) + 1
              /\ \A i \in 1..Len(ran) : ran'[i] = ran[i]
              /\ ran'[Len(ran) + 1] = last
          BY SMTT(30), <4>1, <4>2, AppendProperties DEF ListInv
        <4>4. n = Len(ran) + 1 /\ last.hook = n
          BY DEF ListInv
        <4>. HIDE DEF last
        <4>5. Len(hooks) \in Nat /\ n \in 1..Len(hooks)
          BY SMT, <2>4 DEF ListInv
        <4>6. Len(ran) = n - 1 /\ \A i \in 1..Len(ran) : ran[i].hook = i
          BY Zenon DEF ListInv
        <4>7. n' \in 1..(Len(hooks) + 1) /\ Len(ran') = n' - 1
          BY SMT, <4>1, <4>3, <4>5, <4>6
        <4>8. ASSUME NEW i \in 1..Len(ran') PROVE ran'[i].hook = i
          <5>1. i \in 1..Len(ran) \/ i = Len(ran) + 1
            BY SMT, <4>3, <4>5, <4>6
          <5>. QED BY Zenon, <4>3, <4>4, <4>6, <5>1
        <4>9. hooks' = hooks /\ written' \in Int /\ queue' \in Int
          BY Zenon, <2>4 DEF ListInv
        <4>. QED BY Zenon, <4>1, <4>3, <4>5, <4>7, <4>8, <4>9 DEF ListInv
      <3>2. CASE s # "ok"
        BY Zenon, <2>4, <3>2 DEF Finish, ListInv
      <3>. QED BY Zenon, <3>1, <3>2
    <2>5. CASE WaitPid
      <3>1. ListInv' /\ hookPc' \in {"spawn", "returned"}
        BY Zenon, <2>4, <2>5 DEF WaitPid
      <3>. QED BY Zenon, <2>5, <3>1 DEF WaitPid, Reap, ProcessInv
    <2>6. CASE Receive
      <3>1. ListInv' /\ hookPc' \in {"spawn", "returned"}
        BY Zenon, <2>4, <2>6 DEF Receive
      <3>. QED BY Zenon, <2>6, <3>1 DEF Receive, ProcessInv
    <2>7. CASE Waiter
      BY Zenon, <2>7 DEF Waiter, WaiterCloses, WaiterReaps, WaiterSends, Reap, ListInv, ProcessInv
    <2>8. CASE HookRuns \/ PidReused
      <3>1. CASE HookReads
        BY <3>1 DEF HookReads, ListInv, ProcessInv
      <3>2. CASE HookEnds \/ PidReused
        BY Zenon, <3>2 DEF HookEnds, PidReused, ListInv, ProcessInv
      <3>. QED BY Zenon, <2>8, <3>1, <3>2 DEF HookRuns
    <2>9. CASE UNCHANGED hookVars
      BY Zenon, <2>9 DEF hookVars, ListInv, ProcessInv
    <2>. QED BY Zenon, <2>1, <2>2, <2>3, <2>5, <2>6, <2>7, <2>8, <2>9 DEF HooksNext, HooksMain
  <1>3. Inv => OneAfterAnother
    <2>. SUFFICES ASSUME Inv PROVE OneAfterAnother
      BY Zenon
    <2>1. /\ DOMAIN ran = 1..Len(ran)
          /\ \A i \in 1..Len(ran) : ran[i] \in [hook : Nat, ended : {"ok"}, got : Int]
      BY Zenon, ElementOfSeq, LenProperties DEF ListInv
    <2>. QED BY SMTT(30), <2>1 DEF ListInv, ProcessInv, OneAfterAnother, AllInOrder, NoneLeftRunning
  <1>. QED BY <1>1, <1>2, <1>3, PTL DEF HooksSpec

-----------------------------------------------------------------------------
(* handle_foreground *)

\* How many writes of init a stream of output holds.
Count(s) == Cardinality({i \in 1..Len(s) : s[i] = "init"})

\* Where the runtime is, how init ended, and what it has returned.
RunInv ==
    /\ init \in {"running", "zombie", "reaped"}
    /\ init # "running" => (\E e \in Ends : end = <<e>>) /\ "init" \notin slaves
    /\ init = "reaped" <=> runPc \in {"restore", "stop", "join", "returned"}
    /\ ret # <<>> => init = "reaped" /\ ret = <<Code(end[1])>>
    /\ raw => runPc \in {"size", "reap", "wait", "restore"}
    /\ stop <=> runPc \in {"join", "returned"}

\* The relay is drained only after it was told to stop, so after init has ended.
RelayInv ==
    /\ relay \in {"none", "poll", "read", "drain", "drain_read", "done"}
    /\ pty /\ runPc \notin {"block", "bridge"} => relay # "none"
    /\ runPc = "returned" => relay \in {"none", "done"}
    /\ events.stop => stop
    /\ relay \in {"drain", "drain_read"} => stop
    /\ ~Reopens /\ relay = "done" /\ stdout # "closed" =>
         "init" \notin slaves /\ \A i \in 1..Len(buf) : buf[i] # "init"

\* What init has written is on stdout or still in the terminal, while stdout is not closed.
OutputInv ==
    /\ buf \in Seq(Writers) /\ out \in Seq(Writers) /\ wrote \in [Writers -> Nat]
    /\ stdout # "closed" => Count(out \o buf) = wrote["init"]

\* Nothing has been written, and nothing counts.
LEMMA CountNothing == Count(<<>>) = 0
PROOF
  <1>1. {i \in 1..Len(<<>>) : <<>>[i] = "init"} = {}
    OBVIOUS
  <1>. QED BY Zenon, <1>1, FS_EmptySet DEF Count

\* One more write to the terminal counts if init made it.
LEMMA CountAppend ==
    ASSUME NEW s \in Seq(Writers), NEW w \in Writers
    PROVE  Count(Append(s, w)) = IF w = "init" THEN Count(s) + 1 ELSE Count(s)
PROOF
  <1>. DEFINE At(q) == {i \in 1..Len(q) : q[i] = "init"}
  <1>1. Len(s) \in Nat /\ IsFiniteSet(At(s))
    BY FS_Interval, FS_Subset
  <1>2. /\ Len(Append(s, w)) = Len(s) + 1 /\ Append(s, w)[Len(s) + 1] = w
        /\ \A i \in 1..Len(s) : Append(s, w)[i] = s[i]
    BY AppendProperties
  <1>3. At(Append(s, w)) = IF w = "init" THEN At(s) \cup {Len(s) + 1} ELSE At(s)
    BY <1>1, <1>2
  <1>4. Len(s) + 1 \notin At(s)
    BY <1>1
  <1>. QED BY Zenon, <1>1, <1>3, <1>4, FS_AddElement DEF Count

\* relay_output and drain_pending_output move output from the terminal to stdout,
\* and keep its order.
LEMMA ReadKeepsOutput ==
    ASSUME OutputInv, NEW next, ReadTo(next), UNCHANGED <<wrote, stdout>>
    PROVE  OutputInv'
PROOF
  <1>1. CASE UNCHANGED <<out, buf>>
    BY Zenon, <1>1 DEF OutputInv
  <1>2. CASE buf # <<>>
    <2>1. PICK m \in 1..Len(buf) : /\ out' = IF stdout = "open" THEN out \o SubSeq(buf, 1, m) ELSE out
                                   /\ buf' = SubSeq(buf, m + 1, Len(buf))
                                   /\ stdout \in {"open", "closed"}
      BY Zenon, <1>2 DEF ReadTo
    <2>2. Len(buf) \in Nat /\ m \in Nat /\ m <= Len(buf)
      BY <2>1 DEF OutputInv
    <2>3. /\ SubSeq(buf, 1, m) \in Seq(Writers) /\ SubSeq(buf, m + 1, Len(buf)) \in Seq(Writers)
          /\ SubSeq(buf, 1, m) \o SubSeq(buf, m + 1, Len(buf)) = buf
      <3>1. /\ SubSeq(buf, 1, m) \in Seq(Writers) /\ SubSeq(buf, m + 1, Len(buf)) \in Seq(Writers)
        BY <2>2, SubSeqProperties, ElementOfSeq DEF OutputInv
      <3>2. 1 \in 1..(Len(buf) + 1) /\ m \in (1 - 1)..Len(buf) /\ Len(buf) \in m..Len(buf)
        BY <2>2
      <3>3. SubSeq(buf, 1, m) \o SubSeq(buf, m + 1, Len(buf)) = SubSeq(buf, 1, Len(buf))
        BY Zenon, <3>2, ConcatAdjacentSubSeq DEF OutputInv
      <3>. QED BY Zenon, <3>1, <3>3, SubSeqFull DEF OutputInv
    <2>4. stdout = "open" => out' \o buf' = out \o buf
      <3>. SUFFICES ASSUME stdout = "open" PROVE out' \o buf' = out \o buf
        BY Zenon
      <3>. DEFINE read == SubSeq(buf, 1, m)
                  left == SubSeq(buf, m + 1, Len(buf))
      <3>1. read \in Seq(Writers) /\ left \in Seq(Writers) /\ read \o left = buf
        BY Zenon, <2>3
      <3>2. out \in Seq(Writers) /\ out' = out \o read /\ buf' = left
        BY Zenon, <2>1 DEF OutputInv
      <3>. HIDE DEF read, left
      <3>3. (out \o read) \o left = out \o (read \o left)
        <4>1. \A s, t, u \in Seq(Writers) : (s \o t) \o u = s \o (t \o u)
          BY SMTT(30), ConcatAssociative
        <4>. QED BY Zenon, <3>1, <3>2, <4>1
      <3>. QED BY Zenon, <3>1, <3>2, <3>3
    <2>5. out' \in Seq(Writers) /\ buf' \in Seq(Writers)
      BY Zenon, <2>1, <2>3, ConcatProperties DEF OutputInv
    <2>. QED BY Zenon, <2>1, <2>4, <2>5 DEF OutputInv
  <1>. QED BY Zenon, <1>1, <1>2 DEF ReadTo

\* handle_foreground returns how init ended, whatever other children did; the terminal
\* of the host has been restored before the relay is waited for; and what an init that
\* keeps its terminal has written is on stdout by then, unless stdout was closed, although
\* the relay may have been told to stop while it was still in the terminal.
THEOREM ForegroundIsFaithful ==
    ForegroundSpec => []ReturnsFaithfully
PROOF
  <1>. DEFINE Inv == RunInv /\ RelayInv /\ OutputInv
  <1>. USE DEF kernelVars, relayVars, mainVars
  <1>1. ForegroundInit => Inv
    <2>. SUFFICES ASSUME ForegroundInit PROVE Inv
      BY Zenon
    <2>1. <<>> \o <<>> = <<>>
      OBVIOUS
    <2>2. OutputInv
      BY <2>1, CountNothing DEF ForegroundInit, OutputInv, Writers
    <2>. QED BY Zenon, <2>2 DEF ForegroundInit, RunInv, RelayInv
  <1>2. Inv /\ [ForegroundNext]_runVars => Inv'
    <2>. SUFFICES ASSUME Inv, [ForegroundNext]_runVars PROVE Inv'
      BY Zenon
    <2>1. ASSUME UNCHANGED <<buf, out, wrote>>, stdout' = stdout \/ stdout = "open" PROVE OutputInv'
      BY Zenon, <2>1 DEF OutputInv
    <2>2. CASE BlockSignals \/ SetupConsoleBridge \/ InitialResize
      BY <2>1, <2>2 DEF BlockSignals, SetupConsoleBridge, IoBridge, InitialResize, RunInv, RelayInv
    <2>3. CASE ReapChildren
      <3>1. RunInv'
        BY Zenon, <2>3 DEF ReapChildren, RunInv
      <3>. QED BY Zenon, <2>1, <2>3, <3>1 DEF ReapChildren, RelayInv
    <2>4. CASE SigWait
      BY Zenon, <2>1, <2>4 DEF SigWait, RunInv, RelayInv
    <2>5. CASE RestoreTerminal \/ StopRelay \/ JoinRelay
      BY <2>1, <2>5 DEF RestoreTerminal, StopRelay, JoinRelay, RunInv, RelayInv
    <2>6. CASE Poll
      BY Zenon, <2>1, <2>6 DEF Poll, RunInv, RelayInv
    <2>7. CASE RelayOutput \/ DrainRead
      <3>1. PICK next \in {"drain", "poll"} :
               ReadTo(next) /\ (next = "drain" => stop) /\ relay \in {"read", "drain_read"}
        BY Zenon, <2>7 DEF RelayOutput, DrainRead, RelayInv
      <3>2. UNCHANGED <<pty, kernelVars, events, mainVars>>
        BY Zenon, <2>7 DEF RelayOutput, DrainRead
      <3>3. OutputInv'
        BY Zenon, <3>1, <3>2, ReadKeepsOutput
      <3>4. \/ relay' = next
            \/ relay' = "done" /\ buf' = <<>> /\ slaves = {}
            \/ relay' = "done" /\ stdout = "closed"
        BY Zenon, <3>1 DEF ReadTo
      <3>5. RelayInv'
        BY <3>1, <3>2, <3>4 DEF RelayInv
      <3>6. RunInv'
        BY Zenon, <3>2 DEF RunInv
      <3>. QED BY Zenon, <3>3, <3>5, <3>6
    <2>8. CASE DrainPoll
      <3>1. UNCHANGED <<pty, kernelVars, events, out, mainVars, buf>>
        BY Zenon, <2>8 DEF DrainPoll
      <3>2. relay = "drain" /\ (relay' = "drain_read" \/ (relay' = "done" /\ buf = <<>>))
        BY Zenon, <2>8 DEF DrainPoll, Readable
      <3>3. "init" \notin slaves
        BY Zenon, <3>2 DEF RunInv, RelayInv
      <3>. QED BY <2>1, <3>1, <3>2, <3>3 DEF RunInv, RelayInv
    <2>9. CASE InitEnds
      <3>1. RunInv'
        BY Zenon, <2>9 DEF InitEnds, RunInv
      <3>. QED BY Zenon, <2>1, <2>9, <3>1 DEF InitEnds, RelayInv
    <2>10. CASE OtherEnds \/ DescendantEnds \/ HostResizes \/ SignalArrives
      BY <2>1, <2>10 DEF OtherEnds, DescendantEnds, HostResizes, SignalArrives, RunInv, RelayInv
    <2>11. CASE InitReopens
      BY Zenon, <2>1, <2>11 DEF InitReopens, RunInv, RelayInv
    <2>12. CASE StdoutEnds
      <3>1. RunInv'
        BY Zenon, <2>12 DEF StdoutEnds, RunInv
      <3>. QED BY Zenon, <2>1, <2>12, <3>1 DEF StdoutEnds, RelayInv
    <2>13. ASSUME NEW w \in Writers, WriteTerminal(w) PROVE Inv'
      <3>1. /\ UNCHANGED <<pty, init, end, slaves, stdout, relayVars, mainVars>> /\ w \in slaves
            /\ buf' = Append(buf, w) /\ wrote' = [wrote EXCEPT ![w] = @ + 1]
        BY Zenon, <2>13 DEF WriteTerminal
      <3>2. OutputInv'
        <4>1. out \o Append(buf, w) = Append(out \o buf, w) /\ out \o buf \in Seq(Writers)
          BY SMTT(30), ConcatProperties, AppendIsConcat, ConcatAssociative DEF OutputInv
        <4>2. stdout # "closed" => Count(out' \o buf') = IF w = "init" THEN wrote["init"] + 1 ELSE wrote["init"]
          BY ZenonT(60), <3>1, <4>1, CountAppend DEF OutputInv
        <4>3. buf' \in Seq(Writers) /\ wrote' \in [Writers -> Nat]
          BY <3>1, AppendProperties DEF OutputInv
        <4>4. wrote'["init"] = IF w = "init" THEN wrote["init"] + 1 ELSE wrote["init"]
          BY Zenon, <3>1 DEF OutputInv, Writers
        <4>. QED BY Zenon, <3>1, <4>2, <4>3, <4>4 DEF OutputInv
      <3>3. RelayInv'
        <4>1. w # "init" => ((\A i \in 1..Len(buf) : buf[i] # "init")
                                => (\A i \in 1..Len(buf') : buf'[i] # "init"))
          BY <3>1, AppendProperties DEF OutputInv
        <4>. QED BY Zenon, <3>1, <4>1 DEF RelayInv
      <3>4. RunInv'
        BY Zenon, <3>1 DEF RunInv
      <3>. QED BY Zenon, <3>2, <3>3, <3>4
    <2>14. CASE UNCHANGED runVars
      BY Zenon, <2>1, <2>14 DEF runVars, RunInv, RelayInv
    <2>. QED BY Zenon, <2>2, <2>3, <2>4, <2>5, <2>6, <2>7, <2>8, <2>9, <2>10, <2>11, <2>12, <2>13, <2>14
             DEF ForegroundNext, ForegroundMain, Relay, Environment
  <1>3. Inv => ReturnsFaithfully
    <2>. SUFFICES ASSUME Inv PROVE ReturnsFaithfully
      BY Zenon
    <2>1. ~Reopens => NothingLost
      <3>. SUFFICES ASSUME ~Reopens, runPc = "returned", pty, stdout # "closed"
                    PROVE  Cardinality({i \in DOMAIN out : out[i] = "init"}) = wrote["init"]
        BY Zenon DEF NothingLost, Cardinality, Cardinality
      <3>1. \A i \in 1..Len(buf) : buf[i] # "init"
        BY Zenon DEF RelayInv
      <3>2. /\ DOMAIN out = 1..Len(out) /\ Len(out) \in Nat /\ Len(buf) \in Nat
            /\ Len(out \o buf) = Len(out) + Len(buf)
            /\ \A i \in 1..(Len(out) + Len(buf)) :
                  (out \o buf)[i] = IF i <= Len(out) THEN out[i] ELSE buf[i - Len(out)]
        BY Zenon, ConcatProperties, LenProperties DEF OutputInv
      <3>3. {i \in DOMAIN out : out[i] = "init"} = {i \in 1..Len(out \o buf) : (out \o buf)[i] = "init"}
        BY <3>1, <3>2
      <3>. QED BY Zenon, <3>3 DEF OutputInv, Count
    <2>2. ReturnsStatusOfInit
      BY DEF RunInv, ReturnsStatusOfInit, Code, Ends
    <2>3. TerminalRestored
      BY Zenon DEF RunInv, TerminalRestored
    <2>. QED BY Zenon, <2>1, <2>2, <2>3 DEF ReturnsFaithfully
  <1>. QED BY <1>1, <1>2, <1>3, PTL DEF ForegroundSpec
=============================================================================
