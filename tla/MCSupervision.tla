--------------------------- MODULE MCSupervision ---------------------------
(***************************************************************************)
(* What the runtime does around a container that runs: its hooks (Hooks),  *)
(* the foreground process (Foreground) and `youki events` (CgroupStats).   *)
(* The three share nothing; every behaviour explores one of them.          *)
(***************************************************************************)
EXTENDS Integers, Sequences, Hooks, Foreground

AnyHook == [timed : BOOLEAN, reads : BOOLEAN, ends : {"ok", "fail", "never"}]
HookLists == {<<>>} \cup {<<h>> : h \in AnyHook} \cup {<<g, h>> : g, h \in AnyHook}

\* v1 hosts with a few hierarchies each, v2 hosts with and without the optional files.
V1(mounted, features, kb) ==
    [version |-> 1, features |-> features, mounted |-> mounted, page |-> kb]
V2(features, kb) == [version |-> 2, features |-> features, mounted |-> {}, page |-> kb]
StatsHosts ==
    {V1({"cpu", "cpuacct"}, {"swap"}, 64), V1({"blkio"}, {"swap", "weight"}, 64),
     V1({"hugetlb"}, {"swap", "rsvd"}, 1024), V1({"hugetlb"}, {"swap"}, 64),
     V1({"memory"}, {"swap"}, 64), V1({"memory", "pids"}, {}, 64),
     V2({"psi", "swap", "peak", "rsvd"}, 1048576), V2({"psi", "swap"}, 2048), V2({"peak"}, 64)}

-----------------------------------------------------------------------------
VARIABLES
    part,  \* the part this behaviour explores
    setup, statsK, exists, exited, moves, statsPc, oneshot, todo, files, rep, printed,
    start, failed

statsVars == <<setup, statsK, exists, exited, moves, statsPc, oneshot, todo, files, rep,
               printed, start, failed>>
vars == <<part, hookVars, runVars, statsVars>>

H0 == INSTANCE Hooks WITH Lists <- {<<>>}

\* The constants of Foreground are those of the part "output", in which init keeps its
\* terminal.
FS == INSTANCE Foreground
    WITH Writes <- 0, Capacity <- 1, Sizes <- 1, Signals <- {"TERM", "URG"}, Reopens <- TRUE
F0 == INSTANCE Foreground
    WITH Writes <- 0, Capacity <- 1, Sizes <- 0, Signals <- {}, Reopens <- FALSE

S == INSTANCE CgroupStats
    WITH Cpus <- 2, TickUs <- 2, MaxMoves <- 2, Setups <- StatsHosts, k <- statsK,
         pc <- statsPc
S0 == INSTANCE CgroupStats
    WITH Cpus <- 2, TickUs <- 2, MaxMoves <- 2, Setups <- {V2({"peak"}, 64)}, k <- statsK,
         pc <- statsPc

\* One part starts in any of its initial states; the others stay in their first one.
Init ==
    /\ part \in {"hooks", "output", "signals", "events"}
    /\ IF part = "hooks" THEN HooksInit ELSE H0!HooksInit
    /\ IF part = "output" THEN ForegroundInit
       ELSE IF part = "signals" THEN FS!ForegroundInit
       ELSE F0!ForegroundInit /\ ~pty /\ ~tty /\ other = "reaped"
    /\ IF part = "events" THEN S!Init ELSE S0!Init /\ oneshot

Next ==
    \/ part = "hooks" /\ HooksNext /\ UNCHANGED <<part, runVars, statsVars>>
    \/ part = "output" /\ ForegroundNext /\ UNCHANGED <<part, hookVars, statsVars>>
    \/ part = "signals" /\ FS!ForegroundNext /\ UNCHANGED <<part, hookVars, statsVars>>
    \/ part = "events" /\ S!Next /\ UNCHANGED <<part, hookVars, runVars>>

Spec ==
    /\ Init /\ [][Next]_vars
    /\ WF_hookVars(part = "hooks" /\ HooksMain)
    /\ WF_hookVars(part = "hooks" /\ Waiter)
    /\ WF_hookVars(part = "hooks" /\ HookRuns)
    /\ WF_runVars(part = "output" /\ ForegroundMain)
    /\ WF_runVars(part = "output" /\ Relay)
    /\ WF_runVars(part = "signals" /\ FS!ForegroundMain)
    /\ WF_runVars(part = "signals" /\ FS!Relay)
    /\ WF_statsVars(part = "events" /\ S!Reader)

-----------------------------------------------------------------------------
\* The variables of each part have their types.
TypeOK ==
    /\ HooksTypeOK /\ S!TypeOK
    /\ IF part = "signals" THEN FS!ForegroundTypeOK ELSE ForegroundTypeOK

\* No report of `youki events` shows a usage above its own peak or parts of the cpu time
\* that exceed the whole, although the numbers are read one after the other, and its
\* counters lie between their values when stats was called and their values now, each in
\* the unit of the file it comes from.
ReportIsConsistent ==
    /\ S!PeakCoversUsage
    /\ S!CpuPartsWithinTotal
    /\ S!ReportIsCurrent

\* run_hooks returns when every hook ends or has a timeout, the foreground runtime returns
\* once init has ended (no SIGCHLD is waited for that has come already, and no descendant
\* on the terminal holds it back, but a full stdout that nobody reads does), and `youki events` ends once the container is deleted.
SupervisionEnds ==
    /\ part = "hooks" => Terminates
    /\ Returns
    /\ S!EventsEnd
=============================================================================
