------------------------------- MODULE Freezer -------------------------------
(***************************************************************************)
(* Pausing and resuming (container_pause.rs, container_resume.rs) down to  *)
(* the freezer controllers of cgroup v1 and v2 (libcgroups/src/v1 and      *)
(* v2/freezer.rs).  A pause runs against resumes of the same container,    *)
(* the removal of its cgroup, and a kernel that needs time to freeze tasks *)
(* or never gets there.                                                    *)
(***************************************************************************)
EXTENDS Naturals

CONSTANTS
    Versions,     \* of the cgroup file system: subset of {1, 2}
    MaxIter,      \* 1000: reads before a freeze is given up
    ThawEvery,    \* 50: v1 thaws and freezes again every so often
    MaxThaws      \* writes of THAWED by others (kill of a paused container)

VARIABLES
    version, frPc, iter,       \* the pause
    requested, frozen,       \* the kernel: what was written last, what is
    present,                 \* the cgroup exists
    status,                  \* of the container, as saved
    frResult, thaws,
    seen                     \* history: the tasks were frozen when last read

frVars == <<version, frPc, iter, requested, frozen, present, status, frResult, thaws, seen>>

FreezerInit ==
    /\ version \in Versions
    /\ frPc = "pause" /\ iter = 0
    /\ requested = FALSE /\ frozen = FALSE
    /\ present = TRUE
    /\ status = "Running"
    /\ frResult = "none"
    /\ thaws = 0
    /\ seen = FALSE

-----------------------------------------------------------------------------
(* Freezer::apply(Frozen). *)

Written(value) == requested' = value /\ frozen' = (frozen /\ value)

\* pause() has found the container running and asks the manager to freeze; the v1
\* freezer creates a cgroup that is gone by now.
Pause ==
    /\ frPc = "pause"
    /\ \/ frPc' = "write" /\ present' = (present \/ version = 1)
       \/ version = 1 /\ ~present /\ frPc' = "failed" /\ UNCHANGED present
    /\ UNCHANGED <<version, iter, requested, frozen, status, frResult, thaws, seen>>

Fails == frPc' = IF version = 1 THEN "thaw" ELSE "failed"

\* v1: every ThawEvery-th round thaws first, whatever comes of it.
ThawFirst ==
    /\ frPc = "write" /\ version = 1
    /\ iter % ThawEvery = ThawEvery - 1 /\ present
    /\ Written(FALSE)
    /\ frPc' = "rewrite"
    /\ UNCHANGED <<version, iter, present, status, frResult, thaws, seen>>

WriteFrozen ==
    /\ \/ frPc = "rewrite"
       \/ frPc = "write" /\ ~(version = 1 /\ present /\ iter % ThawEvery = ThawEvery - 1)
    /\ IF present THEN Written(TRUE) /\ frPc' = "read"
                  ELSE Fails /\ UNCHANGED <<requested, frozen>>
    /\ UNCHANGED <<version, iter, present, status, frResult, thaws, seen>>

\* v1: freezer.state is FREEZING until it is FROZEN; anything else is an error.
ReadV1 ==
    /\ frPc = "read" /\ version = 1
    /\ CASE ~present \/ ~requested -> Fails /\ UNCHANGED <<iter, seen>>
         [] present /\ requested /\ frozen -> frPc' = "frozen" /\ seen' = TRUE /\ UNCHANGED iter
         [] OTHER -> /\ iter' = iter + 1
                     /\ IF iter + 1 = MaxIter THEN Fails ELSE frPc' = "write"
                     /\ UNCHANGED seen
    /\ UNCHANGED <<version, requested, frozen, present, status, frResult, thaws>>

\* v2: cgroup.freeze is read back once.
ReadV2Requested ==
    /\ frPc = "read" /\ version = 2
    /\ IF present /\ requested THEN frPc' = "wait" ELSE Fails
    /\ UNCHANGED <<version, iter, requested, frozen, present, status, frResult, thaws, seen>>

\* wait_frozen(): polls "frozen" in cgroup.events.
WaitFrozen ==
    /\ frPc = "wait"
    /\ CASE iter = MaxIter \/ ~present -> Fails /\ UNCHANGED <<iter, seen>>
         [] iter < MaxIter /\ present /\ frozen ->
              frPc' = "frozen" /\ seen' = TRUE /\ UNCHANGED iter
         [] OTHER -> iter' = iter + 1 /\ UNCHANGED <<frPc, seen>>
    /\ UNCHANGED <<version, requested, frozen, present, status, frResult, thaws>>

NoThawBack ==
    /\ frPc = "thaw"
    /\ frPc' = "failed"
    /\ UNCHANGED <<version, iter, requested, frozen, present, status, frResult, thaws, seen>>

\* v1 only: a failed freeze is undone.
ThawBack ==
    /\ frPc = "thaw"
    /\ IF present THEN Written(FALSE) ELSE UNCHANGED <<requested, frozen>>
    /\ frPc' = "failed"
    /\ UNCHANGED <<version, iter, present, status, frResult, thaws, seen>>

\* set_status(Paused) and save().
PauseReturns ==
    /\ frPc \in {"frozen", "failed"} /\ frResult = "none"
    /\ frResult' = IF frPc = "frozen" THEN "ok" ELSE "error"
    /\ status' = IF frPc = "frozen" THEN "Paused" ELSE status
    /\ UNCHANGED <<version, frPc, iter, requested, frozen, present, thaws, seen>>

-----------------------------------------------------------------------------
(* The surroundings. *)

\* resume(): only for a container whose status is Paused.
Resume ==
    /\ status = "Paused" /\ present
    /\ Written(FALSE)
    /\ status' = "Running"
    /\ UNCHANGED <<version, frPc, iter, present, frResult, thaws, seen>>

\* A kill with SIGKILL thaws whatever the state.
ThawedByOther ==
    /\ thaws < MaxThaws /\ present
    /\ thaws' = thaws + 1
    /\ Written(FALSE)
    /\ UNCHANGED <<version, frPc, iter, present, status, frResult, seen>>

KernelFreezes ==
    /\ present /\ requested /\ ~frozen
    /\ frozen' = TRUE
    /\ UNCHANGED <<version, frPc, iter, requested, present, status, frResult, thaws, seen>>

Vanish ==
    /\ present /\ ~requested
    /\ present' = FALSE
    /\ frozen' = FALSE
    /\ UNCHANGED <<version, frPc, iter, requested, status, frResult, thaws, seen>>

PauseSteps ==
    \/ Pause \/ ThawFirst \/ WriteFrozen \/ ReadV1 \/ ReadV2Requested
    \/ WaitFrozen \/ ThawBack \/ PauseReturns

FreezerTerminated == frResult # "none" /\ UNCHANGED frVars

FreezerNext == PauseSteps \/ Resume \/ ThawedByOther \/ KernelFreezes \/ Vanish \/ FreezerTerminated

\* The kernel is under no obligation to freeze a task that does not get there.
FreezerSpec == FreezerInit /\ [][FreezerNext]_frVars /\ WF_frVars(PauseSteps)

-----------------------------------------------------------------------------
(* Properties. *)

\* Shape of the state; nothing is frozen that was not asked to be.
FreezerTypeOK ==
    /\ iter \in 0..MaxIter
    /\ frozen => requested
    /\ status \in {"Running", "Paused"} /\ frResult \in {"none", "ok", "error"}

\* pause() succeeds, and the container becomes Paused, only after the kernel
\* reported every task frozen; having asked for it is not enough.
PausedWasFrozen == frResult = "ok" \/ status = "Paused" => seen

\* A pause that failed leaves no cgroup frozen or freezing: such a container
\* keeps the status Running, which resume() refuses to thaw.
FailedPauseThaws == frResult = "error" /\ thaws = 0 /\ present => ~requested

\* pause succeeds only after the kernel reported every task frozen, and one that failed
\* leaves no v1 cgroup frozen or freezing; the v2 freezer does not undo its request.
PauseIsWhole ==
    /\ PausedWasFrozen
    /\ version = 1 => FailedPauseThaws

\* pause() comes back, whatever the kernel does.
PauseEnds == <>(frResult # "none")
=============================================================================
