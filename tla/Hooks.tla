------------------------------- MODULE Hooks --------------------------------
(***************************************************************************)
(* run_hooks: the hooks of one point of the lifecycle, one after the       *)
(* other.  Each gets the container's state on its standard input; a hook   *)
(* with a timeout is waited for by a thread, and killed by its pid when    *)
(* the thread has not answered in time.                                    *)
(*                                                                         *)
(* A hook is [timed, reads : BOOLEAN, ends : {"ok", "fail", "never"}]: has *)
(* it a timeout, does it read its input to the end, how does it end.       *)
(***************************************************************************)
EXTENDS Integers, Sequences, FiniteSets

CONSTANTS
    Lists,      \* the lists of hooks explored
    StateSize,  \* size of the state, in blocks
    PipeSize    \* what the pipe holds, in the same blocks

VARIABLES
    hooks, n,     \* the list; the hook at hand
    hookPc, result,   \* of run_hooks
    proc, status, \* the hook's process: "none", "running", "zombie" or "reaped"; how it ended
    owner,        \* whose is the hook's pid: "hook", "none" or "stranger"
    written, queue, closed,  \* of its input: written, not yet read, is it closed?
    waiter, chan, \* the thread that waits; its answer
    killed,       \* who was killed by run_hooks
    ran           \* the hooks that ended well, with what they had read

hookVars == <<hooks, n, hookPc, result, proc, status, owner, written, queue, closed, waiter, chan, killed, ran>>
procVars == <<proc, status, owner>>
pipeVars == <<written, queue, closed>>
waitVars == <<waiter, chan>>

Hook == hooks[n]

HooksInit ==
    /\ hooks \in Lists /\ n = 1
    /\ hookPc = "spawn" /\ result = "none"
    /\ proc = "none" /\ status = "none" /\ owner = "none"
    /\ written = 0 /\ queue = 0 /\ closed = FALSE
    /\ waiter = "none" /\ chan = <<>>
    /\ killed = {} /\ ran = <<>>

Return(r) == hookPc' = "returned" /\ result' = r

-----------------------------------------------------------------------------
(* The hook and the kernel (external) *)

HookReads ==
    /\ proc = "running" /\ Hook.reads /\ queue > 0
    /\ queue' = queue - 1
    /\ UNCHANGED <<hooks, n, hookPc, result, procVars, written, closed, waitVars, killed, ran>>

\* A hook that reads its input reads to the end of it before it ends.
HookEnds ==
    /\ proc = "running" /\ Hook.ends # "never"
    /\ Hook.reads => closed /\ queue = 0
    /\ proc' = "zombie" /\ status' = Hook.ends
    /\ UNCHANGED <<hooks, n, hookPc, result, owner, pipeVars, waitVars, killed, ran>>

\* The pid of a process that was waited for is free.
PidReused ==
    /\ proc = "reaped" /\ owner = "none"
    /\ owner' = "stranger"
    /\ UNCHANGED <<hooks, n, hookPc, result, proc, status, pipeVars, waitVars, killed, ran>>

\* SIGKILL to the pid of the hook
Kill ==
    /\ killed' = IF owner = "none" THEN killed ELSE killed \cup {owner}
    /\ IF proc = "running" THEN proc' = "zombie" /\ status' = "killed" ELSE UNCHANGED <<proc, status>>
    /\ UNCHANGED owner

-----------------------------------------------------------------------------
(* run_hooks *)

\* A spawn may fail; the loop over the hooks ends with the last of them.
Spawn ==
    /\ hookPc = "spawn"
    /\ \/ /\ n > Len(hooks)
          /\ Return("ok")
          /\ UNCHANGED <<procVars, pipeVars, waitVars>>
       \/ /\ n <= Len(hooks)
          /\ Return("CommandExecute")
          /\ UNCHANGED <<procVars, pipeVars, waitVars>>
       \/ /\ n <= Len(hooks)
          /\ proc' = "running" /\ status' = "none" /\ owner' = "hook"
          /\ written' = 0 /\ queue' = 0 /\ closed' = FALSE
          /\ waiter' = "none" /\ chan' = <<>>
          /\ hookPc' = "write" /\ UNCHANGED result
    /\ UNCHANGED <<hooks, n, killed, ran>>

\* write_all: block by block while the pipe has room; a hook that is gone breaks
\* the pipe, which is no error.  A state that was loaded or saved can be encoded.
WriteState ==
    /\ hookPc = "write"
    /\ \/ /\ proc = "running" /\ written < StateSize /\ queue < PipeSize
          /\ written' = written + 1 /\ queue' = queue + 1
          /\ UNCHANGED hookPc
       \/ /\ proc # "running" \/ written = StateSize
          /\ hookPc' = "wait"
          /\ UNCHANGED <<written, queue>>
    /\ UNCHANGED <<hooks, n, result, procVars, closed, waitVars, killed, ran>>

(* mutant: the hook is left alone when its input cannot be written *)
WriteFails_leaves ==
    /\ hookPc = "write" /\ proc = "running" /\ written < StateSize
    /\ Return("WriteContainerState")
    /\ UNCHANGED <<hooks, n, procVars, pipeVars, waitVars, killed, ran>>

\* Any other error of the write: the hook may be waiting for its input.
WriteFails ==
    /\ hookPc = "write" /\ proc = "running" /\ written < StateSize
    /\ Kill
    /\ Return("WriteContainerState")
    /\ UNCHANGED <<hooks, n, pipeVars, waitVars, ran>>

\* wait closes the input of the process first, here or in the thread.
StartWait ==
    /\ hookPc = "wait"
    /\ IF Hook.timed THEN waiter' = "waiting" /\ UNCHANGED closed
       ELSE closed' = TRUE /\ UNCHANGED waiter
    /\ hookPc' = IF Hook.timed THEN "receive" ELSE "waitpid"
    /\ UNCHANGED <<hooks, n, result, procVars, written, queue, chan, killed, ran>>

Reap == proc = "zombie" /\ proc' = "reaped" /\ owner' = "none" /\ UNCHANGED status

\* What becomes of the exit status.
Finish(s) ==
    IF s = "ok"
    THEN /\ ran' = Append(ran, [hook |-> n, ended |-> s, got |-> written - queue])
         /\ n' = n + 1 /\ hookPc' = "spawn" /\ UNCHANGED result
    ELSE /\ Return(IF s = "fail" THEN "NonZeroExitCode" ELSE "Killed")
         /\ UNCHANGED <<n, ran>>

WaitPid ==
    /\ hookPc = "waitpid"
    /\ Reap /\ Finish(status)
    /\ UNCHANGED <<hooks, pipeVars, waitVars, killed>>

Receive ==
    /\ hookPc = "receive" /\ chan # <<>>
    /\ Finish(chan[1])
    /\ UNCHANGED <<hooks, procVars, pipeVars, waitVars, killed>>

\* recv_timeout gives up, and then the hook is killed.
Timeout ==
    /\ hookPc = "receive" /\ chan = <<>>
    /\ hookPc' = "kill"
    /\ UNCHANGED <<hooks, n, result, procVars, pipeVars, waitVars, killed, ran>>

KillHook ==
    /\ hookPc = "kill"
    /\ Kill
    /\ Return("Timeout")
    /\ UNCHANGED <<hooks, n, pipeVars, waitVars, ran>>

-----------------------------------------------------------------------------
(* The thread *)

WaiterCloses ==
    /\ waiter = "waiting" /\ ~closed
    /\ closed' = TRUE
    /\ UNCHANGED <<hooks, n, hookPc, result, procVars, written, queue, waitVars, killed, ran>>

WaiterReaps ==
    /\ waiter = "waiting" /\ closed
    /\ Reap
    /\ waiter' = "send"
    /\ UNCHANGED <<hooks, n, hookPc, result, pipeVars, chan, killed, ran>>

WaiterSends ==
    /\ waiter = "send"
    /\ chan' = <<status>>
    /\ waiter' = "done"
    /\ UNCHANGED <<hooks, n, hookPc, result, procVars, pipeVars, killed, ran>>

HooksMain == Spawn \/ WriteState \/ StartWait \/ WaitPid \/ Receive \/ Timeout \/ KillHook
Waiter == WaiterCloses \/ WaiterReaps \/ WaiterSends
HookRuns == HookReads \/ HookEnds

HooksNext == HooksMain \/ WriteFails \/ Waiter \/ HookRuns \/ PidReused

\* Every process and thread goes on when it can; an error of the write need not come.
HooksSpec == HooksInit /\ [][HooksNext]_hookVars /\ WF_hookVars(HooksMain) /\ WF_hookVars(Waiter) /\ WF_hookVars(HookRuns)

-----------------------------------------------------------------------------
(* Properties *)

\* The variables have their types; a thread waits only for a hook with a timeout,
\* and its answer is there only after the process was waited for.
HooksTypeOK ==
    /\ n \in 1 .. Len(hooks) + 1 /\ queue \in 0 .. PipeSize /\ written \in 0 .. StateSize
    /\ hookPc \in {"receive", "kill"} => Hook.timed /\ waiter # "none"
    /\ hookPc = "receive" /\ chan # <<>> => proc = "reaped"
    /\ (result # "none") = (hookPc = "returned")

\* The hooks run in their order, each after the one before ended with 0, and the
\* result is a success only if all of them did.
AllInOrder ==
    /\ \A i \in DOMAIN ran : ran[i].hook = i /\ ran[i].ended = "ok"
    /\ result = "ok" => Len(ran) = Len(hooks)

\* However run_hooks returns, no hook is left running.
NoneLeftRunning == hookPc = "returned" => proc # "running"

\* Both: what the caller of run_hooks may rely on.
OneAfterAnother ==
    /\ AllInOrder
    /\ NoneLeftRunning

\* "we decided to wait for the command in a different thread, so the main thread is
\* not blocked": when every hook ends or has a timeout, run_hooks returns.
Terminates == (\A i \in DOMAIN hooks : hooks[i].timed \/ hooks[i].ends # "never") ~> (hookPc = "returned")
=============================================================================
