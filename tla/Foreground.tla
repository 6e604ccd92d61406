----------------------------- MODULE Foreground -----------------------------
(***************************************************************************)
(* The runtime in the foreground: it waits for the container's init        *)
(* process, forwards signals to it, and relays the output of its           *)
(* pseudo-terminal through a thread that is stopped and joined on return.  *)
(*                                                                         *)
(* The kernel's part is external: a signal is pending at most once, a      *)
(* child that ends is a zombie until it is waited for, SIGCHLD is lost     *)
(* unless it is blocked, and the master of the terminal hangs up while no  *)
(* process holds the slave.                                                *)
(***************************************************************************)
EXTENDS Integers, Sequences, FiniteSets

CONSTANTS
    Writes,    \* writes of each writer to the terminal, at most
    Capacity,  \* what the terminal holds before a writer blocks
    Sizes,     \* how often the host's terminal changes its size, at most
    Signals,   \* signals other than SIGCHLD and SIGWINCH that may arrive
    Reopens    \* may init close its terminal and open /dev/console later?

Ends == {[how |-> "exit", n |-> 0], [how |-> "exit", n |-> 3], [how |-> "signal", n |-> 9]}
Writers == {"init", "descendant"}

VARIABLES
    pty,      \* is there a pseudo-terminal?
    tty,      \* is the runtime's own stdin a terminal?
    init, other,  \* the two children: "running", "zombie" or "reaped"
    end,      \* how init ended, <<>> before
    pending, blocked,  \* pending signals; are signals blocked?
    slaves,   \* the writers that hold the slave
    buf, out, \* what is queued in the terminal, what reached stdout
    wrote,    \* writer -> number of writes
    raw,      \* is the host's terminal in raw mode?
    size, hostSize,
    runPc, ret,  \* of the runtime; what handle_foreground returned
    relay, events,  \* of the relay thread; what its last poll saw
    stop,     \* the eventfd
    stdout,   \* the runtime's own: "open", "stalled" (full, nobody reads) or "closed"
    arrived, forwarded  \* signals that arrived, that were forwarded

kernelVars == <<init, other, end, slaves, wrote, hostSize, arrived, stdout>>
relayVars == <<relay, events, out>>
mainVars == <<blocked, raw, size, runPc, ret, stop, forwarded>>
runVars == <<pty, tty, kernelVars, relayVars, mainVars, pending, buf>>

-----------------------------------------------------------------------------
(* Processes and the kernel (external) *)

\* A signal that is not blocked is discarded if its default is to ignore it.
Post(sig) == pending' = IF blocked THEN pending \cup {sig} ELSE pending

InitEnds ==
    /\ init = "running"
    /\ \E e \in Ends : end' = <<e>>
    /\ init' = "zombie"
    /\ slaves' = slaves \ {"init"}
    /\ Post("CHLD")
    /\ UNCHANGED <<pty, tty, other, wrote, hostSize, arrived, stdout, relayVars, mainVars, buf>>

\* The intermediate process, a child as well.
OtherEnds ==
    /\ other = "running"
    /\ other' = "zombie"
    /\ Post("CHLD")
    /\ UNCHANGED <<pty, tty, init, end, slaves, wrote, hostSize, arrived, stdout, relayVars, mainVars, buf>>

WriteTerminal(w) ==
    /\ w \in slaves /\ wrote[w] < Writes /\ Len(buf) < Capacity
    /\ buf' = Append(buf, w)
    /\ wrote' = [wrote EXCEPT ![w] = @ + 1]
    /\ UNCHANGED <<pty, tty, init, other, end, slaves, hostSize, arrived, stdout, relayVars, mainVars, pending>>

DescendantEnds ==
    /\ "descendant" \in slaves
    /\ slaves' = slaves \ {"descendant"}
    /\ UNCHANGED <<pty, tty, init, other, end, wrote, hostSize, arrived, stdout, relayVars, mainVars, pending, buf>>

\* Init closes its standard streams, or opens /dev/console again.
InitReopens ==
    /\ Reopens /\ pty /\ init = "running"
    /\ slaves' = IF "init" \in slaves THEN slaves \ {"init"} ELSE slaves \cup {"init"}
    /\ UNCHANGED <<pty, tty, init, other, end, wrote, hostSize, arrived, stdout, relayVars, mainVars, pending, buf>>

HostResizes ==
    /\ tty /\ hostSize < Sizes
    /\ hostSize' = hostSize + 1
    /\ Post("WINCH")
    /\ UNCHANGED <<pty, tty, init, other, end, slaves, wrote, arrived, stdout, relayVars, mainVars, buf>>

\* Others arrive once signals are blocked: before, they have their default effect.
SignalArrives ==
    /\ blocked
    /\ \E s \in Signals \ arrived : arrived' = arrived \cup {s} /\ Post(s)
    /\ UNCHANGED <<pty, tty, init, other, end, slaves, wrote, hostSize, stdout, relayVars, mainVars, buf>>

\* Whoever reads the runtime's stdout stops reading, or goes away.
StdoutEnds ==
    /\ stdout = "open"
    /\ stdout' \in {"stalled", "closed"}
    /\ UNCHANGED <<pty, tty, init, other, end, slaves, wrote, hostSize, arrived, relayVars, mainVars, pending, buf>>

-----------------------------------------------------------------------------
(* handle_foreground *)

ForegroundInit ==
    /\ pty \in BOOLEAN /\ tty \in BOOLEAN
    /\ init = "running" /\ other \in {"running", "zombie", "reaped"} /\ end = <<>>
    /\ pending = {} /\ blocked = FALSE
    /\ slaves \in IF pty THEN {{"init"}, Writers} ELSE {{}}
    /\ buf = <<>> /\ out = <<>> /\ wrote = [w \in Writers |-> 0]
    /\ raw = FALSE /\ size = 0 /\ hostSize \in 0 .. Sizes
    /\ runPc = "block" /\ ret = <<>>
    /\ relay = "none" /\ events = [master |-> FALSE, stop |-> FALSE] /\ stop = FALSE
    /\ arrived = {} /\ forwarded = {} /\ stdout = "open"

BlockSignals ==
    /\ runPc = "block"
    /\ blocked' = TRUE
    /\ runPc' = "bridge"
    /\ UNCHANGED <<pty, tty, kernelVars, relayVars, raw, size, ret, stop, forwarded, pending, buf>>

\* Raw mode is for a terminal of the host, and only with one of the container.
RawGuard == pty /\ tty

\* io_bridge starts the relay; the copy of stdin to the terminal is detached.
IoBridge == IF pty THEN "poll" ELSE relay

\* setup_console_bridge: raw mode, then the threads
SetupConsoleBridge ==
    /\ runPc = "bridge"
    /\ raw' = RawGuard
    /\ relay' = IoBridge
    /\ runPc' = "size"
    /\ UNCHANGED <<pty, tty, kernelVars, events, out, blocked, size, ret, stop, forwarded, pending, buf>>

\* resize_to_host
Resized == IF pty /\ tty THEN hostSize ELSE size

(* mutant: the loop waits for a signal before it looks for children *)
InitialResize_waits ==
    /\ runPc = "size"
    /\ size' = Resized
    /\ runPc' = "wait"
    /\ UNCHANGED <<pty, tty, kernelVars, relayVars, blocked, raw, ret, stop, forwarded, pending, buf>>

\* The first resize, on the way to the first look for children.
InitialResize ==
    /\ runPc = "size"
    /\ size' = Resized
    /\ runPc' = "reap"
    /\ UNCHANGED <<pty, tty, kernelVars, relayVars, blocked, raw, ret, stop, forwarded, pending, buf>>

Code(e) == IF e.how = "exit" THEN e.n ELSE 128 + e.n

\* reap_children: zombies in any order, until init or none
ReapChildren ==
    /\ runPc = "reap"
    /\ \/ /\ init = "zombie"
          /\ init' = "reaped"
          /\ ret' = <<Code(end[1])>>
          /\ runPc' = "restore"
          /\ UNCHANGED other
       \/ /\ other = "zombie"
          /\ other' = "reaped"
          /\ UNCHANGED <<init, ret, runPc>>
       \/ /\ init # "zombie" /\ other # "zombie"
          /\ runPc' = "wait"
          /\ UNCHANGED <<init, other, ret>>
    /\ UNCHANGED <<pty, tty, end, slaves, wrote, hostSize, arrived, stdout, relayVars, blocked, raw, size, stop, forwarded, pending, buf>>

\* The loop over sigwait.
SigWait ==
    /\ runPc = "wait"
    /\ \E s \in pending :
          /\ pending' = pending \ {s}
          /\ runPc' = IF s = "CHLD" THEN "reap" ELSE "wait"
          /\ size' = IF s = "WINCH" THEN Resized ELSE size
          /\ forwarded' = IF s \in {"CHLD", "URG", "WINCH"} THEN forwarded ELSE forwarded \cup {s}
    /\ UNCHANGED <<pty, tty, kernelVars, relayVars, blocked, raw, ret, stop, buf>>

\* Drop of ConsoleBridge: the terminal first, then the relay.
RestoreTerminal ==
    /\ runPc = "restore"
    /\ raw' = FALSE
    /\ runPc' = "stop"
    /\ UNCHANGED <<pty, tty, kernelVars, relayVars, blocked, size, ret, stop, forwarded, pending, buf>>

StopRelay ==
    /\ runPc = "stop"
    /\ stop' = TRUE
    /\ runPc' = "join"
    /\ UNCHANGED <<pty, tty, kernelVars, relayVars, blocked, raw, size, ret, forwarded, pending, buf>>

JoinRelay ==
    /\ runPc = "join"
    /\ relay \in {"none", "done"}
    /\ runPc' = "returned"
    /\ UNCHANGED <<pty, tty, kernelVars, relayVars, blocked, raw, size, ret, stop, forwarded, pending, buf>>

ForegroundMain ==
    \/ BlockSignals \/ SetupConsoleBridge \/ InitialResize \/ ReapChildren \/ SigWait
    \/ RestoreTerminal \/ StopRelay \/ JoinRelay

-----------------------------------------------------------------------------
(* The relay thread *)

\* POLLIN, POLLHUP or POLLERR on the master
Readable == buf # <<>> \/ slaves = {}

\* Poll with no timeout
Poll ==
    /\ relay = "poll"
    /\ Readable \/ stop
    /\ events' = [master |-> Readable, stop |-> stop]
    /\ relay' = IF Readable THEN "read" ELSE "drain"
    /\ UNCHANGED <<pty, tty, kernelVars, out, mainVars, pending, buf>>

\* What is read is written to stdout, which waits while nobody reads it; an error of
\* the write ends the relay.  A master that hung up gives EIO.
ReadTo(next) ==
    \/ /\ buf # <<>> /\ stdout \in {"open", "closed"}
       /\ \E n \in 1 .. Len(buf) :
             /\ out' = IF stdout = "open" THEN out \o SubSeq(buf, 1, n) ELSE out
             /\ buf' = SubSeq(buf, n + 1, Len(buf))
       /\ relay' = IF stdout = "open" THEN next ELSE "done"
    \/ /\ buf = <<>> /\ slaves = {}
       /\ relay' = "done"
       /\ UNCHANGED <<out, buf>>

(* mutant: the relay ends when it is told to stop, with what it has read *)
RelayOutput_no_drain ==
    /\ relay = "read"
    /\ ReadTo(IF events.stop THEN "done" ELSE "poll")
    /\ UNCHANGED <<pty, tty, kernelVars, events, mainVars, pending>>

RelayOutput ==
    /\ relay = "read"
    /\ ReadTo(IF events.stop THEN "drain" ELSE "poll")
    /\ UNCHANGED <<pty, tty, kernelVars, events, mainVars, pending>>

\* drain_pending_output: poll with a timeout of zero
DrainPoll ==
    /\ relay = "drain"
    /\ relay' = IF Readable THEN "drain_read" ELSE "done"
    /\ UNCHANGED <<pty, tty, kernelVars, events, out, mainVars, pending, buf>>

DrainRead ==
    /\ relay = "drain_read"
    /\ ReadTo("drain")
    /\ UNCHANGED <<pty, tty, kernelVars, events, mainVars, pending>>

Relay == Poll \/ RelayOutput \/ DrainPoll \/ DrainRead

Environment ==
    \/ InitEnds \/ OtherEnds \/ DescendantEnds \/ InitReopens \/ HostResizes \/ SignalArrives \/ StdoutEnds
    \/ \E w \in Writers : WriteTerminal(w)

ForegroundNext == ForegroundMain \/ Relay \/ Environment

ForegroundSpec == ForegroundInit /\ [][ForegroundNext]_runVars /\ WF_runVars(ForegroundMain) /\ WF_runVars(Relay)

-----------------------------------------------------------------------------
(* Properties *)

\* The variables have their types; the runtime has a status exactly from the step
\* that waited for init, and the relay runs exactly with a terminal.
ForegroundTypeOK ==
    /\ pending \subseteq Signals \cup {"CHLD", "WINCH"}
    /\ Len(buf) <= Capacity
    /\ (ret # <<>>) = (init = "reaped")
    /\ ret # <<>> => runPc \in {"restore", "stop", "join", "returned"}
    /\ relay # "none" => pty
    /\ raw => pty /\ tty
    /\ stdout \in {"open", "stalled", "closed"}

\* handle_foreground returns how init ended, whatever other children did.
ReturnsStatusOfInit ==
    ret # <<>> => /\ end # <<>>
                  /\ ret[1] = IF end[1].how = "signal" THEN 128 + end[1].n ELSE end[1].n

\* The output of init that is in the terminal when init ends is on stdout when
\* handle_foreground returns ("so the last output is not lost"), unless stdout was
\* closed: the relay ends with the first write that fails.
NothingLost ==
    runPc = "returned" /\ pty /\ stdout # "closed" => Cardinality({i \in DOMAIN out : out[i] = "init"}) = wrote["init"]

\* "Restore the host terminal before waiting for the output relay to finish": the
\* wait may be long if nobody reads stdout.
TerminalRestored == runPc \in {"join", "returned"} => ~raw

\* What the caller of handle_foreground may rely on.  The relay ends when the
\* terminal hangs up, so output is promised of an init that keeps its terminal.
ReturnsFaithfully ==
    /\ ~Reopens => NothingLost
    /\ TerminalRestored
    /\ ReturnsStatusOfInit

\* Once init ended, the runtime returns: a SIGCHLD that came too early, or one for
\* two children, is not waited for, and a descendant that keeps the terminal
\* open does not hold the runtime back.  Only a stdout that is full and that nobody
\* reads any more does; and the drain, which has no bound of its own, ends because
\* the writes of a descendant do.
Returns == (init = "zombie") ~> (runPc = "returned" \/ stdout = "stalled")

=============================================================================
