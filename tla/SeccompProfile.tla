--------------------------- MODULE SeccompProfile ---------------------------
(***************************************************************************)
(* The seccomp profile of the container: initialize_seccomp turns it into  *)
(* libseccomp rules and loads them in the init process, and the fd of the  *)
(* notifications travels from there to the main process and on to the      *)
(* listener while the init process already runs under its own filter.      *)
(*                                                                         *)
(* A profile is [default, errno, flags, archs, syscalls, listener]; an     *)
(* entry of syscalls is [names, action, errno, args].  Optional values are *)
(* <<>> or <<value>>; an argument test is [index, op, value, two].         *)
(***************************************************************************)
EXTENDS Integers, Sequences, FiniteSets, SequencesExt, Bitwise

CONSTANTS
    Profiles,   \* the profiles explored; at most one action for a syscall
    Known,      \* the syscall names ScmpSyscall::from_name resolves
    Calls,      \* system calls asked of the filter: [name, args]
    KnownArchs  \* the architectures libseccomp accepts

EPERM == 1
MaxTrace == 65535

VARIABLES
    profile,
    pc,        \* next step of the init process
    entry,     \* entries of the profile turned into rules
    ctx,       \* the libseccomp context: [default, flags, archs, nnp, rules]
    fd,        \* does the init process hold a notification fd?
    main,      \* the main process: "waiting", "fd", "sent", "done" or "failed"
    listener   \* does the seccomp listener hold the fd?

vars == <<profile, pc, entry, ctx, fd, main, listener>>

-----------------------------------------------------------------------------
\* translate_action: <<>> if the number does not fit a trace action; only errno
\* and trace keep the number, and both kills of a thread are one action.
TranslateAction(action, errno) ==
    LET n == IF errno = <<>> THEN EPERM ELSE errno[1]
    IN  CASE action = "errno" -> << <<"errno", n>> >>
          [] action = "trace" -> IF n \in 0 .. MaxTrace THEN << <<"trace", n>> >> ELSE <<>>
          [] action \in {"kill", "kill_thread"} -> << <<"kill_thread", 0>> >>
          [] OTHER -> << <<action, 0>> >>

\* check_seccomp: no notification by default and none for write.
CheckSeccomp(p) ==
    /\ p.default # "notify"
    /\ \A i \in DOMAIN p.syscalls : p.syscalls[i].action = "notify" => "write" \notin p.syscalls[i].names

IsNotify(p) == \E i \in DOMAIN p.syscalls : p.syscalls[i].action = "notify"

HasDuplicateIndex(args) == \E i, j \in DOMAIN args : i # j /\ args[i].index = args[j].index

\* The rules an entry adds: a name that does not resolve is passed over; tests of
\* one argument cannot share a rule and become a rule each.
RulesOf(e, action) ==
    LET tests == IF e.args = <<>> THEN {{}}
                 ELSE IF HasDuplicateIndex(e.args[1]) THEN {{t} : t \in ToSet(e.args[1])}
                 ELSE {ToSet(e.args[1])}
    IN  {[name |-> n, action |-> action, tests |-> t] : n \in e.names \cap Known, t \in tests}

-----------------------------------------------------------------------------
(* libseccomp and the kernel *)

\* seccomp_rule_add refuses the default action and two tests of one argument.
Refused(rule) ==
    \/ rule.action = ctx.default
    \/ \E t, u \in rule.tests : t # u /\ t.index = u.index

\* The comparisons of translate_op.
Holds(t, args) ==
    LET a == args[t.index]
    IN  CASE t.op = "ne" -> a # t.value
          [] t.op = "lt" -> a < t.value
          [] t.op = "le" -> a <= t.value
          [] t.op = "eq" -> a = t.value
          [] t.op = "ge" -> a >= t.value
          [] t.op = "gt" -> a > t.value
          [] t.op = "masked_eq" -> (a & IF t.two = <<>> THEN 0 ELSE t.two[1]) = t.value

\* The verdict of the loaded filter.
Verdict(call) ==
    LET hits == {r \in ctx.rules : r.name = call.name /\ \A t \in r.tests : Holds(t, call.args)}
    IN  IF hits = {} THEN ctx.default ELSE (CHOOSE r \in hits : TRUE).action

\* seccomp_notify_fd has an fd only if a loaded rule notifies.
HasListenerFd == ctx.default[1] = "notify" \/ \E r \in ctx.rules : r.action[1] = "notify"

\* A system call of the filtered init process: it goes through, it is refused, or
\* it waits for the process that holds the notification fd.
Anywhere(name) == [name |-> name, args |-> [i \in 0 .. 1 |-> 0]]
GoesThrough(name) ==
    LET v == Verdict(Anywhere(name))[1]
    IN  v \in {"allow", "log"} \cup IF listener THEN {"notify"} ELSE {}
IsRefused(name) == Verdict(Anywhere(name))[1] \notin {"allow", "log", "notify"}

-----------------------------------------------------------------------------
(* initialize_seccomp *)

Goto(l) == pc' = l

Init ==
    /\ profile \in Profiles
    /\ pc = "check"
    /\ entry = 0
    /\ ctx = [default |-> <<"allow", 0>>, flags |-> {}, archs |-> {}, nnp |-> TRUE, rules |-> {}]
    /\ fd = FALSE /\ main = "waiting" /\ listener = FALSE

\* check_seccomp and the new context
NewFilter ==
    /\ pc = "check"
    /\ LET default == TranslateAction(profile.default, profile.errno)
       IN  IF ~CheckSeccomp(profile) \/ default = <<>> THEN Goto("failed") /\ UNCHANGED ctx
           ELSE ctx' = [ctx EXCEPT !.default = default[1]] /\ Goto("attributes")
    /\ UNCHANGED <<profile, entry, fd, main, listener>>

\* Flags, architectures and SCMP_FLTATR_CTL_NNP, which is switched off.
SetAttributes ==
    /\ pc = "attributes"
    /\ IF ~(profile.archs \subseteq KnownArchs) THEN Goto("failed") /\ UNCHANGED ctx
       ELSE /\ ctx' = [ctx EXCEPT !.flags = profile.flags, !.archs = profile.archs, !.nnp = FALSE]
            /\ Goto("rules")
    /\ UNCHANGED <<profile, entry, fd, main, listener>>

\* One entry: redundant if it has the default action, else its rules are added.
AddEntry ==
    /\ pc = "rules" /\ entry < Len(profile.syscalls)
    /\ LET e == profile.syscalls[entry + 1]
           action == TranslateAction(e.action, e.errno)
           rules == RulesOf(e, action[1])
       IN  IF action = <<>> THEN Goto("failed") /\ UNCHANGED <<entry, ctx>>
           ELSE IF action[1] = ctx.default THEN entry' = entry + 1 /\ UNCHANGED <<pc, ctx>>
           ELSE IF \E r \in rules : Refused(r) THEN Goto("failed") /\ UNCHANGED <<entry, ctx>>
           ELSE /\ ctx' = [ctx EXCEPT !.rules = @ \cup rules]
                /\ entry' = entry + 1 /\ UNCHANGED pc
    /\ UNCHANGED <<profile, fd, main, listener>>

\* ctx.load may be refused for lack of privilege.
Load ==
    /\ pc = "rules" /\ entry = Len(profile.syscalls)
    /\ Goto("notify_fd") \/ Goto("failed")
    /\ UNCHANGED <<profile, entry, ctx, fd, main, listener>>

\* The fd is asked for when the profile has a notification entry.
GetNotifyFd ==
    /\ pc = "notify_fd"
    /\ IF ~IsNotify(profile) THEN Goto("ready") /\ UNCHANGED fd
       ELSE IF HasListenerFd THEN Goto("send") /\ fd' = TRUE
       ELSE Goto("failed") /\ UNCHANGED fd
    /\ UNCHANGED <<profile, entry, ctx, main, listener>>

-----------------------------------------------------------------------------
(* sync_seccomp, handle_seccomp_notify *)

\* seccomp_notify_request: the fd goes out with sendmsg.
SendFd ==
    /\ pc = "send"
    /\ \/ GoesThrough("sendmsg") /\ main' = "fd" /\ Goto("await")
       \/ IsRefused("sendmsg") /\ Goto("failed") /\ UNCHANGED main
    /\ UNCHANGED <<profile, entry, ctx, fd, listener>>

(* mutant: the init process is told to go on before the listener has the fd *)
MainForward_answers_first ==
    /\ main = "fd"
    /\ IF profile.listener THEN main' = "done" ELSE main' = "failed"
    /\ UNCHANGED <<profile, pc, entry, ctx, fd, listener>>

(* mutant: a profile without a listener path leaves the request unanswered *)
MainForward_needs_path ==
    /\ main = "fd"
    /\ profile.listener /\ main' = "sent" /\ listener' = TRUE
    /\ UNCHANGED <<profile, pc, entry, ctx, fd>>

\* sync_seccomp_send_msg: connect to the listener and send it the fd.
MainForward ==
    /\ main = "fd"
    /\ \/ profile.listener /\ main' = "sent" /\ listener' = TRUE
       \/ main' = "failed" /\ UNCHANGED listener
    /\ UNCHANGED <<profile, pc, entry, ctx, fd>>

MainDone ==
    /\ main = "sent"
    /\ main' = "done"
    /\ UNCHANGED <<profile, pc, entry, ctx, fd, listener>>

\* wait_for_seccomp_request_done, with recvmsg; the init process closes its fd.
AwaitDone ==
    /\ pc = "await"
    /\ \/ main = "done" /\ GoesThrough("recvmsg") /\ Goto("ready") /\ fd' = FALSE
       \/ /\ main = "failed" \/ IsRefused("recvmsg")
          /\ Goto("failed") /\ UNCHANGED fd
    /\ UNCHANGED <<profile, entry, ctx, main, listener>>

InitSteps == NewFilter \/ SetAttributes \/ AddEntry \/ Load \/ GetNotifyFd \/ SendFd \/ AwaitDone
MainSteps == MainForward \/ MainDone

Next == InitSteps \/ MainSteps

Spec == Init /\ [][Next]_vars /\ WF_vars(InitSteps) /\ WF_vars(MainSteps)

-----------------------------------------------------------------------------
(* Properties *)

\* The context holds rules of resolved names only, never with the default action,
\* and the init process holds an fd only between the load and its last step.
TypeOK ==
    /\ profile \in Profiles
    /\ pc \in {"check", "attributes", "rules", "notify_fd", "send", "await", "ready", "failed"}
    /\ entry \in 0 .. Len(profile.syscalls)
    /\ \A r \in ctx.rules : r.name \in Known /\ ~Refused(r)
    /\ fd => pc \in {"send", "await", "failed"}
    /\ main \in {"waiting", "fd", "sent", "done", "failed"}
    /\ listener \in BOOLEAN

\* What the profile says of a call: an entry that names it and whose tests hold,
\* any of them when one argument is tested twice, gives it its action.
Meaning(call) ==
    LET applies(e) == /\ call.name \in e.names
                      /\ \/ e.args = <<>>
                         \/ HasDuplicateIndex(e.args[1]) /\ \E i \in DOMAIN e.args[1] : Holds(e.args[1][i], call.args)
                         \/ \A i \in DOMAIN e.args[1] : Holds(e.args[1][i], call.args)
        hits == {i \in DOMAIN profile.syscalls : applies(profile.syscalls[i])}
        e == profile.syscalls[CHOOSE i \in hits : TRUE]
    IN  IF hits = {} THEN TranslateAction(profile.default, profile.errno)[1]
        ELSE TranslateAction(e.action, e.errno)[1]

\* The loaded filter decides every call as the profile says: the entries left out
\* as redundant, the split rules and the numbers of the actions included.
FilterMeansProfile ==
    pc \in {"notify_fd", "send", "await", "ready"} =>
        \A call \in {c \in Calls : c.name \in Known} : Verdict(call) = Meaning(call)

\* The payload is not reached with a filter that notifies unless the listener has
\* the fd: otherwise the first notified call would wait for ever.
NotifiedIsListened == pc = "ready" /\ HasListenerFd => listener

\* "We need the write syscall or otherwise ... causing the container process to
\* hang": under its own filter the init process gets rid of the fd, or fails.  The
\* check refuses to notify write, and the fd leaves with sendmsg: only with a profile
\* that notifies sendmsg does the process wait for a listener nobody has told.
WaitsForItself == pc = "send" /\ Verdict(Anywhere("sendmsg"))[1] = "notify"
NeverHangs == [](pc = "check" => <>(pc \in {"ready", "failed"} \/ WaitsForItself))
=============================================================================
