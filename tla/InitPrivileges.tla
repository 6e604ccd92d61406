--------------------------- MODULE InitPrivileges ---------------------------
(***************************************************************************)
(* The last part of container_init_process: what the init process gives up *)
(* and what it hands to the payload.  In the order of the code: no new     *)
(* privileges, the working directory, supplementary groups, uid and gid,   *)
(* the file descriptors (LISTEN_FDS, preserve_fds), the seccomp filter     *)
(* (before or after capabilities are dropped), the capabilities, the       *)
(* environment, exec.  A call that fails ends the process.                 *)
(*                                                                         *)
(* An Option is <<>> or <<value>>.  The kernel's rules for credentials and *)
(* file descriptors are external and stated where they apply.              *)
(***************************************************************************)
EXTENDS Integers, Sequences, FiniteSets

CONSTANTS Cap, Process, LastFd

Fd == 0 .. LastFd

(* A member of Process is the spec's process with the environment it meets:*)
(* uid, gid, gids, capabilities, no_new_privileges, seccomp, cwd; the      *)
(* capabilities the runtime holds and the inheritable ones it was started  *)
(* with; LISTEN_FDS, preserve_fds; HOME in the spec's env and in the       *)
(* passwd database; how chdir ends before and after the user is set, and   *)
(* getcwd.                                                                 *)
VARIABLES
    proc, privPc,
    cred,       \* uid, gid, groups, no_new_privs, keep_caps and the capability sets
    filter,     \* "none", or the capability sets' state when it was loaded
    cloexec,    \* the open fds with FD_CLOEXEC
    cwd,        \* "unset", or the directory process.cwd names
    do_chdir,
    envs        \* HOME, LISTEN_FDS and LISTEN_PID as the payload will see them

privVars == <<proc, privPc, cred, filter, cloexec, cwd, do_chdir, envs>>

PrivPc == {"nnp", "chdir", "groups", "id", "fds", "early", "caps", "chdir2", "cwd",
       "late", "env", "exec", "payload", "failed"}

PrivilegesTypeOK ==
    /\ privPc \in PrivPc
    /\ cred.uid \in Nat /\ cred.gid \in Nat /\ cred.groups \subseteq Nat
    /\ cred.nnp \in BOOLEAN /\ cred.keep \in BOOLEAN
    /\ cred.eff \subseteq cred.perm /\ cred.perm \cup cred.inh \cup cred.bnd \subseteq Cap
    /\ cred.amb \subseteq cred.perm \cap cred.inh
    /\ filter \in {"none", "privileged", "nnp"}
    /\ cloexec \subseteq Fd
    /\ do_chdir \in BOOLEAN

PrivilegesInit ==
    /\ proc \in Process
    /\ privPc = "nnp"
    /\ cred = [uid |-> 0, gid |-> 0, groups |-> {0}, nnp |-> FALSE, keep |-> FALSE,
               eff |-> proc.held, perm |-> proc.held, inh |-> proc.inherited,
               bnd |-> proc.held, amb |-> proc.inherited \cap proc.held]
    /\ filter = "none"
    /\ cloexec = {}
    /\ cwd = "unset"
    /\ do_chdir = FALSE
    /\ envs = [home |-> proc.home, listen |-> 0, pid |-> 0]

Done(next) == privPc' = next
PrivFail == privPc' = "failed"

-----------------------------------------------------------------------------
(* Capabilities (external, capabilities(7)): capset may not add to         *)
(* permitted, keeps effective in permitted, and adds to inheritable only   *)
(* from permitted and the bounding set; ambient stays in both; dropping    *)
(* from the bounding set takes SETPCAP.                                    *)

CapsetAllowed(c, d) ==
    /\ d.perm \subseteq c.perm
    /\ d.eff \subseteq d.perm
    /\ d.inh \subseteq c.inh \cup (c.perm \cap c.bnd)

Capset(c, d) ==
    IF CapsetAllowed(c, d)
    THEN <<[d EXCEPT !.amb = @ \cap d.perm \cap d.inh]>> ELSE <<>>

\* One call of set_capability: <<>> when it fails.  An ambient capability that
\* cannot be raised is only warned about.
set_capability(c, cset, value) ==
    CASE cset = "Bounding" ->
            IF c.bnd \subseteq value THEN <<c>>
            ELSE IF "SETPCAP" \in c.eff THEN <<[c EXCEPT !.bnd = @ \cap value]>> ELSE <<>>
      [] cset = "Ambient" -> <<[c EXCEPT !.amb = value \cap c.perm \cap c.inh]>>
      [] cset = "Effective" -> Capset(c, [c EXCEPT !.eff = value])
      [] cset = "Permitted" -> Capset(c, [c EXCEPT !.perm = value])
      [] cset = "Inheritable" -> Capset(c, [c EXCEPT !.inh = value])

\* `if let Some(value) = asked { set_capability(...)? }` on the outcome so far.
IfAsked(outcome, cset, asked) ==
    IF outcome = <<>> \/ asked = <<>> THEN outcome
    ELSE set_capability(outcome[1], cset, asked[1])

reset_effective(c) == set_capability(c, "Effective", c.perm)

(* mutant: the bounding set is dropped last *)
BoundingLast(c, cs) ==
    LET e == IfAsked(<<c>>, "Effective", cs.effective)
        p == IfAsked(e, "Permitted", cs.permitted)
        i == IfAsked(p, "Inheritable", cs.inheritable)
        a == IfAsked(i, "Ambient", cs.ambient)
    IN  IfAsked(a, "Bounding", IF cs.bounding = <<>> THEN <<{}>> ELSE cs.bounding)

\* A missing bounding list is an empty one, the other lists are left alone.
drop_privileges(c, cs) ==
    LET bounding == IF cs.bounding = <<>> THEN <<{}>> ELSE cs.bounding
        b == IfAsked(<<c>>, "Bounding", bounding)
        e == IfAsked(b, "Effective", cs.effective)
        p == IfAsked(e, "Permitted", cs.permitted)
        i == IfAsked(p, "Inheritable", cs.inheritable)
    IN  IfAsked(i, "Ambient", cs.ambient)

-----------------------------------------------------------------------------

NoNewPrivileges ==
    /\ privPc = "nnp"
    /\ cred' = [cred EXCEPT !.nnp = proc.no_new_privileges = <<TRUE>>]
    /\ Done("chdir")
    /\ UNCHANGED <<proc, filter, cloexec, cwd, do_chdir, envs>>

\* The first chdir, with the rights of the user running youki.
Chdir ==
    /\ privPc = "chdir"
    /\ CASE proc.cwd = "" -> Done("groups") /\ UNCHANGED <<cwd, do_chdir>>
         [] proc.cwd # "" /\ proc.chdir = "ok" ->
                Done("groups") /\ cwd' = proc.cwd /\ UNCHANGED do_chdir
         [] proc.cwd # "" /\ proc.chdir = "EPERM" ->
                Done("groups") /\ do_chdir' = TRUE /\ UNCHANGED cwd
         [] OTHER -> PrivFail /\ UNCHANGED <<cwd, do_chdir>>
    /\ UNCHANGED <<proc, cred, filter, cloexec, envs>>

\* An empty or missing list leaves the groups as they are.
SetGroups ==
    /\ privPc = "groups"
    /\ cred' = [cred EXCEPT !.groups = IF proc.gids = {} THEN @ ELSE proc.gids]
    /\ Done("id")
    /\ UNCHANGED <<proc, filter, cloexec, cwd, do_chdir, envs>>

\* External: leaving uid 0 clears the effective and ambient sets, and the
\* permitted set too unless keep capabilities is on.
Setresuid(c, uid) ==
    IF uid = 0 THEN c
    ELSE [c EXCEPT !.uid = uid, !.eff = {}, !.amb = {},
                   !.perm = IF c.keep THEN @ ELSE {}]

\* setresgid, setresuid; the kernel refuses an id that is not mapped (see UserNamespace).
set_id ==
    /\ privPc = "id"
    /\ LET c == Setresuid([cred EXCEPT !.keep = TRUE, !.gid = proc.gid], proc.uid)
           r == IF proc.uid # 0 THEN reset_effective(c) ELSE <<c>>
       IN  \/ r # <<>> /\ cred' = [r[1] EXCEPT !.keep = FALSE] /\ Done("fds")
           \/ PrivFail /\ UNCHANGED cred
    /\ UNCHANGED <<proc, filter, cloexec, cwd, do_chdir, envs>>

\* close_range(3 + preserve_fds, MAX, CLOEXEC), emulated over /proc/self/fd
\* where the kernel lacks it or finds the bound invalid (negative).
close_range(preserve_fds) == {fd \in Fd : fd >= 3 + preserve_fds}

\* LISTEN_FDS that is not a number counts as 0.
CleanupFds ==
    /\ privPc = "fds"
    /\ LET listen == IF proc.listen_fds \in {<<>>, <<<<>>>>} THEN 0
                     ELSE proc.listen_fds[1][1]
       IN  /\ cloexec' = close_range(proc.preserve_fds + listen)
           /\ envs' = IF listen > 0 THEN [envs EXCEPT !.listen = listen, !.pid = 1] ELSE envs
    /\ Done("early")
    /\ UNCHANGED <<proc, cred, filter, cwd, do_chdir>>

\* External: loading a filter takes no_new_privs or CAP_SYS_ADMIN.
initialize_seccomp(next) ==
    IF cred.nnp THEN filter' = "nnp" /\ Done(next)
    ELSE IF "SYS_ADMIN" \in cred.eff THEN filter' = "privileged" /\ Done(next)
    ELSE PrivFail /\ UNCHANGED filter

SeccompEarly ==
    /\ privPc = "early"
    /\ IF proc.seccomp /\ proc.no_new_privileges = <<>>
       THEN initialize_seccomp("caps")
       ELSE Done("caps") /\ UNCHANGED filter
    /\ UNCHANGED <<proc, cred, cloexec, cwd, do_chdir, envs>>

DropCapabilities ==
    /\ privPc = "caps"
    /\ LET r == reset_effective(cred)
           d == IF r = <<>> \/ proc.capabilities = <<>> THEN r
                ELSE drop_privileges(r[1], proc.capabilities[1])
       IN  IF d = <<>> THEN PrivFail /\ UNCHANGED cred
           ELSE cred' = d[1] /\ Done("chdir2")
    /\ UNCHANGED <<proc, filter, cloexec, cwd, do_chdir, envs>>

\* The second chdir, with the rights of the container's user.
ChdirAsUser ==
    /\ privPc = "chdir2"
    /\ IF ~do_chdir THEN Done("cwd") /\ UNCHANGED cwd
       ELSE IF proc.chdir_as_user = "ok" THEN Done("cwd") /\ cwd' = proc.cwd
       ELSE PrivFail /\ UNCHANGED cwd
    /\ UNCHANGED <<proc, cred, filter, cloexec, do_chdir, envs>>

\* getcwd fails for a directory that was unlinked and is not absolute for one
\* outside of the root.
verify_cwd ==
    /\ privPc = "cwd"
    /\ IF proc.getcwd = "inside" THEN Done("late") ELSE PrivFail
    /\ UNCHANGED <<proc, cred, filter, cloexec, cwd, do_chdir, envs>>

SeccompLate ==
    /\ privPc = "late"
    /\ IF proc.seccomp /\ proc.no_new_privileges # <<>>
       THEN initialize_seccomp("env")
       ELSE Done("env") /\ UNCHANGED filter
    /\ UNCHANGED <<proc, cred, cloexec, cwd, do_chdir, envs>>

set_home_env_if_not_exists ==
    /\ privPc = "env"
    /\ envs' = IF envs.home = "" THEN [envs EXCEPT !.home = proc.passwd_home] ELSE envs
    /\ Done("exec")
    /\ UNCHANGED <<proc, cred, filter, cloexec, cwd, do_chdir>>

\* External, execve of a file without capabilities: uid 0 gets the bounding
\* and the inheritable set, any other uid its ambient set.
Exec ==
    /\ privPc = "exec"
    /\ LET p == IF cred.uid = 0 THEN cred.bnd \cup cred.inh ELSE cred.amb
       IN  cred' = [cred EXCEPT !.perm = p, !.eff = p,
                                !.amb = IF cred.uid = 0 THEN {} ELSE @]
    /\ Done("payload")
    /\ UNCHANGED <<proc, filter, cloexec, cwd, do_chdir, envs>>

PrivStopped == privPc \in {"payload", "failed"} /\ UNCHANGED privVars

PrivilegesNext ==
    \/ NoNewPrivileges \/ Chdir \/ SetGroups \/ set_id \/ CleanupFds
    \/ SeccompEarly \/ DropCapabilities \/ ChdirAsUser \/ verify_cwd
    \/ SeccompLate \/ set_home_env_if_not_exists \/ Exec \/ PrivStopped

PrivilegesSpec == PrivilegesInit /\ [][PrivilegesNext]_privVars

-----------------------------------------------------------------------------
(* Properties. *)

Asked(set) == IF proc.capabilities = <<>> THEN <<>> ELSE proc.capabilities[1][set]

\* What the runtime was started with as inheritable and drop_privileges leaves so:
\* nothing but the inheritable list of the spec takes it away.
StillInheritable ==
    {c \in proc.inherited : Asked("inheritable") = <<>> \/ c \in Asked("inheritable")[1]}

\* The payload never holds a capability outside of the bounding set the spec
\* asks for, whichever other sets it lists and in whatever way they disagree,
\* unless the runtime itself was started with it as inheritable; and a payload
\* that is not root holds only asked ambient capabilities.
PayloadIsBounded ==
    privPc = "payload" /\ proc.capabilities # <<>> =>
        /\ cred.perm \subseteq
               StillInheritable \cup IF Asked("bounding") = <<>> THEN {} ELSE Asked("bounding")[1]
        /\ cred.uid # 0 => cred.perm \subseteq
               IF Asked("ambient") = <<>> THEN {} ELSE Asked("ambient")[1]

\* Keeping the capabilities across setresuid does not outlive set_id, and each
\* ambient capability that is also permitted and inheritable reaches a payload
\* that is not root, whatever becomes of the others.
AmbientReachesPayload ==
    privPc = "payload" =>
        /\ ~cred.keep
        /\ cred.uid # 0 /\ Asked("ambient") # <<>>
              /\ Asked("permitted") # <<>> /\ Asked("inheritable") # <<>>
           => Asked("ambient")[1] \cap Asked("permitted")[1] \cap Asked("inheritable")[1]
                  \subseteq cred.eff

\* The payload of a spec with a seccomp profile runs under it: loaded early or
\* late, never skipped between the two.
PayloadIsFiltered ==
    privPc = "payload" =>
        /\ proc.seccomp <=> filter # "none"
        /\ proc.no_new_privileges = <<TRUE>> => cred.nnp

\* LISTEN_FDS names fds that are open in the payload, on top of the preserved
\* ones and of stdio, and no other fd is inherited.
ListenFdsAreInherited ==
    privPc = "payload" =>
        /\ Fd \ cloexec = 0 .. (2 + proc.preserve_fds + envs.listen)
        /\ envs.listen > 0 => envs.pid = 1

\* The payload starts in the directory the spec names, even when only the
\* container's user may enter it, and in no unlinked or outside directory.
StartsInCwd ==
    privPc = "payload" => /\ proc.cwd # "" => cwd = proc.cwd
                      /\ proc.getcwd = "inside"

\* The payload has the uid, the gid and the additional gids of the spec, and no call
\* between set_id and exec has changed them.
RunsAsUser ==
    privPc = "payload" => /\ cred.uid = proc.uid /\ cred.gid = proc.gid
                          /\ proc.gids # {} => cred.groups = proc.gids

\* What the payload is given is what the process section asks for: its ids, its
\* capabilities (bounded, and the ambient ones that can be had), its seccomp profile, its working
\* directory and its file descriptors.
PayloadAsAsked ==
    /\ RunsAsUser
    /\ PayloadIsBounded
    /\ AmbientReachesPayload
    /\ PayloadIsFiltered
    /\ StartsInCwd
    /\ ListenFdsAreInherited
=============================================================================
