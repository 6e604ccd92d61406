------------------------- MODULE MCContainerCreate -------------------------
(* Instances of ContainerCreate for TLC. *)
EXTENDS ContainerCreate

Base == [kind |-> "init", userns |-> "none", timens |-> "none",
         offsets |-> "none", hooks |-> FALSE, netDevices |-> "none",
         seccomp |-> "none", noNewPrivs |-> "none", rootless |-> FALSE,
         sibling |-> FALSE]

\* What the intermediate process depends on, with one request of the init
\* process after it.
NamespaceArgs ==
    {[Base EXCEPT !.userns = u, !.timens = t, !.offsets = o, !.hooks = TRUE] :
        u \in {"none", "new", "path"}, t \in {"none", "new", "path"},
        o \in {"none", "empty", "some"}}

\* What the init process depends on.
RequestArgs ==
    {[Base EXCEPT !.hooks = h, !.netDevices = n, !.seccomp = s,
                  !.noNewPrivs = p] :
        h \in BOOLEAN, n \in {"none", "empty", "some"},
        s \in {"none", "plain", "notify"}, p \in {"none", "some"}}

Everything == [Base EXCEPT !.userns = "new", !.timens = "new",
                           !.offsets = "some", !.hooks = TRUE,
                           !.netDevices = "some", !.seccomp = "notify"]

TenantArgsSet ==
    {[Base EXCEPT !.kind = "tenant", !.userns = u, !.timens = u,
                  !.offsets = "some", !.hooks = h, !.sibling = s] :
        u \in {"none", "path"}, h \in BOOLEAN, s \in BOOLEAN}

RootSpecs ==
    NamespaceArgs \cup RequestArgs \cup TenantArgsSet
        \cup {Everything, [Everything EXCEPT !.noNewPrivs = "some"],
              [Everything EXCEPT !.sibling = TRUE]}

\* A rootless runtime that makes no namespace the main process writes to.
RootlessSpecs == {[a EXCEPT !.rootless = TRUE] :
                    a \in RequestArgs \cup TenantArgsSet}

MCSpecs == RootSpecs \cup RootlessSpecs

\* A rootless runtime that makes a new user namespace.
RootlessUserns == {[Base EXCEPT !.userns = "new", !.rootless = TRUE]}
=============================================================================
