----------------------------- MODULE InitProofs -----------------------------
(***************************************************************************)
(* What the init process is given and what it has given up when the        *)
(* payload starts: its privileges (InitPrivileges), for every process      *)
(* section; the namespaces it enters and writes to (InitNamespaces), for   *)
(* every spec; and its ids in a new user namespace (UserNamespace), for    *)
(* every list of mappings.                                                 *)
(***************************************************************************)
EXTENDS InitPrivileges, InitNamespaces, UserNamespace, TLAPS

-----------------------------------------------------------------------------
(* Privileges *)

\* The lists of a capabilities section are sets of capabilities.
CapLists(cs) ==
    \A k \in {"bounding", "effective", "permitted", "inheritable", "ambient"} :
        cs[k] # <<>> => cs[k][1] \in SUBSET Cap

\* LISTEN_FDS as CleanupFds reads it.
Listen(p) == IF p.listen_fds \in {<<>>, <<<<>>>>} THEN 0 ELSE p.listen_fds[1][1]

\* The lists a process section may hold, and a number of file descriptors to pass
\* that is neither negative nor beyond the ones there are.
Typed ==
    \A p \in Process :
        /\ p.uid \in Nat /\ p.gid \in Nat /\ p.gids \subseteq Nat
        /\ p.held \subseteq Cap /\ p.inherited \subseteq Cap
        /\ p.capabilities # <<>> => CapLists(p.capabilities[1])
        /\ p.preserve_fds \in Nat /\ Listen(p) \in Nat
        /\ 2 + p.preserve_fds + Listen(p) <= LastFd

Cred ==
    [uid : Nat, gid : Nat, groups : SUBSET Nat, nnp : BOOLEAN, keep : BOOLEAN, eff : SUBSET Cap,
     perm : SUBSET Cap, inh : SUBSET Cap, bnd : SUBSET Cap, amb : SUBSET Cap]

ToId == {"nnp", "chdir", "groups", "id"}
ToCaps == ToId \cup {"fds", "early", "caps"}
FromCaps == {"chdir2", "cwd", "late", "env", "exec"}

\* What is left of a set of capabilities the section lists.
Within(set, asked) == set \subseteq IF asked = <<>> THEN {} ELSE asked[1]

\* What is left of the inheritable set a process was started with.
Left(had, cs) == {x \in had : cs.inheritable = <<>> \/ x \in cs.inheritable[1]}

\* The credentials are within the lists of the section, but for what was inheritable
\* before: what exec can turn into capabilities of the payload, and what it is sure to.
WithinLists(c, cs, had) ==
    /\ Within(c.bnd, cs.bounding) /\ Within(c.inh \ Left(had, cs), cs.bounding)
    /\ c.uid # 0 => Within(c.amb, cs.ambient) /\ c.amb \subseteq c.inh
    /\ cs.ambient # <<>> /\ cs.permitted # <<>> /\ cs.inheritable # <<>> =>
         cs.ambient[1] \cap cs.permitted[1] \cap cs.inheritable[1] \subseteq c.amb

\* No set has been asked for yet.
Unasked(c, had) == c.inh = had /\ (c.uid # 0 => c.amb = {})

\* What the credentials are before the capabilities are dropped, after, and in the
\* payload.
CredInv ==
    /\ cred \in Cred /\ ~cred.keep
    /\ privPc # "nnp" => (cred.nnp <=> proc.no_new_privileges = <<TRUE>>)
    /\ privPc \in ToCaps => Unasked(cred, proc.inherited)
    /\ privPc \in FromCaps =>
         proc.capabilities = <<>> \/ WithinLists(cred, proc.capabilities[1], proc.inherited)
    /\ privPc = "payload" => PayloadIsBounded /\ AmbientReachesPayload

\* Whose ids the process has.
WhoInv ==
    /\ privPc \in ToId => cred.uid = 0
    /\ privPc \notin {"nnp", "chdir", "groups", "failed"} => (proc.gids # {} => cred.groups = proc.gids)
    /\ privPc \notin ToId \cup {"failed"} => cred.uid = proc.uid /\ cred.gid = proc.gid

\* Which of the two places loads the filter.
FilterInv ==
    /\ privPc \in ToId \cup {"fds", "early"} => filter = "none"
    /\ privPc \in {"caps", "chdir2", "cwd", "late"} =>
         (filter # "none" <=> proc.seccomp /\ proc.no_new_privileges = <<>>)
    /\ privPc \in {"env", "exec", "payload"} => (filter # "none" <=> proc.seccomp)

\* The directory is entered by one of the two chdirs.
CwdInv ==
    /\ privPc \notin {"nnp", "chdir", "failed"} => proc.cwd = "" \/ cwd = proc.cwd \/ do_chdir
    /\ privPc \in {"cwd", "late", "env", "exec", "payload"} => proc.cwd = "" \/ cwd = proc.cwd
    /\ privPc \in {"late", "env", "exec", "payload"} => proc.getcwd = "inside"

\* The payload is told of as many file descriptors as are left open for it.
FdInv ==
    /\ DOMAIN envs = {"home", "listen", "pid"}
    /\ privPc \in ToId => envs.listen = 0
    /\ privPc \notin ToId \cup {"fds", "failed"} =>
         /\ cloexec = close_range(proc.preserve_fds + Listen(proc))
         /\ envs.listen = Listen(proc) /\ (envs.listen > 0 => envs.pid = 1)
    /\ privPc = "fds" => envs.listen = 0

\* The inductive invariant of the last part of container_init_process.
PayloadInv ==
    proc \in Process /\ privPc \in PrivPc /\ CredInv /\ WhoInv /\ FilterInv /\ CwdInv /\ FdInv

CapSets == {"Bounding", "Effective", "Permitted", "Inheritable", "Ambient"}

\* What no call of set_capability changes.
Same(c, d) == d.uid = c.uid /\ d.gid = c.gid /\ d.groups = c.groups /\ d.keep = c.keep /\ d.nnp = c.nnp

\* What set_capability may make of credentials c when it succeeds.
Becomes(c, d, cset, value) ==
    /\ d \in Cred /\ Same(c, d)
    /\ d.bnd = IF cset = "Bounding" THEN c.bnd \cap value ELSE c.bnd
    /\ d.perm = IF cset = "Permitted" THEN value ELSE c.perm
    /\ d.inh = IF cset = "Inheritable" THEN value ELSE c.inh
    /\ cset = "Inheritable" => value \subseteq c.inh \cup c.bnd
    /\ cset # "Ambient" => d.amb \subseteq c.amb
    /\ cset = "Ambient" => d.amb = value \cap c.perm \cap c.inh

\* capset, as set_capability calls it, keeps the credentials well formed and takes
\* away the ambient capabilities that are no longer permitted and inheritable.
LEMMA CapsetResult ==
    ASSUME NEW c \in Cred, NEW d \in Cred, Capset(c, d) # <<>>
    PROVE  /\ Capset(c, d)[1] \in Cred /\ d.inh \subseteq c.inh \cup c.bnd
           /\ Capset(c, d)[1].amb \subseteq d.amb
           /\ Same(d, Capset(c, d)[1])
           /\ \A f \in {"bnd", "perm", "inh"} : Capset(c, d)[1][f] = d[f]
PROOF
  <1>. DEFINE e == [d EXCEPT !.amb = @ \cap d.perm \cap d.inh]
  <1>1. CapsetAllowed(c, d) /\ Capset(c, d) = <<e>>
    BY Zenon DEF Capset
  <1>2. d.inh \subseteq c.inh \cup c.bnd
    BY Zenon, <1>1 DEF CapsetAllowed
  <1>3. e \in Cred /\ e.amb \subseteq d.amb /\ Same(d, e)
        /\ e.bnd = d.bnd /\ e.perm = d.perm /\ e.inh = d.inh
    BY Zenon DEF Cred, Same
  <1>4. Capset(c, d)[1] = e
    BY SMTT(30), <1>1
  <1>. HIDE DEF e
  <1>. QED BY Zenon, <1>2, <1>3, <1>4

\* Each call of set_capability changes the set it names and no other, but for the
\* effective and the ambient ones, which it may cut.
LEMMA SetCapability ==
    ASSUME NEW c \in Cred, NEW cset \in CapSets, NEW value \in SUBSET Cap,
           set_capability(c, cset, value) # <<>>
    PROVE  Becomes(c, set_capability(c, cset, value)[1], cset, value)
PROOF
  <1>. DEFINE r == set_capability(c, cset, value)
  <1>1. CASE cset = "Bounding"
    <2>1. \/ r = <<c>> /\ c.bnd \subseteq value
          \/ r = <<[c EXCEPT !.bnd = @ \cap value]>>
      BY Zenon, <1>1 DEF set_capability
    <2>2. CASE r = <<c>> /\ c.bnd \subseteq value
      BY SMTT(30), <1>1, <2>2 DEF Becomes, Same
    <2>3. CASE r = <<[c EXCEPT !.bnd = @ \cap value]>>
      <3>. DEFINE e == [c EXCEPT !.bnd = @ \cap value]
      <3>1. /\ e \in Cred /\ Same(c, e)
            /\ e.bnd = c.bnd \cap value /\ e.perm = c.perm /\ e.inh = c.inh /\ e.amb = c.amb
        BY Zenon DEF Cred, Same
      <3>2. r[1] = e
        BY SMTT(30), <2>3
      <3>. HIDE DEF e, r
      <3>3. Becomes(c, r[1], cset, value)
        BY Zenon, <1>1, <3>1, <3>2 DEF Becomes
      <3>. QED BY Zenon, <3>3 DEF r
    <2>. QED BY Zenon, <2>1, <2>2, <2>3
  <1>2. CASE cset = "Ambient"
    <2>. DEFINE e == [c EXCEPT !.amb = value \cap c.perm \cap c.inh]
    <2>1. r = <<e>>
      BY Zenon, <1>2 DEF set_capability
    <2>2. /\ e \in Cred /\ Same(c, e)
          /\ e.bnd = c.bnd /\ e.perm = c.perm /\ e.inh = c.inh
          /\ e.amb = value \cap c.perm \cap c.inh
      BY Zenon DEF Cred, Same
    <2>3. r[1] = e
      BY SMTT(30), <2>1
    <2>. HIDE DEF e, r
    <2>4. Becomes(c, r[1], cset, value)
      BY Zenon, <1>2, <2>2, <2>3 DEF Becomes
    <2>. QED BY Zenon, <2>4 DEF r
  <1>3. CASE cset = "Effective"
    <2>. DEFINE e == [c EXCEPT !.eff = value]
    <2>1. r = Capset(c, e)
      BY Zenon, <1>3 DEF set_capability
    <2>2. /\ e \in Cred /\ Same(c, e)
          /\ e.bnd = c.bnd /\ e.perm = c.perm /\ e.inh = c.inh /\ e.amb = c.amb
      BY Zenon DEF Cred, Same
    <2>. HIDE DEF e
    <2>3. Becomes(c, r[1], cset, value)
      BY SMTT(30), <1>3, <2>1, <2>2, CapsetResult DEF Becomes, Same
    <2>. QED BY Zenon, <2>3
  <1>4. CASE cset = "Permitted"
    <2>. DEFINE e == [c EXCEPT !.perm = value]
    <2>1. r = Capset(c, e)
      BY Zenon, <1>4 DEF set_capability
    <2>2. /\ e \in Cred /\ Same(c, e)
          /\ e.bnd = c.bnd /\ e.perm = value /\ e.inh = c.inh /\ e.amb = c.amb
      BY Zenon DEF Cred, Same
    <2>. HIDE DEF e
    <2>3. Becomes(c, r[1], cset, value)
      BY SMTT(30), <1>4, <2>1, <2>2, CapsetResult DEF Becomes, Same
    <2>. QED BY Zenon, <2>3
  <1>5. CASE cset = "Inheritable"
    <2>. DEFINE e == [c EXCEPT !.inh = value]
    <2>1. r = Capset(c, e)
      BY Zenon, <1>5 DEF set_capability
    <2>2. /\ e \in Cred /\ Same(c, e)
          /\ e.bnd = c.bnd /\ e.perm = c.perm /\ e.inh = value /\ e.amb = c.amb
      BY Zenon DEF Cred, Same
    <2>. HIDE DEF e
    <2>3. Becomes(c, r[1], cset, value)
      BY SMTT(30), <1>5, <2>1, <2>2, CapsetResult DEF Becomes, Same
    <2>. QED BY Zenon, <2>3
  <1>. QED BY Zenon, <1>1, <1>2, <1>3, <1>4, <1>5 DEF CapSets

\* A set that is not asked for is left alone, and a failure before is passed on.
LEMMA SetIfAsked ==
    ASSUME NEW r, r # <<>> => r[1] \in Cred, NEW cset \in CapSets,
           NEW asked, asked # <<>> => asked[1] \in SUBSET Cap,
           IfAsked(r, cset, asked) # <<>>
    PROVE  /\ r # <<>> /\ IfAsked(r, cset, asked)[1] \in Cred
           /\ asked = <<>> => IfAsked(r, cset, asked)[1] = r[1]
           /\ asked # <<>> => Becomes(r[1], IfAsked(r, cset, asked)[1], cset, asked[1])
PROOF
  <1>1. r # <<>> /\ (asked = <<>> => IfAsked(r, cset, asked) = r)
    BY Zenon DEF IfAsked
  <1>2. CASE asked # <<>>
    <2>1. IfAsked(r, cset, asked) = set_capability(r[1], cset, asked[1])
      BY Zenon, <1>1, <1>2 DEF IfAsked
    <2>2. Becomes(r[1], set_capability(r[1], cset, asked[1])[1], cset, asked[1])
      BY Zenon, <1>1, <1>2, <2>1, SetCapability
    <2>. QED BY Zenon, <1>1, <1>2, <2>1, <2>2 DEF Becomes
  <1>. QED BY Zenon, <1>1, <1>2

\* drop_privileges cuts the bounding set first, so that what is made inheritable and
\* then ambient comes from what the section bounds.
LEMMA DropResult ==
    ASSUME NEW c \in Cred, NEW had, Unasked(c, had), NEW cs, CapLists(cs),
           drop_privileges(c, cs) # <<>>
    PROVE  /\ drop_privileges(c, cs)[1] \in Cred
           /\ Same(c, drop_privileges(c, cs)[1])
           /\ WithinLists(drop_privileges(c, cs)[1], cs, had)
PROOF
  <1>. DEFINE bounding == IF cs.bounding = <<>> THEN <<{}>> ELSE cs.bounding
              b == IfAsked(<<c>>, "Bounding", bounding)
              e == IfAsked(b, "Effective", cs.effective)
              p == IfAsked(e, "Permitted", cs.permitted)
              i == IfAsked(p, "Inheritable", cs.inheritable)
              a == IfAsked(i, "Ambient", cs.ambient)
  <1>1. drop_privileges(c, cs) = a /\ a # <<>>
    BY Zenon DEF drop_privileges
  <1>2. /\ <<c>> # <<>> /\ <<c>>[1] = c
        /\ bounding # <<>> /\ bounding[1] \in SUBSET Cap /\ Within(bounding[1], cs.bounding)
    <2>1. CASE cs.bounding = <<>>
      BY Zenon, <2>1 DEF Within
    <2>2. CASE cs.bounding # <<>>
      BY Zenon, <2>2 DEF Within, CapLists
    <2>. QED BY Zenon, <2>1, <2>2
  <1>. HIDE DEF bounding
  <1>3. /\ "Bounding" \in CapSets /\ "Effective" \in CapSets /\ "Permitted" \in CapSets
        /\ "Inheritable" \in CapSets /\ "Ambient" \in CapSets
    BY Zenon DEF CapSets
  <1>4. /\ cs.effective # <<>> => cs.effective[1] \in SUBSET Cap
        /\ cs.permitted # <<>> => cs.permitted[1] \in SUBSET Cap
        /\ cs.inheritable # <<>> => cs.inheritable[1] \in SUBSET Cap
        /\ cs.ambient # <<>> => cs.ambient[1] \in SUBSET Cap
    BY Zenon DEF CapLists
  <1>5. b # <<>> => b[1] \in Cred /\ Becomes(c, b[1], "Bounding", bounding[1])
    BY Zenon, <1>2, <1>3, SetIfAsked
  <1>. HIDE DEF b
  <1>6. e # <<>> => /\ b # <<>> /\ e[1] \in Cred
                    /\ e[1] = b[1] \/ Becomes(b[1], e[1], "Effective", cs.effective[1])
    BY Zenon, <1>3, <1>4, <1>5, SetIfAsked
  <1>. HIDE DEF e
  <1>7. p # <<>> => /\ e # <<>> /\ p[1] \in Cred
                    /\ cs.permitted = <<>> => p[1] = e[1]
                    /\ cs.permitted # <<>> => Becomes(e[1], p[1], "Permitted", cs.permitted[1])
    BY Zenon, <1>3, <1>4, <1>6, SetIfAsked
  <1>. HIDE DEF p
  <1>8. i # <<>> => /\ p # <<>> /\ i[1] \in Cred
                    /\ cs.inheritable = <<>> => i[1] = p[1]
                    /\ cs.inheritable # <<>> => Becomes(p[1], i[1], "Inheritable", cs.inheritable[1])
    BY Zenon, <1>3, <1>4, <1>7, SetIfAsked
  <1>. HIDE DEF i
  <1>9. /\ i # <<>> /\ a[1] \in Cred
        /\ cs.ambient = <<>> => a[1] = i[1]
        /\ cs.ambient # <<>> => Becomes(i[1], a[1], "Ambient", cs.ambient[1])
    BY Zenon, <1>1, <1>3, <1>4, <1>8, SetIfAsked
  <1>. HIDE DEF a
  <1>10. Same(c, b[1]) /\ Within(b[1].bnd, cs.bounding) /\ Unasked(b[1], had)
    <2>1. Becomes(c, b[1], "Bounding", bounding[1])
      BY Zenon, <1>5, <1>6, <1>7, <1>8, <1>9
    <2>. QED BY Zenon, <1>2, <2>1 DEF Becomes, Within, Same, Unasked
  <1>11. Same(c, e[1]) /\ Within(e[1].bnd, cs.bounding) /\ Unasked(e[1], had)
    <2>1. e[1] = b[1] \/ Becomes(b[1], e[1], "Effective", cs.effective[1])
      BY Zenon, <1>6, <1>7, <1>8, <1>9
    <2>2. CASE Becomes(b[1], e[1], "Effective", cs.effective[1])
      BY Zenon, <1>10, <2>2 DEF Becomes, Same, Unasked
    <2>. QED BY Zenon, <1>10, <2>1, <2>2
  <1>12. /\ Same(c, p[1]) /\ Within(p[1].bnd, cs.bounding) /\ Unasked(p[1], had)
         /\ cs.permitted # <<>> => p[1].perm = cs.permitted[1]
    <2>1. CASE cs.permitted = <<>>
      BY Zenon, <1>7, <1>8, <1>9, <1>11, <2>1
    <2>2. CASE cs.permitted # <<>>
      BY Zenon, <1>7, <1>8, <1>9, <1>11, <2>2 DEF Becomes, Same, Unasked
    <2>. QED BY Zenon, <2>1, <2>2
  <1>13. /\ Same(c, i[1]) /\ Within(i[1].bnd, cs.bounding)
         /\ Within(i[1].inh \ Left(had, cs), cs.bounding) /\ (i[1].uid # 0 => i[1].amb = {})
         /\ cs.permitted # <<>> => i[1].perm = cs.permitted[1]
         /\ cs.inheritable # <<>> => i[1].inh = cs.inheritable[1]
    <2>1. CASE cs.inheritable = <<>>
      BY Zenon, <1>8, <1>9, <1>12, <2>1 DEF Within, Unasked, Left
    <2>2. CASE cs.inheritable # <<>>
      <3>1. Becomes(p[1], i[1], "Inheritable", cs.inheritable[1])
        BY Zenon, <1>8, <1>9, <2>2
      <3>2. Same(c, i[1]) /\ (i[1].uid # 0 => i[1].amb = {}) /\ i[1].bnd = p[1].bnd
            /\ i[1].perm = p[1].perm /\ i[1].inh = cs.inheritable[1]
            /\ cs.inheritable[1] \subseteq had \cup p[1].bnd
        BY Zenon, <1>12, <3>1 DEF Becomes, Same, Unasked
      <3>3. i[1].inh \ Left(had, cs) \subseteq p[1].bnd
        BY Zenon, <3>2 DEF Left
      <3>. QED BY Zenon, <1>12, <3>2, <3>3 DEF Within
    <2>. QED BY Zenon, <2>1, <2>2
  <1>14. Same(c, a[1]) /\ WithinLists(a[1], cs, had)
    <2>1. CASE cs.ambient = <<>>
      BY Zenon, <1>9, <1>13, <2>1 DEF WithinLists, Within
    <2>2. CASE cs.ambient # <<>>
      <3>1. Becomes(i[1], a[1], "Ambient", cs.ambient[1])
        BY Zenon, <1>9, <2>2
      <3>2. Same(c, a[1]) /\ a[1].bnd = i[1].bnd /\ a[1].inh = i[1].inh
            /\ a[1].amb = cs.ambient[1] \cap i[1].perm \cap i[1].inh
        BY Zenon, <1>13, <3>1 DEF Becomes, Same
      <3>. QED BY Zenon, <1>13, <2>2, <3>2 DEF WithinLists, Within
    <2>. QED BY Zenon, <2>1, <2>2
  <1>. QED BY Zenon, <1>1, <1>9, <1>14

\* A step that is not the one of a group of facts leaves it alone.
LEMMA CredFrame ==
    ASSUME CredInv, UNCHANGED <<proc, cred>>,
           privPc # "nnp",
           \/ privPc' = "failed"
           \/ privPc \in ToCaps /\ privPc' \in ToCaps \ {"nnp"}
           \/ privPc \in FromCaps /\ privPc' \in FromCaps
    PROVE  CredInv'
PROOF
  <1>1. /\ privPc' # "payload" /\ privPc' # "nnp"
        /\ privPc' \in ToCaps => privPc \in ToCaps
        /\ privPc' \in FromCaps => privPc \in FromCaps
    BY Zenon DEF ToCaps, ToId, FromCaps
  <1>2. cred' \in Cred /\ ~cred'.keep
    BY Zenon DEF CredInv
  <1>3. privPc' \in ToCaps => Unasked(cred', proc'.inherited)
    BY Zenon, <1>1 DEF CredInv
  <1>4. privPc' \in FromCaps =>
          (proc.capabilities = <<>> \/ WithinLists(cred, proc.capabilities[1], proc.inherited))'
    BY Zenon, <1>1 DEF CredInv
  <1>. QED BY Zenon, <1>1, <1>2, <1>3, <1>4 DEF CredInv

\* Whatever the process section asks for, and whichever call fails, a payload that
\* starts has the ids it asks for, no capability beyond the bounding set it asks for and
\* the inheritable ones the runtime was started with, the ambient ones it can have, the seccomp filter, its directory and exactly the file descriptors
\* LISTEN_FDS and preserve_fds count.
THEOREM PayloadGetsWhatIsAsked ==
    ASSUME Typed, LastFd \in Nat
    PROVE  PrivilegesSpec => []PayloadAsAsked
PROOF
  <1>1. PrivilegesInit => PayloadInv
    <2>. SUFFICES ASSUME PrivilegesInit PROVE PayloadInv
      BY Zenon
    <2>1. cred \in Cred /\ ~cred.keep /\ cred.inh = proc.inherited /\ cred.uid = 0
      BY SMTT(30) DEF PrivilegesInit, Typed, Cred
    <2>2. privPc = "nnp" /\ proc \in Process /\ filter = "none" /\ envs.listen = 0
          /\ DOMAIN envs = {"home", "listen", "pid"}
      BY Zenon DEF PrivilegesInit
    <2>. QED BY Zenon, <2>1, <2>2 DEF PayloadInv, CredInv, Unasked, WhoInv, FilterInv, CwdInv, FdInv,
                                ToId, ToCaps, FromCaps, PrivPc
  <1>2. PayloadInv /\ [PrivilegesNext]_privVars => PayloadInv'
    <2>. SUFFICES ASSUME PayloadInv, [PrivilegesNext]_privVars PROVE PayloadInv'
      BY Zenon
    <2>. USE DEF Done, PrivFail
    <2>1. CASE NoNewPrivileges
      <3>. DEFINE e == [cred EXCEPT !.nnp = proc.no_new_privileges = <<TRUE>>]
      <3>1. /\ privPc = "nnp" /\ privPc' = "chdir" /\ cred' = e
            /\ UNCHANGED <<proc, filter, cloexec, cwd, do_chdir, envs>>
        BY Zenon, <2>1 DEF NoNewPrivileges
      <3>2. cred \in Cred /\ ~cred.keep /\ cred.inh = proc.inherited /\ cred.uid = 0
        BY Zenon, <3>1 DEF PayloadInv, CredInv, Unasked, WhoInv, ToCaps, ToId
      <3>3. /\ e \in Cred /\ ~e.keep /\ e.inh = cred.inh /\ e.uid = cred.uid
            /\ e.nnp <=> proc.no_new_privileges = <<TRUE>>
        BY Zenon, <3>2 DEF Cred
      <3>. HIDE DEF e
      <3>4. CredInv'
        BY Zenon, <3>1, <3>2, <3>3 DEF CredInv, Unasked, FromCaps
      <3>. QED BY Zenon, <3>1, <3>2, <3>3, <3>4 DEF PayloadInv, WhoInv, FilterInv, CwdInv, FdInv, ToId, PrivPc
    <2>2. CASE Chdir
      <3>1. /\ privPc = "chdir" /\ privPc' \in {"groups", "failed"}
            /\ UNCHANGED <<proc, cred, filter, cloexec, envs>>
            /\ privPc' = "groups" => proc.cwd = "" \/ cwd' = proc.cwd \/ do_chdir'
        BY Zenon, <2>2 DEF Chdir
      <3>2. CredInv'
        BY Zenon, <3>1, CredFrame DEF PayloadInv, ToCaps, ToId
      <3>. QED BY Zenon, <3>1, <3>2 DEF PayloadInv, WhoInv, FilterInv, CwdInv, FdInv, ToId, PrivPc
    <2>3. CASE SetGroups
      <3>. DEFINE e == [cred EXCEPT !.groups = IF proc.gids = {} THEN @ ELSE proc.gids]
      <3>1. /\ privPc = "groups" /\ privPc' = "id" /\ cred' = e
            /\ UNCHANGED <<proc, filter, cloexec, cwd, do_chdir, envs>>
        BY Zenon, <2>3 DEF SetGroups
      <3>2. /\ cred \in Cred /\ ~cred.keep /\ cred.inh = proc.inherited /\ cred.uid = 0
            /\ cred.nnp <=> proc.no_new_privileges = <<TRUE>>
        BY Zenon, <3>1 DEF PayloadInv, CredInv, Unasked, WhoInv, ToCaps, ToId
      <3>3. proc.gids \subseteq Nat
        BY Zenon DEF PayloadInv, Typed
      <3>4. /\ e \in Cred /\ e.keep = cred.keep /\ e.inh = cred.inh /\ e.uid = cred.uid
            /\ e.nnp = cred.nnp /\ (proc.gids # {} => e.groups = proc.gids)
        BY Zenon, <3>2, <3>3 DEF Cred
      <3>. HIDE DEF e
      <3>5. CredInv'
        BY Zenon, <3>1, <3>2, <3>4 DEF CredInv, Unasked, FromCaps
      <3>. QED BY Zenon, <3>1, <3>2, <3>4, <3>5 DEF PayloadInv, WhoInv, FilterInv, CwdInv, FdInv, ToId, PrivPc
    <2>4. CASE set_id
      <3>1. PICK to \in {"fds", "failed"} : privPc = "id" /\ privPc' = to
        BY Zenon, <2>4 DEF set_id
      <3>2. UNCHANGED <<proc, filter, cloexec, cwd, do_chdir, envs>>
        BY Zenon, <2>4 DEF set_id
      <3>3. /\ cred \in Cred /\ ~cred.keep /\ cred.inh = proc.inherited /\ cred.uid = 0
            /\ cred.nnp <=> proc.no_new_privileges = <<TRUE>>
        BY Zenon, <3>1 DEF PayloadInv, CredInv, Unasked, WhoInv, ToCaps, ToId
      <3>4. \/ cred' = cred /\ to = "failed"
            \/ /\ cred' \in Cred /\ ~cred'.keep /\ Unasked(cred', proc.inherited)
               /\ cred'.nnp = cred.nnp /\ cred'.groups = cred.groups
               /\ cred'.uid = proc.uid /\ cred'.gid = proc.gid
        <4>. DEFINE k == [cred EXCEPT !.keep = TRUE, !.gid = proc.gid]
                    c == Setresuid(k, proc.uid)
                    r == IF proc.uid # 0 THEN reset_effective(c) ELSE <<c>>
        <4>. DEFINE new(x) == /\ x \in Cred /\ Unasked(x, proc.inherited) /\ x.nnp = cred.nnp
                              /\ x.groups = cred.groups /\ x.uid = proc.uid /\ x.gid = proc.gid
        <4>1. \/ cred' = cred /\ to = "failed"
              \/ r # <<>> /\ cred' = [r[1] EXCEPT !.keep = FALSE]
          BY Zenon, <2>4, <3>1 DEF set_id
        <4>2. /\ k \in Cred /\ k.inh = proc.inherited /\ k.nnp = cred.nnp
              /\ k.groups = cred.groups /\ k.uid = 0 /\ k.gid = proc.gid
          <5>1. proc.gid \in Nat
            BY Zenon DEF PayloadInv, Typed
          <5>. QED BY Zenon, <3>3, <5>1 DEF Cred
        <4>. HIDE DEF k
        <4>3. new(c)
          <5>. DEFINE u == [k EXCEPT !.uid = proc.uid, !.eff = {}, !.amb = {},
                                     !.perm = IF k.keep THEN @ ELSE {}]
          <5>1. (c = k /\ proc.uid = 0) \/ c = u
            BY Zenon DEF Setresuid
          <5>2. proc.uid \in Nat
            BY Zenon DEF PayloadInv, Typed
          <5>3. /\ u \in Cred /\ u.inh = k.inh /\ u.amb = {} /\ u.nnp = k.nnp
                /\ u.groups = k.groups /\ u.uid = proc.uid /\ u.gid = k.gid
            BY Zenon, <4>2, <5>2 DEF Cred
          <5>. HIDE DEF u, c
          <5>. QED BY Zenon, <4>2, <5>1, <5>3 DEF Unasked
        <4>. HIDE DEF c
        <4>4. r # <<>> => new(r[1])
          <5>1. CASE proc.uid = 0
            BY Zenon, <4>3, <5>1
          <5>2. CASE proc.uid # 0
            <6>1. r = set_capability(c, "Effective", c.perm)
              BY Zenon, <5>2 DEF reset_effective
            <6>2. c.perm \in SUBSET Cap /\ "Effective" \in CapSets
              BY Zenon, <4>3 DEF Cred, CapSets
            <6>. HIDE DEF r
            <6>3. r # <<>> => Becomes(c, r[1], "Effective", c.perm)
              BY Zenon, <4>3, <6>1, <6>2, SetCapability
            <6>. QED BY Zenon, <4>3, <6>3 DEF Becomes, Same, Unasked
          <5>. QED BY Zenon, <5>1, <5>2
        <4>. HIDE DEF r
        <4>5. CASE r # <<>> /\ cred' = [r[1] EXCEPT !.keep = FALSE]
          BY Zenon, <4>4, <4>5 DEF Cred, Unasked
        <4>. QED BY Zenon, <4>1, <4>5
      <3>5. CredInv'
        BY Zenon, <3>1, <3>2, <3>3, <3>4 DEF CredInv, FromCaps, ToCaps, ToId
      <3>. QED BY Zenon, <3>1, <3>2, <3>4, <3>5 DEF PayloadInv, WhoInv, FilterInv, CwdInv, FdInv, ToId, PrivPc
    <2>5. CASE CleanupFds
      <3>. DEFINE listen == IF proc.listen_fds \in {<<>>, <<<<>>>>} THEN 0
                            ELSE proc.listen_fds[1][1]
      <3>1. /\ privPc = "fds" /\ privPc' = "early" /\ UNCHANGED <<proc, cred, filter, cwd, do_chdir>>
            /\ cloexec' = close_range(proc.preserve_fds + listen)
            /\ envs' = IF listen > 0 THEN [envs EXCEPT !.listen = listen, !.pid = 1] ELSE envs
        BY Zenon, <2>5 DEF CleanupFds
      <3>2. listen = Listen(proc) /\ listen \in Nat
        BY Zenon DEF Listen, PayloadInv, Typed
      <3>. HIDE DEF listen
      <3>3. CredInv'
        BY Zenon, <3>1, CredFrame DEF PayloadInv, ToCaps, ToId
      <3>4. envs.listen = 0 /\ DOMAIN envs = {"home", "listen", "pid"}
        BY Zenon, <3>1 DEF PayloadInv, FdInv
      <3>5. /\ envs'.listen = listen /\ (listen > 0 => envs'.pid = 1)
            /\ DOMAIN envs' = {"home", "listen", "pid"}
        BY SMTT(30), <3>1, <3>2, <3>4
      <3>6. FdInv'
        BY Zenon, <3>1, <3>2, <3>5 DEF FdInv, ToId, close_range
      <3>. QED BY Zenon, <3>1, <3>3, <3>6 DEF PayloadInv, WhoInv, FilterInv, CwdInv, ToId, PrivPc
    <2>6. CASE SeccompEarly
      <3>1. /\ privPc = "early" /\ UNCHANGED <<proc, cred, cloexec, cwd, do_chdir, envs>>
            /\ privPc' = "caps" \/ (privPc' = "failed" /\ filter' = filter)
        BY Zenon, <2>6 DEF SeccompEarly, initialize_seccomp
      <3>2. privPc' = "caps" => (filter' # "none" <=> proc.seccomp /\ proc.no_new_privileges = <<>>)
        BY Zenon, <2>6, <3>1 DEF SeccompEarly, initialize_seccomp, PayloadInv, FilterInv
      <3>3. CredInv'
        BY Zenon, <3>1, CredFrame DEF PayloadInv, ToCaps, ToId
      <3>4. FilterInv'
        BY Zenon, <3>1, <3>2 DEF FilterInv, ToId
      <3>. QED BY Zenon, <3>1, <3>3, <3>4 DEF PayloadInv, WhoInv, CwdInv, FdInv, ToId, PrivPc
    <2>7. CASE DropCapabilities
      <3>. DEFINE r == reset_effective(cred)
                  d == IF r = <<>> \/ proc.capabilities = <<>> THEN r
                       ELSE drop_privileges(r[1], proc.capabilities[1])
      <3>1. /\ privPc = "caps" /\ UNCHANGED <<proc, filter, cloexec, cwd, do_chdir, envs>>
            /\ \/ privPc' = "failed" /\ cred' = cred
               \/ privPc' = "chdir2" /\ d # <<>> /\ cred' = d[1]
        BY Zenon, <2>7 DEF DropCapabilities
      <3>2. /\ cred \in Cred /\ ~cred.keep /\ Unasked(cred, proc.inherited)
            /\ cred.nnp <=> proc.no_new_privileges = <<TRUE>>
        BY Zenon, <3>1 DEF PayloadInv, CredInv, ToCaps, ToId
      <3>3. r # <<>> => r[1] \in Cred /\ Same(cred, r[1]) /\ Unasked(r[1], proc.inherited)
        <4>1. r = set_capability(cred, "Effective", cred.perm)
          BY Zenon DEF reset_effective
        <4>2. cred.perm \in SUBSET Cap /\ "Effective" \in CapSets
          BY Zenon, <3>2 DEF Cred, CapSets
        <4>. HIDE DEF r
        <4>3. r # <<>> => Becomes(cred, r[1], "Effective", cred.perm)
          BY Zenon, <3>2, <4>1, <4>2, SetCapability
        <4>. QED BY Zenon, <3>2, <4>3 DEF Becomes, Same, Unasked
      <3>. HIDE DEF r
      <3>4. d # <<>> => /\ d[1] \in Cred /\ Same(cred, d[1])
                        /\ \/ proc.capabilities = <<>>
                           \/ WithinLists(d[1], proc.capabilities[1], proc.inherited)
        <4>1. CASE r = <<>> \/ proc.capabilities = <<>>
          BY Zenon, <3>3, <4>1
        <4>2. CASE r # <<>> /\ proc.capabilities # <<>>
          <5>1. CapLists(proc.capabilities[1]) /\ d = drop_privileges(r[1], proc.capabilities[1])
            BY Zenon, <4>2 DEF PayloadInv, Typed
          <5>. HIDE DEF d
          <5>. QED BY Zenon, <3>3, <4>2, <5>1, DropResult DEF Same
        <4>. QED BY Zenon, <4>1, <4>2
      <3>. HIDE DEF d
      <3>5. CredInv'
        <4>1. CASE privPc' = "failed" /\ cred' = cred
          BY Zenon, <3>1, <4>1, CredFrame DEF PayloadInv
        <4>2. CASE privPc' = "chdir2" /\ d # <<>> /\ cred' = d[1]
          <5>1. (proc.capabilities = <<>> \/ WithinLists(cred, proc.capabilities[1], proc.inherited))'
            BY Zenon, <3>1, <3>4, <4>2
          <5>. QED BY Zenon, <3>1, <3>2, <3>4, <4>2, <5>1 DEF CredInv, Same, ToCaps, ToId
        <4>. QED BY Zenon, <3>1, <4>1, <4>2
      <3>6. WhoInv'
        BY Zenon, <3>1, <3>4 DEF PayloadInv, WhoInv, Same, ToId
      <3>. QED BY Zenon, <3>1, <3>5, <3>6 DEF PayloadInv, WhoInv, FilterInv, CwdInv, FdInv, ToId, PrivPc
    <2>8. CASE ChdirAsUser
      <3>1. /\ privPc = "chdir2" /\ privPc' \in {"cwd", "failed"}
            /\ UNCHANGED <<proc, cred, filter, cloexec, do_chdir, envs>>
            /\ privPc' = "cwd" => cwd' = proc.cwd \/ (cwd' = cwd /\ ~do_chdir)
        BY Zenon, <2>8 DEF ChdirAsUser
      <3>2. CredInv'
        BY Zenon, <3>1, CredFrame DEF PayloadInv, FromCaps
      <3>. QED BY Zenon, <3>1, <3>2 DEF PayloadInv, WhoInv, FilterInv, CwdInv, FdInv, ToId, PrivPc
    <2>9. CASE verify_cwd
      <3>1. /\ privPc = "cwd" /\ (privPc' = "failed" \/ (privPc' = "late" /\ proc.getcwd = "inside"))
            /\ UNCHANGED <<proc, cred, filter, cloexec, cwd, do_chdir, envs>>
        BY Zenon, <2>9 DEF verify_cwd
      <3>2. CredInv'
        BY Zenon, <3>1, CredFrame DEF PayloadInv, FromCaps
      <3>. QED BY Zenon, <3>1, <3>2 DEF PayloadInv, WhoInv, FilterInv, CwdInv, FdInv, ToId, PrivPc
    <2>10. CASE SeccompLate
      <3>1. /\ privPc = "late" /\ UNCHANGED <<proc, cred, cloexec, cwd, do_chdir, envs>>
            /\ privPc' = "env" \/ (privPc' = "failed" /\ filter' = filter)
        BY Zenon, <2>10 DEF SeccompLate, initialize_seccomp
      <3>2. privPc' = "env" => (filter' # "none" <=> proc.seccomp)
        BY Zenon, <2>10, <3>1 DEF SeccompLate, initialize_seccomp, PayloadInv, FilterInv
      <3>3. CredInv'
        BY Zenon, <3>1, CredFrame DEF PayloadInv, FromCaps
      <3>4. FilterInv'
        BY Zenon, <3>1, <3>2 DEF FilterInv, ToId
      <3>. QED BY Zenon, <3>1, <3>3, <3>4 DEF PayloadInv, WhoInv, CwdInv, FdInv, ToId, PrivPc
    <2>11. CASE set_home_env_if_not_exists
      <3>. DEFINE home == [envs EXCEPT !.home = proc.passwd_home]
      <3>1. /\ privPc = "env" /\ privPc' = "exec" /\ UNCHANGED <<proc, cred, filter, cloexec, cwd, do_chdir>>
            /\ envs' = envs \/ envs' = home
        BY Zenon, <2>11 DEF set_home_env_if_not_exists
      <3>2. home.listen = envs.listen /\ home.pid = envs.pid /\ DOMAIN home = DOMAIN envs
        BY Zenon DEF PayloadInv, FdInv
      <3>. HIDE DEF home
      <3>3. CredInv'
        BY Zenon, <3>1, CredFrame DEF PayloadInv, FromCaps
      <3>. QED BY Zenon, <3>1, <3>2, <3>3 DEF PayloadInv, WhoInv, FilterInv, CwdInv, FdInv, ToId, PrivPc
    <2>12. CASE Exec
      <3>. DEFINE p == IF cred.uid = 0 THEN cred.bnd \cup cred.inh ELSE cred.amb
                  e == [cred EXCEPT !.perm = p, !.eff = p,
                                    !.amb = IF cred.uid = 0 THEN {} ELSE @]
      <3>1. /\ privPc = "exec" /\ privPc' = "payload" /\ cred' = e
            /\ UNCHANGED <<proc, filter, cloexec, cwd, do_chdir, envs>>
        BY Zenon, <2>12 DEF Exec
      <3>2. /\ cred \in Cred /\ ~cred.keep /\ (cred.nnp <=> proc.no_new_privileges = <<TRUE>>)
            /\ proc.capabilities = <<>> \/ WithinLists(cred, proc.capabilities[1], proc.inherited)
        BY Zenon, <3>1 DEF PayloadInv, CredInv, FromCaps
      <3>3. p \in SUBSET Cap
        BY Zenon, <3>2 DEF Cred
      <3>4. /\ e \in Cred /\ e.keep = cred.keep /\ e.nnp = cred.nnp /\ e.uid = cred.uid
            /\ e.gid = cred.gid /\ e.groups = cred.groups /\ e.perm = p /\ e.eff = p
        <4>. HIDE DEF p
        <4>. QED BY Zenon, <3>2, <3>3 DEF Cred
      <3>. HIDE DEF e
      <3>5. PayloadIsBounded'
        <4>. SUFFICES ASSUME proc.capabilities # <<>>
                      PROVE  /\ Within(p \ Left(proc.inherited, proc.capabilities[1]),
                                       proc.capabilities[1].bounding)
                             /\ cred.uid # 0 => Within(p, proc.capabilities[1].ambient)
          <5>1. proc.capabilities # <<>> => StillInheritable' = Left(proc.inherited, proc.capabilities[1])
            BY <3>1 DEF StillInheritable, Left, Asked
          <5>2. \A s, l : Within(p \ l, s) => p \subseteq l \cup IF s = <<>> THEN {} ELSE s[1]
            BY Zenon DEF Within
          <5>. HIDE DEF p
          <5>. QED BY Zenon, <3>1, <3>4, <5>1, <5>2 DEF PayloadIsBounded, Asked, Within
        <4>1. /\ Within(cred.bnd, proc.capabilities[1].bounding)
              /\ Within(cred.inh \ Left(proc.inherited, proc.capabilities[1]), proc.capabilities[1].bounding)
              /\ cred.uid # 0 => /\ Within(cred.amb, proc.capabilities[1].ambient)
                                 /\ cred.amb \subseteq cred.inh
          BY Zenon, <3>2 DEF WithinLists
        <4>. QED BY Zenon, <4>1 DEF Within
      <3>6. AmbientReachesPayload'
        BY Zenon, <3>1, <3>2, <3>4 DEF AmbientReachesPayload, Asked, WithinLists
      <3>7. CredInv'
        BY Zenon, <3>1, <3>2, <3>4, <3>5, <3>6 DEF CredInv, ToCaps, ToId, FromCaps
      <3>. QED BY Zenon, <3>1, <3>4, <3>7 DEF PayloadInv, WhoInv, FilterInv, CwdInv, FdInv, ToId, PrivPc
    <2>13. CASE UNCHANGED privVars
      <3>1. UNCHANGED <<proc, privPc, cred, filter, cloexec, cwd, do_chdir, envs>>
        BY Zenon, <2>13 DEF privVars
      <3>2. PayloadIsBounded' = PayloadIsBounded /\ AmbientReachesPayload' = AmbientReachesPayload
        BY Zenon, <3>1 DEF PayloadIsBounded, AmbientReachesPayload, Asked, StillInheritable
      <3>3. CredInv'
        BY Zenon, <3>1, <3>2 DEF PayloadInv, CredInv
      <3>4. WhoInv' /\ FilterInv' /\ CwdInv' /\ FdInv'
        BY Zenon, <3>1 DEF PayloadInv, WhoInv, FilterInv, CwdInv, FdInv
      <3>. QED BY Zenon, <3>1, <3>3, <3>4 DEF PayloadInv
    <2>. QED
      BY Zenon, <2>1, <2>2, <2>3, <2>4, <2>5, <2>6, <2>7, <2>8, <2>9, <2>10, <2>11, <2>12, <2>13
         DEF PrivilegesNext, PrivStopped
  <1>3. PayloadInv => PayloadAsAsked
    <2>. SUFFICES ASSUME PayloadInv PROVE PayloadAsAsked
      BY Zenon
    <2>1. PayloadIsBounded /\ AmbientReachesPayload /\ RunsAsUser
      BY Zenon DEF PayloadInv, CredInv, WhoInv, ToId, PayloadIsBounded, AmbientReachesPayload, RunsAsUser
    <2>2. PayloadIsFiltered
      BY Zenon DEF PayloadInv, CredInv, FilterInv, PayloadIsFiltered
    <2>3. StartsInCwd
      BY Zenon DEF PayloadInv, CwdInv, StartsInCwd
    <2>4. ListenFdsAreInherited
      <3>. SUFFICES ASSUME privPc = "payload"
                    PROVE  /\ Fd \ cloexec = 0 .. (2 + proc.preserve_fds + envs.listen)
                           /\ envs.listen > 0 => envs.pid = 1
        BY Zenon DEF ListenFdsAreInherited
      <3>1. /\ cloexec = close_range(proc.preserve_fds + envs.listen)
            /\ envs.listen > 0 => envs.pid = 1
            /\ proc.preserve_fds \in Nat /\ envs.listen \in Nat
            /\ 2 + proc.preserve_fds + envs.listen <= LastFd
        BY Zenon DEF PayloadInv, FdInv, ToId, Typed
      <3>. QED BY SMTT(30), <3>1 DEF close_range, Fd
    <2>. QED BY Zenon, <2>1, <2>2, <2>3, <2>4 DEF PayloadAsAsked
  <1>. QED BY <1>1, <1>2, <1>3, PTL DEF PrivilegesSpec

-----------------------------------------------------------------------------
(* Namespaces *)

\* A namespace of a spec is new, another container's, the host's or not there; sysctls
\* are of the kinds the validator tells apart, and not named like what the other steps
\* write.
SpecShape ==
    \A s \in Specs :
        /\ \A i \in DOMAIN s.ns : s.ns[i].path \in {"none", "other", "host", "missing", "empty"}
        /\ s.sysctl \subseteq SysctlKeys
        /\ s.io # <<>> => s.io[1].class \in {"rt", "be", "idle"}

\* The labels of the steps after the one that enters the namespace of a type.
PastSysctl == {"paths", "done"}
PastNames == {"sysctl"} \cup PastSysctl
PastMnt == {"names"} \cup PastNames
PastUts == {"rest2", "rest3", "rest4", "rest5"} \cup PastMnt
PastPid == {"io", "sched", "rest1"} \cup PastUts
PastOffsets == {"pid"} \cup PastPid
PastMaps == {"time", "offsets"} \cup PastOffsets
PastUser == {"maps"} \cup PastMaps

Past(t) ==
    CASE t = "user" -> PastUser
      [] t = "time" -> {"offsets"} \cup PastOffsets
      [] t = "pid" -> PastPid
      [] t = "uts" -> PastUts
      [] t = "ipc" -> {"rest3", "rest4", "rest5"} \cup PastMnt
      [] t = "net" -> {"rest4", "rest5"} \cup PastMnt
      [] t = "cgroup" -> {"rest5"} \cup PastMnt
      [] t = "mnt" -> PastMnt

\* The namespace of a type the spec asks for.
Where(s, t) ==
    IF ~HasNs(s, t) THEN "host"
    ELSE IF Ns(s, t).path = "none" THEN "new" ELSE Ns(s, t).path

\* The spec names the host's namespace of a type.
NamesHost(s, t) == HasNs(s, t) /\ Ns(s, t).path = "host"

\* The namespaces entered so far, and no other.
PlaceInv ==
    /\ nsSpec \in Specs
    /\ nsAt \in [Types -> {"host", "new", "other"}]
    /\ nsPc \notin {"validate", "refused"} => ValidateSpec(nsSpec)
    /\ nsPc \in {"validate", "user", "failed", "refused"} \cup PastUser
    /\ nsPc # "failed" => \A t \in Types : nsAt[t] = IF nsPc \in Past(t) THEN Where(nsSpec, t) ELSE "host"
    /\ \A t \in Types : nsPc \in Past(t) => Where(nsSpec, t) \in {"host", "new", "other"}
    /\ nsPc \in PastUser => ~NamesHost(nsSpec, "user")
    /\ opened \subseteq {"host"}

\* What has been written, where, and what has been left out.
WritesInv ==
    /\ \A w \in writes : w[2] = "host" => AsksForHost(nsSpec, w[1])
    /\ \A w \in writes : w[1] \in {"maps", "offsets", "hostname", "domainname"} => w[2] = "new"
    /\ nsPc \in PastMaps /\ nsSpec.maps /\ Where(nsSpec, "user") = "new" => <<"maps", "new">> \in writes
    /\ nsPc \in PastOffsets /\ nsSpec.offsets = "some" => <<"offsets", "new">> \in writes
    /\ nsPc \in PastNames /\ Where(nsSpec, "uts") = "new" =>
          /\ nsSpec.hostname => <<"hostname", "new">> \in writes
          /\ nsSpec.domainname => <<"domainname", "new">> \in writes
    /\ nsPc \in PastSysctl => \A key \in nsSpec.sysctl : \E w \in writes : w[1] = key
    /\ nsPc = "done" /\ (nsSpec.masked \/ nsSpec.readonly) => \E w \in writes : w[1] = "paths"

\* What the kernel was given comes from a spec that was accepted.
SchedInv ==
    /\ nsPc \in {"validate", "refused"} => attr = <<>> /\ ioprio = <<>>
    /\ attr \in {<<>>, nsSpec.sched}
    /\ ioprio # <<>> => \E class \in 1..3, level \in 0..7 : ioprio = <<IoPrioValue(class, level)>>

\* Ns finds a namespace of the type that is asked for.
LEMMA NsIsOfTheType ==
    ASSUME NEW s, NEW t, HasNs(s, t)
    PROVE  \E i \in DOMAIN s.ns : s.ns[i].typ = t /\ Ns(s, t) = s.ns[i]
  BY Zenon DEF HasNs, Ns

\* A namespace the spec names is the host's only if it has the host's path.
LEMMA NamedByItsPath ==
    ASSUME SpecShape, NEW s \in Specs, NEW t, HasNs(s, t)
    PROVE  /\ Ns(s, t).path \in {"none", "other", "host", "missing", "empty"}
           /\ Where(s, t) = "host" => NamesHost(s, t)
  <1>1. PICK i \in DOMAIN s.ns : s.ns[i].typ = t /\ Ns(s, t) = s.ns[i]
    BY Zenon, NsIsOfTheType
  <1>2. s.ns[i].path \in {"none", "other", "host", "missing", "empty"}
    BY Zenon DEF SpecShape
  <1>. QED BY Zenon, <1>1, <1>2 DEF Where, NamesHost

\* What the validator guarantees about the places an accepted spec makes the
\* processes write to.
LEMMA AcceptedPlaces ==
    ASSUME SpecShape, NEW s \in Specs, ValidateSpec(s)
    PROVE  /\ s.hostname \/ s.domainname => HasNs(s, "uts")
           /\ (s.masked \/ s.readonly) /\ Where(s, "mnt") = "host" => AsksForHost(s, "paths")
           /\ s.offsets = "some" => Where(s, "time") = "new"
           /\ s.maps => HasNs(s, "user")
           /\ \A key \in s.sysctl :
                 /\ SysctlScope(key) \in Types
                 /\ Where(s, SysctlScope(key)) = "host" => AsksForHost(s, key) \/ NamesHost(s, "user")
  <1>1. /\ UtsOk(s) /\ MntOk(s) /\ SysctlOk(s) /\ TimeOk(s) /\ UserNsOk(s)
    BY Zenon DEF ValidateSpec
  <1>2. (s.masked \/ s.readonly) /\ Where(s, "mnt") = "host" => AsksForHost(s, "paths")
    BY Zenon, <1>1, NamedByItsPath DEF MntOk, AsksForHost, NamesHost
  <1>3. s.offsets = "some" => Where(s, "time") = "new"
    BY Zenon, <1>1 DEF TimeOk, Where
  <1>4. ASSUME NEW key \in s.sysctl
        PROVE  /\ SysctlScope(key) \in Types
               /\ Where(s, SysctlScope(key)) = "host" => AsksForHost(s, key) \/ NamesHost(s, "user")
    <2>1. key \in SysctlKeys
      BY Zenon DEF SpecShape
    <2>2. CASE SysctlScope(key) = "net"
      <3>1. IsHostNet(s) = <<FALSE>>
        BY Zenon, <1>1, <2>1, <2>2 DEF SysctlOk, SysctlScope, SysctlKeys
      <3>2. HasNs(s, "net") /\ Ns(s, "net").path # "host"
        BY Zenon, <3>1 DEF IsHostNet
      <3>. QED BY Zenon, <2>2, <3>2 DEF Where, Types
    <2>3. CASE SysctlScope(key) # "net"
      <3>1. SysctlScope(key) \in {"ipc", "uts", "user"} /\ HasNs(s, SysctlScope(key))
        BY Zenon, <1>1, <2>1, <2>3 DEF SysctlOk, SysctlScope, SysctlKeys
      <3>2. SysctlScope(key) \in Types /\ key # "paths"
        BY Zenon, <2>1, <3>1 DEF Types, SysctlKeys
      <3>3. Where(s, SysctlScope(key)) = "host" => NamesHost(s, SysctlScope(key))
        BY Zenon, <3>1, NamedByItsPath
      <3>. QED BY Zenon, <3>1, <3>2, <3>3 DEF AsksForHost, NamesHost
    <2>. QED BY Zenon, <2>2, <2>3
  <1>. QED BY Zenon, <1>1, <1>2, <1>3, <1>4 DEF UtsOk, UserNsOk

\* One step of entering: the process is afterwards where the spec asks it to be, and
\* a path it opened was opened in the host's mount namespace; or the container failed.
LEMMA EnterStep ==
    ASSUME SpecShape, PlaceInv, NEW l \in {"user"} \cup PastUser, NEW n \in PastUser, NEW t \in Types,
           l \notin Past(t), n \in Past(t), l \notin Past("mnt"),
           \A u \in Types \ {t} : (n \in Past(u)) <=> (l \in Past(u)),
           EnterIfAsked(l, t, n)
    PROVE  PlaceInv' /\ nsPc' \in {n, "failed"}
  <1>. DEFINE path == Ns(nsSpec, t).path
  <1>1. /\ nsPc = l /\ nsSpec' = nsSpec /\ host' = host
        /\ nsSpec \in Specs /\ nsAt \in [Types -> {"host", "new", "other"}] /\ opened \subseteq {"host"}
    BY Zenon DEF EnterIfAsked, PlaceInv
  <1>2. l \notin {"validate", "refused", "failed"} /\ n \notin {"validate", "refused", "failed"}
    BY Zenon DEF PastUser, PastMaps, PastOffsets, PastPid, PastUts, PastMnt, PastNames, PastSysctl
  <1>3. ValidateSpec(nsSpec) /\ ValidateSpec(nsSpec)'
    BY Zenon, <1>1, <1>2 DEF PlaceInv, ValidateSpec, IdmapError, NetDevicesOk, UserNsOk
  <1>4. /\ \A u \in Types : nsAt[u] = IF l \in Past(u) THEN Where(nsSpec, u) ELSE "host"
        /\ \A u \in Types : l \in Past(u) => Where(nsSpec, u) \in {"host", "new", "other"}
    BY Zenon, <1>1, <1>2 DEF PlaceInv
  <1>5. "mnt" \in Types /\ nsAt["mnt"] = "host"
    BY Zenon, <1>4 DEF Types
  <1>6. \A u \in Types : "failed" \notin Past(u)
    BY Zenon DEF Types, Past, PastUser, PastMaps, PastOffsets, PastPid, PastUts, PastMnt, PastNames, PastSysctl
  <1>7. CASE nsPc' = "failed" /\ nsAt' = nsAt /\ opened' = opened
    <2>1. "failed" \notin PastUser
      BY Zenon DEF PastUser, PastMaps, PastOffsets, PastPid, PastUts, PastMnt, PastNames, PastSysctl
    <2>. QED BY Zenon, <1>1, <1>3, <1>6, <1>7, <2>1 DEF PlaceInv
  <1>8. ASSUME nsPc' = n, nsAt' = [nsAt EXCEPT ![t] = Where(nsSpec, t)],
               Where(nsSpec, t) \in {"host", "new", "other"}, opened' \subseteq {"host"},
               t = "user" => ~NamesHost(nsSpec, "user")
        PROVE  PlaceInv'
    <2>1. \A u \in Types : nsAt'[u] = IF n \in Past(u) THEN Where(nsSpec, u) ELSE "host"
      BY Zenon, <1>1, <1>4, <1>8
    <2>2. \A u \in Types : n \in Past(u) => Where(nsSpec, u) \in {"host", "new", "other"}
      BY Zenon, <1>4, <1>8
    <2>3. ~NamesHost(nsSpec, "user")
      <3>1. "user" \in Types /\ Past("user") = PastUser
        BY Zenon DEF Types, Past
      <3>. QED BY Zenon, <1>1, <1>8, <3>1 DEF PlaceInv
    <2>. QED BY Zenon, <1>1, <1>2, <1>3, <1>8, <2>1, <2>2, <2>3 DEF PlaceInv
  <1>9. CASE ~HasNs(nsSpec, t)
    <2>1. nsPc' = n /\ nsAt' = nsAt /\ opened' = opened
      BY Zenon, <1>9 DEF EnterIfAsked, Goto
    <2>2. Where(nsSpec, t) = "host" /\ nsAt[t] = "host"
      BY Zenon, <1>4, <1>9 DEF Where
    <2>3. nsAt = [nsAt EXCEPT ![t] = "host"]
      BY Zenon, <1>1, <2>2
    <2>. QED BY Zenon, <1>1, <1>8, <1>9, <2>1, <2>2, <2>3 DEF NamesHost
  <1>10. CASE HasNs(nsSpec, t)
    <2>1. Enter(t, n)
      BY Zenon, <1>10 DEF EnterIfAsked
    <2>2. path \in {"none", "other", "host", "missing", "empty"}
      BY Zenon, <1>1, <1>10, NamedByItsPath
    <2>3. Where(nsSpec, t) = IF path = "none" THEN "new" ELSE path
      BY Zenon, <1>10 DEF Where
    <2>. HIDE DEF path
    <2>4. CASE path = "none"
      <3>1. nsAt' = [nsAt EXCEPT ![t] = "new"] /\ nsPc' = n /\ opened' = opened
        BY Zenon, <2>1, <2>4 DEF Enter, Goto, path
      <3>. QED BY Zenon, <1>1, <1>8, <2>3, <2>4, <3>1 DEF NamesHost, path
    <2>5. CASE path \in {"missing", "empty"} \/ (path = "host" /\ t = "user")
      <3>1. nsPc' = "failed" /\ nsAt' = nsAt /\ opened' = opened
        BY Zenon, <2>1, <2>5 DEF Enter, Goto, path
      <3>. QED BY Zenon, <1>7, <3>1
    <2>6. CASE path = "other" \/ (path = "host" /\ t # "user")
      <3>1. nsAt' = [nsAt EXCEPT ![t] = path] /\ nsPc' = n /\ opened' = opened \cup {nsAt["mnt"]}
        BY Zenon, <2>1, <2>6 DEF Enter, Goto, path
      <3>. QED BY Zenon, <1>1, <1>5, <1>8, <2>3, <2>6, <3>1 DEF NamesHost, path
    <2>. QED BY Zenon, <2>2, <2>4, <2>5, <2>6
  <1>. QED BY Zenon, <1>9, <1>10, <1>7, <1>8

\* The steps that enter a namespace write nothing and pass no step that does.
LEMMA EnterWritesNothing ==
    ASSUME PlaceInv, WritesInv, SchedInv, NEW l, NEW n, NEW t, EnterIfAsked(l, t, n),
           l \notin {"validate", "refused"}, n \notin {"validate", "refused"} \cup PastSysctl \cup PastNames,
           n \in PastMaps => l \in PastMaps, n \in PastOffsets => l \in PastOffsets,
           nsPc' \in {n, "failed"}
    PROVE  WritesInv' /\ SchedInv'
  <1>1. /\ nsPc = l /\ nsSpec' = nsSpec /\ writes' = writes /\ attr' = attr /\ ioprio' = ioprio
    BY Zenon DEF EnterIfAsked
  <1>2. "failed" \notin PastMaps /\ PastNames \subseteq PastMaps /\ PastSysctl \subseteq PastNames
        /\ PastOffsets \subseteq PastMaps /\ "done" \in PastSysctl
    BY Zenon DEF PastMaps, PastOffsets, PastPid, PastUts, PastMnt, PastNames, PastSysctl
  <1>3. SchedInv'
    BY Zenon, <1>1, "failed" \notin {"validate", "refused"} DEF SchedInv
  <1>4. /\ nsPc' \notin PastNames /\ nsPc' \notin PastSysctl /\ nsPc' # "done"
        /\ nsPc' \in PastMaps => nsPc \in PastMaps
        /\ nsPc' \in PastOffsets => nsPc \in PastOffsets
    BY Zenon, <1>1, <1>2
  <1>5. WritesInv'
    BY Zenon, <1>1, <1>4 DEF WritesInv
  <1>. QED BY Zenon, <1>3, <1>5

\* A step that enters nothing and follows an accepted spec keeps the places.
LEMMA StayStep ==
    ASSUME PlaceInv, NEW l \in PastUser, NEW n \in PastUser \cup {"failed"}, nsPc = l, nsPc' = n,
           \A u \in Types : n # "failed" => ((n \in Past(u)) <=> (l \in Past(u))),
           UNCHANGED <<nsSpec, host, nsAt, opened>>
    PROVE  PlaceInv'
  <1>1. l \notin {"validate", "refused", "failed"} /\ n \notin {"validate", "refused"}
    BY Zenon DEF PastUser, PastMaps, PastOffsets, PastPid, PastUts, PastMnt, PastNames, PastSysctl
  <1>2. ValidateSpec(nsSpec)'
    BY Zenon, <1>1 DEF PlaceInv, ValidateSpec, IdmapError, NetDevicesOk, UserNsOk
  <1>3. \A u \in Types : "failed" \notin Past(u)
    BY Zenon DEF Types, Past, PastUser, PastMaps, PastOffsets, PastPid, PastUts, PastMnt, PastNames, PastSysctl
  <1>4. /\ \A u \in Types : nsAt[u] = IF l \in Past(u) THEN Where(nsSpec, u) ELSE "host"
        /\ \A u \in Types : l \in Past(u) => Where(nsSpec, u) \in {"host", "new", "other"}
    BY Zenon, <1>1 DEF PlaceInv
  <1>5. n # "failed" => \A u \in Types : nsAt'[u] = IF n \in Past(u) THEN Where(nsSpec', u) ELSE "host"
    BY Zenon, <1>4
  <1>6. \A u \in Types : n \in Past(u) => Where(nsSpec', u) \in {"host", "new", "other"}
    BY Zenon, <1>3, <1>4
  <1>. QED BY Zenon, <1>1, <1>2, <1>5, <1>6 DEF PlaceInv

\* The labels and types of the five steps of apply_rest_namespaces, and of the three
\* namespaces entered before them.
EnterSteps ==
    {<<"user", "user", "maps">>, <<"time", "time", "offsets">>, <<"pid", "pid", "io">>,
     <<"rest1", "uts", "rest2">>, <<"rest2", "ipc", "rest3">>, <<"rest3", "net", "rest4">>,
     <<"rest4", "cgroup", "rest5">>, <<"rest5", "mnt", "names">>}

\* Every step of entering keeps the three invariants.
LEMMA EnterKeeps ==
    ASSUME SpecShape, PlaceInv, WritesInv, SchedInv, NEW l, NEW t, NEW n,
           <<l, t, n>> \in EnterSteps, EnterIfAsked(l, t, n)
    PROVE  PlaceInv' /\ WritesInv' /\ SchedInv'
  <1>1. /\ l \in {"user"} \cup PastUser /\ n \in PastUser /\ t \in Types
        /\ l \notin Past(t) /\ n \in Past(t) /\ l \notin Past("mnt")
    BY Zenon DEF EnterSteps, Types, Past, PastUser, PastMaps, PastOffsets, PastPid, PastUts, PastMnt, PastNames, PastSysctl
  <1>2. \A u \in Types \ {t} : (n \in Past(u)) <=> (l \in Past(u))
    BY SMTT(30) DEF EnterSteps, Types, Past, PastUser, PastMaps, PastOffsets, PastPid, PastUts, PastMnt, PastNames, PastSysctl
  <1>3. /\ l \notin {"validate", "refused"} /\ n \notin {"validate", "refused"} \cup PastSysctl \cup PastNames
        /\ n \in PastMaps => l \in PastMaps
        /\ n \in PastOffsets => l \in PastOffsets
    BY Zenon DEF EnterSteps, PastUser, PastMaps, PastOffsets, PastPid, PastUts, PastMnt, PastNames, PastSysctl
  <1>4. PlaceInv' /\ nsPc' \in {n, "failed"}
    BY Zenon, <1>1, <1>2, EnterStep
  <1>. QED BY Zenon, <1>3, <1>4, EnterWritesNothing

\* A value that falls apart into a class and a level.
IoPrioSplit(v) == v \div 8192 \in 1 .. 3 /\ v % 8192 \in 0 .. 7

\* The io priority of a class and a level in range falls apart into them again.
LEMMA IoPrioSplits ==
    ASSUME NEW class \in 1..3, NEW level \in 0..7
    PROVE  IoPrioSplit(IoPrioValue(class, level))
  <1>1. CASE class = 1 BY SMT, <1>1 DEF IoPrioSplit, IoPrioValue
  <1>2. CASE class = 2 BY SMT, <1>2 DEF IoPrioSplit, IoPrioValue
  <1>3. CASE class = 3 BY SMT, <1>3 DEF IoPrioSplit, IoPrioValue
  <1>. QED BY SMT, <1>1, <1>2, <1>3

\* The invariants hold at first.
LEMMA NamespacesStart == NamespacesInit => PlaceInv /\ WritesInv /\ SchedInv
  <1>. SUFFICES ASSUME NamespacesInit PROVE PlaceInv /\ WritesInv /\ SchedInv
    BY Zenon
  <1>1. /\ nsPc = "validate" /\ nsSpec \in Specs /\ nsAt = [t \in Types |-> "host"]
        /\ opened = {} /\ writes = {} /\ attr = <<>> /\ ioprio = <<>>
    BY Zenon DEF NamespacesInit
  <1>2. "validate" \notin PastUser /\ \A t \in Types : "validate" \notin Past(t)
    BY Zenon DEF Types, Past, PastUser, PastMaps, PastOffsets, PastPid, PastUts, PastMnt, PastNames, PastSysctl
  <1>3. PastMaps \subseteq PastUser /\ PastOffsets \subseteq PastUser /\ PastNames \subseteq PastUser
        /\ PastSysctl \subseteq PastUser /\ "done" \in PastUser
    BY Zenon DEF PastUser, PastMaps, PastOffsets, PastPid, PastUts, PastMnt, PastNames, PastSysctl
  <1>4. PlaceInv
    BY Zenon, <1>1, <1>2 DEF PlaceInv
  <1>5. WritesInv
    BY Zenon, <1>1, <1>2, <1>3 DEF WritesInv
  <1>6. SchedInv
    BY Zenon, <1>1 DEF SchedInv
  <1>. QED BY Zenon, <1>4, <1>5, <1>6

\* A step that writes nothing, once the spec was accepted.
LEMMA WritesKept ==
    ASSUME WritesInv, NEW l, NEW n, nsPc = l, nsPc' = n, UNCHANGED <<nsSpec, writes>>,
           n = "failed" \/ (n \notin PastNames /\ (n \in PastMaps => l \in PastMaps)
                                               /\ (n \in PastOffsets => l \in PastOffsets))
    PROVE  WritesInv'
  <1>1. /\ "failed" \notin PastMaps /\ PastNames \subseteq PastMaps /\ PastSysctl \subseteq PastNames
        /\ PastOffsets \subseteq PastMaps /\ "done" \in PastSysctl
    BY Zenon DEF PastUser, PastMaps, PastOffsets, PastPid, PastUts, PastMnt, PastNames, PastSysctl
  <1>. QED BY Zenon, <1>1 DEF WritesInv

\* Every step keeps the three invariants.
LEMMA NamespacesStep ==
    ASSUME SpecShape, PlaceInv, WritesInv, SchedInv, [NamespacesNext]_nsVars
    PROVE  PlaceInv' /\ WritesInv' /\ SchedInv'
  <1>1. CASE Validate
    <2>1. /\ nsPc = "validate" /\ nsPc' = IF ValidateSpec(nsSpec) THEN "user" ELSE "refused"
          /\ UNCHANGED <<nsSpec, host, nsAt, opened, writes, attr, ioprio>>
      BY Zenon, <1>1 DEF Validate, Goto
    <2>2. /\ \A l \in {"validate", "user", "refused"} : \A t \in Types : l \notin Past(t)
          /\ \A l \in {"validate", "user", "refused"} :
                l \notin PastUser \cup PastMaps \cup PastOffsets \cup PastNames \cup PastSysctl \cup {"done"}
      BY DEF Types, Past, PastUser, PastMaps, PastOffsets, PastPid, PastUts, PastMnt, PastNames, PastSysctl
    <2>3. nsPc' \in {"user", "refused"} /\ (nsPc' = "user" => ValidateSpec(nsSpec)')
      BY Zenon, <2>1 DEF ValidateSpec, IdmapError, NetDevicesOk, UserNsOk
    <2>4. PlaceInv'
      BY Zenon, <2>1, <2>2, <2>3 DEF PlaceInv
    <2>5. WritesInv'
      BY Zenon, <2>1, <2>2, <2>3 DEF WritesInv
    <2>6. SchedInv'
      BY Zenon, <2>1 DEF SchedInv
    <2>. QED BY Zenon, <2>4, <2>5, <2>6
  <1>2. CASE EnterUser
    BY <1>2, EnterKeeps, <<"user", "user", "maps">> \in EnterSteps DEF EnterUser, EnterSteps
  <1>3. CASE EnterTime
    BY <1>3, EnterKeeps, <<"time", "time", "offsets">> \in EnterSteps DEF EnterTime, EnterSteps
  <1>4. CASE EnterPid
    BY <1>4, EnterKeeps, <<"pid", "pid", "io">> \in EnterSteps DEF EnterPid, EnterSteps
  <1>5. CASE ApplyRest
    <2>1. PICK i \in 1 .. 5 : EnterIfAsked(Label(i), RestOrder[i], Label(i + 1))
      BY Zenon, <1>5 DEF ApplyRest
    <2>2. <<Label(i), RestOrder[i], Label(i + 1)>> \in EnterSteps
      <3>1. i = 1 \/ i = 2 \/ i = 3 \/ i = 4 \/ i = 5
        OBVIOUS
      <3>. QED BY <3>1 DEF Label, RestOrder, EnterSteps
    <2>. QED BY Zenon, <2>1, <2>2, EnterKeeps
  <1>6. CASE WriteMaps
    <2>. DEFINE asked == nsAt["user"] = "new" /\ nsSpec.maps
    <2>1. /\ nsPc = "maps" /\ nsPc' = "time"
          /\ writes' = IF asked THEN writes \cup {<<"maps", nsAt["user"]>>} ELSE writes
          /\ UNCHANGED <<nsSpec, host, nsAt, opened, attr, ioprio>>
      BY Zenon, <1>6 DEF WriteMaps, Write, Goto
    <2>2. nsAt["user"] = Where(nsSpec, "user")
      BY Zenon, <2>1 DEF PlaceInv, Types, Past, PastUser, PastMaps, PastOffsets, PastPid, PastUts, PastMnt, PastNames, PastSysctl
    <2>3. /\ "time" \notin PastOffsets \cup PastNames \cup PastSysctl \cup {"done"}
          /\ \A u \in Types : ("time" \in Past(u)) <=> ("maps" \in Past(u))
          /\ "maps" \in PastUser /\ "time" \in PastUser
      BY Zenon DEF Types, Past, PastUser, PastMaps, PastOffsets, PastPid, PastUts, PastMnt, PastNames, PastSysctl
    <2>4. PlaceInv'
      BY Zenon, <2>1, <2>3, StayStep
    <2>5. writes' \subseteq writes \cup {<<"maps", "new">>} /\ (asked => <<"maps", "new">> \in writes')
      BY Zenon, <2>1
    <2>6. WritesInv'
      BY <2>1, <2>2, <2>3, <2>5 DEF WritesInv
    <2>7. SchedInv'
      BY Zenon, <2>1 DEF SchedInv
    <2>. QED BY Zenon, <2>4, <2>6, <2>7
  <1>7. CASE WriteOffsets
    <2>. DEFINE asked == nsAt["time"] = "new" /\ nsSpec.offsets = "some"
    <2>1. /\ nsPc = "offsets" /\ nsPc' = "pid"
          /\ writes' = IF asked THEN writes \cup {<<"offsets", nsAt["time"]>>} ELSE writes
          /\ UNCHANGED <<nsSpec, host, nsAt, opened, attr, ioprio>>
      BY Zenon, <1>7 DEF WriteOffsets, Write, Goto
    <2>2. nsAt["time"] = Where(nsSpec, "time") /\ nsSpec \in Specs /\ ValidateSpec(nsSpec)
      BY Zenon, <2>1 DEF PlaceInv, Types, Past, PastUser, PastMaps, PastOffsets, PastPid, PastUts, PastMnt, PastNames, PastSysctl
    <2>3. nsSpec.offsets = "some" => asked
      BY Zenon, <2>2, AcceptedPlaces
    <2>4. /\ "pid" \notin PastNames \cup PastSysctl \cup {"done"} /\ "offsets" \in PastMaps
          /\ \A u \in Types : ("pid" \in Past(u)) <=> ("offsets" \in Past(u))
          /\ "offsets" \in PastUser /\ "pid" \in PastUser
      BY DEF Types, Past, PastUser, PastMaps, PastOffsets, PastPid, PastUts, PastMnt, PastNames, PastSysctl
    <2>5. PlaceInv'
      BY Zenon, <2>1, <2>4, StayStep
    <2>6. /\ writes' \subseteq writes \cup {<<"offsets", "new">>} /\ writes \subseteq writes'
          /\ asked => <<"offsets", "new">> \in writes'
      BY Zenon, <2>1
    <2>. HIDE DEF asked
    <2>7. WritesInv'
      BY <2>1, <2>3, <2>4, <2>6 DEF WritesInv
    <2>8. SchedInv'
      BY Zenon, <2>1 DEF SchedInv
    <2>. QED BY Zenon, <2>5, <2>7, <2>8
  <1>8. CASE SetIoPriority
    <2>1. /\ nsPc = "io" /\ nsPc' = "sched"
          /\ UNCHANGED <<nsSpec, host, nsAt, opened, writes, attr>>
      BY Zenon, <1>8 DEF SetIoPriority, Goto
    <2>2. nsSpec \in Specs /\ ValidateSpec(nsSpec)
      BY Zenon, <2>1 DEF PlaceInv
    <2>3. /\ "sched" \notin PastNames /\ "io" \in PastMaps /\ "io" \in PastOffsets
          /\ \A u \in Types : ("sched" \in Past(u)) <=> ("io" \in Past(u))
          /\ "io" \in PastUser /\ "sched" \in PastUser
      BY DEF Types, Past, PastUser, PastMaps, PastOffsets, PastPid, PastUts, PastMnt, PastNames, PastSysctl
    <2>4. PlaceInv'
      BY Zenon, <2>1, <2>3, StayStep
    <2>5. WritesInv'
      BY Zenon, <2>1, <2>3, WritesKept
    <2>6. ioprio' # <<>> => \E class \in 1..3, level \in 0..7 : ioprio' = <<IoPrioValue(class, level)>>
      <3>1. CASE nsSpec.io = <<>>
        BY Zenon, <1>8, <3>1 DEF SetIoPriority
      <3>2. CASE nsSpec.io # <<>>
        <4>1. nsSpec.io[1].class \in {"rt", "be", "idle"}
          BY Zenon, <2>2, <3>2 DEF SpecShape
        <4>2. nsSpec.io[1].priority \in 0 .. 7
          BY Zenon, <2>2, <3>2 DEF ValidateSpec, IoPriorityOk
        <4>3. \E class \in 1..3 : ioprio' = <<IoPrioValue(class, nsSpec.io[1].priority)>>
          BY <1>8, <3>2, <4>1 DEF SetIoPriority
        <4>. QED BY Zenon, <4>2, <4>3
      <3>. QED BY Zenon, <3>1, <3>2
    <2>7. SchedInv'
      BY Zenon, <2>1, <2>6 DEF SchedInv
    <2>. QED BY Zenon, <2>4, <2>5, <2>7
  <1>9. CASE SetupScheduler
    <2>1. /\ nsPc = "sched" /\ UNCHANGED <<nsSpec, host, nsAt, opened, writes, ioprio>>
          /\ \/ attr' = nsSpec.sched /\ nsPc' = "rest1"
             \/ attr' = attr /\ nsPc' = "failed"
      BY Zenon, <1>9 DEF SetupScheduler, Goto
    <2>2. /\ "rest1" \notin PastNames /\ "sched" \in PastMaps /\ "sched" \in PastOffsets
          /\ \A u \in Types : ("rest1" \in Past(u)) <=> ("sched" \in Past(u))
          /\ "sched" \in PastUser /\ "rest1" \in PastUser
      BY DEF Types, Past, PastUser, PastMaps, PastOffsets, PastPid, PastUts, PastMnt, PastNames, PastSysctl
    <2>3. PlaceInv'
      BY Zenon, <2>1, <2>2, StayStep
    <2>4. WritesInv'
      BY Zenon, <2>1, <2>2, WritesKept
    <2>5. SchedInv'
      BY Zenon, <2>1 DEF SchedInv
    <2>. QED BY Zenon, <2>3, <2>4, <2>5
  <1>10. CASE SetNames
    <2>. DEFINE new == HasNs(nsSpec, "uts") /\ Ns(nsSpec, "uts").path = "none"
                names == (IF new /\ nsSpec.hostname THEN {<<"hostname", nsAt["uts"]>>} ELSE {})
                           \cup (IF new /\ nsSpec.domainname THEN {<<"domainname", nsAt["uts"]>>} ELSE {})
    <2>1. /\ nsPc = "names" /\ nsPc' = "sysctl" /\ writes' = writes \cup names
          /\ UNCHANGED <<nsSpec, host, nsAt, opened, attr, ioprio>>
      BY Zenon, <1>10 DEF SetNames, Goto
    <2>2. nsAt["uts"] = Where(nsSpec, "uts") /\ Where(nsSpec, "uts") \in {"host", "new", "other"}
      BY <2>1 DEF PlaceInv, Types, Past, PastUser, PastMaps, PastOffsets, PastPid, PastUts, PastMnt, PastNames, PastSysctl
    <2>3. new <=> Where(nsSpec, "uts") = "new"
      BY Zenon, <2>2, NamedByItsPath DEF Where, PlaceInv
    <2>4. /\ names \subseteq {<<"hostname", "new">>, <<"domainname", "new">>}
          /\ new /\ nsSpec.hostname => <<"hostname", "new">> \in names
          /\ new /\ nsSpec.domainname => <<"domainname", "new">> \in names
      BY Zenon, <2>2, <2>3
    <2>5. /\ "names" \in PastMaps /\ "names" \in PastOffsets /\ "sysctl" \notin PastSysctl \cup {"done"}
          /\ \A u \in Types : ("sysctl" \in Past(u)) <=> ("names" \in Past(u))
          /\ "names" \in PastUser /\ "sysctl" \in PastUser
      BY Zenon DEF Types, Past, PastUser, PastMaps, PastOffsets, PastPid, PastUts, PastMnt, PastNames, PastSysctl
    <2>6. PlaceInv'
      BY Zenon, <2>1, <2>5, StayStep
    <2>. HIDE DEF new, names
    <2>7. WritesInv'
      BY <2>1, <2>3, <2>4, <2>5 DEF WritesInv
    <2>8. SchedInv'
      BY Zenon, <2>1 DEF SchedInv
    <2>. QED BY Zenon, <2>6, <2>7, <2>8
  <1>11. CASE Sysctl
    <2>. DEFINE to(key) == IF SysctlScope(key) = "none" THEN "host" ELSE nsAt[SysctlScope(key)]
                set == {<<key, to(key)>> : key \in nsSpec.sysctl}
    <2>1. /\ nsPc = "sysctl" /\ UNCHANGED <<nsSpec, host, nsAt, opened, attr, ioprio>>
          /\ \/ writes' = writes \cup set /\ nsPc' = "paths"
             \/ writes' = writes /\ nsPc' = "failed"
      BY Zenon, <1>11 DEF Sysctl, Goto
    <2>2. nsSpec \in Specs /\ ValidateSpec(nsSpec)
          /\ \A t \in Types : nsAt[t] = Where(nsSpec, t)
          /\ ~NamesHost(nsSpec, "user")
      BY <2>1 DEF PlaceInv, Types, Past, PastUser, PastMaps, PastOffsets, PastPid, PastUts, PastMnt, PastNames, PastSysctl
    <2>3. ASSUME NEW key \in nsSpec.sysctl
          PROVE  /\ to(key) = "host" => AsksForHost(nsSpec, key)
                 /\ key \notin {"maps", "offsets", "hostname", "domainname"}
      <3>1. /\ SysctlScope(key) \in Types
            /\ Where(nsSpec, SysctlScope(key)) = "host" => AsksForHost(nsSpec, key)
        BY Zenon, <2>2, AcceptedPlaces
      <3>2. key \in SysctlKeys
        BY Zenon, <2>2 DEF SpecShape
      <3>. QED BY Zenon, <2>2, <3>1, <3>2 DEF Types, SysctlKeys
    <2>4. /\ \A w \in set : /\ w[2] = "host" => AsksForHost(nsSpec, w[1])
                            /\ w[1] \notin {"maps", "offsets", "hostname", "domainname"}
          /\ \A key \in nsSpec.sysctl : \E w \in set : w[1] = key
      <3>. HIDE DEF to
      <3>1. ASSUME NEW w \in set
            PROVE  /\ w[2] = "host" => AsksForHost(nsSpec, w[1])
                   /\ w[1] \notin {"maps", "offsets", "hostname", "domainname"}
        <4>1. PICK key \in nsSpec.sysctl : w = <<key, to(key)>>
          BY Zenon
        <4>2. w[1] = key /\ w[2] = to(key)
          BY Zenon, <4>1
        <4>. QED BY Zenon, <2>3, <4>2
      <3>2. ASSUME NEW key \in nsSpec.sysctl PROVE \E w \in set : w[1] = key
        <4>1. <<key, to(key)>> \in set /\ <<key, to(key)>>[1] = key
          BY Zenon
        <4>. QED BY Zenon, <4>1
      <3>. QED BY Zenon, <3>1, <3>2
    <2>5. /\ "sysctl" \in PastMaps /\ "sysctl" \in PastOffsets /\ "sysctl" \in PastNames /\ "paths" # "done"
          /\ \A u \in Types : ("paths" \in Past(u)) <=> ("sysctl" \in Past(u))
          /\ "sysctl" \in PastUser /\ "paths" \in PastUser
      BY Zenon DEF Types, Past, PastUser, PastMaps, PastOffsets, PastPid, PastUts, PastMnt, PastNames, PastSysctl
    <2>6. PlaceInv'
      BY Zenon, <2>1, <2>5, StayStep
    <2>. HIDE DEF set
    <2>7. CASE nsPc' = "failed"
      <3>1. writes' = writes
        BY Zenon, <2>1, <2>7
      <3>. QED BY Zenon, <2>1, <2>6, <2>7, <3>1, WritesKept DEF SchedInv
    <2>8. CASE writes' = writes \cup set /\ nsPc' = "paths"
      <3>1. /\ \A w \in writes' : w \in writes \/ w \in set
            /\ writes \subseteq writes' /\ set \subseteq writes'
        BY Zenon, <2>8
      <3>2. \A w \in writes' : w[2] = "host" => AsksForHost(nsSpec', w[1])
        BY Zenon, <2>1, <2>4, <3>1 DEF WritesInv
      <3>5. \A w \in writes' : w[1] \in {"maps", "offsets", "hostname", "domainname"} => w[2] = "new"
        <4>1. \A w \in writes : w[1] \in {"maps", "offsets", "hostname", "domainname"} => w[2] = "new"
          BY Zenon DEF WritesInv
        <4>2. \A w \in set : w[1] \notin {"maps", "offsets", "hostname", "domainname"}
          BY <2>4
        <4>. QED BY Zenon, <3>1, <4>1, <4>2
      <3>3. nsPc' \in PastSysctl => \A key \in nsSpec'.sysctl : \E w \in writes' : w[1] = key
        BY Zenon, <2>1, <2>4, <3>1
      <3>4. WritesInv'
        BY Zenon, <2>1, <2>5, <2>8, <3>1, <3>2, <3>3, <3>5 DEF WritesInv
      <3>. QED BY Zenon, <2>1, <2>6, <2>8, <3>4 DEF SchedInv
    <2>. QED BY Zenon, <2>1, <2>7, <2>8
  <1>12. CASE CoverPaths
    <2>. DEFINE asked == nsSpec.masked \/ nsSpec.readonly
    <2>1. /\ nsPc = "paths" /\ nsPc' = "done"
          /\ writes' = IF asked THEN writes \cup {<<"paths", nsAt["mnt"]>>} ELSE writes
          /\ UNCHANGED <<nsSpec, host, nsAt, opened, attr, ioprio>>
      BY Zenon, <1>12 DEF CoverPaths, Write, Goto
    <2>2. nsAt["mnt"] = Where(nsSpec, "mnt") /\ nsSpec \in Specs /\ ValidateSpec(nsSpec)
      BY Zenon, <2>1 DEF PlaceInv, Types, Past, PastUser, PastMaps, PastOffsets, PastPid, PastUts, PastMnt, PastNames, PastSysctl
    <2>3. asked /\ nsAt["mnt"] = "host" => AsksForHost(nsSpec, "paths")
      BY Zenon, <2>2, AcceptedPlaces
    <2>4. /\ {"paths", "done"} \subseteq PastMaps \cap PastOffsets \cap PastNames \cap PastSysctl \cap PastUser
          /\ \A u \in Types : ("done" \in Past(u)) <=> ("paths" \in Past(u))
      BY Zenon DEF Types, Past, PastUser, PastMaps, PastOffsets, PastPid, PastUts, PastMnt, PastNames, PastSysctl
    <2>5. PlaceInv'
      BY Zenon, <2>1, <2>4, StayStep
    <2>6. WritesInv'
      <3>. HIDE DEF asked
      <3>1. /\ \A w \in writes' : w \in writes \/ (asked /\ w = <<"paths", nsAt["mnt"]>>)
            /\ writes \subseteq writes' /\ (asked => \E w \in writes' : w[1] = "paths")
        <4>1. CASE asked
          <5>1. writes' = writes \cup {<<"paths", nsAt["mnt"]>>}
            BY Zenon, <2>1, <4>1
          <5>2. <<"paths", nsAt["mnt"]>> \in writes' /\ <<"paths", nsAt["mnt"]>>[1] = "paths"
            BY Zenon, <5>1
          <5>. QED BY Zenon, <4>1, <5>1, <5>2
        <4>2. CASE ~asked
          BY Zenon, <2>1, <4>2
        <4>. QED BY Zenon, <4>1, <4>2
      <3>. USE DEF asked
      <3>. QED BY <2>1, <2>3, <2>4, <3>1 DEF WritesInv
    <2>7. SchedInv'
      BY Zenon, <2>1 DEF SchedInv
    <2>. QED BY Zenon, <2>5, <2>6, <2>7
  <1>13. CASE UNCHANGED nsVars
    <2>1. UNCHANGED <<nsSpec, host, nsPc, nsAt, opened, writes, attr, ioprio>>
      BY Zenon, <1>13 DEF nsVars
    <2>2. ValidateSpec(nsSpec)' <=> ValidateSpec(nsSpec)
      BY Zenon, <2>1 DEF ValidateSpec, IdmapError, NetDevicesOk, UserNsOk
    <2>. QED BY <2>1, <2>2 DEF PlaceInv, WritesInv, SchedInv
  <1>. QED
    BY Zenon, <1>1, <1>2, <1>3, <1>4, <1>5, <1>6, <1>7, <1>8, <1>9, <1>10, <1>11, <1>12, <1>13 DEF NamespacesNext

\* An accepted spec makes the processes enter and write what it asks for: a namespace
\* of the host only where the spec names it, never the host's network or users, nor one
\* of another container by an id map, an offset or a name; all paths are opened on the host, nothing that is asked for is left out, and
\* the kernel is given no scheduling parameter foreign to the policy.
THEOREM NamespacesAreAsAsked ==
    ASSUME SpecShape
    PROVE  NamespacesSpec => []EnteredAsAsked
  <1>1. PlaceInv /\ WritesInv /\ SchedInv => EnteredAsAsked
    <2>. SUFFICES ASSUME PlaceInv, WritesInv, SchedInv PROVE EnteredAsAsked
      BY Zenon
    <2>1. PathsOpenedOnHost /\ JoinedStaysAsItIs /\ HostUntouched
      BY Zenon DEF PlaceInv, WritesInv, PathsOpenedOnHost, JoinedStaysAsItIs, HostUntouched
    <2>2. AskedIsDone
      <3>. SUFFICES ASSUME nsPc = "done" PROVE AskedIsDone
        BY Zenon DEF AskedIsDone
      <3>. DEFINE done == {w[1] : w \in writes}
      <3>1. nsSpec \in Specs /\ ValidateSpec(nsSpec)
        BY Zenon DEF PlaceInv
      <3>2. "done" \in PastMaps \cap PastOffsets \cap PastNames \cap PastSysctl
        BY Zenon DEF PastUser, PastMaps, PastOffsets, PastPid, PastUts, PastMnt, PastNames, PastSysctl
      <3>3. \A what, place : <<what, place>> \in writes => what \in done
        OBVIOUS
      <3>4. \A what : (\E w \in writes : w[1] = what) => what \in done
        BY Zenon
      <3>5. /\ nsSpec.hostname \/ nsSpec.domainname => HasNs(nsSpec, "uts")
            /\ nsSpec.maps => HasNs(nsSpec, "user")
        BY Zenon, <3>1, AcceptedPlaces
      <3>6. \A t : HasNs(nsSpec, t) /\ Ns(nsSpec, t).path = "none" => Where(nsSpec, t) = "new"
        BY Zenon DEF Where
      <3>. HIDE DEF done
      <3>7. /\ nsSpec.hostname /\ Ns(nsSpec, "uts").path = "none" => "hostname" \in done
            /\ nsSpec.domainname /\ Ns(nsSpec, "uts").path = "none" => "domainname" \in done
            /\ nsSpec.offsets = "some" => "offsets" \in done
            /\ nsSpec.maps /\ Ns(nsSpec, "user").path = "none" => "maps" \in done
        BY Zenon, <3>2, <3>3, <3>5, <3>6 DEF WritesInv
      <3>8. /\ nsSpec.sysctl \subseteq done
            /\ nsSpec.masked \/ nsSpec.readonly => "paths" \in done
        BY Zenon, <3>2, <3>4 DEF WritesInv
      <3>. QED BY Zenon, <3>7, <3>8 DEF AskedIsDone, done
    <2>3. SchedulingIsCoherent
      <3>1. attr # <<>> => ValidateSpec(nsSpec) /\ attr = nsSpec.sched
        BY Zenon DEF PlaceInv, SchedInv
      <3>2. attr # <<>> => /\ attr[1].deadline # 0 => attr[1].policy = "deadline"
                           /\ attr[1].priority # 0 => attr[1].policy \in {"fifo", "rr"}
        BY Zenon, <3>1 DEF ValidateSpec, SchedulerOk
      <3>3. ioprio # <<>> => IoPrioSplit(ioprio[1])
        BY SMTT(30), IoPrioSplits DEF SchedInv
      <3>. QED BY SMT, <3>2, <3>3 DEF SchedulingIsCoherent, IoPrioSplit
    <2>. QED BY Zenon, <2>1, <2>2, <2>3 DEF EnteredAsAsked
  <1>. QED BY <1>1, NamespacesStart, NamespacesStep, PTL DEF NamespacesSpec
-----------------------------------------------------------------------------
(* User namespaces *)

Extent == [container : Nat, host : Nat, size : Nat]

\* A spec has lists of mappings, whose sizes are numbers.
Mapped ==
    \A s \in Spec0 : \A k \in {"uid_mappings", "gid_mappings"} :
        /\ s[k] \in Seq(Extent)
        /\ s.privileged \in BOOLEAN

\* What the validation and the lookup of the helpers have established, and what the
\* later steps have done.
PastLookup == {"deny", "uidMap", "gidMap", "becomeRoot", "groups", "become", "running"}
PastUidMap == {"gidMap", "becomeRoot", "groups", "become", "running"}
PastGidMap == {"becomeRoot", "groups", "become", "running"}
PastRoot == {"groups", "become", "running"}

UserInv ==
    /\ userSpec \in Spec0
    /\ userPc \in {"validate", "lookup", "failed"} \cup PastLookup
    /\ DOMAIN map = {"uid", "gid"} /\ DOMAIN ids = {"uid", "gid", "groups"}
    /\ userPc \in {"lookup"} \cup PastLookup =>
          /\ userSpec.uid_mappings # <<>> /\ userSpec.gid_mappings # <<>>
          /\ ~userSpec.privileged => userSpec.additional_gids = {}
    /\ userPc \in PastLookup /\ (Len(userSpec.uid_mappings) > 1 \/ Len(userSpec.gid_mappings) > 1) =>
          binaries
    /\ setgroups = "deny" => ~userSpec.privileged
    /\ userPc \in PastLookup \ {"deny"} /\ ~userSpec.privileged => setgroups = "deny"
    /\ userPc \in PastUidMap => map.uid \in {<<>>, userSpec.uid_mappings}
    /\ userPc \in PastGidMap => map.gid \in {<<>>, userSpec.gid_mappings}
    /\ userPc \in PastRoot => map.uid = userSpec.uid_mappings /\ map.gid = userSpec.gid_mappings
    /\ userPc \in {"become", "running"} =>
          ids.groups = userSpec.additional_gids /\ ids.groups \subseteq Inside(map.gid)
    /\ userPc = "running" => /\ ids.uid = userSpec.user /\ ids.uid \in Inside(map.uid)
                             /\ ids.gid = userSpec.group /\ ids.gid \in Inside(map.gid)
    /\ NeverUnreachable /\ OwnIdIsAccepted

\* A step of the user namespace's setup leads on, or ends in a failure with a name.
LEMMA StepOn ==
    ASSUME NEW next, NEW e, Step(next, e)
    PROVE  \/ e = "" /\ userPc' = next /\ error' = error
           \/ e # "" /\ userPc' = "failed" /\ error' = e
  BY Zenon DEF Step, UsernsFail

\* set_id: both ids are set and mapped, or the process ends.
LEMMA IdsSet ==
    ASSUME UserInv, NEW uid, NEW gid, NEW next, SetId(uid, gid, next)
    PROVE  /\ UNCHANGED <<userSpec, binaries, setgroups, map>>
           /\ DOMAIN ids' = DOMAIN ids /\ ids'.groups = ids.groups
           /\ \/ /\ uid \in Inside(map.uid) /\ gid \in Inside(map.gid)
                 /\ ids'.uid = uid /\ ids'.gid = gid /\ userPc' = next /\ error' = error
              \/ userPc' = "failed" /\ error' = "SetId"
  <1>. DEFINE ok == uid \in Inside(map.uid) /\ gid \in Inside(map.gid)
              both == [ids EXCEPT !.uid = uid, !.gid = gid]
              one == [ids EXCEPT !.gid = gid]
  <1>1. /\ UNCHANGED <<userSpec, binaries, setgroups, map>>
        /\ Step(next, IF ok THEN "" ELSE "SetId")
        /\ IF ok THEN ids' = both ELSE ids' \in {one, ids}
    BY Zenon DEF SetId
  <1>2. /\ DOMAIN both = DOMAIN ids /\ both.groups = ids.groups /\ both.uid = uid /\ both.gid = gid
        /\ DOMAIN one = DOMAIN ids /\ one.groups = ids.groups
    BY Zenon DEF UserInv
  <1>3. IF ok THEN userPc' = next /\ error' = error ELSE userPc' = "failed" /\ error' = "SetId"
    BY Zenon, <1>1, StepOn
  <1>. HIDE DEF both, one
  <1>. QED BY Zenon, <1>1, <1>2, <1>3

\* setup_mapping(): a list of mappings is in force as asked or not at all, a helper is
\* there when it is needed, and the kernel takes the single mapping of the caller's own
\* id.
LEMMA MappingWritten ==
    ASSUME UserInv, Mapped, userPc \in PastLookup \ {"deny"},
           NEW kind \in {"uid", "gid"}, NEW key \in {"uid_mappings", "gid_mappings"},
           NEW next, next # "failed",
           write_id_mapping(kind, userSpec[key], next),
           UNCHANGED <<userSpec, setgroups>>
    PROVE  /\ DOMAIN map' = DOMAIN map
           /\ \A k \in {"uid", "gid"} \ {kind} : map'[k] = map[k]
           /\ \/ userPc' = next /\ error' = error /\ map'[kind] \in {<<>>, userSpec[key]}
              \/ userPc' = "failed" /\ error' = "Execute"
              \/ userPc' = "failed" /\ error' = "WriteIDMapping" /\ OwnIdIsAccepted'
PROOF
  <1>. DEFINE mappings == userSpec[key]
  <1>1. /\ userSpec["uid_mappings"] # <<>> /\ userSpec["gid_mappings"] # <<>>
        /\ mappings \in Seq(Extent)
        /\ mappings # <<>>
        /\ userSpec.privileged \in BOOLEAN
    BY Zenon DEF UserInv, Mapped
  <1>2. Len(mappings) \in Nat \ {0}
    BY <1>1
  <1>3. CASE Len(mappings) # 1
    <2>1. binaries
      <3>1. Len(mappings) > 1
        <4>1. \A n \in Nat \ {0} : n # 1 => n > 1
          OBVIOUS
        <4>. QED BY Zenon, <1>2, <1>3, <4>1
      <3>2. CASE key = "uid_mappings"
        BY Zenon, <3>1, <3>2 DEF UserInv
      <3>3. CASE key = "gid_mappings"
        BY Zenon, <3>1, <3>3 DEF UserInv
      <3>. QED BY Zenon, <3>2, <3>3
    <2>2. \/ /\ \E allowed \in BOOLEAN :
                   map' = [map EXCEPT ![kind] =
                       IF allowed /\ KernelAccepts(kind, mappings) THEN mappings ELSE <<>>]
             /\ Step(next, "")
          \/ userPc' = "failed" /\ error' = "Execute" /\ map' = map
      BY Zenon, <1>3, <2>1 DEF write_id_mapping, UsernsFail
    <2>. QED BY Zenon, <2>2, StepOn DEF UserInv
  <1>4. CASE Len(mappings) = 1
    <2>. DEFINE ok == KernelAccepts(kind, mappings)
    <2>1. map' = [map EXCEPT ![kind] = IF ok THEN mappings ELSE <<>>]
      BY Zenon, <1>4 DEF write_id_mapping
    <2>2. Step(next, IF ok THEN "" ELSE "WriteIDMapping")
      BY Zenon, <1>4 DEF write_id_mapping
    <2>3. CASE ok
      BY Zenon, <2>1, <2>2, <2>3, StepOn DEF UserInv
    <2>4. CASE ~ok
      <3>1. userPc' = "failed" /\ error' = "WriteIDMapping"
        BY Zenon, <2>2, <2>4, StepOn
      <3>. HIDE DEF mappings
      <3>2. DOMAIN mappings = {1} /\ mappings[1].size \in Nat
        <4>1. DOMAIN mappings = 1..1
          BY <1>1, <1>4
        <4>2. mappings[1] \in Extent
          BY <1>1, <4>1
        <4>. QED BY <4>1, <4>2 DEF Extent
      <3>3. ~userSpec.privileged => setgroups = "deny"
        BY Zenon DEF UserInv
      <3>4. \/ mappings[1].size = 0
            \/ /\ ~userSpec.privileged
               /\ mappings[1].size # 1 \/ mappings[1].host # userSpec.caller
        BY <1>4, <2>4, <3>2, <3>3 DEF KernelAccepts
      <3>5. OwnIdIsAccepted'
        BY Zenon, <3>4 DEF OwnIdIsAccepted, mappings
      <3>. QED BY Zenon, <2>1, <3>1, <3>5 DEF UserInv
    <2>. QED BY Zenon, <2>3, <2>4
  <1>. QED BY Zenon, <1>3, <1>4

\* A running container has the uid, gid and groups its spec asks for, all of them mapped as
\* the spec says; no validated spec meets a panic; and the kernel takes the mapping of
\* the caller's own id.
THEOREM IdsAreAsAsked ==
    ASSUME Mapped
    PROVE  UsernsSpec => []IdsAsAsked
PROOF
  <1>1. UsernsInit => UserInv
    BY Zenon DEF UsernsInit, UserInv, PastLookup, PastUidMap, PastGidMap, PastRoot, NeverUnreachable,
           OwnIdIsAccepted
  <1>2. UserInv /\ [UsernsNext]_userVars => UserInv'
    <2>. SUFFICES ASSUME UserInv, [UsernsNext]_userVars PROVE UserInv'
      BY Zenon
    <2>. USE DEF PastLookup, PastUidMap, PastGidMap, PastRoot
    <2>1. CASE UsernsValidate
      <3>1. /\ UNCHANGED <<userSpec, binaries, setgroups, map, ids>> /\ userPc = "validate"
            /\ Step("lookup", validate_spec_for_new_user_ns)
        BY Zenon, <2>1 DEF UsernsValidate
      <3>2. validate_spec_for_new_user_ns \in {"", "NoUIDMappings", "NoGIDMapping", "MountUidMapping",
                                              "MountGidMapping", "GidNotMapped", "UnprivilegedUser"}
        BY Zenon DEF validate_spec_for_new_user_ns
      <3>3. validate_spec_for_new_user_ns = "" =>
               /\ userSpec.uid_mappings # <<>> /\ userSpec.gid_mappings # <<>>
               /\ ~userSpec.privileged => userSpec.additional_gids = {}
        BY Zenon DEF validate_spec_for_new_user_ns
      <3>. QED BY Zenon, <3>1, <3>2, <3>3, StepOn DEF UserInv, NeverUnreachable, OwnIdIsAccepted
    <2>2. CASE lookup_map_binaries
      <3>. DEFINE needed == Len(userSpec.uid_mappings) > 1 \/ Len(userSpec.gid_mappings) > 1
      <3>1. /\ UNCHANGED <<userSpec, setgroups, map, ids>> /\ userPc = "lookup"
            /\ binaries' = (needed /\ userSpec.installed)
            /\ Step("deny", IF needed /\ ~userSpec.installed THEN "BinaryNotFound" ELSE "")
        BY Zenon, <2>2 DEF lookup_map_binaries
      <3>2. \/ needed /\ ~userSpec.installed /\ userPc' = "failed" /\ error' = "BinaryNotFound"
            \/ (needed => binaries') /\ userPc' = "deny" /\ error' = error
        BY Zenon, <3>1, StepOn
      <3>. QED BY Zenon, <3>1, <3>2 DEF UserInv, NeverUnreachable, OwnIdIsAccepted
    <2>3. CASE DenySetgroups
      BY Zenon, <2>3 DEF DenySetgroups, UsernsFail, UserInv, NeverUnreachable, OwnIdIsAccepted
    <2>4. CASE write_uid_mapping
      <3>1. /\ UNCHANGED <<userSpec, binaries, setgroups, ids>> /\ userPc = "uidMap"
            /\ write_id_mapping("uid", userSpec["uid_mappings"], "gidMap")
        BY Zenon, <2>4 DEF write_uid_mapping
      <3>2. /\ DOMAIN map' = DOMAIN map
            /\ \/ userPc' = "gidMap" /\ error' = error /\ map'.uid \in {<<>>, userSpec.uid_mappings}
               \/ userPc' = "failed" /\ error' = "Execute"
               \/ userPc' = "failed" /\ error' = "WriteIDMapping" /\ OwnIdIsAccepted'
        BY Zenon, <3>1, MappingWritten
      <3>. QED BY Zenon, <3>1, <3>2 DEF UserInv, NeverUnreachable, OwnIdIsAccepted
    <2>5. CASE write_gid_mapping
      <3>1. /\ UNCHANGED <<userSpec, binaries, setgroups, ids>> /\ userPc = "gidMap"
            /\ write_id_mapping("gid", userSpec["gid_mappings"], "becomeRoot")
        BY Zenon, <2>5 DEF write_gid_mapping
      <3>2. /\ DOMAIN map' = DOMAIN map /\ map'.uid = map.uid
            /\ \/ userPc' = "becomeRoot" /\ error' = error /\ map'.gid \in {<<>>, userSpec.gid_mappings}
               \/ userPc' = "failed" /\ error' = "Execute"
               \/ userPc' = "failed" /\ error' = "WriteIDMapping" /\ OwnIdIsAccepted'
        BY Zenon, <3>1, MappingWritten
      <3>. QED BY Zenon, <3>1, <3>2 DEF UserInv, NeverUnreachable, OwnIdIsAccepted
    <2>6. CASE BecomeRoot
      <3>1. Inside(<<>>) = {}
        BY DEF Inside
      <3>2. /\ UNCHANGED <<userSpec, binaries, setgroups, map>> /\ userPc = "becomeRoot"
            /\ DOMAIN ids' = DOMAIN ids
            /\ \/ /\ 0 \in Inside(map.uid) /\ 0 \in Inside(map.gid)
                  /\ userPc' = "groups" /\ error' = error
               \/ userPc' = "failed" /\ error' = "SetId"
        BY Zenon, <2>6, IdsSet DEF BecomeRoot
      <3>3. userPc' = "groups" => map.uid = userSpec.uid_mappings /\ map.gid = userSpec.gid_mappings
        BY Zenon, <3>1, <3>2 DEF UserInv
      <3>. QED BY Zenon, <3>2, <3>3 DEF UserInv, NeverUnreachable, OwnIdIsAccepted
    <2>7. CASE set_supplementary_gids
      <3>. DEFINE e == IF userSpec.additional_gids = {} THEN ""
                       ELSE IF setgroups = "deny" THEN "SetGroupDisabled"
                       ELSE IF ~userSpec.privileged THEN "panic: unreachable"
                       ELSE IF ~(userSpec.additional_gids \subseteq Inside(map.gid)) THEN "SetGroups"
                       ELSE ""
      <3>1. /\ UNCHANGED <<userSpec, binaries, setgroups, map>> /\ userPc = "groups"
            /\ ids' = IF e = "" THEN [ids EXCEPT !.groups = userSpec.additional_gids] ELSE ids
            /\ Step("become", e)
        BY Zenon, <2>7 DEF set_supplementary_gids
      <3>2. userSpec.privileged \/ userSpec.additional_gids = {}
        BY Zenon, <3>1 DEF UserInv
      <3>3. setgroups # "deny" \/ userSpec.additional_gids = {}
        BY Zenon, <3>2 DEF UserInv
      <3>4. \/ e = "" /\ userSpec.additional_gids \subseteq Inside(map.gid)
            \/ e = "SetGroups"
        <4>1. CASE userSpec.additional_gids = {}
          <5>1. e = ""
            BY Zenon, <4>1
          <5>. QED BY Zenon, <4>1, <5>1
        <4>2. CASE userSpec.additional_gids # {}
          BY Zenon, <4>2, <3>2, <3>3
        <4>. QED BY Zenon, <4>1, <4>2
      <3>. HIDE DEF e
      <3>5. \/ userPc' = "failed" /\ error' = "SetGroups" /\ ids' = ids
            \/ /\ userPc' = "become" /\ error' = error
               /\ ids' = [ids EXCEPT !.groups = userSpec.additional_gids]
               /\ userSpec.additional_gids \subseteq Inside(map.gid)
        BY Zenon, <3>1, <3>4, StepOn
      <3>. QED BY Zenon, <3>1, <3>5 DEF UserInv, NeverUnreachable, OwnIdIsAccepted
    <2>8. CASE BecomeUser
      <3>1. /\ UNCHANGED <<userSpec, binaries, setgroups, map>> /\ userPc = "become"
            /\ DOMAIN ids' = DOMAIN ids /\ ids'.groups = ids.groups
            /\ \/ /\ userSpec.user \in Inside(map.uid) /\ userSpec.group \in Inside(map.gid)
                  /\ ids'.uid = userSpec.user /\ ids'.gid = userSpec.group
                  /\ userPc' = "running" /\ error' = error
               \/ userPc' = "failed" /\ error' = "SetId"
        BY Zenon, <2>8, IdsSet DEF BecomeUser
      <3>. QED BY Zenon, <3>1 DEF UserInv, NeverUnreachable, OwnIdIsAccepted
    <2>9. CASE UsernsStopped \/ UNCHANGED userVars
      BY Zenon, <2>9 DEF UsernsStopped, userVars, UserInv, NeverUnreachable, OwnIdIsAccepted
    <2>. QED BY Zenon, <2>1, <2>2, <2>3, <2>4, <2>5, <2>6, <2>7, <2>8, <2>9 DEF UsernsNext
  <1>3. UserInv => IdsAsAsked
    <2>. SUFFICES ASSUME UserInv PROVE IdsAsAsked
      BY Zenon
    <2>1. RunsAsAsked
      BY Zenon DEF UserInv, RunsAsAsked, PastRoot
    <2>. QED BY Zenon, <2>1 DEF UserInv, IdsAsAsked
  <1>. QED BY <1>1, <1>2, <1>3, PTL DEF UsernsSpec
=============================================================================
