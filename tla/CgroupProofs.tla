---------------------------- MODULE CgroupProofs ----------------------------
(***************************************************************************)
(* The managers of cgroups other than the one of cgroup v1, for every set  *)
(* of commands, cgroup paths and limits of the loops: a pause is whole     *)
(* (Freezer), a removal takes exactly the cgroup it was asked for, and     *)
(* controllers reach the cgroup whose limits are to be set (CgroupV2);     *)
(* what the systemd manager reports is done (SystemdManager), with timely  *)
(* and with late replies.                                                  *)
(*                                                                         *)
(* The argument for systemd: replies carry no checked serial, so a claim   *)
(* about what a reply means needs that at most one call is outstanding     *)
(* (Dialogue).  That holds until add_task goes on after a GetUnit that     *)
(* timed out (Astray); from there on nothing is concluded from a reply,    *)
(* only from what wait_for_process_in_cgroup() sees.  What an answer tells *)
(* when it is written (Tells) must still be true when it is read, whatever *)
(* jobs run in between.                                                    *)
(***************************************************************************)
EXTENDS CgroupV2, Freezer, SystemdManager, SequenceTheorems, TLAPS

CONSTANT Names  \* what a component of a cgroup path may be

-----------------------------------------------------------------------------
(* The freezers. *)

\* What a pause has established when.
PauseInv ==
    /\ frPc = "frozen" \/ frResult = "ok" \/ status = "Paused" => seen
    /\ frResult = "error" => frPc = "failed"
    /\ version = 1 /\ frPc = "failed" /\ present => ~requested

\* pause() of either freezer reports Paused only after it has seen the kernel
\* report every task frozen, and a v1 pause that failed has asked for the thaw.
THEOREM PauseWhole == FreezerSpec => []PauseIsWhole
PROOF
  <1>1. FreezerInit => PauseInv
    BY Zenon DEF FreezerInit, PauseInv
  <1>2. PauseInv /\ [FreezerNext]_frVars => PauseInv'
    <2>. SUFFICES ASSUME PauseInv, [FreezerNext]_frVars PROVE PauseInv'
      BY Zenon
    <2>. USE DEF PauseInv
    <2>1. CASE Pause \/ PauseReturns BY <2>1 DEF Pause, PauseReturns
    <2>2. CASE ThawFirst \/ WriteFrozen BY Zenon, <2>2 DEF ThawFirst, WriteFrozen, Written, Fails
    <2>3. CASE ReadV1 BY Zenon, <2>3 DEF ReadV1, Fails
    <2>4. CASE ReadV2Requested BY Zenon, <2>4 DEF ReadV2Requested, Fails
    <2>5. CASE WaitFrozen BY Zenon, <2>5 DEF WaitFrozen, Fails
    <2>6. CASE ThawBack BY Zenon, <2>6 DEF ThawBack, Written
    <2>7. CASE Resume \/ ThawedByOther BY Zenon, <2>7 DEF Resume, ThawedByOther, Written
    <2>8. CASE KernelFreezes \/ Vanish BY Zenon, <2>8 DEF KernelFreezes, Vanish
    <2>9. CASE FreezerTerminated \/ UNCHANGED frVars BY <2>9 DEF FreezerTerminated, frVars
    <2>. QED BY Zenon, <2>1, <2>2, <2>3, <2>4, <2>5, <2>6, <2>7, <2>8, <2>9 DEF FreezerNext, PauseSteps
  <1>3. PauseInv => PauseIsWhole
    BY Zenon DEF PauseInv, PauseIsWhole, PausedWasFrozen, FailedPauseThaws
  <1>. QED BY <1>1, <1>2, <1>3, PTL DEF FreezerSpec

-----------------------------------------------------------------------------
(* Paths of cgroups. *)

\* The first k levels of a command's cgroup.
To(j, k) == SubSeq(j.path, 1, k)

\* Commands have a cgroup below the root of the hierarchy.
Cgroups == Inner \subseteq Names /\ \A j \in Jobs : j.path \in Seq(Names) \ {<<>>}

\* The first levels of a path are a path.
LEMMA PrefixOf ==
    ASSUME NEW d \in Seq(Names), NEW k \in 0..Len(d)
    PROVE  /\ SubSeq(d, 1, k) \in Seq(Names)
           /\ Len(SubSeq(d, 1, k)) = k
           /\ \A i \in 1..k : SubSeq(d, 1, k)[i] = d[i]
PROOF
  <1>1. \A i \in 1..k : d[i] \in Names
    BY ElementOfSeq, LenProperties
  <1>. QED BY <1>1, SubSeqProperties, LenProperties

\* The first levels of the first levels of a path.
LEMMA PrefixOfPrefix ==
    ASSUME NEW d \in Seq(Names), NEW k \in 0..Len(d), NEW i \in 0..k
    PROVE  SubSeq(SubSeq(d, 1, k), 1, i) = SubSeq(d, 1, i)
PROOF
  <1>1. i \in 0..Len(d)
    BY LenProperties
  <1>2. SubSeq(d, 1, k) \in Seq(Names) /\ Len(SubSeq(d, 1, k)) = k
    BY Zenon, PrefixOf
  <1>. QED BY <1>1, <1>2, PrefixOf, SeqEqual

\* A cgroup made below a path has the same levels above it.
LEMMA PrefixOfAppend ==
    ASSUME NEW d \in Seq(Names), NEW n \in Names, NEW k \in 0..Len(d)
    PROVE  SubSeq(Append(d, n), 1, k) = SubSeq(d, 1, k)
PROOF
  <1>1. /\ Append(d, n) \in Seq(Names) /\ k \in 0..Len(Append(d, n))
        /\ \A i \in 1..k : Append(d, n)[i] = d[i]
    BY AppendProperties, LenProperties
  <1>. QED BY <1>1, PrefixOf, SeqEqual

\* Where no cgroup is called x, no path is <<x>>.
LEMMA StrangeName ==
    ASSUME NEW d \in Seq(Names), NEW x, x \notin Names
    PROVE  d # <<x>>
PROOF
  <1>1. Len(<<x>>) = 1 /\ <<x>>[1] = x
    BY Zenon
  <1>. QED BY <1>1, ElementOfSeq

\* create_unified_cgroup() walks the levels of the path one by one, each the
\* parent of the next, from the root to the cgroup of the command.
LEMMA PathPrefix ==
    ASSUME Cgroups, NEW j \in Jobs
    PROVE  /\ Len(j.path) \in Nat \ {0}
           /\ \A k \in 0..Len(j.path) : To(j, k) \in Seq(Names) /\ Len(To(j, k)) = k
           /\ \A k \in 0..Len(j.path) : \A i \in 0..k : SubSeq(To(j, k), 1, i) = To(j, i)
           /\ \A k \in 1..Len(j.path) : Up(To(j, k)) = To(j, k - 1)
           /\ To(j, 0) = <<>>
           /\ To(j, Len(j.path)) = j.path
PROOF
  <1>1. j.path \in Seq(Names) /\ Len(j.path) \in Nat \ {0}
    BY Zenon, EmptySeq DEF Cgroups
  <1>2. \A k \in 0..Len(j.path) : To(j, k) \in Seq(Names) /\ Len(To(j, k)) = k
    BY Zenon, <1>1, PrefixOf DEF To
  <1>3. \A k \in 0..Len(j.path) : \A i \in 0..k : SubSeq(To(j, k), 1, i) = To(j, i)
    BY Zenon, <1>1, PrefixOfPrefix DEF To
  <1>4. \A k \in 1..Len(j.path) : Up(To(j, k)) = To(j, k - 1)
    <2>. TAKE k \in 1..Len(j.path)
    <2>1. k \in 0..Len(j.path) /\ k - 1 \in 0..k
      BY <1>1
    <2>. QED BY Zenon, <1>2, <1>3, <2>1 DEF Up
  <1>. QED BY <1>1, <1>2, <1>3, <1>4, SubSeqEmpty, SubSeqFull DEF To

-----------------------------------------------------------------------------
(* What remove leaves. *)

\* Where a command is in add_task or remove, and that directories have their parents.
TreeInv ==
    /\ DOMAIN v2Pc = Jobs
    /\ v2Level \in [Jobs -> Nat]
    /\ \A j \in Jobs : v2Pc[j] \in {"remove", "kill", "delete"} => j.kind = "remove"
    /\ \A j \in Jobs : v2Pc[j] \in {"add_task", "enable", "create_dir"} => v2Level[j] < Len(j.path)
    /\ v2Dirs \subseteq Seq(Names)
    /\ \A d \in v2Dirs : \A k \in 0..Len(d) : SubSeq(d, 1, k) \in v2Dirs

\* The root of the hierarchy is there, and nothing below it.
LEMMA TreeInit ==
    ASSUME Cgroups, V2Init
    PROVE  TreeInv
  BY PathPrefix, SubSeqEmpty, EmptySeq DEF V2Init, TreeInv, Root

\* Directories are made below directories, and only a directory without
\* subdirectories is removed, so a directory always has its parents.
LEMMA TreeSteps ==
    ASSUME Cgroups, TreeInv, [V2Next]_v2Vars
    PROVE  TreeInv'
PROOF
  <1>. USE DEF TreeInv, V2Goto, Path
  <1>1. ASSUME NEW j \in Jobs, AddTask(j) \/ EnableControllers(j) \/ AttachPid(j)
                               \/ Apply(j) \/ Remove(j) \/ Kill(j)
        PROVE  TreeInv'
    <2>1. /\ UNCHANGED <<v2Dirs, v2Level>> /\ DOMAIN v2Pc' = Jobs
          /\ \A i \in Jobs \ {j} : v2Pc'[i] = v2Pc[i]
          /\ v2Pc'[j] \in {"remove", "kill", "delete"} => v2Pc[j] \in {"remove", "kill", "delete"}
          /\ v2Pc'[j] \in {"add_task", "enable", "create_dir"}
               => v2Pc[j] \in {"add_task", "enable", "create_dir"}
      <3>1. CASE AddTask(j) BY Zenon, <3>1 DEF AddTask
      <3>2. CASE EnableControllers(j) BY Zenon, <3>2 DEF EnableControllers
      <3>3. CASE AttachPid(j) BY Zenon, <3>3 DEF AttachPid
      <3>4. CASE Apply(j) BY Zenon, <3>4 DEF Apply
      <3>5. CASE Remove(j) BY Zenon, <3>5 DEF Remove
      <3>6. CASE Kill(j) BY Zenon, <3>6 DEF Kill
      <3>. QED BY Zenon, <1>1, <3>1, <3>2, <3>3, <3>4, <3>5, <3>6
    <2>. QED BY Zenon, <2>1
  <1>2. ASSUME NEW j \in Jobs, CreateDir(j)
        PROVE  TreeInv'
    <2>. DEFINE d == To(j, v2Level[j] + 1)
    <2>1. /\ v2Level[j] \in Nat /\ v2Level[j] + 1 \in 1..Len(j.path) /\ v2Level[j] \in 0..Len(j.path)
      BY <1>2, PathPrefix DEF CreateDir
    <2>2. CASE v2Dirs' = v2Dirs
      <3>1. \/ v2Level' = v2Level /\ v2Pc' = [v2Pc EXCEPT ![j] = IF Rootless THEN "left" ELSE "failed"]
            \/ v2Level' = v2Level /\ v2Pc' = [v2Pc EXCEPT ![j] = "failed"]
            \/ /\ v2Level' = [v2Level EXCEPT ![j] = @ + 1]
               /\ v2Pc' = [v2Pc EXCEPT ![j] = IF v2Level[j] + 1 = Len(j.path) THEN "attach" ELSE "enable"]
        BY Zenon, <1>2 DEF CreateDir
      <3>. QED BY <2>1, <2>2, <3>1
    <2>3. CASE v2Dirs' # v2Dirs
      <3>1. /\ v2Dirs' = v2Dirs \cup {d} /\ Up(d) \in v2Dirs
            /\ v2Level' = [v2Level EXCEPT ![j] = @ + 1]
            /\ v2Pc' = [v2Pc EXCEPT ![j] = IF v2Level[j] + 1 = Len(j.path) THEN "attach" ELSE "enable"]
        BY Zenon, <1>2, <2>3 DEF CreateDir, To
      <3>2. Up(d) = To(j, v2Level[j]) /\ d \in Seq(Names) /\ Len(d) = v2Level[j] + 1
        BY <2>1, PathPrefix
      <3>3. \A k \in 0..Len(d) : SubSeq(d, 1, k) \in v2Dirs'
        <4>. TAKE k \in 0..Len(d)
        <4>1. CASE k = Len(d) BY Zenon, <4>1, <3>1, <3>2, SubSeqFull
        <4>2. CASE k < Len(d)
          <5>1. k \in 0..v2Level[j] /\ k \in 0..(v2Level[j] + 1) /\ v2Level[j] + 1 \in 0..Len(j.path)
            BY <4>2, <3>2, <2>1
          <5>2. SubSeq(d, 1, k) = To(j, k) /\ SubSeq(To(j, v2Level[j]), 1, k) = To(j, k)
                /\ Len(To(j, v2Level[j])) = v2Level[j]
            BY Zenon, <5>1, <2>1, PathPrefix
          <5>. QED BY Zenon, <5>1, <5>2, <3>1, <3>2
        <4>. QED BY <4>1, <4>2, <3>2, <2>1
      <3>. QED BY <3>1, <3>2, <3>3, <2>1
    <2>. QED BY Zenon, <2>2, <2>3
  <1>3. ASSUME NEW j \in Jobs, DeleteWithRetry(j)
        PROVE  TreeInv'
    <2>1. CASE v2Dirs' = v2Dirs
      BY Zenon, <1>3, <2>1 DEF DeleteWithRetry
    <2>2. CASE v2Dirs' # v2Dirs
      <3>1. /\ v2Dirs' = v2Dirs \ {j.path} /\ UNCHANGED v2Level
            /\ v2Pc' = [v2Pc EXCEPT ![j] = "removed"]
            /\ \A d \in v2Dirs : d # j.path => ~IsBelow(d, j.path)
        BY Zenon, <1>3, <2>2 DEF DeleteWithRetry, MayRemove
      <3>2. ASSUME NEW d \in v2Dirs', NEW k \in 0..Len(d)
            PROVE  SubSeq(d, 1, k) # j.path
        <4>1. d \in Seq(Names) /\ Len(d) \in Nat
          BY <3>1
        <4>2. Len(SubSeq(d, 1, k)) = k
          BY Zenon, <4>1, PrefixOf
        <4>3. SUFFICES ASSUME SubSeq(d, 1, k) = j.path PROVE FALSE
          BY Zenon
        <4>4. Len(j.path) = k /\ Len(d) >= k
          BY <4>1, <4>2, <4>3
        <4>5. IsBelow(d, j.path)
          BY Zenon, <4>3, <4>4 DEF IsBelow
        <4>. QED BY Zenon, <3>1, <4>5
      <3>. QED BY Zenon, <3>1, <3>2
    <2>. QED BY Zenon, <2>1, <2>2
  <1>4. ASSUME NEW p \in Processes, NEW n \in Inner, Nest(p, n)
        PROVE  TreeInv'
    <2>. DEFINE d == Append(place[p], n)
    <2>1. /\ v2Dirs' = v2Dirs \cup {d} /\ place[p] \in v2Dirs /\ UNCHANGED <<v2Pc, v2Level>>
      BY Zenon, <1>4 DEF Nest, Alive, jobVars
    <2>2. /\ place[p] \in Seq(Names) /\ n \in Names /\ d \in Seq(Names)
          /\ Len(place[p]) \in Nat /\ Len(d) = Len(place[p]) + 1
      BY <2>1, AppendProperties, LenProperties DEF Cgroups
    <2>3. \A k \in 0..Len(d) : SubSeq(d, 1, k) \in v2Dirs'
      <3>. TAKE k \in 0..Len(d)
      <3>1. CASE k = Len(d) BY Zenon, <3>1, <2>1, <2>2, SubSeqFull
      <3>2. CASE k < Len(d)
        <4>1. k \in 0..Len(place[p]) BY <3>2, <2>2
        <4>. QED BY Zenon, <4>1, <2>1, <2>2, PrefixOfAppend
      <3>. QED BY <3>1, <3>2, <2>2
    <2>. QED BY Zenon, <2>1, <2>2, <2>3
  <1>5. ASSUME NEW p \in Processes, Exit(p)
        PROVE  TreeInv'
    BY Zenon, <1>5 DEF Exit, jobVars
  <1>6. ASSUME NEW p \in Processes, NEW c \in Children, Fork(p, c)
        PROVE  TreeInv'
    BY Zenon, <1>6 DEF Fork, jobVars
  <1>7. CASE V2Terminated \/ UNCHANGED v2Vars
    BY Zenon, <1>7 DEF V2Terminated, v2Vars, jobVars
  <1>. QED BY Zenon, <1>1, <1>2, <1>3, <1>4, <1>5, <1>6, <1>7 DEF V2Next, Command

\* A directory below a command's cgroup is there only with that cgroup.
LEMMA BelowIsInside ==
    ASSUME Cgroups, TreeInv, NEW j \in Jobs, NEW d \in v2Dirs, IsBelow(d, j.path)
    PROVE  j.path \in v2Dirs
PROOF
  <1>1. Len(j.path) \in 0..Len(d)
    BY PathPrefix, LenProperties DEF TreeInv, IsBelow
  <1>. QED BY Zenon, <1>1 DEF TreeInv, IsBelow

\* Processes come and go, and the model's set of them stays.
LEMMA PlaceSteps ==
    ASSUME DOMAIN place = Processes, [V2Next]_v2Vars
    PROVE  DOMAIN place' = Processes
PROOF
  <1>1. ASSUME NEW j \in Jobs, Command(j)
        PROVE  DOMAIN place' = DOMAIN place
    BY Zenon, <1>1 DEF Command, AddTask, EnableControllers, CreateDir, AttachPid, Apply, Remove, Kill,
                DeleteWithRetry
  <1>2. ~(\E j \in Jobs : Command(j)) => DOMAIN place' = DOMAIN place
    BY Zenon DEF V2Next, Exit, Fork, Nest, V2Terminated, v2Vars
  <1>. QED BY Zenon, <1>1, <1>2

\* delete_with_retry(): rmdir succeeds only on a cgroup without processes and
\* without subdirectories, and remove() passes its own path to it.
LEMMA RemovalStep ==
    ASSUME Cgroups, TreeInv, DOMAIN place = Processes, [V2Next]_v2Vars
    PROVE  RemovalEmpties /\ TakesOwnCgroup
PROOF
  <1>. USE DEF V2Goto, Path
  <1>1. ASSUME NEW j \in Jobs, Command(j)
        PROVE  /\ \A i \in Jobs \ {j} : v2Pc'[i] = v2Pc[i]
               /\ v2Pc[j] # "removed" /\ v2Pc'[j] = "removed" =>
                    \A p \in Processes : place'[p] \notin v2Dirs' \/ ~IsBelow(place'[p], j.path)
               /\ \A d \in v2Dirs \ v2Dirs' : j.kind = "remove" /\ d = j.path /\ v2Pc[j] = "delete"
    <2>. USE DEF TreeInv
    <2>1. CASE AddTask(j) BY Zenon, <2>1 DEF AddTask
    <2>2. CASE EnableControllers(j) BY Zenon, <2>2 DEF EnableControllers
    <2>3. CASE AttachPid(j) BY Zenon, <2>3 DEF AttachPid
    <2>4. CASE Apply(j) BY Zenon, <2>4 DEF Apply
    <2>5. CASE Remove(j) BY Zenon, <2>5, BelowIsInside DEF Remove
    <2>6. CASE Kill(j) BY Zenon, <2>6 DEF Kill
    <2>7. CASE CreateDir(j) BY Zenon, <2>7 DEF CreateDir
    <2>8. CASE DeleteWithRetry(j)
      BY Zenon, <2>8 DEF DeleteWithRetry, MayRemove, Procs
    <2>. QED BY Zenon, <1>1, <2>1, <2>2, <2>3, <2>4, <2>5, <2>6, <2>7, <2>8 DEF Command
  <1>2. CASE \E j \in Jobs : Command(j)
    BY Zenon, <1>1, <1>2 DEF RemovalEmpties, TakesOwnCgroup, TreeInv
  <1>3. CASE v2Pc' = v2Pc /\ v2Dirs \subseteq v2Dirs'
    BY Zenon, <1>3 DEF RemovalEmpties, TakesOwnCgroup
  <1>4. ~(\E j \in Jobs : Command(j)) => v2Pc' = v2Pc /\ v2Dirs \subseteq v2Dirs'
    BY Zenon DEF V2Next, Exit, Fork, Nest, V2Terminated, v2Vars, jobVars
  <1>. QED BY Zenon, <1>2, <1>3, <1>4

\* remove() says Ok only once no process is left in the cgroup or below it, and
\* no command takes away a directory but the cgroup it was asked to remove.
THEOREM RemovalIsExact ==
    ASSUME Cgroups
    PROVE  V2Spec => RemovesExactly
PROOF
  <1>. DEFINE Inv == TreeInv /\ DOMAIN place = Processes
  <1>1. V2Init => Inv
    BY Zenon, TreeInit DEF V2Init
  <1>2. Inv /\ [V2Next]_v2Vars => Inv'
    <2>1. Processes' = Processes
      BY Zenon DEF Processes
    <2>. QED BY Zenon, TreeSteps, PlaceSteps, <2>1
  <1>3. Inv /\ [V2Next]_v2Vars => RemovalEmpties /\ TakesOwnCgroup
    BY Zenon, RemovalStep
  <1>. QED BY <1>1, <1>2, <1>3, PTL DEF V2Spec, RemovesExactly

-----------------------------------------------------------------------------
(* What add_task hands down. *)

\* No command's cgroup lies above another's: the kernel would not let processes live
\* in a cgroup that hands controllers down.
Unnested ==
    /\ \A i, j \in Jobs : \A k \in 0..(Len(j.path) - 1) : i.path # To(j, k)
    /\ {"(outside)", "(dead)"} \cap Names = {}

\* Some command removes the cgroup of j.
RemoverOf(j) == \E r \in Jobs : r.kind = "remove" /\ r.path = j.path

\* Levels above the containers hold no process and are never taken away.
AboveInv ==
    /\ DOMAIN place = Processes
    /\ \A j \in Jobs : v2Pc[j] \in {"add_task", "enable", "create_dir"} => To(j, v2Level[j]) \in v2Dirs
    /\ \A j \in Jobs : \A k \in 0..(Len(j.path) - 1) : \A p \in Processes : place[p] # To(j, k)

\* A level that exists was made after the one above it had handed everything down.
HandedDown ==
    /\ DOMAIN subtree = AllDirs
    /\ readonly = {} =>
        /\ \A j \in Jobs : \A k \in 1..Len(j.path) :
              To(j, k) \in v2Dirs => Available \subseteq subtree[To(j, k - 1)]
        /\ \A j \in Jobs : v2Pc[j] = "create_dir" => Available \subseteq subtree[To(j, v2Level[j])]
        /\ \A j \in Jobs : v2Pc[j] = "unlimited" => RemoverOf(j)
    /\ \A j \in Jobs : v2Pc[j] = "apply" => j.path \in v2Dirs \/ RemoverOf(j)

\* A cgroup made inside a container is not on the way to another container.
LEMMA InnerIsOffPath ==
    ASSUME Cgroups, Unnested, NEW i \in Jobs, NEW n \in Inner, NEW j \in Jobs,
           NEW k \in 0..Len(j.path)
    PROVE  Append(i.path, n) # To(j, k)
PROOF
  <1>. SUFFICES ASSUME Append(i.path, n) = To(j, k) PROVE FALSE
    BY Zenon
  <1>1. i.path \in Seq(Names) /\ n \in Names /\ Len(i.path) \in Nat
    BY Zenon, LenProperties DEF Cgroups
  <1>2. Len(i.path) + 1 = k /\ Len(j.path) \in Nat
    BY <1>1, AppendProperties, PathPrefix
  <1>3. Len(i.path) \in 0..Len(i.path) /\ Len(i.path) \in 0..k /\ Len(i.path) \in 0..(Len(j.path) - 1)
    BY <1>1, <1>2
  <1>4. SubSeq(Append(i.path, n), 1, Len(i.path)) = i.path
    BY Zenon, <1>1, <1>3, PrefixOfAppend, SubSeqFull
  <1>5. SubSeq(To(j, k), 1, Len(i.path)) = To(j, Len(i.path))
    BY Zenon, <1>3, PathPrefix
  <1>. QED BY Zenon, <1>3, <1>4, <1>5 DEF Unnested

\* add_task() puts processes only in the cgroup at the end of its path, and
\* remove() takes only that one away.
LEMMA AboveSteps ==
    ASSUME Cgroups, Unnested, TreeInv, AboveInv, [V2Next]_v2Vars
    PROVE  AboveInv'
PROOF
  <1>. USE DEF AboveInv, V2Goto, Path
  <1>1. ASSUME NEW j \in Jobs, Command(j)
        PROVE  AboveInv'
    <2>1. CASE AddTask(j) BY Zenon, <2>1 DEF AddTask, TreeInv
    <2>2. CASE EnableControllers(j) BY Zenon, <2>2 DEF EnableControllers, TreeInv
    <2>3. CASE AttachPid(j)
      <3>1. /\ UNCHANGED <<v2Dirs, v2Level>>
            /\ \A i \in Jobs : v2Pc'[i] \in {"add_task", "enable", "create_dir"} => v2Pc'[i] = v2Pc[i]
            /\ place' = place \/ place' = [place EXCEPT ![j] = j.path]
        BY Zenon, <2>3 DEF AttachPid, TreeInv
      <3>. QED BY <3>1 DEF Unnested
    <2>4. CASE Apply(j) BY Zenon, <2>4 DEF Apply, TreeInv
    <2>5. CASE Remove(j) BY <2>5 DEF Remove, TreeInv
    <2>6. CASE Kill(j) BY Zenon, <2>6 DEF Kill, TreeInv
    <2>7. CASE CreateDir(j)
      <3>1. /\ v2Dirs \subseteq v2Dirs' /\ UNCHANGED place
            /\ \A i \in Jobs \ {j} : v2Pc'[i] = v2Pc[i] /\ v2Level'[i] = v2Level[i]
            /\ v2Pc'[j] \in {"add_task", "enable", "create_dir"} => To(j, v2Level'[j]) \in v2Dirs'
        BY Zenon, <2>7 DEF CreateDir, TreeInv, To
      <3>. QED BY Zenon, <3>1
    <2>8. CASE DeleteWithRetry(j)
      <3>1. /\ v2Dirs \ {j.path} \subseteq v2Dirs' /\ UNCHANGED <<place, v2Level>>
            /\ \A i \in Jobs : v2Pc'[i] \in {"add_task", "enable", "create_dir"} => v2Pc'[i] = v2Pc[i]
        BY Zenon, <2>8 DEF DeleteWithRetry, TreeInv
      <3>2. \A i \in Jobs : v2Pc[i] \in {"add_task", "enable", "create_dir"} =>
              v2Level[i] \in 0..(Len(i.path) - 1)
        BY PathPrefix DEF TreeInv
      <3>. QED BY Zenon, <3>1, <3>2 DEF Unnested
    <2>. QED BY Zenon, <1>1, <2>1, <2>2, <2>3, <2>4, <2>5, <2>6, <2>7, <2>8 DEF Command
  <1>2. ASSUME NEW p \in Processes, NEW n \in Inner, Nest(p, n)
        PROVE  AboveInv'
    <2>1. PICK i \in Jobs : place[p] = i.path
      BY Zenon, <1>2 DEF Nest
    <2>2. /\ v2Dirs \subseteq v2Dirs' /\ UNCHANGED <<v2Pc, v2Level>>
          /\ place' = [place EXCEPT ![p] = Append(i.path, n)]
      BY Zenon, <1>2, <2>1 DEF Nest, jobVars
    <2>3. \A j \in Jobs : \A k \in 0..(Len(j.path) - 1) : k \in 0..Len(j.path)
      BY PathPrefix
    <2>. QED BY Zenon, <2>2, <2>3, InnerIsOffPath
  <1>3. ASSUME NEW p \in Processes, Exit(p)
        PROVE  AboveInv'
    <2>1. \A j \in Jobs : \A k \in 0..(Len(j.path) - 1) : To(j, k) # Dead
      <3>. TAKE j \in Jobs
      <3>. TAKE k \in 0..(Len(j.path) - 1)
      <3>1. To(j, k) \in Seq(Names)
        BY PathPrefix
      <3>. QED BY Zenon, <3>1, StrangeName DEF Dead, Unnested
    <2>. QED BY Zenon, <1>3, <2>1 DEF Exit, jobVars
  <1>4. ASSUME NEW p \in Processes, NEW c \in Children, Fork(p, c)
        PROVE  AboveInv'
    BY Zenon, <1>4 DEF Fork, jobVars
  <1>5. CASE V2Terminated \/ UNCHANGED v2Vars
    BY Zenon, <1>5 DEF V2Terminated, v2Vars, jobVars
  <1>. QED BY Zenon, <1>1, <1>2, <1>3, <1>4, <1>5 DEF V2Next

\* create_unified_cgroup() enables the controllers of a level before it makes
\* the next one, and nobody disables them again.
LEMMA HandedDownSteps ==
    ASSUME Cgroups, Unnested, Needed \subseteq Available,
           TreeInv, AboveInv, HandedDown, [V2Next]_v2Vars
    PROVE  HandedDown'
PROOF
  <1>. USE DEF HandedDown, V2Goto, Path
  <1>a. \A j \in Jobs : \A k \in 0..Len(j.path) : To(j, k) \in AllDirs
    BY SMTT(30) DEF AllDirs, To, Path
  <1>b. \A j \in Jobs : Len(j.path) \in Nat \ {0}
    BY Zenon, PathPrefix
  <1>1. ASSUME NEW j \in Jobs, AddTask(j)
        PROVE  HandedDown'
    BY Zenon, <1>1 DEF AddTask, TreeInv, RemoverOf
  <1>2. ASSUME NEW j \in Jobs, EnableControllers(j)
        PROVE  HandedDown'
    <2>. DEFINE d == To(j, v2Level[j])
    <2>1. v2Level[j] \in 0..(Len(j.path) - 1) /\ d \in v2Dirs /\ d \in AllDirs
      BY <1>2, <1>a, <1>b DEF EnableControllers, TreeInv, AboveInv
    <2>2. /\ subtree' = [subtree EXCEPT ![d] = EnabledAfter(d, Available)]
          /\ v2Pc' = [v2Pc EXCEPT ![j] = "create_dir"]
          /\ UNCHANGED <<v2Level, v2Dirs, readonly>>
      BY Zenon, <1>2, <2>1 DEF EnableControllers, To
    <2>3. subtree[d] \subseteq EnabledAfter(d, Available)
      BY Zenon DEF EnabledAfter
    <2>4. readonly = {} => Available \subseteq EnabledAfter(d, Available)
      <3>. SUFFICES ASSUME readonly = {} PROVE Available \subseteq EnabledAfter(d, Available)
        BY Zenon
      <3>1. Procs(d) = {}
        BY Zenon, <2>1 DEF Procs, AboveInv
      <3>2. Available \subseteq AvailableAt(d)
        <4>1. CASE v2Level[j] = 0
          BY Zenon, <4>1, PathPrefix DEF AvailableAt, Root
        <4>2. CASE v2Level[j] # 0
          <5>1. v2Level[j] \in 1..Len(j.path)
            BY <4>2, <2>1, <1>b
          <5>2. Up(d) = To(j, v2Level[j] - 1)
            BY Zenon, <5>1, PathPrefix
          <5>. QED BY Zenon, <5>1, <5>2, <2>1 DEF AvailableAt
        <4>. QED BY Zenon, <4>1, <4>2
      <3>. QED BY Zenon, <3>1, <3>2 DEF EnabledAfter
    <2>5. DOMAIN subtree' = AllDirs /\ \A e \in AllDirs : subtree[e] \subseteq subtree'[e]
      BY Zenon, <2>2, <2>3
    <2>6. readonly = {} => Available \subseteq subtree'[d]
      BY Zenon, <2>1, <2>2, <2>4
    <2>7. \A i \in Jobs : \A k \in 1..Len(i.path) : To(i, k - 1) \in AllDirs
      BY <1>a, <1>b
    <2>8. \A i \in Jobs : v2Pc[i] = "create_dir" => To(i, v2Level[i]) \in AllDirs
      BY <1>a, <1>b DEF TreeInv
    <2>. QED BY Zenon, <2>2, <2>5, <2>6, <2>7, <2>8 DEF TreeInv, RemoverOf
  <1>3. ASSUME NEW j \in Jobs, CreateDir(j)
        PROVE  HandedDown'
    <2>. DEFINE d == To(j, v2Level[j] + 1)
    <2>1. v2Level[j] + 1 \in 1..Len(j.path)
      BY <1>3, <1>b DEF CreateDir, TreeInv
    <2>2. /\ UNCHANGED <<subtree, readonly>>
          /\ \A i \in Jobs \ {j} : v2Pc'[i] = v2Pc[i] /\ v2Level'[i] = v2Level[i]
          /\ v2Pc'[j] \notin {"create_dir", "unlimited", "apply"}
          /\ v2Dirs' = v2Dirs \/ v2Dirs' = v2Dirs \cup {d}
          /\ v2Pc[j] = "create_dir"
      BY Zenon, <1>3 DEF CreateDir, TreeInv, To
    <2>3. ASSUME readonly = {}, NEW i \in Jobs, NEW k \in 1..Len(i.path), To(i, k) = d
          PROVE  Available \subseteq subtree[To(i, k - 1)]
      <3>1. k = v2Level[j] + 1
        BY <2>1, <2>3, <1>b, PathPrefix
      <3>2. Up(To(i, k)) = To(i, k - 1) /\ Up(d) = To(j, k - 1)
        BY Zenon, <2>1, <3>1, PathPrefix
      <3>3. To(i, k - 1) = To(j, v2Level[j])
        BY <2>1, <2>3, <3>1, <3>2 DEF TreeInv
      <3>. QED BY Zenon, <2>2, <2>3, <3>3
    <2>. QED BY Zenon, <2>2, <2>3 DEF RemoverOf
  <1>4. ASSUME NEW j \in Jobs, AttachPid(j)
        PROVE  HandedDown'
    BY <1>4 DEF AttachPid, MayEnter, TreeInv, RemoverOf
  <1>5. ASSUME NEW j \in Jobs, Apply(j)
        PROVE  HandedDown'
    <2>1. readonly = {} /\ j.path \in v2Dirs => Needed \subseteq AvailableAt(j.path)
      <3>1. To(j, Len(j.path)) = j.path /\ j.path # <<>> /\ Len(j.path) \in 1..Len(j.path)
        BY SMTT(30), <1>b, PathPrefix DEF Cgroups
      <3>2. Up(j.path) = To(j, Len(j.path) - 1)
        BY Zenon, <3>1, PathPrefix
      <3>. QED BY Zenon, <3>1, <3>2 DEF AvailableAt, Root
    <2>2. /\ UNCHANGED <<v2Dirs, v2Level, subtree, readonly>> /\ v2Pc[j] = "apply"
          /\ \A i \in Jobs \ {j} : v2Pc'[i] = v2Pc[i]
          /\ v2Pc'[j] \in {"done", "unlimited"}
          /\ v2Pc'[j] = "unlimited" /\ readonly = {} => j.path \notin v2Dirs
      BY Zenon, <1>5, <2>1 DEF Apply, TreeInv
    <2>. QED BY Zenon, <2>2 DEF RemoverOf
  <1>6. ASSUME NEW j \in Jobs, Remove(j) \/ Kill(j)
        PROVE  HandedDown'
    BY SMTT(30), <1>6 DEF Remove, Kill, TreeInv, RemoverOf
  <1>7. ASSUME NEW j \in Jobs, DeleteWithRetry(j)
        PROVE  HandedDown'
    <2>1. /\ v2Dirs' \subseteq v2Dirs /\ v2Dirs \ {j.path} \subseteq v2Dirs' /\ j.kind = "remove"
          /\ UNCHANGED <<v2Level, subtree, readonly>>
          /\ \A i \in Jobs : v2Pc'[i] \in {"create_dir", "unlimited", "apply"} => v2Pc'[i] = v2Pc[i]
      BY Zenon, <1>7 DEF DeleteWithRetry, TreeInv
    <2>. QED BY Zenon, <2>1 DEF RemoverOf
  <1>8. ASSUME NEW p \in Processes, NEW n \in Inner, Nest(p, n)
        PROVE  HandedDown'
    <2>1. PICK i \in Jobs : place[p] = i.path
      BY Zenon, <1>8 DEF Nest
    <2>2. /\ v2Dirs' = v2Dirs \cup {Append(i.path, n)} /\ UNCHANGED <<v2Pc, v2Level, subtree, readonly>>
      BY Zenon, <1>8, <2>1 DEF Nest, jobVars
    <2>3. \A j \in Jobs : \A k \in 1..Len(j.path) : Append(i.path, n) # To(j, k)
      BY SMTT(30), <1>b, InnerIsOffPath
    <2>. QED BY Zenon, <2>2, <2>3 DEF RemoverOf
  <1>9. ASSUME v2Pc' = v2Pc, UNCHANGED <<v2Level, v2Dirs, subtree, readonly>>
        PROVE  HandedDown'
    BY Zenon, <1>9 DEF RemoverOf
  <1>10. CASE V2Terminated \/ UNCHANGED v2Vars
    BY Zenon, <1>9, <1>10 DEF V2Terminated, v2Vars, jobVars
  <1>11. ASSUME NEW p \in Processes, Exit(p) \/ \E c \in Children : Fork(p, c)
         PROVE  HandedDown'
    BY Zenon, <1>9, <1>11 DEF Exit, Fork, jobVars
  <1>. QED BY Zenon, <1>1, <1>2, <1>3, <1>4, <1>5, <1>6, <1>7, <1>8, <1>10, <1>11
           DEF V2Next, Command

\* Every controller of the root reaches the cgroup of a container by the time
\* its limits are written, unless permissions forbid it or the cgroup is being
\* removed; for containers none of which lies above another.
THEOREM LimitsFindTheirFiles ==
    ASSUME Cgroups, Unnested, Needed \subseteq Available
    PROVE  V2Spec => []ControllersReachTheLeaf
PROOF
  <1>. DEFINE Inv == TreeInv /\ AboveInv /\ HandedDown
  <1>1. V2Init => Inv
    <2>. SUFFICES ASSUME V2Init PROVE Inv
      BY Zenon
    <2>1. TreeInv
      BY Zenon, TreeInit
    <2>2. AboveInv
      <3>1. \A j \in Jobs : \A k \in 0..(Len(j.path) - 1) : To(j, k) # Outside
        <4>. TAKE j \in Jobs
        <4>. TAKE k \in 0..(Len(j.path) - 1)
        <4>1. To(j, k) \in Seq(Names)
          BY PathPrefix
        <4>. QED BY Zenon, <4>1, StrangeName DEF Outside, Unnested
      <3>. QED BY Zenon, <3>1, PathPrefix DEF AboveInv, V2Init, Root
    <2>3. HandedDown
      <3>1. \A j \in Jobs : \A k \in 1..Len(j.path) : To(j, k) # <<>>
        BY PathPrefix, EmptySeq
      <3>. QED BY Zenon, <3>1 DEF HandedDown, V2Init, Root
    <2>. QED BY Zenon, <2>1, <2>2, <2>3
  <1>2. Inv /\ [V2Next]_v2Vars => Inv'
    BY Zenon, TreeSteps, AboveSteps, HandedDownSteps
  <1>3. Inv => ControllersReachTheLeaf
    BY Zenon DEF TreeInv, HandedDown, ControllersReachTheLeaf, RemoverOf
  <1>. QED BY <1>1, <1>2, <1>3, PTL DEF V2Spec

-----------------------------------------------------------------------------
(* One call at a time. *)

\* Nothing is under way on the socket.
Silent == queue = <<>> /\ inbox = <<>>

\* What the answer r to a call of m tells, from when it is written until it is read.
Tells(m, r) ==
    /\ m = "AttachProcessesToUnit" /\ r.ok => "self" \in joined /\ (disturbances = 0 => unit = "active")
    /\ m = "GetUnit" /\ ~r.ok /\ sdPc = "remove.exists" => unit = "none"
    /\ m = "StopUnit" /\ r.ok => stopped

\* The call of m is sent, and nothing else is under way; or answered.
Asked(m) == queue = <<[serial |-> serial, member |-> m]>> /\ inbox = <<>>

Answered(m) ==
    /\ queue = <<>>
    /\ \E ok \in BOOLEAN :
         inbox = <<[serial |-> serial, ok |-> ok, signature |-> ReplySignature(m)]>>
    /\ Tells(m, inbox[1])

Waiting(m) == Asked(m) \/ Answered(m)

\* A call sent while nothing is under way on the socket is the only one there.
LEMMA CallOnSilence ==
    ASSUME Silent, NEW m, Call(m)
    PROVE  Asked(m)'
  BY SMTT(30) DEF Silent, Call, Asked

\* method_call(): while only the call just made is under way, the message taken
\* is its answer, and is taken for a success exactly if systemd meant one;
\* recv() may also have timed out, and then nothing has changed.
LEMMA TakeAnswer ==
    ASSUME NEW m \in Members, Waiting(m), NEW out, NEW may, Receive(m, out, may)
    PROVE  \/ /\ Silent' /\ queue = <<>> /\ serial' = serial /\ (tookOwn => tookOwn')
              /\ out = IF inbox[1].ok THEN "ok" ELSE "error"
              /\ Tells(m, inbox[1])
           \/ /\ may /\ out = "EAGAIN" /\ UNCHANGED <<serial, queue, inbox, tookOwn>>
PROOF
  <1>1. CASE inbox = <<>>
    BY Zenon, <1>1 DEF Receive, conn
  <1>2. CASE inbox # <<>>
    <2>1. Answered(m)
      BY Zenon, <1>2 DEF Waiting, Asked
    <2>2. PICK ok \in BOOLEAN :
            inbox = <<[serial |-> serial, ok |-> ok, signature |-> ReplySignature(m)]>>
      BY Zenon, <2>1 DEF Answered
    <2>3. /\ Head(inbox) = inbox[1] /\ Tail(inbox) = <<>>
          /\ inbox[1].serial = serial /\ inbox[1].ok = ok
          /\ inbox[1].signature = ReplySignature(m)
      BY SMTT(30), <2>2
    <2>4. Accept(m, inbox[1]) = IF inbox[1].ok THEN "ok" ELSE "error"
      BY Zenon, <2>3 DEF Accept, Expected, ReplySignature, Members
    <2>. QED BY Zenon, <1>2, <2>1, <2>3, <2>4 DEF Receive, Answered, Silent
  <1>. QED BY Zenon, <1>1, <1>2

-----------------------------------------------------------------------------
(* What the manager is asked to do, and how far it is. *)

NewPcs == {"connect", "connected", "root"}
AddPcs == {"add.exists", "add.attach", "add.attached", "add.start", "add.started", "add.wait"}
ApplyPcs == {"apply.version", "apply.attach", "apply.set", "apply.applied"}
RemovePcs == {"remove.exists", "remove.stop", "remove.stopped"}
EndPcs == {"done", "failed"}
Ops == {"add_task", "apply", "remove"}

\* youki create and exec add a process and may set limits, update sets limits, delete removes.
YoukiPrograms ==
    \A p \in Programs :
        /\ p.ops \in {<<"add_task">>, <<"add_task", "apply">>, <<"apply">>, <<"remove">>}
        /\ p.parent \in Seq(STRING) /\ p.sub \in Seq(Seq(STRING))

Adding == sdTodo = <<"add_task">> \/ sdTodo = <<"add_task", "apply">>
Applying == sdTodo = <<"apply">>

\* Which operation the manager is at, and which have returned.
Course ==
    /\ parent \in Seq(STRING) /\ sub \in Seq(Seq(STRING)) /\ disturbances \in Nat
    /\ DOMAIN outcome = Ops
    /\ Adding \/ Applying \/ sdTodo = <<"remove">> \/ sdTodo = <<>>
    /\ sdPc \in NewPcs \cup {"ready"} \cup EndPcs \cup AddPcs \cup ApplyPcs \cup RemovePcs
    /\ sdPc \in AddPcs => Adding
    /\ sdPc \in ApplyPcs => Applying
    /\ sdPc \in RemovePcs => sdTodo = <<"remove">>
    /\ sdPc = "done" <=> sdTodo = <<>>
    /\ outcome["add_task"] = "ok" => (Applying \/ sdTodo = <<>>) /\ sdPc \notin NewPcs
    /\ outcome["apply"] = "ok" \/ outcome["remove"] = "ok" => sdPc = "done"

\* Who waits for what.
Dialogue ==
    /\ sdPc \in {"connected", "ready", "add.attach", "add.start", "add.wait", "apply.attach",
                 "apply.set", "remove.stop", "done"} => Silent
    /\ sdPc = "root" => Waiting("ControlGroup")
    /\ sdPc \in {"add.exists", "remove.exists"} => Waiting("GetUnit")
    /\ sdPc = "add.attached" => Waiting("AttachProcessesToUnit")
    /\ sdPc = "add.started" => Waiting("StartTransientUnit")
    /\ sdPc = "apply.version" => Waiting("Version")
    /\ sdPc = "apply.applied" => Waiting("SetUnitProperties")
    /\ sdPc = "remove.stopped" => Waiting("StopUnit")

\* With late replies it goes astray only after GetUnit of add_task has timed out.
Astray ==
    /\ late
    /\ outcome["add_task"] = "ok" \/ sdPc \in {"add.start", "add.started", "add.wait"} \cup EndPcs

\* Without late replies every reply taken was the call's own.
Talk ==
    /\ ~Astray => Dialogue
    /\ ~late => tookOwn

\* Calls that neither move a process nor stop the unit.
Mild == \A i \in 1..Len(queue) : queue[i].member \notin {"StopUnit", "AttachProcessesToUnit"}

\* The unit and its processes, as the operations rely on them.
UnitInv ==
    /\ "self" \in members => "self" \in joined
    /\ outcome["add_task"] = "ok" => "self" \in joined
    /\ ~late /\ outcome["remove"] = "ok" => stopped \/ unit = "none"
    /\ (Adding \/ Applying) /\ sdPc \notin {"failed", "add.attached"} => Mild
    /\ outcome["apply"] = "ok" => Mild
    /\ sdPc = "add.start" => \A i \in 1..Len(queue) : queue[i].member = "GetUnit"
    /\ Adding /\ sdPc # "failed" /\ disturbances = 0 =>
        /\ unit # "stopping"
        /\ unit = "starting" => sdPc \in {"add.started", "add.wait"}
        /\ "self" \in members => unit = "active"
        /\ unit = "none" => members = {}
    /\ Applying /\ sdPc # "failed" /\ disturbances = 0 => unit = "active"

\* How far the controllers are handed down.
LevelInv ==
    /\ sdPc \in NewPcs \cup AddPcs \cup {"ready", "apply.version"} => sdLevel = 0 /\ enabled = {}
    /\ sdPc = "apply.attach" => sdLevel \in 0..LastLevel /\ enabled = 0..(sdLevel - 1)
    /\ sdPc \in {"apply.set", "apply.applied"} /\ disturbances = 0 =>
         enabled = 0..(LastLevel - 1) \/ (LastLevel > UnitLevel /\ "sub" \notin joined)
    /\ outcome["apply"] = "ok" /\ disturbances = 0 =>
         enabled = 0..(LastLevel - 1) \/ (LastLevel > UnitLevel /\ "sub" \notin joined)

\* A function on 1..n is a sequence of length n.
LEMMA FunctionSeq ==
    ASSUME NEW N, NEW n \in Nat, NEW f \in [1..n -> N]
    PROVE  f \in Seq(N) /\ Len(f) = n
  OBVIOUS

\* One element makes a sequence of length one.
LEMMA SingleSeq ==
    ASSUME NEW N, NEW x \in N
    PROVE  <<x>> \in Seq(N) /\ Len(<<x>>) = 1
  OBVIOUS

\* construct_cgroups_path(): the unit is a level of the path below the
\* delegation boundary, and the levels of exec --cgroup come after it.
LEMMA LevelOrder ==
    ASSUME Course
    PROVE  /\ UnitLevel \in Nat \ {0} /\ Len(sub) \in Nat
           /\ LastLevel = UnitLevel + Len(sub)
PROOF
  <1>. DEFINE Component == Seq(STRING) \cup {<<"unit">>}
  <1>1. parent \in Seq(STRING) /\ sub \in Seq(Component) /\ Len(parent) \in Nat /\ Len(sub) \in Nat
    BY SMTT(30), SeqMonotonic DEF Course
  <1>2. /\ ExpandSlice(parent) \in Seq(Component)
        /\ Len(ExpandSlice(parent)) \in Nat
    <2>1. CASE parent = <<"">>
      BY Zenon, <2>1, EmptySeq DEF ExpandSlice
    <2>2. CASE parent # <<"">>
      <3>1. \A i \in 1..Len(parent) : SubSeq(parent, 1, i) \in Component
        BY SMTT(30), <1>1, SubSeqProperties, ElementOfSeq
      <3>2. ExpandSlice(parent) \in [1..Len(parent) -> Component]
        BY Zenon, <2>2, <3>1 DEF ExpandSlice
      <3>. HIDE DEF Component
      <3>. QED BY Zenon, <1>1, <3>2, FunctionSeq
    <2>. QED BY Zenon, <2>1, <2>2
  <1>3. <<<<"unit">>>> \in Seq(Component) /\ Len(<<<<"unit">>>>) = 1
    <2>1. <<"unit">> \in Component
      BY Zenon
    <2>. HIDE DEF Component
    <2>. QED BY Zenon, <2>1, SingleSeq
  <1>. HIDE DEF Component
  <1>4. /\ ExpandSlice(parent) \o <<<<"unit">>>> \in Seq(Component)
        /\ Len(ExpandSlice(parent) \o <<<<"unit">>>>) = Len(ExpandSlice(parent)) + 1
    BY Zenon, <1>2, <1>3, ConcatProperties
  <1>. QED BY SMTT(30), <1>1, <1>2, <1>4, ConcatProperties DEF UnitLevel, LastLevel, CgroupsPath

\* A manager keeps its path, and so the levels in it.
LEMMA SameLevels ==
    ASSUME UNCHANGED <<parent, sub>>
    PROVE  LastLevel' = LastLevel /\ UnitLevel' = UnitLevel
  BY Zenon DEF LastLevel, UnitLevel, CgroupsPath

-----------------------------------------------------------------------------
(* Steps of the manager. *)

SdInv == Course /\ Talk /\ UnitInv /\ LevelInv

\* What method calls leave alone.
Aside == UNCHANGED <<parent, sub, late, sdLevel, enabled, unit, members, joined, disturbances, stopped>>

\* Manager::new(): each attempt starts on a silent socket, and one that timed
\* out leaves its unanswered call behind on the old one.
LEMMA ConnectSteps ==
    ASSUME SdInv, TryConnect \/ ConstructCgroupsPath \/ ControlCgroupRoot
    PROVE  SdInv'
PROOF
  <1>. USE DEF SdInv
  <1>1. CASE TryConnect
    <2>1. /\ Aside /\ UNCHANGED <<sdTodo, outcome, tookOwn>> /\ sdPc = "connect"
          /\ \/ Silent' /\ sdPc' = "connected"
             \/ UNCHANGED <<serial, queue, inbox>> /\ sdPc' \in {"connect", "failed"}
      BY Zenon, <1>1 DEF TryConnect, NewConnection, Retry, conn, loops, systemd, Aside, Silent
    <2>2. Course'
      BY Zenon, <2>1 DEF Course, Aside, Adding, Applying, NewPcs, EndPcs, AddPcs, ApplyPcs, RemovePcs
    <2>3. Talk'
      BY Zenon, <2>1 DEF Talk, Astray, Dialogue, EndPcs, Aside
    <2>4. UnitInv'
      BY SMTT(30), <2>1 DEF UnitInv, Aside, Adding, Applying, Mild, Silent
    <2>5. LevelInv'
      BY Zenon, <2>1, SameLevels DEF LevelInv, Aside, NewPcs, AddPcs
    <2>. QED BY Zenon, <2>2, <2>3, <2>4, <2>5
  <1>2. CASE ConstructCgroupsPath
    <2>1. /\ Aside /\ UNCHANGED <<sdTodo, outcome, tookOwn>> /\ sdPc = "connected"
          /\ \/ Call("ControlGroup") /\ sdPc' = "root"
             \/ UNCHANGED <<serial, queue, inbox>> /\ sdPc' = "failed"
      BY Zenon, <1>2 DEF ConstructCgroupsPath, conn, loops, systemd, Aside
    <2>2. Course'
      BY Zenon, <2>1 DEF Course, Aside, Adding, Applying, NewPcs, EndPcs, AddPcs, ApplyPcs, RemovePcs
    <2>3. Silent
      BY Zenon, <2>1 DEF Talk, Astray, Dialogue, Course, NewPcs, EndPcs
    <2>4. Asked("ControlGroup")' \/ sdPc' = "failed"
      BY Zenon, <2>1, <2>3, CallOnSilence
    <2>5. Talk'
      BY Zenon, <2>1, <2>4 DEF Talk, Astray, Dialogue, EndPcs, Waiting, Aside
    <2>6. UnitInv'
      BY SMTT(30), <2>1, <2>4 DEF UnitInv, Aside, Adding, Applying, Mild, Asked
    <2>7. LevelInv'
      BY Zenon, <2>1, SameLevels DEF LevelInv, Aside, NewPcs, AddPcs
    <2>. QED BY Zenon, <2>2, <2>5, <2>6, <2>7
  <1>3. CASE ControlCgroupRoot
    <2>1. /\ Aside /\ UNCHANGED <<sdTodo, outcome>> /\ sdPc = "root"
      BY Zenon, <1>3 DEF ControlCgroupRoot, loops, systemd, Aside
    <2>2. Waiting("ControlGroup")
      BY Zenon, <2>1 DEF Talk, Astray, Dialogue, Course, NewPcs, EndPcs
    <2>3. PICK out : /\ Receive("ControlGroup", out, TRUE)
                     /\ \/ out = "ok" /\ sdPc' = "ready"
                        \/ out # "ok" /\ sdPc' \in {"connect", "failed"}
      BY Zenon, <1>3 DEF ControlCgroupRoot, Retry
    <2>4. \/ Silent' /\ (tookOwn => tookOwn')
          \/ out = "EAGAIN" /\ UNCHANGED <<serial, queue, inbox, tookOwn>>
      BY Zenon, <2>2, <2>3, TakeAnswer DEF Members
    <2>5. Course'
      BY Zenon, <2>1, <2>3 DEF Course, Aside, Adding, Applying, NewPcs, EndPcs, AddPcs, ApplyPcs, RemovePcs
    <2>6. Talk'
      BY Zenon, <2>1, <2>3, <2>4 DEF Talk, Astray, Dialogue, EndPcs, Aside
    <2>7. UnitInv'
      BY SMTT(30), <2>1, <2>3, <2>4 DEF UnitInv, Aside, Adding, Applying, Mild, Silent
    <2>8. LevelInv'
      BY Zenon, <2>1, <2>3, SameLevels DEF LevelInv, Aside, NewPcs, AddPcs
    <2>. QED BY Zenon, <2>5, <2>6, <2>7, <2>8
  <1>. QED BY Zenon, <1>1, <1>2, <1>3

\* Sending the first or the next call of an operation: what an operation
\* relies on holds when the call is sent.
LEMMA CallSteps ==
    ASSUME SdInv, Begin \/ SendNext
    PROVE  SdInv'
PROOF
  <1>. USE DEF SdInv
  <1>1. /\ Aside /\ UNCHANGED <<sdTodo, outcome, tookOwn>>
        /\ \/ sdPc = "ready" /\ sdPc' = "add.exists" /\ Head(sdTodo) = "add_task" /\ Call("GetUnit")
           \/ sdPc = "ready" /\ sdPc' = "apply.version" /\ Head(sdTodo) = "apply" /\ Call("Version")
           \/ /\ sdPc = "ready" /\ sdPc' = "remove.exists" /\ Call("GetUnit")
              /\ Head(sdTodo) \notin {"add_task", "apply"}
           \/ sdPc = "add.attach" /\ sdPc' = "add.attached" /\ Call("AttachProcessesToUnit")
           \/ sdPc = "add.start" /\ sdPc' = "add.started" /\ Call("StartTransientUnit")
           \/ sdPc = "apply.set" /\ sdPc' = "apply.applied" /\ Call("SetUnitProperties")
           \/ sdPc = "remove.stop" /\ sdPc' = "remove.stopped" /\ Call("StopUnit")
    BY Zenon DEF Begin, SendNext, loops, systemd, Aside
  <1>2. /\ Adding => Head(sdTodo) = "add_task"
        /\ Applying => Head(sdTodo) = "apply"
        /\ sdTodo = <<"remove">> => Head(sdTodo) = "remove"
    BY SMTT(30) DEF Adding, Applying
  <1>3. Course'
    BY Zenon, <1>1, <1>2 DEF Course, Aside, Adding, Applying, NewPcs, EndPcs, AddPcs, ApplyPcs, RemovePcs
  <1>4. ~Astray' => Silent
    BY Zenon, <1>1 DEF Course, Talk, Astray, Dialogue, EndPcs, Aside
  <1>5. Talk'
    BY Zenon, <1>1, <1>4, CallOnSilence DEF Talk, Astray, Dialogue, EndPcs, Waiting, Aside
  <1>6. ASSUME NEW m, m \notin {"StopUnit", "AttachProcessesToUnit"}, Mild, Call(m)
        PROVE  Mild'
    BY SMTT(30), <1>6 DEF Call, Mild, Course
  <1>7. UnitInv'
    <2>1. (Adding' \/ Applying') /\ sdPc' \notin {"failed", "add.attached"} => Mild'
      BY Zenon, <1>1, <1>2, <1>6 DEF UnitInv, Course, Adding, Applying, RemovePcs
    <2>. QED BY Zenon, <1>1, <1>2, <2>1 DEF UnitInv, Course, Aside, Adding, Applying, AddPcs
  <1>8. LevelInv'
    BY Zenon, <1>1, SameLevels DEF LevelInv, Aside, NewPcs, AddPcs
  <1>. QED BY Zenon, <1>3, <1>5, <1>7, <1>8

\* How add_task returns.
AddReturns(out) ==
    /\ Course'
    /\ \A op \in Ops : outcome'[op] = IF op = "add_task" THEN out ELSE outcome[op]
    /\ \/ out = "ok" /\ sdPc' = "done" /\ sdTodo' = <<>>
       \/ out = "ok" /\ sdPc' = "ready" /\ sdTodo' = <<"apply">>
       \/ out # "ok" /\ sdPc' = "failed" /\ sdTodo' = sdTodo

\* add_task() returns to a caller that is done, or that applies limits next.
LEMMA ReturnOfAdd ==
    ASSUME Course, sdPc \in AddPcs, NEW out, Return("add_task", out), UNCHANGED <<parent, sub, disturbances>>
    PROVE  AddReturns(out)
PROOF
  <1>1. Adding
    BY Zenon DEF Course
  <1>2. outcome' = [outcome EXCEPT !["add_task"] = out] /\ DOMAIN outcome' = Ops
    BY Zenon DEF Return, Course
  <1>3. \A op \in Ops : outcome'[op] = IF op = "add_task" THEN out ELSE outcome[op]
    BY Zenon, <1>2 DEF Course
  <1>4. \/ out = "ok" /\ sdPc' = "done" /\ sdTodo' = <<>>
        \/ out = "ok" /\ sdPc' = "ready" /\ sdTodo' = <<"apply">>
        \/ out # "ok" /\ sdPc' = "failed" /\ sdTodo' = sdTodo
    <2>1. CASE sdTodo = <<"add_task">>
      <3>1. Tail(sdTodo) = <<>> /\ Len(sdTodo) = 1
        BY SMTT(30), <2>1
      <3>. QED BY Zenon, <3>1 DEF Return
    <2>2. CASE sdTodo = <<"add_task", "apply">>
      <3>1. Tail(sdTodo) = <<"apply">> /\ Len(sdTodo) # 1
        BY SMTT(30), <2>2
      <3>. QED BY Zenon, <3>1 DEF Return
    <2>. QED BY Zenon, <1>1, <2>1, <2>2 DEF Adding
  <1>5. outcome["apply"] # "ok" /\ outcome["remove"] # "ok" /\ outcome["add_task"] # "ok"
    BY SMTT(30), <1>1 DEF Course, AddPcs, Adding, Applying
  <1>6. Course'
    <2>1. outcome'["apply"] # "ok" /\ outcome'["remove"] # "ok" /\ outcome'["add_task"] = out
      BY Zenon, <1>3, <1>5 DEF Ops
    <2>2. parent' = parent /\ sub' = sub /\ disturbances' = disturbances
      BY Zenon
    <2>3. CASE out = "ok" /\ sdPc' = "done" /\ sdTodo' = <<>>
      BY Zenon, <1>2, <2>1, <2>2, <2>3
         DEF Course, Adding, Applying, NewPcs, EndPcs, AddPcs, ApplyPcs, RemovePcs
    <2>4. CASE out = "ok" /\ sdPc' = "ready" /\ sdTodo' = <<"apply">>
      BY Zenon, <1>2, <2>1, <2>2, <2>4
         DEF Course, Adding, Applying, NewPcs, EndPcs, AddPcs, ApplyPcs, RemovePcs
    <2>5. CASE out # "ok" /\ sdPc' = "failed" /\ sdTodo' = sdTodo
      BY Zenon, <1>1, <1>2, <2>1, <2>2, <2>5
         DEF Course, Adding, Applying, NewPcs, EndPcs, AddPcs, ApplyPcs, RemovePcs
    <2>. QED BY Zenon, <1>4, <2>3, <2>4, <2>5
  <1>. QED BY Zenon, <1>3, <1>4, <1>6 DEF AddReturns

\* A step that only counts polls keeps the invariant.
LEMMA SdFrame ==
    ASSUME SdInv, Aside, UNCHANGED <<sdPc, sdTodo, outcome, serial, queue, inbox, tookOwn>>
    PROVE  SdInv'
PROOF
  <1>1. Course' BY Zenon DEF SdInv, Course, Aside, Adding, Applying
  <1>2. Talk'
    <2>1. Silent' = Silent
      BY Zenon DEF Silent
    <2>2. \A m : Waiting(m)' = Waiting(m)
      BY Zenon DEF Aside, Waiting, Asked, Answered, Tells
    <2>3. Dialogue => Dialogue'
      BY Zenon, <2>1, <2>2 DEF Dialogue
    <2>4. Astray' = Astray
      BY Zenon DEF Aside, Astray
    <2>. QED BY Zenon, <2>3, <2>4 DEF SdInv, Aside, Talk
  <1>3. UnitInv' BY Zenon DEF SdInv, UnitInv, Aside, Adding, Applying, Mild
  <1>4. LevelInv' BY Zenon, SameLevels DEF SdInv, LevelInv, Aside
  <1>. QED BY Zenon, <1>1, <1>2, <1>3, <1>4 DEF SdInv

\* The answers add_task() reads: Ok of an attached process is believed because
\* the answer is the attach call's own, Ok of a started unit only once the
\* process is seen in the cgroup.
LEMMA AddSteps ==
    ASSUME SdInv, AddExists \/ AddAttached \/ AddStarted \/ AddWait
    PROVE  SdInv'
PROOF
  <1>. USE DEF SdInv
  <1>1. CASE AddExists
    <2>1. /\ Aside /\ UNCHANGED <<sdTodo, outcome>> /\ sdPc = "add.exists"
      BY Zenon, <1>1 DEF AddExists, Awaited, SystemdGoto, loops, systemd, Aside
    <2>2. Waiting("GetUnit")
      BY SMTT(30), <2>1 DEF Talk, Astray, Dialogue, Course, AddPcs, EndPcs, Adding, Applying
    <2>3. PICK out : /\ Receive("GetUnit", out, late)
                     /\ sdPc' = IF out = "ok" THEN "add.attach" ELSE "add.start"
      BY Zenon, <1>1 DEF AddExists, Awaited, SystemdGoto
    <2>4. \/ Silent' /\ (tookOwn => tookOwn')
          \/ late /\ out = "EAGAIN" /\ UNCHANGED <<serial, queue, inbox, tookOwn>>
      BY Zenon, <2>2, <2>3, TakeAnswer DEF Members
    <2>5. Course'
      BY Zenon, <2>1, <2>3 DEF Course, Aside, Adding, Applying, NewPcs, EndPcs, AddPcs, ApplyPcs, RemovePcs
    <2>6. Talk'
      BY Zenon, <2>1, <2>3, <2>4 DEF Talk, Astray, Dialogue, EndPcs, Aside
    <2>9. \A i \in 1..Len(queue') : queue'[i].member = "GetUnit"
      BY SMTT(30), <2>2, <2>4 DEF Waiting, Asked, Answered, Silent
    <2>7. UnitInv'
      BY Zenon, <2>1, <2>3, <2>4, <2>9 DEF UnitInv, Aside, Adding, Applying, Mild, Silent
    <2>8. LevelInv'
      BY Zenon, <2>1, <2>3, SameLevels DEF LevelInv, Aside, NewPcs, AddPcs
    <2>. QED BY Zenon, <2>5, <2>6, <2>7, <2>8
  <1>2. CASE AddAttached
    <2>1. /\ Aside /\ sdPc = "add.attached"
      BY Zenon, <1>2 DEF AddAttached, Awaited, loops, systemd, Aside
    <2>2. Waiting("AttachProcessesToUnit")
      BY SMTT(30), <2>1 DEF Talk, Astray, Dialogue, Course, AddPcs, EndPcs, Adding, Applying
    <2>3. PICK out : /\ Receive("AttachProcessesToUnit", out, late)
                     /\ Return("add_task", out)
      BY Zenon, <1>2 DEF AddAttached, Awaited
    <2>4. \/ /\ Silent' /\ (tookOwn => tookOwn')
             /\ out = "ok" => "self" \in joined /\ (disturbances = 0 => unit = "active")
          \/ late /\ out = "EAGAIN" /\ UNCHANGED <<serial, queue, inbox, tookOwn>>
      BY Zenon, <2>2, <2>3, TakeAnswer DEF Members, Tells
    <2>5. AddReturns(out)
      BY Zenon, <2>1, <2>3, ReturnOfAdd DEF AddPcs, Aside
    <2>6. Talk'
      BY Zenon, <2>1, <2>4, <2>5 DEF AddReturns, Ops, Talk, Astray, Dialogue, EndPcs, Aside
    <2>7. UnitInv'
      BY SMTT(30), <2>1, <2>4, <2>5 DEF AddReturns, Ops, UnitInv, Course, Aside, Adding, Applying, Mild, Silent, AddPcs
    <2>8. LevelInv'
      BY Zenon, <2>1, <2>5, SameLevels DEF AddReturns, Ops, LevelInv, Aside, NewPcs, AddPcs
    <2>. QED BY Zenon, <2>1, <2>5, <2>6, <2>7, <2>8 DEF Aside, AddReturns
  <1>3. CASE AddStarted
    <2>1. /\ Aside /\ sdPc = "add.started"
      BY Zenon, <1>3 DEF AddStarted, Awaited, loops, systemd, Aside
    <2>2. PICK out : /\ Receive("StartTransientUnit", out, late)
                     /\ \/ out = "ok" /\ SystemdGoto("add.wait")
                        \/ out # "ok" /\ Return("add_task", out)
      BY Zenon, <1>3 DEF AddStarted, Awaited
    <2>3. ~late => Silent' /\ (tookOwn => tookOwn')
      <3>1. ~late => Waiting("StartTransientUnit")
        BY Zenon, <2>1 DEF Talk, Astray, Dialogue
      <3>. QED BY SMTT(30), <2>2, <3>1, TakeAnswer DEF Members
    <2>4. Mild'
      BY Zenon, <2>1, <2>2 DEF Receive, conn, Mild, UnitInv, Course, AddPcs
    <2>5. CASE SystemdGoto("add.wait")
      <3>1. UNCHANGED <<sdTodo, outcome>> /\ sdPc' = "add.wait"
        BY Zenon, <2>5 DEF SystemdGoto
      <3>2. Course'
        BY Zenon, <2>1, <3>1 DEF Course, Aside, Adding, Applying, NewPcs, EndPcs, AddPcs, ApplyPcs, RemovePcs
      <3>3. Talk'
        BY Zenon, <2>1, <2>3, <3>1 DEF Talk, Astray, Dialogue, EndPcs, Aside
      <3>4. UnitInv'
        BY Zenon, <2>1, <2>4, <3>1 DEF UnitInv, Aside, Adding, Applying
      <3>5. LevelInv'
        BY Zenon, <2>1, <3>1, SameLevels DEF LevelInv, Aside, NewPcs, AddPcs
      <3>. QED BY Zenon, <3>2, <3>3, <3>4, <3>5
    <2>6. CASE out # "ok" /\ Return("add_task", out)
      <3>1. AddReturns(out)
        BY Zenon, <2>1, <2>6, ReturnOfAdd DEF AddPcs, Aside
      <3>2. sdPc' = "failed"
        BY Zenon, <2>6, <3>1 DEF AddReturns
      <3>3. Talk'
        BY Zenon, <2>1, <2>3, <3>1, <3>2 DEF AddReturns, Ops, Talk, Astray, Dialogue, EndPcs, Aside
      <3>4. UnitInv'
        BY Zenon, <2>1, <2>4, <2>6, <3>1, <3>2 DEF AddReturns, Ops, UnitInv, Aside, Adding, Applying
      <3>5. LevelInv'
        BY Zenon, <2>1, <3>1, <3>2, SameLevels DEF AddReturns, Ops, LevelInv, Aside, NewPcs, AddPcs
      <3>. QED BY Zenon, <2>1, <3>1, <3>3, <3>4, <3>5 DEF Aside, AddReturns
    <2>. QED BY Zenon, <2>2, <2>5, <2>6
  <1>4. CASE AddWait
    <2>1. /\ Aside /\ UNCHANGED <<serial, queue, inbox, tookOwn>> /\ sdPc = "add.wait"
          /\ \/ UNCHANGED <<sdPc, sdTodo, outcome>>
             \/ Return("add_task", "error")
             \/ "self" \in members /\ Return("add_task", "ok")
      BY Zenon, <1>4 DEF AddWait, Visible, conn, systemd, Aside
    <2>2. CASE UNCHANGED <<sdPc, sdTodo, outcome>>
      BY Zenon, <2>1, <2>2, SdFrame
    <2>3. ASSUME NEW out, Return("add_task", out), out = "ok" => "self" \in members
          PROVE  SdInv'
      <3>1. AddReturns(out)
        BY Zenon, <2>1, <2>3, ReturnOfAdd DEF AddPcs, Aside
      <3>2. Talk'
        BY Zenon, <2>1, <3>1 DEF AddReturns, Ops, Talk, Astray, Dialogue, EndPcs, Silent, Aside
      <3>3. UnitInv'
        BY Zenon, <2>1, <2>3, <3>1 DEF AddReturns, Ops, UnitInv, Course, Aside, Adding, Applying, Mild, AddPcs
      <3>4. LevelInv'
        BY Zenon, <2>1, <3>1, SameLevels DEF AddReturns, Ops, LevelInv, Aside, NewPcs, AddPcs
      <3>. QED BY Zenon, <2>1, <3>1, <3>2, <3>3, <3>4 DEF Aside, AddReturns
    <2>. QED BY Zenon, <2>1, <2>2, <2>3
  <1>. QED BY Zenon, <1>1, <1>2, <1>3, <1>4

\* How apply and remove return: they are the last of their program.
LastReturns(op, out) ==
    /\ Course'
    /\ \A o \in Ops : outcome'[o] = IF o = op THEN out ELSE outcome[o]
    /\ \/ out = "ok" /\ sdPc' = "done" /\ sdTodo' = <<>>
       \/ out # "ok" /\ sdPc' = "failed" /\ sdTodo' = sdTodo

\* apply() and remove() are the last operation of their caller.
LEMMA ReturnOfLast ==
    ASSUME Course, NEW op \in Ops, NEW out, Return(op, out),
           \/ op = "apply" /\ sdPc \in ApplyPcs
           \/ op = "remove" /\ sdPc \in RemovePcs,
           UNCHANGED <<parent, sub, disturbances>>
    PROVE  LastReturns(op, out)
PROOF
  <1>1. \/ op = "apply" /\ sdTodo = <<"apply">>
        \/ op = "remove" /\ sdTodo = <<"remove">>
    BY Zenon DEF Course, Applying
  <1>0. sdTodo # <<>> /\ ~Adding /\ Tail(sdTodo) = <<>> /\ Len(sdTodo) = 1
    <2>1. CASE sdTodo = <<"apply">> BY SMTT(30), <2>1 DEF Adding
    <2>2. CASE sdTodo = <<"remove">> BY SMTT(30), <2>2 DEF Adding
    <2>. QED BY Zenon, <1>1, <2>1, <2>2
  <1>2. DOMAIN outcome' = Ops /\ \A o \in Ops : outcome'[o] = IF o = op THEN out ELSE outcome[o]
    BY Zenon DEF Return, Course
  <1>3. \/ out = "ok" /\ sdPc' = "done" /\ sdTodo' = <<>>
        \/ out # "ok" /\ sdPc' = "failed" /\ sdTodo' = sdTodo
    BY Zenon, <1>0 DEF Return
  <1>4. /\ outcome["apply"] # "ok" /\ outcome["remove"] # "ok"
        /\ outcome'["add_task"] = "ok" => sdTodo = <<"apply">>
        /\ outcome'["apply"] = "ok" \/ outcome'["remove"] = "ok" => out = "ok"
    BY Zenon, <1>1, <1>2 DEF Course, ApplyPcs, RemovePcs, Applying, Ops
  <1>5. Course'
    BY Zenon, <1>0, <1>1, <1>2, <1>3, <1>4
       DEF Course, Adding, Applying, NewPcs, EndPcs, AddPcs, ApplyPcs, RemovePcs
  <1>. QED BY Zenon, <1>2, <1>3, <1>5 DEF LastReturns

\* An operation that returns an error claims nothing.
LEMMA FailedLast ==
    ASSUME SdInv, NEW op \in {"apply", "remove"}, NEW out, out # "ok", LastReturns(op, out),
           UNCHANGED <<parent, sub, late, unit, members, joined, disturbances, stopped>>,
           ~late => tookOwn'
    PROVE  SdInv'
PROOF
  <1>1. /\ Course' /\ sdPc' = "failed" /\ sdTodo' = sdTodo
        /\ \A o \in Ops : outcome'[o] = "ok" => outcome[o] = "ok"
    BY Zenon DEF LastReturns
  <1>2. outcome'["apply"] # "ok" /\ outcome'["remove"] # "ok"
    BY Zenon, <1>1 DEF Course
  <1>3. Talk'
    BY Zenon, <1>1 DEF Talk, Dialogue, Silent
  <1>4. UnitInv'
    BY Zenon, <1>1, <1>2 DEF SdInv, UnitInv, Ops
  <1>5. LevelInv'
    BY Zenon, <1>1, <1>2 DEF LevelInv, NewPcs, AddPcs
  <1>. QED BY Zenon, <1>1, <1>3, <1>4, <1>5 DEF SdInv

\* apply() reads systemd's version and starts at the delegation boundary.
LEMMA ApplyVersionStep ==
    ASSUME SdInv, ApplyVersion
    PROVE  SdInv'
PROOF
  <1>. USE DEF SdInv
  <1>1. /\ Aside /\ sdPc = "apply.version"
    BY Zenon DEF ApplyVersion, Awaited, loops, systemd, Aside
  <1>2. PICK out : /\ Receive("Version", out, late)
                   /\ \/ out = "ok" /\ SystemdGoto("apply.attach")
                      \/ out # "ok" /\ Return("apply", out)
    BY Zenon DEF ApplyVersion, Awaited
  <1>3. ~Astray => (Silent' \/ (late /\ out = "EAGAIN")) /\ (tookOwn => tookOwn')
    <2>1. ~Astray => Waiting("Version")
      BY Zenon, <1>1 DEF Talk, Dialogue
    <2>. QED BY SMTT(30), <1>2, <2>1, TakeAnswer DEF Members
  <1>4. Mild'
    BY Zenon, <1>1, <1>2 DEF Receive, conn, Mild, UnitInv, Course, ApplyPcs
  <1>5. CASE out = "ok" /\ SystemdGoto("apply.attach")
    <2>1. UNCHANGED <<sdTodo, outcome>> /\ sdPc' = "apply.attach"
      BY Zenon, <1>5 DEF SystemdGoto
    <2>2. Course'
      BY Zenon, <1>1, <2>1 DEF Course, Aside, Adding, Applying, NewPcs, EndPcs, AddPcs, ApplyPcs, RemovePcs
    <2>3. Talk'
      BY Zenon, <1>1, <1>3, <1>5, <2>1 DEF Talk, Astray, Dialogue, EndPcs, Aside
    <2>4. UnitInv'
      BY Zenon, <1>1, <1>4, <2>1 DEF UnitInv, Aside, Adding, Applying
    <2>5. LevelInv'
      <3>1. sdLevel = 0 /\ enabled = {} /\ outcome["apply"] # "ok"
        BY Zenon, <1>1 DEF LevelInv, Course
      <3>2. LastLevel' = LastLevel /\ LastLevel \in Nat
        BY SMTT(30), <1>1, SameLevels, LevelOrder DEF Aside
      <3>. QED BY SMTT(30), <1>1, <2>1, <3>1, <3>2 DEF LevelInv, Aside, NewPcs, AddPcs
    <2>. QED BY Zenon, <2>2, <2>3, <2>4, <2>5
  <1>6. CASE out # "ok" /\ Return("apply", out)
    <2>1. LastReturns("apply", out)
      BY Zenon, <1>1, <1>6, ReturnOfLast DEF ApplyPcs, Aside, Ops
    <2>2. ~late => tookOwn'
      BY Zenon, <1>3 DEF Talk, Astray
    <2>. QED BY Zenon, <1>1, <1>6, <2>1, <2>2, FailedLast DEF Aside
  <1>. QED BY Zenon, <1>2, <1>5, <1>6

\* ensure_controllers_attached(), one level: the levels above the current one
\* have handed their controllers down, and the loop ends early only where
\* the cgroup below the unit does not exist.
LEMMA EnsureStep ==
    ASSUME SdInv, EnsureControllersAttached
    PROVE  SdInv'
PROOF
  <1>. USE DEF SdInv
  <1>1. /\ UNCHANGED <<parent, sub, late, serial, queue, inbox, unit, members, joined, disturbances, tookOwn, stopped>>
        /\ sdPc = "apply.attach"
    BY Zenon DEF EnsureControllersAttached, conn, systemd
  <1>2. /\ UnitLevel \in Nat \ {0} /\ Len(sub) \in Nat
        /\ LastLevel \in Nat \ {0} /\ LastLevel >= UnitLevel
        /\ LastLevel' = LastLevel /\ UnitLevel' = UnitLevel
    BY SMTT(30), <1>1, LevelOrder, SameLevels
  <1>3. sdLevel \in 0..LastLevel /\ enabled = 0..(sdLevel - 1) /\ outcome["apply"] # "ok"
    BY Zenon, <1>1 DEF LevelInv, Course
  <1>4. ASSUME UNCHANGED <<sdTodo, outcome>>, sdPc' \in {"apply.attach", "apply.set"}
        PROVE  Course' /\ Talk' /\ UnitInv'
    <2>1. Course'
      BY Zenon, <1>1, <1>4 DEF Course, Adding, Applying, NewPcs, EndPcs, AddPcs, ApplyPcs, RemovePcs
    <2>2. Talk'
      BY Zenon, <1>1, <1>4 DEF Talk, Astray, Dialogue, EndPcs, Silent
    <2>3. UnitInv'
      BY Zenon, <1>1, <1>4 DEF UnitInv, Adding, Applying, Mild
    <2>. QED BY Zenon, <2>1, <2>2, <2>3
  <1>5. CASE SystemdGoto("apply.set") /\ UNCHANGED <<enabled, sdLevel>>
             /\ (~Exists(sdLevel) \/ sdLevel = LastLevel)
    <2>1. disturbances = 0 => unit = "active"
      BY Zenon, <1>1 DEF UnitInv, Course, ApplyPcs
    <2>2. LevelInv'
      BY SMTT(30), <1>1, <1>2, <1>3, <1>5, <2>1 DEF LevelInv, Exists, SystemdGoto, NewPcs, AddPcs
    <2>. QED BY Zenon, <1>4, <1>5, <2>2 DEF SystemdGoto
  <1>6. CASE /\ enabled' = enabled \cup {sdLevel} /\ sdLevel' = sdLevel + 1
             /\ UNCHANGED <<sdPc, sdTodo, outcome>> /\ sdLevel # LastLevel
    <2>1. sdLevel' \in 0..LastLevel' /\ enabled' = 0..(sdLevel' - 1)
      BY SMTT(30), <1>2, <1>3, <1>6
    <2>2. LevelInv'
      BY Zenon, <1>1, <1>3, <1>6, <2>1 DEF LevelInv, NewPcs, AddPcs
    <2>. QED BY Zenon, <1>1, <1>4, <1>6, <2>2
  <1>7. CASE Return("apply", "error")
    <2>1. LastReturns("apply", "error")
      BY Zenon, <1>1, <1>7, ReturnOfLast DEF ApplyPcs, Ops
    <2>. QED BY Zenon, <1>1, <2>1, FailedLast DEF Talk
  <1>. QED BY SMTT(30), <1>2, <1>3, <1>5, <1>6, <1>7 DEF EnsureControllersAttached

\* apply() returns Ok only after every level above the last that exists was
\* enabled.
LEMMA ApplyAppliedStep ==
    ASSUME SdInv, ApplyApplied
    PROVE  SdInv'
PROOF
  <1>. USE DEF SdInv
  <1>1. /\ Aside /\ sdPc = "apply.applied"
    BY Zenon DEF ApplyApplied, Awaited, loops, systemd, Aside
  <1>2. PICK got : /\ Receive("SetUnitProperties", got, late)
                   /\ \E filtered, rootless \in BOOLEAN :
                         Return("apply", IF got = "ok" /\ ~filtered /\ ~rootless THEN "error" ELSE got)
    BY Zenon DEF ApplyApplied, Awaited
  <1>3. ~Astray => (Silent' \/ (late /\ got = "EAGAIN")) /\ (tookOwn => tookOwn')
    <2>1. ~Astray => Waiting("SetUnitProperties")
      BY Zenon, <1>1 DEF Talk, Dialogue
    <2>. QED BY SMTT(30), <1>2, <2>1, TakeAnswer DEF Members
  <1>4. PICK out : Return("apply", out) /\ (out = "ok" => got = "ok")
    BY Zenon, <1>2
  <1>5. LastReturns("apply", out)
    BY Zenon, <1>1, <1>4, ReturnOfLast DEF ApplyPcs, Aside, Ops
  <1>6. ~late => tookOwn'
    BY Zenon, <1>3 DEF Talk, Astray
  <1>7. CASE out # "ok"
    BY Zenon, <1>1, <1>5, <1>6, <1>7, FailedLast DEF Aside
  <1>8. CASE out = "ok"
    <2>1. /\ sdPc' = "done" /\ sdTodo' = <<>> /\ Course'
          /\ outcome'["add_task"] = outcome["add_task"] /\ outcome'["remove"] = outcome["remove"]
      BY Zenon, <1>5, <1>8 DEF LastReturns, Ops
    <2>2. Talk'
      BY Zenon, <1>1, <1>3, <1>4, <1>6, <1>8, <2>1 DEF Talk, Astray, Dialogue, EndPcs, Aside
    <2>3. UnitInv'
      <3>1. Mild'
        BY Zenon, <1>1, <1>2 DEF Receive, conn, Mild, UnitInv, Course, ApplyPcs
      <3>. QED BY Zenon, <1>1, <2>1, <3>1 DEF UnitInv, Aside, Adding, Applying
    <2>4. disturbances = 0 => enabled = 0..(LastLevel - 1) \/ (LastLevel > UnitLevel /\ "sub" \notin joined)
      BY Zenon, <1>1 DEF LevelInv
    <2>5. LevelInv'
      BY Zenon, <1>1, <2>1, <2>4, SameLevels DEF LevelInv, Aside, NewPcs, AddPcs
    <2>. QED BY Zenon, <2>1, <2>2, <2>3, <2>5
  <1>. QED BY Zenon, <1>7, <1>8

\* A remove() that returns Ok has had the unit stopped, or found none.
LEMMA RemoveReturnsOk ==
    ASSUME SdInv, Aside, LastReturns("remove", "ok"), outcome["apply"] # "ok",
           \/ Silent' /\ (tookOwn => tookOwn') /\ (stopped \/ unit = "none")
           \/ late
    PROVE  SdInv'
PROOF
  <1>. USE DEF SdInv
  <1>1. /\ sdPc' = "done" /\ sdTodo' = <<>> /\ Course'
        /\ outcome'["add_task"] = outcome["add_task"] /\ outcome'["apply"] = outcome["apply"]
    BY Zenon DEF LastReturns, Ops
  <1>2. Talk'
    BY Zenon, <1>1 DEF Talk, Astray, Dialogue, EndPcs, Aside
  <1>3. UnitInv'
    BY Zenon, <1>1 DEF UnitInv, Aside, Adding, Applying
  <1>4. LevelInv'
    BY Zenon, <1>1, SameLevels DEF LevelInv, Aside, NewPcs, AddPcs
  <1>. QED BY Zenon, <1>1, <1>2, <1>3, <1>4

\* The answers remove() reads: whether there is a unit, and whether the stop
\* was accepted.
LEMMA RemoveSteps ==
    ASSUME SdInv, RemoveExists \/ RemoveStopped
    PROVE  SdInv'
PROOF
  <1>. USE DEF SdInv
  <1>1. /\ Aside /\ sdPc \in RemovePcs
        /\ outcome["add_task"] # "ok" /\ outcome["apply"] # "ok" /\ ~Astray
    BY SMTT(30) DEF RemoveExists, RemoveStopped, Awaited, loops, systemd, Aside, RemovePcs,
           Astray, Course, Applying, EndPcs
  <1>2. CASE RemoveExists
    <2>1. PICK got : /\ Receive("GetUnit", got, late)
                     /\ \/ got = "ok" /\ SystemdGoto("remove.stop")
                        \/ got # "ok" /\ Return("remove", "ok")
      BY Zenon, <1>2 DEF RemoveExists, Awaited
    <2>2. \/ Silent' /\ (tookOwn => tookOwn') /\ (got # "ok" => unit = "none")
          \/ late /\ got = "EAGAIN"
      <3>1. sdPc = "remove.exists" /\ Waiting("GetUnit")
        BY Zenon, <1>1, <1>2 DEF Talk, Dialogue, RemoveExists, Awaited
      <3>. QED BY SMTT(30), <2>1, <3>1, TakeAnswer DEF Members, Tells
    <2>3. CASE got = "ok" /\ SystemdGoto("remove.stop")
      <3>1. UNCHANGED <<sdTodo, outcome>> /\ sdPc' = "remove.stop" /\ sdTodo = <<"remove">>
        BY Zenon, <1>1, <2>3 DEF SystemdGoto, Course
      <3>2. Course'
        BY Zenon, <1>1, <3>1 DEF Course, Aside, Adding, Applying, NewPcs, EndPcs, AddPcs, ApplyPcs, RemovePcs
      <3>3. Talk'
        BY Zenon, <1>1, <2>2, <2>3, <3>1 DEF Talk, Astray, Dialogue, EndPcs, Aside
      <3>4. UnitInv'
        BY Zenon, <1>1, <3>1 DEF UnitInv, Aside, Adding, Applying
      <3>5. LevelInv'
        BY Zenon, <1>1, <3>1, SameLevels DEF LevelInv, Aside, NewPcs, AddPcs
      <3>. QED BY Zenon, <3>2, <3>3, <3>4, <3>5
    <2>4. CASE got # "ok" /\ Return("remove", "ok")
      <3>1. LastReturns("remove", "ok")
        BY Zenon, <1>1, <2>4, ReturnOfLast DEF Aside, Ops
      <3>. QED BY Zenon, <1>1, <2>2, <2>4, <3>1, RemoveReturnsOk
    <2>. QED BY Zenon, <2>1, <2>3, <2>4
  <1>3. CASE RemoveStopped
    <2>1. PICK out : Receive("StopUnit", out, late) /\ Return("remove", out)
      BY Zenon, <1>3 DEF RemoveStopped, Awaited
    <2>2. \/ Silent' /\ (tookOwn => tookOwn') /\ (out = "ok" => stopped)
          \/ late /\ out = "EAGAIN"
      <3>1. Waiting("StopUnit")
        BY Zenon, <1>1, <1>3 DEF Talk, Dialogue, RemoveStopped, Awaited
      <3>. QED BY SMTT(30), <2>1, <3>1, TakeAnswer DEF Members, Tells
    <2>3. LastReturns("remove", out)
      BY Zenon, <1>1, <2>1, ReturnOfLast DEF Aside, Ops
    <2>4. CASE out # "ok"
      <3>1. ~late => tookOwn'
        BY Zenon, <2>2 DEF Talk
      <3>. QED BY Zenon, <1>1, <2>3, <2>4, <3>1, FailedLast DEF Aside
    <2>5. CASE out = "ok"
      BY Zenon, <1>1, <2>2, <2>3, <2>5, RemoveReturnsOk
    <2>. QED BY Zenon, <2>4, <2>5
  <1>. QED BY Zenon, <1>2, <1>3

-----------------------------------------------------------------------------
(* The calls on their way to systemd. *)

Calls == [serial : Nat, member : Members]

\* The calls in the socket and the states of the unit.
QueueInv ==
    /\ serial \in Nat /\ queue \in Seq(Calls)
    /\ unit \in {"none", "starting", "active", "stopping"}
    /\ sdPc \in NewPcs => \A i \in 1..Len(queue) : queue[i].member = "ControlGroup"
    /\ sdPc = "connected" => queue = <<>>

\* A call joins the queue, and is the only one in it if there was none.
LEMMA CallIsQueued ==
    ASSUME QueueInv, NEW m \in Members, Call(m)
    PROVE  /\ serial' \in Nat /\ queue' \in Seq(Calls)
           /\ queue = <<>> => \A i \in 1..Len(queue') : queue'[i].member = m
  BY SMTT(30) DEF QueueInv, Calls, Call

\* The types of the connection, and that Manager::new() sends nothing but
\* ControlGroup, are kept by every step.
LEMMA QueueSteps ==
    ASSUME QueueInv, [SystemdNext]_sdVars
    PROVE  QueueInv'
PROOF
  <1>. USE DEF conn, systemd, loops
  <1>0. ASSUME UNCHANGED <<serial, queue, unit>>, sdPc' \notin NewPcs \/ sdPc' = sdPc
        PROVE  QueueInv'
    BY Zenon, <1>0 DEF QueueInv, NewPcs
  <1>1. CASE TryConnect
    <2>1. /\ unit' = unit /\ sdPc = "connect"
          /\ \/ serial' = 1 /\ queue' = <<>> /\ sdPc' = "connected"
             \/ UNCHANGED <<serial, queue>> /\ sdPc' \in {"connect", "failed"}
      BY Zenon, <1>1 DEF TryConnect, NewConnection, Retry
    <2>2. CASE serial' = 1 /\ queue' = <<>>
      BY SMTT(30), <2>1, <2>2 DEF QueueInv
    <2>3. CASE UNCHANGED <<serial, queue>> /\ sdPc' \in {"connect", "failed"}
      BY Zenon, <2>1, <2>3 DEF QueueInv, NewPcs
    <2>. QED BY Zenon, <2>1, <2>2, <2>3
  <1>2. CASE ConstructCgroupsPath
    <2>1. /\ unit' = unit /\ sdPc = "connected"
          /\ \/ Call("ControlGroup") /\ sdPc' = "root"
             \/ UNCHANGED <<serial, queue>> /\ sdPc' = "failed"
      BY Zenon, <1>2 DEF ConstructCgroupsPath
    <2>. QED BY Zenon, <2>1, CallIsQueued DEF QueueInv, NewPcs, Members
  <1>3. CASE ControlCgroupRoot
    <2>1. /\ UNCHANGED <<serial, queue, unit>> /\ sdPc = "root"
          /\ sdPc' \in {"connect", "failed", "ready"}
      BY Zenon, <1>3 DEF ControlCgroupRoot, Receive, Retry
    <2>. QED BY Zenon, <2>1 DEF QueueInv, NewPcs
  <1>4. CASE Begin \/ SendNext
    <2>1. /\ unit' = unit /\ sdPc' \notin NewPcs
          /\ \E m \in Members : Call(m)
      BY Zenon, <1>4 DEF Begin, SendNext, NewPcs, Members
    <2>. QED BY Zenon, <2>1, CallIsQueued DEF QueueInv, NewPcs
  <1>5. CASE AddExists \/ AddAttached \/ AddStarted
    BY Zenon, <1>0, <1>5 DEF AddExists, AddAttached, AddStarted, Awaited, Receive, SystemdGoto,
                      Return, NewPcs
  <1>6. CASE AddWait \/ EnsureControllersAttached
    BY Zenon, <1>0, <1>6 DEF AddWait, EnsureControllersAttached, SystemdGoto, Return, NewPcs
  <1>7. CASE ApplyVersion \/ ApplyApplied
    BY Zenon, <1>0, <1>7 DEF ApplyVersion, ApplyApplied, Awaited, Receive, SystemdGoto, Return, NewPcs
  <1>8. CASE RemoveExists \/ RemoveStopped
    BY Zenon, <1>0, <1>8 DEF RemoveExists, RemoveStopped, Awaited, Receive, SystemdGoto, Return, NewPcs
  <1>9. CASE Serve
    <2>1. /\ UNCHANGED <<serial, sdPc>> /\ queue # <<>> /\ queue' = Tail(queue)
          /\ unit' \in {unit, "starting", "stopping"}
      BY Zenon, <1>9 DEF Serve, Effect
    <2>2. /\ Tail(queue) \in Seq(Calls) /\ Len(Tail(queue)) = Len(queue) - 1 /\ Len(queue) \in Nat
          /\ \A i \in 1..Len(Tail(queue)) : Tail(queue)[i] = queue[i + 1]
      BY SMTT(30), <2>1 DEF QueueInv
    <2>. QED BY SMTT(30), <2>1, <2>2 DEF QueueInv
  <1>10. CASE StartJob \/ StopJob \/ Disturb
    BY Zenon, <1>10 DEF StartJob, StopJob, Disturb, QueueInv
  <1>11. CASE SystemdTerminated \/ UNCHANGED sdVars
    BY Zenon, <1>0, <1>11 DEF SystemdTerminated, sdVars
  <1>. QED BY Zenon, <1>1, <1>2, <1>3, <1>4, <1>5, <1>6, <1>7, <1>8, <1>9, <1>10, <1>11
           DEF SystemdNext, Client

-----------------------------------------------------------------------------
(* Steps of systemd. *)

\* What systemd leaves to the manager.
ServedPart == UNCHANGED <<parent, sub, late, sdPc, sdTodo, outcome, serial, sdLevel, enabled, tookOwn>>

\* A step of systemd leaves the operation of the manager where it is.
LEMMA ServedCourse ==
    ASSUME SdInv, ServedPart, disturbances' \in Nat
    PROVE  /\ Course' /\ (Adding' <=> Adding) /\ (Applying' <=> Applying) /\ (Astray' <=> Astray)
           /\ LastLevel' = LastLevel /\ UnitLevel' = UnitLevel
  BY Zenon, SameLevels DEF SdInv, ServedPart, Course, Adding, Applying, Astray

\* systemd answers a call: what the answer tells is true, and a call left over
\* from a timed out GetUnit moves no process and stops no unit.
LEMMA ServeStep ==
    ASSUME SdInv, QueueInv, Serve
    PROVE  SdInv'
PROOF
  <1>. USE DEF SdInv
  <1>1. ServedPart /\ disturbances' = disturbances /\ queue # <<>> /\ queue' = Tail(queue)
    BY Zenon DEF Serve, loops, ServedPart
  <1>2. PICK call : /\ call = Head(queue)
                    /\ inbox' = Append(inbox, [serial |-> call.serial,
                                               ok |-> Succeeds(call.member),
                                               signature |-> ReplySignature(call.member)])
                    /\ Effect(call.member)
    BY Zenon DEF Serve
  <1>3. /\ call = queue[1] /\ Len(queue) \in Nat \ {0} /\ Len(queue') = Len(queue) - 1
        /\ \A i \in 1..Len(queue') : queue'[i] = queue[i + 1]
    BY SMTT(30), <1>1, <1>2 DEF QueueInv
  <1>4. /\ Course' /\ (Adding' <=> Adding) /\ (Applying' <=> Applying) /\ (Astray' <=> Astray)
        /\ LastLevel' = LastLevel /\ UnitLevel' = UnitLevel
    BY Zenon, <1>1, ServedCourse DEF Course
  <1>5. ~Silent /\ \A m : ~Answered(m)
    BY Zenon, <1>1 DEF Silent, Answered
  <1>6. Adding /\ sdPc = "add.attached" => Asked("AttachProcessesToUnit")
    BY SMTT(30), <1>5 DEF Talk, Astray, Dialogue, Waiting, Course, EndPcs, Adding, Applying
  <1>7. ASSUME NEW m, Asked(m),
               m = "AttachProcessesToUnit" => sdPc = "add.attached",
               sdPc # "failed"
        PROVE  Waiting(m)'
    <2>1. call = [serial |-> serial, member |-> m] /\ inbox = <<>> /\ queue' = <<>>
      BY SMTT(30), <1>1, <1>2, <1>7 DEF Asked
    <2>2. inbox' = <<[serial |-> serial, ok |-> Succeeds(m), signature |-> ReplySignature(m)]>>
      BY SMTT(30), <1>2, <2>1
    <2>3. Succeeds(m) \in BOOLEAN /\ inbox'[1].ok = Succeeds(m)
      BY Zenon, <2>2 DEF Succeeds
    <2>4. Effect(m)
      BY SMTT(30), <1>2, <2>1
    <2>5. Tells(m, inbox[1])'
      <3>1. CASE m = "AttachProcessesToUnit"
        <4>1. Adding
          BY Zenon, <1>7, <3>1 DEF Course, AddPcs
        <4>2. disturbances = 0 /\ unit # "none" => unit = "active"
          BY Zenon, <1>7, <3>1, <4>1 DEF UnitInv, QueueInv
        <4>. QED BY Zenon, <1>1, <2>3, <2>4, <3>1, <4>2 DEF Tells, Effect, Succeeds
      <3>2. CASE m = "GetUnit"
        BY Zenon, <1>1, <2>3, <2>4, <3>2 DEF Tells, Effect, Succeeds
      <3>3. CASE m = "StopUnit"
        BY Zenon, <1>1, <2>3, <2>4, <3>3 DEF Tells, Effect, Succeeds
      <3>4. CASE m \notin {"AttachProcessesToUnit", "GetUnit", "StopUnit"}
        BY Zenon, <3>4 DEF Tells
      <3>. QED BY Zenon, <3>1, <3>2, <3>3, <3>4
    <2>. QED BY Zenon, <1>1, <2>1, <2>2, <2>3, <2>5 DEF Waiting, Answered, ServedPart
  <1>8. Talk'
    <2>1. ASSUME ~Astray PROVE Dialogue'
      BY Zenon, <1>1, <1>5, <1>7, <2>1 DEF Talk, Dialogue, Waiting, ServedPart
    <2>. QED BY Zenon, <1>1, <1>4, <2>1 DEF Talk, ServedPart
  <1>9. \/ (Adding \/ Applying) /\ sdPc \notin {"failed", "add.attached"}
        \/ outcome["apply"] = "ok"
        => call.member \notin {"StopUnit", "AttachProcessesToUnit"}
    BY SMTT(30), <1>3 DEF UnitInv, Mild
  <1>10. Adding /\ sdPc # "failed" /\ call.member = "StartTransientUnit" =>
           sdPc \in {"add.started", "add.wait"}
    <2>1. Adding /\ sdPc # "failed" =>
            \/ Asked("ControlGroup") \/ Asked("GetUnit") \/ Asked("AttachProcessesToUnit")
            \/ sdPc \in {"connect", "add.start", "add.started", "add.wait"}
      <3>1. Adding => sdTodo # <<>> /\ ~Applying /\ sdTodo # <<"remove">>
        <4>1. CASE sdTodo = <<"add_task">> BY Zenon, <4>1 DEF Applying
        <4>2. CASE sdTodo = <<"add_task", "apply">> BY Zenon, <4>2 DEF Applying
        <4>. QED BY Zenon, <4>1, <4>2 DEF Adding
      <3>2. Adding /\ sdPc # "failed" /\ sdPc \notin {"add.start", "add.started", "add.wait"} =>
              Dialogue /\ sdPc \in NewPcs \cup {"ready"} \cup AddPcs
        BY Zenon, <3>1 DEF Talk, Astray, Course, EndPcs
      <3>. QED BY Zenon, <1>5, <3>2 DEF Dialogue, Waiting, NewPcs, AddPcs
    <2>2. \A m : Asked(m) => call.member = m
      BY SMTT(30), <1>2 DEF Asked
    <2>3. sdPc = "connect" => call.member = "ControlGroup"
      BY SMTT(30), <1>3 DEF QueueInv, NewPcs
    <2>4. sdPc = "add.start" => call.member = "GetUnit"
      BY SMTT(30), <1>3 DEF UnitInv
    <2>. QED BY Zenon, <2>1, <2>2, <2>3, <2>4
  <1>11. UnitInv'
    <2>1. "self" \in members' => "self" \in joined'
      BY Zenon, <1>2 DEF UnitInv, Effect
    <2>2. joined \subseteq joined' /\ (stopped => stopped')
      BY Zenon, <1>2 DEF Effect
    <2>3. ~late => outcome["remove"] # "ok"
      BY Zenon, <1>5 DEF Course, Talk, Astray, Dialogue
    <2>4. /\ (Adding' \/ Applying') /\ sdPc' \notin {"failed", "add.attached"} => Mild'
          /\ outcome["apply"]' = "ok" => Mild'
          /\ sdPc' = "add.start" => \A i \in 1..Len(queue') : queue'[i].member = "GetUnit"
      BY SMTT(30), <1>1, <1>3, <1>4 DEF UnitInv, Mild, ServedPart
    <2>5. ASSUME Adding, sdPc # "failed", disturbances = 0
          PROVE  /\ unit' # "stopping"
                 /\ unit' = "starting" => sdPc \in {"add.started", "add.wait"}
                 /\ "self" \in members' => unit' = "active"
                 /\ unit' = "none" => members' = {}
      <3>1. call.member # "StopUnit"
        BY SMTT(30), <1>2, <1>6, <1>9, <2>5 DEF Asked
      <3>2. call.member = "AttachProcessesToUnit" => sdPc = "add.attached"
        BY Zenon, <1>9, <2>5
      <3>. QED BY Zenon, <1>2, <1>10, <2>5, <3>1, <3>2 DEF UnitInv, Effect, QueueInv
    <2>6. ASSUME Applying, sdPc # "failed", disturbances = 0
          PROVE  unit' = "active"
      <3>1. sdPc # "add.attached"
        BY Zenon, <2>6 DEF Course, Adding, Applying, AddPcs
      <3>. QED BY Zenon, <1>2, <1>9, <2>6, <3>1 DEF UnitInv, Effect
    <2>7. outcome' = outcome /\ sdPc' = sdPc /\ disturbances' = disturbances /\ late' = late
      BY Zenon, <1>1 DEF ServedPart
    <2>. QED BY Zenon, <1>4, <2>1, <2>2, <2>3, <2>4, <2>5, <2>6, <2>7 DEF UnitInv
  <1>12. LevelInv'
    <2>1. sdPc \in {"apply.set", "apply.applied"} \/ outcome["apply"] = "ok" =>
            ("sub" \notin joined => "sub" \notin joined')
      <3>1. sdPc \in {"apply.set", "apply.applied"} \/ outcome["apply"] = "ok" =>
              call.member # "AttachProcessesToUnit"
        BY Zenon, <1>9 DEF Course, ApplyPcs
      <3>. QED BY Zenon, <1>2, <3>1 DEF Effect
    <2>. QED BY Zenon, <1>1, <1>4, <2>1 DEF LevelInv, ServedPart
  <1>. QED BY Zenon, <1>4, <1>8, <1>11, <1>12

\* Jobs that systemd runs after it has answered, and other commands that stop
\* the unit, leave true what an unread answer tells.
LEMMA JobSteps ==
    ASSUME SdInv, QueueInv, StartJob \/ StopJob \/ Disturb
    PROVE  SdInv'
PROOF
  <1>. USE DEF SdInv
  <1>1. /\ ServedPart /\ UNCHANGED <<queue, inbox, stopped>>
        /\ \/ /\ unit = "starting" /\ unit' = "active" /\ members' = {"self"}
              /\ joined' = joined \cup {"self"} /\ disturbances' = disturbances
           \/ /\ unit = "stopping" /\ unit' = "none" /\ members' = {}
              /\ UNCHANGED <<joined, disturbances>>
           \/ /\ unit = "active" /\ unit' = "stopping" /\ UNCHANGED <<members, joined>>
              /\ disturbances' = disturbances + 1
    BY Zenon DEF StartJob, StopJob, Disturb, conn, loops, ServedPart
  <1>2. disturbances' \in Nat /\ (disturbances' = 0 => disturbances = 0 /\ unit # "active")
    BY SMTT(30), <1>1 DEF Course
  <1>3. /\ Course' /\ (Adding' <=> Adding) /\ (Applying' <=> Applying) /\ (Astray' <=> Astray)
        /\ LastLevel' = LastLevel /\ UnitLevel' = UnitLevel
    BY Zenon, <1>1, <1>2, ServedCourse
  <1>4. ASSUME NEW m, Waiting(m) PROVE Waiting(m)'
    <2>1. CASE Asked(m)
      BY Zenon, <1>1, <2>1 DEF Asked, Waiting, ServedPart
    <2>2. CASE Answered(m)
      <3>1. Tells(m, inbox[1])'
        BY Zenon, <1>1, <1>2, <2>2 DEF Answered, Tells, ServedPart
      <3>. QED BY Zenon, <1>1, <2>2, <3>1 DEF Answered, Waiting, ServedPart
    <2>. QED BY Zenon, <1>4, <2>1, <2>2 DEF Waiting
  <1>5. Talk'
    BY Zenon, <1>1, <1>3, <1>4 DEF Talk, Dialogue, Silent, ServedPart
  <1>6. UnitInv'
    BY Zenon, <1>1, <1>2, <1>3 DEF UnitInv, Mild, ServedPart
  <1>7. LevelInv'
    BY Zenon, <1>1, <1>2, <1>3 DEF LevelInv, ServedPart
  <1>. QED BY Zenon, <1>3, <1>5, <1>6, <1>7

\* A step that changes nothing keeps the invariant.
LEMMA SdStutter ==
    ASSUME SdInv, UNCHANGED sdVars
    PROVE  SdInv'
PROOF
  <1>. USE DEF SdInv
  <1>1. /\ ServedPart /\ Aside /\ UNCHANGED <<queue, inbox>>
    BY Zenon DEF sdVars, conn, systemd, loops, ServedPart, Aside
  <1>2. /\ Course' /\ (Adding' <=> Adding) /\ (Applying' <=> Applying) /\ (Astray' <=> Astray)
        /\ LastLevel' = LastLevel /\ UnitLevel' = UnitLevel
    BY Zenon, <1>1, ServedCourse DEF Aside, Course
  <1>3. ASSUME NEW m, Waiting(m) PROVE Waiting(m)'
    BY Zenon, <1>1, <1>3 DEF Waiting, Asked, Answered, Tells, ServedPart, Aside
  <1>4. Talk'
    BY Zenon, <1>1, <1>2, <1>3 DEF Talk, Dialogue, Silent, ServedPart
  <1>5. UnitInv' /\ LevelInv'
    BY SMTT(30), <1>1, <1>2 DEF UnitInv, LevelInv, Mild, ServedPart, Aside
  <1>. QED BY Zenon, <1>2, <1>4, <1>5

\* The invariant holds when Manager::new() is called.
LEMMA SdInit ==
    ASSUME YoukiPrograms, SystemdInit
    PROVE  SdInv /\ QueueInv
PROOF
  <1>1. PICK p \in Programs : sdTodo = p.ops /\ parent = p.parent /\ sub = p.sub
    BY Zenon DEF SystemdInit
  <1>2. /\ sdTodo \in {<<"add_task">>, <<"add_task", "apply">>, <<"apply">>, <<"remove">>}
        /\ parent \in Seq(STRING) /\ sub \in Seq(Seq(STRING))
    BY Zenon, <1>1 DEF YoukiPrograms
  <1>3. sdTodo # <<>> /\ (Applying => Head(sdTodo) = "apply" /\ ~Adding)
    <2>1. CASE sdTodo = <<"add_task">> BY Zenon, <2>1 DEF Applying
    <2>2. CASE sdTodo = <<"add_task", "apply">> BY Zenon, <2>2 DEF Applying
    <2>3. CASE sdTodo = <<"apply">> BY SMTT(30), <2>3 DEF Adding
    <2>4. CASE sdTodo = <<"remove">> BY Zenon, <2>4 DEF Applying
    <2>. QED BY Zenon, <1>2, <2>1, <2>2, <2>3, <2>4
  <1>4. Course
    BY Zenon, <1>2, <1>3 DEF SystemdInit, Course, Ops, Adding, Applying, NewPcs, EndPcs, AddPcs, ApplyPcs, RemovePcs
  <1>5. Talk
    BY Zenon DEF SystemdInit, Talk, Dialogue
  <1>6. UnitInv
    BY SMTT(30), <1>3 DEF SystemdInit, UnitInv, Mild
  <1>7. LevelInv
    BY Zenon DEF SystemdInit, LevelInv
  <1>8. QueueInv
    BY SMTT(30) DEF SystemdInit, QueueInv
  <1>. QED BY Zenon, <1>4, <1>5, <1>6, <1>7, <1>8 DEF SdInv

\* What the manager reports is done, for the programs youki runs: add_task()
\* that returned Ok has put the process in the unit, apply() that returned Ok
\* has handed the controllers down to the unit; and with timely replies every
\* reply taken is the answer to the call just made and remove() that returned
\* Ok has stopped the unit or found none.
THEOREM DoneAsReported ==
    ASSUME YoukiPrograms
    PROVE  SystemdSpec => []ReportedIsDone
PROOF
  <1>1. SystemdInit => SdInv /\ QueueInv
    BY Zenon, SdInit
  <1>2. SdInv /\ QueueInv /\ [SystemdNext]_sdVars => (SdInv /\ QueueInv)'
    <2>. SUFFICES ASSUME SdInv, QueueInv, [SystemdNext]_sdVars PROVE SdInv'
      BY Zenon, QueueSteps
    <2>1. CASE TryConnect \/ ConstructCgroupsPath \/ ControlCgroupRoot
      BY Zenon, <2>1, ConnectSteps
    <2>2. CASE Begin \/ SendNext
      BY Zenon, <2>2, CallSteps
    <2>3. CASE AddExists \/ AddAttached \/ AddStarted \/ AddWait
      BY Zenon, <2>3, AddSteps
    <2>4. CASE ApplyVersion
      BY Zenon, <2>4, ApplyVersionStep
    <2>5. CASE EnsureControllersAttached
      BY Zenon, <2>5, EnsureStep
    <2>6. CASE ApplyApplied
      BY Zenon, <2>6, ApplyAppliedStep
    <2>7. CASE RemoveExists \/ RemoveStopped
      BY Zenon, <2>7, RemoveSteps
    <2>8. CASE Serve
      BY Zenon, <2>8, ServeStep
    <2>9. CASE StartJob \/ StopJob \/ Disturb
      BY Zenon, <2>9, JobSteps
    <2>10. CASE SystemdTerminated \/ UNCHANGED sdVars
      BY Zenon, <2>10, SdStutter DEF SystemdTerminated
    <2>. QED BY Zenon, <2>1, <2>2, <2>3, <2>4, <2>5, <2>6, <2>7, <2>8, <2>9, <2>10 DEF SystemdNext, Client
  <1>3. SdInv => ReportedIsDone
    <2>1. SdInv => (LastLevel > UnitLevel => sub # <<>>)
      BY SMTT(30), LevelOrder DEF SdInv, Course
    <2>. QED BY Zenon, <2>1 DEF SdInv, Talk, UnitInv, LevelInv, Course, ReportedIsDone, OwnReply,
           AddedHasJoined, LimitsReachTheUnit, RemovedIsStopped
  <1>. QED BY <1>1, <1>2, <1>3, PTL DEF SystemdSpec
=============================================================================
