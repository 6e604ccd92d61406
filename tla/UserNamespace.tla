--------------------------- MODULE UserNamespace ---------------------------
(***************************************************************************)
(* The ids of a container with a new user namespace: the validation of the *)
(* spec and the lookup of newuidmap and newgidmap before the container is  *)
(* built (UserNamespaceConfig::new), the mappings the main process writes  *)
(* for the intermediate process (setup_mapping), and the ids and           *)
(* supplementary groups the container processes then take.                 *)
(*                                                                         *)
(* Ids are IdBits wide (32 in the code).  The parts of the kernel and of   *)
(* shadow-utils the code relies on are marked external in the comments.    *)
(***************************************************************************)
EXTENDS Integers, Sequences, FiniteSets

CONSTANTS IdBits, Spec0

Id == 0 .. 2^IdBits - 1
Mapping == [container : Id, host : Id, size : Id]

(* A spec: uid_mappings, gid_mappings, user (its uid), group (its gid),    *)
(* additional_gids and the uid= and gid= options of its mounts; and the machine: is the caller *)
(* root outside of any user namespace (privileged), its id, and which map  *)
(* binaries PATH finds.                                                    *)
VARIABLES
    userSpec, userPc,
    binaries,   \* newuidmap and newgidmap of UserNamespaceConfig are Some
    setgroups,  \* /proc/<pid>/setgroups: "allow" or "deny"
    map,        \* [uid, gid]: the mappings in force, <<>> before they are written
    ids,        \* [uid, gid, groups] of the container process
    error

userVars == <<userSpec, userPc, binaries, setgroups, map, ids, error>>

UsernsPc == {"validate", "lookup", "deny", "uidMap", "gidMap", "becomeRoot",
       "groups", "become", "running", "failed"}

UsernsTypeOK ==
    /\ userSpec \in Spec0
    /\ userPc \in UsernsPc
    /\ binaries \in BOOLEAN
    /\ setgroups \in {"allow", "deny"}
    /\ map.uid \in Seq(Mapping) /\ map.gid \in Seq(Mapping)
    /\ ids.uid \in Id \cup {-1} /\ ids.gid \in Id \cup {-1} /\ ids.groups \subseteq Id
    /\ (error # "") <=> (userPc = "failed")

UsernsInit ==
    /\ userSpec \in Spec0
    /\ userPc = "validate"
    /\ binaries = FALSE
    /\ setgroups = "allow"
    /\ map = [uid |-> <<>>, gid |-> <<>>]
    /\ ids = [uid |-> -1, gid |-> -1, groups |-> {}]
    /\ error = ""

UsernsFail(e) == userPc' = "failed" /\ error' = e
Step(next, e) == IF e = "" THEN userPc' = next /\ UNCHANGED error ELSE UsernsFail(e)

-----------------------------------------------------------------------------
(* Validation, before anything is created. *)

\* The ids a list of mappings makes valid inside the namespace.
Inside(mappings) ==
    UNION {mappings[i].container .. mappings[i].container + mappings[i].size - 1 : i \in DOMAIN mappings}

is_id_mapped(id, mappings) ==
    \E i \in DOMAIN mappings :
        LET m == mappings[i] IN id >= m.container /\ id <= (m.container + m.size) % 2^IdBits

\* The first complaint of validate_mounts_for_new_user_ns and of the match on
\* (privileged, additional_gids.is_empty()).
validate_spec_for_new_user_ns ==
    IF userSpec.uid_mappings = <<>> THEN "NoUIDMappings"
    ELSE IF userSpec.gid_mappings = <<>> THEN "NoGIDMapping"
    ELSE IF \E o \in userSpec.mount_uids : ~is_id_mapped(o, userSpec.uid_mappings) THEN "MountUidMapping"
    ELSE IF \E o \in userSpec.mount_gids : ~is_id_mapped(o, userSpec.gid_mappings) THEN "MountGidMapping"
    ELSE IF userSpec.privileged /\ \E g \in userSpec.additional_gids :
            ~is_id_mapped(g, userSpec.gid_mappings) THEN "GidNotMapped"
    ELSE IF ~userSpec.privileged /\ userSpec.additional_gids # {} THEN "UnprivilegedUser"
    ELSE ""

UsernsValidate ==
    /\ userPc = "validate"
    /\ Step("lookup", validate_spec_for_new_user_ns)
    /\ UNCHANGED <<userSpec, binaries, setgroups, map, ids>>

\* The helpers are looked up only when one of the lists needs them.
lookup_map_binaries ==
    /\ userPc = "lookup"
    /\ LET needed == Len(userSpec.uid_mappings) > 1 \/ Len(userSpec.gid_mappings) > 1
       IN  /\ binaries' = (needed /\ userSpec.installed)
           /\ Step("deny", IF needed /\ ~userSpec.installed THEN "BinaryNotFound" ELSE "")
    /\ UNCHANGED <<userSpec, setgroups, map, ids>>

-----------------------------------------------------------------------------
(* The main process serves the mapping request of the intermediate process. *)

DenySetgroups ==
    /\ userPc = "deny"
    /\ \/ /\ setgroups' = IF userSpec.privileged THEN setgroups ELSE "deny"
          /\ userPc' = "uidMap" /\ UNCHANGED error
       \/ ~userSpec.privileged /\ UsernsFail("SetGroupsDeny") /\ UNCHANGED setgroups
    /\ UNCHANGED <<userSpec, binaries, map, ids>>

\* The ids outside of the namespace a list of mappings stands for.
Outside(mappings) ==
    UNION {mappings[i].host .. mappings[i].host + mappings[i].size - 1 : i \in DOMAIN mappings}

\* External, the kernel: extents have a size and do not overlap; a caller
\* without privileges writes one extent of one id, its own, and the gid_map
\* only once setgroups is denied.
KernelAccepts(kind, mappings) ==
    /\ \A i \in DOMAIN mappings : mappings[i].size > 0
    /\ \A i, j \in DOMAIN mappings : i # j =>
           /\ Inside(<<mappings[i]>>) \cap Inside(<<mappings[j]>>) = {}
           /\ Outside(<<mappings[i]>>) \cap Outside(<<mappings[j]>>) = {}
    /\ \/ userSpec.privileged \/ Len(mappings) > 1
       \/ /\ mappings[1].size = 1
          /\ mappings[1].host = userSpec.caller
          /\ kind = "gid" => setgroups = "deny"

\* One mapping is written to the map file, and a refusal is an error.  More
\* are given to the helper, which may not be executable, and its exit status is
\* not looked at: a helper that refuses (subuid, subgid or the kernel) leaves
\* the map empty.
write_id_mapping(kind, mappings, next) ==
    IF Len(mappings) = 1
    THEN LET ok == KernelAccepts(kind, mappings)
         IN  /\ map' = [map EXCEPT ![kind] = IF ok THEN mappings ELSE <<>>]
             /\ Step(next, IF ok THEN "" ELSE "WriteIDMapping")
    ELSE IF ~binaries THEN UsernsFail("panic: map_binary is None") /\ UNCHANGED map
    ELSE \/ /\ \E allowed \in BOOLEAN :
                  map' = [map EXCEPT ![kind] =
                      IF allowed /\ KernelAccepts(kind, mappings) THEN mappings ELSE <<>>]
            /\ Step(next, "")
         \/ UsernsFail("Execute") /\ UNCHANGED map

write_uid_mapping ==
    /\ userPc = "uidMap"
    /\ write_id_mapping("uid", userSpec.uid_mappings, "gidMap")
    /\ UNCHANGED <<userSpec, binaries, setgroups, ids>>

write_gid_mapping ==
    /\ userPc = "gidMap"
    /\ write_id_mapping("gid", userSpec.gid_mappings, "becomeRoot")
    /\ UNCHANGED <<userSpec, binaries, setgroups, ids>>

-----------------------------------------------------------------------------
(* The container processes take their ids; an id the namespace does not map *)
(* is EINVAL (external, the kernel).                                        *)

\* set_id: setresgid, then setresuid.
SetId(uid, gid, next) ==
    LET ok == uid \in Inside(map.uid) /\ gid \in Inside(map.gid)
    IN  /\ ids' = IF ok THEN [ids EXCEPT !.uid = uid, !.gid = gid]
                  ELSE IF gid \in Inside(map.gid) THEN [ids EXCEPT !.gid = gid] ELSE ids
        /\ Step(next, IF ok THEN "" ELSE "SetId")
        /\ UNCHANGED <<userSpec, binaries, setgroups, map>>

\* set_id(0, 0) of the intermediate process once its mapping is acknowledged.
BecomeRoot == userPc = "becomeRoot" /\ SetId(0, 0, "groups")

(* mutant: the groups are not set in a user namespace *)
GroupsSkipped ==
    /\ userPc = "groups" /\ userPc' = "become"
    /\ UNCHANGED <<userSpec, binaries, setgroups, map, ids, error>>

set_supplementary_gids ==
    /\ userPc = "groups"
    /\ LET e == IF userSpec.additional_gids = {} THEN ""
                ELSE IF setgroups = "deny" THEN "SetGroupDisabled"
                ELSE IF ~userSpec.privileged THEN "panic: unreachable"
                ELSE IF ~(userSpec.additional_gids \subseteq Inside(map.gid)) THEN "SetGroups"
                ELSE ""
       IN  /\ ids' = IF e = "" THEN [ids EXCEPT !.groups = userSpec.additional_gids] ELSE ids
           /\ Step("become", e)
    /\ UNCHANGED <<userSpec, binaries, setgroups, map>>

\* set_id of the init process to the user and the group of the spec.
BecomeUser == userPc = "become" /\ SetId(userSpec.user, userSpec.group, "running")

UsernsStopped == userPc \in {"running", "failed"} /\ UNCHANGED userVars

UsernsNext ==
    \/ UsernsValidate \/ lookup_map_binaries \/ DenySetgroups
    \/ write_uid_mapping \/ write_gid_mapping
    \/ BecomeRoot \/ set_supplementary_gids \/ BecomeUser
    \/ UsernsStopped

UsernsSpec == UsernsInit /\ [][UsernsNext]_userVars

-----------------------------------------------------------------------------
(* Properties. *)

\* What validation promises the later steps: a spec that passed it never meets
\* the denied setgroups, the unreachable!() of set_supplementary_gids or the
\* unwrap() of a missing helper, whichever process runs into them.
NeverUnreachable ==
    error \notin {"SetGroupDisabled", "panic: unreachable", "panic: map_binary is None"}

\* A running container has the uid, the gid and the groups its spec asks for and
\* they are all mapped, although the validation looks at neither the uid nor the
\* gid and a helper that fails to write a map is not noticed when it fails.
RunsAsAsked ==
    userPc = "running" =>
        /\ ids.uid = userSpec.user /\ ids.gid = userSpec.group /\ ids.groups = userSpec.additional_gids
        /\ map.uid = userSpec.uid_mappings /\ map.gid = userSpec.gid_mappings
        /\ ids.uid \in Inside(map.uid) /\ {ids.gid} \cup ids.groups \subseteq Inside(map.gid)

\* The order of setup_mapping suffices for a caller without privileges: the
\* kernel never refuses the single mapping of the caller's own id.
OwnIdIsAccepted ==
    error = "WriteIDMapping" =>
        \E k \in {"uid_mappings", "gid_mappings"} :
            userSpec[k][1].size = 0 \/ (~userSpec.privileged /\
                (userSpec[k][1].size # 1 \/ userSpec[k][1].host # userSpec.caller))

\* Together: what a spec with a new user namespace may count on.
IdsAsAsked ==
    /\ RunsAsAsked
    /\ NeverUnreachable
    /\ OwnIdIsAccepted
=============================================================================
