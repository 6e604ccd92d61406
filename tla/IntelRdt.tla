------------------------------ MODULE IntelRdt ------------------------------
(***************************************************************************)
(* Intel RDT: a container is put into a resource control group (CLOS) of   *)
(* the resctrl filesystem, its own or one shared under a closID, and into  *)
(* a monitoring group below it.  Two containers are created and deleted    *)
(* side by side; every step of setup_intel_rdt that touches the filesystem *)
(* is a step of the model.                                                 *)
(*                                                                         *)
(* A schema is a sequence of lines <<resource, value>>; a line whose       *)
(* resource is "" carries no known prefix, a value "bad" does not parse.   *)
(***************************************************************************)
EXTENDS Integers, Sequences, FiniteSets, TLC

CONSTANTS
    Containers,   \* container ids
    Specs,        \* the linux.intelRdt sections a container may have
    Hosts,        \* sets of resources the kernel controls
    Prepared,     \* sets of groups the administrator made beforehand
    MaxClos       \* groups the hardware has beside the default one

VARIABLES
    host,     \* this machine's resources
    rdtSpec,     \* [container -> its intelRdt section]
    groups,   \* [group id -> [schema, mons]]
    task,     \* [container -> <<group, monitoring group>> of its init process]
    rdtPc,       \* [container -> step]
    created,  \* [container -> it made its group's directory]
    state     \* [container -> the paths recorded for its deletion]

rdtVars == <<host, rdtSpec, groups, task, rdtPc, created, state>>

Default == "default"
Id(c) == IF rdtSpec[c].clos = <<>> THEN c ELSE rdtSpec[c].clos[1]
ClosIdSet(c) == rdtSpec[c].clos # <<>>
NoPaths == [dir |-> <<>>, mon |-> <<>>]

-----------------------------------------------------------------------------
\* combine_l3_cache_and_mem_bw_schemas: the MB lines of the L3 schema go when a
\* memory bandwidth schema is given.
CombineL3CacheAndMemBwSchemas(l3, mb) ==
    IF l3 # <<>> /\ mb # <<>> THEN <<SelectSeq(l3[1], LAMBDA l : l[1] # "MB") \o mb[1]>>
    ELSE IF l3 # <<>> THEN l3 ELSE mb

\* get_schemata_data: the generic list comes after the legacy fields.
GetSchemataData(s) ==
    LET legacy == CombineL3CacheAndMemBwSchemas(s.l3, s.mb)
    IN  IF s.schemata = <<>> THEN legacy
        ELSE <<(IF legacy = <<>> THEN <<>> ELSE legacy[1]) \o s.schemata>>

HasSchemata(s) == s.l3 # <<>> \/ s.mb # <<>> \/ s.schemata # <<>>

\* parse_line over the lines of a schema: lines without a known prefix are dropped,
\* one that does not parse refuses the schema.
ParsedLines(lines) ==
    LET known == {l \in lines : l[1] # ""}
    IN  IF \E l \in known : l[2] = "bad" THEN <<>> ELSE <<known>>

\* is_same_schema: each way round, since lines may be repeated.
IsSameSchema(combined, existing) ==
    LET c == ParsedLines({combined[i] : i \in DOMAIN combined})
        e == ParsedLines(existing)
    IN  c # <<>> /\ e # <<>> /\ c[1] \subseteq e[1] /\ e[1] \subseteq c[1]

\* Kernel: the schemata file has a line for every resource; a write changes the resources
\* it names and is refused for an unknown or a repeated one.
SchemataFile(g) == {<<r, groups[g].schema[r]>> : r \in host}
Acceptable(lines) ==
    /\ \A i \in DOMAIN lines : lines[i][1] \in host /\ lines[i][2] # "bad"
    /\ \A i, j \in DOMAIN lines : lines[i][1] = lines[j][1] => i = j
Written(g, lines) ==
    [groups EXCEPT ![g].schema = [r \in host |->
        IF \E i \in DOMAIN lines : lines[i][1] = r
        THEN lines[CHOOSE i \in DOMAIN lines : lines[i][1] = r][2] ELSE @[r]]]
NewGroup == [schema |-> [r \in host |-> "full"], mons |-> {}]

-----------------------------------------------------------------------------
RdtInit ==
    /\ host \in Hosts /\ rdtSpec \in [Containers -> Specs]
    /\ groups \in {[g \in p |-> NewGroup] : p \in Prepared}
    /\ task = [c \in Containers |-> <<Default, "">>]
    /\ rdtPc = [c \in Containers |-> "setup"]
    /\ created = [c \in Containers |-> FALSE]
    /\ state = [c \in Containers |-> NoPaths]

RdtGoto(c, to) == rdtPc' = [rdtPc EXCEPT ![c] = to]

\* setup_resctrl_group, the test: a closID alone needs an existing directory.
CheckGroup(c) ==
    /\ rdtPc[c] = "setup"
    /\ IF Id(c) \in DOMAIN groups THEN RdtGoto(c, "tasks")
       ELSE IF ClosIdSet(c) /\ ~HasSchemata(rdtSpec[c]) THEN RdtGoto(c, "failed")
       ELSE RdtGoto(c, "mkdir")
    /\ UNCHANGED <<host, rdtSpec, groups, task, created, state>>

\* create_dir_all: no error when somebody else made it; refused when the hardware
\* has no class left.
MakeGroup(c) ==
    /\ rdtPc[c] = "mkdir"
    /\ IF Id(c) \notin DOMAIN groups /\ Cardinality(DOMAIN groups) >= MaxClos
       THEN RdtGoto(c, "failed") /\ UNCHANGED <<groups, created>>
       ELSE /\ groups' = groups @@ (Id(c) :> NewGroup)
            /\ created' = [created EXCEPT ![c] = TRUE] /\ RdtGoto(c, "tasks")
    /\ UNCHANGED <<host, rdtSpec, task, state>>

\* write_pid_to_tasks of the group: the process leaves any monitoring group.
WriteTasks(c) ==
    /\ rdtPc[c] = "tasks"
    /\ IF Id(c) \in DOMAIN groups
       THEN task' = [task EXCEPT ![c] = <<Id(c), "">>] /\ RdtGoto(c, "schemata")
       ELSE RdtGoto(c, "failed") /\ UNCHANGED task
    /\ UNCHANGED <<host, rdtSpec, groups, created, state>>

AfterSchemata(c) == IF rdtSpec[c].monitoring THEN "mon" ELSE "record"

\* write_resctrl_schemata: under a closID whose directory was there the schema is
\* compared, otherwise it is written.
WriteSchemata(c) ==
    /\ rdtPc[c] = "schemata"
    /\ LET data == GetSchemataData(rdtSpec[c])
           there == Id(c) \in DOMAIN groups
       IN  IF data = <<>> THEN RdtGoto(c, AfterSchemata(c)) /\ UNCHANGED groups
           ELSE IF ~there THEN RdtGoto(c, "failed") /\ UNCHANGED groups
           ELSE IF ClosIdSet(c) /\ ~created[c]
           THEN /\ RdtGoto(c, IF IsSameSchema(data[1], SchemataFile(Id(c)))
                           THEN AfterSchemata(c) ELSE "failed")
                /\ UNCHANGED groups
           ELSE IF ~Acceptable(data[1]) THEN RdtGoto(c, "failed") /\ UNCHANGED groups
           ELSE groups' = Written(Id(c), data[1]) /\ RdtGoto(c, AfterSchemata(c))
    /\ UNCHANGED <<host, rdtSpec, task, created, state>>

\* The monitoring group mon_groups/<container id>, then its tasks file, which the
\* kernel refuses for a process of another group.
MakeMonitoring(c) ==
    /\ rdtPc[c] = "mon"
    /\ IF Id(c) \in DOMAIN groups
       THEN groups' = [groups EXCEPT ![Id(c)].mons = @ \cup {c}] /\ RdtGoto(c, "montasks")
       ELSE RdtGoto(c, "failed") /\ UNCHANGED groups
    /\ UNCHANGED <<host, rdtSpec, task, created, state>>

WriteMonitoringTasks(c) ==
    /\ rdtPc[c] = "montasks"
    /\ IF Id(c) \in DOMAIN groups /\ task[c][1] = Id(c)
       THEN task' = [task EXCEPT ![c] = <<Id(c), c>>] /\ RdtGoto(c, "record")
       ELSE RdtGoto(c, "failed") /\ UNCHANGED task
    /\ UNCHANGED <<host, rdtSpec, groups, created, state>>

(* mutant: a shared group made by this container is recorded for deletion too *)
Record_shared(c) ==
    /\ rdtPc[c] = "record"
    /\ state' = [state EXCEPT ![c] =
                    [dir |-> IF created[c] THEN <<Id(c)>> ELSE <<>>,
                     mon |-> IF rdtSpec[c].monitoring THEN <<Id(c), c>> ELSE <<>>]]
    /\ RdtGoto(c, "running")
    /\ UNCHANGED <<host, rdtSpec, groups, task, created>>

\* The end of setup_intel_rdt, and the paths saved with the container's state:
\* the group only when it is the container's own and was made here.
Record(c) ==
    /\ rdtPc[c] = "record"
    /\ state' = [state EXCEPT ![c] =
                    [dir |-> IF ~ClosIdSet(c) /\ created[c] THEN <<Id(c)>> ELSE <<>>,
                     mon |-> IF rdtSpec[c].monitoring THEN <<Id(c), c>> ELSE <<>>]]
    /\ RdtGoto(c, "running")
    /\ UNCHANGED <<host, rdtSpec, groups, task, created>>

\* cleanup_intel_rdt, first the monitoring directory, then the group; a missing
\* directory is no error.  A failed create runs it with the paths recorded so far,
\* which are none.
CleanupMonitoring(c) ==
    /\ rdtPc[c] \in {"running", "failed"}
    /\ task' = [task EXCEPT ![c] = <<Default, "">>]
    /\ groups' = IF state[c].mon # <<>> /\ state[c].mon[1] \in DOMAIN groups
                 THEN [groups EXCEPT ![state[c].mon[1]].mons = @ \ {c}] ELSE groups
    /\ RdtGoto(c, IF rdtPc[c] = "running" THEN "deleting" ELSE "aborting")
    /\ UNCHANGED <<host, rdtSpec, created, state>>

\* rmdir of a group moves its processes to the default group.
CleanupGroup(c) ==
    /\ rdtPc[c] \in {"deleting", "aborting"}
    /\ IF state[c].dir # <<>> /\ state[c].dir[1] \in DOMAIN groups
       THEN /\ groups' = [g \in DOMAIN groups \ {state[c].dir[1]} |-> groups[g]]
            /\ task' = [d \in Containers |->
                          IF task[d][1] = state[c].dir[1] THEN <<Default, "">> ELSE task[d]]
       ELSE UNCHANGED <<groups, task>>
    /\ RdtGoto(c, IF rdtPc[c] = "deleting" THEN "deleted" ELSE "aborted")
    /\ UNCHANGED <<host, rdtSpec, created, state>>

Done == (\A c \in Containers : rdtPc[c] \in {"deleted", "aborted"}) /\ UNCHANGED rdtVars

RdtNext ==
    \/ \E c \in Containers :
        \/ CheckGroup(c) \/ MakeGroup(c) \/ WriteTasks(c) \/ WriteSchemata(c)
        \/ MakeMonitoring(c) \/ WriteMonitoringTasks(c) \/ Record(c)
        \/ CleanupMonitoring(c) \/ CleanupGroup(c)
    \/ Done

RdtSpec == RdtInit /\ [][RdtNext]_rdtVars

-----------------------------------------------------------------------------
\* What the variables hold, within the hardware's classes.
RdtTypeOK ==
    /\ host \in Hosts /\ rdtSpec \in [Containers -> Specs] /\ created \in [Containers -> BOOLEAN]
    /\ \A g \in DOMAIN groups : DOMAIN groups[g].schema = host /\ groups[g].mons \subseteq Containers
    /\ \A c \in Containers : task[c][1] \in DOMAIN groups \cup {Default}
    /\ Cardinality(DOMAIN groups) <= MaxClos

\* While a container runs its process is in its group, and in its monitoring group
\* when monitoring was asked for, whatever other containers are deleted: nobody
\* else's cleanup takes the group away.
StaysInItsGroup ==
    \A c \in Containers :
        rdtPc[c] = "running" =>
            task[c] = <<Id(c), IF rdtSpec[c].monitoring THEN c ELSE "">>

=============================================================================
