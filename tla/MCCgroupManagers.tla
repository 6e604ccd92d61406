-------------------------- MODULE MCCgroupManagers --------------------------
(***************************************************************************)
(* The cgroup managers: the file managers of cgroup v1 (CgroupV1) and v2   *)
(* (CgroupV2), the freezers of both (Freezer), and the systemd manager     *)
(* (SystemdManager) with the D-Bus client below it (DBusConnection).  A    *)
(* host uses one of them; every behaviour explores one.                    *)
(***************************************************************************)
EXTENDS Integers, Sequences, CgroupV1, CgroupV2, Freezer, SystemdManager

\* v1: hosts with joint and separate mounts; requests that fit, do not fit and name a
\* controller that is not mounted.  Then two containers below one parent.
Hosts == {{<<"cpu", "cpuacct">>, <<"cpuset">>}, {<<"net_prio", "net_cls">>, <<"cpuset">>},
          {<<"devices">>, <<"cpu">>}}
Limits == {<<>>, [x \in {"cpuset"} |-> {0}], [x \in {"cpuset"} |-> {2}],
           [x \in {"cpu", "cpuset"} |-> {1}]}
SiblingRequests == {[x \in {"cpuset"} |-> {0}]}

\* v2: containers a and b below the slice s, and places the runtime may not write to.
Job(id, kind, path) == [id |-> id, kind |-> kind, path |-> path]
Creators == {Job(1, "create", <<"s", "a">>), Job(2, "create", <<"s", "b">>),
             Job(3, "exec", <<"s", "a">>)}
Removers == {Job(1, "create", <<"s", "a">>), Job(2, "exec", <<"s", "a">>),
             Job(3, "remove", <<"s", "a">>)}
Child == Job(4, "forked", <<>>)
Denied == {{}, {<<>>}, {<<"s">>}, {<<"s", "a">>}}

\* systemd: youki create, delete and exec --cgroup.
Program(slice, below, ops) == [parent |-> slice, sub |-> below, ops |-> ops]
Slice == <<"machine", "a">>
YoukiPrograms == {Program(Slice, <<>>, <<"add_task", "apply">>), Program(<<"">>, <<>>, <<"apply">>),
             Program(Slice, <<>>, <<"remove">>), Program(Slice, <<<<"sub">>>>, <<"add_task">>),
             Program(<<"machine", "">>, <<>>, <<"add_task">>)}

\* D-Bus: the calls youki makes of systemd, with bodies whose strings and arrays have
\* lengths on both sides of every alignment, and answers to them.
Wire == INSTANCE DBusCodec
Str == {<<>>, <<65>>, <<65, 66, 67, 68, 69>>}
S == <<"s">>
V == <<"v">>
U == <<"u">>
Var(T, v) == [type |-> T, value |-> v]
Variants ==
    {Var(S, <<65, 66, 67>>), Var(<<"b">>, TRUE), Var(<<"t">>, 70000)}
      \cup {Var(<<"a", <<"y">>>>, a) : a \in {<<>>, <<3, 0, 1>>}}
      \cup {Var(<<"a", U>>, <<4242>>), Var(<<"a", <<"t">>>>, <<7, 300>>)}
      \cup {Var(<<"a", <<"r", <<"t">>>>>>, a) : a \in {<<>>, <<<<<<65>>, 9>>, <<<<>>, 258>>>>}}
      \cup {Var(<<"a", <<"r", S>>>>, <<<<<<65, 66>>, <<67>>>>, <<<<65>>, <<>>>>>>)}
Props == <<"a", <<"r", V>>>>
PropLists == {<<<<<<65>>, v>>, <<<<65, 66, 67, 68, 69>>, Var(<<"t">>, 1)>>>> :
                v \in {x \in Variants : x.type[1] # "b"}}

ReplyHeaders(sig) ==
    <<[kind |-> Wire!ReplySerial, value |-> 1], [kind |-> 7, value |-> <<58, 49>>]>>
      \o (IF sig = <<>> THEN <<>> ELSE <<[kind |-> Wire!BodySignature, value |-> sig]>>)
SignalMsg == [mtype |-> Wire!Signal, serial |-> 3, type |-> <<"*", <<U, S>>>>, value |-> <<5, <<65, 66>>>>,
              headers |-> <<[kind |-> 1, value |-> <<47, 97>>], [kind |-> 2, value |-> <<105>>],
                            [kind |-> 3, value |-> <<110>>],
                            [kind |-> Wire!BodySignature, value |-> Wire!GetSignature(<<"*", <<U, S>>>>)]>>]
Reply(T, v) == [mtype |-> Wire!MethodReturn, serial |-> 4, type |-> T, value |-> v,
                 headers |-> ReplyHeaders(Wire!GetSignature(T))]
Failure(s) == [mtype |-> Wire!ErrorReply, serial |-> 4, type |-> IF s = <<>> THEN <<"()">> ELSE S, value |-> s,
               headers |-> <<[kind |-> 4, value |-> <<101, 46>>]>>
                             \o ReplyHeaders(IF s = <<>> THEN <<>> ELSE Wire!GetSignature(S))]

\* A message of a type the client does not know.
Unknown == [Reply(<<"()">>, <<>>) EXCEPT !.mtype = 5]

BusCall(T, v, output, answers) == [type |-> T, value |-> v, output |-> output, answers |-> answers]
Done == {<<Reply(<<"()">>, <<>>)>>}
Calls ==
       {BusCall(<<"*", <<S, <<"b">>, Props>>>>, <<n, TRUE, p>>, <<"()">>, Done) :
          n \in Str, p \in PropLists \cup {<<>>}}
  \cup {BusCall(<<"*", <<S, S, Props, <<"a", <<"r", Props>>>>>>>>, <<<<65>>, <<65, 66>>, p, x>>, <<"()">>, Done) :
          p \in PropLists, x \in {<<>>, <<<<<<65>>, <<<<<<66>>, Var(<<"t">>, 2)>>>>>>>>}}
  \cup {BusCall(<<"*", <<S, S, <<"a", U>>>>>>, <<n, <<65>>, <<77>>>>, <<"()">>, Done) : n \in Str}
  \cup {BusCall(S, <<117>>, S, {<<Reply(S, s)>>, <<SignalMsg, Reply(<<"o">>, s)>>, <<SignalMsg, SignalMsg, Failure(s)>>}) :
          s \in Str}
  \cup {BusCall(<<"*", <<S, S>>>>, <<<<65>>, <<66>>>>, V, {<<SignalMsg, Reply(V, v)>>}) : v \in Variants}
  \cup {BusCall(<<"()">>, <<>>, S, {<<Reply(S, <<58>>)>>, <<SignalMsg, Unknown>>})}

\* GetUnit, StartTransientUnit, a property and AttachProcessesToUnit.
LateCalls ==
    {BusCall(S, <<117>>, S, {<<Reply(<<"o">>, <<47>>)>>, <<Failure(<<65>>)>>}),
     BusCall(<<"*", <<S, S>>>>, <<<<65>>, <<66>>>>, S, {<<SignalMsg, Reply(<<"o">>, <<47, 106>>)>>}),
     BusCall(<<"*", <<S, S>>>>, <<<<65>>, <<67>>>>, V, {<<Reply(V, Var(S, <<47>>))>>, <<SignalMsg, Unknown>>}),
     BusCall(<<"*", <<S, <<"a", U>>>>>>, <<<<65>>, <<77>>>>, <<"()">>, Done)}

-----------------------------------------------------------------------------
VARIABLES
    part,  \* the part this behaviour explores
    busId, busPc, calls, call, out, answer, own, read, stream, pos, busAt, ret, busResult

busVars == <<busId, busPc, calls, call, out, answer, own, read, stream, pos, busAt, ret, busResult>>
vars == <<part, v1Vars, v2Vars, frVars, sdVars, busVars>>

\* The constants of CgroupV1 are those of the part "v1": one container.  In the part
\* "v1 siblings" the two containers are alike, so what holds for the first holds for both.
V1S == INSTANCE CgroupV1
    WITH Containers <- {"c1", "c2"},
         Layouts <- {{<<"cpuset">>}, {<<"cpuset">>, <<"devices">>}},
         Requests <- SiblingRequests, MaxForks <- 0, Tries <- 1
V10 == INSTANCE CgroupV1
    WITH Layouts <- {{<<"cpuset">>}}, Requests <- {<<>>}, RootCpus <- {0}, MaxForks <- 0, Tries <- 1

\* The constants of CgroupV2 are those of the part "v2", in which cgroups are made.
V2R == INSTANCE CgroupV2
    WITH Jobs <- Removers, Available <- {"cpu"}, Needed <- {"cpu"}, Children <- {Child},
         Inner <- {"inner"}, HasKill <- BOOLEAN, Readonly <- {{}}, Rootless <- FALSE
V20 == INSTANCE CgroupV2 WITH Jobs <- {}, Readonly <- {{}}

F0 == INSTANCE Freezer WITH Versions <- {1}
M0 == INSTANCE SystemdManager
    WITH Programs <- {Program(Slice, <<>>, <<"remove">>)}, Buses <- {"system"},
         LateReplies <- {FALSE}

\* In the part "dbus" there is one call of any kind, in the part "dbus late" there are
\* several, whose answers may be late.
D == INSTANCE DBusConnection
    WITH Calls <- Calls, Chunks <- {1, 1000}, MaxCalls <- 1, id <- busId, pc <- busPc, at <- busAt,
         result <- busResult
DL == INSTANCE DBusConnection
    WITH Calls <- LateCalls, Chunks <- {13, 1000}, MaxCalls <- 3, id <- busId, pc <- busPc, at <- busAt,
         result <- busResult
D0 == INSTANCE DBusConnection
    WITH Calls <- {}, Chunks <- {1}, MaxCalls <- 1, id <- busId, pc <- busPc, at <- busAt,
         result <- busResult

\* One part starts in any of its initial states; the others stay in their first one.
Init ==
    /\ part \in {"v1", "v1 siblings", "v2", "v2 remove", "freezer", "systemd",
                "dbus", "dbus late"}
    /\ IF part = "v1" THEN V1Init ELSE IF part = "v1 siblings" THEN V1S!V1Init ELSE V10!V1Init
    /\ IF part = "v2" THEN V2Init ELSE IF part = "v2 remove" THEN V2R!V2Init ELSE V20!V2Init
    /\ IF part = "freezer" THEN FreezerInit ELSE F0!FreezerInit
    /\ IF part = "systemd" THEN SystemdInit ELSE M0!SystemdInit /\ unit = "none"
    /\ IF part = "dbus" THEN D!Init ELSE D0!Init /\ busId = <<>>

\* These parts may come to an end; the others never stop before they have returned.
PartEnds ==
    /\ part \in {"v1", "v1 siblings", "dbus", "dbus late"}
    /\ UNCHANGED vars

Next ==
    \/ part = "v1" /\ V1Next /\ UNCHANGED <<part, v2Vars, frVars, sdVars, busVars>>
    \/ part = "v1 siblings" /\ V1S!V1Next /\ UNCHANGED <<part, v2Vars, frVars, sdVars, busVars>>
    \/ part = "v2" /\ V2Next /\ UNCHANGED <<part, v1Vars, frVars, sdVars, busVars>>
    \/ part = "v2 remove" /\ V2R!V2Next /\ UNCHANGED <<part, v1Vars, frVars, sdVars, busVars>>
    \/ part = "freezer" /\ FreezerNext /\ UNCHANGED <<part, v1Vars, v2Vars, sdVars, busVars>>
    \/ part = "systemd" /\ SystemdNext /\ UNCHANGED <<part, v1Vars, v2Vars, frVars, busVars>>
    \/ part = "dbus" /\ D!Next /\ UNCHANGED <<part, v1Vars, v2Vars, frVars, sdVars>>
    \/ part = "dbus late" /\ DL!Next /\ UNCHANGED <<part, v1Vars, v2Vars, frVars, sdVars>>
    \/ PartEnds

Spec ==
    /\ Init /\ [][Next]_vars
    /\ \A c \in {"c1"} : WF_v1Vars(part = "v1" /\ Removing(c))
    /\ \A c \in {"c1", "c2"} : WF_v1Vars(part = "v1 siblings" /\ V1S!Removing(c))
    /\ \A j \in Creators : WF_v2Vars(part = "v2" /\ Command(j))
    /\ \A j \in Removers : WF_v2Vars(part = "v2 remove" /\ V2R!Command(j))
    /\ WF_frVars(part = "freezer" /\ PauseSteps)
    /\ WF_sdVars(part = "systemd" /\ Client)
    /\ WF_sdVars(part = "systemd" /\ Serve)
    /\ WF_sdVars(part = "systemd" /\ StartJob)
    /\ WF_sdVars(part = "systemd" /\ StopJob)

-----------------------------------------------------------------------------
\* The variables of each part have their types.
TypeOK ==
    /\ IF part = "v1 siblings" THEN V1S!V1TypeOK ELSE part = "v1" => V1TypeOK
    /\ part = "v2" => V2TypeOK
    /\ part = "v2 remove" => V2R!V2TypeOK
    /\ FreezerTypeOK /\ SystemdTypeOK /\ (IF part = "dbus late" THEN DL!TypeOK ELSE D!TypeOK)

\* D-Bus: a call goes out in the wire format, each value at an offset that fits its type.
\* It returns what the first reply in the socket says, which is its own as long as no
\* earlier call timed out, and the reply of such an earlier call after that.
ExchangeIsFaithful ==
    /\ D!CallIsMarshalled
    /\ D!ResultIsTheReply

\* Every operation comes to an end: remove in v1, also when a process it did not read keeps
\* a cgroup busy, the commands of v2, pause whatever the kernel does, and every call of the
\* systemd manager, late replies and a bus that cannot be reached included, as long as
\* systemd goes on with the requests and jobs it has accepted.
OperationsEnd ==
    /\ RemoveEnds
    /\ <>(part = "v2" => AllEnded) /\ <>(part = "v2 remove" => V2R!AllEnded)
    /\ part = "freezer" => PauseEnds
    /\ part = "systemd" => Returns
=============================================================================
