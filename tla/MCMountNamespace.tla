-------------------------- MODULE MCMountNamespace --------------------------
(* Hosts with one mount, with /sys and a separate mount above the rootfs, with a mount on   *)
(* the rootfs itself, and with a mount inside the rootfs.                                   *)
EXTENDS MountNamespace

RootfsPath == <<"b", "r">>

HostLayouts == {{<<>>}, {<<>>, <<"sys">>, <<"b">>}, {<<>>, <<"proc">>, <<"b", "r">>},
                {<<>>, <<"b", "r">>, <<"sys">>, <<"b", "r", "v">>}}

TwoMounts == {<< <<"p">>, <<"p", "q">> >>}

HostLater == {<<"n">>}
=============================================================================
