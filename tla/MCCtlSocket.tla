---------------------------- MODULE MCCtlSocket ----------------------------
(***************************************************************************)
(* Commands of rstpctl for TLC.                                            *)
(***************************************************************************)
EXTENDS CtlProperties

CONSTANTS c1, c2

MCClient == {c1, c2}

Rstp == <<[cmd |-> "enable_bridge_rstp", fatal |-> TRUE]>>
SetHello == <<[cmd |-> "set_bridge_config", fatal |-> TRUE]>>
ShowBridge == [cmd |-> "get_bridge_state", fatal |-> FALSE]
ShowPort == [cmd |-> "get_port_state", fatal |-> FALSE]
IsBridge == [ShowBridge EXCEPT !.fatal = TRUE]

\* rstp, sethello, showbridge of two bridges, showport of one
\* port and of two
AllPrograms == {Rstp, SetHello, <<ShowBridge, ShowBridge>>,
                <<IsBridge, ShowPort>>, <<IsBridge, ShowPort, ShowPort>>}

=============================================================================
