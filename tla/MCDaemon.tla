------------------------------ MODULE MCDaemon ------------------------------
(***************************************************************************)
(* One or two bridges and one or two devices for TLC.                      *)
(***************************************************************************)
EXTENDS DaemonProperties

CONSTANTS b1, b2, d1, d2

OneBridge == {b1}
TwoBridges == {b1, b2}
OneDevice == {d1}
TwoDevices == {d1, d2}

KernelWith(stp_state, in, fwd) ==
  [bridges |-> Bridge,
   member |-> [d \in Device |-> IF d \in in THEN b1 ELSE NoBridge],
   port_no |-> [d \in Device |-> IF d \notin in THEN 0
                                 ELSE IF d = d1 THEN 1 ELSE 2],
   oper |-> [if \in Interface |-> TRUE],
   stp_state |-> [b \in Bridge |-> stp_state],
   state |-> [d \in Device |-> IF d \notin in THEN "disabled" ELSE fwd]]

OneIn == {KernelWith(2, {d1}, "blocking")}

None == {}
Blocked == {"Discarding"}
MCBridgeCfgs == {[prio |-> 0], [prio |-> 7]}
MCPortCfgs == {[cost |-> 9], [cost |-> 9, prio |-> 16], [prio |-> 17]}

=============================================================================
