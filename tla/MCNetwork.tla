----------------------------- MODULE MCNetwork ------------------------------
(***************************************************************************)
(* Two bridges with two links between them.                                *)
(***************************************************************************)
EXTENDS Network

TwoPorts == {1, 2}
MCInitialPorts == <<2, 1>>
MCMacA == [p \in Port |-> 16 * p]
MCMacB == [p \in Port |-> 256 + 16 * p]
MCPortCfg == [mcheck |-> FALSE, adminPCost |-> 0, prio |-> 128,
              p2p |-> "P2P_AUTO", edge |-> FALSE, non_stp |-> FALSE]
MCCfg == [prio |-> 32768, MaxAge |-> 6, HelloTime |-> 1, ForwardDelay |-> 4,
          ForceVersion |-> 2]
None == {}
BecomesRoot == {[prio |-> 0]}

=============================================================================
