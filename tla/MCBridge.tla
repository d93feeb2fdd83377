------------------------------ MODULE MCBridge ------------------------------
(***************************************************************************)
(* Small bridges for TLC: two or three ports, and the BPDUs and            *)
(* configurations they may be given.  The configuration files choose among *)
(* the sets below.                                                         *)
(***************************************************************************)
EXTENDS BridgeProperties

TwoPorts == {1, 2}
ThreePorts == {1, 2, 3}
MCPortMac == [p \in Port |-> 16 * p]
MCInitialPorts == <<2, 1>>
MCPortCfg == [mcheck |-> FALSE, adminPCost |-> 0, prio |-> 128,
              p2p |-> "P2P_AUTO", edge |-> FALSE, non_stp |-> FALSE]
\* the shortest times _check_stpm_config accepts
MCCfg == [prio |-> 32768, MaxAge |-> 6, HelloTime |-> 1, ForwardDelay |-> 4,
          ForceVersion |-> 2]

-----------------------------------------------------------------------------
(* BPDUs.  This bridge is Self; Best and Better would be its root, Worse   *)
(* would have it as its root.                                              *)

Self   == 32768 * MacSpan + 16
Best   == 7
Better == 4096 * MacSpan + 7
Worse  == 61440 * MacSpan + 7

Times(age) ==
  [MessageAge |-> age, MaxAge |-> 6, ForwardDelay |-> 4, HelloTime |-> 1]

\* port 1 of bridge "from", at a distance of "cost" from root "root"
Says(role, root, cost, from, flags, age) ==
  Carrying("RSTP", 2, role, flags,
           MakeVector(root, cost, from, MakePortId(128, 1), 0), Times(age))

Offer       == Says("DESGN", Better, 0, Better, {"PROPOSAL"}, 0)
BetterRoot  == Says("DESGN", Best, 100, Better, {"PROPOSAL"}, 1)
Aged        == Says("DESGN", Better, 0, Better, {"PROPOSAL"}, 6)
Inferior    == Says("DESGN", Worse, 0, Worse, {"LEARN"}, 0)
Agreement   == Says("ROOT", Self, 0, Self, {"AGREEMENT"}, 0)
\* port 1 of this bridge, heard by itself or by another port
Echo        == Says("DESGN", Self, 0, Self, {"PROPOSAL"}, 0)
Slower      == [Offer EXCEPT !.times.HelloTime = 2]
OldConfig   == [Offer EXCEPT !.type = "CONFIG", !.version = 0,
                                 !.role = "UNKN", !.flags = {}]
OldTcn      == [OldConfig EXCEPT !.type = "TCN"]

None == {}
EveryKind  == {Offer, BetterRoot, Aged, Inferior, Agreement, Echo, Slower,
               OldConfig, OldTcn}
RootMoves  == {Offer, BetterRoot, Aged, Echo, Inferior}
OldAndNew  == {Offer, OldConfig}
OldOnly    == {OldConfig}
OfferOnly  == {Offer}

-----------------------------------------------------------------------------
(* Configurations.                                                         *)

BridgeCfgsAll == {[ForceVersion |-> 0], [prio |-> 0], [prio |-> 5],
                  [stp_enabled |-> FALSE], [stp_enabled |-> TRUE]}
PortCfgsAll == {[mcheck |-> TRUE], [edge |-> TRUE, adminPCost |-> 7],
                [non_stp |-> TRUE, p2p |-> "P2P_FORCE_FALSE"],
                [non_stp |-> FALSE], [prio |-> 16],
                [mcheck |-> TRUE, prio |-> 17],
                [adminPCost |-> MaxPathCost + 1]}
PrioOnly == {[prio |-> 16]}
NonStpOnly == {[non_stp |-> TRUE]}
SlowLink == {10}

=============================================================================
