----------------------------- MODULE PortState -----------------------------
(***************************************************************************)
(* The state of one bridge port (PORT_T, rstplib/port.h) and of the bridge *)
(* that owns it (STPM_T, rstplib/stpm.h).                                  *)
(*                                                                         *)
(* The Boolean variables of a port are kept as the set "on" of those that  *)
(* are True, and its nine countdown timers as one function, as in the      *)
(* timers[] array of the C structure.  The state of each of the ten        *)
(* per-port state machines is a field named after the machine.             *)
(***************************************************************************)
EXTENDS Vectors, Sequences

CONSTANTS
  MigrateTime,  \* 3 seconds in the program (migrate.h)
  TxHoldCount   \* 6 in the program (stpm.h)

ASSUME LimitsAssumption == /\ MigrateTime \in Nat \ {0}
                           /\ TxHoldCount \in Nat \ {0}

\* Boolean members of PORT_T.
Flag == {"portEnabled", "AdminEdgePort", "operEdge", "admin_non_stp",
         "operPointToPointMac", "p2p_recompute", "sendRSTP", "mcheck",
         "rcvdBPDU", "rcvdMsg", "rcvdRSTP", "rcvdSTP",
         "rcvdTc", "rcvdTcn", "rcvdTcAck", "tcProp", "tcAck", "fbdFlush",
         "proposed", "proposing", "agree", "agreed",
         "sync", "synced", "reRoot",
         "learn", "learning", "forward", "forwarding",
         "reselect", "selected", "updtInfo", "newInfo"}

\* Members of timers[]; STP_stpm_one_second counts each of them down to 0.
Timer == {"edgeDelayWhile", "fdWhile", "helloWhen", "mdelayWhile", "rbWhile",
          "rcvdInfoWhile", "rrWhile", "tcWhile", "txCount"}

PortRole == {"DisabledPort", "AlternatePort", "BackupPort", "RootPort",
             "DesignatedPort", "NonStpPort"}

InfoIs == {"Mine", "Aged", "Received", "Disabled"}

RcvdInfo == {"SuperiorDesignatedInfo", "RepeatedDesignatedInfo",
             "InferiorDesignatedInfo", "InferiorRootAlternateInfo",
             "OtherInfo"}

\* The states of each machine; every one starts in BEGIN.
ReceiveState  == {"BEGIN", "DISCARD", "RECEIVE"}
MigrateState  == {"BEGIN", "CHECKING_RSTP", "SELECTING_STP", "SENSING"}
BrdgdetState  == {"BEGIN", "EDGE", "NOT_EDGE"}
P2pState      == {"BEGIN", "INIT", "RECOMPUTE", "STABLE"}
PcostState    == {"BEGIN", "AUTO", "FORCE", "STABLE"}
SttransState  == {"BEGIN", "DISCARDING", "LEARNING", "FORWARDING"}
TransmitState == {"BEGIN", "TRANSMIT_INIT", "TRANSMIT_PERIODIC", "IDLE",
                  "TRANSMIT_CONFIG", "TRANSMIT_TCN", "TRANSMIT_RSTP"}
TopochState   == {"BEGIN", "INACTIVE", "LEARNING", "DETECTED", "ACTIVE",
                  "ACKNOWLEDGED", "PROPAGATING", "NOTIFIED_TC",
                  "NOTIFIED_TCN"}
InfoState     == {"BEGIN", "DISABLED", "AGED", "UPDATE", "CURRENT", "RECEIVE",
                  "SUPERIOR_DESIGNATED", "REPEATED_DESIGNATED",
                  "INFERIOR_DESIGNATED", "NOT_DESIGNATED", "OTHER"}
RoletrnsState == {"BEGIN", "INIT_PORT", "DISABLE_PORT", "DISABLED_PORT",
                  "ROOT_PORT", "ROOT_PROPOSED", "ROOT_FORWARD", "ROOT_AGREED",
                  "ROOT_LEARN", "REROOT", "REROOTED",
                  "DESIGNATED_PORT", "DESIGNATED_PROPOSE",
                  "DESIGNATED_FORWARD", "DESIGNATED_SYNCED",
                  "DESIGNATED_LEARN", "DESIGNATED_RETIRED",
                  "DESIGNATED_DISCARD",
                  "ALTERNATE_PORT", "ALTERNATE_PROPOSED", "ALTERNATE_AGREED",
                  "BLOCK_PORT", "BACKUP_PORT"}
RoleselState  == {"BEGIN", "INIT_BRIDGE", "ROLE_SELECTION"}

(***************************************************************************)
(* What a BPDU carries.  "flags" is the flags octet without the port role  *)
(* it encodes, which is "role".  A Config BPDU has no role bits set.       *)
(***************************************************************************)
BpduType == {"CONFIG", "TCN", "RSTP"}
BpduRole == {"UNKN", "ALTBACK", "ROOT", "DESGN"}
BpduFlag == {"TOPOLOGY_CHANGE", "TOPOLOGY_CHANGE_ACK", "PROPOSAL",
             "LEARN", "FORWARD", "AGREEMENT"}
Bpdu == [type: BpduType, version: Nat, role: BpduRole,
         flags: SUBSET BpduFlag, vector: Vector, times: TimeValues]

\* What the port remembers of the last BPDU: the msg* members of PORT_T.
Message == [type: BpduType \cup {"NONE"}, version: Nat, role: BpduRole,
            flags: SUBSET BpduFlag, vector: Vector, times: TimeValues]

AdminP2P == {"P2P_FORCE_TRUE", "P2P_FORCE_FALSE", "P2P_AUTO"}

PortField ==
  {"receive", "migrate", "brdgdet", "p2p", "pcost", "info", "roletrns",
   "sttrans", "transmit", "topoch", "on", "timer", "role", "selectedRole",
   "infoIs", "rcvdInfo", "msg", "msgPortRole", "portId", "portPriority",
   "portTimes", "designatedPriority", "designatedTimes", "adminPCost",
   "operPCost", "operSpeed", "usedSpeed", "adminPointToPointMac",
   "osSpeed", "osDuplex"}

(***************************************************************************)
(* q is a port.  osSpeed and osDuplex are not in PORT_T: they are what     *)
(* STP_OUT_get_port_oper_speed and STP_OUT_get_duplex would answer now.    *)
(***************************************************************************)
IsPort(q) ==
  /\ DOMAIN q = PortField
  /\ q.receive \in ReceiveState
  /\ q.migrate \in MigrateState
  /\ q.brdgdet \in BrdgdetState
  /\ q.p2p \in P2pState
  /\ q.pcost \in PcostState
  /\ q.info \in InfoState
  /\ q.roletrns \in RoletrnsState
  /\ q.sttrans \in SttransState
  /\ q.transmit \in TransmitState
  /\ q.topoch \in TopochState
  /\ q.on \in SUBSET Flag
  /\ q.timer \in [Timer -> Nat]
  /\ q.role \in PortRole
  /\ q.selectedRole \in PortRole
  /\ q.infoIs \in InfoIs
  /\ q.rcvdInfo \in RcvdInfo
  /\ q.msg \in Message
  /\ q.msgPortRole \in BpduRole
  /\ q.portId \in Nat
  /\ q.portPriority \in Vector
  /\ q.portTimes \in TimeValues
  /\ q.designatedPriority \in Vector
  /\ q.designatedTimes \in TimeValues
  /\ q.adminPCost \in Nat
  /\ q.operPCost \in Nat
  /\ q.operSpeed \in Nat
  /\ q.usedSpeed \in Int
  /\ q.adminPointToPointMac \in AdminP2P
  /\ q.osSpeed \in Nat
  /\ q.osDuplex \in BOOLEAN

(***************************************************************************)
(* The bridge: STPM_T.  "ports" lists the indexes of the ports that exist, *)
(* the latest created first (STP_NEW_IN_LIST puts it at the head).  The    *)
(* bridge identifier is kept as its two parts.                             *)
(***************************************************************************)
BridgeField ==
  {"rolesel", "ports", "prio", "addr", "ForceVersion", "rstpVersion",
   "BridgeTimes", "rootPriority", "rootTimes", "rootPortId",
   "Topology_Change", "stp_enabled"}

ForceVersions == {0, 2}     \* FORCE_STP_COMPAT, NORMAL_RSTP

IsBridge(b) ==
  /\ DOMAIN b = BridgeField
  /\ b.rolesel \in RoleselState
  /\ b.ports \in Seq(Nat)
  /\ b.prio \in Nat
  /\ b.addr \in Nat
  /\ b.ForceVersion \in ForceVersions
  /\ b.rstpVersion \in BOOLEAN
  /\ b.BridgeTimes \in TimeValues
  /\ b.rootPriority \in Vector
  /\ b.rootTimes \in TimeValues
  /\ b.rootPortId \in Nat
  /\ b.Topology_Change \in BOOLEAN
  /\ b.stp_enabled \in BOOLEAN       \* admin_state

\* BRIDGE_ID: 16 bits of priority, then the MAC address.
MacSpan == 256
BridgeIdentifier(b) == b.prio * MacSpan + b.addr

\* portId: 8 bits of priority, then the port index.
MakePortId(prio, index) == 256 * prio + index

(***************************************************************************)
(* Small words for the updates below.                                      *)
(***************************************************************************)
Given(cond, flags) == IF cond THEN flags ELSE {}

\* port variables "selected && !updtInfo", the guard most transitions share
Settled(q) == "selected" \in q.on /\ "updtInfo" \notin q.on

=============================================================================
