----------------------------- MODULE PortProofs -----------------------------
(***************************************************************************)
(* Lemmas about the machines of one port and about role selection: each    *)
(* enter_state takes a port to a port, keeps it enabled, and leaves the    *)
(* flags "selected" and "reselect" opposite.                               *)
(***************************************************************************)
EXTENDS PortInfo, PortProtocol, TopologyChange, RoleTransitions, Transmit,
        RoleSelection, TLAPS

\* What is true of a port between any two transitions: it is enabled, and
\* either selected or waiting for the next selection.
InService(q) ==
  /\ "portEnabled" \in q.on
  /\ "selected" \in q.on <=> "reselect" \notin q.on

\* The flags InService is about are the same in q and in r.
SameService(q, r) ==
  \A f \in {"portEnabled", "selected", "reselect"} : f \in r.on <=> f \in q.on

-----------------------------------------------------------------------------
(* Types.                                                                  *)

\* receive.c: entering a state of the Port Receive machine leaves a port.
LEMMA ReceiveType ==
  ASSUME NEW q, IsPort(q), NEW to \in ReceiveState
  PROVE  IsPort(ReceiveEnter(q, to))
<1>1. MigrateTime \in Nat
  BY LimitsAssumption
<1>2. BpduVersion(q) \in SUBSET Flag
  BY DEF BpduVersion, Given, Flag
<1> QED
  BY <1>1, <1>2, SMT DEF IsPort, ReceiveEnter, PortField, Flag, Timer

\* migrate.c: entering a state of Port Protocol Migration leaves a port.
LEMMA MigrateType ==
  ASSUME NEW q, IsPort(q), NEW b, NEW to \in MigrateState
  PROVE  IsPort(MigrateEnter(q, b, to))
<1>1. MigrateTime \in Nat
  BY LimitsAssumption
<1> QED
  BY <1>1, SMT DEF IsPort, MigrateEnter, PortField, Flag, Timer, Given

\* brdgdet.c: entering a state of Bridge Detection leaves a port.
LEMMA BrdgdetType ==
  ASSUME NEW q, IsPort(q), NEW to \in BrdgdetState
  PROVE  IsPort(BrdgdetEnter(q, to))
BY SMT DEF IsPort, BrdgdetEnter, PortField, Flag, BrdgdetState

\* p2p.c: entering a state of the Point-to-Point machine leaves a port.
LEMMA P2pType ==
  ASSUME NEW q, IsPort(q), NEW to \in P2pState
  PROVE  IsPort(P2pEnter(q, to))
BY SMT DEF IsPort, P2pEnter, PortField, Flag, P2pState, Given

\* pcost.c: a path cost is a natural number, whatever the speed.
LEMMA AutoPCostType ==
  ASSUME NEW speed \in Nat
  PROVE  AutoPCost(speed) \in Nat
BY SMT DEF AutoPCost

\* pcost.c: entering a state of the Port Path Cost machine leaves a port.
LEMMA PcostType ==
  ASSUME NEW q, IsPort(q), NEW to \in PcostState
  PROVE  IsPort(PcostEnter(q, to))
<1>1. AutoPCost(q.osSpeed) \in Nat
  BY AutoPCostType DEF IsPort
<1> QED
  BY <1>1, SMT DEF IsPort, PcostEnter, PortField, Flag, PcostState

\* sttrans.c: entering a state of Port State Transition leaves a port.
LEMMA SttransType ==
  ASSUME NEW q, IsPort(q), NEW to \in SttransState
  PROVE  IsPort(SttransEnter(q, to))
BY SMT DEF IsPort, SttransEnter, PortField, Flag, SttransState

\* topoch.c: entering a state of the Topology Change machine leaves a port.
LEMMA TopochType ==
  ASSUME NEW q, IsPort(q), NEW b, IsBridge(b), NEW to \in TopochState
  PROVE  IsPort(TopochEnter(q, b, to))
<1>1. NewTcWhile(q, b) \in Nat
  <2> b.rootTimes \in TimeValues /\ q.designatedTimes \in TimeValues
    BY DEF IsPort, IsBridge
  <2>1. /\ b.rootTimes.MaxAge \in Nat /\ b.rootTimes.ForwardDelay \in Nat
        /\ q.designatedTimes.HelloTime \in Nat
    BY SMT DEF TimeValues
  <2>2. q.timer["tcWhile"] \in Nat
    BY SMT DEF IsPort, Timer
  <2> QED
    BY <2>1, <2>2, SMT DEF NewTcWhile
<1>2. NewTcInfo(q) \in SUBSET Flag
  BY DEF NewTcInfo, Given, Flag
<1> QED
  BY <1>1, <1>2, SMT
     DEF IsPort, TopochEnter, Inactive, PortField, Flag, Timer, TopochState,
         Given

\* roletrns.c: entering a state of Port Role Transitions leaves a port.
LEMMA RoletrnsType ==
  ASSUME NEW q, IsPort(q), NEW b, IsBridge(b), NEW to \in RoletrnsState
  PROVE  IsPort(RoletrnsEnter(q, b, to))
<1>1. /\ b.rootTimes.ForwardDelay \in Nat
      /\ b.rootTimes.MaxAge \in Nat
      /\ 2 * b.rootTimes.HelloTime \in Nat
  BY SMT DEF IsBridge, TimeValues
<1>2. EdgeDelay(q, b) \in Nat
  BY <1>1, LimitsAssumption DEF EdgeDelay
<1>3. ASSUME NEW off, NEW set \in SUBSET Flag
      PROVE  IsPort(Moved(q, to, off, set))
  BY <1>3, SMT DEF IsPort, Moved, PortField
<1>4. ASSUME NEW r, IsPort(r), NEW t \in Timer, NEW n \in Nat
      PROVE  IsPort(Timed(r, t, n))
  BY <1>4, SMT DEF IsPort, Timed, PortField
<1>5. IsPort(InitPort(q, b, to))
  BY <1>1, SMT DEF IsPort, InitPort, PortField, PortRole, Timer
<1>6. IsPort(TakeRole(q, to))
  BY SMT DEF IsPort, TakeRole, PortField
<1>7. ASSUME NEW n \in Nat
      PROVE  IsPort(Retired(q, to, n))
  BY <1>7, SMT DEF IsPort, Retired, PortField, Flag, Timer
<1>8. CASE to \in {"BEGIN", "INIT_PORT", "DISABLE_PORT", "BLOCK_PORT",
                   "DISABLED_PORT", "ALTERNATE_PORT"}
  <2>1. CASE to \in {"BEGIN", "INIT_PORT"}
    BY <1>5, <2>1 DEF RoletrnsEnter
  <2>2. CASE to \in {"DISABLE_PORT", "BLOCK_PORT"}
    BY <1>6, <2>2 DEF RoletrnsEnter
  <2>3. CASE to = "DISABLED_PORT"
    BY <1>1, <1>7, <2>3 DEF RoletrnsEnter
  <2>4. CASE to = "ALTERNATE_PORT"
    BY <1>1, <1>7, <2>4 DEF RoletrnsEnter
  <2> QED
    BY <1>8, <2>1, <2>2, <2>3, <2>4
<1>9. CASE to \in {"ROOT_PORT", "DESIGNATED_PORT"}
  <2>1. ASSUME NEW r, IsPort(r), NEW role \in PortRole
        PROVE  IsPort([r EXCEPT !.roletrns = to, !.role = role])
    BY <2>1, SMT DEF IsPort, PortField
  <2>2. /\ "rrWhile" \in Timer
        /\ "RootPort" \in PortRole /\ "DesignatedPort" \in PortRole
    BY DEF Timer, PortRole
  <2> QED
    BY <1>1, <1>4, <1>9, <2>1, <2>2 DEF RoletrnsEnter
<1>10. CASE to \in {"ROOT_PROPOSED", "ALTERNATE_PROPOSED", "ROOT_AGREED",
                    "ALTERNATE_AGREED", "REROOT", "REROOTED",
                    "DESIGNATED_RETIRED"}
  <2>1. {} \in SUBSET Flag /\ {"agree", "newInfo"} \in SUBSET Flag
    BY DEF Flag
  <2> QED
    BY <1>3, <1>10, <2>1 DEF RoletrnsEnter
<1>11. CASE to \in {"ROOT_FORWARD", "ROOT_LEARN", "DESIGNATED_LEARN",
                    "DESIGNATED_PROPOSE", "DESIGNATED_FORWARD",
                    "DESIGNATED_SYNCED", "DESIGNATED_DISCARD", "BACKUP_PORT"}
  <2>1. /\ {} \in SUBSET Flag /\ {"forward"} \in SUBSET Flag
        /\ {"learn"} \in SUBSET Flag /\ {"synced"} \in SUBSET Flag
        /\ {"proposing", "newInfo"} \in SUBSET Flag
        /\ {"forward"} \cup Given("sendRSTP" \in q.on, {"agreed"})
             \in SUBSET Flag
    BY DEF Flag, Given
  <2>2. /\ "fdWhile" \in Timer /\ "rrWhile" \in Timer
        /\ "rbWhile" \in Timer /\ "edgeDelayWhile" \in Timer
    BY DEF Timer
  <2> QED
    BY <1>1, <1>2, <1>3, <1>4, <1>11, <2>1, <2>2 DEF RoletrnsEnter
<1> QED
  BY <1>8, <1>9, <1>10, <1>11 DEF RoletrnsState

\* transmit.c: entering a state of Port Transmit leaves a port.
LEMMA TransmitType ==
  ASSUME NEW q, IsPort(q), NEW b, IsBridge(b), NEW to \in TransmitState
  PROVE  IsPort(TransmitEnter(q, b, to))
<1>1. /\ q.timer["txCount"] + 1 \in Nat
      /\ b.rootTimes.HelloTime \in Nat
  <2>1. q.timer["txCount"] \in Nat
    BY SMT DEF IsPort, Timer
  <2>2. b.rootTimes \in TimeValues
    BY DEF IsBridge
  <2> QED
    BY <2>1, <2>2, SMT DEF TimeValues
<1> QED
  BY <1>1, SMT
     DEF IsPort, TransmitEnter, PortField, Flag, Timer, TransmitState, Given

\* portinfo.c, updtRcvdInfoWhile: never a negative time.
LEMMA LifetimeType ==
  ASSUME NEW t \in TimeValues
  PROVE  Lifetime(t) \in Nat
<1>1. t.MaxAge \in Nat /\ t.MessageAge \in Nat /\ t.HelloTime \in Nat
  BY SMT DEF TimeValues
<1>2. t.MaxAge \div 16 \in Nat
  BY <1>1, SMT
<1> QED
  BY <1>1, <1>2, SMT DEF Lifetime

\* portinfo.c: entering a state of Port Information leaves a port.
LEMMA InfoType ==
  ASSUME NEW q, IsPort(q), NEW b, NEW to \in InfoState
  PROVE  IsPort(InfoEnter(q, b, to))
<1>1. /\ q.portTimes \in TimeValues /\ q.portPriority \in Vector
      /\ q.designatedPriority \in Vector
      /\ q.designatedTimes \in TimeValues
      /\ q.msg \in Message
  BY DEF IsPort
<1>2. /\ q.msg.times \in TimeValues /\ q.msg.vector \in Vector
      /\ q.msg.role \in BpduRole /\ q.msg.version \in Nat
  BY <1>1, SMT DEF Message
<1>3. /\ Proposal(q) \in SUBSET Flag
      /\ TcFlags(q) \in SUBSET Flag
  BY DEF Proposal, TcFlags, Given, Flag
<1>4. /\ Lifetime(q.msg.times) \in Nat
      /\ Lifetime(q.portTimes) \in Nat
  BY <1>1, <1>2, LifetimeType
<1>5. RcvInfo(q) \in RcvdInfo
  BY DEF RcvInfo, RcvdInfo
<1>6. ConveyedRole(q.msg) \in BpduRole
  BY <1>2 DEF ConveyedRole, BpduRole
<1>7. IsPort(InfoDisabled(q))
  BY SMT DEF InfoDisabled, IsPort, PortField, Flag, Timer, InfoState, InfoIs
<1>8. IsPort(InfoBegin(q))
  <2>1. [type |-> "NONE", version |-> q.msg.version, role |-> "UNKN",
         flags |-> {}, vector |-> q.msg.vector, times |-> q.msg.times]
          \in Message
    BY <1>2, SMT DEF Message, BpduType, BpduRole, BpduFlag
  <2>2. ASSUME NEW d, IsPort(d), NEW m \in Message
        PROVE  IsPort([d EXCEPT !.info = "BEGIN", !.msgPortRole = "UNKN",
                                !.msg = m])
    BY <2>2, SMT DEF IsPort, PortField, InfoState, BpduRole
  <2> QED
    BY <1>7, <2>1, <2>2 DEF InfoBegin
<1>9. IsPort(InfoAged(q))
  BY SMT DEF InfoAged, IsPort, PortField, Flag, InfoState, InfoIs
<1>10. IsPort(InfoUpdate(q))
  BY SMT DEF InfoUpdate, IsPort, PortField, Flag, InfoState, InfoIs
<1>11. IsPort(InfoReceive(q))
  BY <1>5, <1>6, SMT DEF InfoReceive, IsPort, PortField, InfoState
<1>12. IsPort(InfoSuperior(q))
  BY <1>2, <1>3, <1>4, SMT
     DEF InfoSuperior, IsPort, PortField, Flag, Timer, InfoState, InfoIs
<1>13. IsPort(InfoRepeated(q))
  BY <1>3, <1>4, SMT
     DEF InfoRepeated, IsPort, PortField, Timer, InfoState
<1>14. IsPort(InfoInferior(q))
  BY SMT DEF InfoInferior, IsPort, PortField, Flag, InfoState, Given
<1>15. IsPort(InfoNotDesignated(q, b))
  BY <1>3, SMT
     DEF InfoNotDesignated, IsPort, PortField, Flag, InfoState, Given
<1>16. /\ IsPort([q EXCEPT !.info = "CURRENT"])
       /\ IsPort([q EXCEPT !.info = "OTHER", !.on = q.on \ {"rcvdMsg"}])
  BY SMT DEF IsPort, PortField, InfoState
<1>17. CASE to \in {"BEGIN", "DISABLED", "AGED", "UPDATE", "CURRENT"}
  BY <1>7, <1>8, <1>9, <1>10, <1>16, <1>17 DEF InfoEnter
<1>18. CASE to \in {"RECEIVE", "SUPERIOR_DESIGNATED", "REPEATED_DESIGNATED"}
  BY <1>11, <1>12, <1>13, <1>18 DEF InfoEnter
<1>19. CASE to \in {"INFERIOR_DESIGNATED", "NOT_DESIGNATED", "OTHER"}
  BY <1>14, <1>15, <1>16, <1>19 DEF InfoEnter
<1> QED
  BY <1>17, <1>18, <1>19 DEF InfoState

\* portinfo.c, STP_info_rx_bpdu: a BPDU of any kind leaves a port.
LEMMA InfoRxBpduType ==
  ASSUME NEW q, IsPort(q), NEW b, NEW m \in Bpdu
  PROVE  IsPort(InfoRxBpdu(q, b, m))
<1>1. /\ q.msg \in Message /\ q.portId \in Nat
  BY DEF IsPort
<1>2. OnArrival(m.vector, q.portId) \in Vector
  <2>1. m.vector \in Vector
    BY SMT DEF Bpdu
  <2> QED
    BY <1>1, <2>1, SMT DEF OnArrival, Vector
<1>3. [type |-> m.type, version |-> m.version, role |-> q.msg.role,
       flags |-> q.msg.flags, vector |-> q.msg.vector,
       times |-> q.msg.times] \in Message
  BY <1>1, SMT DEF Message, Bpdu
<1>4. [type |-> m.type, version |-> m.version, role |-> m.role,
       flags |-> m.flags, vector |-> OnArrival(m.vector, q.portId),
       times |-> m.times] \in Message
  BY <1>2, SMT DEF Message, Bpdu
<1>5. ASSUME NEW msg \in Message
      PROVE  IsPort([q EXCEPT !.on = q.on \cup {"rcvdBPDU"}, !.msg = msg])
  BY <1>5, SMT DEF IsPort, PortField, Flag
<1> QED
  BY <1>3, <1>4, <1>5 DEF InfoRxBpdu

-----------------------------------------------------------------------------
(* Types of role selection, rolesel.c.                                     *)

\* The vectors it compares and installs are vectors.
LEMMA VectorFromType ==
  ASSUME NEW b, IsBridge(b), NEW ports, NEW source,
         source # 0 => IsPort(ports[source])
  PROVE  VectorFrom(b, ports, source) \in Vector
<1>1. CASE source = 0
  <2>1. BridgeIdentifier(b) \in Nat
    BY SMT DEF IsBridge, BridgeIdentifier, MacSpan
  <2> QED
    BY <1>1, <2>1, SMT DEF VectorFrom, BridgePriority, MakeVector, Vector
<1>2. CASE source # 0
  <2> DEFINE q == ports[source]
  <2>1. q.portPriority \in Vector /\ q.portId \in Nat
    BY <1>2 DEF IsPort
  <2>2. RootPath(q) \in Vector
    BY <2>1, SMT DEF RootPath, Vector
  <2> QED
    BY <1>2, <2>2 DEF VectorFrom
<1> QED
  BY <1>1, <1>2

\* updtRootPriority and the times that go with it leave a bridge.
LEMMA WithRootType ==
  ASSUME NEW b, IsBridge(b), NEW ports, NEW source,
         source # 0 => IsPort(ports[source])
  PROVE  IsBridge(WithRoot(b, ports, source))
<1> DEFINE v == VectorFrom(b, ports, source)
           t == IF source = 0 THEN b.BridgeTimes
                ELSE OneHopOlder(ports[source].portTimes)
<1>1. v \in Vector /\ v.bridge_port \in Nat
  <2>1. v \in Vector
    BY VectorFromType
  <2> HIDE DEF v
  <2> QED
    BY <2>1, SMT DEF Vector
<1>2. t \in TimeValues
  <2>1. ASSUME NEW u \in TimeValues
        PROVE  OneHopOlder(u) \in TimeValues
    <3>1. u.MaxAge \in Nat /\ u.MessageAge \in Nat
      BY SMT DEF TimeValues
    <3>2. (8 + u.MaxAge) \div 16 \in Nat
      BY <3>1, SMT
    <3> QED
      BY <3>1, <3>2, SMT DEF OneHopOlder, TimeValues
  <2>2. b.BridgeTimes \in TimeValues
    BY DEF IsBridge
  <2>3. source # 0 => ports[source].portTimes \in TimeValues
    BY DEF IsPort
  <2> QED
    BY <2>1, <2>2, <2>3
<1>3. WithRoot(b, ports, source) =
        [b EXCEPT !.rolesel = "ROLE_SELECTION", !.rootPriority = v,
                  !.rootTimes = t, !.rootPortId = v.bridge_port]
  BY DEF WithRoot
<1> HIDE DEF v, t
<1> QED
  BY <1>1, <1>2, <1>3, SMT DEF IsBridge, BridgeField, RoleselState

\* updtRolesTree: the role given is a role.
LEMMA RoleForType ==
  ASSUME NEW b, NEW q, IsPort(q)
  PROVE  RoleFor(b, q) \in PortRole
<1>1. CASE "admin_non_stp" \in q.on
  BY <1>1 DEF RoleFor, PortRole, Offers
<1>2. CASE "admin_non_stp" \notin q.on /\ q.infoIs = "Received"
  BY <1>2 DEF RoleFor, PortRole, Offers
<1>3. CASE "admin_non_stp" \notin q.on /\ q.infoIs # "Received"
  BY <1>3 DEF RoleFor, PortRole, Offers, IsPort, InfoIs
<1> QED
  BY <1>1, <1>2, <1>3

\* updtRolesTree and setSelectedTree leave a port.
LEMMA WithRoleType ==
  ASSUME NEW b, IsBridge(b), NEW q, IsPort(q)
  PROVE  IsPort(WithRole(b, q))
<1>1. RoleFor(b, q) \in PortRole
  BY RoleForType
<1>2. DesignatedVector(b, q) \in Vector
  <2>1. /\ BridgeIdentifier(b) \in Nat
        /\ b.rootPriority \in Vector /\ q.portId \in Nat
    BY SMT DEF IsBridge, IsPort, BridgeIdentifier, MacSpan
  <2> QED
    BY <2>1, SMT DEF DesignatedVector, MakeVector, Vector
<1>3. DesignatedTimes(b) \in TimeValues
  <2>1. b.rootTimes \in TimeValues /\ b.BridgeTimes \in TimeValues
    BY DEF IsBridge
  <2> QED
    BY <2>1, SMT DEF DesignatedTimes, TimeValues
<1>4. CASE "admin_non_stp" \in q.on
  BY <1>4, SMT
     DEF WithRole, WithoutProtocol, IsPort, PortField, PortRole, Flag
<1>5. CASE "admin_non_stp" \notin q.on
  BY <1>1, <1>2, <1>3, <1>5, SMT
     DEF WithRole, IsPort, PortField, Flag, Given
<1> QED
  BY <1>4, <1>5

\* updtRoleDisableTree leaves a port.
LEMMA WithoutRoleType ==
  ASSUME NEW q, IsPort(q)
  PROVE  IsPort(WithoutRole(q))
BY SMT DEF WithoutRole, IsPort, PortField, PortRole

-----------------------------------------------------------------------------
(* The flags "portEnabled", "selected" and "reselect".                     *)

\* receive.c leaves the three flags alone.
LEMMA ReceiveService ==
  ASSUME NEW q, IsPort(q), NEW to \in ReceiveState
  PROVE  SameService(q, ReceiveEnter(q, to))
BY SMT DEF IsPort, PortField, SameService, ReceiveEnter, BpduVersion, Given

\* migrate.c leaves the three flags alone.
LEMMA MigrateService ==
  ASSUME NEW q, IsPort(q), NEW b, NEW to \in MigrateState
  PROVE  SameService(q, MigrateEnter(q, b, to))
BY SMT DEF IsPort, PortField, SameService, MigrateEnter, Given

\* brdgdet.c leaves the three flags alone.
LEMMA BrdgdetService ==
  ASSUME NEW q, IsPort(q), NEW to \in BrdgdetState
  PROVE  SameService(q, BrdgdetEnter(q, to))
BY SMT DEF IsPort, PortField, SameService, BrdgdetEnter, BrdgdetState

\* p2p.c leaves the three flags alone.
LEMMA P2pService ==
  ASSUME NEW q, IsPort(q), NEW to \in P2pState
  PROVE  SameService(q, P2pEnter(q, to))
BY SMT DEF IsPort, PortField, SameService, P2pEnter, P2pState, Given

\* sttrans.c leaves the three flags alone.
LEMMA SttransService ==
  ASSUME NEW q, IsPort(q), NEW to \in SttransState
  PROVE  SameService(q, SttransEnter(q, to))
BY SMT DEF IsPort, PortField, SameService, SttransEnter, SttransState

\* transmit.c leaves the three flags alone.
LEMMA TransmitService ==
  ASSUME NEW q, IsPort(q), NEW b, NEW to \in TransmitState
  PROVE  SameService(q, TransmitEnter(q, b, to))
BY SMT DEF IsPort, PortField, SameService, TransmitEnter, TransmitState, Given

\* topoch.c leaves the three flags alone.
LEMMA TopochService ==
  ASSUME NEW q, IsPort(q), NEW b, NEW to \in TopochState
  PROVE  SameService(q, TopochEnter(q, b, to))
BY SMT DEF IsPort, PortField, SameService, TopochEnter, TopochState,
           NewTcInfo, Given, Inactive

\* roletrns.c leaves the three flags alone.
LEMMA RoletrnsService ==
  ASSUME NEW q, IsPort(q), NEW b, NEW to \in RoletrnsState
  PROVE  SameService(q, RoletrnsEnter(q, b, to))
<1> DEFINE Gone(off, set) == SameService(q, Moved(q, to, off, set))
<1>1. /\ Gone({}, {}) /\ Gone({"proposed"}, {}) /\ Gone({"reRoot"}, {})
      /\ Gone({}, {"forward"}) /\ Gone({}, {"learn"})
      /\ Gone({"proposed", "sync"}, {"agree", "newInfo"})
      /\ Gone({"proposed"}, {"agree", "newInfo"})
      /\ Gone({}, {"proposing", "newInfo"})
      /\ Gone({"agreed"}, {"forward"} \cup
                           Given("sendRSTP" \in q.on, {"agreed"}))
      /\ Gone({"sync"}, {"synced"}) /\ Gone({"learn", "forward"}, {})
  BY SMT DEF IsPort, PortField, SameService, Moved, Given
<1>2. ASSUME NEW off, NEW set
      PROVE  DOMAIN Moved(q, to, off, set) = PortField
  BY SMT DEF IsPort, Moved
<1>3. ASSUME NEW r, DOMAIN r = PortField, NEW t, NEW n, SameService(q, r)
      PROVE  SameService(q, Timed(r, t, n))
  BY <1>3, SMT DEF PortField, SameService, Timed
<1>4. CASE to \in {"BEGIN", "INIT_PORT"}
  BY <1>4, SMT DEF IsPort, PortField, SameService, RoletrnsEnter, InitPort
<1>5. CASE to \in {"DISABLE_PORT", "BLOCK_PORT"}
  BY <1>5, SMT DEF IsPort, PortField, SameService, RoletrnsEnter, TakeRole
<1>6. CASE to \in {"DISABLED_PORT", "ALTERNATE_PORT"}
  BY <1>6, SMT DEF IsPort, PortField, SameService, RoletrnsEnter, Retired
<1>7. CASE to \in {"ROOT_PORT", "DESIGNATED_PORT"}
  BY <1>7, SMT DEF IsPort, PortField, SameService, RoletrnsEnter, Timed
<1>8. CASE to \in {"ROOT_PROPOSED", "ALTERNATE_PROPOSED", "ROOT_AGREED",
                   "ALTERNATE_AGREED", "REROOT", "REROOTED",
                   "DESIGNATED_RETIRED"}
  BY <1>1, <1>8 DEF RoletrnsEnter
<1>9. CASE to \in {"ROOT_FORWARD", "ROOT_LEARN", "DESIGNATED_LEARN",
                   "DESIGNATED_PROPOSE", "DESIGNATED_FORWARD",
                   "DESIGNATED_SYNCED", "DESIGNATED_DISCARD", "BACKUP_PORT"}
  BY <1>1, <1>2, <1>3, <1>9 DEF RoletrnsEnter
<1> QED
  BY <1>4, <1>5, <1>6, <1>7, <1>8, <1>9 DEF RoletrnsState

\* pcost.c: a new path cost asks for a selection of the roles.
LEMMA PcostService ==
  ASSUME NEW q, IsPort(q), NEW to \in PcostState, InService(q)
  PROVE  InService(PcostEnter(q, to))
BY SMT DEF IsPort, PortField, InService, PcostEnter, PcostState

\* ... and its BEGIN changes nothing else.
LEMMA PcostBeginService ==
  ASSUME NEW q, IsPort(q)
  PROVE  SameService(q, PcostEnter(q, "BEGIN"))
BY SMT DEF IsPort, PortField, SameService, PcostEnter

\* portinfo.c: whatever made the information change asks for a selection;
\* BEGIN does, whatever the flags were.
LEMMA InfoService ==
  ASSUME NEW q, IsPort(q), NEW b, NEW to \in InfoState,
         InService(q) \/ (to = "BEGIN" /\ "portEnabled" \in q.on)
  PROVE  InService(InfoEnter(q, b, to))
<1>1. \A f \in {"portEnabled", "selected", "reselect"} :
        f \notin Proposal(q) /\ f \notin TcFlags(q)
  BY DEF Proposal, TcFlags, Given
<1>2. ASSUME "portEnabled" \in q.on
      PROVE  InService(InfoDisabled(q)) /\ InService(InfoBegin(q))
  BY <1>2, SMT DEF IsPort, PortField, InService, InfoBegin, InfoDisabled
<1>3. ASSUME InService(q)
      PROVE  /\ InService(InfoAged(q)) /\ InService(InfoReceive(q))
             /\ InService([q EXCEPT !.info = "CURRENT"])
             /\ InService([q EXCEPT !.info = "OTHER",
                                    !.on = q.on \ {"rcvdMsg"}])
  BY <1>3, SMT DEF IsPort, PortField, InService, InfoAged, InfoReceive
<1>4. ASSUME InService(q)
      PROVE  InService(InfoUpdate(q))
  BY <1>4, SMT DEF IsPort, PortField, InService, InfoUpdate, Given
<1>5. ASSUME InService(q)
      PROVE  InService(InfoSuperior(q)) /\ InService(InfoRepeated(q))
  BY <1>1, <1>5, SMT
     DEF IsPort, PortField, InService, InfoSuperior, InfoRepeated, Given
<1>6. ASSUME InService(q)
      PROVE  InService(InfoInferior(q)) /\ InService(InfoNotDesignated(q, b))
  BY <1>1, <1>6, SMT
     DEF IsPort, PortField, InService, InfoInferior, InfoNotDesignated, Given
<1>7. CASE to = "BEGIN" /\ "portEnabled" \in q.on
  BY <1>2, <1>7 DEF InfoEnter
<1>8. CASE InService(q)
  <2>1. CASE to \in {"BEGIN", "DISABLED", "AGED", "UPDATE", "CURRENT"}
    BY <1>2, <1>3, <1>4, <1>8, <2>1 DEF InService, InfoEnter
  <2>2. CASE to \in {"RECEIVE", "SUPERIOR_DESIGNATED",
                     "REPEATED_DESIGNATED", "OTHER"}
    BY <1>3, <1>5, <1>8, <2>2 DEF InfoEnter
  <2>3. CASE to \in {"INFERIOR_DESIGNATED", "NOT_DESIGNATED"}
    BY <1>6, <1>8, <2>3 DEF InfoEnter
  <2> QED
    BY <2>1, <2>2, <2>3 DEF InfoState
<1> QED
  BY <1>7, <1>8

\* STP_info_rx_bpdu leaves the three flags alone.
LEMMA InfoRxBpduService ==
  ASSUME NEW q, IsPort(q), NEW b, NEW m
  PROVE  SameService(q, InfoRxBpdu(q, b, m))
BY SMT DEF IsPort, PortField, SameService, InfoRxBpdu

\* rolesel.c: clearReselectTree and setSelectedTree together select a port.
LEMMA WithRoleService ==
  ASSUME NEW q, IsPort(q), NEW b, InService(q)
  PROVE  InService(WithRole(b, q))
<1>1. CASE "admin_non_stp" \in q.on
  BY <1>1, SMT DEF IsPort, PortField, InService, WithRole, WithoutProtocol
<1>2. CASE "admin_non_stp" \notin q.on
  BY <1>2, SMT DEF IsPort, PortField, InService, WithRole, Given
<1> QED
  BY <1>1, <1>2

\* updtRoleDisableTree leaves the three flags alone.
LEMMA WithoutRoleService ==
  ASSUME NEW q, IsPort(q)
  PROVE  SameService(q, WithoutRole(q))
BY SMT DEF IsPort, PortField, SameService, WithoutRole

\* A port whose flags are those of a port in service is in service.
LEMMA StillInService ==
  ASSUME NEW q, NEW r, InService(q), SameService(q, r)
  PROVE  InService(r)
BY DEF InService, SameService

=============================================================================
