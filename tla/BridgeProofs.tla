---------------------------- MODULE BridgeProofs ----------------------------
(***************************************************************************)
(* Theorems about one bridge, for every number of ports, every set of      *)
(* BPDUs and configurations it may be given, and any number of calls.      *)
(***************************************************************************)
EXTENDS BridgeProperties, PortProofs, SequenceTheorems

PortsOK(f) == DOMAIN f = Port /\ \A p \in Port : IsPort(f[p])

\* What is needed of a bridge: its own type, and only ports it may have.
BridgeOK(b) == IsBridge(b) /\ b.ports \in Seq(Port)

-----------------------------------------------------------------------------
(* Creating, resetting and starting ports.                                 *)

\* Only the ports that may exist are listed.
LEMMA ListedPorts ==
  ASSUME NEW b, b.ports \in Seq(Port)
  PROVE  Listed(b) \subseteq Port
BY ElementOfSeq DEF Listed

\* Changing one port leaves ports.
LEMMA PortsExcept ==
  ASSUME NEW f, PortsOK(f), NEW p \in Port, NEW q, IsPort(q)
  PROVE  PortsOK([f EXCEPT ![p] = q])
BY DEF PortsOK

\* port.c, STP_port_create returns a port.
LEMMA NewPortType ==
  ASSUME NEW p \in Port
  PROVE  IsPort(NewPort(p))
<1>1. ZeroVector \in Vector /\ ZeroTimes \in TimeValues
  BY SMT DEF ZeroVector, MakeVector, Vector, ZeroTimes, TimeValues
<1>2. [type |-> "CONFIG", version |-> 0, role |-> "UNKN", flags |-> {},
       vector |-> ZeroVector, times |-> ZeroTimes] \in Message
  BY <1>1, SMT DEF Message, BpduType, BpduRole
<1>3. /\ InitialPortCfg.adminPCost \in Nat /\ InitialPortCfg.prio \in Nat
      /\ InitialPortCfg.p2p \in AdminP2P
  BY InitialAssumption DEF IsPortCfg, PortCfgField
<1>4. MakePortId(InitialPortCfg.prio, p) \in Nat
  BY <1>3, PortAssumption, SMT DEF MakePortId
<1>5. /\ "BEGIN" \in ReceiveState /\ "BEGIN" \in MigrateState
      /\ "BEGIN" \in BrdgdetState /\ "BEGIN" \in P2pState
      /\ "BEGIN" \in PcostState /\ "BEGIN" \in InfoState
      /\ "BEGIN" \in RoletrnsState /\ "BEGIN" \in SttransState
      /\ "BEGIN" \in TransmitState /\ "BEGIN" \in TopochState
      /\ "DisabledPort" \in PortRole /\ "Mine" \in InfoIs
      /\ "SuperiorDesignatedInfo" \in RcvdInfo /\ "UNKN" \in BpduRole
  BY DEF ReceiveState, MigrateState, BrdgdetState, P2pState, PcostState,
         InfoState, RoletrnsState, SttransState, TransmitState, TopochState,
         PortRole, InfoIs, RcvdInfo, BpduRole
<1>6. Given(InitialPortCfg.edge, {"AdminEdgePort"})
        \cup Given(InitialPortCfg.non_stp, {"admin_non_stp"}) \in SUBSET Flag
  BY DEF Given, Flag
<1>7. DOMAIN NewPort(p) = PortField
  BY SMT DEF NewPort, PortField
<1> QED
  BY <1>1, <1>2, <1>3, <1>4, <1>5, <1>6, <1>7, SMT DEF NewPort, IsPort

\* port.c, STP_port_init leaves a port, and an enabled one.
LEMMA PortResetType ==
  ASSUME NEW q, IsPort(q)
  PROVE  IsPort(PortReset(q)) /\ "portEnabled" \in PortReset(q).on
BY SMT DEF PortReset, IsPort, PortField, Flag, Timer, BpduRole, PortRole

\* ... also when it is told to set the designated vector.
LEMMA PortInitType ==
  ASSUME NEW q, IsPort(q), NEW b, IsBridge(b)
  PROVE  IsPort(PortInit(q, b)) /\ "portEnabled" \in PortInit(q, b).on
<1> DEFINE r == PortReset(q)
           v == MakeVector(BridgeIdentifier(b), 0, BridgeIdentifier(b),
                           q.portId, q.portId)
<1>1. IsPort(r) /\ "portEnabled" \in r.on
  BY PortResetType
<1>2. v \in Vector
  <2>1. BridgeIdentifier(b) \in Nat /\ q.portId \in Nat
    BY SMT DEF IsBridge, IsPort, BridgeIdentifier, MacSpan
  <2> QED
    BY <2>1, SMT DEF MakeVector, Vector
<1>3. b.rootTimes \in TimeValues
  BY DEF IsBridge
<1>4. PortInit(q, b) =
        [r EXCEPT !.designatedPriority = v, !.designatedTimes = b.rootTimes,
                  !.timer = [r.timer EXCEPT !["fdWhile"] = 0]]
  BY DEF PortInit
<1> HIDE DEF r, v
<1> QED
  BY <1>1, <1>2, <1>3, <1>4, SMT DEF IsPort, PortField, Timer

\* stpm.c: BEGIN of every machine, in order, leaves a port in service.
LEMMA BeginType ==
  ASSUME NEW q, IsPort(q), "portEnabled" \in q.on, NEW b, IsBridge(b)
  PROVE  IsPort(Begin(q, b)) /\ InService(Begin(q, b))
<1> DEFINE q1 == TransmitEnter(q, b, "BEGIN")
           q2 == SttransEnter(q1, "BEGIN")
           q3 == RoletrnsEnter(q2, b, "BEGIN")
           q4 == InfoEnter(q3, b, "BEGIN")
           q5 == PcostEnter(q4, "BEGIN")
           q6 == BrdgdetEnter(q5, "BEGIN")
           q7 == P2pEnter(q6, "BEGIN")
           q8 == MigrateEnter(q7, b, "BEGIN")
           q9 == TopochEnter(q8, b, "BEGIN")
<1> /\ "BEGIN" \in ReceiveState /\ "BEGIN" \in MigrateState
    /\ "BEGIN" \in BrdgdetState /\ "BEGIN" \in P2pState
    /\ "BEGIN" \in PcostState /\ "BEGIN" \in InfoState
    /\ "BEGIN" \in RoletrnsState /\ "BEGIN" \in SttransState
    /\ "BEGIN" \in TransmitState /\ "BEGIN" \in TopochState
  BY DEF ReceiveState, MigrateState, BrdgdetState, P2pState, PcostState,
         InfoState, RoletrnsState, SttransState, TransmitState, TopochState
<1>1. Begin(q, b) = ReceiveEnter(q9, "BEGIN")
  BY DEF Begin
<1>2. IsPort(q1) /\ SameService(q, q1)
  BY TransmitType, TransmitService
<1> HIDE DEF q1
<1>3. IsPort(q2) /\ SameService(q1, q2)
  BY <1>2, SttransType, SttransService
<1> HIDE DEF q2
<1>4. IsPort(q3) /\ SameService(q2, q3)
  BY <1>3, RoletrnsType, RoletrnsService
<1>5. "portEnabled" \in q3.on
  BY <1>2, <1>3, <1>4 DEF SameService
<1> HIDE DEF q3
<1>6. IsPort(q4) /\ InService(q4)
  BY <1>4, <1>5, InfoType, InfoService
<1> HIDE DEF q4
<1>7. IsPort(q5) /\ InService(q5)
  BY <1>6, PcostType, PcostService
<1> HIDE DEF q5
<1>8. IsPort(q6) /\ InService(q6)
  BY <1>7, BrdgdetType, BrdgdetService, StillInService
<1> HIDE DEF q6
<1>9. IsPort(q7) /\ InService(q7)
  BY <1>8, P2pType, P2pService, StillInService
<1> HIDE DEF q7
<1>10. IsPort(q8) /\ InService(q8)
  BY <1>9, MigrateType, MigrateService, StillInService
<1> HIDE DEF q8
<1>11. IsPort(q9) /\ InService(q9)
  BY <1>10, TopochType, TopochService, StillInService
<1> HIDE DEF q9
<1> QED
  BY <1>1, <1>11, ReceiveType, ReceiveService, StillInService

\* stpm.c: a started port is a port in service.
LEMMA StartedType ==
  ASSUME NEW q, IsPort(q), NEW b, IsBridge(b)
  PROVE  IsPort(Started(q, b)) /\ InService(Started(q, b))
<1> DEFINE r == PortInit(q, b)
           s == WithoutRole(r)
<1>1. IsPort(r) /\ "portEnabled" \in r.on
  BY PortInitType
<1> HIDE DEF r
<1>2. IsPort(s) /\ "portEnabled" \in s.on
  BY <1>1, WithoutRoleType, WithoutRoleService DEF SameService
<1> HIDE DEF s
<1>3. IsPort(Begin(s, b)) /\ InService(Begin(s, b))
  BY <1>2, BeginType
<1> QED
  BY <1>3 DEF Started, s, r

\* _stp_stpm_init_data leaves a bridge and its list.
LEMMA InitDataType ==
  ASSUME NEW b, BridgeOK(b)
  PROVE  BridgeOK(InitData(b)) /\ Listed(InitData(b)) = Listed(b)
<1>1. BridgePriority(b) \in Vector
  <2>1. BridgeIdentifier(b) \in Nat
    BY SMT DEF BridgeOK, IsBridge, BridgeIdentifier, MacSpan
  <2> QED
    BY <2>1, SMT DEF BridgePriority, MakeVector, Vector
<1>2. [b.BridgeTimes EXCEPT !.MessageAge = 0] \in TimeValues
  <2>1. b.BridgeTimes \in TimeValues
    BY DEF BridgeOK, IsBridge
  <2> QED
    BY <2>1, SMT DEF TimeValues
<1>3. InitData(b).ports = b.ports /\ IsBridge(InitData(b))
  BY <1>1, <1>2, SMT
     DEF BridgeOK, IsBridge, BridgeField, InitData, RoleselState
<1> QED
  BY <1>3 DEF BridgeOK, Listed

\* STP_stpm_start leaves ports, and those of the bridge in service.
LEMMA AllStartedType ==
  ASSUME NEW b, BridgeOK(b), NEW ports, PortsOK(ports)
  PROVE  /\ PortsOK(AllStarted(ports, b))
         /\ \A p \in Listed(b) : InService(AllStarted(ports, b)[p])
<1>1. Listed(b) \subseteq Port
  BY ListedPorts DEF BridgeOK
<1>2. \A p \in Port : /\ IsPort(Started(ports[p], b))
                      /\ InService(Started(ports[p], b))
  BY StartedType DEF PortsOK, BridgeOK
<1> QED
  BY <1>1, <1>2 DEF AllStarted, PortsOK

-----------------------------------------------------------------------------
(* What the entry points do.                                               *)

\* The two flags Reselect sets are always opposite.
LEMMA ReselectType ==
  ASSUME NEW q, IsPort(q)
  PROVE  /\ IsPort(Reselect(q))
         /\ "portEnabled" \in q.on => InService(Reselect(q))
BY SMT DEF Reselect, IsPort, PortField, Flag, InService

\* stp_in.c, _stp_in_enable_port_on_stpm
LEMMA EnableOnType ==
  ASSUME NEW q, IsPort(q), NEW enable
  PROVE  /\ IsPort(EnableOn(q, enable))
         /\ InService(q) => InService(EnableOn(q, enable))
BY ReselectType, PortResetType DEF EnableOn

\* stpm.c, STP_stpm_one_second: no timer goes below zero.
LEMMA CountDownType ==
  ASSUME NEW q, IsPort(q)
  PROVE  /\ IsPort([q EXCEPT !.timer = CountDown(q.timer)])
         /\ SameService(q, [q EXCEPT !.timer = CountDown(q.timer)])
<1>1. CountDown(q.timer) \in [Timer -> Nat]
  BY SMT DEF CountDown, IsPort
<1> QED
  BY <1>1, SMT DEF IsPort, PortField, SameService

\* stp_in.c, STP_IN_set_port_cfg, with the fields it may have been given
LEMMA SetPortCfgType ==
  ASSUME NEW q, IsPort(q), NEW b, NEW c \in PortCfgs, NEW p \in Port
  PROVE  LET m == WithMcheck(q, b, c)
             n == WithFlags(WithPrio(WithCost(m, c), c, p), c)
         IN /\ IsPort(m) /\ SameService(q, m)
            /\ IsPort(WithCost(m, c)) /\ SameService(q, WithCost(m, c))
            /\ IsPort(n) /\ SameService(q, n)
<1> DEFINE m == WithMcheck(q, b, c)
           m2 == WithCost(m, c)
           m3 == WithPrio(m2, c, p)
           n == WithFlags(m3, c)
<1>1. /\ "adminPCost" \in DOMAIN c => c.adminPCost \in Nat
      /\ "prio" \in DOMAIN c => c.prio \in Nat
      /\ "p2p" \in DOMAIN c => c.p2p \in AdminP2P
  BY InputAssumption DEF IsPortCfg
<1>2. IsPort(m) /\ SameService(q, m)
  BY SMT DEF WithMcheck, Given, IsPort, PortField, Flag, SameService
<1> HIDE DEF m
<1>3. IsPort(m2) /\ SameService(q, m2)
  BY <1>1, <1>2, SMT DEF WithCost, IsPort, PortField, SameService
<1> HIDE DEF m2
<1>4. IsPort(m3) /\ SameService(q, m3)
  <2>1. "prio" \in DOMAIN c => MakePortId(c.prio, p) \in Nat
    BY <1>1, PortAssumption, SMT DEF MakePortId
  <2> QED
    BY <1>3, <2>1, SMT DEF WithPrio, IsPort, PortField, SameService
<1> HIDE DEF m3
<1>5. IsPort(n) /\ SameService(q, n)
  <2> DEFINE edge == Assigned(m3.on, c, "edge", {"AdminEdgePort", "operEdge"})
             stp == Assigned(edge, c, "non_stp", {"admin_non_stp"})
             on == stp \cup Given("p2p" \in DOMAIN c, {"p2p_recompute"})
             p2p == IF "p2p" \in DOMAIN c THEN c.p2p
                    ELSE m3.adminPointToPointMac
  <2>1. /\ edge \in SUBSET Flag
        /\ \A f \in {"portEnabled", "selected", "reselect"} :
             f \in edge <=> f \in m3.on
    BY <1>4 DEF Assigned, IsPort, Flag
  <2> HIDE DEF edge
  <2>2. /\ stp \in SUBSET Flag
        /\ \A f \in {"portEnabled", "selected", "reselect"} :
             f \in stp <=> f \in m3.on
    BY <2>1 DEF Assigned, Flag
  <2> HIDE DEF stp
  <2>3. /\ on \in SUBSET Flag
        /\ \A f \in {"portEnabled", "selected", "reselect"} :
             f \in on <=> f \in m3.on
    BY <2>2 DEF Given, Flag
  <2>4. p2p \in AdminP2P
    BY <1>1, <1>4 DEF IsPort
  <2>5. n = [m3 EXCEPT !.adminPointToPointMac = p2p, !.on = on]
    BY DEF WithFlags, edge, stp
  <2> HIDE DEF on, p2p, n
  <2> QED
    BY <1>4, <2>3, <2>4, <2>5, SMT DEF IsPort, PortField, SameService
<1> QED
  BY <1>2, <1>3, <1>5 DEF m, m2, m3

\* A configuration that passes _check_stpm_config leaves a bridge.
LEMMA ConfiguredType ==
  ASSUME NEW b, BridgeOK(b), NEW c \in BridgeCfgs
  PROVE  LET new == Configured(b, Merged(c, CurrentCfg(b))) IN
         BridgeOK(new) /\ Listed(new) = Listed(b)
<1> DEFINE m == Merged(c, CurrentCfg(b))
<1>1. /\ b.BridgeTimes \in TimeValues /\ b.prio \in Nat
      /\ b.ForceVersion \in ForceVersions
  BY DEF BridgeOK, IsBridge
<1>2. /\ b.BridgeTimes.MaxAge \in Nat /\ b.BridgeTimes.HelloTime \in Nat
      /\ b.BridgeTimes.ForwardDelay \in Nat
      /\ b.BridgeTimes.MessageAge \in Nat
  BY <1>1, SMT DEF TimeValues
<1>3. /\ m.prio \in Nat /\ m.ForceVersion \in ForceVersions
      /\ m.MaxAge \in Nat /\ m.HelloTime \in Nat
      /\ m.ForwardDelay \in Nat
  BY <1>1, <1>2, InputAssumption, SMT
     DEF Merged, CurrentCfg, BridgeCfgField, IsBridgeCfg
<1> HIDE DEF m
<1>4. [MessageAge |-> b.BridgeTimes.MessageAge, MaxAge |-> m.MaxAge,
       HelloTime |-> m.HelloTime, ForwardDelay |-> m.ForwardDelay]
         \in TimeValues
  BY <1>2, <1>3, SMT DEF TimeValues
<1>5. /\ IsBridge(Configured(b, m))
      /\ Configured(b, m).ports = b.ports
  BY <1>3, <1>4, SMT DEF BridgeOK, IsBridge, BridgeField, Configured
<1> QED
  BY <1>5 DEF BridgeOK, Listed, m

\* A list with one port more or one port less is a list of ports.
LEMMA ListType ==
  ASSUME NEW list \in Seq(Port)
  PROVE  /\ \A p \in Port : <<p>> \o list \in Seq(Port)
         /\ \A n \in DOMAIN list :
              [i \in 1 .. Len(list) - 1 |-> list[IF i < n THEN i ELSE i + 1]]
                \in Seq(Port)
<1>1. ASSUME NEW p \in Port
      PROVE  <<p>> \o list \in Seq(Port)
  BY SMT
<1>2. ASSUME NEW n \in DOMAIN list
      PROVE  [i \in 1 .. Len(list) - 1 |->
                list[IF i < n THEN i ELSE i + 1]] \in Seq(Port)
  <2>1. Len(list) \in Nat /\ n \in 1 .. Len(list)
    BY LenProperties
  <2>2. \A i \in 1 .. Len(list) - 1 :
          list[IF i < n THEN i ELSE i + 1] \in Port
    BY <2>1, ElementOfSeq, SMT
  <2>3. Len(list) - 1 \in Nat
    BY <2>1, SMT
  <2> QED
    BY <2>2, <2>3, SeqDef
<1> QED
  BY <1>1, <1>2

\* A bridge with another list of ports and another address is a bridge.
LEMMA RelistedType ==
  ASSUME NEW b, BridgeOK(b), NEW list \in Seq(Port), NEW a \in Nat
  PROVE  BridgeOK([b EXCEPT !.ports = list, !.addr = a])
<1>1. list \in Seq(Nat)
  BY PortAssumption, SeqMonotonic
<1> QED
  BY <1>1, SMT DEF BridgeOK, IsBridge, BridgeField

\* The two have the same ports and the same root.
SameRoot(b, c) ==
  /\ b.ports = c.ports
  /\ b.rolesel = c.rolesel
  /\ b.rstpVersion = c.rstpVersion
  /\ b.rootPriority = c.rootPriority
  /\ b.rootTimes = c.rootTimes
  /\ b.rootPortId = c.rootPortId
  /\ b.BridgeTimes.MessageAge = c.BridgeTimes.MessageAge

\* stp_in.c, STP_IN_stpm_set_cfg: the bridge restarts, or it is disabled and
\* changes alone.
LEMMA SetCfgOutcome ==
  ASSUME NEW b, b = bridge, BridgeOK(b), StpmSetCfg
  PROVE  \E new : /\ BridgeOK(new) /\ SameRoot(b, new)
                  /\ \/ Restarts(new, port)
                     \/ SetsOnly(new) /\ ~new.stp_enabled
<1>1. PICK c \in BridgeCfgs :
        LET new == Configured(b, Merged(c, CurrentCfg(b))) IN
        \/ SetsOnly([b EXCEPT !.stp_enabled = FALSE])
        \/ Restarts([new EXCEPT !.stp_enabled = TRUE], port)
        \/ SetsOnly(new) /\ ~b.stp_enabled
  BY DEF StpmSetCfg
<1> DEFINE new == Configured(b, Merged(c, CurrentCfg(b)))
<1>2. BridgeOK(new) /\ SameRoot(b, new) /\ new.stp_enabled = b.stp_enabled
  <2>1. SameRoot(b, new) /\ new.stp_enabled = b.stp_enabled
    BY SMT DEF Configured, BridgeOK, IsBridge, BridgeField, SameRoot
  <2> QED
    BY <2>1, ConfiguredType
<1> HIDE DEF new
<1>3. ASSUME NEW d, BridgeOK(d), NEW enabled \in BOOLEAN, SameRoot(b, d)
      PROVE  /\ BridgeOK([d EXCEPT !.stp_enabled = enabled])
             /\ SameRoot(b, [d EXCEPT !.stp_enabled = enabled])
             /\ [d EXCEPT !.stp_enabled = enabled].stp_enabled = enabled
  BY <1>3, SMT DEF BridgeOK, IsBridge, BridgeField, SameRoot
<1>4. \/ SetsOnly([b EXCEPT !.stp_enabled = FALSE])
      \/ Restarts([new EXCEPT !.stp_enabled = TRUE], port)
      \/ SetsOnly(new) /\ ~new.stp_enabled
  BY <1>1, <1>2 DEF new
<1>5. SameRoot(b, b)
  BY DEF SameRoot
<1> QED
  BY <1>2, <1>3, <1>4, <1>5

\* The two have the same role, and as much left to do about it.
SameRole(q, r) ==
  /\ SameService(q, r)
  /\ q.role = r.role /\ q.selectedRole = r.selectedRole
  /\ "updtInfo" \in q.on <=> "updtInfo" \in r.on

\* stp_in.c, STP_IN_changed_port_speed and STP_IN_changed_port_duplex: the
\* port is noted to have changed, and a selection asked for or not.
LEMMA LinkOutcome ==
  ASSUME NEW p \in Port, NEW old, old = port[p], IsPort(old),
         ChangedPortSpeed(p) \/ ChangedPortDuplex(p)
  PROVE  \E q : /\ IsPort(q) /\ SameRole(old, q)
                /\ \/ port' = [port EXCEPT ![p] = q]
                   \/ port' = [port EXCEPT ![p] = Reselect(q)]
<1>1. CASE ChangedPortSpeed(p)
  <2> DEFINE Os(speed) == [old EXCEPT !.osSpeed = speed]
             Oper(speed) == [Os(speed) EXCEPT !.operSpeed = speed]
  <2>1. \A speed \in Speeds : /\ IsPort(Os(speed)) /\ SameRole(old, Os(speed))
                              /\ IsPort(Oper(speed))
                              /\ SameRole(old, Oper(speed))
    <3> SUFFICES ASSUME NEW speed \in Nat
                 PROVE  /\ IsPort(Os(speed)) /\ SameRole(old, Os(speed))
                        /\ IsPort(Oper(speed)) /\ SameRole(old, Oper(speed))
      BY InputAssumption
    <3> QED
      BY SMT DEF IsPort, PortField, SameRole, SameService
  <2>2. \E speed \in Speeds : \/ port' = [port EXCEPT ![p] = Os(speed)]
                              \/ port' = [port EXCEPT ![p] =
                                            Reselect(Oper(speed))]
    BY <1>1 DEF ChangedPortSpeed
  <2> HIDE DEF Os, Oper
  <2> QED
    BY <2>1, <2>2
<1>2. CASE ChangedPortDuplex(p)
  <2> DEFINE Os(duplex) == [old EXCEPT !.osDuplex = duplex]
             Oper(duplex) == [Os(duplex) EXCEPT
                                !.on = Os(duplex).on \cup {"p2p_recompute"}]
  <2>1. ASSUME NEW duplex \in BOOLEAN
        PROVE  /\ IsPort(Os(duplex)) /\ SameRole(old, Os(duplex))
               /\ IsPort(Oper(duplex)) /\ SameRole(old, Oper(duplex))
    BY SMT DEF IsPort, PortField, Flag, SameRole, SameService
  <2>2. \E duplex \in BOOLEAN : \/ port' = [port EXCEPT ![p] = Os(duplex)]
                                \/ port' = [port EXCEPT ![p] =
                                              Reselect(Oper(duplex))]
    BY <1>2 DEF ChangedPortDuplex
  <2> HIDE DEF Os, Oper
  <2> QED
    BY <2>1, <2>2
<1> QED
  BY <1>1, <1>2

-----------------------------------------------------------------------------
(* The type of the state.                                                  *)

\* One machine of one port moved.
LEMMA PortMovedType ==
  ASSUME TypeOK, NEW p \in Port, NEW STATE q, IsPort(q), NEW kind,
         PortMoved(kind, p, q)
  PROVE  TypeOK'
<1>1. PortsOK(port) /\ PortsOK(port')
  BY PortsExcept DEF TypeOK, PortsOK, PortMoved
<1> QED
  BY <1>1 DEF TypeOK, PortsOK, PortMoved

\* One machine moved and raised flags on every port.
LEMMA PortMovedAllType ==
  ASSUME TypeOK, NEW p \in Port, NEW STATE q, IsPort(q), NEW kind,
         NEW flags \in SUBSET Flag, PortMovedAll(kind, p, q, flags)
  PROVE  TypeOK'
<1>1. ASSUME NEW r, IsPort(r)
      PROVE  IsPort([r EXCEPT !.on = r.on \cup flags])
  BY <1>1, SMT DEF IsPort, PortField
<1>2. PortsOK(port')
  BY <1>1 DEF TypeOK, PortsOK, PortMovedAll
<1> QED
  BY <1>2 DEF TypeOK, PortsOK, PortMovedAll

\* The bridge was started again.
LEMMA RestartsType ==
  ASSUME TypeOK, NEW STATE b, BridgeOK(b), NEW STATE ports, PortsOK(ports),
         Restarts(b, ports), Call
  PROVE  /\ TypeOK'
         /\ \A p \in Listed(bridge)' : InService(port[p])'
<1>1. BridgeOK(bridge') /\ Listed(bridge') = Listed(b)
  BY InitDataType DEF Restarts
<1>2. /\ PortsOK(port')
      /\ \A p \in Listed(bridge') : InService(port'[p])
  BY <1>1, InitDataType, AllStartedType DEF Restarts
<1>3. call' \in CallKind /\ rxLeft' = rxLeft /\ callsLeft' \in Nat
  <2>1. callsLeft \in Nat
    BY DEF TypeOK
  <2> QED
    BY <2>1, SMT DEF Restarts, Enters, Call, CallKind
<1> QED
  BY <1>1, <1>2, <1>3 DEF TypeOK, PortsOK, BridgeOK

\* stpmgmt.c, STP_IN_stpm_create: a bridge and its first ports.
LEMMA InitType ==
  ASSUME Init
  PROVE  TypeOK
<1>1. PICK addr \in 0 .. MacSpan - 1 : bridge = CreatedBridge(addr)
  BY DEF Init
<1>2. BridgeOK(bridge)
  <2> DEFINE t == [MessageAge |-> 0, MaxAge |-> InitialCfg.MaxAge,
                   HelloTime |-> InitialCfg.HelloTime,
                   ForwardDelay |-> InitialCfg.ForwardDelay]
             b == [rolesel |-> "BEGIN", ports |-> InitialPorts,
                   prio |-> InitialCfg.prio, addr |-> addr,
                   ForceVersion |-> InitialCfg.ForceVersion,
                   rstpVersion |-> InitialCfg.ForceVersion >= 2,
                   BridgeTimes |-> t, rootPriority |-> ZeroVector,
                   rootTimes |-> ZeroTimes, rootPortId |-> 0,
                   Topology_Change |-> FALSE, stp_enabled |-> TRUE]
  <2>1. /\ InitialCfg.prio \in Nat /\ InitialCfg.MaxAge \in Nat
        /\ InitialCfg.HelloTime \in Nat /\ InitialCfg.ForwardDelay \in Nat
        /\ InitialCfg.ForceVersion \in ForceVersions
    BY InitialAssumption DEF IsBridgeCfg, BridgeCfgField
  <2>2. /\ t \in TimeValues /\ ZeroTimes \in TimeValues
        /\ ZeroVector \in Vector
    BY <2>1, SMT DEF TimeValues, ZeroTimes, ZeroVector, MakeVector, Vector
  <2>3. InitialPorts \in Seq(Port) /\ InitialPorts \in Seq(Nat)
    BY PortAssumption, SeqMonotonic
  <2>4. addr \in Nat /\ (InitialCfg.ForceVersion >= 2) \in BOOLEAN
    BY SMT DEF MacSpan
  <2>5. bridge = InitData(b)
    BY <1>1 DEF CreatedBridge
  <2> HIDE DEF t
  <2>6. IsBridge(b) /\ b.ports = InitialPorts
    BY <2>1, <2>2, <2>3, <2>4, SMT
       DEF IsBridge, BridgeField, RoleselState
  <2> HIDE DEF b
  <2> QED
    BY <2>3, <2>5, <2>6, InitDataType DEF BridgeOK
<1>3. PortsOK(port)
  <2>1. PortsOK([p \in Port |-> NewPort(p)])
    BY NewPortType DEF PortsOK
  <2> QED
    BY <1>2, <2>1, AllStartedType DEF Init
<1> QED
  BY <1>2, <1>3, InputAssumption
     DEF Init, TypeOK, BridgeOK, PortsOK, CallKind

(***************************************************************************)
(* The state always has its type: every port is a port, no timer is below  *)
(* zero, and only ports that may exist are listed, whatever happens to the *)
(* bridge (rstplib/port.h, stpm.h).                                        *)
(***************************************************************************)
THEOREM TypeCorrect == Spec => []TypeOK
<1>1. Init => TypeOK
  BY InitType
<1>2. TypeOK /\ [Next]_vars => TypeOK'
  <2> SUFFICES ASSUME TypeOK, [Next]_vars
               PROVE  TypeOK'
    OBVIOUS
  <2>1. /\ IsBridge(bridge) /\ BridgeOK(bridge) /\ PortsOK(port)
        /\ Listed(bridge) \subseteq Port
    BY ListedPorts DEF TypeOK, BridgeOK, PortsOK
  <2>2. \A p \in Port : IsPort(port[p])
    BY DEF TypeOK
  <2>3. ASSUME NEW p \in Listed(bridge), TransmitStep(p)
        PROVE  TypeOK'
    <3>1. PICK to \in TransmitState :
            PortMoved("transmit", p, TransmitEnter(port[p], bridge, to))
      BY <2>3 DEF TransmitStep
    <3> QED
      BY <2>1, <2>2, <3>1, TransmitType, PortMovedType
  <2>4. ASSUME NEW p \in Listed(bridge), SttransStep(p)
        PROVE  TypeOK'
    <3>1. PICK to \in SttransState :
            PortMoved("sttrans", p, SttransEnter(port[p], to))
      BY <2>4 DEF SttransStep
    <3> QED
      BY <2>1, <2>2, <3>1, SttransType, PortMovedType
  <2>5. ASSUME NEW p \in Listed(bridge), InfoStep(p)
        PROVE  TypeOK'
    <3>1. PICK to \in InfoState :
            PortMoved("info", p, InfoEnter(port[p], bridge, to))
      BY <2>5 DEF InfoStep
    <3> QED
      BY <2>1, <2>2, <3>1, InfoType, PortMovedType
  <2>6. ASSUME NEW p \in Listed(bridge), PcostStep(p)
        PROVE  TypeOK'
    <3>1. PICK to \in PcostState :
            PortMoved("pcost", p, PcostEnter(port[p], to))
      BY <2>6 DEF PcostStep
    <3> QED
      BY <2>1, <2>2, <3>1, PcostType, PortMovedType
  <2>7. ASSUME NEW p \in Listed(bridge), BrdgdetStep(p)
        PROVE  TypeOK'
    <3>1. PICK to \in BrdgdetState :
            PortMoved("brdgdet", p, BrdgdetEnter(port[p], to))
      BY <2>7 DEF BrdgdetStep
    <3> QED
      BY <2>1, <2>2, <3>1, BrdgdetType, PortMovedType
  <2>8. ASSUME NEW p \in Listed(bridge), P2pStep(p)
        PROVE  TypeOK'
    <3>1. PICK to \in P2pState :
            PortMoved("p2p", p, P2pEnter(port[p], to))
      BY <2>8 DEF P2pStep
    <3> QED
      BY <2>1, <2>2, <3>1, P2pType, PortMovedType
  <2>9. ASSUME NEW p \in Listed(bridge), MigrateStep(p)
        PROVE  TypeOK'
    <3>1. PICK to \in MigrateState :
            PortMoved("migrate", p, MigrateEnter(port[p], bridge, to))
      BY <2>9 DEF MigrateStep
    <3> QED
      BY <2>1, <2>2, <3>1, MigrateType, PortMovedType
  <2>10. ASSUME NEW p \in Listed(bridge), ReceiveStep(p)
        PROVE  TypeOK'
    <3>1. PICK to \in ReceiveState :
            PortMoved("receive", p, ReceiveEnter(port[p], to))
      BY <2>10 DEF ReceiveStep
    <3> QED
      BY <2>1, <2>2, <3>1, ReceiveType, PortMovedType
  <2>11. ASSUME NEW p \in Listed(bridge), RoletrnsStep(p)
        PROVE  TypeOK'
    <3>1. PICK to \in RoletrnsState :
            LET q == RoletrnsEnter(port[p], bridge, to)
                flags == RoletrnsBroadcast(to)
            IN PortMovedAll("roletrns", p, [q EXCEPT !.on = q.on \cup flags],
                            flags)
      BY <2>11 DEF RoletrnsStep
    <3> DEFINE q == RoletrnsEnter(port[p], bridge, to)
               flags == RoletrnsBroadcast(to)
    <3>2. flags \in SUBSET Flag
      BY DEF RoletrnsBroadcast, Flag
    <3>3. IsPort(q)
      BY <2>1, <2>2, RoletrnsType
    <3> HIDE DEF q, flags
    <3>4. IsPort([q EXCEPT !.on = q.on \cup flags])
      BY <3>2, <3>3, SMT DEF IsPort, PortField
    <3>5. PortMovedAll("roletrns", p, [q EXCEPT !.on = q.on \cup flags],
                       flags)
      BY <3>1 DEF q, flags
    <3> QED
      BY <2>1, <3>2, <3>4, <3>5, PortMovedAllType
  <2>12. ASSUME NEW p \in Listed(bridge), TopochStep(p)
        PROVE  TypeOK'
    <3>1. PICK to \in TopochState :
            PortMovedAll("topoch", p, TopochEnter(port[p], bridge, to),
                         TopochBroadcast(to))
      BY <2>12 DEF TopochStep
    <3>2. TopochBroadcast(to) \in SUBSET Flag
      BY DEF TopochBroadcast, Given, Flag
    <3> QED
      BY <2>1, <2>2, <3>1, <3>2, TopochType, PortMovedAllType
  <2>13. ASSUME RoleselStep
        PROVE  TypeOK'
    <3>1. PICK to \in RoleselState, source \in {0} \cup Listed(bridge) :
            /\ bridge' = IF to = "ROLE_SELECTION"
                         THEN WithRoot(bridge, port, source)
                         ELSE [bridge EXCEPT !.rolesel = to]
            /\ port' = [p \in Port |->
                          IF p \notin Listed(bridge) THEN port[p]
                          ELSE IF to = "ROLE_SELECTION"
                               THEN WithRole(WithRoot(bridge, port, source),
                                             port[p])
                               ELSE WithoutRole(port[p])]
      BY <2>13 DEF RoleselStep
    <3> DEFINE b == WithRoot(bridge, port, source)
    <3>2. IsBridge(b) /\ b.ports = bridge.ports
      <4>1. IsBridge(b)
        BY <2>1, <2>2, WithRootType
      <4> QED
        BY <2>1, <4>1, SMT DEF WithRoot, IsBridge, BridgeField
    <3> HIDE DEF b
    <3>3. BridgeOK(bridge')
      <4>1. BridgeOK([bridge EXCEPT !.rolesel = to])
        BY <2>1, SMT DEF BridgeOK, IsBridge, BridgeField
      <4> QED
        BY <2>1, <3>1, <3>2, <4>1 DEF BridgeOK, b
    <3>4. PortsOK(port')
      BY <2>2, <3>1, <3>2, WithRoleType, WithoutRoleType DEF PortsOK, b
    <3> QED
      BY <2>13, <3>3, <3>4 DEF RoleselStep, TypeOK, BridgeOK, PortsOK
  <2>14. CASE UpdateReturns
    <3>1. BridgeOK([bridge EXCEPT !.Topology_Change =
                      \E p \in Listed(bridge) : port[p].timer["tcWhile"] # 0])
      <4> DEFINE tc == \E p \in Listed(bridge) :
                         port[p].timer["tcWhile"] # 0
      <4>1. tc \in BOOLEAN
        OBVIOUS
      <4> HIDE DEF tc
      <4> QED
        BY <2>1, <4>1, SMT DEF BridgeOK, IsBridge, BridgeField
    <3> QED
      BY <2>1, <2>14, <3>1 DEF UpdateReturns, TypeOK, BridgeOK, CallKind
  <2>15. CASE OneSecond
    <3>1. PortsOK(port')
      <4>1. CASE Ticks
        BY <2>2, <4>1, CountDownType DEF Ticks, PortsOK
      <4>2. CASE SetsOnly(bridge)
        BY <2>1, <4>2 DEF SetsOnly, PortsOK
      <4> QED
        BY <2>15, <4>1, <4>2 DEF OneSecond
    <3> QED
      BY <2>15, <3>1
         DEF OneSecond, Ticks, SetsOnly, Enters, CallKind, TypeOK, PortsOK
  <2>16. ASSUME NEW p \in Listed(bridge), RxBpdu(p)
        PROVE  TypeOK'
    <3>1. PICK m \in Received :
            LET q == EnableOn(port[p], TRUE) IN
            port' = [port EXCEPT ![p] =
                       InfoRxBpdu([q EXCEPT !.on = q.on \ {"operEdge"}],
                                  bridge, m)]
      BY <2>16 DEF RxBpdu, Gets
    <3> DEFINE q == EnableOn(port[p], TRUE)
               r == [q EXCEPT !.on = q.on \ {"operEdge"}]
    <3>2. IsPort(q)
      BY <2>1, <2>2, EnableOnType
    <3> HIDE DEF q
    <3>3. IsPort(r)
      BY <3>2, SMT DEF IsPort, PortField
    <3> HIDE DEF r
    <3>4. IsPort(InfoRxBpdu(r, bridge, m))
      BY <3>3, InputAssumption, InfoRxBpduType
    <3>5. port' = [port EXCEPT ![p] = InfoRxBpdu(r, bridge, m)]
      BY <3>1 DEF q, r
    <3>6. PortsOK(port')
      BY <2>1, <3>4, <3>5, PortsExcept
    <3>7. rxLeft' \in Nat
      <4>1. rxLeft \in Nat /\ rxLeft > 0 /\ rxLeft' = rxLeft - 1
        BY <2>16 DEF TypeOK, RxBpdu
      <4> QED
        BY <4>1, SMT
    <3> QED
      BY <2>16, <3>6, <3>7 DEF RxBpdu, Gets, Enters, CallKind, TypeOK, PortsOK
  <2>17. ASSUME Call
        PROVE  callsLeft' \in Nat /\ rxLeft' \in Nat
    <3>1. callsLeft \in Nat
      BY DEF TypeOK
    <3> QED
      BY <2>17, <3>1, SMT DEF Call, TypeOK
  <2>18. CASE StpmSetCfg
    <3>1. PICK b : BridgeOK(b) /\ (Restarts(b, port) \/ SetsOnly(b))
      BY <2>1, <2>18, SetCfgOutcome DEF SameRoot
    <3>2. Call
      BY <2>18 DEF StpmSetCfg
    <3>3. CASE Restarts(b, port)
      BY <2>1, <3>1, <3>2, <3>3, RestartsType
    <3>4. CASE SetsOnly(b)
      BY <2>17, <3>1, <3>2, <3>4 DEF SetsOnly, TypeOK, BridgeOK
    <3> QED
      BY <3>1, <3>3, <3>4
  <2>19. ASSUME NEW p \in Port, PortCreate(p)
        PROVE  TypeOK'
    <3> DEFINE list == <<p>> \o bridge.ports
    <3>1. PICK addr \in 0 .. MacSpan - 1 :
            Restarts([bridge EXCEPT !.ports = list, !.addr = addr],
                     [port EXCEPT ![p] = NewPort(p)])
      BY <2>19 DEF PortCreate
    <3>2. list \in Seq(Port) /\ addr \in Nat
      BY <2>1, ListType, SMT DEF BridgeOK, MacSpan
    <3> HIDE DEF list
    <3>3. /\ BridgeOK([bridge EXCEPT !.ports = list, !.addr = addr])
          /\ PortsOK([port EXCEPT ![p] = NewPort(p)])
      BY <2>1, <3>2, RelistedType, NewPortType, PortsExcept
    <3> QED
      BY <2>19, <3>1, <3>3, RestartsType DEF PortCreate
  <2>20. ASSUME NEW p \in Listed(bridge), PortDelete(p)
        PROVE  TypeOK'
    <3> DEFINE list(n) == [i \in 1 .. Len(bridge.ports) - 1 |->
                              bridge.ports[IF i < n THEN i ELSE i + 1]]
    <3>1. PICK n \in DOMAIN bridge.ports, addr \in 0 .. MacSpan - 1 :
            Restarts([bridge EXCEPT !.ports = list(n), !.addr = addr],
                     [port EXCEPT ![p] = NewPort(p)])
      BY <2>20 DEF PortDelete
    <3>2. list(n) \in Seq(Port) /\ addr \in Nat
      <4>1. list(n) \in Seq(Port)
        BY <2>1, ListType DEF BridgeOK
      <4> QED
        BY <4>1, SMT DEF MacSpan
    <3> HIDE DEF list
    <3>3. /\ BridgeOK([bridge EXCEPT !.ports = list(n), !.addr = addr])
          /\ PortsOK([port EXCEPT ![p] = NewPort(p)])
      BY <2>1, <3>2, RelistedType, NewPortType, PortsExcept
    <3> QED
      BY <2>20, <3>1, <3>3, RestartsType DEF PortDelete
  <2>21. ASSUME NEW p \in Listed(bridge), SetPortCfg(p)
        PROVE  TypeOK'
    <3>1. PICK c \in PortCfgs : \/ SetPortCfgFails(p, c)
                               \/ SetPortCfgSucceeds(p, c)
      BY <2>21 DEF SetPortCfg
    <3> DEFINE m == WithMcheck(port[p], bridge, c)
               r == WithFlags(WithPrio(WithCost(m, c), c, p), c)
    <3>2. /\ IsPort(m) /\ IsPort(WithCost(m, c)) /\ IsPort(r)
      BY <2>1, <2>2, SetPortCfgType
    <3> HIDE DEF m, r
    <3>3. IsPort(Reselect(r))
      BY <3>2, ReselectType
    <3>4. PortsOK(port') /\ bridge' = bridge /\ call' \in CallKind
      <4>1. CASE SetPortCfgFails(p, c)
        BY <2>1, <3>2, <4>1, PortsExcept
           DEF SetPortCfgFails, EntersAndReturns, TypeOK, m
      <4>2. CASE SetPortCfgSucceeds(p, c)
        BY <2>1, <3>3, <4>2, PortsExcept
           DEF SetPortCfgSucceeds, Enters, CallKind, m, r
      <4> QED
        BY <3>1, <4>1, <4>2
    <3> QED
      BY <2>17, <2>21, <3>4 DEF SetPortCfg, TypeOK, PortsOK
  <2>22. ASSUME NEW p \in Listed(bridge),
               ChangedPortSpeed(p) \/ ChangedPortDuplex(p)
        PROVE  TypeOK'
    <3>1. PICK q : /\ IsPort(q)
                   /\ \/ port' = [port EXCEPT ![p] = q]
                      \/ port' = [port EXCEPT ![p] = Reselect(q)]
      BY <2>1, <2>2, <2>22, LinkOutcome
    <3>2. PortsOK(port')
      BY <2>1, <3>1, ReselectType, PortsExcept
    <3> QED
      BY <2>17, <2>22, <3>2
         DEF ChangedPortSpeed, ChangedPortDuplex, EntersAndReturns, TypeOK,
             PortsOK
  <2>23. ASSUME NEW p \in Listed(bridge), NEW enable, EnablePort(p, enable)
        PROVE  TypeOK'
    <3>1. PortsOK(port')
      BY <2>1, <2>2, <2>23, EnableOnType, PortsExcept DEF EnablePort, LinkIs
    <3> QED
      BY <2>17, <2>23, <3>1
         DEF EnablePort, LinkIs, EntersAndReturns, TypeOK, PortsOK
  <2>24. CASE UNCHANGED vars
    BY <2>24 DEF vars, TypeOK
  <2> QED
    BY <2>1, <2>2, <2>3, <2>4, <2>5, <2>6, <2>7, <2>8, <2>9, <2>10, <2>11,
       <2>12, <2>13, <2>14, <2>15, <2>16, <2>17, <2>18, <2>19, <2>20,
       <2>21, <2>22, <2>23, <2>24
       DEF Next, MachineStep, Management
<1> QED
  BY <1>1, <1>2, PTL DEF Spec

-----------------------------------------------------------------------------
(* A port is selected, or waits to be.                                     *)

\* The inductive invariant of SelectedOrReselect.  It adds that a port stays
\* enabled (STP_port_init always sets portEnabled), which RolesSettled needs.
EveryPortInService == \A p \in Listed(bridge) : InService(port[p])

\* One port of the bridge has changed and is in service.
LEMMA OnePortService ==
  ASSUME TypeOK, EveryPortInService, NEW p \in Listed(bridge),
         NEW STATE q, InService(q),
         bridge' = bridge, port' = [port EXCEPT ![p] = q]
  PROVE  EveryPortInService'
BY DEF TypeOK, EveryPortInService, Listed

\* Flags raised on every port by a machine are not among the three.
LEMMA PortMovedAllService ==
  ASSUME TypeOK, EveryPortInService, NEW p \in Listed(bridge),
         NEW STATE q, InService(q), NEW kind, NEW flags,
         \A f \in {"portEnabled", "selected", "reselect"} : f \notin flags,
         PortMovedAll(kind, p, q, flags)
  PROVE  EveryPortInService'
<1>1. Listed(bridge) \subseteq Port
  BY ListedPorts DEF TypeOK
<1>2. ASSUME NEW r, IsPort(r), InService(r)
      PROVE  InService([r EXCEPT !.on = r.on \cup flags])
  BY <1>2, SMT DEF IsPort, PortField, InService
<1>3. bridge' = bridge
  BY DEF PortMovedAll
<1>4. \A r \in Listed(bridge) : InService(port'[r])
  BY <1>1, <1>2 DEF TypeOK, EveryPortInService, PortMovedAll
<1> QED
  BY <1>3, <1>4 DEF EveryPortInService, Listed

\* Every listed port is in service at every transition.
THEOREM AlwaysInService == Spec => []EveryPortInService
<1>1. Init => EveryPortInService
  <2> SUFFICES ASSUME Init, TypeOK
               PROVE  EveryPortInService
    BY InitType
  <2>1. BridgeOK(bridge) /\ PortsOK([p \in Port |-> NewPort(p)])
    BY NewPortType DEF TypeOK, BridgeOK, PortsOK
  <2> QED
    BY <2>1, AllStartedType DEF Init, EveryPortInService
<1>2. TypeOK /\ TypeOK' /\ EveryPortInService /\ [Next]_vars
        => EveryPortInService'
  <2> SUFFICES ASSUME TypeOK, TypeOK', EveryPortInService, [Next]_vars
               PROVE  EveryPortInService'
    OBVIOUS
  <2>1. /\ BridgeOK(bridge) /\ PortsOK(port)
        /\ Listed(bridge) \subseteq Port
    BY ListedPorts DEF TypeOK, BridgeOK, PortsOK
  <2>2. \A p \in Listed(bridge) : IsPort(port[p]) /\ InService(port[p])
    BY <2>1 DEF TypeOK, EveryPortInService
  <2>3. ASSUME NEW p \in Listed(bridge), TransmitStep(p)
        PROVE  EveryPortInService'
    <3>1. PICK to \in TransmitState :
            PortMoved("transmit", p, TransmitEnter(port[p], bridge, to))
      BY <2>3 DEF TransmitStep
    <3>2. InService(TransmitEnter(port[p], bridge, to))
      BY <2>2, TransmitService, StillInService
    <3> QED
      BY <3>1, <3>2, OnePortService DEF PortMoved
  <2>4. ASSUME NEW p \in Listed(bridge), SttransStep(p)
        PROVE  EveryPortInService'
    <3>1. PICK to \in SttransState :
            PortMoved("sttrans", p, SttransEnter(port[p], to))
      BY <2>4 DEF SttransStep
    <3>2. InService(SttransEnter(port[p], to))
      BY <2>2, SttransService, StillInService
    <3> QED
      BY <3>1, <3>2, OnePortService DEF PortMoved
  <2>5. ASSUME NEW p \in Listed(bridge), InfoStep(p)
        PROVE  EveryPortInService'
    <3>1. PICK to \in InfoState :
            PortMoved("info", p, InfoEnter(port[p], bridge, to))
      BY <2>5 DEF InfoStep
    <3>2. InService(InfoEnter(port[p], bridge, to))
      BY <2>2, InfoService
    <3> QED
      BY <3>1, <3>2, OnePortService DEF PortMoved
  <2>6. ASSUME NEW p \in Listed(bridge), PcostStep(p)
        PROVE  EveryPortInService'
    <3>1. PICK to \in PcostState :
            PortMoved("pcost", p, PcostEnter(port[p], to))
      BY <2>6 DEF PcostStep
    <3>2. InService(PcostEnter(port[p], to))
      BY <2>2, PcostService
    <3> QED
      BY <3>1, <3>2, OnePortService DEF PortMoved
  <2>7. ASSUME NEW p \in Listed(bridge), BrdgdetStep(p)
        PROVE  EveryPortInService'
    <3>1. PICK to \in BrdgdetState :
            PortMoved("brdgdet", p, BrdgdetEnter(port[p], to))
      BY <2>7 DEF BrdgdetStep
    <3>2. InService(BrdgdetEnter(port[p], to))
      BY <2>2, BrdgdetService, StillInService
    <3> QED
      BY <3>1, <3>2, OnePortService DEF PortMoved
  <2>8. ASSUME NEW p \in Listed(bridge), P2pStep(p)
        PROVE  EveryPortInService'
    <3>1. PICK to \in P2pState :
            PortMoved("p2p", p, P2pEnter(port[p], to))
      BY <2>8 DEF P2pStep
    <3>2. InService(P2pEnter(port[p], to))
      BY <2>2, P2pService, StillInService
    <3> QED
      BY <3>1, <3>2, OnePortService DEF PortMoved
  <2>9. ASSUME NEW p \in Listed(bridge), MigrateStep(p)
        PROVE  EveryPortInService'
    <3>1. PICK to \in MigrateState :
            PortMoved("migrate", p, MigrateEnter(port[p], bridge, to))
      BY <2>9 DEF MigrateStep
    <3>2. InService(MigrateEnter(port[p], bridge, to))
      BY <2>2, MigrateService, StillInService
    <3> QED
      BY <3>1, <3>2, OnePortService DEF PortMoved
  <2>10. ASSUME NEW p \in Listed(bridge), ReceiveStep(p)
        PROVE  EveryPortInService'
    <3>1. PICK to \in ReceiveState :
            PortMoved("receive", p, ReceiveEnter(port[p], to))
      BY <2>10 DEF ReceiveStep
    <3>2. InService(ReceiveEnter(port[p], to))
      BY <2>2, ReceiveService, StillInService
    <3> QED
      BY <3>1, <3>2, OnePortService DEF PortMoved
  <2>11. ASSUME NEW p \in Listed(bridge), RoletrnsStep(p)
        PROVE  EveryPortInService'
    <3>1. PICK to \in RoletrnsState :
            LET q == RoletrnsEnter(port[p], bridge, to)
                flags == RoletrnsBroadcast(to)
            IN PortMovedAll("roletrns", p, [q EXCEPT !.on = q.on \cup flags],
                            flags)
      BY <2>11 DEF RoletrnsStep
    <3> DEFINE q == RoletrnsEnter(port[p], bridge, to)
               flags == RoletrnsBroadcast(to)
    <3>2. \A f \in {"portEnabled", "selected", "reselect"} : f \notin flags
      BY DEF RoletrnsBroadcast
    <3>3. IsPort(q) /\ InService(q)
      BY <2>1, <2>2, RoletrnsType, RoletrnsService, StillInService
         DEF BridgeOK
    <3> HIDE DEF q, flags
    <3>4. InService([q EXCEPT !.on = q.on \cup flags])
      BY <3>2, <3>3, SMT DEF IsPort, PortField, InService
    <3>5. PortMovedAll("roletrns", p, [q EXCEPT !.on = q.on \cup flags],
                       flags)
      BY <3>1 DEF q, flags
    <3> QED
      BY <3>2, <3>4, <3>5, PortMovedAllService
  <2>12. ASSUME NEW p \in Listed(bridge), TopochStep(p)
        PROVE  EveryPortInService'
    <3>1. PICK to \in TopochState :
            PortMovedAll("topoch", p, TopochEnter(port[p], bridge, to),
                         TopochBroadcast(to))
      BY <2>12 DEF TopochStep
    <3>2. \A f \in {"portEnabled", "selected", "reselect"} :
            f \notin TopochBroadcast(to)
      BY DEF TopochBroadcast, Given
    <3>3. InService(TopochEnter(port[p], bridge, to))
      BY <2>2, TopochService, StillInService
    <3> QED
      BY <3>1, <3>2, <3>3, PortMovedAllService
  <2>13. ASSUME RoleselStep
        PROVE  EveryPortInService'
    <3>1. PICK to \in RoleselState, source \in {0} \cup Listed(bridge) :
            /\ bridge' = IF to = "ROLE_SELECTION"
                         THEN WithRoot(bridge, port, source)
                         ELSE [bridge EXCEPT !.rolesel = to]
            /\ port' = [p \in Port |->
                          IF p \notin Listed(bridge) THEN port[p]
                          ELSE IF to = "ROLE_SELECTION"
                               THEN WithRole(WithRoot(bridge, port, source),
                                             port[p])
                               ELSE WithoutRole(port[p])]
      BY <2>13 DEF RoleselStep
    <3> DEFINE b == WithRoot(bridge, port, source)
    <3>2. b.ports = bridge.ports
      BY <2>1, SMT DEF WithRoot, BridgeOK, IsBridge, BridgeField
    <3> HIDE DEF b
    <3>3. bridge'.ports = bridge.ports
      <4>1. [bridge EXCEPT !.rolesel = to].ports = bridge.ports
        BY <2>1, SMT DEF BridgeOK, IsBridge, BridgeField
      <4> QED
        BY <3>1, <3>2, <4>1 DEF b
    <3>4. ASSUME NEW p \in Listed(bridge)
          PROVE  InService(port'[p])
      <4>1. InService(WithRole(b, port[p]))
        BY <2>2, WithRoleService
      <4>2. InService(WithoutRole(port[p]))
        BY <2>2, WithoutRoleService, StillInService
      <4> QED
        BY <2>1, <3>1, <4>1, <4>2 DEF b
    <3> QED
      BY <3>3, <3>4 DEF EveryPortInService, Listed
  <2>14. CASE UpdateReturns
    <3>1. [bridge EXCEPT !.Topology_Change =
             \E p \in Listed(bridge) : port[p].timer["tcWhile"] # 0].ports
             = bridge.ports
      BY <2>1, SMT DEF BridgeOK, IsBridge, BridgeField
    <3> QED
      BY <2>14, <3>1 DEF UpdateReturns, EveryPortInService, Listed
  <2>15. CASE OneSecond
    <3>1. \A p \in Listed(bridge) : InService(port'[p])
      BY <2>1, <2>2, <2>15, CountDownType, StillInService
         DEF OneSecond, Ticks, SetsOnly
    <3> QED
      BY <2>15, <3>1 DEF OneSecond, Ticks, SetsOnly, EveryPortInService, Listed
  <2>16. ASSUME NEW p \in Listed(bridge), RxBpdu(p)
        PROVE  EveryPortInService'
    <3>1. PICK m \in Received :
            LET q == EnableOn(port[p], TRUE) IN
            port' = [port EXCEPT ![p] =
                       InfoRxBpdu([q EXCEPT !.on = q.on \ {"operEdge"}],
                                  bridge, m)]
      BY <2>16 DEF RxBpdu, Gets
    <3> DEFINE q == EnableOn(port[p], TRUE)
               r == [q EXCEPT !.on = q.on \ {"operEdge"}]
    <3>2. IsPort(q) /\ InService(q)
      BY <2>2, EnableOnType
    <3> HIDE DEF q
    <3>3. IsPort(r) /\ InService(r)
      BY <3>2, SMT DEF IsPort, PortField, InService
    <3> HIDE DEF r
    <3>4. InService(InfoRxBpdu(r, bridge, m))
      BY <3>3, InfoRxBpduService, StillInService
    <3>5. port' = [port EXCEPT ![p] = InfoRxBpdu(r, bridge, m)]
      BY <3>1 DEF q, r
    <3> QED
      BY <2>16, <3>4, <3>5, OnePortService DEF RxBpdu, Gets
  <2>17. CASE StpmSetCfg
    <3>1. PICK b : /\ BridgeOK(b) /\ b.ports = bridge.ports
                   /\ Restarts(b, port) \/ SetsOnly(b)
      BY <2>1, <2>17, SetCfgOutcome DEF SameRoot
    <3>2. CASE Restarts(b, port)
      BY <2>1, <2>17, <3>1, <3>2, RestartsType
         DEF StpmSetCfg, EveryPortInService
    <3>3. CASE SetsOnly(b)
      BY <3>1, <3>3 DEF SetsOnly, EveryPortInService, Listed
    <3> QED
      BY <3>1, <3>2, <3>3
  <2>18. ASSUME NEW p \in Port, PortCreate(p)
        PROVE  EveryPortInService'
    <3> DEFINE list == <<p>> \o bridge.ports
    <3>1. PICK addr \in 0 .. MacSpan - 1 :
            Restarts([bridge EXCEPT !.ports = list, !.addr = addr],
                     [port EXCEPT ![p] = NewPort(p)])
      BY <2>18 DEF PortCreate
    <3>2. list \in Seq(Port) /\ addr \in Nat
      BY <2>1, ListType, SMT DEF BridgeOK, MacSpan
    <3> HIDE DEF list
    <3>3. /\ BridgeOK([bridge EXCEPT !.ports = list, !.addr = addr])
          /\ PortsOK([port EXCEPT ![p] = NewPort(p)])
      BY <2>1, <3>2, RelistedType, NewPortType, PortsExcept
    <3> QED
      BY <2>18, <3>1, <3>3, RestartsType DEF PortCreate, EveryPortInService
  <2>19. ASSUME NEW p \in Listed(bridge), PortDelete(p)
        PROVE  EveryPortInService'
    <3> DEFINE list(n) == [i \in 1 .. Len(bridge.ports) - 1 |->
                              bridge.ports[IF i < n THEN i ELSE i + 1]]
    <3>1. PICK n \in DOMAIN bridge.ports, addr \in 0 .. MacSpan - 1 :
            Restarts([bridge EXCEPT !.ports = list(n), !.addr = addr],
                     [port EXCEPT ![p] = NewPort(p)])
      BY <2>19 DEF PortDelete
    <3>2. list(n) \in Seq(Port) /\ addr \in Nat
      <4>1. list(n) \in Seq(Port)
        BY <2>1, ListType DEF BridgeOK
      <4> QED
        BY <4>1, SMT DEF MacSpan
    <3> HIDE DEF list
    <3>3. /\ BridgeOK([bridge EXCEPT !.ports = list(n), !.addr = addr])
          /\ PortsOK([port EXCEPT ![p] = NewPort(p)])
      BY <2>1, <3>2, RelistedType, NewPortType, PortsExcept
    <3> QED
      BY <2>19, <3>1, <3>3, RestartsType DEF PortDelete, EveryPortInService
  <2>20. ASSUME NEW p \in Listed(bridge), SetPortCfg(p)
        PROVE  EveryPortInService'
    <3>1. PICK c \in PortCfgs : \/ SetPortCfgFails(p, c)
                               \/ SetPortCfgSucceeds(p, c)
      BY <2>20 DEF SetPortCfg
    <3> DEFINE m == WithMcheck(port[p], bridge, c)
               r == WithFlags(WithPrio(WithCost(m, c), c, p), c)
    <3>2. /\ InService(m) /\ InService(WithCost(m, c))
          /\ IsPort(r) /\ InService(r)
      BY <2>1, <2>2, SetPortCfgType, StillInService
    <3> HIDE DEF m, r
    <3>3. InService(Reselect(r))
      BY <3>2, ReselectType DEF InService
    <3>4. CASE SetPortCfgFails(p, c)
      BY <3>2, <3>4, OnePortService
         DEF SetPortCfgFails, EntersAndReturns, m
    <3>5. CASE SetPortCfgSucceeds(p, c)
      BY <3>3, <3>5, OnePortService DEF SetPortCfgSucceeds, m, r
    <3> QED
      BY <3>1, <3>4, <3>5
  <2>21. ASSUME NEW p \in Listed(bridge),
               ChangedPortSpeed(p) \/ ChangedPortDuplex(p)
        PROVE  EveryPortInService'
    <3>1. PICK q : /\ IsPort(q) /\ SameRole(port[p], q)
                   /\ \/ port' = [port EXCEPT ![p] = q]
                      \/ port' = [port EXCEPT ![p] = Reselect(q)]
      BY <2>1, <2>2, <2>21, LinkOutcome
    <3>2. InService(q) /\ InService(Reselect(q))
      <4>1. InService(q)
        BY <2>2, <3>1, StillInService DEF SameRole
      <4> QED
        BY <3>1, <4>1, ReselectType DEF InService
    <3>3. bridge' = bridge
      BY <2>21 DEF ChangedPortSpeed, ChangedPortDuplex, EntersAndReturns
    <3> QED
      BY <3>1, <3>2, <3>3, OnePortService
  <2>22. ASSUME NEW p \in Listed(bridge), NEW enable, EnablePort(p, enable)
        PROVE  EveryPortInService'
    <3>1. InService(EnableOn(port[p], enable))
      BY <2>2, EnableOnType
    <3> QED
      BY <2>22, <3>1, OnePortService DEF EnablePort, LinkIs, EntersAndReturns
  <2>23. CASE UNCHANGED vars
    BY <2>23 DEF vars, EveryPortInService
  <2> QED
    BY <2>1, <2>2, <2>3, <2>4, <2>5, <2>6, <2>7, <2>8, <2>9, <2>10, <2>11,
       <2>12, <2>13, <2>14, <2>15, <2>16, <2>17, <2>18, <2>19, <2>20,
       <2>21, <2>22, <2>23
       DEF Next, MachineStep, Management
<1> QED
  BY <1>1, <1>2, TypeCorrect, PTL DEF Spec

(***************************************************************************)
(* At every transition a port is either selected or waiting for the next   *)
(* selection, however the information, path cost, port and bridge          *)
(* configuration and the link change (the pairs of assignments to selected *)
(* and reselect in portinfo.c, pcost.c, rolesel.c and stp_in.c).           *)
(***************************************************************************)
THEOREM AlwaysSelectedOrReselect == Spec => []SelectedOrReselect
<1>1. EveryPortInService => SelectedOrReselect
  BY DEF EveryPortInService, InService, SelectedOrReselect, On
<1> QED
  BY <1>1, AlwaysInService, PTL

-----------------------------------------------------------------------------
(* When no machine can move, every port has its role.                      *)

\* portinfo.c: a machine that cannot move waits for a selection or for a
\* BPDU, and has installed what was selected.
LEMMA InfoAtRest ==
  ASSUME NEW q, IsPort(q), "portEnabled" \in q.on, "selected" \in q.on,
         \A to \in InfoState : ~InfoHop(q, to)
  PROVE  Settled(q) /\ q.info \in {"AGED", "CURRENT"}
<1>1. q.info # "BEGIN"
  BY DEF InfoHop, InfoState
<1>2. q.info # "DISABLED"
  BY <1>1 DEF InfoHop, InfoState
<1>3. q.info # "UPDATE"
  BY <1>1 DEF InfoHop, InfoState
<1>4. q.info # "RECEIVE"
  <2> SUFFICES ASSUME q.info = "RECEIVE"
               PROVE  FALSE
    OBVIOUS
  <2> DEFINE to == CASE q.rcvdInfo = "SuperiorDesignatedInfo" ->
                          "SUPERIOR_DESIGNATED"
                     [] q.rcvdInfo = "RepeatedDesignatedInfo" ->
                          "REPEATED_DESIGNATED"
                     [] q.rcvdInfo = "InferiorDesignatedInfo" ->
                          "INFERIOR_DESIGNATED"
                     [] q.rcvdInfo = "InferiorRootAlternateInfo" ->
                          "NOT_DESIGNATED"
                     [] q.rcvdInfo = "OtherInfo" -> "OTHER"
  <2>1. to \in InfoState
    <3>1. q.rcvdInfo \in RcvdInfo
      BY DEF IsPort
    <3>2. CASE q.rcvdInfo = "SuperiorDesignatedInfo"
      BY <3>2 DEF InfoState
    <3>3. CASE q.rcvdInfo = "RepeatedDesignatedInfo"
      BY <3>3 DEF InfoState
    <3>4. CASE q.rcvdInfo = "InferiorDesignatedInfo"
      BY <3>4 DEF InfoState
    <3>5. CASE q.rcvdInfo = "InferiorRootAlternateInfo"
      BY <3>5 DEF InfoState
    <3>6. CASE q.rcvdInfo = "OtherInfo"
      BY <3>6 DEF InfoState
    <3> QED
      BY <3>1, <3>2, <3>3, <3>4, <3>5, <3>6 DEF RcvdInfo
  <2>2. InfoHop(q, to)
    BY DEF InfoHop
  <2> QED
    BY <2>1, <2>2
<1>5. q.info \notin {"SUPERIOR_DESIGNATED", "REPEATED_DESIGNATED",
                    "INFERIOR_DESIGNATED", "NOT_DESIGNATED", "OTHER"}
  BY <1>1 DEF InfoHop, InfoState
<1>6. q.info \in {"AGED", "CURRENT"}
  BY <1>1, <1>2, <1>3, <1>4, <1>5 DEF IsPort, InfoState
<1>7. "updtInfo" \notin q.on
  BY <1>6 DEF InfoHop, InfoState
<1> QED
  BY <1>6, <1>7 DEF Settled

\* roletrns.c: a machine that cannot move has taken the selected role.  It
\* has no state for NonStpPort.
LEMMA RoletrnsAtRest ==
  ASSUME NEW q, IsPort(q), NEW b, NEW others, Settled(q),
         \A to \in RoletrnsState : ~RoletrnsHop(q, b, others, to)
  PROVE  q.role = q.selectedRole \/ q.selectedRole = "NonStpPort"
<1>1. q.roletrns # "BEGIN"
  BY DEF RoletrnsHop, RoletrnsState
<1>2. ASSUME NEW to \in RoletrnsState, RoleEntry(q, to)
      PROVE  ~NewRole(q)
  BY <1>1, <1>2 DEF RoletrnsHop
<1>3. CASE q.selectedRole = "DisabledPort"
  BY <1>2, <1>3 DEF RoleEntry, RoletrnsState, NewRole
<1>4. CASE q.selectedRole \in {"AlternatePort", "BackupPort"}
  BY <1>2, <1>4 DEF RoleEntry, RoletrnsState, NewRole
<1>5. CASE q.selectedRole = "RootPort"
  BY <1>2, <1>5 DEF RoleEntry, RoletrnsState, NewRole
<1>6. CASE q.selectedRole = "DesignatedPort"
  BY <1>2, <1>6 DEF RoleEntry, RoletrnsState, NewRole
<1> QED
  BY <1>3, <1>4, <1>5, <1>6 DEF IsPort, PortRole

\* The part of RolesSettled about one port.
HasItsRole(q) == Settled(q) /\ (\/ q.role = q.selectedRole
                              \/ q.selectedRole = "NonStpPort")

\* An entry point that does not run the update changes one port: either it
\* asks for a selection or the port keeps the role it has.
LEMMA OnePortSettled ==
  ASSUME TypeOK, RolesSettled, EntersAndReturns,
         NEW p \in Listed(bridge), NEW STATE q,
         port' = [port EXCEPT ![p] = q],
         \/ "reselect" \in q.on
         \/ /\ "reselect" \in port[p].on => "reselect" \in q.on
            /\ HasItsRole(port[p]) => HasItsRole(q)
  PROVE  RolesSettled'
<1>1. /\ Listed(bridge) \subseteq Port /\ bridge' = bridge /\ call' = call
      /\ p \in DOMAIN port
  BY ListedPorts DEF TypeOK, EntersAndReturns
<1> SUFFICES ASSUME call = "none",
                    \A r \in Listed(bridge) : "reselect" \notin port'[r].on
             PROVE  \A r \in Listed(bridge) : HasItsRole(port'[r])
  BY <1>1 DEF RolesSettled, AtRest, On, HasItsRole, Listed
<1>2. port'[p] = q /\ \A r \in Listed(bridge) \ {p} : port'[r] = port[r]
  BY <1>1
<1>3. \A r \in Listed(bridge) : "reselect" \notin port[r].on
  BY <1>2
<1>4. \A r \in Listed(bridge) : HasItsRole(port[r])
  BY <1>3 DEF RolesSettled, AtRest, On, HasItsRole
<1> QED
  BY <1>2, <1>4

(***************************************************************************)
(* When an entry point has returned and no selection is outstanding, every *)
(* port has taken the role selected for it and installed the information   *)
(* that goes with it, for any number of ports and any history              *)
(* (STP_stpm_update, portinfo.c, roletrns.c).                              *)
(***************************************************************************)
THEOREM RolesAlwaysSettled == Spec => []RolesSettled
<1>1. Init => RolesSettled
  BY DEF Init, RolesSettled, AtRest
<1>2. /\ TypeOK /\ EveryPortInService /\ RolesSettled /\ [Next]_vars
      => RolesSettled'
  <2> SUFFICES ASSUME TypeOK, EveryPortInService, RolesSettled, [Next]_vars
               PROVE  RolesSettled'
    OBVIOUS
  <2>1. /\ Listed(bridge) \subseteq Port
        /\ \A p \in Listed(bridge) : IsPort(port[p]) /\ InService(port[p])
    BY ListedPorts DEF TypeOK, EveryPortInService
  <2>2. ASSUME call' # "none"
        PROVE  RolesSettled'
    BY <2>2 DEF RolesSettled, AtRest
  <2>3. ASSUME NEW p \in Listed(bridge),
               \/ TransmitStep(p) \/ SttransStep(p) \/ RoletrnsStep(p)
               \/ InfoStep(p) \/ PcostStep(p) \/ BrdgdetStep(p) \/ P2pStep(p)
               \/ MigrateStep(p) \/ TopochStep(p) \/ ReceiveStep(p)
        PROVE  call' # "none"
    BY <2>3 DEF TransmitStep, SttransStep, RoletrnsStep, InfoStep, PcostStep,
         BrdgdetStep, P2pStep, MigrateStep, TopochStep, ReceiveStep,
         PortMoved, PortMovedAll, Turn
  <2>4. RoleselStep => call' # "none"
    BY DEF RoleselStep, Turn
  <2>5. CASE UpdateReturns
    <3>1. ASSUME NEW p \in Listed(bridge), "reselect" \notin port[p].on
          PROVE  HasItsRole(port[p])
      <4>1. /\ Machine("info", p) \in AllMachines
            /\ Machine("roletrns", p) \in AllMachines
        <5>1. /\ 3 \in DOMAIN MachineOrder /\ MachineOrder[3] = "roletrns"
              /\ 4 \in DOMAIN MachineOrder /\ MachineOrder[4] = "info"
          BY SMT DEF MachineOrder
        <5> QED
          BY <5>1 DEF AllMachines
      <4>2. ~Ready(Machine("info", p)) /\ ~Ready(Machine("roletrns", p))
        BY <2>5, <4>1 DEF UpdateReturns
      <4>3. \A to \in InfoState : ~InfoHop(port[p], to)
        BY <4>2 DEF Ready, Machine
      <4>4. \A to \in RoletrnsState :
              ~RoletrnsHop(port[p], bridge, Others(p), to)
        BY <4>2 DEF Ready, Machine
      <4>5. Settled(port[p])
        BY <2>1, <3>1, <4>3, InfoAtRest DEF InService
      <4> QED
        BY <2>1, <4>4, <4>5, RoletrnsAtRest DEF HasItsRole
    <3>2. Listed(bridge)' = Listed(bridge) /\ port' = port
      <4>1. [bridge EXCEPT !.Topology_Change =
               \E p \in Listed(bridge) : port[p].timer["tcWhile"] # 0].ports
               = bridge.ports
        BY SMT DEF TypeOK, IsBridge, BridgeField
      <4> QED
        BY <2>5, <4>1 DEF UpdateReturns, Listed
    <3> QED
      BY <3>1, <3>2 DEF RolesSettled, AtRest, On, HasItsRole
  <2>6. ASSUME \/ \E p \in Listed(bridge) : RxBpdu(p) \/ PortDelete(p)
               \/ \E p \in Port : PortCreate(p)
        PROVE  call' # "none"
    BY <2>6 DEF RxBpdu, Gets, PortCreate, PortDelete, Restarts, Enters
  <2>13. ASSUME NEW b, SetsOnly(b), b.ports = bridge.ports
         PROVE  RolesSettled'
    BY <2>13 DEF SetsOnly, RolesSettled, AtRest, On, HasItsRole, Listed
  <2>14. CASE OneSecond
    BY <2>2, <2>13, <2>14 DEF OneSecond, Ticks, Enters
  <2>15. CASE StpmSetCfg
    <3>1. BridgeOK(bridge)
      BY DEF TypeOK, BridgeOK
    <3>2. PICK b : b.ports = bridge.ports /\ (Restarts(b, port) \/ SetsOnly(b))
      BY <2>15, <3>1, SetCfgOutcome DEF SameRoot
    <3> QED
      BY <2>2, <2>13, <3>2 DEF Restarts, Enters
  <2>7. ASSUME NEW p \in Listed(bridge), SetPortCfg(p)
        PROVE  RolesSettled'
    <3>1. PICK c \in PortCfgs : \/ SetPortCfgFails(p, c)
                               \/ SetPortCfgSucceeds(p, c)
      BY <2>7 DEF SetPortCfg
    <3>2. CASE SetPortCfgSucceeds(p, c)
      BY <2>2, <3>2 DEF SetPortCfgSucceeds, Enters
    <3>3. CASE SetPortCfgFails(p, c)
      <4> DEFINE q == WithMcheck(port[p], bridge, c)
                 r == WithCost(q, c)
      <4>1. /\ IsPort(q) /\ SameService(port[p], q)
            /\ HasItsRole(port[p]) => HasItsRole(q)
        <5>1. IsPort(q) /\ SameService(port[p], q)
          BY <2>1, SetPortCfgType
        <5>2. /\ q.role = port[p].role /\ q.selectedRole = port[p].selectedRole
              /\ "updtInfo" \in q.on <=> "updtInfo" \in port[p].on
          BY <2>1, SMT DEF WithMcheck, Given, IsPort, PortField
        <5> QED
          BY <5>1, <5>2 DEF SameService, HasItsRole, Settled
      <4> HIDE DEF q
      <4>2. /\ SameService(port[p], r)
            /\ HasItsRole(port[p]) => HasItsRole(r)
        <5>1. /\ r.role = q.role /\ r.selectedRole = q.selectedRole
              /\ r.on = q.on
          BY <4>1, SMT DEF WithCost, IsPort, PortField
        <5> QED
          BY <4>1, <5>1 DEF SameService, HasItsRole, Settled
      <4> HIDE DEF r
      <4>3. EntersAndReturns /\ port' = [port EXCEPT ![p] =
                                           IF BadCost(c) THEN q ELSE r]
        BY <3>3 DEF SetPortCfgFails, q, r
      <4> QED
        BY <4>1, <4>2, <4>3, OnePortSettled DEF SameService
    <3> QED
      BY <3>1, <3>2, <3>3
  <2>8. ASSUME NEW p \in Listed(bridge), NEW q, IsPort(q), EntersAndReturns,
               port' = [port EXCEPT ![p] = Reselect(q)]
        PROVE  RolesSettled'
    <3>1. "reselect" \in Reselect(q).on
      BY <2>8, SMT DEF Reselect, IsPort, PortField
    <3> QED
      BY <2>8, <3>1, OnePortSettled
  <2>9. ASSUME NEW p \in Listed(bridge),
               ChangedPortSpeed(p) \/ ChangedPortDuplex(p)
        PROVE  RolesSettled'
    <3>1. PICK q : /\ IsPort(q) /\ SameRole(port[p], q)
                   /\ \/ port' = [port EXCEPT ![p] = q]
                      \/ port' = [port EXCEPT ![p] = Reselect(q)]
      BY <2>1, <2>9, LinkOutcome
    <3>2. EntersAndReturns
      BY <2>9 DEF ChangedPortSpeed, ChangedPortDuplex
    <3>3. CASE port' = [port EXCEPT ![p] = q]
      <4>1. /\ "reselect" \in port[p].on => "reselect" \in q.on
            /\ HasItsRole(port[p]) => HasItsRole(q)
        BY <3>1 DEF SameRole, SameService, HasItsRole, Settled
      <4> QED
        BY <3>2, <3>3, <4>1, OnePortSettled
    <3> QED
      BY <2>8, <3>1, <3>2, <3>3
  <2>11. ASSUME NEW p \in Listed(bridge), NEW enable, EnablePort(p, enable)
         PROVE  RolesSettled'
    <3>1. CASE EnableOn(port[p], enable) = port[p]
      BY <2>11, <3>1, OnePortSettled DEF EnablePort, LinkIs
    <3>2. CASE EnableOn(port[p], enable) = Reselect(PortReset(port[p]))
      BY <2>1, <2>8, <2>11, <3>2, PortResetType DEF EnablePort, LinkIs
    <3> QED
      BY <3>1, <3>2 DEF EnableOn
  <2>12. CASE UNCHANGED vars
    BY <2>12 DEF vars, RolesSettled, AtRest, On, Listed
  <2> QED
    BY <2>1, <2>2, <2>3, <2>4, <2>5, <2>6, <2>7, <2>9, <2>11, <2>12, <2>14,
       <2>15
       DEF Next, MachineStep, Management
<1> QED
  BY <1>1, <1>2, TypeCorrect, AlwaysInService, PTL DEF Spec

=============================================================================
