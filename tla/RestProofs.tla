----------------------------- MODULE RestProofs -----------------------------
(***************************************************************************)
(* What holds of the ports of a bridge whenever its entry points have      *)
(* returned: nothing is relayed by a blocked port, nothing received is     *)
(* left behind, a migration check asked for has been made, no proposal is  *)
(* left half answered, and a port outside the protocol forwards.  And at   *)
(* every step: no topology change is told, and every port is a gate that   *)
(* opens as PortGate says.                                                 *)
(***************************************************************************)
EXTENDS BridgeProofs

-----------------------------------------------------------------------------
(* What one step of the bridge does to one of its ports.                   *)

\* The machine of that kind of port p moved; the bridge is as it was.
Ran(kind, p) ==
  /\ Turn(Machine(kind, p))
  /\ running' = Machine(kind, p)
  /\ bridge' = bridge
  /\ call' = call

\* One of the machines of port p made a transition.
Transited(p) ==
  LET q == port[p] IN
  \/ \E to \in TransmitState :
       /\ Ran("transmit", p) /\ TransmitHop(q, to)
       /\ port'[p] = TransmitEnter(q, bridge, to)
  \/ \E to \in SttransState :
       /\ Ran("sttrans", p) /\ SttransHop(q, to)
       /\ port'[p] = SttransEnter(q, to)
  \/ \E to \in RoletrnsState :
       LET r == RoletrnsEnter(q, bridge, to) IN
       /\ Ran("roletrns", p) /\ RoletrnsHop(q, bridge, Others(p), to)
       /\ port'[p] = [r EXCEPT !.on = r.on \cup RoletrnsBroadcast(to)]
  \/ \E to \in InfoState :
       /\ Ran("info", p) /\ InfoHop(q, to)
       /\ port'[p] = InfoEnter(q, bridge, to)
  \/ \E to \in PcostState :
       /\ Ran("pcost", p) /\ PcostHop(q, to)
       /\ port'[p] = PcostEnter(q, to)
  \/ \E to \in BrdgdetState :
       /\ Ran("brdgdet", p) /\ BrdgdetHop(q, to)
       /\ port'[p] = BrdgdetEnter(q, to)
  \/ \E to \in P2pState :
       /\ Ran("p2p", p) /\ P2pHop(q, to)
       /\ port'[p] = P2pEnter(q, to)
  \/ \E to \in MigrateState :
       /\ Ran("migrate", p) /\ MigrateHop(q, bridge, to)
       /\ port'[p] = MigrateEnter(q, bridge, to)
  \/ \E to \in TopochState :
       /\ Ran("topoch", p) /\ TopochHop(q, to)
       /\ port'[p] = TopochEnter(q, bridge, to)
  \/ \E to \in ReceiveState :
       /\ Ran("receive", p) /\ ReceiveHop(q, to)
       /\ port'[p] = ReceiveEnter(q, to)

\* A machine of another port raised flags on this one, or none.
Told(p) ==
  /\ bridge' = bridge
  /\ call # "none" /\ call' = call
  /\ \E flags \in SUBSET {"sync", "reRoot", "tcProp"} :
       port'[p] = [port[p] EXCEPT !.on = port[p].on \cup flags]

\* The role selection machine took the role of the port, or gave it one.
Elected(p) ==
  /\ call # "none" /\ call' = call
  /\ \/ /\ bridge.rolesel = "BEGIN"
        /\ bridge' = [bridge EXCEPT !.rolesel = "INIT_BRIDGE"]
        /\ port'[p] = WithoutRole(port[p])
     \/ /\ BestSource(bridge, port) \in {0} \cup Listed(bridge)
        /\ bridge' = WithRoot(bridge, port, BestSource(bridge, port))
        /\ port'[p] = WithRole(bridge', port[p])

\* The bridge was started again, and the port with it.
Begun(p) ==
  /\ call = "none" /\ call' = "restart"
  /\ \E b : /\ BridgeOK(b) /\ b.rstpVersion = bridge.rstpVersion
           /\ bridge' = InitData(b)
  /\ \E q \in {port[p], NewPort(p)} :
       /\ port'[p] = Started(q, bridge')
       /\ p \in Listed(bridge) \/ q = NewPort(p)

\* STP_IN_one_second and STP_IN_rx_bpdu.
Ticked(p) ==
  /\ call = "none" /\ call' = "one_second"
  /\ bridge' = bridge
  /\ port'[p] = [port[p] EXCEPT !.timer = CountDown(port[p].timer)]

Heard(p) ==
  /\ call = "none" /\ call' = "other"
  /\ bridge' = bridge
  /\ \E m \in Received :
       LET q == [port[p] EXCEPT !.on = port[p].on \ {"operEdge"}] IN
       port'[p] = InfoRxBpdu(q, bridge, m)

\* The flags that the manager and the link of a port set.
Settable == {"portEnabled", "AdminEdgePort", "operEdge", "admin_non_stp",
             "p2p_recompute", "sendRSTP", "mcheck", "selected", "reselect"}

\* A port is an edge port only as long as the manager says it is one.
AdminEdge(q) == "operEdge" \in q.on => "AdminEdgePort" \in q.on

\* The machines of q and r are in the same state, with the same information.
SameState(q, r) ==
  /\ q.receive = r.receive /\ q.migrate = r.migrate /\ q.pcost = r.pcost
  /\ q.info = r.info /\ q.roletrns = r.roletrns /\ q.sttrans = r.sttrans
  /\ q.transmit = r.transmit /\ q.topoch = r.topoch
  /\ q.brdgdet = r.brdgdet
  /\ q.role = r.role /\ q.infoIs = r.infoIs /\ q.rcvdInfo = r.rcvdInfo
  /\ q.msg = r.msg
  /\ q.portPriority = r.portPriority /\ q.portTimes = r.portTimes
  /\ q.designatedPriority = r.designatedPriority
  /\ \A f \in Flag \ Settable : f \in q.on <=> f \in r.on
  /\ "sendRSTP" \in q.on => "sendRSTP" \in r.on
  /\ AdminEdge(q) => AdminEdge(r)
  /\ q.timer["fdWhile"] = r.timer["fdWhile"]
  /\ q.timer["tcWhile"] = 0 => r.timer["tcWhile"] = 0

IsPortIdOf(id, p) == \E prio \in 0 .. MaxPortPrio : id = MakePortId(prio, p)

\* A call of the manager or of the link, which asks for a selection ...
Asked(p) ==
  /\ call = "none" /\ bridge' = bridge
  /\ SameState(port[p], port'[p])
  /\ port'[p].portId = port[p].portId \/ IsPortIdOf(port'[p].portId, p)
  /\ "reselect" \in port'[p].on /\ "selected" \notin port'[p].on

\* ... or does not, whether it returns at once or not.
Noted(p) ==
  /\ bridge' = bridge
  /\ SameState(port[p], port'[p])
  /\ \A f \in Flag \ {"mcheck"} : f \in port[p].on <=> f \in port'[p].on
  /\ port'[p].selectedRole = port[p].selectedRole
  /\ port'[p].timer = port[p].timer
  /\ port'[p].portId = port[p].portId

\* The step was not about the port, nor about the root of the bridge.
PassedOver(p) ==
  /\ SameRoot(bridge, bridge')
  /\ bridge'.stp_enabled => /\ bridge.stp_enabled
                            /\ BridgePriority(bridge') = BridgePriority(bridge)
  /\ port'[p] = port[p]

Stepped(p) == \/ Transited(p) \/ Told(p) \/ Elected(p) \/ Begun(p)
              \/ Ticked(p) \/ Heard(p) \/ Asked(p) \/ Noted(p)
              \/ PassedOver(p)

\* Asking for a selection changes the two flags only.
LEMMA ReselectAsks ==
  ASSUME NEW q, IsPort(q)
  PROVE  /\ SameState(q, Reselect(q))
         /\ Reselect(q).portId = q.portId
         /\ "reselect" \in Reselect(q).on /\ "selected" \notin Reselect(q).on
BY SMT DEF Reselect, IsPort, PortField, SameState, Settable, AdminEdge

\* One port may follow another through several such changes.
LEMMA SameStateTransitive ==
  ASSUME NEW q, NEW r, NEW s, SameState(q, r), SameState(r, s)
  PROVE  SameState(q, s)
BY DEF SameState

\* port.c, STP_port_init of an existing port leaves its machines alone.
LEMMA PortResetSame ==
  ASSUME NEW q, IsPort(q)
  PROVE  SameState(q, PortReset(q)) /\ PortReset(q).portId = q.portId
BY SMT DEF PortReset, IsPort, PortField, SameState, Settable, AdminEdge, Timer

\* stp_in.c, STP_IN_set_port_cfg: what it sets before it may fail, and what
\* it has set when it succeeds.
LEMMA SetPortCfgSame ==
  ASSUME NEW q, IsPort(q), NEW b, NEW c \in PortCfgs, NEW p \in Port
  PROVE  LET m == WithMcheck(q, b, c)
             n == WithFlags(WithPrio(WithCost(m, c), c, p), c)
         IN
         /\ ~BadPrio(c) => n.portId = q.portId \/ IsPortIdOf(n.portId, p)
         /\ \A r \in {m, WithCost(m, c)} :
              /\ SameState(q, r) /\ SameState(q, n)
              /\ \A f \in Flag \ {"mcheck"} : f \in q.on <=> f \in r.on
              /\ r.selectedRole = q.selectedRole /\ r.timer = q.timer
              /\ r.portId = q.portId
<1> DEFINE m == WithMcheck(q, b, c)
           m2 == WithCost(m, c)
           m3 == WithPrio(m2, c, p)
           n == WithFlags(m3, c)
           Alike(r) == /\ SameState(q, r)
                       /\ \A f \in Flag \ {"mcheck"} :
                            f \in q.on <=> f \in r.on
                       /\ r.selectedRole = q.selectedRole
                       /\ r.timer = q.timer
<1>1. IsPort(m) /\ IsPort(m2) /\ IsPort(n)
  BY SetPortCfgType
<1>2. Alike(m) /\ m.portId = q.portId
  BY SMT DEF WithMcheck, Given, IsPort, PortField, SameState, Settable,
             AdminEdge
<1> HIDE DEF m
<1>3. Alike(m2) /\ m2.portId = q.portId
  BY <1>1, <1>2, SMT DEF WithCost, IsPort, PortField, SameState,
                             AdminEdge
<1>4. DOMAIN m2 = PortField
  BY <1>1 DEF IsPort
<1> HIDE DEF m2
<1>5. Alike(m3) /\ DOMAIN m3 = PortField
  BY <1>3, <1>4, SMT DEF WithPrio, PortField, SameState, AdminEdge
<1>8. ~BadPrio(c) => m3.portId = q.portId \/ IsPortIdOf(m3.portId, p)
  <2>1. m3.portId = IF "prio" \in DOMAIN c THEN MakePortId(c.prio, p)
                    ELSE m2.portId
    BY <1>4, SMT DEF WithPrio, PortField
  <2>2. "prio" \in DOMAIN c => c.prio \in Nat
    BY InputAssumption DEF IsPortCfg
  <2>3. "prio" \in DOMAIN c /\ ~BadPrio(c) => c.prio \in 0 .. MaxPortPrio
    BY <2>2, SMT DEF BadPrio, MaxPortPrio
  <2> HIDE DEF m3
  <2> QED
    BY <1>3, <2>1, <2>3 DEF IsPortIdOf
<1> HIDE DEF m3
<1>6. SameState(m3, n)
  <2> DEFINE edge == Assigned(m3.on, c, "edge", {"AdminEdgePort", "operEdge"})
             stp == Assigned(edge, c, "non_stp", {"admin_non_stp"})
             on == stp \cup Given("p2p" \in DOMAIN c, {"p2p_recompute"})
             p2p == IF "p2p" \in DOMAIN c THEN c.p2p
                    ELSE m3.adminPointToPointMac
  <2>1. \A f \in Flag \ Settable : f \in edge <=> f \in m3.on
    BY DEF Assigned, Settable
  <2>2. "sendRSTP" \in m3.on => "sendRSTP" \in edge
    BY DEF Assigned
  <2> HIDE DEF edge
  <2>3. \A f \in Flag \ Settable : f \in on <=> f \in m3.on
    BY <2>1 DEF Assigned, Settable, Given
  <2>4. "sendRSTP" \in m3.on => "sendRSTP" \in on
    BY <2>2 DEF Assigned
  <2>5. n = [m3 EXCEPT !.adminPointToPointMac = p2p, !.on = on]
    BY DEF WithFlags, edge
  <2>6. ("operEdge" \in m3.on => "AdminEdgePort" \in m3.on)
          => ("operEdge" \in on => "AdminEdgePort" \in on)
    BY DEF Assigned, Given, edge
  <2> HIDE DEF on, p2p, n
  <2> QED
    BY <1>5, <2>3, <2>4, <2>5, <2>6, SMT DEF PortField, SameState, AdminEdge
<1>9. n.portId = m3.portId
  BY <1>5, SMT DEF WithFlags, PortField
<1>7. SameState(q, n)
  BY <1>5, <1>6, SameStateTransitive
<1> QED
  BY <1>2, <1>3, <1>7, <1>8, <1>9 DEF m, m2, m3

\* One port was left as r, and the bridge as it was.
LEMMA OnePortSteps ==
  ASSUME TypeOK, NEW x \in Listed(bridge), NEW r, bridge' = bridge,
         port' = [port EXCEPT ![x] = r]
  PROVE  port'[x] = r /\ \A p \in Listed(bridge) \ {x} : PassedOver(p)
BY ListedPorts DEF TypeOK, PassedOver, SameRoot

\* ... and flags were raised on the others.
LEMMA AllPortsStep ==
  ASSUME TypeOK, NEW x \in Listed(bridge), NEW r, NEW kind,
         NEW flags \in SUBSET {"sync", "reRoot", "tcProp"},
         PortMovedAll(kind, x, r, flags)
  PROVE  /\ Ran(kind, x)
         /\ port'[x] = r /\ \A p \in Listed(bridge) \ {x} : Told(p)
BY ListedPorts DEF TypeOK, PortMovedAll, Told, Ran, Turn

\* Every step of the bridge is one of these for every port it leaves.
LEMMA PortSteps ==
  ASSUME TypeOK, EveryPortInService, [Next]_vars, NEW p \in Listed(bridge)'
  PROVE  Stepped(p)
<1>1. /\ IsBridge(bridge) /\ BridgeOK(bridge) /\ PortsOK(port)
      /\ Listed(bridge) \subseteq Port
  BY ListedPorts DEF TypeOK, BridgeOK, PortsOK
<1>2. \A x \in Listed(bridge) : IsPort(port[x]) /\ InService(port[x])
  BY <1>1 DEF TypeOK, EveryPortInService
<1>3. ASSUME bridge'.ports = bridge.ports
      PROVE  p \in Listed(bridge)
  BY <1>3 DEF Listed
<1>4. ASSUME NEW x \in Listed(bridge), TransmitStep(x)
      PROVE  Stepped(p)
  <2>1. PICK to \in TransmitState :
          /\ TransmitHop(port[x], to)
          /\ PortMoved("transmit", x, TransmitEnter(port[x], bridge, to))
    BY <1>4 DEF TransmitStep
  <2> QED
    BY <1>3, <2>1, OnePortSteps DEF PortMoved, Stepped, Transited, Ran
<1>5. ASSUME NEW x \in Listed(bridge), SttransStep(x)
      PROVE  Stepped(p)
  <2>1. PICK to \in SttransState :
          /\ SttransHop(port[x], to)
          /\ PortMoved("sttrans", x, SttransEnter(port[x], to))
    BY <1>5 DEF SttransStep
  <2> QED
    BY <1>3, <2>1, OnePortSteps DEF PortMoved, Stepped, Transited, Ran
<1>6. ASSUME NEW x \in Listed(bridge), InfoStep(x)
      PROVE  Stepped(p)
  <2>1. PICK to \in InfoState :
          /\ InfoHop(port[x], to)
          /\ PortMoved("info", x, InfoEnter(port[x], bridge, to))
    BY <1>6 DEF InfoStep
  <2> QED
    BY <1>3, <2>1, OnePortSteps DEF PortMoved, Stepped, Transited, Ran
<1>7. ASSUME NEW x \in Listed(bridge), PcostStep(x)
      PROVE  Stepped(p)
  <2>1. PICK to \in PcostState :
          /\ PcostHop(port[x], to)
          /\ PortMoved("pcost", x, PcostEnter(port[x], to))
    BY <1>7 DEF PcostStep
  <2> QED
    BY <1>3, <2>1, OnePortSteps DEF PortMoved, Stepped, Transited, Ran
<1>8. ASSUME NEW x \in Listed(bridge), BrdgdetStep(x)
      PROVE  Stepped(p)
  <2>1. PICK to \in BrdgdetState :
          /\ BrdgdetHop(port[x], to)
          /\ PortMoved("brdgdet", x, BrdgdetEnter(port[x], to))
    BY <1>8 DEF BrdgdetStep
  <2> QED
    BY <1>3, <2>1, OnePortSteps DEF PortMoved, Stepped, Transited, Ran
<1>9. ASSUME NEW x \in Listed(bridge), P2pStep(x)
      PROVE  Stepped(p)
  <2>1. PICK to \in P2pState :
          /\ P2pHop(port[x], to)
          /\ PortMoved("p2p", x, P2pEnter(port[x], to))
    BY <1>9 DEF P2pStep
  <2> QED
    BY <1>3, <2>1, OnePortSteps DEF PortMoved, Stepped, Transited, Ran
<1>10. ASSUME NEW x \in Listed(bridge), MigrateStep(x)
       PROVE  Stepped(p)
  <2>1. PICK to \in MigrateState :
          /\ MigrateHop(port[x], bridge, to)
          /\ PortMoved("migrate", x, MigrateEnter(port[x], bridge, to))
    BY <1>10 DEF MigrateStep
  <2> QED
    BY <1>3, <2>1, OnePortSteps DEF PortMoved, Stepped, Transited, Ran
<1>11. ASSUME NEW x \in Listed(bridge), ReceiveStep(x)
       PROVE  Stepped(p)
  <2>1. PICK to \in ReceiveState :
          /\ ReceiveHop(port[x], to)
          /\ PortMoved("receive", x, ReceiveEnter(port[x], to))
    BY <1>11 DEF ReceiveStep
  <2> QED
    BY <1>3, <2>1, OnePortSteps DEF PortMoved, Stepped, Transited, Ran
<1>12. ASSUME NEW x \in Listed(bridge), RoletrnsStep(x)
       PROVE  Stepped(p)
  <2>1. PICK to \in RoletrnsState :
          LET r == RoletrnsEnter(port[x], bridge, to)
              flags == RoletrnsBroadcast(to)
          IN /\ RoletrnsHop(port[x], bridge, Others(x), to)
             /\ PortMovedAll("roletrns", x, [r EXCEPT !.on = r.on \cup flags],
                             flags)
    BY <1>12 DEF RoletrnsStep
  <2>2. RoletrnsBroadcast(to) \in SUBSET {"sync", "reRoot", "tcProp"}
    BY DEF RoletrnsBroadcast
  <2>3. bridge' = bridge
    BY <2>1 DEF PortMovedAll
  <2> QED
    BY <1>3, <2>1, <2>2, <2>3, AllPortsStep DEF Stepped, Transited
<1>13. ASSUME NEW x \in Listed(bridge), TopochStep(x)
       PROVE  Stepped(p)
  <2>1. PICK to \in TopochState :
          /\ TopochHop(port[x], to)
          /\ PortMovedAll("topoch", x, TopochEnter(port[x], bridge, to),
                          TopochBroadcast(to))
    BY <1>13 DEF TopochStep
  <2>2. TopochBroadcast(to) \in SUBSET {"sync", "reRoot", "tcProp"}
    BY DEF TopochBroadcast, Given
  <2>3. bridge' = bridge
    BY <2>1 DEF PortMovedAll
  <2> QED
    BY <1>3, <2>1, <2>2, <2>3, AllPortsStep DEF Stepped, Transited
<1>14. CASE RoleselStep
  <2>1. PICK to \in RoleselState, source \in {0} \cup Listed(bridge) :
          /\ RoleselHop(bridge, port, to)
          /\ source = IF to = "ROLE_SELECTION"
                      THEN BestSource(bridge, port) ELSE 0
          /\ bridge' = IF to = "ROLE_SELECTION"
                       THEN WithRoot(bridge, port, source)
                       ELSE [bridge EXCEPT !.rolesel = to]
          /\ port' = [x \in Port |->
                        IF x \notin Listed(bridge) THEN port[x]
                        ELSE IF to = "ROLE_SELECTION"
                             THEN WithRole(WithRoot(bridge, port, source),
                                           port[x])
                             ELSE WithoutRole(port[x])]
    BY <1>14 DEF RoleselStep
  <2>2. bridge'.ports = bridge.ports
    <3>1. WithRoot(bridge, port, source).ports = bridge.ports
      BY <1>1, SMT DEF WithRoot, IsBridge, BridgeField
    <3>2. [bridge EXCEPT !.rolesel = to].ports = bridge.ports
      BY <1>1, SMT DEF IsBridge, BridgeField
    <3> QED
      BY <2>1, <3>1, <3>2
  <2>3. p \in Listed(bridge) /\ p \in Port
    BY <1>1, <1>3, <2>2
  <2>4. call # "none" /\ call' = call
    BY <1>14 DEF RoleselStep, Turn
  <2>5. CASE to = "ROLE_SELECTION"
    BY <2>1, <2>3, <2>4, <2>5 DEF Stepped, Elected
  <2>6. CASE to # "ROLE_SELECTION"
    BY <2>1, <2>3, <2>4, <2>6 DEF Stepped, Elected, RoleselHop
  <2> QED
    BY <2>5, <2>6
<1>15. CASE UpdateReturns
  <2> DEFINE c == [bridge EXCEPT !.Topology_Change =
                    \E x \in Listed(bridge) : port[x].timer["tcWhile"] # 0]
  <2>1. /\ SameRoot(bridge, c) /\ c.stp_enabled = bridge.stp_enabled
        /\ BridgePriority(c) = BridgePriority(bridge)
    BY <1>1, SMT DEF SameRoot, IsBridge, BridgeField, BridgePriority,
                     BridgeIdentifier
  <2>2. bridge' \in {c, bridge}
    BY <1>15 DEF UpdateReturns
  <2> HIDE DEF c
  <2>3. /\ SameRoot(bridge, bridge') /\ bridge'.stp_enabled = bridge.stp_enabled
        /\ BridgePriority(bridge') = BridgePriority(bridge)
    BY <2>1, <2>2 DEF SameRoot
  <2> QED
    BY <1>15, <2>3 DEF UpdateReturns, Stepped, PassedOver
<1>16. CASE OneSecond
  <2>1. CASE Ticks
    BY <1>1, <1>3, <2>1 DEF Ticks, Enters, Stepped, Ticked
  <2>2. CASE SetsOnly(bridge)
    BY <2>2 DEF SetsOnly, Stepped, PassedOver, SameRoot
  <2> QED
    BY <1>16, <2>1, <2>2 DEF OneSecond
<1>17. ASSUME NEW x \in Listed(bridge), RxBpdu(x)
       PROVE  Stepped(p)
  <2>1. PICK m \in Received : Gets(x, m)
    BY <1>17 DEF RxBpdu
  <2>2. EnableOn(port[x], TRUE) = port[x]
    BY <1>2 DEF EnableOn, InService
  <2> QED
    BY <1>3, <2>1, <2>2, OnePortSteps DEF Gets, Enters, Stepped, Heard
<1>18. ASSUME NEW b, NEW ports, Restarts(b, ports), BridgeOK(b),
              b.rstpVersion = bridge.rstpVersion,
              p \in Port => ports[p] \in {port[p], NewPort(p)},
              p \in Listed(bridge) \/ ports[p] = NewPort(p)
       PROVE  Stepped(p)
  <2>1. /\ call = "none" /\ call' = "restart" /\ bridge' = InitData(b)
        /\ port' = AllStarted(ports, InitData(b))
    BY <1>18 DEF Restarts, Enters
  <2>2. BridgeOK(bridge')
    BY <1>18, <2>1, InitDataType
  <2>3. p \in Port
    BY <2>2, ListedPorts DEF BridgeOK
  <2>4. port'[p] = Started(ports[p], bridge')
    BY <2>1, <2>3 DEF AllStarted
  <2> QED
    BY <1>18, <2>1, <2>3, <2>4 DEF Stepped, Begun
<1>19. CASE StpmSetCfg
  <2>1. PICK b : /\ BridgeOK(b) /\ SameRoot(bridge, b)
                 /\ Restarts(b, port) \/ (SetsOnly(b) /\ ~b.stp_enabled)
    BY <1>1, <1>19, SetCfgOutcome
  <2>2. CASE Restarts(b, port)
    <3>1. bridge'.ports = bridge.ports
      <4>1. InitData(b).ports = b.ports
        BY <2>1, SMT DEF BridgeOK, IsBridge, BridgeField, InitData
      <4> QED
        BY <2>1, <2>2, <4>1 DEF Restarts, SameRoot
    <3>2. p \in Listed(bridge)
      BY <1>3, <3>1
    <3> QED
      BY <1>18, <2>1, <2>2, <3>2 DEF SameRoot
  <2>3. CASE SetsOnly(b) /\ ~b.stp_enabled
    BY <2>1, <2>3 DEF SetsOnly, Stepped, PassedOver
  <2> QED
    BY <2>1, <2>2, <2>3
<1>20. ASSUME NEW b, NEW x \in Port, BridgeOK(b),
              b.rstpVersion = bridge.rstpVersion,
              Listed(b) \subseteq {x} \cup Listed(bridge),
              Restarts(b, [port EXCEPT ![x] = NewPort(x)])
       PROVE  Stepped(p)
  <2>1. p \in Port => [port EXCEPT ![x] = NewPort(x)][p]
                        \in {port[p], NewPort(p)}
    BY <1>1 DEF PortsOK
  <2>2. p \in {x} \cup Listed(bridge)
    <3>1. InitData(b).ports = b.ports
      BY <1>20, SMT DEF BridgeOK, IsBridge, BridgeField, InitData
    <3>2. Listed(bridge') = Listed(b)
      BY <1>20, <3>1 DEF Restarts, Listed
    <3> QED
      BY <1>20, <3>2 DEF Listed
  <2>3. [port EXCEPT ![x] = NewPort(x)][x] = NewPort(x)
    BY <1>1, <1>20 DEF PortsOK
  <2> QED
    BY <1>18, <1>20, <2>1, <2>2, <2>3
<1>21. ASSUME NEW list \in Seq(Port), NEW addr \in 0 .. MacSpan - 1
       PROVE  /\ BridgeOK([bridge EXCEPT !.ports = list, !.addr = addr])
              /\ [bridge EXCEPT !.ports = list, !.addr = addr].rstpVersion
                   = bridge.rstpVersion
              /\ [bridge EXCEPT !.ports = list, !.addr = addr].ports = list
  <2>1. addr \in Nat
    BY SMT DEF MacSpan
  <2>2. /\ [bridge EXCEPT !.ports = list, !.addr = addr].rstpVersion
             = bridge.rstpVersion
        /\ [bridge EXCEPT !.ports = list, !.addr = addr].ports = list
    BY <1>1, SMT DEF IsBridge, BridgeField
  <2> QED
    BY <1>1, <2>1, <2>2, RelistedType
<1>22. ASSUME NEW x \in Port, PortCreate(x)
       PROVE  Stepped(p)
  <2> DEFINE list == <<x>> \o bridge.ports
  <2>1. PICK addr \in 0 .. MacSpan - 1 :
          Restarts([bridge EXCEPT !.ports = list, !.addr = addr],
                   [port EXCEPT ![x] = NewPort(x)])
    BY <1>22 DEF PortCreate
  <2>2. list \in Seq(Port)
    BY <1>1, ListType DEF BridgeOK
  <2>3. \A n \in DOMAIN list : list[n] \in {x} \cup Listed(bridge)
    <3>1. bridge.ports \in Seq(Port)
      BY <1>1 DEF BridgeOK
    <3>2. \A n \in DOMAIN list :
            list[n] = x \/ \E m \in DOMAIN bridge.ports : list[n] = bridge.ports[m]
      <4>1. \A n \in 1 .. Len(bridge.ports) + 1 :
              list[n] = IF n = 1 THEN x ELSE bridge.ports[n - 1]
        BY <3>1, SMT
      <4>2. DOMAIN list = 1 .. Len(bridge.ports) + 1
        BY <3>1, SMT
      <4>3. \A n \in 1 .. Len(bridge.ports) + 1 :
              n # 1 => n - 1 \in DOMAIN bridge.ports
        BY <3>1, SMT
      <4> HIDE DEF list
      <4> QED
        BY <4>1, <4>2, <4>3
    <3> HIDE DEF list
    <3> QED
      BY <3>2 DEF Listed
  <2> DEFINE b == [bridge EXCEPT !.ports = list, !.addr = addr]
  <2> HIDE DEF list
  <2>4. BridgeOK(b) /\ b.rstpVersion = bridge.rstpVersion /\ b.ports = list
    BY <1>21, <2>2
  <2>5. Listed(b) \subseteq {x} \cup Listed(bridge)
    BY <2>3, <2>4 DEF Listed
  <2> QED
    BY <1>20, <2>1, <2>4, <2>5
<1>23. ASSUME NEW x \in Listed(bridge), PortDelete(x)
       PROVE  Stepped(p)
  <2> DEFINE list(n) == [i \in 1 .. Len(bridge.ports) - 1 |->
                            bridge.ports[IF i < n THEN i ELSE i + 1]]
  <2>1. PICK n \in DOMAIN bridge.ports, addr \in 0 .. MacSpan - 1 :
          Restarts([bridge EXCEPT !.ports = list(n), !.addr = addr],
                   [port EXCEPT ![x] = NewPort(x)])
    BY <1>23 DEF PortDelete
  <2>2. list(n) \in Seq(Port)
    BY <1>1, ListType DEF BridgeOK
  <2>3. x \in Port
    BY <1>1
  <2>4. \A i \in DOMAIN list(n) : list(n)[i] \in Listed(bridge)
    <3>1. bridge.ports \in Seq(Port)
      BY <1>1 DEF BridgeOK
    <3>2. \A i \in 1 .. Len(bridge.ports) - 1 :
            (IF i < n THEN i ELSE i + 1) \in DOMAIN bridge.ports
      BY <3>1, SMT
    <3> QED
      BY <3>2 DEF Listed
  <2> DEFINE b == [bridge EXCEPT !.ports = list(n), !.addr = addr]
  <2> HIDE DEF list
  <2>5. BridgeOK(b) /\ b.rstpVersion = bridge.rstpVersion /\ b.ports = list(n)
    BY <1>21, <2>2
  <2>6. Listed(b) \subseteq {x} \cup Listed(bridge)
    BY <2>4, <2>5 DEF Listed
  <2> QED
    BY <1>20, <2>1, <2>3, <2>5, <2>6
<1>24. ASSUME NEW x \in Listed(bridge), NEW r, bridge' = bridge,
              port' = [port EXCEPT ![x] = r],
              x = p /\ port'[x] = r => Stepped(p)
       PROVE  Stepped(p)
  <2>1. p \in Listed(bridge)
    BY <1>3, <1>24
  <2> QED
    BY <1>24, <2>1, OnePortSteps DEF Stepped
<1>25. ASSUME NEW x \in Listed(bridge), SetPortCfg(x)
       PROVE  Stepped(p)
  <2>1. PICK c \in PortCfgs : \/ SetPortCfgFails(x, c)
                              \/ SetPortCfgSucceeds(x, c)
    BY <1>25 DEF SetPortCfg
  <2> DEFINE m == WithMcheck(port[x], bridge, c)
             n == WithFlags(WithPrio(WithCost(m, c), c, x), c)
  <2>2. /\ IsPort(n) /\ SameState(port[x], n)
        /\ ~BadPrio(c) => \/ n.portId = port[x].portId
                          \/ IsPortIdOf(n.portId, x)
        /\ \A r \in {m, WithCost(m, c)} :
              /\ SameState(port[x], r)
              /\ \A f \in Flag \ {"mcheck"} : f \in port[x].on <=> f \in r.on
              /\ r.selectedRole = port[x].selectedRole
              /\ r.timer = port[x].timer
              /\ r.portId = port[x].portId
    BY <1>1, <1>2, SetPortCfgType, SetPortCfgSame
  <2>3. CASE SetPortCfgFails(x, c)
    <3>1. PICK r \in {m, WithCost(m, c)} : port' = [port EXCEPT ![x] = r]
      BY <2>3 DEF SetPortCfgFails
    <3>2. bridge' = bridge
      BY <2>3 DEF SetPortCfgFails, EntersAndReturns
    <3> HIDE DEF m
    <3>3. x = p /\ port'[x] = r => Noted(p)
      BY <2>2, <3>2 DEF Noted
    <3> QED
      BY <1>24, <3>1, <3>2, <3>3 DEF Stepped
  <2>4. CASE SetPortCfgSucceeds(x, c)
    <3>1. /\ port' = [port EXCEPT ![x] = Reselect(n)]
          /\ bridge' = bridge /\ call = "none" /\ ~BadPrio(c)
      BY <2>4 DEF SetPortCfgSucceeds, Enters
    <3> HIDE DEF n
    <3>2. x = p /\ port'[x] = Reselect(n) => Asked(p)
      BY <2>2, <3>1, ReselectAsks, SameStateTransitive DEF Asked
    <3> QED
      BY <1>24, <3>1, <3>2 DEF Stepped
  <2> QED
    BY <2>1, <2>3, <2>4
<1>26. ASSUME NEW x \in Listed(bridge), NEW r, NEW s,
              SameState(port[x], r), SameState(port[x], s), IsPort(s),
              \A f \in Flag \ {"mcheck"} : f \in port[x].on <=> f \in r.on,
              r.selectedRole = port[x].selectedRole,
              r.timer = port[x].timer, r.portId = port[x].portId,
              s.portId = port[x].portId, EntersAndReturns,
              \/ port' = [port EXCEPT ![x] = Reselect(s)]
              \/ port' = [port EXCEPT ![x] = r]
       PROVE  Stepped(p)
  <2>1. bridge' = bridge /\ call = "none"
    BY <1>26 DEF EntersAndReturns
  <2>2. x = p /\ port'[x] = r => Noted(p)
    BY <1>26, <2>1 DEF Noted
  <2>3. x = p /\ port'[x] = Reselect(s) => Asked(p)
    BY <1>26, <2>1, ReselectAsks, SameStateTransitive DEF Asked
  <2> QED
    BY <1>24, <1>26, <2>1, <2>2, <2>3 DEF Stepped
<1>27. ASSUME NEW x \in Listed(bridge), ChangedPortSpeed(x)
       PROVE  Stepped(p)
  <2>1. PICK speed \in Speeds :
          LET r == [port[x] EXCEPT !.osSpeed = speed] IN
          \/ port' = [port EXCEPT ![x] =
                        Reselect([r EXCEPT !.operSpeed = speed])]
          \/ port' = [port EXCEPT ![x] = r]
    BY <1>27 DEF ChangedPortSpeed
  <2> DEFINE r == [port[x] EXCEPT !.osSpeed = speed]
             s == [r EXCEPT !.operSpeed = speed]
  <2>2. speed \in Nat
    BY InputAssumption
  <2>3. /\ SameState(port[x], r) /\ SameState(port[x], s) /\ IsPort(s)
        /\ r.on = port[x].on /\ r.selectedRole = port[x].selectedRole
        /\ r.timer = port[x].timer /\ r.portId = port[x].portId
        /\ s.portId = port[x].portId
    BY <1>2, <2>2, SMT DEF IsPort, PortField, SameState, AdminEdge
  <2>4. \/ port' = [port EXCEPT ![x] = Reselect(s)]
        \/ port' = [port EXCEPT ![x] = r]
    BY <2>1
  <2>5. EntersAndReturns
    BY <1>27 DEF ChangedPortSpeed
  <2> HIDE DEF r, s
  <2> QED
    BY <1>26, <2>3, <2>4, <2>5
<1>28. ASSUME NEW x \in Listed(bridge), ChangedPortDuplex(x)
       PROVE  Stepped(p)
  <2>1. PICK duplex \in BOOLEAN :
          LET r == [port[x] EXCEPT !.osDuplex = duplex] IN
          \/ port' = [port EXCEPT ![x] =
                 Reselect([r EXCEPT !.on = r.on \cup {"p2p_recompute"}])]
          \/ port' = [port EXCEPT ![x] = r]
    BY <1>28 DEF ChangedPortDuplex
  <2> DEFINE r == [port[x] EXCEPT !.osDuplex = duplex]
             s == [r EXCEPT !.on = r.on \cup {"p2p_recompute"}]
  <2>2. /\ SameState(port[x], r) /\ SameState(port[x], s) /\ IsPort(s)
        /\ r.on = port[x].on /\ r.selectedRole = port[x].selectedRole
        /\ r.timer = port[x].timer /\ r.portId = port[x].portId
        /\ s.portId = port[x].portId
    BY <1>2, SMT DEF IsPort, PortField, SameState, Flag, Settable, AdminEdge
  <2>3. \/ port' = [port EXCEPT ![x] = Reselect(s)]
        \/ port' = [port EXCEPT ![x] = r]
    BY <2>1
  <2>4. EntersAndReturns
    BY <1>28 DEF ChangedPortDuplex
  <2> HIDE DEF r, s
  <2> QED
    BY <1>26, <2>2, <2>3, <2>4
<1>29. ASSUME NEW x \in Listed(bridge), NEW enable \in BOOLEAN,
              EnablePort(x, enable)
       PROVE  Stepped(p)
  <2>1. EntersAndReturns /\ port' = [port EXCEPT ![x] =
                                       EnableOn(port[x], enable)]
    BY <1>29 DEF EnablePort, LinkIs
  <2>2. /\ SameState(port[x], port[x])
        /\ SameState(port[x], PortReset(port[x]))
        /\ IsPort(PortReset(port[x]))
        /\ PortReset(port[x]).portId = port[x].portId
    BY <1>2, PortResetSame, PortResetType DEF SameState, AdminEdge
  <2> QED
    BY <1>26, <2>1, <2>2 DEF EnableOn
<1>30. CASE UNCHANGED vars
  BY <1>30 DEF vars, Stepped, PassedOver, SameRoot
<1> QED
  BY <1>4, <1>5, <1>6, <1>7, <1>8, <1>9, <1>10, <1>11, <1>12, <1>13, <1>14,
     <1>15, <1>16, <1>17, <1>19, <1>22, <1>23, <1>25, <1>27, <1>28, <1>29,
     <1>30
     DEF Next, MachineStep, Management

\* The roots and the identifiers are as they were, or the bridge is disabled.
RootStays ==
  /\ SameRoot(bridge, bridge')
  /\ bridge'.stp_enabled => /\ bridge.stp_enabled
                            /\ BridgePriority(bridge') = BridgePriority(bridge)

\* Whatever its ports, a step elects the root, starts the bridge again, or
\* leaves the root alone (rolesel.c, stpm.c).
LEMMA BridgeSteps ==
  ASSUME TypeOK, [Next]_vars
  PROVE  \/ RootStays
         \/ bridge' = [bridge EXCEPT !.rolesel = "INIT_BRIDGE"]
         \/ bridge' = WithRoot(bridge, port, BestSource(bridge, port))
         \/ \E b : BridgeOK(b) /\ bridge' = InitData(b)
<1>1. /\ IsBridge(bridge) /\ BridgeOK(bridge)
      /\ Listed(bridge) \subseteq Port
  BY ListedPorts DEF TypeOK, BridgeOK
<1>2. bridge' = bridge => RootStays
  BY DEF RootStays, SameRoot
<1>3. ASSUME NEW p \in Listed(bridge),
             \/ TransmitStep(p) \/ SttransStep(p) \/ RoletrnsStep(p)
             \/ InfoStep(p) \/ PcostStep(p) \/ BrdgdetStep(p) \/ P2pStep(p)
             \/ MigrateStep(p) \/ TopochStep(p) \/ ReceiveStep(p)
      PROVE  bridge' = bridge
  BY <1>3
     DEF TransmitStep, SttransStep, RoletrnsStep, InfoStep, PcostStep,
         BrdgdetStep, P2pStep, MigrateStep, TopochStep, ReceiveStep,
         PortMoved, PortMovedAll
<1>4. CASE RoleselStep
  <2>1. PICK to \in RoleselState :
          /\ RoleselHop(bridge, port, to)
          /\ bridge' = IF to = "ROLE_SELECTION"
                       THEN WithRoot(bridge, port, BestSource(bridge, port))
                       ELSE [bridge EXCEPT !.rolesel = to]
    BY <1>4 DEF RoleselStep
  <2> QED
    BY <2>1 DEF RoleselHop
<1>5. CASE UpdateReturns
  <2> DEFINE c == [bridge EXCEPT !.Topology_Change =
                    \E x \in Listed(bridge) : port[x].timer["tcWhile"] # 0]
  <2>1. /\ SameRoot(bridge, c) /\ c.stp_enabled = bridge.stp_enabled
        /\ BridgePriority(c) = BridgePriority(bridge)
    BY <1>1, SMT DEF SameRoot, IsBridge, BridgeField, BridgePriority,
                     BridgeIdentifier
  <2>2. bridge' \in {c, bridge}
    BY <1>5 DEF UpdateReturns
  <2> HIDE DEF c
  <2> QED
    BY <1>2, <2>1, <2>2 DEF RootStays
<1>6. OneSecond \/ (\E p \in Listed(bridge) : RxBpdu(p)) => bridge' = bridge
  BY DEF OneSecond, Ticks, SetsOnly, RxBpdu, Gets
<1>7. CASE StpmSetCfg
  <2>1. PICK b : /\ BridgeOK(b) /\ SameRoot(bridge, b)
                 /\ Restarts(b, port) \/ (SetsOnly(b) /\ ~b.stp_enabled)
    BY <1>1, <1>7, SetCfgOutcome
  <2> QED
    BY <2>1 DEF Restarts, SetsOnly, RootStays
<1>8. ASSUME NEW list \in Seq(Port), NEW addr \in 0 .. MacSpan - 1
      PROVE  BridgeOK([bridge EXCEPT !.ports = list, !.addr = addr])
  <2>1. addr \in Nat
    BY SMT DEF MacSpan
  <2> QED
    BY <1>1, <2>1, RelistedType
<1>9. ASSUME NEW x \in Port, PortCreate(x)
      PROVE  \E b : BridgeOK(b) /\ bridge' = InitData(b)
  <2> DEFINE list == <<x>> \o bridge.ports
  <2>1. PICK addr \in 0 .. MacSpan - 1 :
          bridge' = InitData([bridge EXCEPT !.ports = list, !.addr = addr])
    BY <1>9 DEF PortCreate, Restarts
  <2>2. list \in Seq(Port)
    BY <1>1, ListType DEF BridgeOK
  <2> HIDE DEF list
  <2> QED
    BY <1>8, <2>1, <2>2
<1>10. ASSUME NEW x \in Listed(bridge), PortDelete(x)
       PROVE  \E b : BridgeOK(b) /\ bridge' = InitData(b)
  <2> DEFINE list(n) == [i \in 1 .. Len(bridge.ports) - 1 |->
                            bridge.ports[IF i < n THEN i ELSE i + 1]]
  <2>1. PICK n \in DOMAIN bridge.ports, addr \in 0 .. MacSpan - 1 :
          bridge' = InitData([bridge EXCEPT !.ports = list(n), !.addr = addr])
    BY <1>10 DEF PortDelete, Restarts
  <2>2. list(n) \in Seq(Port)
    BY <1>1, ListType DEF BridgeOK
  <2> HIDE DEF list
  <2> QED
    BY <1>8, <2>1, <2>2
<1>11. ASSUME NEW p \in Listed(bridge),
              \/ SetPortCfg(p) \/ ChangedPortSpeed(p) \/ ChangedPortDuplex(p)
              \/ \E enable \in BOOLEAN : EnablePort(p, enable)
       PROVE  bridge' = bridge
  BY <1>11 DEF SetPortCfg, SetPortCfgFails, SetPortCfgSucceeds,
               ChangedPortSpeed, ChangedPortDuplex, EnablePort, LinkIs,
               EntersAndReturns
<1> QED
  BY <1>2, <1>3, <1>4, <1>5, <1>6, <1>7, <1>9, <1>10, <1>11
     DEF Next, MachineStep, Management, vars

-----------------------------------------------------------------------------
(* The inductive invariant.                                                *)

\* sttrans.c and roletrns.c: what a port relays follows from its role, and
\* the state of the machine that tells the kernel from what it was told.
Gated(q) ==
  /\ q.sttrans \in {"BEGIN", "DISCARDING"} =>
       "learning" \notin q.on /\ "forwarding" \notin q.on
  /\ q.sttrans = "FORWARDING" => "forwarding" \in q.on
  /\ q.role \in {"AlternatePort", "BackupPort", "DisabledPort"} =>
       "learn" \notin q.on /\ "forward" \notin q.on
  /\ q.roletrns \in RootStates \cup {"ROOT_PORT"} =>
       q.role \in {"RootPort", "NonStpPort"}
  /\ q.roletrns \in DesignatedStates \cup {"DESIGNATED_PORT"} =>
       q.role \in {"DesignatedPort", "NonStpPort"}

\* rolesel.c and portinfo.c: what a selection on bridge b leaves in the
\* ports, and the information machine keeps until the next selection.
Informed(b, q) ==
  /\ q.info = "AGED" => q.infoIs = "Aged"
  /\ q.infoIs = "Disabled" => q.info \in {"BEGIN", "DISABLED"}
  /\ "selected" \in q.on => b.rolesel = "ROLE_SELECTION"
  /\ "selected" \in q.on /\ "admin_non_stp" \notin q.on =>
       /\ q.designatedPriority.root_bridge = b.rootPriority.root_bridge
       /\ q.infoIs \in {"Aged", "Mine"} => q.selectedRole = "DesignatedPort"
       /\ q.infoIs = "Aged" => "updtInfo" \in q.on
       /\ q.infoIs = "Mine" =>
            \/ "updtInfo" \in q.on
            \/ q.portPriority.root_bridge = b.rootPriority.root_bridge
       /\ q.infoIs = "Received" =>
            ("updtInfo" \in q.on <=> q.selectedRole = "DesignatedPort")

\* migrate.c: a port that checks whether its neighbour speaks RSTP does so.
Migrated(b, q) ==
  b.rstpVersion /\ q.migrate \in {"BEGIN", "CHECKING_RSTP"}
    => "sendRSTP" \in q.on

PortSound(b, q) == Gated(q) /\ Informed(b, q) /\ Migrated(b, q)

EveryPortSound == \A p \in Listed(bridge) : PortSound(bridge, port[p])

\* When every entry point has returned, no port has a transition left to
\* make in the machines that handle what it received and what it relays.
PortQuiet(q) ==
  /\ \A to \in SttransState : ~SttransHop(q, to)
  /\ \A to \in InfoState : ~InfoHop(q, to)
  /\ \A to \in ReceiveState : ~ReceiveHop(q, to)

EveryPortQuiet == AtRest => \A p \in Listed(bridge) : PortQuiet(port[p])

-----------------------------------------------------------------------------
(* Each machine leaves alone what belongs to the others.                   *)

SameGate(q, r) ==
  /\ q.sttrans = r.sttrans /\ q.roletrns = r.roletrns /\ q.role = r.role
  /\ \A f \in {"learn", "learning", "forward", "forwarding"} :
       f \in q.on <=> f \in r.on

SameInfo(q, r) ==
  /\ q.info = r.info /\ q.infoIs = r.infoIs /\ q.rcvdInfo = r.rcvdInfo
  /\ q.portId = r.portId /\ q.msg = r.msg
  /\ q.portPriority = r.portPriority /\ q.portTimes = r.portTimes
  /\ q.designatedPriority = r.designatedPriority
  /\ q.selectedRole = r.selectedRole
  /\ \A f \in {"selected", "reselect", "updtInfo", "admin_non_stp"} :
       f \in q.on <=> f \in r.on

SameMigrate(q, r) ==
  /\ q.migrate = r.migrate
  /\ "sendRSTP" \in q.on <=> "sendRSTP" \in r.on

SameAll(q, r) == SameGate(q, r) /\ SameInfo(q, r) /\ SameMigrate(q, r)

\* A change that leaves alone what a part of the invariant reads keeps it:
\* the gates of roletrns.c and sttrans.c, ...
LEMMA GatedSame ==
  ASSUME NEW q, NEW r, Gated(q), SameGate(q, r)
  PROVE  Gated(r)
BY DEF Gated, SameGate

\* ... the information of portinfo.c, ...
LEMMA InformedSame ==
  ASSUME NEW q, NEW r, NEW b, Informed(b, q), SameInfo(q, r)
  PROVE  Informed(b, r)
BY DEF Informed, SameInfo

\* ... the protocol version of migrate.c, ...
LEMMA MigratedSame ==
  ASSUME NEW q, NEW r, NEW b, Migrated(b, q), SameMigrate(q, r)
  PROVE  Migrated(b, r)
BY DEF Migrated, SameMigrate

\* ... and the whole of it.
LEMMA SoundSame ==
  ASSUME NEW q, NEW r, NEW b, PortSound(b, q), SameAll(q, r)
  PROVE  PortSound(b, r)
BY GatedSame, InformedSame, MigratedSame DEF PortSound, SameAll

\* transmit.c, brdgdet.c, p2p.c, topoch.c, receive.c
LEMMA OthersSame ==
  ASSUME NEW q, IsPort(q), NEW b
  PROVE  /\ \A to \in TransmitState : SameAll(q, TransmitEnter(q, b, to))
         /\ \A to \in BrdgdetState : SameAll(q, BrdgdetEnter(q, to))
         /\ \A to \in P2pState : SameAll(q, P2pEnter(q, to))
         /\ \A to \in TopochState : SameAll(q, TopochEnter(q, b, to))
         /\ \A to \in ReceiveState : SameAll(q, ReceiveEnter(q, to))
<1> USE DEF IsPort, PortField, SameAll, SameGate, SameInfo, SameMigrate
<1>1. ASSUME NEW to \in TransmitState
      PROVE  SameAll(q, TransmitEnter(q, b, to))
  BY <1>1, SMT DEF TransmitEnter, TransmitState, Given
<1>2. ASSUME NEW to \in BrdgdetState
      PROVE  SameAll(q, BrdgdetEnter(q, to))
  BY <1>2, SMT DEF BrdgdetEnter, BrdgdetState
<1>3. ASSUME NEW to \in P2pState
      PROVE  SameAll(q, P2pEnter(q, to))
  BY <1>3, SMT DEF P2pEnter, P2pState, Given
<1>4. ASSUME NEW to \in TopochState
      PROVE  SameAll(q, TopochEnter(q, b, to))
  BY <1>4, SMT DEF TopochEnter, TopochState, NewTcInfo, Given, Inactive
<1>5. ASSUME NEW to \in ReceiveState
      PROVE  SameAll(q, ReceiveEnter(q, to))
  BY <1>5, SMT DEF ReceiveEnter, BpduVersion, Given
<1> QED
  BY <1>1, <1>2, <1>3, <1>4, <1>5

\* sttrans.c tells the kernel, and only while the machine says so.
LEMMA SttransSound ==
  ASSUME NEW q, IsPort(q), NEW to \in SttransState
  PROVE  /\ SameInfo(q, SttransEnter(q, to))
         /\ SameMigrate(q, SttransEnter(q, to))
         /\ Gated(q) => Gated(SttransEnter(q, to))
BY SMT DEF IsPort, PortField, SameInfo, SameMigrate, Gated, SttransEnter,
           SttransState

\* migrate.c
LEMMA MigrateSound ==
  ASSUME NEW q, IsPort(q), NEW b, NEW to \in MigrateState
  PROVE  /\ SameGate(q, MigrateEnter(q, b, to))
         /\ SameInfo(q, MigrateEnter(q, b, to))
         /\ Migrated(b, MigrateEnter(q, b, to))
BY SMT DEF IsPort, PortField, SameInfo, SameGate, Migrated, MigrateEnter,
           MigrateState, Given

\* pcost.c asks for a selection.
LEMMA PcostSound ==
  ASSUME NEW q, IsPort(q), NEW b, NEW to \in PcostState
  PROVE  /\ SameGate(q, PcostEnter(q, to))
         /\ SameMigrate(q, PcostEnter(q, to))
         /\ Informed(b, q) => Informed(b, PcostEnter(q, to))
BY SMT DEF IsPort, PortField, SameGate, SameMigrate, Informed, PcostEnter,
           PcostState

\* roletrns.c: only the resting state of a root or designated port leads to
\* the states that belong to that role.
LEMMA RoletrnsFrom ==
  ASSUME NEW q, NEW b, NEW others, NEW to, RoletrnsHop(q, b, others, to)
  PROVE  /\ to \in RootStates => q.roletrns = "ROOT_PORT"
         /\ to \in DesignatedStates => q.roletrns = "DESIGNATED_PORT"
BY DEF RoletrnsHop, RoleEntry, RootStates, DesignatedStates,
       FromRootPort, FromDesignatedPort, FromAlternatePort, FromDisabledPort

\* roletrns.c: a role that relays nothing is entered with learn and forward
\* off, and only a root or designated port turns them on.
LEMMA RoletrnsSound ==
  ASSUME NEW q, IsPort(q), NEW b, NEW others, NEW to \in RoletrnsState,
         RoletrnsHop(q, b, others, to) \/ to = "BEGIN"
  PROVE  /\ SameInfo(q, RoletrnsEnter(q, b, to))
         /\ SameMigrate(q, RoletrnsEnter(q, b, to))
         /\ Gated(q) => Gated(RoletrnsEnter(q, b, to))
<1> DEFINE Fine(r) == /\ SameInfo(q, r) /\ SameMigrate(q, r)
                      /\ Gated(q) => Gated(r)
           Same(r) == /\ SameInfo(q, r) /\ SameMigrate(q, r)
                      /\ q.sttrans = r.sttrans /\ q.role = r.role
                      /\ \A f \in {"learning", "forwarding"} :
                           f \in q.on <=> f \in r.on
                      /\ r.roletrns = to
           Less(r) == Same(r) /\ \A f \in {"learn", "forward"} :
                                     f \in r.on => f \in q.on
           Go(off, set) == Moved(q, to, off, set)
<1>1. /\ to \in RootStates => q.roletrns = "ROOT_PORT"
      /\ to \in DesignatedStates => q.roletrns = "DESIGNATED_PORT"
  BY RoletrnsFrom DEF RootStates, DesignatedStates
<1>2. ASSUME NEW off \in SUBSET {"proposed", "reRoot", "sync", "agreed",
                                "learn", "forward"},
             NEW set \in SUBSET {"agree", "newInfo", "proposing", "agreed",
                                "synced"}
      PROVE  Less(Go(off, set))
  BY <1>2, SMT DEF IsPort, PortField, SameInfo, SameMigrate, Moved
<1>3. ASSUME NEW off \in SUBSET {"agreed"}, NEW set \in SUBSET {"learn", "forward", "agreed"}
      PROVE  Same(Go(off, set))
  BY <1>3, SMT DEF IsPort, PortField, SameInfo, SameMigrate, Moved
<1>4. ASSUME NEW off, NEW set
      PROVE  DOMAIN Go(off, set) = PortField
  BY SMT DEF IsPort, Moved
<1>5. ASSUME NEW r, DOMAIN r = PortField, NEW t, NEW n
      PROVE  /\ Less(r) => Less(Timed(r, t, n))
             /\ Same(r) => Same(Timed(r, t, n))
  BY <1>5, SMT DEF PortField, SameInfo, SameMigrate, Timed
<1>6. ASSUME NEW r, Less(r),
             to \notin {"ROOT_PORT", "DESIGNATED_PORT"}
      PROVE  Fine(r)
  BY <1>1, <1>6 DEF Gated
<1>7. ASSUME NEW r, Same(r), to \in RootStates \cup DesignatedStates
      PROVE  Fine(r)
  BY <1>1, <1>7 DEF Gated, RootStates, DesignatedStates
<1>8. CASE to \in {"BEGIN", "INIT_PORT"}
  <2>1. Fine(InitPort(q, b, to))
    BY <1>8, SMT DEF IsPort, PortField, SameInfo, SameMigrate, Gated,
                     InitPort, RootStates, DesignatedStates
  <2> QED
    BY <1>8, <2>1 DEF RoletrnsEnter
<1>9. CASE to \in {"DISABLE_PORT", "BLOCK_PORT"}
  <2>1. Fine(TakeRole(q, to))
    BY <1>9, SMT DEF IsPort, PortField, SameInfo, SameMigrate, Gated,
                     TakeRole, RootStates, DesignatedStates
  <2> QED
    BY <1>9, <2>1 DEF RoletrnsEnter
<1>10. CASE to \in {"DISABLED_PORT", "ALTERNATE_PORT"}
  <2>1. ASSUME NEW n
        PROVE  Less(Retired(q, to, n))
    BY SMT DEF IsPort, PortField, SameInfo, SameMigrate, Retired
  <2> QED
    BY <1>6, <1>10, <2>1 DEF RoletrnsEnter
<1>11. CASE to \in {"ROOT_PORT", "DESIGNATED_PORT"}
  <2>1. ASSUME NEW n
        PROVE  /\ Fine([Timed(q, "rrWhile", n)
                          EXCEPT !.roletrns = "ROOT_PORT",
                                 !.role = "RootPort"])
               /\ Fine([q EXCEPT !.roletrns = "DESIGNATED_PORT",
                                 !.role = "DesignatedPort"])
    BY SMT DEF IsPort, PortField, SameInfo, SameMigrate, Gated, Timed,
               RootStates, DesignatedStates
  <2> QED
    BY <1>11, <2>1 DEF RoletrnsEnter
<1>12. CASE to \in {"ROOT_PROPOSED", "ALTERNATE_PROPOSED", "ROOT_AGREED",
                    "ALTERNATE_AGREED", "REROOT", "REROOTED",
                    "DESIGNATED_RETIRED"}
  BY <1>2, <1>6, <1>12 DEF RoletrnsEnter
<1>13. CASE to \in {"DESIGNATED_PROPOSE", "DESIGNATED_SYNCED",
                    "DESIGNATED_DISCARD", "BACKUP_PORT"}
  BY <1>2, <1>4, <1>5, <1>6, <1>13 DEF RoletrnsEnter
<1>14. CASE to \in {"ROOT_FORWARD", "ROOT_LEARN", "DESIGNATED_LEARN",
                    "DESIGNATED_FORWARD"}
  <2>1. Given("sendRSTP" \in q.on, {"agreed"}) \in SUBSET {"agreed"}
    BY DEF Given
  <2> QED
    BY <1>3, <1>4, <1>5, <1>7, <1>14, <2>1
       DEF RoletrnsEnter, RootStates, DesignatedStates
<1> QED
  BY <1>8, <1>9, <1>10, <1>11, <1>12, <1>13, <1>14 DEF RoletrnsState

\* portinfo.c: information is replaced when a selection asked for it.
LEMMA InfoUpdateFrom ==
  ASSUME NEW q, IsPort(q), InfoHop(q, "UPDATE")
  PROVE  /\ "selected" \in q.on /\ "updtInfo" \in q.on
         /\ q.info \in {"AGED", "CURRENT"}
<1>1. q.rcvdInfo \in RcvdInfo
  BY DEF IsPort
<1>2. (CASE q.rcvdInfo = "SuperiorDesignatedInfo" -> "SUPERIOR_DESIGNATED"
         [] q.rcvdInfo = "RepeatedDesignatedInfo" -> "REPEATED_DESIGNATED"
         [] q.rcvdInfo = "InferiorDesignatedInfo" -> "INFERIOR_DESIGNATED"
         [] q.rcvdInfo = "InferiorRootAlternateInfo" -> "NOT_DESIGNATED"
         [] q.rcvdInfo = "OtherInfo" -> "OTHER") # "UPDATE"
  BY <1>1, SMT DEF RcvdInfo
<1> QED
  BY <1>2 DEF InfoHop

\* portinfo.c keeps the information of a port in step with the state of its
\* machine, and asks for a selection whenever it changes what it holds.
LEMMA InfoSound ==
  ASSUME NEW q, IsPort(q), NEW b, NEW to \in InfoState,
         InfoHop(q, to) \/ to = "BEGIN"
  PROVE  /\ SameGate(q, InfoEnter(q, b, to))
         /\ SameMigrate(q, InfoEnter(q, b, to))
         /\ Informed(b, q) => Informed(b, InfoEnter(q, b, to))
<1> DEFINE Fine(r) == /\ SameGate(q, r) /\ SameMigrate(q, r)
                      /\ Informed(b, q) => Informed(b, r)
           Keeps(r) == /\ SameGate(q, r) /\ SameMigrate(q, r)
                       /\ q.infoIs = r.infoIs
                       /\ q.portPriority = r.portPriority
                       /\ q.designatedPriority = r.designatedPriority
                       /\ q.selectedRole = r.selectedRole
                       /\ \A f \in {"selected", "updtInfo", "admin_non_stp"} :
                            f \in q.on <=> f \in r.on
                       /\ r.info = to
<1>1. \A f \in {"selected", "updtInfo", "admin_non_stp", "learn", "learning",
                "forward", "forwarding", "sendRSTP"} :
        f \notin Proposal(q) /\ f \notin TcFlags(q)
  BY DEF Proposal, TcFlags, Given
<1>2. q.info \in {"BEGIN", "DISABLED"} =>
        to \in {"BEGIN", "DISABLED", "AGED"}
  BY DEF InfoHop
<1>3. ASSUME NEW r, Keeps(r), to \notin {"BEGIN", "DISABLED", "AGED"}
      PROVE  Fine(r)
  BY <1>2, <1>3 DEF Informed
<1>4. Fine(InfoDisabled(q)) /\ Fine(InfoBegin(q))
  BY SMT DEF IsPort, PortField, SameGate, SameMigrate, Informed,
             InfoDisabled, InfoBegin
<1>5. Fine(InfoAged(q))
  BY SMT DEF IsPort, PortField, SameGate, SameMigrate, Informed, InfoAged
<1>6. CASE to = "UPDATE"
  <2>1. /\ "selected" \in q.on /\ "updtInfo" \in q.on
        /\ q.info \in {"AGED", "CURRENT"}
        /\ q.infoIs \in {"Mine", "Aged", "Received", "Disabled"}
    BY <1>6, InfoUpdateFrom DEF IsPort, InfoIs
  <2> DEFINE r == InfoUpdate(q)
  <2>2. /\ SameGate(q, r) /\ SameMigrate(q, r)
        /\ r.info = "UPDATE" /\ r.infoIs = "Mine"
        /\ r.portPriority = q.designatedPriority
        /\ r.designatedPriority = q.designatedPriority
        /\ r.selectedRole = q.selectedRole
        /\ \A f \in {"selected", "admin_non_stp"} : f \in q.on <=> f \in r.on
    BY SMT DEF IsPort, PortField, SameGate, SameMigrate, InfoUpdate, Given
  <2> HIDE DEF r
  <2>3. Informed(b, q) => Informed(b, r)
    BY <2>1, <2>2, SMT DEF Informed
  <2> QED
    BY <1>6, <2>2, <2>3 DEF InfoEnter, r
<1>7. CASE to = "CURRENT"
  <2>1. Keeps([q EXCEPT !.info = "CURRENT"])
    BY <1>7, SMT DEF IsPort, PortField, SameGate, SameMigrate
  <2> QED
    BY <1>3, <1>7, <2>1 DEF InfoEnter
<1>8. CASE to = "RECEIVE"
  <2>1. Keeps(InfoReceive(q))
    BY <1>8, SMT DEF IsPort, PortField, SameGate, SameMigrate, InfoReceive
  <2> QED
    BY <1>3, <1>8, <2>1 DEF InfoEnter
<1>9. CASE to = "SUPERIOR_DESIGNATED"
  <2>1. Fine(InfoSuperior(q))
    BY <1>1, SMT DEF IsPort, PortField, SameGate, SameMigrate, Informed,
                     InfoSuperior, Given
  <2> QED
    BY <1>9, <2>1 DEF InfoEnter
<1>10. CASE to \in {"REPEATED_DESIGNATED", "INFERIOR_DESIGNATED",
                    "NOT_DESIGNATED", "OTHER"}
  <2>1. /\ to = "REPEATED_DESIGNATED" => Keeps(InfoRepeated(q))
        /\ to = "OTHER" => Keeps([q EXCEPT !.info = "OTHER",
                                           !.on = q.on \ {"rcvdMsg"}])
    BY <1>1, SMT DEF IsPort, PortField, SameGate, SameMigrate, InfoRepeated
  <2>2. /\ to = "INFERIOR_DESIGNATED" => Keeps(InfoInferior(q))
        /\ to = "NOT_DESIGNATED" => Keeps(InfoNotDesignated(q, b))
    BY <1>1, SMT DEF IsPort, PortField, SameGate, SameMigrate, Given,
                     InfoInferior, InfoNotDesignated
  <2> QED
    BY <1>3, <1>10, <2>1, <2>2 DEF InfoEnter
<1> QED
  BY <1>4, <1>5, <1>6, <1>7, <1>8, <1>9, <1>10 DEF InfoState, InfoEnter

-----------------------------------------------------------------------------
(* Every step leaves a sound port sound.                                   *)

\* vector.c: vectors that compare equal name the same root.
LEMMA EqualRoots ==
  ASSUME NEW v \in Vector, NEW w \in Vector, Compare(v, w) = 0
  PROVE  v.root_bridge = w.root_bridge
<1>1. v.root_bridge \in Nat /\ w.root_bridge \in Nat
  BY SMT DEF Vector
<1> QED
  BY <1>1, SMT DEF Compare

\* Starting the bridge again makes every port sound, whatever it was.
LEMMA StartedSound ==
  ASSUME NEW q, IsPort(q), NEW b, IsBridge(b)
  PROVE  PortSound(b, Started(q, b))
<1> DEFINE q0 == WithoutRole(PortInit(q, b))
           q1 == TransmitEnter(q0, b, "BEGIN")
           q2 == SttransEnter(q1, "BEGIN")
           q3 == RoletrnsEnter(q2, b, "BEGIN")
           q4 == InfoEnter(q3, b, "BEGIN")
           q5 == PcostEnter(q4, "BEGIN")
           q6 == BrdgdetEnter(q5, "BEGIN")
           q7 == P2pEnter(q6, "BEGIN")
           q8 == MigrateEnter(q7, b, "BEGIN")
           q9 == TopochEnter(q8, b, "BEGIN")
           q10 == ReceiveEnter(q9, "BEGIN")
<1>1. /\ "BEGIN" \in TransmitState /\ "BEGIN" \in SttransState
      /\ "BEGIN" \in RoletrnsState /\ "BEGIN" \in InfoState
      /\ "BEGIN" \in PcostState /\ "BEGIN" \in BrdgdetState
      /\ "BEGIN" \in P2pState /\ "BEGIN" \in MigrateState
      /\ "BEGIN" \in TopochState /\ "BEGIN" \in ReceiveState
  BY DEF TransmitState, SttransState, RoletrnsState, InfoState, PcostState,
         BrdgdetState, P2pState, MigrateState, TopochState, ReceiveState
<1>2. IsPort(q0)
  BY PortInitType, WithoutRoleType
<1>3. IsPort(q1)
  BY <1>1, <1>2, TransmitType
<1>4. IsPort(q2)
  BY <1>1, <1>3, SttransType
<1>5. IsPort(q3)
  BY <1>1, <1>4, RoletrnsType
<1>6. IsPort(q4)
  BY <1>1, <1>5, InfoType
<1>7. IsPort(q5)
  BY <1>1, <1>6, PcostType
<1>8. IsPort(q6)
  BY <1>1, <1>7, BrdgdetType
<1>9. IsPort(q7)
  BY <1>1, <1>8, P2pType
<1>10. IsPort(q8)
  BY <1>1, <1>9, MigrateType
<1>11. IsPort(q9)
  BY <1>1, <1>10, TopochType
<1>12. Started(q, b) = q10
  BY DEF Started, Begin
<1> HIDE DEF q0, q1, q2, q3, q4, q5, q6, q7, q8, q9, q10
<1>13. /\ q2.sttrans = "BEGIN"
       /\ "learning" \notin q2.on /\ "forwarding" \notin q2.on
  BY <1>3, SMT DEF q2, SttransEnter, IsPort, PortField
<1>14. Gated(q3)
  <2>1. Gated(InitPort(q2, b, "BEGIN"))
    BY <1>4, <1>13, SMT DEF IsPort, PortField, Gated, InitPort, RootStates,
                            DesignatedStates
  <2> QED
    BY <2>1 DEF q3, RoletrnsEnter
<1>15. SameGate(q3, q4) /\ Informed(b, q4)
  <2>1. /\ SameGate(q3, InfoBegin(q3))
        /\ Informed(b, InfoBegin(q3))
    BY <1>5, SMT DEF IsPort, PortField, SameGate, Informed, InfoBegin,
                     InfoDisabled
  <2> QED
    BY <2>1 DEF q4, InfoEnter
<1>16. SameGate(q4, q5) /\ Informed(b, q5)
  BY <1>1, <1>6, <1>15, PcostSound DEF q5
<1>17. SameAll(q5, q6) /\ SameAll(q6, q7)
  BY <1>1, <1>7, <1>8, OthersSame DEF q6, q7
<1>18. SameGate(q7, q8) /\ SameInfo(q7, q8) /\ Migrated(b, q8)
  BY <1>1, <1>9, MigrateSound DEF q8
<1>19. SameAll(q8, q9) /\ SameAll(q9, q10)
  BY <1>1, <1>10, <1>11, OthersSame DEF q9, q10
<1>20. Gated(q8)
  BY <1>14, <1>15, <1>16, <1>17, <1>18, GatedSame DEF SameAll
<1>21. Informed(b, q8)
  BY <1>16, <1>17, <1>18, InformedSame DEF SameAll
<1> QED
  BY <1>12, <1>18, <1>19, <1>20, <1>21, SoundSame DEF PortSound

\* rolesel.c: INIT_BRIDGE changes nothing else of a port.
LEMMA WithoutRoleSound ==
  ASSUME NEW q, IsPort(q), NEW b, IsBridge(b), PortSound(b, q),
         b.rolesel = "BEGIN"
  PROVE  PortSound([b EXCEPT !.rolesel = "INIT_BRIDGE"], WithoutRole(q))
<1> DEFINE r == WithoutRole(q)
           c == [b EXCEPT !.rolesel = "INIT_BRIDGE"]
<1>1. SameGate(q, r) /\ SameMigrate(q, r)
  BY SMT DEF IsPort, PortField, WithoutRole, SameGate, SameMigrate
<1>2. r.info = q.info /\ r.infoIs = q.infoIs /\ r.on = q.on
  BY SMT DEF IsPort, PortField, WithoutRole
<1>3. c.rstpVersion = b.rstpVersion
  BY SMT DEF IsBridge, BridgeField
<1>4. "selected" \notin q.on
  BY DEF PortSound, Informed
<1> HIDE DEF r, c
<1>5. Informed(c, r)
  BY <1>2, <1>4 DEF PortSound, Informed
<1>6. Gated(r)
  BY <1>1, GatedSame DEF PortSound
<1>7. Migrated(c, r)
  BY <1>1, <1>3 DEF PortSound, Migrated, SameMigrate
<1> QED
  BY <1>5, <1>6, <1>7 DEF PortSound, r, c

\* rolesel.c: the selection gives every port what Informed says of it.
LEMMA WithRoleSound ==
  ASSUME NEW q, IsPort(q), NEW b, NEW c, IsBridge(c), PortSound(b, q),
         c.rolesel = "ROLE_SELECTION", c.rstpVersion = b.rstpVersion
  PROVE  PortSound(c, WithRole(c, q))
<1>1. CASE "admin_non_stp" \in q.on
  <2> DEFINE r == WithoutProtocol(q)
  <2>1. /\ r.sttrans = q.sttrans /\ r.roletrns = q.roletrns
        /\ r.role = "NonStpPort" /\ r.migrate = q.migrate
        /\ r.info = q.info /\ r.infoIs = q.infoIs
        /\ "admin_non_stp" \in r.on
        /\ \A f \in {"learning", "forwarding", "sendRSTP"} :
             f \in q.on <=> f \in r.on
    BY <1>1, SMT DEF WithoutProtocol, IsPort, PortField
  <2> HIDE DEF r
  <2>2. Gated(r) /\ Informed(c, r) /\ Migrated(c, r)
    BY <2>1 DEF PortSound, Gated, Informed, Migrated
  <2> QED
    BY <1>1, <2>2 DEF PortSound, WithRole, r
<1>2. CASE "admin_non_stp" \notin q.on
  <2> DEFINE r == WithRole(c, q)
             v == DesignatedVector(c, q)
             role == RoleFor(c, q)
             must == MustUpdate(c, q)
  <2>1. /\ SameGate(q, r) /\ SameMigrate(q, r)
        /\ r.info = q.info /\ r.infoIs = q.infoIs
        /\ r.portPriority = q.portPriority
        /\ "admin_non_stp" \notin r.on
        /\ r.selectedRole = role
        /\ r.designatedPriority = v
        /\ "updtInfo" \in r.on <=> must
    <3> HIDE DEF v, role, must
    <3>1. r = [q EXCEPT !.selectedRole = role,
                        !.designatedPriority = v,
                        !.designatedTimes = DesignatedTimes(c),
                        !.on = (q.on \ {"reselect", "updtInfo"})
                                 \cup {"selected"}
                                 \cup Given(must, {"updtInfo"})]
      BY <1>2 DEF WithRole, v, role, must
    <3> HIDE DEF r
    <3> QED
      BY <1>2, <3>1, SMT DEF IsPort, PortField, SameGate, SameMigrate, Given
  <2>2. v \in Vector /\ v.root_bridge = c.rootPriority.root_bridge
    <3>1. /\ BridgeIdentifier(c) \in Nat
          /\ c.rootPriority \in Vector /\ q.portId \in Nat
      BY SMT DEF IsBridge, IsPort, BridgeIdentifier, MacSpan
    <3> QED
      BY <3>1, SMT DEF DesignatedVector, MakeVector, Vector
  <2>3. q.infoIs \in {"Aged", "Mine"} => role = "DesignatedPort"
    BY <1>2 DEF RoleFor, Offers
  <2>4. q.infoIs = "Aged" => must
    BY DEF MustUpdate
  <2>5. q.infoIs = "Received" => (must <=> role = "DesignatedPort")
    BY DEF MustUpdate
  <2>6. q.infoIs = "Mine" /\ ~must
          => q.portPriority.root_bridge = c.rootPriority.root_bridge
    <3>1. q.infoIs = "Mine" /\ ~must => Compare(q.portPriority, v) = 0
      BY DEF MustUpdate
    <3>2. q.portPriority \in Vector
      BY DEF IsPort
    <3> HIDE DEF v, must
    <3> QED
      BY <2>2, <3>1, <3>2, EqualRoots
  <2> HIDE DEF r, v, role, must
  <2>7. Informed(c, r)
    BY <2>1, <2>2, <2>3, <2>4, <2>5, <2>6 DEF PortSound, Informed
  <2>8. Gated(r) /\ Migrated(c, r)
    BY <2>1, GatedSame DEF PortSound, Migrated, SameMigrate
  <2> QED
    BY <2>7, <2>8 DEF PortSound, r
<1> QED
  BY <1>1, <1>2

\* stp_in.c: nor do a second, a BPDU that arrives, or the manager.
LEMMA EntrySound ==
  ASSUME NEW q, IsPort(q), NEW b, PortSound(b, q)
  PROVE  /\ PortSound(b, [q EXCEPT !.timer = CountDown(q.timer)])
         /\ \A m \in Bpdu :
              PortSound(b, InfoRxBpdu([q EXCEPT !.on = q.on \ {"operEdge"}],
                                      b, m))
<1>1. SameAll(q, [q EXCEPT !.timer = CountDown(q.timer)])
  BY SMT DEF IsPort, PortField, SameAll, SameGate, SameInfo, SameMigrate
<1>2. ASSUME NEW m \in Bpdu
      PROVE  PortSound(b, InfoRxBpdu([q EXCEPT !.on = q.on \ {"operEdge"}],
                                     b, m))
  <2> DEFINE r == [q EXCEPT !.on = q.on \ {"operEdge"}]
             Takes(msg) == [r EXCEPT !.on = r.on \cup {"rcvdBPDU"}, !.msg = msg]
  <2>1. SameAll(q, r) /\ DOMAIN r = PortField
    BY SMT DEF IsPort, PortField, SameAll, SameGate, SameInfo, SameMigrate
  <2>2. PortSound(b, r)
    BY <2>1, SoundSame
  <2> HIDE DEF r
  <2>3. ASSUME NEW msg
        PROVE  PortSound(b, Takes(msg))
    <3>1. /\ SameGate(r, Takes(msg)) /\ SameMigrate(r, Takes(msg))
          /\ Informed(b, r) => Informed(b, Takes(msg))
      BY <2>1, SMT DEF PortField, SameGate, SameMigrate, Informed
    <3> QED
      BY <2>2, <3>1, GatedSame, MigratedSame DEF PortSound
  <2>4. InfoRxBpdu(r, b, m) = r \/ \E msg : InfoRxBpdu(r, b, m) = Takes(msg)
    BY DEF InfoRxBpdu
  <2> QED
    BY <2>2, <2>3, <2>4 DEF r
<1> QED
  BY <1>1, <1>2, SoundSame

\* Only a restart brings a port that was not listed.
LEMMA SteppedListed ==
  ASSUME TypeOK, NEW p \in Listed(bridge)', Stepped(p)
  PROVE  p \in Listed(bridge) \/ Begun(p)
<1> SUFFICES ASSUME ~Begun(p)
             PROVE  bridge'.ports = bridge.ports
  BY DEF Listed
<1>1. CASE Elected(p)
  <2>1. /\ [bridge EXCEPT !.rolesel = "INIT_BRIDGE"].ports = bridge.ports
        /\ \A source : WithRoot(bridge, port, source).ports = bridge.ports
    BY SMT DEF TypeOK, IsBridge, BridgeField, WithRoot
  <2> QED
    BY <1>1, <2>1 DEF Elected
<1>2. CASE PassedOver(p)
  BY <1>2 DEF PassedOver, SameRoot
<1> QED
  BY <1>1, <1>2
     DEF Stepped, Transited, Ran, Told, Ticked, Heard, Asked, Noted

\* Whatever the step was, the port is sound after it.
LEMMA SteppedSound ==
  ASSUME TypeOK, NEW p \in Port, Stepped(p),
         p \in Listed(bridge) => PortSound(bridge, port[p]),
         p \in Listed(bridge) \/ Begun(p)
  PROVE  PortSound(bridge', port'[p])
<1> DEFINE q == port[p]
           r == port'[p]
<1>1. IsPort(q) /\ IsBridge(bridge)
  BY DEF TypeOK
<1>2. CASE Begun(p)
  <2>1. PICK b : BridgeOK(b) /\ bridge' = InitData(b)
    BY <1>2 DEF Begun
  <2>2. IsBridge(bridge')
    BY <2>1, InitDataType DEF BridgeOK
  <2>3. PICK s \in {q, NewPort(p)} : r = Started(s, bridge')
    BY <1>2 DEF Begun
  <2>4. IsPort(s)
    BY <1>1, NewPortType
  <2> QED
    BY <2>2, <2>3, <2>4, StartedSound
<1> SUFFICES ASSUME ~Begun(p), PortSound(bridge, q)
             PROVE  PortSound(bridge', r)
  BY <1>2
<1>3. CASE Transited(p)
  <2> HIDE DEF q, r
  <2>1. ASSUME bridge' = bridge,
               \/ \E to \in TransmitState : r = TransmitEnter(q, bridge, to)
               \/ \E to \in BrdgdetState : r = BrdgdetEnter(q, to)
               \/ \E to \in P2pState : r = P2pEnter(q, to)
               \/ \E to \in TopochState : r = TopochEnter(q, bridge, to)
               \/ \E to \in ReceiveState : r = ReceiveEnter(q, to)
        PROVE  PortSound(bridge', r)
    BY <1>1, <2>1, OthersSame, SoundSame
  <2>2. ASSUME bridge' = bridge, NEW to \in SttransState,
               r = SttransEnter(q, to)
        PROVE  PortSound(bridge', r)
    BY <1>1, <2>2, SttransSound, InformedSame, MigratedSame DEF PortSound
  <2>3. ASSUME bridge' = bridge, NEW to \in MigrateState,
               r = MigrateEnter(q, bridge, to)
        PROVE  PortSound(bridge', r)
    BY <1>1, <2>3, MigrateSound, InformedSame, GatedSame DEF PortSound
  <2>4. ASSUME bridge' = bridge, NEW to \in PcostState, r = PcostEnter(q, to)
        PROVE  PortSound(bridge', r)
    BY <1>1, <2>4, PcostSound, MigratedSame, GatedSame DEF PortSound
  <2>5. ASSUME bridge' = bridge, NEW to \in InfoState, InfoHop(q, to),
               r = InfoEnter(q, bridge, to)
        PROVE  PortSound(bridge', r)
    BY <1>1, <2>5, InfoSound, MigratedSame, GatedSame DEF PortSound
  <2>6. ASSUME bridge' = bridge, NEW to \in RoletrnsState,
               RoletrnsHop(q, bridge, Others(p), to),
               LET s == RoletrnsEnter(q, bridge, to) IN
               r = [s EXCEPT !.on = s.on \cup RoletrnsBroadcast(to)]
        PROVE  PortSound(bridge', r)
    <3> DEFINE s == RoletrnsEnter(q, bridge, to)
    <3>1. PortSound(bridge, s) /\ IsPort(s)
      BY <1>1, <2>6, RoletrnsSound, RoletrnsType, InformedSame, MigratedSame
         DEF PortSound
    <3>2. r = [s EXCEPT !.on = s.on \cup RoletrnsBroadcast(to)]
      BY <2>6
    <3> HIDE DEF s
    <3>3. SameAll(s, r)
      BY <3>1, <3>2, SMT DEF IsPort, PortField, SameAll, SameGate, SameInfo,
                             SameMigrate, RoletrnsBroadcast
    <3> QED
      BY <2>6, <3>1, <3>3, SoundSame
  <2> QED
    BY <1>3, <2>1, <2>2, <2>3, <2>4, <2>5, <2>6 DEF Transited, Ran, q, r
<1>4. CASE Told(p)
  <2>1. SameAll(q, r)
    <3>1. PICK flags \in SUBSET {"sync", "reRoot", "tcProp"} :
            r = [q EXCEPT !.on = q.on \cup flags]
      BY <1>4 DEF Told
    <3> HIDE DEF q, r
    <3> QED
      BY <1>1, <3>1, SMT DEF IsPort, PortField, SameAll, SameGate, SameInfo,
                             SameMigrate
  <2> QED
    BY <1>4, <2>1, SoundSame DEF Told
<1>5. CASE Elected(p)
  <2>1. ASSUME bridge.rolesel = "BEGIN",
               bridge' = [bridge EXCEPT !.rolesel = "INIT_BRIDGE"],
               r = WithoutRole(q)
        PROVE  PortSound(bridge', r)
    BY <1>1, <2>1, WithoutRoleSound
  <2>2. ASSUME NEW source \in {0} \cup Listed(bridge),
               bridge' = WithRoot(bridge, port, source),
               r = WithRole(bridge', q)
        PROVE  PortSound(bridge', r)
    <3>1. source # 0 => IsPort(port[source])
      BY ListedPorts DEF TypeOK
    <3>2. IsBridge(bridge')
      BY <1>1, <2>2, <3>1, WithRootType
    <3>3. /\ bridge'.rolesel = "ROLE_SELECTION"
          /\ bridge'.rstpVersion = bridge.rstpVersion
      BY <1>1, <2>2, SMT DEF WithRoot, IsBridge, BridgeField
    <3> QED
      BY <1>1, <2>2, <3>2, <3>3, WithRoleSound
  <2> QED
    BY <1>5, <2>1, <2>2 DEF Elected
<1>6. CASE Ticked(p) \/ Heard(p)
  BY <1>1, <1>6, EntrySound, InputAssumption DEF Ticked, Heard
<1>7. CASE Asked(p)
  <2>1. Gated(r)
    BY <1>7, GatedSame DEF Asked, SameState, SameGate, PortSound, Settable,
                           Flag
  <2>2. Informed(bridge, r)
    BY <1>7 DEF Asked, SameState, PortSound, Informed
  <2>3. Migrated(bridge, r)
    BY <1>7 DEF Asked, SameState, PortSound, Migrated
  <2> QED
    BY <1>7, <2>1, <2>2, <2>3 DEF Asked, PortSound
<1>8. CASE Noted(p)
  <2>1. SameGate(q, r)
    BY <1>8 DEF Noted, SameState, SameGate, Flag
  <2>2. SameInfo(q, r)
    BY <1>8 DEF Noted, SameState, SameInfo, Flag
  <2>3. SameMigrate(q, r)
    BY <1>8 DEF Noted, SameState, SameMigrate, Flag
  <2> QED
    BY <1>8, <2>1, <2>2, <2>3, SoundSame DEF Noted, SameAll
<1>9. CASE PassedOver(p)
  BY <1>9 DEF PassedOver, SameRoot, PortSound, Informed, Migrated
<1> QED
  BY <1>3, <1>4, <1>5, <1>6, <1>7, <1>8, <1>9 DEF Stepped

(***************************************************************************)
(* Every port is sound at every transition: the invariant behind the       *)
(* theorems below, on the states of the port machines (roletrns.c,         *)
(* sttrans.c, portinfo.c, migrate.c) and the flags they share.             *)
(***************************************************************************)
THEOREM AlwaysSound == Spec => []EveryPortSound
<1>1. Init => EveryPortSound
  <2> SUFFICES ASSUME Init, NEW p \in Listed(bridge)
               PROVE  PortSound(bridge, port[p])
    BY DEF EveryPortSound
  <2>1. TypeOK
    BY InitType
  <2>2. p \in Port /\ IsBridge(bridge)
    BY <2>1, ListedPorts DEF TypeOK
  <2>3. port[p] = Started(NewPort(p), bridge)
    BY <2>2 DEF Init, AllStarted
  <2> QED
    BY <2>2, <2>3, NewPortType, StartedSound
<1>2. TypeOK /\ EveryPortInService /\ EveryPortSound /\ [Next]_vars /\ TypeOK'
      => EveryPortSound'
  <2> SUFFICES ASSUME TypeOK, EveryPortInService, EveryPortSound,
                      [Next]_vars, TypeOK', NEW p \in Listed(bridge)'
               PROVE  PortSound(bridge', port'[p])
    BY DEF EveryPortSound
  <2>1. p \in Port
    BY ListedPorts DEF TypeOK
  <2>2. Stepped(p)
    BY PortSteps
  <2>3. p \in Listed(bridge) \/ Begun(p)
    BY <2>2, SteppedListed
  <2> QED
    BY <2>1, <2>2, <2>3, SteppedSound DEF EveryPortSound
<1> QED
  BY <1>1, <1>2, TypeCorrect, AlwaysInService, PTL DEF Spec

-----------------------------------------------------------------------------
(* What is left to do when an entry point returns: nothing.                *)

\* stpm.c: only the end of STP_stpm_update lets an entry point return.
LEMMA CallSteps ==
  ASSUME [Next]_vars, call' = "none"
  PROVE  call = "none" \/ UpdateReturns
<1>1. ASSUME NEW kind, NEW p, NEW q, PortMoved(kind, p, q)
      PROVE  call' # "none"
  BY <1>1 DEF PortMoved, Turn
<1>2. ASSUME NEW kind, NEW p, NEW q, NEW flags, PortMovedAll(kind, p, q, flags)
      PROVE  call' # "none"
  BY <1>2 DEF PortMovedAll, Turn
<1>3. ASSUME NEW p,
             \/ TransmitStep(p) \/ SttransStep(p) \/ RoletrnsStep(p)
             \/ InfoStep(p) \/ PcostStep(p) \/ BrdgdetStep(p) \/ P2pStep(p)
             \/ MigrateStep(p) \/ TopochStep(p) \/ ReceiveStep(p)
      PROVE  call' # "none"
  BY <1>1, <1>2, <1>3
     DEF TransmitStep, SttransStep, RoletrnsStep, InfoStep, PcostStep,
         BrdgdetStep, P2pStep, MigrateStep, TopochStep, ReceiveStep
<1>4. RoleselStep => call' # "none"
  BY DEF RoleselStep, Turn
<1>5. OneSecond \/ (\E p \in Listed(bridge) : RxBpdu(p)) => call = "none"
  BY DEF OneSecond, Ticks, SetsOnly, RxBpdu, Gets, Enters
<1>6. Management => call = "none"
  BY DEF Management, StpmSetCfg, SetsOnly, Restarts, Enters,
         EntersAndReturns, PortCreate, PortDelete, SetPortCfg,
         SetPortCfgFails, SetPortCfgSucceeds, ChangedPortSpeed,
         ChangedPortDuplex, EnablePort, LinkIs
<1> QED
  BY <1>3, <1>4, <1>5, <1>6 DEF Next, MachineStep, vars

\* stpm.c: then no machine of any port has a transition to make.
LEMMA ReturnsQuiet ==
  ASSUME TypeOK, UpdateReturns, NEW p \in Listed(bridge)
  PROVE  /\ PortQuiet(port[p])
         /\ \A to \in MigrateState : ~MigrateHop(port[p], bridge, to)
         /\ \A to \in TransmitState : ~TransmitHop(port[p], to)
         /\ \A to \in PcostState : ~PcostHop(port[p], to)
         /\ \A to \in RoletrnsState :
              ~RoletrnsHop(port[p], bridge, Others(p), to)
<1>1. ASSUME NEW i \in DOMAIN MachineOrder
      PROVE  ~Ready(Machine(MachineOrder[i], p))
  BY <1>1 DEF UpdateReturns, AllMachines
<1>2. /\ {1, 2, 3, 4, 5, 8, 10} \subseteq DOMAIN MachineOrder
      /\ MachineOrder[1] = "transmit" /\ MachineOrder[2] = "sttrans"
      /\ MachineOrder[3] = "roletrns" /\ MachineOrder[4] = "info"
      /\ MachineOrder[5] = "pcost" /\ MachineOrder[8] = "migrate"
      /\ MachineOrder[10] = "receive"
  BY SMT DEF MachineOrder
<1>3. /\ ~Ready(Machine("transmit", p)) /\ ~Ready(Machine("sttrans", p))
      /\ ~Ready(Machine("roletrns", p)) /\ ~Ready(Machine("info", p))
      /\ ~Ready(Machine("pcost", p)) /\ ~Ready(Machine("migrate", p))
      /\ ~Ready(Machine("receive", p))
  BY <1>1, <1>2
<1> QED
  BY <1>3 DEF PortQuiet, Ready, Machine

\* STP_stpm_update leaves the ports, and their list, as its last pass did.
LEMMA ReturnsKeeps ==
  ASSUME TypeOK, UpdateReturns
  PROVE  /\ port' = port /\ Listed(bridge)' = Listed(bridge)
         /\ SameRoot(bridge, bridge')
<1>1. SameRoot(bridge, [bridge EXCEPT !.Topology_Change =
             \E p \in Listed(bridge) : port[p].timer["tcWhile"] # 0])
  BY SMT DEF TypeOK, IsBridge, BridgeField, SameRoot
<1> QED
  BY <1>1 DEF UpdateReturns, Listed, SameRoot

\* A port is left alone between two updates, unless it asks for a selection.
LEMMA RestSteps ==
  ASSUME TypeOK, EveryPortInService, [Next]_vars, call = "none",
         AtRest', NEW p \in Listed(bridge)'
  PROVE  /\ Noted(p) \/ PassedOver(p)
         /\ Listed(bridge)' = Listed(bridge)
<1>1. ASSUME NEW x \in Listed(bridge)'
      PROVE  Noted(x) \/ PassedOver(x)
  <2>1. Stepped(x)
    BY PortSteps
  <2>2. call' = "none" /\ "reselect" \notin port'[x].on
    BY DEF AtRest, On
  <2> QED
    BY <2>1, <2>2 DEF Stepped, Transited, Ran, Turn, Told, Elected, Begun,
                      Ticked, Heard, Asked
<1> QED
  BY <1>1 DEF Noted, PassedOver, SameRoot, Listed

\* What was at rest after the step was at rest before it.
LEMMA RestBefore ==
  ASSUME TypeOK, EveryPortInService, [Next]_vars, call = "none", AtRest'
  PROVE  Listed(bridge)' # {} => AtRest
<1> SUFFICES ASSUME NEW x \in Listed(bridge)'
             PROVE  AtRest
  OBVIOUS
<1>1. Listed(bridge)' = Listed(bridge)
  BY RestSteps
<1>2. ASSUME NEW p \in Listed(bridge)
      PROVE  ~On(p, "reselect")
  <2>1. Noted(p) \/ PassedOver(p)
    BY <1>1, RestSteps
  <2>2. "reselect" \notin port'[p].on
    BY <1>1 DEF AtRest, On
  <2> QED
    BY <2>1, <2>2 DEF Noted, PassedOver, On, Flag
<1> QED
  BY <1>2 DEF AtRest

\* A port noted to have changed has no more to do than before.
LEMMA NotedQuiet ==
  ASSUME NEW p, PortQuiet(port[p]), Noted(p) \/ PassedOver(p)
  PROVE  PortQuiet(port'[p])
<1> DEFINE q == port[p]
           r == port'[p]
<1>1. CASE Noted(p)
  <2>1. /\ q.receive = r.receive /\ q.info = r.info /\ q.sttrans = r.sttrans
        /\ q.infoIs = r.infoIs /\ q.rcvdInfo = r.rcvdInfo
        /\ q.timer = r.timer
        /\ \A f \in {"portEnabled", "rcvdBPDU", "rcvdMsg", "selected",
                     "updtInfo", "learn", "forward"} : f \in q.on <=> f \in r.on
    BY <1>1 DEF Noted, SameState, Flag
  <2> HIDE DEF q, r
  <2>2. \A to \in SttransState : SttransHop(r, to) => SttransHop(q, to)
    BY <2>1 DEF SttransHop
  <2>3. \A to \in InfoState : InfoHop(r, to) => InfoHop(q, to)
    BY <2>1 DEF InfoHop
  <2>4. \A to \in ReceiveState : ReceiveHop(r, to) => ReceiveHop(q, to)
    BY <2>1 DEF ReceiveHop, AcceptsNext, Enabled
  <2> QED
    BY <2>2, <2>3, <2>4 DEF PortQuiet, q, r
<1> QED
  BY <1>1 DEF PassedOver

(***************************************************************************)
(* When every entry point has returned and no selection is outstanding,    *)
(* no port has a transition left to make in the machines that handle what  *)
(* it received and what it relays, although some entry points change a     *)
(* port without running the update (stp_in.c, STP_stpm_update).            *)
(***************************************************************************)
THEOREM AlwaysQuiet == Spec => []EveryPortQuiet
<1>1. Init => EveryPortQuiet
  BY DEF Init, EveryPortQuiet, AtRest
<1>2. TypeOK /\ EveryPortInService /\ EveryPortQuiet /\ [Next]_vars
      => EveryPortQuiet'
  <2> SUFFICES ASSUME TypeOK, EveryPortInService, EveryPortQuiet,
                      [Next]_vars, AtRest', NEW p \in Listed(bridge)'
               PROVE  PortQuiet(port'[p])
    BY DEF EveryPortQuiet
  <2>1. CASE UpdateReturns
    BY <2>1, ReturnsQuiet, ReturnsKeeps
  <2>2. CASE call = "none"
    <3>1. AtRest /\ p \in Listed(bridge) /\ (Noted(p) \/ PassedOver(p))
      BY <2>2, RestBefore, RestSteps
    <3> QED
      BY <3>1, NotedQuiet DEF EveryPortQuiet
  <2> QED
    BY <2>1, <2>2, CallSteps DEF AtRest
<1> QED
  BY <1>1, <1>2, TypeCorrect, AlwaysInService, PTL DEF Spec

(***************************************************************************)
(* An alternate, backup or disabled port relays nothing once the entry     *)
(* point has returned: neither its variables nor the state given to the    *)
(* kernel say so (roletrns.c, sttrans.c).                                  *)
(***************************************************************************)
THEOREM AlwaysBlockedDiscards == Spec => []BlockedDiscards
<1>1. EveryPortSound /\ EveryPortQuiet /\ TypeOK => BlockedDiscards
  <2> SUFFICES ASSUME EveryPortSound, EveryPortQuiet, TypeOK, AtRest,
                      NEW p \in Listed(bridge), Blocked(p)
               PROVE  ~Relays(p)
    BY DEF BlockedDiscards
  <2>1. /\ Gated(port[p]) /\ PortQuiet(port[p])
        /\ port[p].sttrans \in SttransState
    BY ListedPorts DEF EveryPortSound, EveryPortQuiet, PortSound, TypeOK,
                       IsPort
  <2>2. "learn" \notin port[p].on /\ "forward" \notin port[p].on
    BY <2>1 DEF Gated, Blocked
  <2>3. port[p].sttrans = "DISCARDING"
    BY <2>1, <2>2 DEF PortQuiet, SttransHop, SttransState
  <2> QED
    BY <2>1, <2>2, <2>3 DEF Gated, Relays
<1> QED
  BY <1>1, AlwaysSound, AlwaysQuiet, TypeCorrect, PTL

\* portinfo.c: the machine of a port that cannot move is in CURRENT.
LEMMA InfoCurrent ==
  ASSUME NEW q, IsPort(q), NEW b, Informed(b, q), "portEnabled" \in q.on,
         "selected" \in q.on, "admin_non_stp" \notin q.on,
         \A to \in InfoState : ~InfoHop(q, to)
  PROVE  q.info = "CURRENT" /\ Settled(q)
<1>1. Settled(q) /\ q.info \in {"AGED", "CURRENT"}
  BY InfoAtRest
<1> QED
  BY <1>1 DEF Informed, Settled

(***************************************************************************)
(* The hand-over of a BPDU from the receive machine to the information     *)
(* machine (rcvdBPDU, then rcvdMsg) is finished when the entry point       *)
(* returns (receive.c, portinfo.c).                                        *)
(***************************************************************************)
THEOREM AlwaysNothingPending == Spec => []NothingPending
<1>1. EveryPortSound /\ EveryPortQuiet /\ EveryPortInService /\ TypeOK
      => NothingPending
  <2> SUFFICES ASSUME EveryPortSound, EveryPortQuiet, EveryPortInService,
                      TypeOK, AtRest, NEW p \in Listed(bridge), Stp(p)
               PROVE  ~On(p, "rcvdMsg") /\ ~On(p, "rcvdBPDU")
    BY DEF NothingPending
  <2> DEFINE q == port[p]
  <2>1. /\ Informed(bridge, q) /\ PortQuiet(q) /\ IsPort(q)
        /\ "portEnabled" \in q.on /\ "selected" \in q.on
        /\ "admin_non_stp" \notin q.on
    BY ListedPorts DEF EveryPortSound, EveryPortQuiet, PortSound, TypeOK,
                       EveryPortInService, InService, AtRest, On, Stp
  <2> HIDE DEF q
  <2>2. q.info = "CURRENT" /\ "updtInfo" \notin q.on
    BY <2>1, InfoCurrent DEF PortQuiet, Settled
  <2>3. "rcvdMsg" \notin q.on
    BY <2>1, <2>2 DEF PortQuiet, InfoHop, InfoState
  <2>4. "rcvdBPDU" \notin q.on
    BY <2>1, <2>3 DEF PortQuiet, ReceiveHop, AcceptsNext, Enabled,
                      ReceiveState, IsPort
  <2> QED
    BY <2>3, <2>4 DEF On, q
<1> QED
  BY <1>1, AlwaysSound, AlwaysQuiet, AlwaysInService, TypeCorrect, PTL

(***************************************************************************)
(* "rstpctl portmcheck" is never lost: whenever an update ends, a port on  *)
(* which the check is still to be made already sends RST BPDUs             *)
(* (migrate.c).                                                            *)
(***************************************************************************)
THEOREM McheckAlwaysServed == Spec => McheckServed
<1>1. TypeOK /\ EveryPortSound /\ [Next]_vars
      => (call # "none" /\ call' = "none" /\ bridge.rstpVersion =>
            \A p \in Listed(bridge) : On(p, "mcheck") => On(p, "sendRSTP"))
  <2> SUFFICES ASSUME TypeOK, EveryPortSound, [Next]_vars, call # "none",
                      call' = "none", bridge.rstpVersion,
                      NEW p \in Listed(bridge), On(p, "mcheck")
               PROVE  On(p, "sendRSTP")
    OBVIOUS
  <2>1. \A to \in MigrateState : ~MigrateHop(port[p], bridge, to)
    BY CallSteps, ReturnsQuiet
  <2>2. port[p].migrate \in MigrateState /\ Migrated(bridge, port[p])
    BY ListedPorts DEF TypeOK, IsPort, EveryPortSound, PortSound
  <2>3. port[p].migrate \in {"BEGIN", "CHECKING_RSTP"}
    BY <2>1, <2>2 DEF MigrateHop, LeavesStp, MigrateState, On
  <2> QED
    BY <2>2, <2>3 DEF Migrated, On
<1> QED
  BY <1>1, AlwaysSound, TypeCorrect, PTL DEF Spec, McheckServed

-----------------------------------------------------------------------------
(***************************************************************************)
(* The Port Role Transitions machine.  A port is in the states of the role *)
(* it has, because nothing that comes after this machine in the list of    *)
(* its port moves before it has left its first two states, and because it  *)
(* only passes through the states of a designated port.                    *)
(***************************************************************************)

\* roletrns.c: the states a port starts in, and those of a blocked port.
FreshStates == {"BEGIN", "INIT_PORT"}
BlockedStates == {"BLOCK_PORT", "ALTERNATE_PORT", "ALTERNATE_PROPOSED",
                  "ALTERNATE_AGREED", "BACKUP_PORT"}

\* STP_change_state is with that machine of the port.
InTurn(kind, p) == call # "none" /\ running = Machine(kind, p)
Turns(p) == {kind \in {"roletrns", "info", "pcost"} : InTurn(kind, p)}

\* roletrns.c: a port is in the states of the role it has, and while it is
\* selected it has the role of a port outside the protocol just when it is one.
Placed(q) ==
  /\ q.role = "DisabledPort" =>
       q.roletrns \in FreshStates \cup {"DISABLE_PORT", "DISABLED_PORT"}
  /\ q.role \in {"AlternatePort", "BackupPort"} => q.roletrns \in BlockedStates
  /\ q.role = "RootPort" => q.roletrns \in RootStates \cup {"ROOT_PORT"}
  /\ q.role = "DesignatedPort" =>
       q.roletrns \in DesignatedStates \cup {"DESIGNATED_PORT"}
  /\ "selected" \in q.on =>
       (q.selectedRole = "NonStpPort" <=> "admin_non_stp" \in q.on)

\* rolesel.c, pcost.c: a selected port outside the protocol learns and
\* forwards, or is still to ask for a selection; so does not one that was
\* taken out while designated.
Outside(q) ==
  /\ "admin_non_stp" \in q.on /\ "selected" \in q.on
  /\ q.roletrns \notin DesignatedStates \cup {"DESIGNATED_PORT"}
  => {"learn", "forward"} \subseteq q.on \/ q.pcost # "STABLE"

\* roletrns.c: while the machine is in its first two states it holds back
\* those that come after it in the list; only a port outside the protocol,
\* for which INIT_PORT has no way out, lets its information machine move.
Fresh(q, turns) ==
  q.roletrns \in FreshStates =>
    /\ q.pcost = "BEGIN" /\ "pcost" \notin turns
    /\ q.roletrns = "BEGIN" => q.info = "BEGIN" /\ "info" \notin turns
    /\ q.selectedRole \in {"DisabledPort", "NonStpPort"}
    /\ "admin_non_stp" \notin q.on =>
         /\ q.selectedRole = "DisabledPort" /\ q.infoIs = "Disabled"
         /\ "info" \notin turns
    /\ "selected" \in q.on =>
         q.info \in {"BEGIN", "DISABLED"} \/ q.role = q.selectedRole

\* roletrns.c: the machine only passes through the states of a designated
\* port, back to DESIGNATED_PORT.
InPassage(q, turns) ==
  q.roletrns \in DesignatedStates => ~NewRole(q) /\ "roletrns" \in turns

Handled(q, turns) ==
  Placed(q) /\ Outside(q) /\ Fresh(q, turns) /\ InPassage(q, turns)

EveryPortHandled ==
  \A p \in Listed(bridge) :
    /\ Handled(port[p], Turns(p))
    /\ call = "none" =>
         port[p].roletrns \notin FreshStates /\ port[p].pcost = "STABLE"

-----------------------------------------------------------------------------
(* The scheduler.                                                          *)

\* statmch.c: a machine whose turn it is after a step had it in that step.
LEMMA TurnTaken ==
  ASSUME [Next]_vars, NEW kind, NEW p, InTurn(kind, p)', kind # "rolesel",
         kind # "none"
  PROVE  Turn(Machine(kind, p)) \/ UNCHANGED vars
<1>1. ASSUME NEW k, NEW x, NEW q, PortMoved(k, x, q)
      PROVE  Turn(Machine(kind, p))
  BY <1>1 DEF PortMoved, InTurn
<1>2. ASSUME NEW k, NEW x, NEW q, NEW flags, PortMovedAll(k, x, q, flags)
      PROVE  Turn(Machine(kind, p))
  BY <1>2 DEF PortMovedAll, InTurn
<1>3. ASSUME NEW x,
             \/ TransmitStep(x) \/ SttransStep(x) \/ RoletrnsStep(x)
             \/ InfoStep(x) \/ PcostStep(x) \/ BrdgdetStep(x) \/ P2pStep(x)
             \/ MigrateStep(x) \/ TopochStep(x) \/ ReceiveStep(x)
      PROVE  Turn(Machine(kind, p))
  BY <1>1, <1>2, <1>3
     DEF TransmitStep, SttransStep, RoletrnsStep, InfoStep, PcostStep,
         BrdgdetStep, P2pStep, MigrateStep, TopochStep, ReceiveStep
<1>4. RoleselStep => running' # Machine(kind, p)
  BY DEF RoleselStep, RoleselMachine, Machine
<1>5. UpdateReturns => call' = "none"
  BY DEF UpdateReturns
<1>6. \A k : Enters(k) => running' # Machine(kind, p)
  BY DEF Enters, NoMachine, Machine
<1>7. ASSUME NEW b, SetsOnly(b)
      PROVE  call' = "none"
  BY <1>7 DEF SetsOnly
<1>8. EntersAndReturns => call' = "none"
  BY DEF EntersAndReturns
<1>9. OneSecond \/ (\E x \in Listed(bridge) : RxBpdu(x)) => ~InTurn(kind, p)'
  BY <1>6, <1>7 DEF OneSecond, Ticks, RxBpdu, Gets, InTurn
<1>10. Management => ~InTurn(kind, p)'
  BY <1>6, <1>7, <1>8
     DEF Management, StpmSetCfg, Restarts, PortCreate, PortDelete,
         SetPortCfg, SetPortCfgFails, SetPortCfgSucceeds, ChangedPortSpeed,
         ChangedPortDuplex, EnablePort, LinkIs, InTurn
<1> QED
  BY <1>3, <1>4, <1>5, <1>9, <1>10 DEF Next, MachineStep, InTurn

\* stpm.c: the machines of a port are looked at in the order of its list.
LEMMA EarlierFirst ==
  ASSUME NEW p, NEW i \in DOMAIN MachineOrder, NEW j \in DOMAIN MachineOrder,
         i < j, Turn(Machine(MachineOrder[j], p)),
         ~InTurn(MachineOrder[j], p)
  PROVE  ~Ready(Machine(MachineOrder[i], p))
<1> DEFINE Place(kind) == CHOOSE k \in DOMAIN MachineOrder :
                            MachineOrder[k] = kind
<1>1. DOMAIN MachineOrder = 1 .. 10
  BY SMT DEF MachineOrder
<1>2. \A k, l \in 1 .. 10 : MachineOrder[k] = MachineOrder[l] => k = l
  BY SMT DEF MachineOrder
<1>3. Place(MachineOrder[j]) = j
  BY <1>1, <1>2
<1>4. Machine(MachineOrder[i], p) \in Before(Machine(MachineOrder[j], p))
  <2>1. i \in 1 .. j - 1
    BY <1>1, SMT
  <2>2. Machine(MachineOrder[j], p) # RoleselMachine
    BY <1>1, SMT DEF Machine, RoleselMachine, MachineOrder
  <2>3. Machine(MachineOrder[j], p).machine = MachineOrder[j]
        /\ Machine(MachineOrder[j], p).port = p
    BY DEF Machine
  <2>4. ASSUME NEW m, m # RoleselMachine, m.port = p,
               NEW n, n = Place(m.machine), i \in 1 .. n - 1
        PROVE  Machine(MachineOrder[i], p) \in Before(m)
    <3> DEFINE L == CHOOSE l \in DOMAIN bridge.ports : bridge.ports[l] = m.port
               Earlier == {Machine(MachineOrder[k], m.port) : k \in 1 .. n - 1}
               Ports == {Machine(MachineOrder[k], bridge.ports[l]) :
                           k \in DOMAIN MachineOrder, l \in 1 .. L - 1}
    <3>1. Before(m) = {RoleselMachine} \cup Ports \cup Earlier
      BY <2>4 DEF Before
    <3>2. Machine(MachineOrder[i], p) \in Earlier
      BY <2>4
    <3> HIDE DEF Earlier, Ports
    <3> QED
      BY <3>1, <3>2
  <2> QED
    BY <1>3, <2>1, <2>2, <2>3, <2>4
<1> QED
  BY <1>4 DEF Turn, InTurn

\* ... so that none after roletrns moves while the port is fresh, but the
\* information machine of a port outside the protocol.
LEMMA FreshHolds ==
  ASSUME NEW p, IsPort(port[p]), InService(port[p]),
         Fresh(port[p], Turns(p)), port[p].roletrns \in FreshStates
  PROVE  /\ ~Turn(Machine("pcost", p))
         /\ Turn(Machine("info", p)) =>
              port[p].roletrns = "INIT_PORT" /\ "admin_non_stp" \in port[p].on
<1> DEFINE q == port[p]
<1>1. /\ {3, 4, 5} \subseteq DOMAIN MachineOrder
      /\ MachineOrder[3] = "roletrns" /\ MachineOrder[4] = "info"
      /\ MachineOrder[5] = "pcost"
  BY SMT DEF MachineOrder
<1>2. /\ InTurn("pcost", p) => "pcost" \in Turns(p)
      /\ InTurn("info", p) => "info" \in Turns(p)
  BY DEF Turns
<1>3. ASSUME ~Ready(Machine("roletrns", p))
      PROVE  /\ q.roletrns = "INIT_PORT" /\ NewRole(q)
             /\ q.selectedRole = "NonStpPort"
  <2>1. \A to \in RoletrnsState : ~RoletrnsHop(q, bridge, Others(p), to)
    BY <1>3 DEF Ready, Machine
  <2> HIDE DEF q
  <2>2. q.roletrns = "INIT_PORT"
    BY <2>1 DEF RoletrnsHop, RoletrnsState, FreshStates, q
  <2>3. NewRole(q)
    BY <2>1, <2>2 DEF RoletrnsHop, RoletrnsState
  <2>4. q.selectedRole # "DisabledPort"
    BY <2>1, <2>2, <2>3 DEF RoletrnsHop, RoleEntry, RoletrnsState
  <2> QED
    BY <2>2, <2>3, <2>4 DEF Fresh, q
<1>4. ASSUME Turn(Machine("info", p))
      PROVE  q.roletrns = "INIT_PORT" /\ "admin_non_stp" \in q.on
  <2>1. CASE InTurn("info", p)
    BY <1>2, <2>1 DEF Fresh, FreshStates
  <2>2. CASE ~InTurn("info", p)
    <3>1. ~Ready(Machine("roletrns", p))
      BY <1>1, <1>4, <2>2, EarlierFirst
    <3> QED
      BY <1>3, <3>1 DEF Fresh
  <2> QED
    BY <2>1, <2>2
<1>5. ASSUME Turn(Machine("pcost", p))
      PROVE  FALSE
  <2>1. ~InTurn("pcost", p)
    BY <1>2 DEF Fresh
  <2>2. ~Ready(Machine("roletrns", p)) /\ ~Ready(Machine("info", p))
    BY <1>1, <1>5, <2>1, EarlierFirst
  <2>3. \A to \in InfoState : ~InfoHop(q, to)
    BY <2>2 DEF Ready, Machine
  <2>4. q.info \in {"BEGIN", "DISABLED"}
    BY <1>3, <2>2 DEF Fresh, NewRole, Settled
  <2> QED
    BY <2>3, <2>4 DEF InfoHop, InfoState, InService
<1> QED
  BY <1>4, <1>5

-----------------------------------------------------------------------------
(* What the machines of a port do to it.                                   *)

\* Nothing that the parts of the invariant read has changed.
SameHandling(q, r) ==
  /\ q.roletrns = r.roletrns /\ q.role = r.role
  /\ q.selectedRole = r.selectedRole
  /\ q.info = r.info /\ q.infoIs = r.infoIs /\ q.pcost = r.pcost
  /\ \A f \in {"selected", "updtInfo", "admin_non_stp", "learn", "forward"} :
       f \in q.on <=> f \in r.on

LEMMA HandledSame ==
  ASSUME NEW q, NEW r, SameHandling(q, r)
  PROVE  /\ Placed(q) => Placed(r)
         /\ Outside(q) => Outside(r)
         /\ \A turns : Fresh(q, turns) => Fresh(r, turns)
         /\ \A turns : InPassage(q, turns) => InPassage(r, turns)
BY DEF SameHandling, Placed, Outside, Fresh, InPassage, NewRole, Settled

\* pcost.c alone sets the state of the Port Path Cost machine.
LEMMA PcostKept ==
  ASSUME NEW q, IsPort(q), NEW b
  PROVE  /\ \A to \in TransmitState : TransmitEnter(q, b, to).pcost = q.pcost
         /\ \A to \in BrdgdetState : BrdgdetEnter(q, to).pcost = q.pcost
         /\ \A to \in P2pState : P2pEnter(q, to).pcost = q.pcost
         /\ \A to \in TopochState : TopochEnter(q, b, to).pcost = q.pcost
         /\ \A to \in ReceiveState : ReceiveEnter(q, to).pcost = q.pcost
         /\ \A to \in MigrateState : MigrateEnter(q, b, to).pcost = q.pcost
         /\ \A to \in SttransState : SttransEnter(q, to).pcost = q.pcost
<1> USE DEF IsPort, PortField
<1>1. \A to \in TransmitState : TransmitEnter(q, b, to).pcost = q.pcost
  BY SMT DEF TransmitEnter, TransmitState
<1>2. \A to \in BrdgdetState : BrdgdetEnter(q, to).pcost = q.pcost
  BY SMT DEF BrdgdetEnter
<1>3. \A to \in P2pState : P2pEnter(q, to).pcost = q.pcost
  BY SMT DEF P2pEnter
<1>4. \A to \in TopochState : TopochEnter(q, b, to).pcost = q.pcost
  BY SMT DEF TopochEnter
<1>5. \A to \in ReceiveState : ReceiveEnter(q, to).pcost = q.pcost
  BY SMT DEF ReceiveEnter
<1>6. \A to \in MigrateState : MigrateEnter(q, b, to).pcost = q.pcost
  BY SMT DEF MigrateEnter
<1>7. \A to \in SttransState : SttransEnter(q, to).pcost = q.pcost
  BY SMT DEF SttransEnter
<1> QED
  BY <1>1, <1>2, <1>3, <1>4, <1>5, <1>6, <1>7

\* sttrans.c turns on and off what the port does, not what it is told to do.
LEMMA SttransKept ==
  ASSUME NEW q, IsPort(q), NEW to \in SttransState
  PROVE  LET r == SttransEnter(q, to) IN
         /\ q.roletrns = r.roletrns /\ q.role = r.role
         /\ \A f \in {"learn", "forward"} : f \in q.on <=> f \in r.on
BY SMT DEF IsPort, PortField, SttransEnter, SttransState

\* The machines that leave the port's handling alone.
LEMMA OthersHandle ==
  ASSUME NEW q, IsPort(q), NEW b
  PROVE  /\ \A to \in TransmitState : SameHandling(q, TransmitEnter(q, b, to))
         /\ \A to \in SttransState : SameHandling(q, SttransEnter(q, to))
         /\ \A to \in BrdgdetState : SameHandling(q, BrdgdetEnter(q, to))
         /\ \A to \in P2pState : SameHandling(q, P2pEnter(q, to))
         /\ \A to \in MigrateState : SameHandling(q, MigrateEnter(q, b, to))
         /\ \A to \in TopochState : SameHandling(q, TopochEnter(q, b, to))
         /\ \A to \in ReceiveState : SameHandling(q, ReceiveEnter(q, to))
<1>1. ASSUME NEW r, SameGate(q, r), SameInfo(q, r), r.pcost = q.pcost
      PROVE  SameHandling(q, r)
  BY <1>1 DEF SameGate, SameInfo, SameHandling
<1>2. ASSUME NEW to \in SttransState
      PROVE  SameHandling(q, SttransEnter(q, to))
  BY SttransSound, SttransKept, PcostKept DEF SameInfo, SameHandling
<1>3. ASSUME NEW to \in MigrateState
      PROVE  SameHandling(q, MigrateEnter(q, b, to))
  BY <1>1, MigrateSound, PcostKept
<1> QED
  BY <1>1, <1>2, <1>3, OthersSame, PcostKept DEF SameAll

\* portinfo.c: neither the role nor the path cost changes, and a port that
\* was not selected is not selected now.
LEMMA InfoKept ==
  ASSUME NEW q, IsPort(q), NEW b, NEW to \in InfoState
  PROVE  LET r == InfoEnter(q, b, to) IN
         /\ r.pcost = q.pcost /\ r.selectedRole = q.selectedRole
         /\ r.info = to
         /\ "admin_non_stp" \in r.on <=> "admin_non_stp" \in q.on
         /\ "selected" \in r.on => "selected" \in q.on
         /\ to \in {"DISABLED", "AGED"} => "selected" \notin r.on
<1> DEFINE Fine(r) == /\ r.pcost = q.pcost /\ r.selectedRole = q.selectedRole
                      /\ r.info = to
                      /\ "admin_non_stp" \in r.on <=> "admin_non_stp" \in q.on
                      /\ "selected" \in r.on => "selected" \in q.on
                      /\ to \in {"DISABLED", "AGED"} => "selected" \notin r.on
<1>1. \A f \in {"selected", "admin_non_stp"} :
        f \notin Proposal(q) /\ f \notin TcFlags(q)
  BY DEF Proposal, TcFlags, Given
<1>2. /\ to = "DISABLED" => Fine(InfoDisabled(q))
      /\ to = "BEGIN" => Fine(InfoBegin(q))
      /\ to = "AGED" => Fine(InfoAged(q))
  BY SMT DEF IsPort, PortField, InfoDisabled, InfoBegin, InfoAged
<1>3. /\ to = "UPDATE" => Fine(InfoUpdate(q))
      /\ to = "CURRENT" => Fine([q EXCEPT !.info = "CURRENT"])
      /\ to = "RECEIVE" => Fine(InfoReceive(q))
  BY SMT DEF IsPort, PortField, InfoUpdate, InfoReceive, Given
<1>4. /\ to = "SUPERIOR_DESIGNATED" => Fine(InfoSuperior(q))
      /\ to = "REPEATED_DESIGNATED" => Fine(InfoRepeated(q))
      /\ to = "OTHER" => Fine([q EXCEPT !.info = "OTHER",
                                        !.on = q.on \ {"rcvdMsg"}])
  BY <1>1, SMT DEF IsPort, PortField, InfoSuperior, InfoRepeated, Given
<1>5. /\ to = "INFERIOR_DESIGNATED" => Fine(InfoInferior(q))
      /\ to = "NOT_DESIGNATED" => Fine(InfoNotDesignated(q, b))
  BY <1>1, SMT DEF IsPort, PortField, InfoInferior, InfoNotDesignated, Given
<1> QED
  BY <1>2, <1>3, <1>4, <1>5 DEF InfoState, InfoEnter

\* pcost.c: a port that has its path cost waits for a selection.
LEMMA PcostHandles ==
  ASSUME NEW q, IsPort(q), NEW to \in PcostState, PcostHop(q, to)
  PROVE  LET r == PcostEnter(q, to) IN
         /\ r.pcost = to /\ r.selectedRole = q.selectedRole
         /\ "admin_non_stp" \in r.on <=> "admin_non_stp" \in q.on
         /\ "selected" \in r.on => "selected" \in q.on
         /\ to = "STABLE" => "selected" \notin r.on
BY SMT DEF IsPort, PortField, PcostEnter, PcostState, PcostHop

\* roletrns.c: what each state does to the role and to learn and forward.
LEMMA RoletrnsTakes ==
  ASSUME NEW q, IsPort(q), NEW b, NEW to \in RoletrnsState \ {"BEGIN"}
  PROVE  LET r == RoletrnsEnter(q, b, to) IN
         /\ r.roletrns = to /\ r.pcost = q.pcost
         /\ to \in {"DISABLE_PORT", "BLOCK_PORT"} => r.role = q.selectedRole
         /\ to = "INIT_PORT" => r.role = "DisabledPort"
         /\ to = "ROOT_PORT" => r.role = "RootPort"
         /\ to = "DESIGNATED_PORT" => r.role = "DesignatedPort"
         /\ to \notin {"INIT_PORT", "DISABLE_PORT", "BLOCK_PORT", "ROOT_PORT",
                       "DESIGNATED_PORT"} => r.role = q.role
         /\ to \notin {"INIT_PORT", "DISABLE_PORT", "BLOCK_PORT",
                       "DESIGNATED_DISCARD"} =>
              \A f \in {"learn", "forward"} : f \in q.on => f \in r.on
<1> DEFINE r == RoletrnsEnter(q, b, to)
           Same(s) == s.roletrns = to /\ s.pcost = q.pcost /\ s.role = q.role
           Keeps(s) == \A f \in {"learn", "forward"} : f \in q.on => f \in s.on
           Go(off, set) == Moved(q, to, off, set)
<1>1. ASSUME NEW off, NEW set
      PROVE  /\ Same(Go(off, set)) /\ DOMAIN Go(off, set) = PortField
             /\ "learn" \notin off /\ "forward" \notin off
                  => Keeps(Go(off, set))
  BY SMT DEF IsPort, PortField, Moved
<1>2. ASSUME NEW s, DOMAIN s = PortField, Same(s), NEW t, NEW n
      PROVE  Same(Timed(s, t, n)) /\ (Keeps(s) => Keeps(Timed(s, t, n)))
  BY <1>2, SMT DEF PortField, Timed
<1>3. CASE to = "INIT_PORT"
  <2>1. /\ InitPort(q, b, to).roletrns = to
        /\ InitPort(q, b, to).pcost = q.pcost
        /\ InitPort(q, b, to).role = "DisabledPort"
    BY SMT DEF IsPort, PortField, InitPort
  <2> QED
    BY <1>3, <2>1 DEF RoletrnsEnter
<1>4. CASE to \in {"DISABLE_PORT", "BLOCK_PORT"}
  <2>1. /\ TakeRole(q, to).roletrns = to /\ TakeRole(q, to).pcost = q.pcost
        /\ TakeRole(q, to).role = q.selectedRole
    BY SMT DEF IsPort, PortField, TakeRole
  <2> QED
    BY <1>4, <2>1 DEF RoletrnsEnter
<1>5. CASE to \in {"DISABLED_PORT", "ALTERNATE_PORT"}
  <2>1. ASSUME NEW n
        PROVE  Same(Retired(q, to, n)) /\ Keeps(Retired(q, to, n))
    BY SMT DEF IsPort, PortField, Retired
  <2> QED
    BY <1>5, <2>1 DEF RoletrnsEnter
<1>6. CASE to = "ROOT_PORT"
  <2> DEFINE s(n) == [Timed(q, "rrWhile", n) EXCEPT !.roletrns = to,
                                                   !.role = "RootPort"]
  <2>1. ASSUME NEW n
        PROVE  /\ s(n).roletrns = to /\ s(n).pcost = q.pcost
               /\ s(n).role = "RootPort" /\ s(n).on = q.on
    BY SMT DEF IsPort, PortField, Timed
  <2>2. r = s(b.rootTimes.ForwardDelay)
    BY <1>6 DEF RoletrnsEnter
  <2> HIDE DEF s, r
  <2> QED
    BY <1>6, <2>1, <2>2 DEF r
<1>7. CASE to = "DESIGNATED_PORT"
  <2> DEFINE s == [q EXCEPT !.roletrns = to, !.role = "DesignatedPort"]
  <2>1. /\ s.roletrns = to /\ s.pcost = q.pcost
        /\ s.role = "DesignatedPort" /\ s.on = q.on
    BY SMT DEF IsPort, PortField
  <2>2. r = s
    BY <1>7 DEF RoletrnsEnter
  <2> HIDE DEF s, r
  <2> QED
    BY <1>7, <2>1, <2>2 DEF r
<1>8. CASE to \in {"ROOT_PROPOSED", "ALTERNATE_PROPOSED", "ROOT_AGREED",
                   "ALTERNATE_AGREED", "REROOT", "REROOTED",
                   "DESIGNATED_RETIRED"}
  BY <1>1, <1>8 DEF RoletrnsEnter
<1>9. CASE to \in {"ROOT_FORWARD", "ROOT_LEARN", "DESIGNATED_LEARN",
                   "DESIGNATED_PROPOSE", "DESIGNATED_FORWARD",
                   "DESIGNATED_SYNCED", "BACKUP_PORT"}
  BY <1>1, <1>2, <1>9 DEF RoletrnsEnter
<1>10. CASE to = "DESIGNATED_DISCARD"
  BY <1>1, <1>2, <1>10 DEF RoletrnsEnter
<1> QED
  BY <1>3, <1>4, <1>5, <1>6, <1>7, <1>8, <1>9, <1>10 DEF RoletrnsState

-----------------------------------------------------------------------------
(* Every step leaves every port handled.                                   *)

\* statmch.c: while the running machine has a transition to make, no other
\* machine of the bridge moves and no entry point returns.
LEMMA OnlyRunning ==
  ASSUME [Next]_vars, call # "none", running \in AllMachines, Ready(running)
  PROVE  (MachineStep /\ running' = running) \/ UNCHANGED vars
<1>1. ASSUME NEW m, Turn(m)
      PROVE  m = running
  BY <1>1 DEF Turn
<1>2. ASSUME NEW x,
             \/ TransmitStep(x) \/ SttransStep(x) \/ RoletrnsStep(x)
             \/ InfoStep(x) \/ PcostStep(x) \/ BrdgdetStep(x) \/ P2pStep(x)
             \/ MigrateStep(x) \/ TopochStep(x) \/ ReceiveStep(x)
      PROVE  running' = running
  BY <1>1, <1>2
     DEF TransmitStep, SttransStep, RoletrnsStep, InfoStep, PcostStep,
         BrdgdetStep, P2pStep, MigrateStep, TopochStep, ReceiveStep,
         PortMoved, PortMovedAll
<1>3. RoleselStep => running' = running
  BY <1>1 DEF RoleselStep
<1>4. ~UpdateReturns
  BY DEF UpdateReturns
<1>5. ~OneSecond /\ ~(\E x \in Listed(bridge) : RxBpdu(x))
  BY DEF OneSecond, Ticks, SetsOnly, RxBpdu, Gets, Enters
<1>6. ~Management
  BY DEF Management, StpmSetCfg, SetsOnly, Restarts, Enters,
         EntersAndReturns, PortCreate, PortDelete, SetPortCfg,
         SetPortCfgFails, SetPortCfgSucceeds, ChangedPortSpeed,
         ChangedPortDuplex, EnablePort, LinkIs
<1> QED
  BY <1>2, <1>3, <1>4, <1>5, <1>6 DEF Next, MachineStep

\* roletrns.c: nothing but the machine itself moves in such a state.
LEMMA OnlyRoletrns ==
  ASSUME [Next]_vars, NEW p \in Listed(bridge),
         InPassage(port[p], Turns(p)), port[p].roletrns \in DesignatedStates
  PROVE  RoletrnsStep(p) \/ UNCHANGED vars
<1>1. call # "none" /\ running = Machine("roletrns", p) /\ ~NewRole(port[p])
  BY DEF InPassage, Turns, InTurn
<1>2. running \in AllMachines
  BY <1>1, SMT DEF AllMachines, MachineOrder
<1>3. Ready(running)
  <2>1. RoletrnsHop(port[p], bridge, Others(p), "DESIGNATED_PORT")
    BY <1>1 DEF RoletrnsHop, DesignatedStates
  <2> QED
    BY <1>1, <2>1 DEF Ready, Machine, RoletrnsState
<1>4. ASSUME NEW kind, NEW x, NEW q,
             PortMoved(kind, x, q), running' = Machine("roletrns", p)
      PROVE  kind = "roletrns"
  BY <1>4 DEF PortMoved, Machine
<1>5. ASSUME NEW kind, NEW x, NEW q, NEW flags,
             PortMovedAll(kind, x, q, flags), running' = Machine("roletrns", p)
      PROVE  kind = "roletrns" /\ x = p
  BY <1>5 DEF PortMovedAll, Machine
<1>6. ASSUME NEW x, running' = Machine("roletrns", p),
             \/ TransmitStep(x) \/ SttransStep(x) \/ RoletrnsStep(x)
             \/ InfoStep(x) \/ PcostStep(x) \/ BrdgdetStep(x) \/ P2pStep(x)
             \/ MigrateStep(x) \/ TopochStep(x) \/ ReceiveStep(x)
      PROVE  RoletrnsStep(x) /\ x = p
  BY <1>4, <1>5, <1>6
     DEF TransmitStep, SttransStep, RoletrnsStep, InfoStep, PcostStep,
         BrdgdetStep, P2pStep, MigrateStep, TopochStep, ReceiveStep
<1>7. RoleselStep => running' # Machine("roletrns", p)
  BY DEF RoleselStep, RoleselMachine, Machine
<1>8. UpdateReturns => running' # Machine("roletrns", p)
  BY DEF UpdateReturns, NoMachine, Machine
<1> QED
  BY <1>1, <1>2, <1>3, <1>6, <1>7, <1>8, OnlyRunning DEF MachineStep

\* stpm.c, _stp_stpm_init_machine: a port that starts is fresh.
LEMMA StartedHandled ==
  ASSUME NEW q, IsPort(q), NEW b, IsBridge(b)
  PROVE  LET r == Started(q, b) IN
         /\ Placed(r) /\ Outside(r) /\ Fresh(r, {}) /\ InPassage(r, {})
         /\ r.roletrns = "BEGIN" /\ r.info = "BEGIN" /\ r.infoIs = "Disabled"
<1> DEFINE q0 == WithoutRole(PortInit(q, b))
           q1 == TransmitEnter(q0, b, "BEGIN")
           q2 == SttransEnter(q1, "BEGIN")
           q3 == RoletrnsEnter(q2, b, "BEGIN")
           q4 == InfoEnter(q3, b, "BEGIN")
           q5 == PcostEnter(q4, "BEGIN")
           q6 == BrdgdetEnter(q5, "BEGIN")
           q7 == P2pEnter(q6, "BEGIN")
           q8 == MigrateEnter(q7, b, "BEGIN")
           q9 == TopochEnter(q8, b, "BEGIN")
           q10 == ReceiveEnter(q9, "BEGIN")
<1>1. /\ "BEGIN" \in TransmitState /\ "BEGIN" \in SttransState
      /\ "BEGIN" \in RoletrnsState /\ "BEGIN" \in InfoState
      /\ "BEGIN" \in PcostState /\ "BEGIN" \in BrdgdetState
      /\ "BEGIN" \in P2pState /\ "BEGIN" \in MigrateState
      /\ "BEGIN" \in TopochState /\ "BEGIN" \in ReceiveState
  BY DEF TransmitState, SttransState, RoletrnsState, InfoState, PcostState,
         BrdgdetState, P2pState, MigrateState, TopochState, ReceiveState
<1>2. IsPort(q0)
  BY PortInitType, WithoutRoleType
<1>3. IsPort(q1)
  BY <1>1, <1>2, TransmitType
<1>4. IsPort(q2)
  BY <1>1, <1>3, SttransType
<1>5. IsPort(q3)
  BY <1>1, <1>4, RoletrnsType
<1>6. IsPort(q4)
  BY <1>1, <1>5, InfoType
<1>7. IsPort(q5)
  BY <1>1, <1>6, PcostType
<1>8. IsPort(q6)
  BY <1>1, <1>7, BrdgdetType
<1>9. IsPort(q7)
  BY <1>1, <1>8, P2pType
<1>10. IsPort(q8)
  BY <1>1, <1>9, MigrateType
<1>11. IsPort(q9)
  BY <1>1, <1>10, TopochType
<1>12. Started(q, b) = q10
  BY DEF Started, Begin
<1>13. q0.selectedRole = "DisabledPort"
  <2>1. DOMAIN PortInit(q, b) = PortField
    BY PortInitType DEF IsPort
  <2> QED
    BY <2>1, SMT DEF WithoutRole, PortField
<1> HIDE DEF q0, q1, q2, q3, q4, q5, q6, q7, q8, q9, q10
<1>14. q2.selectedRole = "DisabledPort"
  BY <1>1, <1>2, <1>3, <1>13, OthersHandle DEF q1, q2, SameHandling
<1>15. /\ q3.roletrns = "BEGIN" /\ q3.role = "DisabledPort"
       /\ q3.selectedRole = "DisabledPort"
  <2>1. /\ InitPort(q2, b, "BEGIN").roletrns = "BEGIN"
        /\ InitPort(q2, b, "BEGIN").role = "DisabledPort"
        /\ InitPort(q2, b, "BEGIN").selectedRole = q2.selectedRole
    BY <1>4, SMT DEF IsPort, PortField, InitPort
  <2> QED
    BY <1>14, <2>1 DEF q3, RoletrnsEnter
<1>16. /\ q4.roletrns = "BEGIN" /\ q4.role = "DisabledPort"
       /\ q4.selectedRole = "DisabledPort"
       /\ q4.info = "BEGIN" /\ q4.infoIs = "Disabled"
       /\ "selected" \notin q4.on
  <2> DEFINE d == InfoDisabled(q3)
             m == [type |-> "NONE", version |-> q3.msg.version,
                   role |-> "UNKN", flags |-> {},
                   vector |-> q3.msg.vector, times |-> q3.msg.times]
  <2>1. q4 = [d EXCEPT !.info = "BEGIN", !.msgPortRole = "UNKN", !.msg = m]
    BY DEF q4, InfoEnter, InfoBegin
  <2>2. /\ d.infoIs = "Disabled" /\ DOMAIN d = PortField
        /\ d.roletrns = q3.roletrns /\ d.role = q3.role
        /\ d.selectedRole = q3.selectedRole /\ "selected" \notin d.on
    BY <1>5, SMT DEF IsPort, PortField, InfoDisabled
  <2> HIDE DEF d, m
  <2> QED
    BY <1>15, <2>1, <2>2, SMT DEF PortField
<1>17. /\ q5.roletrns = "BEGIN" /\ q5.role = "DisabledPort"
       /\ q5.selectedRole = "DisabledPort" /\ q5.pcost = "BEGIN"
       /\ q5.info = "BEGIN" /\ q5.infoIs = "Disabled"
       /\ "selected" \notin q5.on
  BY <1>6, <1>16, SMT DEF q5, IsPort, PortField, PcostEnter
<1>18. /\ SameHandling(q5, q6) /\ SameHandling(q6, q7)
       /\ SameHandling(q7, q8) /\ SameHandling(q8, q9)
       /\ SameHandling(q9, q10)
  BY <1>1, <1>7, <1>8, <1>9, <1>10, <1>11, OthersHandle
     DEF q6, q7, q8, q9, q10
<1>19. Placed(q5) /\ Outside(q5) /\ Fresh(q5, {}) /\ InPassage(q5, {})
  BY <1>17 DEF Placed, Outside, Fresh, InPassage, FreshStates,
               DesignatedStates
<1> QED
  BY <1>12, <1>17, <1>18, <1>19, HandledSame DEF SameHandling

\* roletrns.c: where each state is entered from.
LEMMA RoletrnsSource ==
  ASSUME NEW q, NEW b, NEW others, NEW to, RoletrnsHop(q, b, others, to)
  PROVE  LET taken == NewRole(q) /\ q.roletrns # "BEGIN" IN
         /\ to # "BEGIN"
         /\ to = "INIT_PORT" => q.roletrns = "BEGIN"
         /\ to = "DISABLE_PORT" =>
              \/ q.roletrns = "INIT_PORT"
              \/ taken /\ q.selectedRole = "DisabledPort"
         /\ to = "BLOCK_PORT" =>
              taken /\ q.selectedRole \in {"AlternatePort", "BackupPort"}
         /\ to = "DISABLED_PORT" =>
              q.roletrns \in {"DISABLE_PORT", "DISABLED_PORT"}
         /\ to \in BlockedStates \ {"BLOCK_PORT"} => q.roletrns \in BlockedStates
         /\ to \in RootStates => q.roletrns = "ROOT_PORT"
         /\ to \in DesignatedStates =>
              q.roletrns = "DESIGNATED_PORT" /\ ~NewRole(q)
         /\ q.roletrns \in DesignatedStates \cup {"DESIGNATED_PORT"} =>
              \/ to \in DesignatedStates \cup {"DESIGNATED_PORT"}
              \/ taken /\ q.selectedRole # "NonStpPort"
<1>1. RoleEntry(q, to) =>
        /\ to \in {"DISABLE_PORT", "BLOCK_PORT", "ROOT_PORT",
                   "DESIGNATED_PORT"}
        /\ q.selectedRole # "NonStpPort"
        /\ to = "DISABLE_PORT" => q.selectedRole = "DisabledPort"
        /\ to = "BLOCK_PORT" =>
             q.selectedRole \in {"AlternatePort", "BackupPort"}
  BY DEF RoleEntry
<1>2. FromRootPort(q, b, others, to) => to \in RootStates \cup {"ROOT_PORT"}
  BY DEF FromRootPort, RootStates
<1>3. FromDesignatedPort(q, to) => to \in DesignatedStates
  BY DEF FromDesignatedPort, DesignatedStates
<1>4. FromAlternatePort(q, b, others, to) =>
        to \in BlockedStates \ {"BLOCK_PORT"}
  BY DEF FromAlternatePort, BlockedStates
<1>5. FromDisabledPort(q, b, to) => to = "DISABLED_PORT"
  BY DEF FromDisabledPort
<1>6. CASE q.roletrns = "BEGIN" /\ to = "INIT_PORT"
  BY <1>6 DEF BlockedStates, RootStates, DesignatedStates
<1>7. CASE q.roletrns # "BEGIN" /\ NewRole(q) /\ RoleEntry(q, to)
  BY <1>1, <1>7 DEF BlockedStates, RootStates, DesignatedStates
<1>8. CASE ~NewRole(q) /\ q.roletrns # "BEGIN"
  BY <1>2, <1>3, <1>4, <1>5, <1>8
     DEF RoletrnsHop, BlockedStates, RootStates, DesignatedStates
<1> QED
  BY <1>6, <1>7, <1>8 DEF RoletrnsHop, RootStates, DesignatedStates

\* roletrns.c: the machine keeps to the states of the role.
LEMMA RoletrnsHandles ==
  ASSUME NEW q, IsPort(q), NEW b, NEW others, NEW turns,
         Placed(q), Outside(q), Fresh(q, turns),
         NEW to \in RoletrnsState, RoletrnsHop(q, b, others, to)
  PROVE  LET r == RoletrnsEnter(q, b, to) IN
         /\ Placed(r) /\ Outside(r)
         /\ Fresh(r, {"roletrns"}) /\ InPassage(r, {"roletrns"})
<1> DEFINE r == RoletrnsEnter(q, b, to)
<1>1. SameInfo(q, r)
  BY RoletrnsSound
<1>2. to # "BEGIN"
  BY RoletrnsSource
<1>3. /\ r.roletrns = to /\ r.pcost = q.pcost
      /\ to \in {"DISABLE_PORT", "BLOCK_PORT"} => r.role = q.selectedRole
      /\ to = "INIT_PORT" => r.role = "DisabledPort"
      /\ to = "ROOT_PORT" => r.role = "RootPort"
      /\ to = "DESIGNATED_PORT" => r.role = "DesignatedPort"
      /\ to \notin {"INIT_PORT", "DISABLE_PORT", "BLOCK_PORT", "ROOT_PORT",
                    "DESIGNATED_PORT"} => r.role = q.role
      /\ to \notin {"INIT_PORT", "DISABLE_PORT", "BLOCK_PORT",
                    "DESIGNATED_DISCARD"} =>
           \A f \in {"learn", "forward"} : f \in q.on => f \in r.on
  BY <1>2, RoletrnsTakes
<1> HIDE DEF r
<1>4. r.selectedRole = q.selectedRole
      /\ r.info = q.info /\ r.infoIs = q.infoIs
      /\ \A f \in {"selected", "updtInfo", "admin_non_stp"} :
           f \in q.on <=> f \in r.on
  BY <1>1 DEF SameInfo
<1>5. Placed(r)
  <2>1. "selected" \in r.on =>
          (r.selectedRole = "NonStpPort" <=> "admin_non_stp" \in r.on)
    BY <1>4 DEF Placed
  <2>2. r.role = "DisabledPort" =>
          to \in FreshStates \cup {"DISABLE_PORT", "DISABLED_PORT"}
    BY <1>3, RoletrnsSource
       DEF Placed, FreshStates, RoletrnsState, RootStates, DesignatedStates,
           BlockedStates
  <2>3. r.role \in {"AlternatePort", "BackupPort"} => to \in BlockedStates
    BY <1>3, RoletrnsSource
       DEF Placed, Fresh, FreshStates, RoletrnsState, RootStates,
           DesignatedStates, BlockedStates
  <2>4. r.role = "RootPort" => to \in RootStates \cup {"ROOT_PORT"}
    BY <1>3, RoletrnsSource
       DEF Placed, Fresh, FreshStates, RoletrnsState, RootStates,
           DesignatedStates, BlockedStates
  <2>5. r.role = "DesignatedPort" =>
          to \in DesignatedStates \cup {"DESIGNATED_PORT"}
    BY <1>3, RoletrnsSource
       DEF Placed, Fresh, FreshStates, RoletrnsState, RootStates,
           DesignatedStates, BlockedStates
  <2> QED
    BY <1>3, <2>1, <2>2, <2>3, <2>4, <2>5 DEF Placed
<1>6. Outside(r)
  <2> SUFFICES ASSUME "admin_non_stp" \in r.on, "selected" \in r.on,
                      to \notin DesignatedStates \cup {"DESIGNATED_PORT"},
                      r.pcost = "STABLE"
               PROVE  {"learn", "forward"} \subseteq r.on
    BY <1>3 DEF Outside
  <2>1. q.roletrns \notin FreshStates /\ q.selectedRole = "NonStpPort"
    BY <1>3, <1>4 DEF Fresh, Placed
  <2>2. /\ q.roletrns \notin DesignatedStates \cup {"DESIGNATED_PORT"}
        /\ to \notin {"INIT_PORT", "DISABLE_PORT", "BLOCK_PORT",
                      "DESIGNATED_DISCARD"}
    BY <2>1, RoletrnsSource DEF FreshStates, DesignatedStates
  <2>3. {"learn", "forward"} \subseteq q.on
    BY <1>3, <1>4, <2>2 DEF Outside
  <2> QED
    BY <1>3, <2>2, <2>3
<1>7. Fresh(r, {"roletrns"})
  <2> SUFFICES ASSUME to \in FreshStates
               PROVE  Fresh(r, {"roletrns"})
    BY <1>3 DEF Fresh
  <2>1. to = "INIT_PORT" /\ q.roletrns = "BEGIN"
    BY <1>2, RoletrnsSource DEF FreshStates
  <2> QED
    BY <1>3, <1>4, <2>1 DEF Fresh, FreshStates
<1>8. InPassage(r, {"roletrns"})
  <2> SUFFICES ASSUME to \in DesignatedStates
               PROVE  ~NewRole(r)
    BY <1>3 DEF InPassage
  <2>1. ~NewRole(q) /\ r.role = q.role
    BY <1>3, RoletrnsSource DEF DesignatedStates
  <2> QED
    BY <1>4, <2>1 DEF NewRole, Settled
<1> QED
  BY <1>5, <1>6, <1>7, <1>8 DEF r

\* rolesel.c: the roles are given so.
LEMMA ElectedHandles ==
  ASSUME NEW q, IsPort(q), NEW b, NEW c, NEW turns,
         Placed(q), Outside(q), Fresh(q, turns), Informed(b, q)
  PROVE  /\ b.rolesel = "BEGIN" =>
              LET r == WithoutRole(q) IN
              Placed(r) /\ Outside(r) /\ Fresh(r, turns)
         /\ LET r == WithRole(c, q) IN
            Placed(r) /\ Outside(r) /\ Fresh(r, turns)
         /\ WithoutRole(q).roletrns = q.roletrns
         /\ WithRole(c, q).roletrns = q.roletrns
<1>1. LET r == WithoutRole(q) IN
      /\ r.roletrns = q.roletrns /\ r.role = q.role /\ r.info = q.info
      /\ r.infoIs = q.infoIs /\ r.pcost = q.pcost /\ r.on = q.on
      /\ r.selectedRole = "DisabledPort"
  BY SMT DEF IsPort, PortField, WithoutRole
<1>2. ASSUME b.rolesel = "BEGIN"
      PROVE  LET r == WithoutRole(q) IN
             Placed(r) /\ Outside(r) /\ Fresh(r, turns)
  <2> DEFINE r == WithoutRole(q)
  <2>1. "selected" \notin r.on
    BY <1>1, <1>2 DEF Informed
  <2> HIDE DEF r
  <2> QED
    BY <1>1, <2>1 DEF Placed, Outside, Fresh, r
<1>3. CASE "admin_non_stp" \in q.on
  <2> DEFINE r == WithoutProtocol(q)
  <2>1. /\ r.roletrns = q.roletrns /\ r.role = "NonStpPort"
        /\ r.info = q.info /\ r.infoIs = q.infoIs /\ r.pcost = q.pcost
        /\ r.selectedRole = "NonStpPort"
        /\ {"admin_non_stp", "learn", "forward", "selected"} \subseteq r.on
    BY <1>3, SMT DEF IsPort, PortField, WithoutProtocol
  <2> HIDE DEF r
  <2>2. Placed(r) /\ Outside(r) /\ Fresh(r, turns)
    BY <1>3, <2>1 DEF Placed, Outside, Fresh
  <2> QED
    BY <1>1, <1>2, <1>3, <2>1, <2>2 DEF WithRole, r
<1>4. CASE "admin_non_stp" \notin q.on
  <2> DEFINE r == WithRole(c, q)
             v == DesignatedVector(c, q)
             role == RoleFor(c, q)
             must == MustUpdate(c, q)
  <2>1. /\ r.roletrns = q.roletrns /\ r.role = q.role
        /\ r.info = q.info /\ r.infoIs = q.infoIs /\ r.pcost = q.pcost
        /\ r.selectedRole = role
        /\ "admin_non_stp" \notin r.on
    <3> HIDE DEF v, role, must
    <3>1. r = [q EXCEPT !.selectedRole = role,
                        !.designatedPriority = v,
                        !.designatedTimes = DesignatedTimes(c),
                        !.on = (q.on \ {"reselect", "updtInfo"})
                                 \cup {"selected"}
                                 \cup Given(must, {"updtInfo"})]
      BY <1>4 DEF WithRole, v, role, must
    <3> HIDE DEF r
    <3> QED
      BY <1>4, <3>1, SMT DEF IsPort, PortField, Given
  <2>2. q.infoIs = "Disabled" => role = "DisabledPort"
    BY <1>4 DEF RoleFor, Offers
  <2>3. role # "NonStpPort"
    <3>1. q.infoIs \in {"Mine", "Aged", "Received", "Disabled"}
      BY DEF IsPort, InfoIs
    <3>2. CASE q.infoIs = "Received"
      <4>1. role = IF c.rootPortId = q.portId THEN "RootPort"
                   ELSE IF Compare(DesignatedVector(c, q), q.portPriority) < 0
                     THEN "DesignatedPort"
                   ELSE IF IsBackup(c, q) THEN "BackupPort"
                   ELSE "AlternatePort"
        BY <1>4, <3>2 DEF RoleFor, Offers
      <4> HIDE DEF role
      <4> QED
        BY <4>1
    <3>3. CASE q.infoIs \in {"Aged", "Mine"}
      BY <1>4, <3>3 DEF RoleFor, Offers
    <3> QED
      BY <2>2, <3>1, <3>2, <3>3
  <2> HIDE DEF r, v, role, must
  <2>3a. q.infoIs = "Disabled" => q.info \in {"BEGIN", "DISABLED"}
    BY DEF Informed
  <2>4. Placed(r) /\ Outside(r)
    BY <2>1, <2>3 DEF Placed, Outside
  <2>5. Fresh(r, turns)
    BY <1>4, <2>1, <2>2, <2>3a DEF Fresh
  <2> QED
    BY <1>1, <1>2, <2>1, <2>4, <2>5 DEF r
<1> QED
  BY <1>3, <1>4

\* The Port Role Transitions machine of the port moved.
RoletrnsMoved(p) ==
  \E to \in RoletrnsState :
    LET r == RoletrnsEnter(port[p], bridge, to) IN
    /\ Ran("roletrns", p) /\ RoletrnsHop(port[p], bridge, Others(p), to)
    /\ port'[p] = [r EXCEPT !.on = r.on \cup RoletrnsBroadcast(to)]

LEMMA MovedHandled ==
  ASSUME TypeOK, NEW p \in Port, Handled(port[p], Turns(p)),
         RoletrnsMoved(p)
  PROVE  Handled(port'[p], Turns(p)')
<1>1. IsPort(port[p]) /\ IsBridge(bridge)
  BY DEF TypeOK
<1>2. Turns(p)' = {"roletrns"}
  BY DEF RoletrnsMoved, Ran, Turn, Turns, InTurn, Machine
<1>3. PICK to \in RoletrnsState :
        LET r == RoletrnsEnter(port[p], bridge, to) IN
        /\ RoletrnsHop(port[p], bridge, Others(p), to)
        /\ port'[p] = [r EXCEPT !.on = r.on \cup RoletrnsBroadcast(to)]
  BY DEF RoletrnsMoved
<1> DEFINE r == RoletrnsEnter(port[p], bridge, to)
<1>4. /\ Placed(r) /\ Outside(r)
      /\ Fresh(r, {"roletrns"}) /\ InPassage(r, {"roletrns"})
  BY <1>1, <1>3, RoletrnsHandles DEF Handled
<1>5. IsPort(r)
  BY <1>1, <1>3, RoletrnsType
<1>6. port'[p] = [r EXCEPT !.on = r.on \cup RoletrnsBroadcast(to)]
  BY <1>3
<1> HIDE DEF r
<1>7. SameHandling(r, port'[p])
  BY <1>5, <1>6, SMT DEF IsPort, PortField, SameHandling, RoletrnsBroadcast
<1> QED
  BY <1>2, <1>4, <1>7, HandledSame DEF Handled

\* What any other step of the bridge leaves of the port.
LEMMA StillHandled ==
  ASSUME TypeOK, NEW p \in Port, Stepped(p), ~Begun(p), ~RoletrnsMoved(p),
         InService(port[p]), PortSound(bridge, port[p]),
         Handled(port[p], Turns(p)),
         call = "none" => port[p].roletrns \notin FreshStates
  PROVE  /\ Placed(port'[p]) /\ Outside(port'[p])
         /\ Fresh(port'[p], Turns(p))
         /\ port'[p].roletrns = port[p].roletrns
         /\ call = "none" \/ ("admin_non_stp" \in port[p].on =>
                                "admin_non_stp" \in port'[p].on)
<1> DEFINE q == port[p]
           r == port'[p]
           Still == /\ Placed(r) /\ Outside(r) /\ Fresh(r, Turns(p))
                    /\ r.roletrns = q.roletrns
                    /\ call = "none" \/ ("admin_non_stp" \in q.on =>
                                           "admin_non_stp" \in r.on)
<1> SUFFICES Still
  OBVIOUS
<1>1. /\ IsPort(q) /\ Placed(q) /\ Outside(q) /\ Fresh(q, Turns(p))
      /\ Informed(bridge, q)
  BY DEF TypeOK, Handled, PortSound
<1>2. SameHandling(q, r) => Still
  BY <1>1, HandledSame DEF SameHandling
<1> HIDE DEF q, r
<1>3. CASE \E to \in InfoState :
             /\ Ran("info", p) /\ InfoHop(q, to)
             /\ r = InfoEnter(q, bridge, to)
  <2>1. PICK to \in InfoState : /\ Ran("info", p) /\ InfoHop(q, to)
                                /\ r = InfoEnter(q, bridge, to)
    BY <1>3
  <2>2. SameGate(q, r)
    BY <1>1, <2>1, InfoSound
  <2>3. /\ r.pcost = q.pcost /\ r.selectedRole = q.selectedRole
        /\ r.info = to
        /\ "admin_non_stp" \in r.on <=> "admin_non_stp" \in q.on
        /\ "selected" \in r.on => "selected" \in q.on
        /\ to \in {"DISABLED", "AGED"} => "selected" \notin r.on
    BY <1>1, <2>1, InfoKept
  <2>4. Placed(r) /\ Outside(r)
    BY <1>1, <2>2, <2>3 DEF SameGate, Placed, Outside
  <2>5. Fresh(r, Turns(p))
    <3> SUFFICES ASSUME q.roletrns \in FreshStates
                 PROVE  Fresh(r, Turns(p))
      BY <2>2 DEF SameGate, Fresh
    <3>1. q.roletrns = "INIT_PORT" /\ "admin_non_stp" \in q.on
      BY <1>1, <2>1, FreshHolds DEF Ran, q
    <3>2. q.info \in {"BEGIN", "DISABLED"} => to \in {"DISABLED", "AGED"}
      BY <2>1 DEF InfoHop
    <3> QED
      BY <1>1, <2>2, <2>3, <3>1, <3>2 DEF SameGate, Fresh
  <2> QED
    BY <2>2, <2>3, <2>4, <2>5 DEF SameGate
<1>4. CASE \E to \in PcostState :
             /\ Ran("pcost", p) /\ PcostHop(q, to)
             /\ r = PcostEnter(q, to)
  <2>1. PICK to \in PcostState : /\ Ran("pcost", p) /\ PcostHop(q, to)
                                 /\ r = PcostEnter(q, to)
    BY <1>4
  <2>2. SameGate(q, r)
    BY <1>1, <2>1, PcostSound
  <2>3. /\ r.pcost = to /\ r.selectedRole = q.selectedRole
        /\ "admin_non_stp" \in r.on <=> "admin_non_stp" \in q.on
        /\ "selected" \in r.on => "selected" \in q.on
        /\ to = "STABLE" => "selected" \notin r.on
    BY <1>1, <2>1, PcostHandles
  <2>4. q.roletrns \notin FreshStates
    BY <1>1, <2>1, FreshHolds DEF Ran, q
  <2> QED
    BY <1>1, <2>2, <2>3, <2>4 DEF SameGate, Placed, Outside, Fresh
<1>5. CASE \/ \E to \in TransmitState : r = TransmitEnter(q, bridge, to)
           \/ \E to \in SttransState : r = SttransEnter(q, to)
           \/ \E to \in BrdgdetState : r = BrdgdetEnter(q, to)
           \/ \E to \in P2pState : r = P2pEnter(q, to)
           \/ \E to \in MigrateState : r = MigrateEnter(q, bridge, to)
           \/ \E to \in TopochState : r = TopochEnter(q, bridge, to)
           \/ \E to \in ReceiveState : r = ReceiveEnter(q, to)
  BY <1>1, <1>2, <1>5, OthersHandle
<1>6. CASE Transited(p)
  BY <1>3, <1>4, <1>5, <1>6 DEF Transited, RoletrnsMoved, q, r
<1>7. CASE Told(p) \/ Ticked(p)
  <2>1. /\ \A flags \in SUBSET {"sync", "reRoot", "tcProp"} :
             SameHandling(q, [q EXCEPT !.on = q.on \cup flags])
        /\ \A timer : SameHandling(q, [q EXCEPT !.timer = timer])
    BY <1>1, SMT DEF IsPort, PortField, SameHandling
  <2> QED
    BY <1>2, <1>7, <2>1 DEF Told, Ticked, q, r
<1>8. CASE Elected(p)
  <2>1. \/ bridge.rolesel = "BEGIN" /\ r = WithoutRole(q)
        \/ \E c : r = WithRole(c, q)
    BY <1>8 DEF Elected, q, r
  <2>2. /\ \A c : "admin_non_stp" \in q.on =>
                    "admin_non_stp" \in WithRole(c, q).on
        /\ WithoutRole(q).on = q.on
    BY <1>1, SMT DEF IsPort, PortField, WithRole, WithoutProtocol,
                     WithoutRole
  <2> QED
    BY <1>1, <2>1, <2>2, ElectedHandles
<1>9. CASE Heard(p)
  <2> DEFINE s == [q EXCEPT !.on = q.on \ {"operEdge"}]
  <2>1. SameHandling(q, s) /\ DOMAIN s = PortField
    BY <1>1, SMT DEF IsPort, PortField, SameHandling
  <2> HIDE DEF s
  <2>2. \A m : SameHandling(s, InfoRxBpdu(s, bridge, m))
    BY <2>1, SMT DEF PortField, InfoRxBpdu, SameHandling
  <2>3. \E m \in Received : r = InfoRxBpdu(s, bridge, m)
    BY <1>9 DEF Heard, s, q, r
  <2> QED
    BY <1>2, <2>1, <2>2, <2>3 DEF SameHandling
<1>10. CASE Asked(p)
  <2>1. /\ r.roletrns = q.roletrns /\ r.role = q.role /\ r.pcost = q.pcost
        /\ "selected" \notin r.on
        /\ q.roletrns \notin FreshStates /\ call = "none"
    BY <1>10 DEF Asked, SameState, q, r
  <2> QED
    BY <1>1, <2>1 DEF Placed, Outside, Fresh
<1>11. CASE Noted(p) \/ PassedOver(p)
  <2>1. SameHandling(q, r)
    BY <1>11 DEF Noted, PassedOver, SameState, SameHandling, Flag, q, r
  <2> QED
    BY <1>2, <2>1
<1> QED
  BY <1>6, <1>7, <1>8, <1>9, <1>10, <1>11 DEF Stepped, q, r

\* Whatever the step was, the port is handled after it.
LEMMA SteppedHandled ==
  ASSUME TypeOK, EveryPortInService, EveryPortSound, EveryPortHandled,
         [Next]_vars, NEW p \in Port, p \in Listed(bridge)'
  PROVE  Handled(port'[p], Turns(p)')
<1>1. CASE UNCHANGED vars
  BY <1>1 DEF EveryPortHandled, vars, Listed, Turns, InTurn
<1> SUFFICES ASSUME ~UNCHANGED vars
             PROVE  Handled(port'[p], Turns(p)')
  BY <1>1
<1>2. \A kind \in Turns(p)' : Turn(Machine(kind, p))
  BY TurnTaken DEF Turns
<1>3. Stepped(p) /\ (p \in Listed(bridge) \/ Begun(p))
  BY PortSteps, SteppedListed
<1>4. CASE Begun(p)
  <2>1. Turns(p)' = {}
    BY <1>2, <1>4 DEF Begun, Turn, Turns
  <2>2. PICK s \in {port[p], NewPort(p)} : port'[p] = Started(s, bridge')
    BY <1>4 DEF Begun
  <2>3. IsPort(s) /\ IsBridge(bridge')
    BY <1>4, NewPortType, InitDataType DEF Begun, BridgeOK, TypeOK
  <2> QED
    BY <2>1, <2>2, <2>3, StartedHandled DEF Handled
<1> SUFFICES ASSUME ~Begun(p), p \in Listed(bridge)
             PROVE  Handled(port'[p], Turns(p)')
  BY <1>3, <1>4
<1>5. /\ Handled(port[p], Turns(p)) /\ PortSound(bridge, port[p])
      /\ InService(port[p]) /\ IsPort(port[p])
      /\ call = "none" => port[p].roletrns \notin FreshStates
  BY DEF EveryPortHandled, EveryPortSound, EveryPortInService, TypeOK
<1>6. CASE RoletrnsMoved(p)
  BY <1>5, <1>6, MovedHandled
<1>7. CASE ~RoletrnsMoved(p)
  <2>1. port[p].roletrns \notin DesignatedStates
    <3>1. RoletrnsStep(p) => RoletrnsMoved(p)
      <4> SUFFICES ASSUME RoletrnsStep(p)
                   PROVE  RoletrnsMoved(p)
        OBVIOUS
      <4>1. PICK to \in RoletrnsState :
              /\ RoletrnsHop(port[p], bridge, Others(p), to)
              /\ LET r == RoletrnsEnter(port[p], bridge, to) IN
                 PortMovedAll("roletrns", p,
                              [r EXCEPT !.on = r.on \cup RoletrnsBroadcast(to)],
                              RoletrnsBroadcast(to))
        BY DEF RoletrnsStep
      <4> QED
        BY <4>1 DEF PortMovedAll, RoletrnsMoved, Ran
    <3> QED
      BY <1>5, <1>7, <3>1, OnlyRoletrns DEF Handled
  <2>2. /\ Placed(port'[p]) /\ Outside(port'[p])
        /\ Fresh(port'[p], Turns(p))
        /\ port'[p].roletrns = port[p].roletrns
        /\ call = "none" \/ ("admin_non_stp" \in port[p].on =>
                               "admin_non_stp" \in port'[p].on)
    BY <1>3, <1>5, <1>7, StillHandled
  <2>3. InPassage(port'[p], Turns(p)')
    BY <2>1, <2>2 DEF InPassage
  <2>4. Fresh(port'[p], Turns(p)')
    <3> SUFFICES ASSUME port[p].roletrns \in FreshStates
                 PROVE  Fresh(port'[p], Turns(p)')
      BY <2>2 DEF Fresh
    <3>1. /\ "pcost" \notin Turns(p)'
          /\ "info" \in Turns(p)' =>
               /\ port[p].roletrns = "INIT_PORT"
               /\ "admin_non_stp" \in port'[p].on
      BY <1>2, <1>5, <2>2, FreshHolds DEF Handled
    <3> QED
      BY <2>2, <3>1 DEF Fresh
  <2> QED
    BY <2>2, <2>3, <2>4 DEF Handled
<1> QED
  BY <1>6, <1>7

(***************************************************************************)
(* Every port is in the states of its role, and only passes through those  *)
(* of a designated port; one that starts holds back the machines after it  *)
(* in the list until it has taken a role (roletrns.c, statmch.c).          *)
(***************************************************************************)
THEOREM AlwaysHandled == Spec => []EveryPortHandled
<1>1. Init => EveryPortHandled
  <2> SUFFICES ASSUME Init, NEW p \in Listed(bridge)
               PROVE  Handled(port[p], Turns(p)) /\ call # "none"
    BY DEF EveryPortHandled
  <2>1. IsBridge(bridge) /\ p \in Port
    BY InitType, ListedPorts DEF TypeOK
  <2>2. port[p] = Started(NewPort(p), bridge)
    BY <2>1 DEF Init, AllStarted
  <2>3. Turns(p) = {} /\ call # "none"
    BY DEF Init, Turns, InTurn, NoMachine, Machine
  <2> QED
    BY <2>1, <2>2, <2>3, NewPortType, StartedHandled DEF Handled
<1>2. TypeOK /\ EveryPortInService /\ EveryPortSound /\ EveryPortHandled
      /\ [Next]_vars /\ TypeOK' => EveryPortHandled'
  <2> SUFFICES ASSUME TypeOK, EveryPortInService, EveryPortSound,
                      EveryPortHandled, [Next]_vars, TypeOK',
                      NEW p \in Listed(bridge)'
               PROVE  /\ Handled(port'[p], Turns(p)')
                      /\ call' = "none" =>
                           /\ port'[p].roletrns \notin FreshStates
                           /\ port'[p].pcost = "STABLE"
    BY DEF EveryPortHandled
  <2>1. p \in Port
    BY ListedPorts DEF TypeOK
  <2>2. Handled(port'[p], Turns(p)')
    BY <2>1, SteppedHandled
  <2>3. ASSUME call' = "none", UpdateReturns
        PROVE  /\ port'[p].roletrns \notin FreshStates
               /\ port'[p].pcost = "STABLE"
    <3>1. port' = port /\ p \in Listed(bridge)
      BY <2>3, ReturnsKeeps
    <3>2. \A to \in PcostState : ~PcostHop(port[p], to)
      BY <2>3, <3>1, ReturnsQuiet
    <3>3. port[p].pcost = "STABLE"
      BY <2>1, <3>2 DEF PcostHop, PcostState, TypeOK, IsPort
    <3> QED
      BY <3>1, <3>3 DEF EveryPortHandled, Handled, Fresh
  <2>4. ASSUME call' = "none", call = "none"
        PROVE  /\ port'[p].roletrns \notin FreshStates
               /\ port'[p].pcost = "STABLE"
    <3>1. Stepped(p)
      BY PortSteps
    <3>2. Asked(p) \/ Noted(p) \/ PassedOver(p)
      BY <2>4, <3>1 DEF Stepped, Transited, Ran, Turn, Told, Elected, Begun,
                        Ticked, Heard
    <3>3. p \in Listed(bridge)
      BY <2>4, <3>1, SteppedListed DEF Begun
    <3> QED
      BY <2>4, <3>2, <3>3 DEF EveryPortHandled, Asked, Noted, SameState,
                              PassedOver
  <2> QED
    BY <2>2, <2>3, <2>4, CallSteps
<1> QED
  BY <1>1, <1>2, TypeCorrect, AlwaysInService, AlwaysSound, PTL DEF Spec

-----------------------------------------------------------------------------
(* What is left to do in the states of a role when an entry point returns. *)

\* ... nothing.
NoHop(q, b, others) ==
  \A to \in RoletrnsState : ~RoletrnsHop(q, b, others, to)

EveryPortDone ==
  AtRest => \A p \in Listed(bridge) : NoHop(port[p], bridge, Others(p))

\* roletrns.c: what the machine reads of its own port ...
SameReads(q, r) ==
  /\ q.roletrns = r.roletrns /\ q.role = r.role
  /\ q.selectedRole = r.selectedRole
  /\ \A t \in {"fdWhile", "rrWhile", "rbWhile"} : q.timer[t] = r.timer[t]
  /\ \A f \in {"sync", "synced", "reRoot", "learn", "learning", "forward",
                "forwarding", "agree", "agreed", "proposed", "proposing",
                "operEdge", "selected", "updtInfo"} : f \in q.on <=> f \in r.on

\* ... and of the others.
LEMMA NoHopSame ==
  ASSUME NEW q, NEW r, SameReads(q, r), NEW b, NEW c,
         c.rootTimes = b.rootTimes, c.rstpVersion = b.rstpVersion,
         NEW s, NEW t, AllSynced(s) <=> AllSynced(t),
         ReRooted(s) <=> ReRooted(t), NoHop(q, b, s)
  PROVE  NoHop(r, c, t)
<1>1. \A f \in {"sync", "synced", "reRoot", "learn", "learning", "forward",
                "forwarding", "agree", "agreed", "proposed", "proposing",
                "operEdge", "selected", "updtInfo"} : f \in q.on <=> f \in r.on
  BY DEF SameReads
<1>2. /\ q.on \cap {"agreed", "operEdge"} = r.on \cap {"agreed", "operEdge"}
      /\ q.on \cap {"learn", "forward"} = r.on \cap {"learn", "forward"}
      /\ q.on \cap {"learning", "forwarding"}
           = r.on \cap {"learning", "forwarding"}
      /\ q.on \cap {"sync", "reRoot"} = r.on \cap {"sync", "reRoot"}
  BY <1>1
<1>3. /\ q.roletrns = r.roletrns /\ q.role = r.role
      /\ q.selectedRole = r.selectedRole
      /\ q.timer["fdWhile"] = r.timer["fdWhile"]
      /\ q.timer["rrWhile"] = r.timer["rrWhile"]
      /\ q.timer["rbWhile"] = r.timer["rbWhile"]
  BY DEF SameReads
<1>4. /\ NewRole(q) <=> NewRole(r)
      /\ Settled(q) <=> Settled(r)
      /\ \A to : RoleEntry(q, to) <=> RoleEntry(r, to)
  BY <1>1, <1>3 DEF NewRole, Settled, RoleEntry
<1>5. \A to : FromRootPort(q, b, s, to) <=> FromRootPort(r, c, t, to)
  BY <1>1, <1>3 DEF FromRootPort
<1>6. \A to : FromAlternatePort(q, b, s, to) <=> FromAlternatePort(r, c, t, to)
  BY <1>1, <1>2, <1>3 DEF FromAlternatePort
<1>7. \A to : FromDisabledPort(q, b, to) <=> FromDisabledPort(r, c, to)
  BY <1>1, <1>2, <1>3 DEF FromDisabledPort
<1>8. /\ MayForward(q) <=> MayForward(r)
      /\ Trusted(q) <=> Trusted(r)
      /\ MustDiscard(q) <=> MustDiscard(r)
  BY <1>1, <1>2, <1>3 DEF MayForward, Trusted, MustDiscard, Retiring
<1>9. \A to : FromDesignatedPort(q, to) <=> FromDesignatedPort(r, to)
  BY <1>1, <1>2, <1>3, <1>8 DEF FromDesignatedPort
<1>10. \A to : RoletrnsHop(r, c, t, to) => RoletrnsHop(q, b, s, to)
  BY <1>2, <1>3, <1>4, <1>5, <1>6, <1>7, <1>9 DEF RoletrnsHop
<1> QED
  BY <1>10 DEF NoHop

(***************************************************************************)
(* When every entry point has returned, no port has a transition left to   *)
(* make in the machine that takes it through its role, although two of     *)
(* its guards look at the other ports (roletrns.c, stp_in.c).              *)
(***************************************************************************)
THEOREM AlwaysDone == Spec => []EveryPortDone
<1>1. Init => EveryPortDone
  BY DEF Init, EveryPortDone, AtRest
<1>2. TypeOK /\ EveryPortInService /\ EveryPortDone /\ [Next]_vars
      => EveryPortDone'
  <2> SUFFICES ASSUME TypeOK, EveryPortInService, EveryPortDone,
                      [Next]_vars, AtRest', NEW p \in Listed(bridge)'
               PROVE  NoHop(port'[p], bridge', Others(p)')
    BY DEF EveryPortDone
  <2>1. CASE UpdateReturns
    <3>1. /\ port' = port /\ Listed(bridge)' = Listed(bridge)
          /\ bridge'.rootTimes = bridge.rootTimes
          /\ bridge'.rstpVersion = bridge.rstpVersion
      BY <2>1, ReturnsKeeps DEF SameRoot
    <3>2. Others(p)' = Others(p)
      BY <3>1 DEF Others
    <3>3. NoHop(port[p], bridge, Others(p))
      BY <2>1, <3>1, ReturnsQuiet DEF NoHop
    <3>4. SameReads(port[p], port'[p])
      BY <3>1 DEF SameReads
    <3> QED
      BY <3>1, <3>2, <3>3, <3>4, NoHopSame
  <2>2. CASE call = "none"
    <3>1. AtRest /\ Listed(bridge)' = Listed(bridge)
      BY <2>2, RestBefore, RestSteps
    <3>2. ASSUME NEW x \in Listed(bridge)
          PROVE  /\ SameReads(port[x], port'[x])
                 /\ bridge'.rootTimes = bridge.rootTimes
                 /\ bridge'.rstpVersion = bridge.rstpVersion
      <4>1. Noted(x) \/ PassedOver(x)
        BY <2>2, <3>1, RestSteps
      <4> QED
        BY <4>1 DEF Noted, PassedOver, SameState, SameRoot, SameReads, Flag
    <3>3. \A x \in Listed(bridge) :
            /\ "synced" \in port[x].on <=> "synced" \in port'[x].on
            /\ port[x].timer["rrWhile"] = port'[x].timer["rrWhile"]
      BY <3>2 DEF SameReads
    <3>4. /\ AllSynced(Others(p)) <=> AllSynced(Others(p)')
          /\ ReRooted(Others(p)) <=> ReRooted(Others(p)')
      BY <3>1, <3>3 DEF AllSynced, ReRooted, Others
    <3>5. NoHop(port[p], bridge, Others(p))
      BY <3>1 DEF EveryPortDone
    <3> QED
      BY <3>1, <3>2, <3>4, <3>5, NoHopSame
  <2> QED
    BY <2>1, <2>2, CallSteps DEF AtRest
<1> QED
  BY <1>1, <1>2, TypeCorrect, AlwaysInService, PTL DEF Spec

\* When an entry point has returned, the port is in the resting state of its
\* role, and does what it was told.
LEMMA RoleAtRest ==
  ASSUME NEW q, IsPort(q), NEW b, NEW others, NoHop(q, b, others),
         Gated(q), PortQuiet(q), Settled(q), Placed(q),
         InPassage(q, {}), q.roletrns \notin FreshStates,
         q.role = q.selectedRole
  PROVE  /\ q.role = "DisabledPort" => q.roletrns = "DISABLED_PORT"
         /\ q.role \in {"AlternatePort", "BackupPort"} =>
              q.roletrns = "ALTERNATE_PORT"
         /\ q.role = "RootPort" => q.roletrns = "ROOT_PORT"
         /\ q.role = "DesignatedPort" => q.roletrns = "DESIGNATED_PORT"
         /\ q.on \cap {"learn", "forward"} = {} =>
              q.on \cap {"learning", "forwarding"} = {}
<1>1. ~NewRole(q)
  BY DEF NewRole
<1>2. q.on \cap {"learn", "forward"} = {} =>
        q.on \cap {"learning", "forwarding"} = {}
  <2> SUFFICES ASSUME "learn" \notin q.on, "forward" \notin q.on
               PROVE  q.on \cap {"learning", "forwarding"} = {}
    OBVIOUS
  <2>1. q.sttrans = "DISCARDING"
    BY DEF PortQuiet, SttransHop, SttransState, IsPort
  <2> QED
    BY <2>1 DEF Gated
<1>3. ASSUME q.role \in {"AlternatePort", "BackupPort", "DisabledPort"}
      PROVE  q.on \cap {"learning", "forwarding"} = {}
  BY <1>2, <1>3 DEF Gated
<1>4. q.role = "DisabledPort" => q.roletrns = "DISABLED_PORT"
  BY <1>1, <1>3
     DEF Placed, FreshStates, NoHop, RoletrnsHop, RoletrnsState
<1>5. q.role \in {"AlternatePort", "BackupPort"} =>
        q.roletrns = "ALTERNATE_PORT"
  BY <1>1, <1>3
     DEF Placed, BlockedStates, NoHop, RoletrnsHop, RoletrnsState
<1>6. q.role = "RootPort" => q.roletrns = "ROOT_PORT"
  BY <1>1 DEF Placed, NoHop, RoletrnsHop, RootStates, RoletrnsState
<1>7. q.role = "DesignatedPort" => q.roletrns = "DESIGNATED_PORT"
  BY DEF Placed, InPassage
<1> QED
  BY <1>2, <1>4, <1>5, <1>6, <1>7

\* roletrns.c: what the resting states leave of a proposal.
LEMMA AnsweredAtRest ==
  ASSUME NEW q, NEW b, NEW others, NoHop(q, b, others), Settled(q),
         q.role = q.selectedRole,
         q.on \cap {"learn", "forward"} = {} =>
           q.on \cap {"learning", "forwarding"} = {}
  PROVE  /\ q.roletrns \in {"ROOT_PORT", "ALTERNATE_PORT"} =>
              /\ "proposed" \notin q.on
              /\ "agree" \in q.on \/ ~AllSynced(others)
         /\ q.roletrns \in {"ALTERNATE_PORT", "DISABLED_PORT",
                            "DESIGNATED_PORT"} => "sync" \notin q.on
<1>1. ~NewRole(q)
  BY DEF NewRole
<1>2. q.roletrns = "ROOT_PORT" =>
        \A to \in RoletrnsState : ~FromRootPort(q, b, others, to)
  BY <1>1 DEF NoHop, RoletrnsHop
<1>3. q.roletrns = "ALTERNATE_PORT" =>
        \A to \in RoletrnsState : ~FromAlternatePort(q, b, others, to)
  BY <1>1 DEF NoHop, RoletrnsHop
<1>4. q.roletrns = "DISABLED_PORT" =>
        \A to \in RoletrnsState : ~FromDisabledPort(q, b, to)
  BY <1>1 DEF NoHop, RoletrnsHop
<1>5. q.roletrns = "DESIGNATED_PORT" =>
        \A to \in RoletrnsState : ~FromDesignatedPort(q, to)
  BY <1>1 DEF NoHop, RoletrnsHop
<1>6. q.roletrns = "ROOT_PORT" =>
        "proposed" \notin q.on /\ ("agree" \in q.on \/ ~AllSynced(others))
  BY <1>2 DEF FromRootPort, RoletrnsState
<1>7. q.roletrns = "ALTERNATE_PORT" =>
        /\ "proposed" \notin q.on /\ "sync" \notin q.on
        /\ "agree" \in q.on \/ ~AllSynced(others)
  BY <1>3 DEF FromAlternatePort, RoletrnsState
<1>8. q.roletrns = "DISABLED_PORT" => "sync" \notin q.on
  BY <1>4 DEF FromDisabledPort, RoletrnsState
<1>9. q.roletrns = "DESIGNATED_PORT" => "sync" \notin q.on
  <2> SUFFICES ASSUME q.roletrns = "DESIGNATED_PORT", "sync" \in q.on
               PROVE  FALSE
    OBVIOUS
  <2>1. \A to \in RoletrnsState : ~FromDesignatedPort(q, to)
    BY <1>5
  <2>2. /\ "synced" \notin q.on /\ ~Trusted(q)
        /\ q.on \cap {"learning", "forwarding"} # {}
    BY <2>1 DEF FromDesignatedPort, RoletrnsState
  <2>3. ~MustDiscard(q)
    BY <2>1, <2>2 DEF FromDesignatedPort, RoletrnsState, MayForward
  <2>4. "operEdge" \notin q.on
    BY <2>2 DEF Trusted
  <2>5. q.on \cap {"learn", "forward"} = {}
    BY <2>2, <2>3, <2>4 DEF MustDiscard
  <2> QED
    BY <2>2, <2>5
<1> QED
  BY <1>6, <1>7, <1>8, <1>9

\* What holds of every port when all entry points have returned.
LEMMA PortAtRest ==
  ASSUME TypeOK, EveryPortSound, EveryPortQuiet, EveryPortHandled,
         EveryPortDone, RolesSettled, AtRest, NEW p \in Listed(bridge)
  PROVE  LET q == port[p] IN
         /\ IsPort(q) /\ Gated(q) /\ PortQuiet(q) /\ Settled(q)
         /\ Placed(q) /\ Outside(q) /\ InPassage(q, {})
         /\ q.roletrns \notin FreshStates /\ q.pcost = "STABLE"
         /\ NoHop(q, bridge, Others(p))
         /\ q.role = q.selectedRole \/ q.selectedRole = "NonStpPort"
<1>1. call = "none" /\ Turns(p) = {}
  BY DEF AtRest, Turns, InTurn
<1> QED
  BY <1>1, ListedPorts
     DEF TypeOK, EveryPortSound, PortSound, EveryPortQuiet, EveryPortHandled,
         Handled, EveryPortDone, RolesSettled

(***************************************************************************)
(* The handshake is never left half done when an entry point returns: a    *)
(* proposal has been taken up, every port that was told to synchronise     *)
(* discards or is trusted, and a root, alternate or backup port agrees     *)
(* unless another port has not synchronised yet (roletrns.c, sttrans.c).   *)
(***************************************************************************)
THEOREM AlwaysAnswered == Spec => []ProposalAnswered
<1>1. TypeOK /\ EveryPortSound /\ EveryPortQuiet /\ EveryPortHandled
      /\ EveryPortDone /\ RolesSettled => ProposalAnswered
  <2> SUFFICES ASSUME TypeOK, EveryPortSound, EveryPortQuiet,
                      EveryPortHandled, EveryPortDone, RolesSettled, AtRest,
                      NEW p \in Listed(bridge), Stp(p)
               PROVE  /\ port[p].role \in {"RootPort", "AlternatePort",
                                           "BackupPort"} =>
                           /\ ~On(p, "proposed")
                           /\ On(p, "agree") \/ ~AllSynced(Others(p))
                      /\ port[p].role # "RootPort" => ~On(p, "sync")
    BY DEF ProposalAnswered
  <2> DEFINE q == port[p]
  <2>1. /\ IsPort(q) /\ Gated(q) /\ PortQuiet(q) /\ Settled(q)
        /\ Placed(q) /\ InPassage(q, {}) /\ q.roletrns \notin FreshStates
        /\ NoHop(q, bridge, Others(p))
        /\ q.role = q.selectedRole \/ q.selectedRole = "NonStpPort"
    BY PortAtRest
  <2>2. "admin_non_stp" \notin q.on
    BY DEF Stp, On
  <2> HIDE DEF q
  <2>3. q.role = q.selectedRole /\ q.role # "NonStpPort"
    BY <2>1, <2>2 DEF Settled, Placed
  <2>4. /\ q.role = "DisabledPort" => q.roletrns = "DISABLED_PORT"
        /\ q.role \in {"AlternatePort", "BackupPort"} =>
             q.roletrns = "ALTERNATE_PORT"
        /\ q.role = "RootPort" => q.roletrns = "ROOT_PORT"
        /\ q.role = "DesignatedPort" => q.roletrns = "DESIGNATED_PORT"
        /\ q.on \cap {"learn", "forward"} = {} =>
             q.on \cap {"learning", "forwarding"} = {}
    BY <2>1, <2>3, RoleAtRest
  <2>5. /\ q.roletrns \in {"ROOT_PORT", "ALTERNATE_PORT"} =>
             /\ "proposed" \notin q.on
             /\ "agree" \in q.on \/ ~AllSynced(Others(p))
        /\ q.roletrns \in {"ALTERNATE_PORT", "DISABLED_PORT",
                           "DESIGNATED_PORT"} => "sync" \notin q.on
    BY <2>1, <2>3, <2>4, AnsweredAtRest
  <2>6. q.role \in {"DisabledPort", "AlternatePort", "BackupPort",
                    "RootPort", "DesignatedPort"}
    BY <2>1, <2>3 DEF IsPort, PortRole
  <2> QED
    BY <2>4, <2>5, <2>6 DEF On, q
<1> QED
  BY <1>1, TypeCorrect, AlwaysSound, AlwaysQuiet, AlwaysHandled, AlwaysDone,
     RolesAlwaysSettled, PTL

(***************************************************************************)
(* A port outside the protocol forwards, unless it was taken out of it     *)
(* while it was designated: the role transition machine never takes        *)
(* learning or forwarding from it after the selection that gave them       *)
(* (roletrns.c, rolesel.c, pcost.c).                                       *)
(***************************************************************************)
THEOREM NonStpAlwaysForwards == Spec => []NonStpForwards
<1>1. TypeOK /\ EveryPortSound /\ EveryPortQuiet /\ EveryPortHandled
      /\ EveryPortDone /\ RolesSettled => NonStpForwards
  <2> SUFFICES ASSUME TypeOK, EveryPortSound, EveryPortQuiet,
                      EveryPortHandled, EveryPortDone, RolesSettled, AtRest,
                      NEW p \in Listed(bridge), ~Stp(p),
                      port[p].roletrns # "DESIGNATED_PORT"
               PROVE  On(p, "forwarding")
    BY DEF NonStpForwards
  <2> DEFINE q == port[p]
  <2>1. /\ IsPort(q) /\ Gated(q) /\ PortQuiet(q) /\ Settled(q)
        /\ Outside(q) /\ InPassage(q, {}) /\ q.pcost = "STABLE"
    BY PortAtRest
  <2>2. "admin_non_stp" \in q.on /\ q.roletrns # "DESIGNATED_PORT"
    BY DEF Stp, On
  <2> HIDE DEF q
  <2>3. q.roletrns \notin DesignatedStates
    BY <2>1 DEF InPassage
  <2>4. "learn" \in q.on /\ "forward" \in q.on
    BY <2>1, <2>2, <2>3 DEF Settled, Outside
  <2>5. q.sttrans = "FORWARDING"
    BY <2>1, <2>4 DEF PortQuiet, SttransHop, SttransState, IsPort
  <2> QED
    BY <2>1, <2>5 DEF Gated, On, q
<1> QED
  BY <1>1, TypeCorrect, AlwaysSound, AlwaysQuiet, AlwaysHandled, AlwaysDone,
     RolesAlwaysSettled, PTL

-----------------------------------------------------------------------------
(* No topology change is ever noticed (topoch.c).                          *)

\* The machine of the port waits for the flush, and nothing is under way.
NoChange(q) ==
  /\ q.topoch \in {"BEGIN", "INACTIVE"}
  /\ "fbdFlush" \in q.on /\ "tcAck" \notin q.on
  /\ q.timer["tcWhile"] = 0

EveryPortUnchanged == \A p \in Listed(bridge) : NoChange(port[p])

\* q and r tell the same of a topology change.
SameChange(q, r) ==
  /\ r.topoch = q.topoch
  /\ "fbdFlush" \in q.on => "fbdFlush" \in r.on
  /\ "tcAck" \in r.on => "tcAck" \in q.on
  /\ r.timer["tcWhile"] = q.timer["tcWhile"]

LEMMA NoChangeSame ==
  ASSUME NEW q, NEW r, SameChange(q, r), NoChange(q)
  PROVE  NoChange(r)
BY DEF SameChange, NoChange

\* No machine but its own has a part in it.
LEMMA OthersSameChange ==
  ASSUME NEW q, IsPort(q), NEW b
  PROVE  /\ \A to \in TransmitState : SameChange(q, TransmitEnter(q, b, to))
         /\ \A to \in SttransState : SameChange(q, SttransEnter(q, to))
         /\ \A to \in PcostState : SameChange(q, PcostEnter(q, to))
         /\ \A to \in BrdgdetState : SameChange(q, BrdgdetEnter(q, to))
         /\ \A to \in P2pState : SameChange(q, P2pEnter(q, to))
         /\ \A to \in MigrateState : SameChange(q, MigrateEnter(q, b, to))
         /\ \A to \in ReceiveState : SameChange(q, ReceiveEnter(q, to))
<1> USE DEF IsPort, PortField, Timer, SameChange
<1>1. ASSUME NEW to \in TransmitState
      PROVE  SameChange(q, TransmitEnter(q, b, to))
  BY <1>1, SMT DEF TransmitEnter, TransmitState, Given
<1>2. ASSUME NEW to \in SttransState
      PROVE  SameChange(q, SttransEnter(q, to))
  BY <1>2, SMT DEF SttransEnter, SttransState
<1>3. ASSUME NEW to \in PcostState
      PROVE  SameChange(q, PcostEnter(q, to))
  BY <1>3, SMT DEF PcostEnter, PcostState
<1>4. ASSUME NEW to \in BrdgdetState
      PROVE  SameChange(q, BrdgdetEnter(q, to))
  BY <1>4, SMT DEF BrdgdetEnter, BrdgdetState
<1>5. ASSUME NEW to \in P2pState
      PROVE  SameChange(q, P2pEnter(q, to))
  BY <1>5, SMT DEF P2pEnter, P2pState, Given
<1>6. ASSUME NEW to \in MigrateState
      PROVE  SameChange(q, MigrateEnter(q, b, to))
  BY <1>6, SMT DEF MigrateEnter, MigrateState, Given
<1>7. ASSUME NEW to \in ReceiveState
      PROVE  SameChange(q, ReceiveEnter(q, to))
  BY <1>7, SMT DEF ReceiveEnter, BpduVersion, Given
<1> QED
  BY <1>1, <1>2, <1>3, <1>4, <1>5, <1>6, <1>7

\* portinfo.c notes that a neighbour told of a change, and no more.
LEMMA InfoSameChange ==
  ASSUME NEW q, IsPort(q), NEW b, NEW to \in InfoState
  PROVE  SameChange(q, InfoEnter(q, b, to))
<1> DEFINE Same(r) == SameChange(q, r)
<1>1. DOMAIN q = PortField /\ DOMAIN q.timer = Timer
  BY DEF IsPort
<1>2. Same(InfoBegin(q)) /\ Same(InfoDisabled(q)) /\ Same(InfoAged(q))
  BY <1>1, SMT DEF PortField, Timer, SameChange, InfoBegin, InfoDisabled,
                   InfoAged
<1>3. Same(InfoUpdate(q)) /\ Same(InfoReceive(q))
  BY <1>1, SMT DEF PortField, SameChange, InfoUpdate, InfoReceive, Given
<1>4. "fbdFlush" \notin TcFlags(q) /\ "tcAck" \notin TcFlags(q)
  BY DEF TcFlags, Given
<1>5. "tcAck" \notin Proposal(q)
  BY DEF Proposal, Given
<1>6. Same(InfoSuperior(q)) /\ Same(InfoRepeated(q))
  BY <1>1, <1>4, <1>5, SMT DEF PortField, Timer, SameChange, InfoSuperior,
                               InfoRepeated, Given
<1>7. Same(InfoInferior(q)) /\ Same(InfoNotDesignated(q, b))
  BY <1>1, <1>4, SMT DEF PortField, SameChange, InfoInferior,
                         InfoNotDesignated, Given
<1>8. /\ Same([q EXCEPT !.info = "CURRENT"])
      /\ Same([q EXCEPT !.info = "OTHER", !.on = q.on \ {"rcvdMsg"}])
  BY <1>1, SMT DEF PortField, SameChange
<1> HIDE DEF Same
<1>9. Same(InfoEnter(q, b, to))
  BY <1>2, <1>3, <1>6, <1>7, <1>8, Zenon DEF InfoEnter, InfoState
<1> QED
  BY <1>9 DEF Same

\* roletrns.c, with the flags it raises on the port itself.
LEMMA RoletrnsSameChange ==
  ASSUME NEW q, IsPort(q), NEW b, NEW to \in RoletrnsState
  PROVE  /\ SameChange(q, RoletrnsEnter(q, b, to))
         /\ LET s == RoletrnsEnter(q, b, to) IN
            SameChange(q, [s EXCEPT !.on = s.on \cup RoletrnsBroadcast(to)])
<1> DEFINE Same(r) == SameChange(q, r) /\ DOMAIN r = PortField
                      /\ DOMAIN r.timer = Timer
           Go(off, set) == Moved(q, to, off, set)
           Off == {"proposed", "sync", "reRoot", "agreed", "learn", "forward"}
           Set == {"agree", "newInfo", "learn", "forward", "proposing",
                   "agreed", "synced"}
<1>1. Same(q)
  BY DEF IsPort, SameChange
<1>2. ASSUME NEW off \in SUBSET Off, NEW set \in SUBSET Set
      PROVE  Same(Go(off, set))
  BY <1>1, <1>2, SMT DEF PortField, SameChange, Moved
<1>3. ASSUME NEW r, Same(r), NEW t \in Timer \ {"tcWhile"}, NEW n
      PROVE  Same(Timed(r, t, n))
  BY <1>3, SMT DEF PortField, SameChange, Timed, Timer
<1>4. Same(InitPort(q, b, to)) /\ Same(TakeRole(q, to))
  BY <1>1, SMT DEF PortField, Timer, SameChange, InitPort, TakeRole
<1>5. ASSUME NEW n
      PROVE  Same(Retired(q, to, n))
  BY <1>1, SMT DEF PortField, Timer, SameChange, Retired
<1>6. ASSUME NEW r, Same(r), NEW role
      PROVE  Same([r EXCEPT !.roletrns = to, !.role = role])
  BY <1>6, SMT DEF PortField, SameChange
<1>7. Given("sendRSTP" \in q.on, {"agreed"}) \in SUBSET Set
  BY DEF Given
<1>8. /\ {"rrWhile", "fdWhile", "edgeDelayWhile", "rbWhile"}
           \subseteq Timer \ {"tcWhile"}
      /\ \A x \in SUBSET Set : {"forward"} \cup x \in SUBSET Set
      /\ \A x \in Off : {x} \in SUBSET Off
      /\ \A x \in Set : {x} \in SUBSET Set
      /\ {} \in SUBSET Off /\ {} \in SUBSET Set
      /\ {"proposed", "sync"} \in SUBSET Off
      /\ {"learn", "forward"} \in SUBSET Off
      /\ {"agree", "newInfo"} \in SUBSET Set
      /\ {"proposing", "newInfo"} \in SUBSET Set
  BY DEF Timer
<1> DEFINE s == RoletrnsEnter(q, b, to)
<1>9. Same(s)
  <2>1. CASE to \in {"BEGIN", "INIT_PORT", "DISABLE_PORT", "BLOCK_PORT",
                     "DISABLED_PORT", "ALTERNATE_PORT"}
    <3> HIDE DEF Same
    <3> QED
      BY <1>4, <1>5, <2>1 DEF RoletrnsEnter
  <2>2. CASE to \in {"ROOT_PORT", "DESIGNATED_PORT"}
    <3>1. Same(Timed(q, "rrWhile", b.rootTimes.ForwardDelay))
      BY <1>1, <1>3, <1>8
    <3> HIDE DEF Same
    <3> QED
      BY <1>1, <1>6, <2>2, <3>1 DEF RoletrnsEnter
  <2>3. ASSUME to \notin {"BEGIN", "INIT_PORT", "DISABLE_PORT", "BLOCK_PORT",
                          "DISABLED_PORT", "ALTERNATE_PORT", "ROOT_PORT",
                          "DESIGNATED_PORT"}
        PROVE  Same(s)
    <3>1. \/ s \in {Go({"proposed"}, {}), Go({}, {}), Go({"reRoot"}, {}),
                   Go({"proposed", "sync"}, {"agree", "newInfo"}),
                   Go({"proposed"}, {"agree", "newInfo"})}
          \/ \E t \in {"rrWhile", "fdWhile", "edgeDelayWhile", "rbWhile"} : \E n :
               \/ s = Timed(Go({}, {"forward"}), t, n)
               \/ s = Timed(Go({}, {"learn"}), t, n)
               \/ s = Timed(Go({}, {"proposing", "newInfo"}), t, n)
               \/ s = Timed(Go({"agreed"},
                              {"forward"} \cup
                                Given("sendRSTP" \in q.on, {"agreed"})), t, n)
               \/ s = Timed(Go({"sync"}, {"synced"}), t, n)
               \/ s = Timed(Go({"learn", "forward"}, {}), t, n)
               \/ s = Timed(Go({}, {}), t, n)
      <4> HIDE DEF Go
      <4>1. CASE to \in {"ROOT_PROPOSED", "ALTERNATE_PROPOSED", "REROOT",
                         "ROOT_AGREED", "ALTERNATE_AGREED", "REROOTED",
                         "DESIGNATED_RETIRED"}
        BY <4>1 DEF RoletrnsEnter, Go
      <4>2. CASE to \in {"ROOT_FORWARD", "DESIGNATED_FORWARD"}
        BY <4>2 DEF RoletrnsEnter, Go
      <4>3. CASE to \in {"ROOT_LEARN", "DESIGNATED_LEARN"}
        BY <4>3 DEF RoletrnsEnter, Go
      <4>4. CASE to \in {"DESIGNATED_PROPOSE", "DESIGNATED_SYNCED"}
        BY <4>4 DEF RoletrnsEnter, Go
      <4>5. CASE to \in {"DESIGNATED_DISCARD", "BACKUP_PORT"}
        BY <4>5 DEF RoletrnsEnter, Go
      <4> QED
        BY <2>3, <4>1, <4>2, <4>3, <4>4, <4>5 DEF RoletrnsState
    <3> HIDE DEF s, Same, Off, Set
    <3> QED
      BY <1>2, <1>3, <1>7, <1>8, <3>1 DEF Off, Set
  <2> QED
    BY <2>1, <2>2, <2>3
<1> HIDE DEF s
<1>10. [s EXCEPT !.on = s.on \cup RoletrnsBroadcast(to)].topoch = s.topoch
  BY <1>9, SMT DEF PortField
<1>11. SameChange(q, [s EXCEPT !.on = s.on \cup RoletrnsBroadcast(to)])
  BY <1>9, SMT DEF PortField, SameChange, RoletrnsBroadcast
<1> QED
  BY <1>9, <1>11 DEF s

\* topoch.c: while the flush is awaited, INACTIVE is the only state entered.
LEMMA TopochUnmoved ==
  ASSUME NEW q, IsPort(q), NEW b, NEW to \in TopochState,
         to = "BEGIN" \/ (NoChange(q) /\ TopochHop(q, to))
  PROVE  NoChange(TopochEnter(q, b, to)) /\ TopochBroadcast(to) = {}
<1>1. to \in {"BEGIN", "INACTIVE"}
  BY DEF NoChange, TopochHop
<1>2. NoChange(TopochEnter(q, b, to))
  BY <1>1, SMT DEF IsPort, PortField, Timer, NoChange, TopochEnter, Inactive
<1> QED
  BY <1>1, <1>2 DEF TopochBroadcast, Given

\* stpm.c: every port begins to wait.
LEMMA StartedNoChange ==
  ASSUME NEW q, IsPort(q), NEW b, IsBridge(b)
  PROVE  NoChange(Started(q, b))
<1> DEFINE q0 == WithoutRole(PortInit(q, b))
           q1 == TransmitEnter(q0, b, "BEGIN")
           q2 == SttransEnter(q1, "BEGIN")
           q3 == RoletrnsEnter(q2, b, "BEGIN")
           q4 == InfoEnter(q3, b, "BEGIN")
           q5 == PcostEnter(q4, "BEGIN")
           q6 == BrdgdetEnter(q5, "BEGIN")
           q7 == P2pEnter(q6, "BEGIN")
           q8 == MigrateEnter(q7, b, "BEGIN")
           q9 == TopochEnter(q8, b, "BEGIN")
           q10 == ReceiveEnter(q9, "BEGIN")
<1>1. /\ "BEGIN" \in TransmitState /\ "BEGIN" \in SttransState
      /\ "BEGIN" \in RoletrnsState /\ "BEGIN" \in InfoState
      /\ "BEGIN" \in PcostState /\ "BEGIN" \in BrdgdetState
      /\ "BEGIN" \in P2pState /\ "BEGIN" \in MigrateState
      /\ "BEGIN" \in TopochState /\ "BEGIN" \in ReceiveState
  BY DEF TransmitState, SttransState, RoletrnsState, InfoState, PcostState,
         BrdgdetState, P2pState, MigrateState, TopochState, ReceiveState
<1>2. IsPort(q0)
  BY PortInitType, WithoutRoleType
<1>12. Started(q, b) = q10
  BY DEF Started, Begin
<1> HIDE DEF q0
<1>3. IsPort(q3)
  BY <1>1, <1>2, TransmitType, SttransType, RoletrnsType
<1> HIDE DEF q3
<1>4. IsPort(q6)
  BY <1>1, <1>3, InfoType, PcostType, BrdgdetType
<1> HIDE DEF q6
<1>5. IsPort(q8)
  BY <1>1, <1>4, P2pType, MigrateType
<1> HIDE DEF q8
<1>6. NoChange(q9) /\ IsPort(q9)
  BY <1>1, <1>5, TopochUnmoved, TopochType
<1> HIDE DEF q9
<1>7. NoChange(q10)
  BY <1>1, <1>6, OthersSameChange, NoChangeSame
<1> QED
  BY <1>7, <1>12

\* Whatever the step was, nothing is under way on the port after it.
LEMMA SteppedNoChange ==
  ASSUME TypeOK, NEW p \in Port, Stepped(p),
         p \in Listed(bridge) => NoChange(port[p]),
         p \in Listed(bridge) \/ Begun(p)
  PROVE  NoChange(port'[p])
<1> DEFINE q == port[p]
           r == port'[p]
<1>1. IsPort(q) /\ IsBridge(bridge)
  BY DEF TypeOK
<1>2. CASE Begun(p)
  <2>1. PICK b : BridgeOK(b) /\ bridge' = InitData(b)
    BY <1>2 DEF Begun
  <2>2. IsBridge(bridge')
    BY <2>1, InitDataType DEF BridgeOK
  <2>3. PICK s \in {q, NewPort(p)} : r = Started(s, bridge')
    BY <1>2 DEF Begun
  <2>4. IsPort(s)
    BY <1>1, NewPortType
  <2> QED
    BY <2>2, <2>3, <2>4, StartedNoChange
<1> SUFFICES ASSUME ~Begun(p), NoChange(q)
             PROVE  NoChange(r)
  BY <1>2
<1>3. CASE Transited(p)
  <2> HIDE DEF q, r
  <2>1. ASSUME \/ \E to \in TransmitState : r = TransmitEnter(q, bridge, to)
               \/ \E to \in SttransState : r = SttransEnter(q, to)
               \/ \E to \in PcostState : r = PcostEnter(q, to)
               \/ \E to \in BrdgdetState : r = BrdgdetEnter(q, to)
               \/ \E to \in P2pState : r = P2pEnter(q, to)
               \/ \E to \in MigrateState : r = MigrateEnter(q, bridge, to)
               \/ \E to \in ReceiveState : r = ReceiveEnter(q, to)
        PROVE  NoChange(r)
    BY <1>1, <2>1, OthersSameChange, NoChangeSame
  <2>2. ASSUME NEW to \in InfoState, r = InfoEnter(q, bridge, to)
        PROVE  NoChange(r)
    BY <1>1, <2>2, InfoSameChange, NoChangeSame
  <2>3. ASSUME NEW to \in RoletrnsState,
               LET s == RoletrnsEnter(q, bridge, to) IN
               r = [s EXCEPT !.on = s.on \cup RoletrnsBroadcast(to)]
        PROVE  NoChange(r)
    BY <1>1, <2>3, RoletrnsSameChange, NoChangeSame
  <2>4. ASSUME NEW to \in TopochState, TopochHop(q, to),
               r = TopochEnter(q, bridge, to)
        PROVE  NoChange(r)
    BY <1>1, <2>4, TopochUnmoved
  <2> QED
    BY <1>3, <2>1, <2>2, <2>3, <2>4 DEF Transited, q, r
<1>4. CASE Told(p)
  <2>1. PICK flags \in SUBSET {"sync", "reRoot", "tcProp"} :
          r = [q EXCEPT !.on = q.on \cup flags]
    BY <1>4 DEF Told
  <2> HIDE DEF q, r
  <2>2. SameChange(q, r)
    BY <1>1, <2>1, SMT DEF IsPort, PortField, SameChange
  <2> QED
    BY <2>2, NoChangeSame
<1>5. CASE Elected(p)
  <2>1. \A b : SameChange(q, WithRole(b, q))
    BY <1>1, SMT DEF IsPort, PortField, SameChange, WithRole,
                     WithoutProtocol, Given
  <2>2. SameChange(q, WithoutRole(q))
    BY <1>1, SMT DEF IsPort, PortField, SameChange, WithoutRole
  <2> QED
    BY <1>5, <2>1, <2>2, NoChangeSame DEF Elected
<1>6. CASE Ticked(p)
  <2> HIDE DEF q
  <2>1. NoChange([q EXCEPT !.timer = CountDown(q.timer)])
    BY <1>1, SMT DEF IsPort, PortField, Timer, NoChange, CountDown
  <2> QED
    BY <1>6, <2>1 DEF Ticked, q
<1>7. CASE Heard(p)
  <2>1. PICK m \in Received :
          r = InfoRxBpdu([q EXCEPT !.on = q.on \ {"operEdge"}], bridge, m)
    BY <1>7 DEF Heard
  <2> DEFINE e == [q EXCEPT !.on = q.on \ {"operEdge"}]
  <2> HIDE DEF q, r
  <2>2. SameChange(q, e) /\ DOMAIN e = PortField
    BY <1>1, SMT DEF IsPort, PortField, SameChange
  <2> HIDE DEF e
  <2>3. SameChange(e, InfoRxBpdu(e, bridge, m))
    BY <2>2, SMT DEF PortField, SameChange, InfoRxBpdu
  <2> QED
    BY <2>1, <2>2, <2>3, NoChangeSame DEF e
<1>8. CASE Asked(p) \/ Noted(p)
  <2>1. SameState(q, r)
    BY <1>8 DEF Asked, Noted
  <2> QED
    BY <2>1 DEF SameState, NoChange, Settable, Flag
<1>9. CASE PassedOver(p)
  BY <1>9 DEF PassedOver
<1> QED
  BY <1>3, <1>4, <1>5, <1>6, <1>7, <1>8, <1>9 DEF Stepped

\* What is sent tells of no change.
SentUnchanged ==
  sent.bpdu.type \in {"RSTP", "CONFIG"} =>
    sent.bpdu.flags \cap {"TOPOLOGY_CHANGE", "TOPOLOGY_CHANGE_ACK"} = {}

LEMMA TxUnchanged ==
  ASSUME NEW q, NoChange(q), NEW to,
         TxBpdu(q, to).type \in {"RSTP", "CONFIG"}
  PROVE  TxBpdu(q, to).flags
           \cap {"TOPOLOGY_CHANGE", "TOPOLOGY_CHANGE_ACK"} = {}
<1>1. TopologyFlags(q) = {} /\ "tcAck" \notin q.on
  BY DEF NoChange, TopologyFlags, Given
<1>2. RstpFlags(q) \cap {"TOPOLOGY_CHANGE", "TOPOLOGY_CHANGE_ACK"} = {}
  BY <1>1 DEF RstpFlags, Given
<1>3. ConfigFlags(q) = {}
  BY <1>1 DEF ConfigFlags, Given
<1>4. to \in {"TRANSMIT_RSTP", "TRANSMIT_CONFIG"}
       /\ "admin_non_stp" \notin q.on
  BY SMT DEF TxBpdu, NoBpdu
<1> QED
  BY <1>2, <1>3, <1>4, SMT DEF TxBpdu, Carrying

\* Every step sends what the transmit machine of a port says, or nothing.
LEMMA SentSteps ==
  ASSUME [Next]_vars, EveryPortUnchanged, SentUnchanged
  PROVE  SentUnchanged'
<1>1. sent' = Silent => SentUnchanged'
  <2>1. Silent.bpdu.type = "NONE"
    BY DEF Silent, NoBpdu
  <2> QED
    BY <2>1 DEF SentUnchanged
<1>2. ASSUME NEW p \in Listed(bridge), TransmitStep(p)
      PROVE  SentUnchanged'
  <2>1. PICK to \in TransmitState :
          sent' = IF TxBpdu(port[p], to) = NoBpdu THEN Silent
                  ELSE [port |-> p, bpdu |-> TxBpdu(port[p], to)]
    BY <1>2 DEF TransmitStep
  <2>2. CASE sent' = [port |-> p, bpdu |-> TxBpdu(port[p], to)]
    <3>1. sent'.bpdu = TxBpdu(port[p], to)
      BY <2>2
    <3> QED
      BY <3>1, TxUnchanged DEF SentUnchanged, EveryPortUnchanged
  <2> QED
    BY <1>1, <2>1, <2>2
<1>3. CASE UNCHANGED sent
  BY <1>3 DEF SentUnchanged
<1>4. ASSUME NEW p \in Listed(bridge),
             \/ SttransStep(p) \/ RoletrnsStep(p) \/ InfoStep(p)
             \/ PcostStep(p) \/ BrdgdetStep(p) \/ P2pStep(p)
             \/ MigrateStep(p) \/ TopochStep(p) \/ ReceiveStep(p)
      PROVE  sent' = Silent
  BY <1>4
     DEF SttransStep, RoletrnsStep, InfoStep, PcostStep, BrdgdetStep,
         P2pStep, MigrateStep, TopochStep, ReceiveStep
<1>5. RoleselStep \/ UpdateReturns => sent' = Silent
  BY DEF RoleselStep, UpdateReturns
<1>6. OneSecond => sent' = Silent
  BY DEF OneSecond, Ticks, SetsOnly, Enters
<1>7. ASSUME NEW p, RxBpdu(p)
      PROVE  sent' = Silent
  BY <1>7 DEF RxBpdu, Gets, Enters
<1>8. Management => sent' = Silent
  <2>1. StpmSetCfg => sent' = Silent
    BY DEF StpmSetCfg, SetsOnly, Restarts, Enters
  <2>2. \A p : PortCreate(p) \/ PortDelete(p) => sent' = Silent
    BY DEF PortCreate, PortDelete, Restarts, Enters
  <2>3. \A p : SetPortCfg(p) => sent' = Silent
    BY DEF SetPortCfg, SetPortCfgFails, SetPortCfgSucceeds, Enters,
           EntersAndReturns
  <2>4. \A p : ChangedPortSpeed(p) \/ ChangedPortDuplex(p) => sent' = Silent
    BY DEF ChangedPortSpeed, ChangedPortDuplex, EntersAndReturns
  <2>5. \A p, enable : EnablePort(p, enable) => sent' = Silent
    BY DEF EnablePort, LinkIs, EntersAndReturns
  <2> QED
    BY <2>1, <2>2, <2>3, <2>4, <2>5 DEF Management
<1>9. UNCHANGED vars => UNCHANGED sent
  BY DEF vars
<1> QED
  BY <1>1, <1>2, <1>3, <1>4, <1>5, <1>6, <1>7, <1>8, <1>9
     DEF Next, MachineStep

\* The bridge never believes that its topology is changing.
LEMMA ChangeSteps ==
  ASSUME TypeOK, [Next]_vars, EveryPortUnchanged, ~bridge.Topology_Change
  PROVE  ~bridge'.Topology_Change
<1>1. IsBridge(bridge)
  BY DEF TypeOK
<1>2. CASE UpdateReturns
  <2>1. \A p \in Listed(bridge) : port[p].timer["tcWhile"] = 0
    BY DEF EveryPortUnchanged, NoChange
  <2>2. ~[bridge EXCEPT !.Topology_Change =
            \E p \in Listed(bridge) :
              port[p].timer["tcWhile"] # 0].Topology_Change
    BY <1>1, <2>1, SMT DEF IsBridge, BridgeField
  <2> QED
    BY <1>2, <2>2 DEF UpdateReturns
<1>3. CASE RoleselStep
  <2>1. /\ ~[bridge EXCEPT !.rolesel = "INIT_BRIDGE"].Topology_Change
        /\ \A source : ~WithRoot(bridge, port, source).Topology_Change
    BY <1>1, SMT DEF IsBridge, BridgeField, WithRoot
  <2> QED
    BY <1>3, <2>1 DEF RoleselStep, RoleselHop
<1>4. CASE StpmSetCfg
  <2> DEFINE New(c) == Configured(bridge, Merged(c, CurrentCfg(bridge)))
             Quiet(b) == DOMAIN b = BridgeField /\ ~b.Topology_Change
  <2>1. \A c : Quiet(New(c))
    BY <1>1, SMT DEF IsBridge, BridgeField, Configured
  <2>2. Quiet(bridge)
    BY <1>1 DEF IsBridge
  <2> HIDE DEF New
  <2>3. \A b : Quiet(b) =>
              /\ Quiet(InitData(b)) /\ Quiet([b EXCEPT !.stp_enabled = TRUE])
              /\ Quiet([b EXCEPT !.stp_enabled = FALSE])
    BY SMT DEF BridgeField, InitData
  <2>4. PICK c \in BridgeCfgs :
          \/ SetsOnly([bridge EXCEPT !.stp_enabled = FALSE])
          \/ Restarts([New(c) EXCEPT !.stp_enabled = TRUE], port)
          \/ SetsOnly(New(c))
    BY <1>4 DEF StpmSetCfg, New
  <2> HIDE DEF Quiet
  <2>5. Quiet(bridge')
    BY <2>1, <2>2, <2>3, <2>4 DEF SetsOnly, Restarts
  <2> QED
    BY <2>5 DEF Quiet
<1>5. ASSUME NEW p, PortCreate(p) \/ PortDelete(p)
      PROVE  ~bridge'.Topology_Change
  <2>1. PICK list, addr :
          bridge' = InitData([bridge EXCEPT !.ports = list, !.addr = addr])
    BY <1>5 DEF PortCreate, PortDelete, Restarts
  <2> QED
    BY <1>1, <2>1, SMT DEF IsBridge, BridgeField, InitData
<1>6. ASSUME UNCHANGED bridge
      PROVE  ~bridge'.Topology_Change
  BY <1>6
<1>7. ASSUME NEW p,
             \/ TransmitStep(p) \/ SttransStep(p) \/ RoletrnsStep(p)
             \/ InfoStep(p) \/ PcostStep(p) \/ BrdgdetStep(p) \/ P2pStep(p)
             \/ MigrateStep(p) \/ TopochStep(p) \/ ReceiveStep(p)
      PROVE  UNCHANGED bridge
  BY <1>7
     DEF TransmitStep, SttransStep, RoletrnsStep, InfoStep, PcostStep,
         BrdgdetStep, P2pStep, MigrateStep, TopochStep, ReceiveStep,
         PortMoved, PortMovedAll
<1>8. OneSecond => UNCHANGED bridge
  BY DEF OneSecond, Ticks, SetsOnly
<1>9. ASSUME NEW p, RxBpdu(p)
      PROVE  UNCHANGED bridge
  BY <1>9 DEF RxBpdu, Gets
<1>10. ASSUME NEW p, \/ SetPortCfg(p)
                     \/ ChangedPortSpeed(p) \/ ChangedPortDuplex(p)
                     \/ \E enable \in BOOLEAN : EnablePort(p, enable)
       PROVE  UNCHANGED bridge
  BY <1>10
     DEF SetPortCfg, SetPortCfgFails, SetPortCfgSucceeds, ChangedPortSpeed,
         ChangedPortDuplex, EnablePort, LinkIs, EntersAndReturns
<1>11. UNCHANGED vars => UNCHANGED bridge
  BY DEF vars
<1> QED
  BY <1>2, <1>3, <1>4, <1>5, <1>6, <1>7, <1>8, <1>9, <1>10, <1>11
     DEF Next, MachineStep, Management

(***************************************************************************)
(* NoChangeTold is not inductive: it takes the state of the machine, and   *)
(* the flush it waits for (topoch.c).                                      *)
(***************************************************************************)
ChangeUnnoticed ==
  /\ ~bridge.Topology_Change
  /\ EveryPortUnchanged
  /\ SentUnchanged

(***************************************************************************)
(* No topology change is ever noticed or passed on: the machine of every   *)
(* port waits in INACTIVE for a flush that nobody says is done (topoch.c). *)
(***************************************************************************)
THEOREM NeverTold == Spec => []NoChangeTold
<1>1. Init => ChangeUnnoticed
  <2> SUFFICES ASSUME Init
               PROVE  ChangeUnnoticed
    OBVIOUS
  <2>1. TypeOK
    BY InitType
  <2>2. ASSUME NEW p \in Listed(bridge)
        PROVE  NoChange(port[p])
    <3>1. p \in Port /\ IsBridge(bridge)
      BY <2>1, ListedPorts DEF TypeOK
    <3>2. port[p] = Started(NewPort(p), bridge)
      BY <3>1 DEF Init, AllStarted
    <3> QED
      BY <3>1, <3>2, NewPortType, StartedNoChange
  <2>3. ~bridge.Topology_Change
    <3>1. PICK addr : bridge = CreatedBridge(addr)
      BY DEF Init
    <3> QED
      BY <3>1, SMT DEF CreatedBridge, InitData
  <2>4. SentUnchanged
    BY SMT DEF Init, SentUnchanged, Silent, NoBpdu
  <2> QED
    BY <2>2, <2>3, <2>4 DEF ChangeUnnoticed, EveryPortUnchanged
<1>2. TypeOK /\ EveryPortInService /\ ChangeUnnoticed /\ [Next]_vars /\ TypeOK'
      => ChangeUnnoticed'
  <2> SUFFICES ASSUME TypeOK, EveryPortInService, ChangeUnnoticed,
                      [Next]_vars, TypeOK'
               PROVE  ChangeUnnoticed'
    OBVIOUS
  <2>1. ASSUME NEW p \in Listed(bridge)'
        PROVE  NoChange(port'[p])
    <3>1. p \in Port
      BY ListedPorts DEF TypeOK
    <3>2. Stepped(p)
      BY PortSteps
    <3>3. p \in Listed(bridge) \/ Begun(p)
      BY <3>2, SteppedListed
    <3> QED
      BY <3>1, <3>2, <3>3, SteppedNoChange
         DEF ChangeUnnoticed, EveryPortUnchanged
  <2>2. SentUnchanged' /\ ~bridge'.Topology_Change
    BY SentSteps, ChangeSteps DEF ChangeUnnoticed
  <2> QED
    BY <2>1, <2>2 DEF ChangeUnnoticed, EveryPortUnchanged
<1>3. ChangeUnnoticed => NoChangeTold
  BY DEF ChangeUnnoticed, EveryPortUnchanged, NoChange, SentUnchanged,
         NoChangeTold
<1> QED
  BY <1>1, <1>2, <1>3, TypeCorrect, AlwaysInService, PTL DEF Spec

-----------------------------------------------------------------------------
(***************************************************************************)
(* Every port is a gate (module PortGate).  A port learns only after a     *)
(* whole wait and after the kernel has closed it, because nothing comes    *)
(* between the state that closes a port, in which its wait is not set yet, *)
(* and the state that sets it (roletrns.c), and because the machine that   *)
(* tells the kernel comes before the one that gives the orders (stpm.c).   *)
(***************************************************************************)

\* sttrans.c: the kernel was told to learn, or to forward.
OpenStates == {"LEARNING", "FORWARDING"}
ClosingStates == {"BLOCK_PORT", "DISABLE_PORT"}

OrderedShut(q) == "learn" \notin q.on /\ "forward" \notin q.on
Discarding(q) == "learning" \notin q.on /\ "forwarding" \notin q.on

\* What is ordered and what the kernel was told go up one step at a time.
Stepwise(q) ==
  /\ "forward" \in q.on => "learn" \in q.on
  /\ q.sttrans = "FORWARDING" /\ "forward" \notin q.on => "learn" \notin q.on
  /\ q.sttrans = "LEARNING" =>
       "learning" \in q.on /\ "forwarding" \notin q.on

\* stpm.c: neither the role selection nor a port that comes earlier in the
\* list has anything to do.
AheadQuiet(p) ==
  \A m \in Before(Machine("transmit", p)) : m.port # p => ~Ready(m)

\* roletrns.c: while a port is being closed no other port moves, no role is
\* selected, and no second passes.
Closing(p) ==
  LET q == port[p] IN
  q.roletrns \in ClosingStates =>
    /\ call # "none"
    /\ q.role = q.selectedRole /\ Settled(q) /\ OrderedShut(q)
    /\ \/ InTurn("roletrns", p) /\ Discarding(q)
       \/ /\ AheadQuiet(p)
          /\ \E kind \in {"transmit", "sttrans", "roletrns"} :
               running = Machine(kind, p)

\* roletrns.c: a designated port that was told to discard, and that the
\* kernel has not closed yet, is neither synchronised nor let learn.
Holding(q) ==
  LET active == ~Discarding(q) IN
  /\ ~(("synced" \notin q.on /\ (~active \/ Trusted(q)))
         \/ ("sync" \in q.on /\ "synced" \in q.on))
  /\ ("sync" \in q.on /\ "synced" \notin q.on) \/ Retiring(q)

\* While the machine of the port has its turn the kernel is told nothing: if
\* it has not closed the port, the machine goes nowhere that lets it learn.
Unclosed(q) == "learn" \notin q.on /\ q.sttrans \in OpenStates

KeptShut(q) ==
  Unclosed(q) =>
    \/ q.roletrns \in ClosingStates \cup {"INIT_PORT"}
    \/ /\ q.roletrns \in DesignatedStates \cup {"DESIGNATED_PORT"}
       /\ Holding(q)

TurnHeld(p) ==
  LET q == port[p] IN
  InTurn("roletrns", p) =>
    /\ KeptShut(q)
    /\ NewRole(q) => q.roletrns = "INIT_PORT" \/ q.selectedRole = "NonStpPort"
    /\ ~Ready(RoleselMachine)
    /\ q.roletrns = "INIT_PORT" => q.role = "DisabledPort"

\* roletrns.c: a port that starts is closed, and has no news of its role.
Unopened(q) ==
  /\ q.roletrns \in FreshStates /\ "admin_non_stp" \notin q.on =>
       q.role = "DisabledPort" /\ q.sttrans \in {"BEGIN", "DISCARDING"}
  /\ q.roletrns \in FreshStates => "updtInfo" \notin q.on

\* roletrns.c: it only passes through the other states of a blocked port.
PassesBy(p) ==
  LET q == port[p] IN
  q.roletrns \in {"ALTERNATE_PROPOSED", "ALTERNATE_AGREED", "BACKUP_PORT"} =>
    InTurn("roletrns", p) /\ Settled(q) /\ ~NewRole(q)

GateHeld(p) ==
  /\ Stepwise(port[p]) /\ Unopened(port[p])
  /\ Closing(p) /\ TurnHeld(p) /\ PassesBy(p)
  /\ call = "none" => "updtInfo" \notin port[p].on

EveryGateHeld == \A p \in Listed(bridge) : GateHeld(p)

-----------------------------------------------------------------------------
(* The scheduler, and a port that is being closed.                         *)

\* statmch.c: the machine that has the turn after a step made that step.
LEMMA TurnMoved ==
  ASSUME [Next]_vars, ~UNCHANGED vars, NEW p, InTurn("roletrns", p)'
  PROVE  p \in Listed(bridge) /\ RoletrnsStep(p)
<1>1. call' # "none" /\ running' = Machine("roletrns", p)
  BY DEF InTurn
<1>2. ASSUME NEW kind, NEW x, NEW q, PortMoved(kind, x, q)
      PROVE  kind = "roletrns" /\ x = p
  BY <1>1, <1>2 DEF PortMoved, Machine
<1>3. ASSUME NEW kind, NEW x, NEW q, NEW flags, PortMovedAll(kind, x, q, flags)
      PROVE  kind = "roletrns" /\ x = p
  BY <1>1, <1>3 DEF PortMovedAll, Machine
<1>4. ASSUME NEW x,
             \/ TransmitStep(x) \/ SttransStep(x) \/ RoletrnsStep(x)
             \/ InfoStep(x) \/ PcostStep(x) \/ BrdgdetStep(x) \/ P2pStep(x)
             \/ MigrateStep(x) \/ TopochStep(x) \/ ReceiveStep(x)
      PROVE  RoletrnsStep(x) /\ x = p
  BY <1>2, <1>3, <1>4
     DEF TransmitStep, SttransStep, RoletrnsStep, InfoStep, PcostStep,
         BrdgdetStep, P2pStep, MigrateStep, TopochStep, ReceiveStep
<1>5. ~RoleselStep
  BY <1>1 DEF RoleselStep, RoleselMachine, Machine
<1>6. ~UpdateReturns
  BY <1>1 DEF UpdateReturns
<1>7. \A k : ~Enters(k)
  BY <1>1 DEF Enters, NoMachine, Machine
<1>8. ~EntersAndReturns /\ \A b : ~SetsOnly(b)
  BY <1>1 DEF EntersAndReturns, SetsOnly
<1>9. ~OneSecond /\ ~(\E x \in Listed(bridge) : RxBpdu(x))
  BY <1>7, <1>8 DEF OneSecond, Ticks, RxBpdu, Gets
<1>10. ~Management
  BY <1>7, <1>8
     DEF Management, StpmSetCfg, Restarts, PortCreate, PortDelete,
         SetPortCfg, SetPortCfgFails, SetPortCfgSucceeds, ChangedPortSpeed,
         ChangedPortDuplex, EnablePort, LinkIs
<1> QED
  BY <1>4, <1>5, <1>6, <1>9, <1>10 DEF Next, MachineStep

\* ... and makes the next one too, as long as it can.
LEMMA OnlyInTurn ==
  ASSUME [Next]_vars, ~UNCHANGED vars, NEW p \in Listed(bridge),
         InTurn("roletrns", p), Ready(Machine("roletrns", p))
  PROVE  RoletrnsStep(p)
<1>1. running = Machine("roletrns", p) /\ call # "none"
  BY DEF InTurn
<1>2. running \in AllMachines
  BY <1>1, SMT DEF AllMachines, MachineOrder
<1>3. MachineStep /\ running' = running
  BY <1>1, <1>2, OnlyRunning
<1>4. ~UpdateReturns
  BY <1>1, <1>2 DEF UpdateReturns
<1>5. call' # "none"
  BY <1>1, <1>4, CallSteps
<1> QED
  BY <1>1, <1>3, <1>5, TurnMoved DEF InTurn

LEMMA StepMoves ==
  ASSUME NEW p \in Port, RoletrnsStep(p)
  PROVE  RoletrnsMoved(p)
<1>1. PICK to \in RoletrnsState :
        /\ RoletrnsHop(port[p], bridge, Others(p), to)
        /\ LET r == RoletrnsEnter(port[p], bridge, to) IN
           PortMovedAll("roletrns", p,
                        [r EXCEPT !.on = r.on \cup RoletrnsBroadcast(to)],
                        RoletrnsBroadcast(to))
  BY DEF RoletrnsStep
<1> QED
  BY <1>1 DEF PortMovedAll, RoletrnsMoved, Ran

\* stpm.c: the machines that are looked at before those of port p, and
\* before the one of a kind.
Ahead(p, i) ==
  LET place == CHOOSE n \in DOMAIN bridge.ports : bridge.ports[n] = p IN
  {RoleselMachine}
    \cup {Machine(MachineOrder[k], bridge.ports[n]) :
            k \in DOMAIN MachineOrder, n \in 1 .. place - 1}
    \cup {Machine(MachineOrder[k], p) : k \in 1 .. i - 1}

LEMMA AheadOf ==
  ASSUME NEW p, NEW i \in DOMAIN MachineOrder
  PROVE  Before(Machine(MachineOrder[i], p)) = Ahead(p, i)
<1> DEFINE Place(kind) == CHOOSE k \in DOMAIN MachineOrder :
                            MachineOrder[k] = kind
           m == Machine(MachineOrder[i], p)
<1>1. DOMAIN MachineOrder = 1 .. 10
  BY SMT DEF MachineOrder
<1>2. \A k, l \in 1 .. 10 : MachineOrder[k] = MachineOrder[l] => k = l
  BY SMT DEF MachineOrder
<1>3. Place(MachineOrder[i]) = i
  BY <1>1, <1>2
<1>4. m # RoleselMachine /\ m.machine = MachineOrder[i] /\ m.port = p
  <2>1. MachineOrder[i] # "rolesel"
    BY SMT DEF MachineOrder
  <2> QED
    BY <2>1 DEF Machine, RoleselMachine
<1> HIDE DEF m
<1>5. ASSUME NEW j, j = Place(m.machine)
      PROVE  Before(m) = Ahead(m.port, j)
  <2>1. Before(m) = {RoleselMachine}
          \cup {Machine(MachineOrder[k], bridge.ports[n]) :
                  k \in DOMAIN MachineOrder,
                  n \in 1 .. (CHOOSE n \in DOMAIN bridge.ports :
                                bridge.ports[n] = m.port) - 1}
          \cup {Machine(MachineOrder[k], m.port) : k \in 1 .. j - 1}
    BY <1>4, <1>5 DEF Before
  <2> QED
    BY <2>1 DEF Ahead
<1> QED
  BY <1>3, <1>4, <1>5 DEF m

\* stpm.c: of two ports, one comes first with all its machines.
LEMMA ListOrder ==
  ASSUME TypeOK, NEW p \in Listed(bridge), NEW x \in Listed(bridge), x # p,
         NEW i \in DOMAIN MachineOrder
  PROVE  \/ Machine(MachineOrder[i], x) \in Before(Machine("transmit", p))
         \/ \A k \in DOMAIN MachineOrder :
              Machine(MachineOrder[k], p) \in Before(Machine(MachineOrder[i], x))
<1> DEFINE ports == bridge.ports
           L(y) == CHOOSE n \in DOMAIN ports : ports[n] = y
<1>2. ports \in Seq(Port)
  BY DEF TypeOK
<1>3. \A y \in Listed(bridge) : L(y) \in DOMAIN ports /\ ports[L(y)] = y
  BY DEF Listed
<1>4. 1 \in DOMAIN MachineOrder /\ MachineOrder[1] = "transmit"
  BY SMT DEF MachineOrder
<1>5. /\ \A k \in DOMAIN MachineOrder, n \in 1 .. L(p) - 1 :
           Machine(MachineOrder[k], ports[n]) \in Before(Machine("transmit", p))
      /\ \A k \in DOMAIN MachineOrder, n \in 1 .. L(x) - 1 :
           Machine(MachineOrder[k], ports[n])
             \in Before(Machine(MachineOrder[i], x))
  <2>1. /\ Before(Machine("transmit", p)) = Ahead(p, 1)
        /\ Before(Machine(MachineOrder[i], x)) = Ahead(x, i)
    BY <1>4, AheadOf
  <2>2. ASSUME NEW y, NEW j, NEW k \in DOMAIN MachineOrder,
               NEW n \in 1 .. L(y) - 1
        PROVE  Machine(MachineOrder[k], ports[n]) \in Ahead(y, j)
    <3> DEFINE Earlier == {Machine(MachineOrder[l], ports[e]) :
                             l \in DOMAIN MachineOrder, e \in 1 .. L(y) - 1}
               Own == {Machine(MachineOrder[l], y) : l \in 1 .. j - 1}
    <3>1. Machine(MachineOrder[k], ports[n]) \in Earlier
      <4> HIDE DEF L, ports
      <4>1. \E l \in DOMAIN MachineOrder : \E e \in 1 .. L(y) - 1 :
              Machine(MachineOrder[k], ports[n]) = Machine(MachineOrder[l], ports[e])
        OBVIOUS
      <4> QED
        BY <4>1
    <3>2. Ahead(y, j) = {RoleselMachine} \cup Earlier \cup Own
      BY DEF Ahead
    <3> HIDE DEF Earlier, Own
    <3> QED
      BY <3>1, <3>2
  <2> HIDE DEF L
  <2> QED
    BY <2>1, <2>2
<1> HIDE DEF L
<1>6. DOMAIN ports = 1 .. Len(ports) /\ Len(ports) \in Nat
  BY <1>2
<1>7. \/ L(x) \in 1 .. L(p) - 1
      \/ L(p) \in 1 .. L(x) - 1
  <2>1. L(x) # L(p)
    BY <1>3
  <2>2. L(x) \in 1 .. Len(ports) /\ L(p) \in 1 .. Len(ports)
    BY <1>3, <1>6
  <2> QED
    BY <1>6, <2>1, <2>2, SMT
<1> QED
  BY <1>3, <1>5, <1>7

\* The members of the two ports that the machines test are the same.
SameFields(q, r) == \A f \in PortField : r[f] = q[f]

LEMMA HopSame ==
  ASSUME NEW q, NEW r, SameFields(q, r), NEW b, NEW to
  PROVE  /\ TransmitHop(r, to) <=> TransmitHop(q, to)
         /\ SttransHop(r, to) <=> SttransHop(q, to)
         /\ InfoHop(r, to) <=> InfoHop(q, to)
         /\ PcostHop(r, to) <=> PcostHop(q, to)
         /\ BrdgdetHop(r, to) <=> BrdgdetHop(q, to)
         /\ P2pHop(r, to) <=> P2pHop(q, to)
         /\ MigrateHop(r, b, to) <=> MigrateHop(q, b, to)
         /\ TopochHop(r, to) <=> TopochHop(q, to)
         /\ ReceiveHop(r, to) <=> ReceiveHop(q, to)
<1>1. /\ r.on = q.on /\ r.timer = q.timer /\ r.role = q.role
      /\ r.infoIs = q.infoIs /\ r.rcvdInfo = q.rcvdInfo
      /\ r.selectedRole = q.selectedRole
      /\ r.receive = q.receive /\ r.migrate = q.migrate
      /\ r.brdgdet = q.brdgdet /\ r.p2p = q.p2p /\ r.pcost = q.pcost
      /\ r.info = q.info /\ r.sttrans = q.sttrans
      /\ r.transmit = q.transmit /\ r.topoch = q.topoch
      /\ r.adminPCost = q.adminPCost /\ r.operPCost = q.operPCost
      /\ r.operSpeed = q.operSpeed /\ r.usedSpeed = q.usedSpeed
  BY SMT DEF SameFields, PortField
<1>2. /\ TransmitHop(r, to) <=> TransmitHop(q, to)
      /\ SttransHop(r, to) <=> SttransHop(q, to)
      /\ PcostHop(r, to) <=> PcostHop(q, to)
      /\ BrdgdetHop(r, to) <=> BrdgdetHop(q, to)
      /\ P2pHop(r, to) <=> P2pHop(q, to)
  BY <1>1 DEF TransmitHop, MayTransmit, Settled, SttransHop, PcostHop,
              BrdgdetHop, P2pHop, Enabled
<1>3. InfoHop(r, to) <=> InfoHop(q, to)
  BY <1>1 DEF InfoHop
<1>4. /\ MigrateHop(r, b, to) <=> MigrateHop(q, b, to)
      /\ TopochHop(r, to) <=> TopochHop(q, to)
      /\ ReceiveHop(r, to) <=> ReceiveHop(q, to)
  BY <1>1 DEF MigrateHop, LeavesStp, TopochHop, ReceiveHop, AcceptsNext,
              Enabled
<1> QED
  BY <1>2, <1>3, <1>4

\* A machine of kind MachineOrder[i] reads its own port, the bridge, and of
\* the other ports whether they are synchronised and have given way.
LEMMA ReadySame ==
  ASSUME NEW x, NEW i \in DOMAIN MachineOrder,
         SameFields(port[x], port'[x]), bridge' = bridge,
         AllSynced(Others(x)) <=> AllSynced(Others(x)'),
         ReRooted(Others(x)) <=> ReRooted(Others(x)'),
         ~Ready(Machine(MachineOrder[i], x))
  PROVE  ~Ready(Machine(MachineOrder[i], x))'
<1> DEFINE kind == MachineOrder[i]
<1>1. kind \in {"transmit", "sttrans", "roletrns", "info", "pcost", "brdgdet",
                "p2p", "migrate", "topoch", "receive"}
  BY SMT DEF MachineOrder
<1>2. Machine(kind, x).machine = kind /\ Machine(kind, x).port = x
  BY DEF Machine
<1>3. CASE kind = "roletrns"
  <2>1. NoHop(port[x], bridge, Others(x))
    BY <1>2, <1>3 DEF Ready, NoHop
  <2>2. SameReads(port[x], port'[x])
    BY SMT DEF SameFields, SameReads, PortField
  <2>3. NoHop(port'[x], bridge, Others(x)')
    BY <2>1, <2>2, NoHopSame
  <2> QED
    BY <1>2, <1>3, <2>3 DEF Ready, NoHop
<1>4. CASE kind \in {"transmit", "sttrans", "info", "pcost"}
  BY <1>2, <1>4, HopSame DEF Ready
<1>5. CASE kind \in {"brdgdet", "p2p", "migrate", "topoch", "receive"}
  <2>1. \A to : /\ BrdgdetHop(port'[x], to) <=> BrdgdetHop(port[x], to)
                /\ P2pHop(port'[x], to) <=> P2pHop(port[x], to)
                /\ MigrateHop(port'[x], bridge, to)
                     <=> MigrateHop(port[x], bridge, to)
                /\ TopochHop(port'[x], to) <=> TopochHop(port[x], to)
                /\ ReceiveHop(port'[x], to) <=> ReceiveHop(port[x], to)
    BY HopSame
  <2>2. CASE kind \in {"brdgdet", "p2p"}
    BY <1>2, <2>1, <2>2 DEF Ready
  <2>3. CASE kind \in {"migrate", "topoch", "receive"}
    BY <1>2, <2>1, <2>3 DEF Ready
  <2> QED
    BY <1>5, <2>2, <2>3
<1> QED
  BY <1>1, <1>3, <1>4, <1>5

LEMMA RoleselSame ==
  ASSUME bridge' = bridge, ~Ready(RoleselMachine),
         \A x \in Listed(bridge) :
           "reselect" \in port'[x].on <=> "reselect" \in port[x].on
  PROVE  ~Ready(RoleselMachine)'
<1>1. RoleselMachine.machine = "rolesel"
  BY DEF RoleselMachine
<1>2. \A to \in RoleselState : ~RoleselHop(bridge, port, to)
  BY <1>1 DEF Ready
<1>3. \A to \in RoleselState : ~RoleselHop(bridge', port', to)
  BY <1>2 DEF RoleselHop
<1> QED
  BY <1>1, <1>3 DEF Ready

\* What is ahead of a port in the list, in particular.
LEMMA AheadMember ==
  ASSUME TypeOK, NEW p \in Listed(bridge), NEW m \in Before(Machine("transmit", p)),
         m.port # p
  PROVE  /\ m = RoleselMachine \/ \E i \in DOMAIN MachineOrder :
                                    \E x \in Listed(bridge) \ {p} :
                                      m = Machine(MachineOrder[i], x)
         /\ \A i \in DOMAIN MachineOrder : m \in Before(Machine(MachineOrder[i], p))
<1> DEFINE L == CHOOSE n \in DOMAIN bridge.ports : bridge.ports[n] = p
           Earlier == {Machine(MachineOrder[l], bridge.ports[e]) :
                         l \in DOMAIN MachineOrder, e \in 1 .. L - 1}
           Own(j) == {Machine(MachineOrder[l], p) : l \in 1 .. j - 1}
<1>1. 1 \in DOMAIN MachineOrder /\ MachineOrder[1] = "transmit"
  BY SMT DEF MachineOrder
<1>2. \A i \in DOMAIN MachineOrder : Before(Machine(MachineOrder[i], p)) =
        {RoleselMachine} \cup Earlier \cup Own(i)
  BY AheadOf DEF Ahead
<1>3. m \notin Own(1)
  BY DEF Machine
<1>4. m \in {RoleselMachine} \cup Earlier
  BY <1>1, <1>2, <1>3
<1>5. ASSUME m \in Earlier
      PROVE  \E i \in DOMAIN MachineOrder : \E x \in Listed(bridge) \ {p} :
               m = Machine(MachineOrder[i], x)
  <2>1. PICK l \in DOMAIN MachineOrder : \E e \in 1 .. L - 1 :
               m = Machine(MachineOrder[l], bridge.ports[e])
    BY <1>5
  <2>2. PICK e \in 1 .. L - 1 : m = Machine(MachineOrder[l], bridge.ports[e])
    BY <2>1
  <2>3. e \in DOMAIN bridge.ports
    <3>1. bridge.ports \in Seq(Port)
      BY DEF TypeOK
    <3>2. DOMAIN bridge.ports = 1 .. Len(bridge.ports)
          /\ Len(bridge.ports) \in Nat
      BY <3>1
    <3>3. p \in Listed(bridge) => L \in DOMAIN bridge.ports
      BY DEF Listed
    <3> HIDE DEF L
    <3> QED
      BY <2>2, <3>2, <3>3, SMT
  <2>4. bridge.ports[e] \in Listed(bridge)
    BY <2>3 DEF Listed
  <2> QED
    BY <2>2, <2>4 DEF Machine
<1> HIDE DEF Earlier, Own
<1> QED
  BY <1>2, <1>4, <1>5

\* A port ahead of p stays quiet when p changes in nothing that it reads.
LEMMA AheadSame ==
  ASSUME TypeOK, NEW p \in Listed(bridge), AheadQuiet(p), bridge' = bridge,
         \A x \in Port \ {p} : SameFields(port[x], port'[x]),
         \A f \in {"synced", "reselect"} :
           f \in port'[p].on <=> f \in port[p].on,
         port'[p].timer["rrWhile"] = port[p].timer["rrWhile"]
  PROVE  AheadQuiet(p)'
<1>1. Listed(bridge) \subseteq Port
  BY ListedPorts DEF TypeOK
<1>2. \A x \in Listed(bridge) :
        /\ \A f \in {"synced", "reselect"} :
             f \in port'[x].on <=> f \in port[x].on
        /\ port'[x].timer["rrWhile"] = port[x].timer["rrWhile"]
  BY <1>1, SMT DEF SameFields, PortField
<1>3. \A x : /\ AllSynced(Others(x)) <=> AllSynced(Others(x)')
             /\ ReRooted(Others(x)) <=> ReRooted(Others(x)')
  BY <1>2 DEF AllSynced, ReRooted, Others
<1>4. Before(Machine("transmit", p))' = Before(Machine("transmit", p))
  BY DEF Before
<1>5. ASSUME NEW m \in Before(Machine("transmit", p)), m.port # p
      PROVE  ~Ready(m)'
  <2>1. ~Ready(m)
    BY <1>5 DEF AheadQuiet
  <2>2. CASE m = RoleselMachine
    BY <1>2, <2>1, <2>2, RoleselSame
  <2>3. CASE m # RoleselMachine
    <3>1. PICK i \in DOMAIN MachineOrder, x \in Listed(bridge) \ {p} :
            m = Machine(MachineOrder[i], x)
      BY <1>5, <2>3, AheadMember
    <3>2. SameFields(port[x], port'[x])
      BY <1>1
    <3> QED
      BY <1>3, <2>1, <3>1, <3>2, ReadySame
  <2> QED
    BY <2>2, <2>3
<1> QED
  BY <1>4, <1>5 DEF AheadQuiet

\* The role transition machine of a port gets its turn when all is quiet
\* ahead of it, and the kernel has been told.
LEMMA TurnAhead ==
  ASSUME TypeOK, NEW p \in Listed(bridge), Turn(Machine("roletrns", p)),
         ~InTurn("roletrns", p)
  PROVE  AheadQuiet(p) /\ ~Ready(Machine("sttrans", p))
<1>1. /\ 3 \in DOMAIN MachineOrder /\ MachineOrder[3] = "roletrns"
      /\ 2 \in DOMAIN MachineOrder /\ MachineOrder[2] = "sttrans"
  BY SMT DEF MachineOrder
<1>2. \A m \in Before(Machine("roletrns", p)) : ~Ready(m)
  BY DEF Turn, InTurn
<1>3. \A m \in Before(Machine("transmit", p)) :
        m.port # p => m \in Before(Machine("roletrns", p))
  BY <1>1, AheadMember
<1>4. ~Ready(Machine("sttrans", p))
  BY <1>1, EarlierFirst
<1> QED
  BY <1>2, <1>3, <1>4 DEF AheadQuiet

\* STP_check_condition of the first three machines of a port.
LEMMA ReadyOf ==
  ASSUME NEW p
  PROVE  /\ Ready(Machine("transmit", p)) <=>
              \E to \in TransmitState : TransmitHop(port[p], to)
         /\ Ready(Machine("sttrans", p)) <=>
              \E to \in SttransState : SttransHop(port[p], to)
         /\ Ready(Machine("roletrns", p)) <=>
              \E to \in RoletrnsState :
                RoletrnsHop(port[p], bridge, Others(p), to)
<1>1. Ready(Machine("transmit", p)) <=>
        \E to \in TransmitState : TransmitHop(port[p], to)
  BY DEF Ready, Machine
<1>2. Ready(Machine("sttrans", p)) <=>
        \E to \in SttransState : SttransHop(port[p], to)
  BY DEF Ready, Machine
<1>3. Ready(Machine("roletrns", p)) <=>
        \E to \in RoletrnsState :
          RoletrnsHop(port[p], bridge, Others(p), to)
  BY DEF Ready, Machine
<1> QED
  BY <1>1, <1>2, <1>3

\* roletrns.c: what has a transition to make while the port is being closed.
LEMMA ClosingReady ==
  ASSUME NEW p, IsPort(port[p]), Gated(port[p]), Closing(p),
         port[p].roletrns \in ClosingStates
  PROVE  /\ Discarding(port[p]) => Ready(Machine("roletrns", p))
         /\ ~Discarding(port[p]) => Ready(Machine("sttrans", p))
<1> DEFINE q == port[p]
<1>1. q.role = q.selectedRole /\ Settled(q) /\ OrderedShut(q) /\ ~NewRole(q)
  BY DEF Closing, NewRole
<1>3. ASSUME Discarding(q)
      PROVE  Ready(Machine("roletrns", p))
  <2>1. q.on \cap {"learning", "forwarding"} = {}
    BY <1>3 DEF Discarding
  <2> HIDE DEF q
  <2>2. \E to \in RoletrnsState : RoletrnsHop(q, bridge, Others(p), to)
    <3>1. CASE q.roletrns = "DISABLE_PORT"
      <4>1. RoletrnsHop(q, bridge, Others(p), "DISABLED_PORT")
        BY <1>1, <2>1, <3>1 DEF RoletrnsHop
      <4> QED
        BY <4>1 DEF RoletrnsState
    <3>2. CASE q.roletrns = "BLOCK_PORT"
      <4>1. RoletrnsHop(q, bridge, Others(p), "ALTERNATE_PORT")
        BY <1>1, <2>1, <3>2 DEF RoletrnsHop
      <4> QED
        BY <4>1 DEF RoletrnsState
    <3> QED
      BY <3>1, <3>2 DEF ClosingStates, q
  <2> QED
    BY <2>2, ReadyOf DEF q
<1>4. ASSUME ~Discarding(q)
      PROVE  Ready(Machine("sttrans", p))
  <2>1. q.sttrans \in SttransState
    BY DEF IsPort
  <2>2. q.sttrans \in OpenStates
    BY <1>4, <2>1 DEF Discarding, Gated, OpenStates, SttransState
  <2> HIDE DEF q
  <2>3. SttransHop(q, "DISCARDING")
    BY <1>1, <2>2 DEF SttransHop, OpenStates, OrderedShut
  <2> QED
    BY <2>3, ReadyOf DEF SttransState, q
<1> QED
  BY <1>3, <1>4

\* statmch.c: each action is the turn of its machine.
LEMMA StepTurns ==
  ASSUME NEW x
  PROVE  /\ TransmitStep(x) => Turn(Machine("transmit", x))
         /\ SttransStep(x) => Turn(Machine("sttrans", x))
         /\ RoletrnsStep(x) => Turn(Machine("roletrns", x))
         /\ InfoStep(x) => Turn(Machine("info", x))
         /\ PcostStep(x) => Turn(Machine("pcost", x))
         /\ BrdgdetStep(x) => Turn(Machine("brdgdet", x))
         /\ P2pStep(x) => Turn(Machine("p2p", x))
         /\ MigrateStep(x) => Turn(Machine("migrate", x))
         /\ TopochStep(x) => Turn(Machine("topoch", x))
         /\ ReceiveStep(x) => Turn(Machine("receive", x))
<1>1. \A kind, q : PortMoved(kind, x, q) => Turn(Machine(kind, x))
  BY DEF PortMoved
<1>2. \A kind, q, flags : PortMovedAll(kind, x, q, flags)
                            => Turn(Machine(kind, x))
  BY DEF PortMovedAll
<1> QED
  BY <1>1, <1>2
     DEF TransmitStep, SttransStep, RoletrnsStep, InfoStep, PcostStep,
         BrdgdetStep, P2pStep, MigrateStep, TopochStep, ReceiveStep

\* stpm.c: while something is left to do, only a machine moves.
LEMMA OnlyFirst ==
  ASSUME [Next]_vars, ~UNCHANGED vars, call # "none",
         NEW m \in AllMachines, Ready(m)
  PROVE  \/ \E i \in DOMAIN MachineOrder : \E x \in Listed(bridge) :
              /\ Turn(Machine(MachineOrder[i], x))
              /\ i = 1 => TransmitStep(x)
              /\ i = 2 => SttransStep(x)
              /\ i = 3 => RoletrnsStep(x)
         \/ Turn(RoleselMachine)
<1>1. ~UpdateReturns
  BY DEF UpdateReturns
<1>2. ~OneSecond /\ ~(\E x \in Listed(bridge) : RxBpdu(x))
  BY DEF OneSecond, Ticks, SetsOnly, RxBpdu, Gets, Enters
<1>3. ~Management
  BY DEF Management, StpmSetCfg, SetsOnly, Restarts, Enters,
         EntersAndReturns, PortCreate, PortDelete, SetPortCfg,
         SetPortCfgFails, SetPortCfgSucceeds, ChangedPortSpeed,
         ChangedPortDuplex, EnablePort, LinkIs
<1>4. RoleselStep => Turn(RoleselMachine)
  BY DEF RoleselStep
<1>5. /\ DOMAIN MachineOrder = 1 .. 10
      /\ MachineOrder[1] = "transmit" /\ MachineOrder[2] = "sttrans"
      /\ MachineOrder[3] = "roletrns" /\ MachineOrder[4] = "info"
      /\ MachineOrder[5] = "pcost" /\ MachineOrder[6] = "brdgdet"
      /\ MachineOrder[7] = "p2p" /\ MachineOrder[8] = "migrate"
      /\ MachineOrder[9] = "topoch" /\ MachineOrder[10] = "receive"
  BY SMT DEF MachineOrder
<1> DEFINE Moves(i, x) == /\ Turn(Machine(MachineOrder[i], x))
                          /\ i = 1 => TransmitStep(x)
                          /\ i = 2 => SttransStep(x)
                          /\ i = 3 => RoletrnsStep(x)
<1>6. ASSUME NEW x \in Listed(bridge),
             \/ TransmitStep(x) \/ SttransStep(x) \/ RoletrnsStep(x)
             \/ InfoStep(x) \/ PcostStep(x) \/ BrdgdetStep(x) \/ P2pStep(x)
             \/ MigrateStep(x) \/ TopochStep(x) \/ ReceiveStep(x)
      PROVE  \E i \in DOMAIN MachineOrder : Moves(i, x)
  <2>1. /\ TransmitStep(x) => Moves(1, x)
        /\ SttransStep(x) => Moves(2, x)
        /\ RoletrnsStep(x) => Moves(3, x)
        /\ InfoStep(x) => Moves(4, x)
        /\ PcostStep(x) => Moves(5, x)
    BY <1>5, StepTurns
  <2>2. /\ BrdgdetStep(x) => Moves(6, x)
        /\ P2pStep(x) => Moves(7, x)
        /\ MigrateStep(x) => Moves(8, x)
        /\ TopochStep(x) => Moves(9, x)
        /\ ReceiveStep(x) => Moves(10, x)
    BY <1>5, StepTurns
  <2>3. \A i \in 1 .. 10 : i \in DOMAIN MachineOrder
    BY <1>5
  <2>4. {1, 2, 3, 4, 5, 6, 7, 8, 9, 10} \subseteq 1 .. 10
    BY SMT
  <2> HIDE DEF Moves
  <2> QED
    BY <1>6, <2>1, <2>2, <2>3, <2>4
<1> HIDE DEF Moves
<1>7. RoleselStep \/ \E i \in DOMAIN MachineOrder : \E x \in Listed(bridge) :
                       Moves(i, x)
  BY <1>1, <1>2, <1>3, <1>6 DEF Next, MachineStep
<1> QED
  BY <1>4, <1>7 DEF Moves

\* roletrns.c, stpm.c: from the state that closes a port until it has left
\* it, nothing moves but the first three machines of the port.
LEMMA Window ==
  ASSUME TypeOK, [Next]_vars, ~UNCHANGED vars, NEW p \in Listed(bridge),
         Gated(port[p]), Closing(p), port[p].roletrns \in ClosingStates
  PROVE  \/ RoletrnsStep(p)
         \/ AheadQuiet(p) /\ (TransmitStep(p) \/ SttransStep(p))
<1> DEFINE q == port[p]
<1>1. p \in Port
  BY ListedPorts DEF TypeOK
<1>2. /\ Discarding(q) => Ready(Machine("roletrns", p))
      /\ ~Discarding(q) => Ready(Machine("sttrans", p))
  BY <1>1, ClosingReady DEF TypeOK
<1>3. call # "none"
  BY DEF Closing
<1>4. CASE InTurn("roletrns", p) /\ Discarding(q)
  BY <1>2, <1>4, OnlyInTurn
<1>5. CASE /\ AheadQuiet(p)
           /\ \E kind \in {"transmit", "sttrans", "roletrns"} :
                running = Machine(kind, p)
  <2>1. /\ DOMAIN MachineOrder = 1 .. 10
        /\ MachineOrder[1] = "transmit" /\ MachineOrder[2] = "sttrans"
        /\ MachineOrder[3] = "roletrns"
        /\ \A i \in 1 .. 10 :
             MachineOrder[i] \in {"transmit", "sttrans", "roletrns"}
               => i \in {1, 2, 3}
        /\ \A i \in 1 .. 10 : i \notin {1, 2, 3} => 2 < i /\ 3 < i
    BY SMT DEF MachineOrder
  <2>2. PICK m \in {Machine("sttrans", p), Machine("roletrns", p)} : Ready(m)
    BY <1>2
  <2>3. m \in AllMachines
    <3>1. 2 \in DOMAIN MachineOrder /\ 3 \in DOMAIN MachineOrder
      BY SMT DEF MachineOrder
    <3> QED
      BY <2>1, <2>2, <3>1 DEF AllMachines
  <2>4. PICK kind \in {"transmit", "sttrans", "roletrns"} :
          running = Machine(kind, p)
    BY <1>5
  <2>5. ASSUME NEW i \in DOMAIN MachineOrder, NEW x \in Listed(bridge),
               Turn(Machine(MachineOrder[i], x))
        PROVE  x = p /\ i \in {1, 2, 3}
    <3>1. CASE Ready(running)
      <4>1. Machine(MachineOrder[i], x) = Machine(kind, p)
        BY <2>4, <2>5, <3>1 DEF Turn
      <4> QED
        BY <2>1, <4>1 DEF Machine
    <3>2. CASE ~Ready(running)
      <4>1. \A other \in Before(Machine(MachineOrder[i], x)) : ~Ready(other)
        BY <2>5, <3>2 DEF Turn
      <4>2. Ready(Machine(MachineOrder[i], x))
        BY <2>5 DEF Turn
      <4>3. x = p
        <5> SUFFICES ASSUME x # p
                     PROVE  FALSE
          OBVIOUS
        <5>1. Machine(MachineOrder[i], x).port # p
          BY DEF Machine
        <5>2. Machine(MachineOrder[i], x) \notin Before(Machine("transmit", p))
          BY <1>5, <4>2, <5>1 DEF AheadQuiet
        <5>3. \A k \in DOMAIN MachineOrder :
                Machine(MachineOrder[k], p)
                  \in Before(Machine(MachineOrder[i], x))
          BY <5>2, ListOrder
        <5>4. 2 \in DOMAIN MachineOrder /\ 3 \in DOMAIN MachineOrder
          BY SMT DEF MachineOrder
        <5> QED
          BY <2>1, <2>2, <4>1, <5>3, <5>4
      <4>4. i \in {1, 2, 3}
        <5> SUFFICES ASSUME i \notin {1, 2, 3}
                     PROVE  FALSE
          OBVIOUS
        <5>1. ~InTurn(MachineOrder[i], p)
          BY <2>1, <2>4 DEF InTurn, Machine
        <5>2. 2 \in DOMAIN MachineOrder /\ 3 \in DOMAIN MachineOrder
          BY SMT DEF MachineOrder
        <5>3. 2 < i /\ 3 < i
          BY <2>1
        <5>4. ~Ready(Machine("sttrans", p)) /\ ~Ready(Machine("roletrns", p))
          BY <2>1, <2>5, <4>3, <5>1, <5>2, <5>3, EarlierFirst
        <5> QED
          BY <2>2, <5>4
      <4> QED
        BY <4>3, <4>4
    <3> QED
      BY <3>1, <3>2
  <2>6. ~Turn(RoleselMachine)
    <3>1. running # RoleselMachine
      BY <2>4 DEF Machine, RoleselMachine
    <3>2. RoleselMachine \in Before(Machine("transmit", p))
      <4>1. 1 \in DOMAIN MachineOrder
        BY <2>1
      <4> QED
        BY <2>1, <4>1, AheadOf DEF Ahead
    <3>3. RoleselMachine.port # p
      BY <1>1, PortAssumption DEF RoleselMachine
    <3>4. ~Ready(RoleselMachine)
      BY <1>5, <3>2, <3>3 DEF AheadQuiet
    <3> QED
      BY <3>4 DEF Turn
  <2>7. PICK i \in DOMAIN MachineOrder, x \in Listed(bridge) :
          /\ Turn(Machine(MachineOrder[i], x))
          /\ i = 1 => TransmitStep(x)
          /\ i = 2 => SttransStep(x)
          /\ i = 3 => RoletrnsStep(x)
    BY <1>3, <2>2, <2>3, <2>6, OnlyFirst
  <2>8. x = p /\ i \in {1, 2, 3}
    BY <2>5, <2>7
  <2> QED
    BY <1>5, <2>7, <2>8
<1> QED
  BY <1>4, <1>5 DEF Closing

-----------------------------------------------------------------------------
(* What a step leaves of the gate of a port.                               *)

\* Neither the gate nor the time it waits has changed.
SameWait(q, r) == SameGate(q, r) /\ q.timer["fdWhile"] = r.timer["fdWhile"]

\* All machines but sttrans.c and roletrns.c leave the gate alone.
LEMMA WaitKept ==
  ASSUME NEW q, IsPort(q), NEW b
  PROVE  /\ \A to \in TransmitState : SameWait(q, TransmitEnter(q, b, to))
         /\ \A to \in BrdgdetState : SameWait(q, BrdgdetEnter(q, to))
         /\ \A to \in P2pState : SameWait(q, P2pEnter(q, to))
         /\ \A to \in TopochState : SameWait(q, TopochEnter(q, b, to))
         /\ \A to \in ReceiveState : SameWait(q, ReceiveEnter(q, to))
         /\ \A to \in MigrateState : SameWait(q, MigrateEnter(q, b, to))
         /\ \A to \in PcostState : SameWait(q, PcostEnter(q, to))
<1> USE DEF IsPort, PortField, Timer
<1>1. \A to \in TransmitState :
        TransmitEnter(q, b, to).timer["fdWhile"] = q.timer["fdWhile"]
  BY SMT DEF TransmitEnter, TransmitState, Given
<1>2. \A to \in BrdgdetState :
        BrdgdetEnter(q, to).timer["fdWhile"] = q.timer["fdWhile"]
  BY SMT DEF BrdgdetEnter
<1>3. \A to \in P2pState :
        P2pEnter(q, to).timer["fdWhile"] = q.timer["fdWhile"]
  BY SMT DEF P2pEnter
<1>4. \A to \in TopochState :
        TopochEnter(q, b, to).timer["fdWhile"] = q.timer["fdWhile"]
  BY SMT DEF TopochEnter, TopochState, NewTcInfo, Given, Inactive
<1>5. \A to \in ReceiveState :
        ReceiveEnter(q, to).timer["fdWhile"] = q.timer["fdWhile"]
  BY SMT DEF ReceiveEnter
<1>6. \A to \in MigrateState :
        MigrateEnter(q, b, to).timer["fdWhile"] = q.timer["fdWhile"]
  BY SMT DEF MigrateEnter
<1>7. \A to \in PcostState :
        PcostEnter(q, to).timer["fdWhile"] = q.timer["fdWhile"]
  BY SMT DEF PcostEnter, PcostState
<1> QED
  BY <1>1, <1>2, <1>3, <1>4, <1>5, <1>6, <1>7,
     OthersSame, MigrateSound, PcostSound DEF SameWait, SameAll

\* portinfo.c neither asks for an update of what the port holds nor gives
\* it another role.
LEMMA InfoWait ==
  ASSUME NEW q, IsPort(q), NEW b, NEW to \in InfoState
  PROVE  LET r == InfoEnter(q, b, to) IN
         /\ SameWait(q, r)
         /\ "updtInfo" \in r.on => "updtInfo" \in q.on
<1> DEFINE Fine(r) ==
             /\ r.sttrans = q.sttrans /\ r.roletrns = q.roletrns
             /\ r.role = q.role
             /\ \A f \in {"learn", "learning", "forward", "forwarding"} :
                  f \in q.on <=> f \in r.on
             /\ r.timer["fdWhile"] = q.timer["fdWhile"]
             /\ "updtInfo" \in r.on => "updtInfo" \in q.on
<1>1. \A f \in {"learn", "learning", "forward", "forwarding", "updtInfo"} :
        f \notin Proposal(q) /\ f \notin TcFlags(q)
  BY DEF Proposal, TcFlags, Given
<1>2. /\ to = "DISABLED" => Fine(InfoDisabled(q))
      /\ to = "AGED" => Fine(InfoAged(q))
      /\ DOMAIN InfoDisabled(q) = PortField
      /\ Fine(InfoDisabled(q))
  BY SMT DEF IsPort, PortField, InfoDisabled, InfoAged, Timer
<1>3. to = "BEGIN" => Fine(InfoBegin(q))
  <2> DEFINE d == InfoDisabled(q)
             m == [type |-> "NONE", version |-> q.msg.version,
                   role |-> "UNKN", flags |-> {},
                   vector |-> q.msg.vector, times |-> q.msg.times]
  <2>1. InfoBegin(q) = [d EXCEPT !.info = "BEGIN", !.msgPortRole = "UNKN",
                                 !.msg = m]
    BY DEF InfoBegin
  <2>2. Fine(d) /\ DOMAIN d = PortField
    BY <1>2
  <2> HIDE DEF d, m
  <2> QED
    BY <2>1, <2>2, SMT DEF PortField
<1>4. /\ to = "UPDATE" => Fine(InfoUpdate(q))
      /\ to = "CURRENT" => Fine([q EXCEPT !.info = "CURRENT"])
      /\ to = "RECEIVE" => Fine(InfoReceive(q))
  BY SMT DEF IsPort, PortField, InfoUpdate, InfoReceive, Given
<1>5. /\ to = "SUPERIOR_DESIGNATED" => Fine(InfoSuperior(q))
      /\ to = "REPEATED_DESIGNATED" => Fine(InfoRepeated(q))
      /\ to = "OTHER" => Fine([q EXCEPT !.info = "OTHER",
                                        !.on = q.on \ {"rcvdMsg"}])
  BY <1>1, SMT DEF IsPort, PortField, InfoSuperior, InfoRepeated, Given, Timer
<1>6. /\ to = "INFERIOR_DESIGNATED" => Fine(InfoInferior(q))
      /\ to = "NOT_DESIGNATED" => Fine(InfoNotDesignated(q, b))
  BY <1>1, SMT DEF IsPort, PortField, InfoInferior, InfoNotDesignated, Given
<1>7. Fine(InfoEnter(q, b, to))
  BY <1>2, <1>3, <1>4, <1>5, <1>6 DEF InfoState, InfoEnter
<1> QED
  BY <1>7 DEF SameWait, SameGate

\* port.c, stpm.c: a port starts with its gate closed and a whole wait.
LEMMA StartedGate ==
  ASSUME NEW q, IsPort(q), NEW b, IsBridge(b)
  PROVE  LET r == Started(q, b) IN
         /\ r.roletrns = "BEGIN" /\ r.role = "DisabledPort"
         /\ r.sttrans = "BEGIN" /\ OrderedShut(r) /\ Discarding(r)
         /\ r.timer["fdWhile"] = b.rootTimes.ForwardDelay
         /\ "updtInfo" \in r.on => "updtInfo" \in q.on
<1> DEFINE q0 == WithoutRole(PortInit(q, b))
           q1 == TransmitEnter(q0, b, "BEGIN")
           q2 == SttransEnter(q1, "BEGIN")
           q3 == RoletrnsEnter(q2, b, "BEGIN")
           q4 == InfoEnter(q3, b, "BEGIN")
           q5 == PcostEnter(q4, "BEGIN")
           q6 == BrdgdetEnter(q5, "BEGIN")
           q7 == P2pEnter(q6, "BEGIN")
           q8 == MigrateEnter(q7, b, "BEGIN")
           q9 == TopochEnter(q8, b, "BEGIN")
           q10 == ReceiveEnter(q9, "BEGIN")
           Fine(r) == /\ r.roletrns = "BEGIN" /\ r.role = "DisabledPort"
                      /\ r.sttrans = "BEGIN" /\ OrderedShut(r) /\ Discarding(r)
                      /\ r.timer["fdWhile"] = b.rootTimes.ForwardDelay
           Updates(r) == "updtInfo" \in r.on => "updtInfo" \in q.on
<1>1. /\ "BEGIN" \in TransmitState /\ "BEGIN" \in SttransState
      /\ "BEGIN" \in RoletrnsState /\ "BEGIN" \in InfoState
      /\ "BEGIN" \in PcostState /\ "BEGIN" \in BrdgdetState
      /\ "BEGIN" \in P2pState /\ "BEGIN" \in MigrateState
      /\ "BEGIN" \in TopochState /\ "BEGIN" \in ReceiveState
  BY DEF TransmitState, SttransState, RoletrnsState, InfoState, PcostState,
         BrdgdetState, P2pState, MigrateState, TopochState, ReceiveState
<1>2. IsPort(q0)
  BY PortInitType, WithoutRoleType
<1>3. IsPort(q1)
  BY <1>1, <1>2, TransmitType
<1>4. IsPort(q2)
  BY <1>1, <1>3, SttransType
<1>5. IsPort(q3)
  BY <1>1, <1>4, RoletrnsType
<1>6. IsPort(q4)
  BY <1>1, <1>5, InfoType
<1>7. IsPort(q5)
  BY <1>1, <1>6, PcostType
<1>8. IsPort(q6)
  BY <1>1, <1>7, BrdgdetType
<1>9. IsPort(q7)
  BY <1>1, <1>8, P2pType
<1>10. IsPort(q8)
  BY <1>1, <1>9, MigrateType
<1>11. IsPort(q9)
  BY <1>1, <1>10, TopochType
<1>12. Started(q, b) = q10
  BY DEF Started, Begin
<1>13. Updates(q0)
  <2>1. DOMAIN PortReset(q) = PortField
        /\ ("updtInfo" \in PortReset(q).on => "updtInfo" \in q.on)
    BY SMT DEF PortReset, IsPort, PortField
  <2>2. /\ DOMAIN PortInit(q, b) = PortField
        /\ PortInit(q, b).on = PortReset(q).on
    BY <2>1, SMT DEF PortInit, PortField
  <2>3. WithoutRole(PortInit(q, b)).on = PortInit(q, b).on
    BY <2>2, SMT DEF WithoutRole, PortField
  <2> QED
    BY <2>1, <2>2, <2>3
<1> HIDE DEF q0, q1, q2, q3, q4, q5, q6, q7, q8, q9, q10
<1>14. Updates(q1)
  BY <1>1, <1>2, <1>13, OthersSame DEF q1, SameAll, SameInfo
<1>15. Updates(q2) /\ q2.sttrans = "BEGIN" /\ Discarding(q2)
  BY <1>3, <1>14, SMT DEF q2, SttransEnter, IsPort, PortField, Discarding
<1>16. Updates(q3) /\ Fine(q3)
  <2>1. q3 = InitPort(q2, b, "BEGIN")
    BY DEF q3, RoletrnsEnter
  <2>2. /\ Updates(q3)
        /\ q3.roletrns = "BEGIN" /\ q3.role = "DisabledPort"
        /\ q3.sttrans = "BEGIN" /\ OrderedShut(q3) /\ Discarding(q3)
    BY <1>4, <1>15, <2>1, SMT
       DEF IsPort, PortField, InitPort, OrderedShut, Discarding
  <2>3. q3.timer["fdWhile"] = b.rootTimes.ForwardDelay
    BY <1>4, <2>1, SMT DEF IsPort, PortField, InitPort, Timer
  <2> QED
    BY <2>2, <2>3
<1>17. \A r, s : SameWait(r, s) /\ Fine(r) => Fine(s)
  BY DEF SameWait, SameGate, OrderedShut, Discarding
<1>18. Updates(q4) /\ Fine(q4)
  BY <1>1, <1>5, <1>16, <1>17, InfoWait DEF q4
<1>19. Updates(q5) /\ Fine(q5)
  <2>1. Updates(q5)
    BY <1>6, <1>18, SMT DEF q5, IsPort, PortField, PcostEnter
  <2> QED
    BY <1>1, <1>6, <1>17, <1>18, <2>1, WaitKept DEF q5
<1>20. \A r, s : SameInfo(r, s) /\ Updates(r) => Updates(s)
  BY DEF SameInfo
<1>21. Updates(q6) /\ Fine(q6)
  BY <1>1, <1>7, <1>17, <1>19, <1>20, WaitKept, OthersSame DEF q6, SameAll
<1>22. Updates(q7) /\ Fine(q7)
  BY <1>1, <1>8, <1>17, <1>21, <1>20, WaitKept, OthersSame DEF q7, SameAll
<1>23. Updates(q8) /\ Fine(q8)
  BY <1>1, <1>9, <1>17, <1>22, <1>20, WaitKept, MigrateSound DEF q8
<1>24. Updates(q9) /\ Fine(q9)
  BY <1>1, <1>10, <1>17, <1>23, <1>20, WaitKept, OthersSame DEF q9, SameAll
<1>25. Updates(q10) /\ Fine(q10)
  BY <1>1, <1>11, <1>17, <1>24, <1>20, WaitKept, OthersSame DEF q10, SameAll
<1> QED
  BY <1>12, <1>25

-----------------------------------------------------------------------------
(* The Port Role Transitions machine at the gate.                          *)

\* roletrns.c: the states that turn learn and forward off, and on.
OffStates == {"INIT_PORT", "DISABLE_PORT", "BLOCK_PORT", "DESIGNATED_DISCARD"}
LearnStates == {"ROOT_LEARN", "DESIGNATED_LEARN"}
ForwardStates == {"ROOT_FORWARD", "DESIGNATED_FORWARD"}

\* What the machine leaves of a port q, on bridge b, in the state "to".
Entered(q, b, to) ==
  LET r == RoletrnsEnter(q, b, to) IN
  [r EXCEPT !.on = r.on \cup RoletrnsBroadcast(to)]

\* How long it makes the port wait.
WaitIn(q, b, to) ==
  IF to \in {"INIT_PORT", "ALTERNATE_PORT", "DESIGNATED_DISCARD"} \cup LearnStates
  THEN b.rootTimes.ForwardDelay
  ELSE IF to = "DISABLED_PORT" THEN b.rootTimes.MaxAge
  ELSE IF to \in ForwardStates THEN 0 ELSE q.timer["fdWhile"]

Ordered(q, r, b, to) ==
  /\ r.sttrans = q.sttrans
  /\ \A f \in {"learning", "forwarding"} : f \in r.on <=> f \in q.on
  /\ "learn" \in r.on <=>
       to \in LearnStates \/ ("learn" \in q.on /\ to \notin OffStates)
  /\ "forward" \in r.on <=>
       to \in ForwardStates \/ ("forward" \in q.on /\ to \notin OffStates)
  /\ r.timer["fdWhile"] = WaitIn(q, b, to)

\* Whether the port is synchronised, and gives way.
SameAgreement(q, r) ==
  /\ \A f \in {"sync", "synced", "agreed", "operEdge"} :
       f \in r.on <=> f \in q.on
  /\ r.timer["rrWhile"] = q.timer["rrWhile"]

LEMMA RoletrnsGate ==
  ASSUME NEW q, IsPort(q), NEW b, IsBridge(b),
         NEW to \in RoletrnsState \ {"BEGIN"}
  PROVE  LET r == Entered(q, b, to) IN
         /\ Ordered(q, r, b, to)
         /\ to \in {"DISABLE_PORT", "BLOCK_PORT", "DESIGNATED_PORT",
                    "DESIGNATED_PROPOSE", "DESIGNATED_RETIRED",
                    "DESIGNATED_DISCARD"} => SameAgreement(q, r)
         /\ to \in {"DISABLE_PORT", "BLOCK_PORT", "DESIGNATED_PORT",
                    "DESIGNATED_PROPOSE", "DESIGNATED_DISCARD"} =>
              ("reRoot" \in r.on <=> "reRoot" \in q.on)
<1> DEFINE r == RoletrnsEnter(q, b, to)
           Agrees == {"DISABLE_PORT", "BLOCK_PORT", "DESIGNATED_PORT",
                      "DESIGNATED_PROPOSE", "DESIGNATED_DISCARD"}
           Fine(s) ==
             /\ Ordered(q, s, b, to)
             /\ to \in Agrees \cup {"DESIGNATED_RETIRED"} => SameAgreement(q, s)
             /\ to \in Agrees => ("reRoot" \in s.on <=> "reRoot" \in q.on)
           fd == b.rootTimes.ForwardDelay
           Go(off, set) == Moved(q, to, off, set)
<1>1. DOMAIN q = PortField /\ q.timer \in [Timer -> Nat]
  BY DEF IsPort
<1>2. ASSUME Fine(r)
      PROVE  Fine(Entered(q, b, to))
  <2>1. DOMAIN r = PortField
    BY RoletrnsType DEF IsPort
  <2> DEFINE flags == RoletrnsBroadcast(to)
  <2>2. /\ flags \subseteq {"sync", "reRoot"}
        /\ to \in Agrees \cup {"DESIGNATED_RETIRED"} => flags = {}
    BY DEF RoletrnsBroadcast
  <2> DEFINE s == Entered(q, b, to)
  <2>3. s = [r EXCEPT !.on = r.on \cup flags]
    BY DEF Entered
  <2> HIDE DEF r, s, flags
  <2>4. s.on = r.on \cup flags /\ s.timer = r.timer /\ s.sttrans = r.sttrans
    BY <2>1, <2>3, SMT DEF PortField
  <2>5. \A f : f \notin {"sync", "reRoot"} => (f \in s.on <=> f \in r.on)
    BY <2>2, <2>4
  <2>6. Ordered(q, s, b, to)
    BY <1>2, <2>4, <2>5 DEF Ordered
  <2>7. to \in Agrees \cup {"DESIGNATED_RETIRED"} => s.on = r.on
    BY <2>2, <2>4
  <2>8. to \in Agrees \cup {"DESIGNATED_RETIRED"} => SameAgreement(q, s)
    BY <1>2, <2>4, <2>7 DEF SameAgreement
  <2>9. to \in Agrees => ("reRoot" \in s.on <=> "reRoot" \in q.on)
    BY <1>2, <2>7
  <2> QED
    BY <2>6, <2>8, <2>9 DEF s
<1> HIDE DEF Agrees
<1> SUFFICES Fine(r)
  BY <1>2 DEF Agrees
<1> USE DEF Agrees
<1>3. CASE to = "INIT_PORT"
  <2>1. r = InitPort(q, b, to)
    BY <1>3 DEF RoletrnsEnter
  <2>2. /\ r.sttrans = q.sttrans
        /\ r.on = q.on \ {"learn", "forward", "synced", "sync", "reRoot"}
        /\ r.timer["fdWhile"] = fd
    BY <1>1, <2>1, SMT DEF InitPort, PortField, Timer
  <2> HIDE DEF r
  <2> QED
    BY <1>3, <2>2
       DEF Ordered, WaitIn, OffStates, LearnStates, ForwardStates
<1>4. CASE to \in {"DISABLE_PORT", "BLOCK_PORT"}
  <2>1. r = TakeRole(q, to)
    BY <1>4 DEF RoletrnsEnter
  <2>2. /\ r.sttrans = q.sttrans
        /\ r.on = q.on \ {"learn", "forward"} /\ r.timer = q.timer
    BY <1>1, <2>1, SMT DEF TakeRole, PortField
  <2> HIDE DEF r
  <2> QED
    BY <1>4, <2>2
       DEF Ordered, WaitIn, OffStates, LearnStates, ForwardStates,
           SameAgreement
<1>5. CASE to \in {"DISABLED_PORT", "ALTERNATE_PORT"}
  <2>1. ASSUME NEW n
        PROVE  /\ Retired(q, to, n).sttrans = q.sttrans
               /\ Retired(q, to, n).on =
                    (q.on \ {"sync", "reRoot"}) \cup {"synced"}
               /\ Retired(q, to, n).timer["fdWhile"] = n
    BY <1>1, SMT DEF Retired, PortField, Timer
  <2>2. r = Retired(q, to, WaitIn(q, b, to))
    BY <1>5 DEF RoletrnsEnter, WaitIn, LearnStates
  <2> HIDE DEF r
  <2> QED
    BY <1>5, <2>1, <2>2 DEF Ordered, OffStates, LearnStates, ForwardStates
<1>6. CASE to \in {"ROOT_PORT", "DESIGNATED_PORT"}
  <2>1. /\ r.sttrans = q.sttrans /\ r.on = q.on
        /\ r.timer["fdWhile"] = q.timer["fdWhile"]
        /\ to = "DESIGNATED_PORT" => r.timer = q.timer
    <3>1. ASSUME NEW n
          PROVE  LET t == [Timed(q, "rrWhile", n)
                             EXCEPT !.roletrns = to, !.role = "RootPort"] IN
                 /\ t.sttrans = q.sttrans /\ t.on = q.on
                 /\ t.timer["fdWhile"] = q.timer["fdWhile"]
      BY <1>1, SMT DEF Timed, PortField, Timer
    <3>2. LET t == [q EXCEPT !.roletrns = to, !.role = "DesignatedPort"] IN
          /\ t.sttrans = q.sttrans /\ t.on = q.on /\ t.timer = q.timer
      BY <1>1, SMT DEF PortField
    <3>3. \/ r = [Timed(q, "rrWhile", fd)
                    EXCEPT !.roletrns = to, !.role = "RootPort"]
             /\ to = "ROOT_PORT"
          \/ r = [q EXCEPT !.roletrns = to, !.role = "DesignatedPort"]
      BY <1>6 DEF RoletrnsEnter
    <3> HIDE DEF r
    <3> QED
      BY <1>6, <3>1, <3>2, <3>3
  <2> HIDE DEF r
  <2> QED
    BY <1>6, <2>1
       DEF Ordered, WaitIn, OffStates, LearnStates, ForwardStates,
           SameAgreement
<1>7. ASSUME NEW off, NEW set
      PROVE  /\ Go(off, set).sttrans = q.sttrans
             /\ Go(off, set).on = (q.on \ off) \cup set
             /\ Go(off, set).timer = q.timer
             /\ DOMAIN Go(off, set) = PortField
  BY <1>1, SMT DEF Moved, PortField
<1>8. ASSUME NEW s, DOMAIN s = PortField, s.timer = q.timer,
             NEW t \in Timer, NEW n
      PROVE  /\ Timed(s, t, n).sttrans = s.sttrans
             /\ Timed(s, t, n).on = s.on
             /\ Timed(s, t, n).timer[t] = n
             /\ \A u \in Timer : u # t => Timed(s, t, n).timer[u] = q.timer[u]
  BY <1>1, <1>8, SMT DEF Timed, PortField
<1>9. ASSUME NEW off, NEW set, NEW t \in Timer, NEW n,
              r = Timed(Go(off, set), t, n)
       PROVE  /\ r.sttrans = q.sttrans /\ r.on = (q.on \ off) \cup set
              /\ r.timer[t] = n
              /\ \A u \in Timer : u # t => r.timer[u] = q.timer[u]
  <2> DEFINE s == Go(off, set)
  <2>1. /\ s.sttrans = q.sttrans /\ s.on = (q.on \ off) \cup set
        /\ s.timer = q.timer /\ DOMAIN s = PortField
    BY <1>7
  <2>2. r = Timed(s, t, n)
    BY <1>9
  <2> HIDE DEF r, Go, s
  <2>3. /\ Timed(s, t, n).sttrans = s.sttrans
        /\ Timed(s, t, n).on = s.on
        /\ Timed(s, t, n).timer[t] = n
        /\ \A u \in Timer : u # t => Timed(s, t, n).timer[u] = q.timer[u]
    BY <1>8, <2>1
  <2> DEFINE z == Timed(s, t, n)
  <2> HIDE DEF z
  <2>4. r = z
    BY <2>2 DEF z
  <2>5. z.sttrans = q.sttrans /\ z.on = (q.on \ off) \cup set
    BY <2>1, <2>3 DEF z
  <2>6. z.timer[t] = n /\ \A u \in Timer : u # t => z.timer[u] = q.timer[u]
    BY <2>3 DEF z
  <2> QED
    BY <2>4, <2>5, <2>6
<1>10. /\ {"fdWhile", "rrWhile", "rbWhile", "edgeDelayWhile"} \subseteq Timer
       /\ "fdWhile" # "rrWhile" /\ "fdWhile" # "rbWhile"
       /\ "fdWhile" # "edgeDelayWhile" /\ "rrWhile" # "edgeDelayWhile"
  BY DEF Timer
<1>11. CASE to \in {"ROOT_PROPOSED", "ALTERNATE_PROPOSED", "ROOT_AGREED",
                   "ALTERNATE_AGREED", "REROOT", "REROOTED",
                   "DESIGNATED_RETIRED"}
  <2>1. \E off \in SUBSET {"proposed", "sync", "reRoot"} :
        \E set \in SUBSET {"agree", "newInfo"} :
          r = Go(off, set)
          /\ (to = "DESIGNATED_RETIRED" => off = {"reRoot"} /\ set = {})
    <3>1. CASE to \in {"ROOT_PROPOSED", "ALTERNATE_PROPOSED"}
      <4>1. r = Go({"proposed"}, {})
        BY <3>1 DEF RoletrnsEnter
      <4> HIDE DEF r, Go
      <4> QED
        BY <3>1, <4>1
    <3>2. CASE to = "ROOT_AGREED"
      <4>1. r = Go({"proposed", "sync"}, {"agree", "newInfo"})
        BY <3>2 DEF RoletrnsEnter
      <4> HIDE DEF r, Go
      <4> QED
        BY <3>2, <4>1
    <3>3. CASE to = "ALTERNATE_AGREED"
      <4>1. r = Go({"proposed"}, {"agree", "newInfo"})
        BY <3>3 DEF RoletrnsEnter
      <4> HIDE DEF r, Go
      <4> QED
        BY <3>3, <4>1
    <3>4. CASE to = "REROOT"
      <4>1. r = Go({}, {})
        BY <3>4 DEF RoletrnsEnter
      <4> HIDE DEF r, Go
      <4> QED
        BY <3>4, <4>1
    <3>5. CASE to \in {"REROOTED", "DESIGNATED_RETIRED"}
      <4>1. r = Go({"reRoot"}, {})
        BY <3>5 DEF RoletrnsEnter
      <4> HIDE DEF r, Go
      <4> QED
        BY <3>5, <4>1
    <3> QED
      BY <1>11, <3>1, <3>2, <3>3, <3>4, <3>5
  <2> HIDE DEF r, Go
  <2> QED
    BY <1>7, <1>11, <2>1
       DEF Ordered, WaitIn, OffStates, LearnStates, ForwardStates,
           SameAgreement
<1>12. CASE to \in LearnStates
  <2>1. r = Timed(Go({}, {"learn"}), "fdWhile", fd)
    BY <1>12 DEF RoletrnsEnter, LearnStates
  <2> HIDE DEF r, Go
  <2>2. /\ r.sttrans = q.sttrans /\ r.on = (q.on \ {}) \cup {"learn"}
        /\ r.timer["fdWhile"] = fd
    BY <1>9, <1>10, <2>1
  <2> QED
    BY <1>12, <2>2 DEF Ordered, WaitIn, OffStates, LearnStates, ForwardStates
<1>13. CASE to = "ROOT_FORWARD"
  <2>1. r = Timed(Go({}, {"forward"}), "fdWhile", 0)
    BY <1>13 DEF RoletrnsEnter
  <2> HIDE DEF r, Go
  <2>2. /\ r.sttrans = q.sttrans /\ r.on = (q.on \ {}) \cup {"forward"}
        /\ r.timer["fdWhile"] = 0
    BY <1>9, <1>10, <2>1
  <2> QED
    BY <1>13, <2>2 DEF Ordered, WaitIn, OffStates, LearnStates, ForwardStates
<1>14. CASE to = "DESIGNATED_FORWARD"
  <2> DEFINE set == {"forward"} \cup Given("sendRSTP" \in q.on, {"agreed"})
  <2>1. r = Timed(Go({"agreed"}, set), "fdWhile", 0)
    BY <1>14 DEF RoletrnsEnter
  <2>3. set \subseteq {"forward", "agreed"} /\ "forward" \in set
    BY DEF Given
  <2> HIDE DEF r, Go, set
  <2>2. /\ r.sttrans = q.sttrans /\ r.on = (q.on \ {"agreed"}) \cup set
        /\ r.timer["fdWhile"] = 0
    BY <1>9, <1>10, <2>1
  <2> QED
    BY <1>14, <2>2, <2>3
       DEF Ordered, WaitIn, OffStates, LearnStates, ForwardStates
<1>15. CASE to = "DESIGNATED_PROPOSE"
  <2>1. r = Timed(Go({}, {"proposing", "newInfo"}), "edgeDelayWhile",
                  EdgeDelay(q, b))
    BY <1>15 DEF RoletrnsEnter
  <2> HIDE DEF r, Go
  <2>2. /\ r.sttrans = q.sttrans /\ r.on = (q.on \ {}) \cup {"proposing", "newInfo"}
        /\ r.timer["fdWhile"] = q.timer["fdWhile"]
        /\ r.timer["rrWhile"] = q.timer["rrWhile"]
    BY <1>9, <1>10, <2>1
  <2> QED
    BY <1>15, <2>2
       DEF Ordered, WaitIn, OffStates, LearnStates, ForwardStates,
           SameAgreement
<1>16. CASE to = "DESIGNATED_SYNCED"
  <2>1. r = Timed(Go({"sync"}, {"synced"}), "rrWhile", 0)
    BY <1>16 DEF RoletrnsEnter
  <2> HIDE DEF r, Go
  <2>2. /\ r.sttrans = q.sttrans /\ r.on = (q.on \ {"sync"}) \cup {"synced"}
        /\ r.timer["fdWhile"] = q.timer["fdWhile"]
    BY <1>9, <1>10, <2>1
  <2> QED
    BY <1>16, <2>2
       DEF Ordered, WaitIn, OffStates, LearnStates, ForwardStates
<1>17. CASE to = "DESIGNATED_DISCARD"
  <2>1. r = Timed(Go({"learn", "forward"}, {}), "fdWhile", fd)
    BY <1>17 DEF RoletrnsEnter
  <2> HIDE DEF r, Go
  <2>2. /\ r.sttrans = q.sttrans /\ r.on = (q.on \ {"learn", "forward"}) \cup {}
        /\ r.timer["fdWhile"] = fd
        /\ r.timer["rrWhile"] = q.timer["rrWhile"]
    BY <1>9, <1>10, <2>1
  <2> QED
    BY <1>17, <2>2
       DEF Ordered, WaitIn, OffStates, LearnStates, ForwardStates,
           SameAgreement
<1>18. CASE to = "BACKUP_PORT"
  <2> DEFINE hello == 2 * b.rootTimes.HelloTime
             no == {}
  <2>1. r = Timed(Go(no, no), "rbWhile", hello)
    BY <1>18 DEF RoletrnsEnter
  <2> HIDE DEF r, Go, hello, no
  <2>2. /\ r.sttrans = q.sttrans /\ r.on = (q.on \ no) \cup no
        /\ r.timer["fdWhile"] = q.timer["fdWhile"]
    BY <1>9, <1>10, <2>1
  <2> QED
    BY <1>18, <2>2
       DEF no, Ordered, WaitIn, OffStates, LearnStates, ForwardStates
<1> HIDE DEF r, Agrees
<1> QED
  BY <1>3, <1>4, <1>5, <1>6, <1>11, <1>12, <1>13, <1>14, <1>15, <1>16, <1>17,
     <1>18 DEF RoletrnsState, LearnStates

\* roletrns.c: from a port that is to be closed and that the kernel has not
\* closed, the machine goes on closing it, and never to learning.
LEMMA WaitsOn ==
  ASSUME NEW q, IsPort(q), NEW b, IsBridge(b), NEW others,
         NEW to \in RoletrnsState, RoletrnsHop(q, b, others, to),
         KeptShut(q), Gated(q), Stepwise(q),
         q.roletrns \in ClosingStates => q.role = q.selectedRole,
         Unclosed(q) /\ NewRole(q) => q.selectedRole = "NonStpPort"
  PROVE  LET r == Entered(q, b, to) IN
         /\ to \in LearnStates => q.sttrans \notin OpenStates
         /\ r.roletrns = to => KeptShut(r)
         /\ Stepwise(r)
<1> DEFINE r == Entered(q, b, to)
<1>1. to # "BEGIN"
  BY RoletrnsSource
<1>2. Ordered(q, r, b, to)
  BY <1>1, RoletrnsGate
<1>3. /\ to \in {"DISABLE_PORT", "BLOCK_PORT", "DESIGNATED_PORT",
                 "DESIGNATED_PROPOSE", "DESIGNATED_RETIRED",
                 "DESIGNATED_DISCARD"} => SameAgreement(q, r)
      /\ to \in {"DISABLE_PORT", "BLOCK_PORT", "DESIGNATED_PORT",
                 "DESIGNATED_PROPOSE", "DESIGNATED_DISCARD"} =>
           ("reRoot" \in r.on <=> "reRoot" \in q.on)
  BY <1>1, RoletrnsGate
<1> HIDE DEF r
<1>4. q.sttrans \in OpenStates => ~Discarding(q)
  BY DEF Gated, Stepwise, OpenStates, Discarding
<1>5. ASSUME Holding(q), SameAgreement(q, r),
             "reRoot" \in r.on <=> "reRoot" \in q.on
      PROVE  Holding(r)
  BY <1>2, <1>5 DEF Holding, SameAgreement, Ordered, Discarding, Trusted,
                    Retiring
<1>6. ASSUME Unclosed(q)
      PROVE  \/ to \in ClosingStates
             \/ to \in DesignatedStates \cup {"DESIGNATED_PORT"} /\ Holding(r)
                /\ to \notin LearnStates
  <2>1. ~(NewRole(q) /\ RoleEntry(q, to))
    BY <1>6 DEF RoleEntry
  <2>2. q.sttrans \in OpenStates /\ q.on \cap {"learning", "forwarding"} # {}
    BY <1>4, <1>6 DEF Unclosed, Discarding
  <2>3. CASE q.roletrns = "INIT_PORT"
    BY <2>1, <2>3
       DEF RoletrnsHop, RootStates, DesignatedStates, ClosingStates
  <2>4. CASE q.roletrns \in ClosingStates
    <3>1. ~NewRole(q)
      BY <2>4 DEF NewRole
    <3> QED
      BY <2>2, <2>4, <3>1
         DEF RoletrnsHop, RootStates, DesignatedStates, ClosingStates
  <2>5. CASE /\ q.roletrns \in DesignatedStates \cup {"DESIGNATED_PORT"}
             /\ Holding(q)
    <3>1. CASE q.roletrns \in DesignatedStates
      <4>1. to = "DESIGNATED_PORT"
        BY <2>1, <3>1 DEF RoletrnsHop, RootStates, DesignatedStates
      <4> QED
        BY <1>3, <1>5, <2>5, <4>1 DEF LearnStates
    <3>2. CASE q.roletrns = "DESIGNATED_PORT"
      <4>1. FromDesignatedPort(q, to)
        BY <2>1, <3>2 DEF RoletrnsHop, RootStates, DesignatedStates
      <4>2. ~MayForward(q)
        BY <2>5 DEF Holding, MayForward
      <4>3. to # "DESIGNATED_SYNCED"
        BY <2>5, <4>1 DEF Holding, FromDesignatedPort, Discarding
      <4>4. to \in {"DESIGNATED_PROPOSE", "DESIGNATED_RETIRED",
                    "DESIGNATED_DISCARD"}
        BY <4>1, <4>2, <4>3 DEF FromDesignatedPort
      <4>5. CASE to \in {"DESIGNATED_PROPOSE", "DESIGNATED_DISCARD"}
        BY <1>3, <1>5, <2>5, <4>5 DEF LearnStates, DesignatedStates
      <4>6. CASE to = "DESIGNATED_RETIRED"
        <5>1. q.timer["rrWhile"] = 0
          BY <4>1, <4>6 DEF FromDesignatedPort
        <5>2. SameAgreement(q, r)
          BY <1>3, <4>6
        <5>3. Holding(r)
          BY <1>2, <2>5, <5>1, <5>2
             DEF Holding, SameAgreement, Ordered, Discarding, Trusted, Retiring
        <5> QED
          BY <4>6, <5>3 DEF LearnStates, DesignatedStates
      <4> QED
        BY <4>4, <4>5, <4>6
    <3> QED
      BY <2>5, <3>1, <3>2
  <2> QED
    BY <1>6, <2>3, <2>4, <2>5 DEF KeptShut
<1>7. to \in LearnStates => q.sttrans \notin OpenStates
  <2> SUFFICES ASSUME to \in LearnStates, q.sttrans \in OpenStates
               PROVE  FALSE
    OBVIOUS
  <2>1. "learn" \notin q.on
    <3>1. \/ to = "ROOT_LEARN" /\ FromRootPort(q, b, others, to)
          \/ to = "DESIGNATED_LEARN" /\ FromDesignatedPort(q, to)
      BY DEF LearnStates, RoletrnsHop, RoleEntry, FromAlternatePort,
             FromDisabledPort, FromRootPort, FromDesignatedPort
    <3> QED
      BY <3>1 DEF FromRootPort, FromDesignatedPort
  <2>2. Unclosed(q)
    BY <2>1 DEF Unclosed
  <2> QED
    BY <1>6, <2>2 DEF LearnStates, ClosingStates
<1>8. ASSUME r.roletrns = to, Unclosed(r)
      PROVE  \/ to \in ClosingStates \cup {"INIT_PORT"}
             \/ /\ to \in DesignatedStates \cup {"DESIGNATED_PORT"}
                /\ Holding(r)
  <2>1. CASE to = "DESIGNATED_DISCARD"
    <3>1. FromDesignatedPort(q, to)
      BY <2>1 DEF RoletrnsHop, RoleEntry, FromRootPort, FromAlternatePort,
                  FromDisabledPort
    <3>2. q.sttrans \in OpenStates
      BY <1>2, <1>8 DEF Ordered, Unclosed
    <3>3. Holding(q)
      BY <1>4, <2>1, <3>1, <3>2
         DEF FromDesignatedPort, Holding, MustDiscard, Discarding, Trusted
    <3> QED
      BY <1>3, <1>5, <2>1, <3>3 DEF DesignatedStates
  <2>2. CASE to \notin OffStates
    <3>1. Unclosed(q)
      BY <1>2, <1>8, <2>2 DEF Ordered, Unclosed
    <3> QED
      BY <1>6, <3>1
  <2> QED
    BY <2>1, <2>2 DEF OffStates, ClosingStates
<1>9. Stepwise(r)
  <2>1. to \in ForwardStates => "learn" \in q.on
    <3> SUFFICES ASSUME to \in ForwardStates
                 PROVE  "learn" \in q.on
      OBVIOUS
    <3>1. \/ to = "ROOT_FORWARD" /\ FromRootPort(q, b, others, to)
          \/ to = "DESIGNATED_FORWARD" /\ FromDesignatedPort(q, to)
      BY DEF ForwardStates, RoletrnsHop, RoleEntry, FromAlternatePort,
             FromDisabledPort, FromRootPort, FromDesignatedPort
    <3> QED
      BY <3>1 DEF FromRootPort, FromDesignatedPort
  <2>2. /\ LearnStates \cap OffStates = {} /\ ForwardStates \cap OffStates = {}
        /\ LearnStates \cap ForwardStates = {}
    BY DEF LearnStates, ForwardStates, OffStates
  <2> QED
    BY <1>2, <1>7, <2>1, <2>2 DEF Ordered, Stepwise, OpenStates
<1> QED
  BY <1>7, <1>8, <1>9 DEF KeptShut, r

-----------------------------------------------------------------------------
(* A step of the Port Role Transitions machine keeps the gate held.        *)

\* rolesel.c: a port is selected when no selection is called for.
LEMMA QuietSelected ==
  ASSUME TypeOK, NEW p \in Listed(bridge), InService(port[p]),
         ~Ready(RoleselMachine)
  PROVE  "selected" \in port[p].on
<1>1. RoleselMachine.machine = "rolesel"
  BY DEF RoleselMachine
<1>2. \A to \in RoleselState : ~RoleselHop(bridge, port, to)
  BY <1>1 DEF Ready
<1>3. bridge.rolesel \in RoleselState
  BY DEF TypeOK, IsBridge
<1>4. "reselect" \notin port[p].on
  BY <1>2, <1>3 DEF RoleselHop, RoleselState
<1> QED
  BY <1>4 DEF InService

\* stpm.c: the role selection machine is the first of all.
LEMMA AheadSelects ==
  ASSUME NEW p \in Port, AheadQuiet(p)
  PROVE  ~Ready(RoleselMachine)
<1>1. 1 \in DOMAIN MachineOrder /\ MachineOrder[1] = "transmit"
  BY SMT DEF MachineOrder
<1>2. RoleselMachine \in Before(Machine("transmit", p))
  <2>1. Before(Machine(MachineOrder[1], p)) = Ahead(p, 1)
    BY <1>1, AheadOf
  <2>2. RoleselMachine \in Ahead(p, 1)
    BY DEF Ahead
  <2> QED
    BY <1>1, <2>1, <2>2
<1>3. RoleselMachine.port # p
  BY PortAssumption DEF RoleselMachine
<1> QED
  BY <1>2, <1>3 DEF AheadQuiet

\* What the machine finds when it moves.
LEMMA MovesHeld ==
  ASSUME TypeOK, NEW p \in Listed(bridge), RoletrnsStep(p), GateHeld(p),
         Handled(port[p], Turns(p))
  PROVE  LET q == port[p] IN
         /\ KeptShut(q)
         /\ Unclosed(q) /\ NewRole(q) => q.selectedRole = "NonStpPort"
         /\ ~Ready(RoleselMachine)
         /\ InTurn("roletrns", p) \/ AheadQuiet(p)
<1> DEFINE q == port[p]
<1>1. CASE InTurn("roletrns", p)
  <2>1. /\ KeptShut(q) /\ ~Ready(RoleselMachine)
        /\ NewRole(q) => q.roletrns = "INIT_PORT"
                         \/ q.selectedRole = "NonStpPort"
        /\ q.roletrns = "INIT_PORT" => q.role = "DisabledPort"
    BY <1>1 DEF GateHeld, TurnHeld
  <2>2. q.roletrns = "INIT_PORT" =>
          q.selectedRole \in {"DisabledPort", "NonStpPort"}
    BY DEF Handled, Fresh, FreshStates
  <2> QED
    BY <1>1, <2>1, <2>2 DEF NewRole
<1>2. CASE ~InTurn("roletrns", p)
  <2>1. AheadQuiet(p) /\ ~Ready(Machine("sttrans", p))
    BY <1>2, StepTurns, TurnAhead
  <2>2. ~Ready(RoleselMachine)
    BY <2>1, ListedPorts, AheadSelects DEF TypeOK
  <2>3. ~Unclosed(q)
    <3>1. \A to \in SttransState : ~SttransHop(q, to)
      BY <2>1, ReadyOf
    <3>2. Stepwise(q)
      BY DEF GateHeld
    <3> HIDE DEF q
    <3> QED
      BY <3>1, <3>2
         DEF Unclosed, OpenStates, Stepwise, SttransHop, SttransState
  <2> QED
    BY <2>1, <2>2, <2>3 DEF KeptShut
<1> QED
  BY <1>1, <1>2

\* roletrns.c: what the machine makes of its port.
LEMMA EnteredKeeps ==
  ASSUME NEW q, IsPort(q), NEW b, IsBridge(b), NEW others,
         NEW to \in RoletrnsState, RoletrnsHop(q, b, others, to)
  PROVE  LET r == Entered(q, b, to) IN
         /\ to # "BEGIN" /\ r.roletrns = to
         /\ SameInfo(q, r)
         /\ to \in ClosingStates => r.role = q.selectedRole
         /\ to = "INIT_PORT" => r.role = "DisabledPort"
         /\ to = "ROOT_PORT" => r.role = "RootPort"
         /\ to = "DESIGNATED_PORT" => r.role = "DesignatedPort"
         /\ to \notin ClosingStates \cup {"INIT_PORT", "ROOT_PORT",
                                          "DESIGNATED_PORT"} =>
              r.role = q.role
         /\ Gated(q) => Gated(r)
<1> DEFINE r == RoletrnsEnter(q, b, to)
           s == Entered(q, b, to)
<1>1. to # "BEGIN"
  BY RoletrnsSource
<1>2. SameInfo(q, r) /\ (Gated(q) => Gated(r))
  BY RoletrnsSound
<1>3. /\ r.roletrns = to
      /\ to \in {"DISABLE_PORT", "BLOCK_PORT"} => r.role = q.selectedRole
      /\ to = "INIT_PORT" => r.role = "DisabledPort"
      /\ to = "ROOT_PORT" => r.role = "RootPort"
      /\ to = "DESIGNATED_PORT" => r.role = "DesignatedPort"
      /\ to \notin {"INIT_PORT", "DISABLE_PORT", "BLOCK_PORT", "ROOT_PORT",
                    "DESIGNATED_PORT"} => r.role = q.role
  BY <1>1, RoletrnsTakes
<1>4. DOMAIN r = PortField
  BY RoletrnsType DEF IsPort
<1>5. s = [r EXCEPT !.on = r.on \cup RoletrnsBroadcast(to)]
  BY DEF Entered
<1> HIDE DEF r, s
<1>6. SameInfo(r, s) /\ SameGate(r, s)
  BY <1>4, <1>5, SMT
     DEF SameInfo, SameGate, PortField, RoletrnsBroadcast
<1>7. SameInfo(q, s)
  BY <1>2, <1>6 DEF SameInfo
<1>8. Gated(q) => Gated(s)
  BY <1>2, <1>6, GatedSame
<1> QED
  BY <1>1, <1>3, <1>6, <1>7, <1>8 DEF SameGate, ClosingStates, s

\* The step, as the port, the bridge and the other ports see it.
LEMMA RoletrnsEffect ==
  ASSUME TypeOK, NEW p \in Port, RoletrnsStep(p)
  PROVE  /\ bridge' = bridge /\ call # "none" /\ call' = call
         /\ running' = Machine("roletrns", p)
         /\ \E to \in RoletrnsState :
              /\ RoletrnsHop(port[p], bridge, Others(p), to)
              /\ port'[p] = Entered(port[p], bridge, to)
              /\ \A x \in Listed(bridge) \ {p} :
                   "reselect" \in port'[x].on <=> "reselect" \in port[x].on
              /\ to \in ClosingStates =>
                   \A x \in Port \ {p} : SameFields(port[x], port'[x])
<1>1. PICK to \in RoletrnsState :
        /\ RoletrnsHop(port[p], bridge, Others(p), to)
        /\ LET r == RoletrnsEnter(port[p], bridge, to) IN
           PortMovedAll("roletrns", p,
                        [r EXCEPT !.on = r.on \cup RoletrnsBroadcast(to)],
                        RoletrnsBroadcast(to))
  BY DEF RoletrnsStep
<1> DEFINE flags == RoletrnsBroadcast(to)
<1>2. flags \subseteq {"sync", "reRoot"} /\ (to \in ClosingStates => flags = {})
  BY DEF RoletrnsBroadcast, ClosingStates
<1>3. /\ bridge' = bridge /\ call # "none" /\ call' = call
      /\ running' = Machine("roletrns", p)
      /\ port'[p] = Entered(port[p], bridge, to)
      /\ \A x \in Port \ {p} :
           port'[x] = IF x \in Listed(bridge)
                      THEN [port[x] EXCEPT !.on = port[x].on \cup flags]
                      ELSE port[x]
  BY <1>1 DEF PortMovedAll, Turn, Entered
<1> HIDE DEF flags
<1>4. ASSUME NEW x \in Port \ {p}
      PROVE  /\ "reselect" \in port'[x].on <=> "reselect" \in port[x].on
             /\ to \in ClosingStates => SameFields(port[x], port'[x])
  <2>1. DOMAIN port[x] = PortField
    BY DEF TypeOK, IsPort
  <2>2. CASE x \in Listed(bridge)
    <3>1. port'[x] = [port[x] EXCEPT !.on = port[x].on \cup flags]
      BY <1>3, <2>2
    <3>2. port'[x].on = port[x].on \cup flags
      BY <2>1, <3>1, SMT DEF PortField
    <3>3. \A f \in PortField : f # "on" => port'[x][f] = port[x][f]
      BY <2>1, <3>1
    <3>4. flags = {} => port'[x].on = port[x].on
      BY <3>2
    <3> QED
      BY <1>2, <3>2, <3>3, <3>4 DEF SameFields
  <2>3. CASE x \notin Listed(bridge)
    BY <1>3, <2>3 DEF SameFields
  <2> QED
    BY <2>2, <2>3
<1> QED
  BY <1>1, <1>3, <1>4, ListedPorts DEF TypeOK

\* roletrns.c: after its step the port has the role it was selected for, but
\* if it starts or is outside the protocol; and it passes on at once from the
\* other states of a blocked port.
LEMMA EnteredRole ==
  ASSUME NEW q, IsPort(q), NEW b, IsBridge(b), NEW others,
         NEW to \in RoletrnsState, RoletrnsHop(q, b, others, to), Gated(q)
  PROVE  LET r == Entered(q, b, to) IN
         /\ NewRole(r) => to = "INIT_PORT" \/ r.selectedRole = "NonStpPort"
         /\ to \in {"ALTERNATE_PROPOSED", "ALTERNATE_AGREED", "BACKUP_PORT"} =>
              Settled(r) /\ ~NewRole(r)
<1> DEFINE r == Entered(q, b, to)
<1>1. /\ SameInfo(q, r)
      /\ to \in ClosingStates => r.role = q.selectedRole
      /\ to = "ROOT_PORT" => r.role = "RootPort"
      /\ to = "DESIGNATED_PORT" => r.role = "DesignatedPort"
      /\ to \notin ClosingStates \cup {"INIT_PORT", "ROOT_PORT",
                                       "DESIGNATED_PORT"} =>
           r.role = q.role
  BY EnteredKeeps
<1> HIDE DEF r
<1>2. r.selectedRole = q.selectedRole /\ (Settled(r) <=> Settled(q))
  BY <1>1 DEF SameInfo, Settled
<1>3. CASE to \in ClosingStates
  BY <1>1, <1>2, <1>3 DEF NewRole, ClosingStates, r
<1>4. CASE to = "ROOT_PORT"
  <2>1. \/ q.selectedRole = "RootPort"
        \/ q.roletrns \in RootStates \cup {"ROOT_PORT"} /\ ~NewRole(q)
    BY <1>4 DEF RoletrnsHop, RoleEntry, RootStates, FromDisabledPort,
                FromRootPort, FromDesignatedPort, FromAlternatePort
  <2>2. q.roletrns \in RootStates \cup {"ROOT_PORT"} =>
          q.role \in {"RootPort", "NonStpPort"}
    BY DEF Gated
  <2> QED
    BY <1>1, <1>2, <1>4, <2>1, <2>2 DEF NewRole, r
<1>5. CASE to = "DESIGNATED_PORT"
  <2>1. \/ q.selectedRole = "DesignatedPort"
        \/ q.roletrns \in DesignatedStates /\ ~NewRole(q)
    BY <1>5 DEF RoletrnsHop, RoleEntry, DesignatedStates, FromDisabledPort,
                FromRootPort, FromDesignatedPort, FromAlternatePort
  <2>2. q.roletrns \in DesignatedStates =>
          q.role \in {"DesignatedPort", "NonStpPort"}
    BY DEF Gated
  <2> QED
    BY <1>1, <1>2, <1>5, <2>1, <2>2 DEF NewRole, r
<1>6. CASE to \notin ClosingStates \cup {"INIT_PORT", "ROOT_PORT",
                                         "DESIGNATED_PORT"}
  <2>1. ~NewRole(q) \/ q.roletrns = "BEGIN"
    BY <1>6 DEF RoletrnsHop, RoleEntry, ClosingStates
  <2>2. q.roletrns # "BEGIN"
    BY <1>6 DEF RoletrnsHop
  <2>3. to \in {"ALTERNATE_PROPOSED", "ALTERNATE_AGREED", "BACKUP_PORT"} =>
          Settled(q)
    BY <2>1, <2>2 DEF RoletrnsHop
  <2> QED
    BY <1>1, <1>2, <1>6, <2>1, <2>2, <2>3 DEF NewRole, r
<1>7. CASE to = "INIT_PORT"
  BY <1>7
<1> QED
  BY <1>3, <1>4, <1>5, <1>6, <1>7

\* ... and from one state to the next.
LEMMA MovedGate ==
  ASSUME TypeOK, NEW p \in Listed(bridge), RoletrnsStep(p), GateHeld(p),
         Gated(port[p]), InService(port[p]), Handled(port[p], Turns(p))
  PROVE  GateHeld(p)'
<1> DEFINE q == port[p]
           r == port'[p]
<1>1. p \in Port /\ IsBridge(bridge)
  BY ListedPorts DEF TypeOK
<1>2. IsPort(q) /\ IsBridge(bridge)
  BY <1>1 DEF TypeOK
<1>3. PICK to \in RoletrnsState :
        /\ bridge' = bridge /\ call # "none" /\ call' = call
        /\ running' = Machine("roletrns", p)
        /\ RoletrnsHop(q, bridge, Others(p), to)
        /\ r = Entered(q, bridge, to)
        /\ \A x \in Listed(bridge) \ {p} :
             "reselect" \in port'[x].on <=> "reselect" \in port[x].on
        /\ to \in ClosingStates =>
             \A x \in Port \ {p} : SameFields(port[x], port'[x])
  BY <1>1, RoletrnsEffect
<1>4. /\ KeptShut(q)
      /\ Unclosed(q) /\ NewRole(q) => q.selectedRole = "NonStpPort"
      /\ ~Ready(RoleselMachine)
      /\ InTurn("roletrns", p) \/ AheadQuiet(p)
  BY MovesHeld
<1>5. /\ to # "BEGIN" /\ r.roletrns = to
      /\ SameInfo(q, r)
      /\ to \in ClosingStates => r.role = q.selectedRole
      /\ to = "INIT_PORT" => r.role = "DisabledPort"
  BY <1>2, <1>3, EnteredKeeps
<1>6. Ordered(q, r, bridge, to)
      /\ (to \in ClosingStates => SameAgreement(q, r))
  BY <1>2, <1>3, <1>5, RoletrnsGate DEF ClosingStates
<1>7. /\ NewRole(r) => to = "INIT_PORT" \/ r.selectedRole = "NonStpPort"
      /\ to \in {"ALTERNATE_PROPOSED", "ALTERNATE_AGREED", "BACKUP_PORT"} =>
           Settled(r) /\ ~NewRole(r)
  BY <1>2, <1>3, EnteredRole
<1>8. InTurn("roletrns", p)'
  BY <1>3 DEF InTurn
<1>9. q.roletrns \in ClosingStates => q.role = q.selectedRole
  BY DEF GateHeld, Closing
<1>10. KeptShut(r) /\ Stepwise(r)
  BY <1>2, <1>3, <1>4, <1>5, <1>9, WaitsOn DEF GateHeld
<1>11. Unopened(r)
  <2>1. to = "INIT_PORT" => q.roletrns = "BEGIN"
    BY <1>3, RoletrnsSource
  <2>2. Unopened(q)
    BY DEF GateHeld
  <2> QED
    BY <1>5, <1>6, <2>1, <2>2 DEF Unopened, FreshStates, SameInfo, Ordered
<1>12. ~Ready(RoleselMachine)'
  <2>1. \A x \in Listed(bridge) :
          "reselect" \in port'[x].on <=> "reselect" \in port[x].on
    BY <1>3, <1>5 DEF SameInfo
  <2> QED
    BY <1>3, <1>4, <2>1, RoleselSame
<1>13. TurnHeld(p)'
  BY <1>5, <1>7, <1>10, <1>12 DEF TurnHeld
<1>14. PassesBy(p)'
  BY <1>5, <1>7, <1>8 DEF PassesBy
<1>15. Closing(p)'
  <2> SUFFICES ASSUME to \in ClosingStates
               PROVE  /\ call' # "none"
                      /\ r.role = r.selectedRole /\ Settled(r) /\ OrderedShut(r)
                      /\ \/ InTurn("roletrns", p)' /\ Discarding(r)
                         \/ /\ AheadQuiet(p)'
                            /\ \E kind \in {"transmit", "sttrans", "roletrns"} :
                                 running' = Machine(kind, p)
    BY <1>5 DEF Closing
  <2>1. r.role = r.selectedRole /\ (Settled(r) <=> Settled(q))
    BY <1>5 DEF SameInfo, Settled
  <2>2. OrderedShut(r) /\ (Discarding(r) <=> Discarding(q))
    BY <1>6 DEF Ordered, OrderedShut, Discarding, OffStates, ClosingStates,
                LearnStates, ForwardStates
  <2>3. (NewRole(q) /\ q.roletrns # "BEGIN") \/ q.roletrns = "INIT_PORT"
    BY <1>3, RoletrnsSource DEF ClosingStates
  <2>4. Settled(q)
    <3>1. "selected" \in q.on
      BY <1>4, QuietSelected
    <3>2. q.roletrns = "INIT_PORT" => "updtInfo" \notin q.on
      BY DEF GateHeld, Unopened, FreshStates
    <3> QED
      BY <2>3, <3>1, <3>2 DEF NewRole, Settled
  <2>5. CASE AheadQuiet(p)
    <3>1. /\ \A f \in {"synced", "reselect"} : f \in r.on <=> f \in q.on
          /\ r.timer["rrWhile"] = q.timer["rrWhile"]
      BY <1>5, <1>6 DEF SameInfo, SameAgreement
    <3>2. AheadQuiet(p)'
      BY <1>3, <2>5, <3>1, AheadSame
    <3> QED
      BY <1>3, <2>1, <2>2, <2>4, <3>2
  <2>6. CASE InTurn("roletrns", p)
    <3>1. /\ NewRole(q) => q.roletrns = "INIT_PORT"
                           \/ q.selectedRole = "NonStpPort"
          /\ q.roletrns = "INIT_PORT" => q.role = "DisabledPort"
      BY <2>6 DEF GateHeld, TurnHeld
    <3>2. q.roletrns = "INIT_PORT"
      <4>1. NewRole(q) /\ q.roletrns # "INIT_PORT" => RoleEntry(q, to)
        BY <1>3 DEF RoletrnsHop, ClosingStates
      <4>2. RoleEntry(q, to) => q.selectedRole # "NonStpPort"
        BY DEF RoleEntry
      <4> QED
        BY <2>3, <3>1, <4>1, <4>2
    <3>3. Discarding(q)
      <4>1. q.selectedRole \in {"DisabledPort", "NonStpPort"}
        BY <3>2 DEF Handled, Fresh, FreshStates
      <4>2. q.selectedRole # "NonStpPort"
        <5>1. NewRole(q) => RoleEntry(q, to)
          BY <1>3, <3>2 DEF RoletrnsHop
        <5> QED
          BY <2>4, <3>1, <3>2, <5>1 DEF RoleEntry, NewRole
      <4>3. "admin_non_stp" \notin q.on
        BY <2>4, <4>2 DEF Handled, Placed, Settled
      <4>4. q.sttrans \in {"BEGIN", "DISCARDING"}
        BY <3>2, <4>3 DEF GateHeld, Unopened, FreshStates
      <4> QED
        BY <4>4 DEF Gated, Discarding
    <3> QED
      BY <1>3, <1>8, <2>1, <2>2, <2>4, <3>3
  <2> QED
    BY <1>4, <2>5, <2>6
<1> QED
  BY <1>3, <1>10, <1>11, <1>13, <1>14, <1>15 DEF GateHeld

-----------------------------------------------------------------------------
(* Every other step keeps it too.                                          *)

\* A step that is neither a start of the port nor one of its Port Role
\* Transitions machine: the kernel is told, a role is selected, or neither
\* the gate nor, but for the passing of a second, its wait is touched.
LEMMA GateSteps ==
  ASSUME TypeOK, NEW p \in Port, Stepped(p), ~Begun(p), ~RoletrnsMoved(p)
  PROVE  LET q == port[p]
             r == port'[p] IN
         \/ \E to \in SttransState :
              /\ Ran("sttrans", p) /\ SttransHop(q, to)
              /\ r = SttransEnter(q, to)
         \/ Elected(p)
         \/ /\ SameGate(q, r) /\ (Ticked(p) \/ SameWait(q, r))
            /\ "updtInfo" \in r.on => "updtInfo" \in q.on
            /\ call = "none" \/ ("admin_non_stp" \in r.on
                                   <=> "admin_non_stp" \in q.on)
<1> DEFINE q == port[p]
           r == port'[p]
           Keeps(s) == /\ SameWait(q, s)
                       /\ "updtInfo" \in s.on => "updtInfo" \in q.on
                       /\ call = "none" \/ ("admin_non_stp" \in s.on
                                              <=> "admin_non_stp" \in q.on)
<1>1. IsPort(q) /\ DOMAIN q = PortField
  BY DEF TypeOK, IsPort
<1> HIDE DEF q, r
<1>2. ASSUME NEW s, SameInfo(q, s), SameWait(q, s)
      PROVE  Keeps(s)
  BY <1>2 DEF SameInfo
<1>3. CASE Transited(p)
  <2>1. CASE \E to \in SttransState :
               /\ Ran("sttrans", p) /\ SttransHop(q, to)
               /\ r = SttransEnter(q, to)
    BY <2>1 DEF q, r
  <2>2. CASE \/ \E to \in TransmitState : r = TransmitEnter(q, bridge, to)
             \/ \E to \in BrdgdetState : r = BrdgdetEnter(q, to)
             \/ \E to \in P2pState : r = P2pEnter(q, to)
             \/ \E to \in TopochState : r = TopochEnter(q, bridge, to)
             \/ \E to \in ReceiveState : r = ReceiveEnter(q, to)
    <3>1. SameInfo(q, r)
      BY <1>1, <2>2, OthersSame DEF SameAll
    <3>2. SameWait(q, r)
      BY <1>1, <2>2, WaitKept
    <3> HIDE DEF Keeps
    <3>3. Keeps(r)
      BY <1>2, <3>1, <3>2
    <3> QED
      BY <3>3 DEF Keeps, SameWait, q, r
  <2>3. CASE \E to \in MigrateState : r = MigrateEnter(q, bridge, to)
    <3>1. SameInfo(q, r) /\ SameWait(q, r)
      BY <1>1, <2>3, MigrateSound, WaitKept
    <3> HIDE DEF Keeps
    <3>2. Keeps(r)
      BY <1>2, <3>1
    <3> QED
      BY <3>2 DEF Keeps, SameWait, q, r
  <2>4. CASE \E to \in PcostState : r = PcostEnter(q, to)
    <3>1. SameWait(q, r)
      BY <1>1, <2>4, WaitKept
    <3>2. \A to \in PcostState :
            \A f \in {"updtInfo", "admin_non_stp"} :
              f \in PcostEnter(q, to).on <=> f \in q.on
      BY <1>1, SMT DEF PortField, PcostEnter, PcostState
    <3> QED
      BY <2>4, <3>1, <3>2 DEF SameWait, q, r
  <2>5. CASE \E to \in InfoState : r = InfoEnter(q, bridge, to)
    <3>1. SameWait(q, r) /\ ("updtInfo" \in r.on => "updtInfo" \in q.on)
      BY <1>1, <2>5, InfoWait
    <3>2. "admin_non_stp" \in r.on <=> "admin_non_stp" \in q.on
      BY <1>1, <2>5, InfoKept
    <3> QED
      BY <3>1, <3>2 DEF SameWait, q, r
  <2> QED
    BY <1>3, <2>1, <2>2, <2>3, <2>4, <2>5 DEF Transited, RoletrnsMoved, q, r
<1>4. CASE Told(p)
  <2>1. PICK flags \in SUBSET {"sync", "reRoot", "tcProp"} :
               r = [q EXCEPT !.on = q.on \cup flags]
    BY <1>4 DEF Told, q, r
  <2>2. r.on = q.on \cup flags
    BY <1>1, <2>1, SMT DEF PortField
  <2>3. /\ r.sttrans = q.sttrans /\ r.roletrns = q.roletrns
        /\ r.role = q.role /\ r.timer = q.timer
    BY <1>1, <2>1, SMT DEF PortField
  <2> QED
    BY <2>2, <2>3 DEF SameWait, SameGate, q, r
<1>5. CASE Ticked(p)
  <2>1. r = [q EXCEPT !.timer = CountDown(q.timer)]
    BY <1>5 DEF Ticked, q, r
  <2>2. SameGate(q, r) /\ r.on = q.on
    BY <1>1, <2>1, SMT DEF PortField, SameGate
  <2> QED
    BY <1>5, <2>2 DEF q, r
<1>6. CASE Heard(p)
  <2> DEFINE s == [q EXCEPT !.on = q.on \ {"operEdge"}]
  <2>1. /\ s.sttrans = q.sttrans /\ s.roletrns = q.roletrns
        /\ s.role = q.role /\ s.timer = q.timer /\ s.on = q.on \ {"operEdge"}
        /\ DOMAIN s = PortField
    BY <1>1, SMT DEF PortField
  <2> HIDE DEF s
  <2>2. \A m : LET t == InfoRxBpdu(s, bridge, m) IN
               /\ t.sttrans = s.sttrans /\ t.roletrns = s.roletrns
               /\ t.role = s.role /\ t.timer = s.timer
               /\ t.on = s.on \/ t.on = s.on \cup {"rcvdBPDU"}
    BY <2>1, SMT DEF PortField, InfoRxBpdu
  <2>3. \E m \in Received : r = InfoRxBpdu(s, bridge, m)
    BY <1>6 DEF Heard, s, q, r
  <2>4. /\ r.sttrans = q.sttrans /\ r.roletrns = q.roletrns
        /\ r.role = q.role /\ r.timer = q.timer
        /\ \A f : f \notin {"operEdge", "rcvdBPDU"} => (f \in r.on <=> f \in q.on)
    BY <2>1, <2>2, <2>3
  <2> QED
    BY <2>4 DEF SameWait, SameGate, q, r
<1>7. CASE Asked(p)
  BY <1>7 DEF Asked, SameState, SameWait, SameGate, Flag, Settable, q, r
<1>8. CASE Noted(p)
  BY <1>8 DEF Noted, SameState, SameWait, SameGate, Flag, Settable, q, r
<1>9. CASE PassedOver(p)
  BY <1>9 DEF PassedOver, SameWait, SameGate, q, r
<1> QED
  BY <1>3, <1>4, <1>5, <1>6, <1>7, <1>8, <1>9 DEF Stepped, q, r

\* sttrans.c, rolesel.c: the orders still go up one step at a time, ...
LEMMA TellsStepwise ==
  ASSUME NEW q, IsPort(q), Gated(q), Stepwise(q), NEW to \in SttransState,
         SttransHop(q, to)
  PROVE  Stepwise(SttransEnter(q, to))
<1> DEFINE r == SttransEnter(q, to)
<1>1. /\ r.sttrans = to
      /\ \A f \in {"learn", "forward"} : f \in q.on <=> f \in r.on
      /\ to = "LEARNING" => r.on = q.on \cup {"learning"}
  BY SMT DEF IsPort, PortField, SttransEnter, SttransState
<1> HIDE DEF r
<1> QED
  BY <1>1 DEF SttransHop, Gated, Stepwise, r

LEMMA ElectsStepwise ==
  ASSUME NEW q, IsPort(q), NEW b
  PROVE  /\ Stepwise(q) => Stepwise(WithRole(b, q)) /\ Stepwise(WithoutRole(q))
         /\ Unopened(q) /\ (q.roletrns \in FreshStates
                              /\ "admin_non_stp" \notin q.on
                            => q.infoIs = "Disabled") =>
              Unopened(WithRole(b, q)) /\ Unopened(WithoutRole(q))
<1> DEFINE s == WithoutRole(q)
           r == WithRole(b, q)
<1>1. /\ s.sttrans = q.sttrans /\ s.roletrns = q.roletrns
      /\ s.role = q.role /\ s.on = q.on
  BY SMT DEF IsPort, PortField, WithoutRole
<1>2. /\ r.sttrans = q.sttrans /\ r.roletrns = q.roletrns
      /\ \A f \in {"learning", "forwarding", "admin_non_stp"} :
           f \in r.on <=> f \in q.on
      /\ "admin_non_stp" \in q.on => /\ {"learn", "forward"} \subseteq r.on
                                     /\ "updtInfo" \in r.on => "updtInfo" \in q.on
      /\ "admin_non_stp" \notin q.on =>
           /\ r.role = q.role
           /\ \A f \in {"learn", "forward"} : f \in r.on <=> f \in q.on
           /\ "updtInfo" \in r.on <=> MustUpdate(b, q)
  BY SMT DEF IsPort, PortField, WithRole, WithoutProtocol, Given
<1>3. q.infoIs = "Disabled" => (MustUpdate(b, q) <=> "updtInfo" \in q.on)
  BY DEF MustUpdate
<1> HIDE DEF s, r
<1>4. Stepwise(q) => Stepwise(s) /\ Stepwise(r)
  BY <1>1, <1>2 DEF Stepwise
<1>5. ASSUME Unopened(q), q.roletrns \in FreshStates
               /\ "admin_non_stp" \notin q.on => q.infoIs = "Disabled"
      PROVE  Unopened(s) /\ Unopened(r)
  BY <1>1, <1>2, <1>3, <1>5 DEF Unopened
<1> QED
  BY <1>4, <1>5 DEF s, r

\* ... and a port that is being closed is left alone while the machines of
\* its port that come first have their turn.
LEMMA StillClosing ==
  ASSUME TypeOK, [Next]_vars, ~UNCHANGED vars, NEW p \in Listed(bridge),
         Gated(port[p]), Closing(p), ~RoletrnsStep(p),
         port'[p].roletrns = port[p].roletrns
  PROVE  Closing(p)'
<1> DEFINE q == port[p]
           r == port'[p]
<1> SUFFICES ASSUME q.roletrns \in ClosingStates
             PROVE  /\ call' # "none"
                    /\ r.role = r.selectedRole /\ Settled(r) /\ OrderedShut(r)
                    /\ AheadQuiet(p)'
                    /\ \E kind \in {"transmit", "sttrans", "roletrns"} :
                         running' = Machine(kind, p)
  BY DEF Closing
<1>1. AheadQuiet(p) /\ (TransmitStep(p) \/ SttransStep(p))
  BY Window
<1>2. p \in Port /\ IsPort(q)
  BY ListedPorts DEF TypeOK
<1>3. \E kind \in {"transmit", "sttrans"} :
        /\ PortMoved(kind, p, r)
        /\ \/ \E to \in TransmitState : r = TransmitEnter(q, bridge, to)
           \/ \E to \in SttransState : r = SttransEnter(q, to)
  <2>1. ASSUME NEW s, NEW kind, PortMoved(kind, p, s)
        PROVE  r = s
    BY <1>2, <2>1 DEF PortMoved, TypeOK
  <2> QED
    BY <1>1, <2>1 DEF TransmitStep, SttransStep
<1> HIDE DEF q
<1>4. /\ \A to \in TransmitState :
           LET s == TransmitEnter(q, bridge, to) IN
           /\ s.role = q.role /\ s.selectedRole = q.selectedRole
           /\ s.timer["rrWhile"] = q.timer["rrWhile"]
           /\ \A f \in {"selected", "updtInfo", "learn", "forward", "synced",
                        "reselect"} : f \in s.on <=> f \in q.on
      /\ \A to \in SttransState :
           LET s == SttransEnter(q, to) IN
           /\ s.role = q.role /\ s.selectedRole = q.selectedRole
           /\ s.timer["rrWhile"] = q.timer["rrWhile"]
           /\ \A f \in {"selected", "updtInfo", "learn", "forward", "synced",
                        "reselect"} : f \in s.on <=> f \in q.on
  <2>1. \A to \in TransmitState :
           LET s == TransmitEnter(q, bridge, to) IN
           /\ s.role = q.role /\ s.selectedRole = q.selectedRole
           /\ s.timer["rrWhile"] = q.timer["rrWhile"]
           /\ \A f \in {"selected", "updtInfo", "learn", "forward", "synced",
                        "reselect"} : f \in s.on <=> f \in q.on
    BY <1>2, SMT DEF IsPort, PortField, Timer, TransmitEnter, TransmitState,
                     Given
  <2>2. \A to \in SttransState :
           LET s == SttransEnter(q, to) IN
           /\ s.role = q.role /\ s.selectedRole = q.selectedRole
           /\ s.timer["rrWhile"] = q.timer["rrWhile"]
           /\ \A f \in {"selected", "updtInfo", "learn", "forward", "synced",
                        "reselect"} : f \in s.on <=> f \in q.on
    BY <1>2, SMT DEF IsPort, PortField, SttransEnter, SttransState
  <2> QED
    BY <2>1, <2>2
<1> HIDE DEF r
<1>5. /\ r.role = q.role /\ r.selectedRole = q.selectedRole
      /\ r.timer["rrWhile"] = q.timer["rrWhile"]
      /\ \A f \in {"selected", "updtInfo", "learn", "forward", "synced",
                   "reselect"} : f \in r.on <=> f \in q.on
  BY <1>3, <1>4
<1>6. /\ bridge' = bridge /\ call' = call
      /\ \E kind \in {"transmit", "sttrans"} : running' = Machine(kind, p)
      /\ \A x \in Port \ {p} : SameFields(port[x], port'[x])
  BY <1>3 DEF PortMoved, SameFields, TypeOK
<1>7. AheadQuiet(p)'
  BY <1>1, <1>5, <1>6, AheadSame DEF q, r
<1>8. /\ call # "none"
      /\ q.role = q.selectedRole /\ Settled(q) /\ OrderedShut(q)
  BY DEF Closing, q
<1> QED
  BY <1>5, <1>6, <1>7, <1>8 DEF Settled, OrderedShut

\* roletrns.c: the other states of a blocked port are left at once.
LEMMA PassesOn ==
  ASSUME [Next]_vars, ~UNCHANGED vars, NEW p \in Listed(bridge), PassesBy(p),
         port[p].roletrns \in {"ALTERNATE_PROPOSED", "ALTERNATE_AGREED",
                               "BACKUP_PORT"}
  PROVE  RoletrnsStep(p)
<1>1. InTurn("roletrns", p) /\ ~NewRole(port[p])
  BY DEF PassesBy
<1>2. RoletrnsHop(port[p], bridge, Others(p), "ALTERNATE_PORT")
  BY <1>1 DEF RoletrnsHop
<1>3. Ready(Machine("roletrns", p))
  BY <1>2, ReadyOf DEF RoletrnsState
<1> QED
  BY <1>1, <1>3, OnlyInTurn

\* What an entry point leaves of the news of a role when it returns.
LEMMA NoNewsAtRest ==
  ASSUME TypeOK, EveryPortInService, UpdateReturns, NEW p \in Listed(bridge)
  PROVE  "updtInfo" \notin port'[p].on
<1>1. port' = port
  BY ReturnsKeeps
<1>2. ~Ready(RoleselMachine)
  BY DEF UpdateReturns, AllMachines
<1>3. InService(port[p]) /\ IsPort(port[p])
  BY ListedPorts DEF TypeOK, EveryPortInService
<1>4. "selected" \in port[p].on
  BY <1>2, <1>3, QuietSelected
<1>5. \A to \in InfoState : ~InfoHop(port[p], to)
  BY ReturnsQuiet DEF PortQuiet
<1> QED
  BY <1>1, <1>3, <1>4, <1>5, InfoAtRest DEF Settled, InService

LEMMA StillGate ==
  ASSUME TypeOK, EveryPortInService, [Next]_vars, ~UNCHANGED vars,
         NEW p \in Listed(bridge), Stepped(p), ~Begun(p), ~RoletrnsMoved(p),
         GateHeld(p), PortSound(bridge, port[p]),
         Handled(port[p], Turns(p)),
         call = "none" => port[p].roletrns \notin FreshStates
  PROVE  GateHeld(p)'
<1> DEFINE q == port[p]
           r == port'[p]
           Kept == /\ Stepwise(r) /\ Unopened(r) /\ r.roletrns = q.roletrns
                   /\ call = "none" /\ call' = "none" =>
                        "updtInfo" \notin r.on
<1>1. p \in Port /\ IsPort(q) /\ Gated(q)
  BY ListedPorts DEF TypeOK, PortSound
<1>2. ~RoletrnsStep(p)
  BY <1>1, StepMoves
<1>3. ASSUME NEW to \in SttransState, Ran("sttrans", p), SttransHop(q, to),
             r = SttransEnter(q, to)
      PROVE  Kept
  <2>1. r.roletrns = q.roletrns /\ r.role = q.role /\ SameInfo(q, r)
    BY <1>1, <1>3, SttransKept, SttransSound
  <2>2. r.sttrans = to
    BY <1>1, <1>3, SMT DEF SttransEnter, IsPort, PortField
  <2>3. Stepwise(q) /\ Unopened(q)
    BY DEF GateHeld
  <2>4. Stepwise(r)
    BY <1>1, <1>3, <2>3, TellsStepwise
  <2>5. Unopened(r)
    <3>1. q.role = "DisabledPort" => "learn" \notin q.on
      BY <1>1 DEF Gated
    <3> HIDE DEF q, r
    <3> QED
      BY <1>3, <2>1, <2>2, <2>3, <3>1 DEF Unopened, SttransHop, SameInfo
  <2>6. call' # "none"
    BY <1>3 DEF Ran, Turn
  <2> QED
    BY <2>1, <2>4, <2>5, <2>6
<1>4. ASSUME Elected(p)
      PROVE  Kept
  <2>1. \/ r = WithoutRole(q)
        \/ \E c : r = WithRole(c, q)
    BY <1>4 DEF Elected
  <2>2. \A c : Stepwise(WithRole(c, q)) /\ Stepwise(WithoutRole(q))
    BY <1>1, ElectsStepwise DEF GateHeld
  <2>3. /\ Unopened(q)
        /\ q.roletrns \in FreshStates /\ "admin_non_stp" \notin q.on
             => q.infoIs = "Disabled"
    BY DEF GateHeld, Handled, Fresh
  <2>4. \A c : Unopened(WithRole(c, q)) /\ Unopened(WithoutRole(q))
    BY <1>1, <2>3, ElectsStepwise
  <2>5. /\ \A c : WithRole(c, q).roletrns = q.roletrns
        /\ WithoutRole(q).roletrns = q.roletrns
    BY <1>1, SMT DEF IsPort, PortField, WithRole, WithoutProtocol, WithoutRole
  <2>6. call' # "none"
    BY <1>4 DEF Elected
  <2> HIDE DEF q, r
  <2>7. Stepwise(r) /\ Unopened(r) /\ r.roletrns = q.roletrns
    BY <2>1, <2>2, <2>4, <2>5
  <2> QED
    BY <2>6, <2>7
<1>5. ASSUME SameGate(q, r), "updtInfo" \in r.on => "updtInfo" \in q.on,
             call = "none" \/ ("admin_non_stp" \in r.on
                                  <=> "admin_non_stp" \in q.on)
      PROVE  Kept
  <2>1. Stepwise(q) /\ Unopened(q)
    BY DEF GateHeld
  <2>2. call = "none" => q.roletrns \notin FreshStates
    OBVIOUS
  <2> HIDE DEF q, r
  <2>3. Stepwise(r)
    BY <1>5, <2>1 DEF SameGate, Stepwise
  <2>4. Unopened(r)
    BY <1>5, <2>1, <2>2 DEF SameGate, Unopened
  <2>5. r.roletrns = q.roletrns
    BY <1>5 DEF SameGate
  <2>6. call = "none" => "updtInfo" \notin r.on
    BY <1>5 DEF GateHeld, q
  <2> QED
    BY <2>3, <2>4, <2>5, <2>6
<1>6. Kept
  <2> HIDE DEF Kept
  <2> QED
    BY <1>1, <1>3, <1>4, <1>5, GateSteps
<1>7. ~InTurn("roletrns", p)'
  BY <1>2, TurnMoved
<1>8. TurnHeld(p)'
  BY <1>7 DEF TurnHeld
<1>9. Closing(p)'
  BY <1>1, <1>2, <1>6, StillClosing DEF GateHeld
<1>10. PassesBy(p)'
  BY <1>2, <1>6, PassesOn DEF GateHeld, PassesBy
<1>11. call' = "none" => "updtInfo" \notin r.on
  BY <1>6, CallSteps, NoNewsAtRest
<1> QED
  BY <1>6, <1>8, <1>9, <1>10, <1>11 DEF GateHeld

\* stpm.c, _stp_stpm_init_machine: a port that starts is closed.
LEMMA BegunGate ==
  ASSUME TypeOK, [Next]_vars, ~UNCHANGED vars, NEW p \in Port, Begun(p),
         p \in Listed(bridge) => GateHeld(p)
  PROVE  /\ GateHeld(p)'
         /\ port'[p].roletrns = "BEGIN"
         /\ OrderedShut(port'[p]) /\ Discarding(port'[p])
         /\ port'[p].timer["fdWhile"] = bridge'.rootTimes.ForwardDelay
<1> DEFINE r == port'[p]
<1>1. PICK s \in {port[p], NewPort(p)} :
        /\ r = Started(s, bridge')
        /\ p \in Listed(bridge) \/ s = NewPort(p)
  BY DEF Begun
<1>2. IsPort(s) /\ IsBridge(bridge')
  BY <1>1, NewPortType, InitDataType DEF Begun, BridgeOK, TypeOK
<1>3. /\ r.roletrns = "BEGIN" /\ r.role = "DisabledPort"
      /\ r.sttrans = "BEGIN" /\ OrderedShut(r) /\ Discarding(r)
      /\ r.timer["fdWhile"] = bridge'.rootTimes.ForwardDelay
      /\ "updtInfo" \in r.on => "updtInfo" \in s.on
  BY <1>1, <1>2, StartedGate
<1>4. call = "none" /\ call' = "restart"
  BY DEF Begun
<1>5. "updtInfo" \notin s.on
  <2>1. "updtInfo" \notin NewPort(p).on
    BY DEF NewPort, Given
  <2> QED
    BY <1>1, <1>4, <2>1 DEF GateHeld
<1>6. ~InTurn("roletrns", p)'
  <2>1. Turn(Machine("roletrns", p)) => call # "none"
    BY DEF Turn
  <2> QED
    BY <1>4, <2>1, TurnTaken
<1> HIDE DEF r
<1>7. Stepwise(r) /\ Unopened(r)
  BY <1>3, <1>5 DEF Stepwise, Unopened, OrderedShut
<1>8. Closing(p)' /\ TurnHeld(p)' /\ PassesBy(p)'
  BY <1>3, <1>6 DEF Closing, TurnHeld, PassesBy, ClosingStates, r
<1> QED
  BY <1>3, <1>4, <1>7, <1>8 DEF GateHeld, r

\* Whatever the step was, the gate of the port is held after it.
LEMMA SteppedGate ==
  ASSUME TypeOK, EveryPortInService, EveryPortSound, EveryPortHandled,
         EveryGateHeld, [Next]_vars, ~UNCHANGED vars,
         NEW p \in Listed(bridge)', p \in Port
  PROVE  GateHeld(p)'
<1>1. Stepped(p) /\ (p \in Listed(bridge) \/ Begun(p))
  BY PortSteps, SteppedListed
<1>2. CASE Begun(p)
  BY <1>2, BegunGate DEF EveryGateHeld
<1>3. CASE ~Begun(p)
  <2>1. p \in Listed(bridge)
    BY <1>1, <1>3
  <2>2. /\ GateHeld(p) /\ Handled(port[p], Turns(p))
        /\ PortSound(bridge, port[p]) /\ InService(port[p])
        /\ call = "none" => port[p].roletrns \notin FreshStates
    BY <2>1
       DEF EveryGateHeld, EveryPortHandled, EveryPortSound, EveryPortInService
  <2>3. RoletrnsMoved(p) => RoletrnsStep(p)
    <3>1. RoletrnsMoved(p) => InTurn("roletrns", p)'
      BY DEF RoletrnsMoved, Ran, Turn, InTurn
    <3> QED
      BY <3>1, TurnMoved
  <2>4. CASE RoletrnsMoved(p)
    BY <2>1, <2>2, <2>3, <2>4, MovedGate DEF PortSound
  <2>5. CASE ~RoletrnsMoved(p)
    BY <1>1, <1>3, <2>1, <2>2, <2>5, StillGate
  <2> QED
    BY <2>4, <2>5
<1> QED
  BY <1>2, <1>3

(***************************************************************************)
(* Between the state of the role transition machine that closes a port and *)
(* the one that sets its wait nothing else happens to the port; while that *)
(* machine has its turn a port the kernel has not closed is not let learn  *)
(* (roletrns.c, stpm.c, statmch.c).                                        *)
(***************************************************************************)
THEOREM AlwaysHeld == Spec => []EveryGateHeld
<1>1. Init => EveryGateHeld
  <2> SUFFICES ASSUME Init, NEW p \in Listed(bridge)
               PROVE  GateHeld(p)
    BY DEF EveryGateHeld
  <2> DEFINE q == port[p]
  <2>1. IsBridge(bridge) /\ p \in Port
    BY InitType, ListedPorts DEF TypeOK
  <2>2. q = Started(NewPort(p), bridge)
    BY <2>1 DEF Init, AllStarted
  <2>3. /\ q.roletrns = "BEGIN" /\ q.role = "DisabledPort"
        /\ q.sttrans = "BEGIN" /\ OrderedShut(q) /\ Discarding(q)
        /\ "updtInfo" \in q.on => "updtInfo" \in NewPort(p).on
    BY <2>1, <2>2, NewPortType, StartedGate
  <2>4. "updtInfo" \notin NewPort(p).on
    BY DEF NewPort, Given
  <2>5. call # "none" /\ ~InTurn("roletrns", p)
    BY DEF Init, InTurn, NoMachine, Machine
  <2> HIDE DEF q
  <2>6. Stepwise(q) /\ Unopened(q)
    BY <2>3, <2>4 DEF Stepwise, Unopened, OrderedShut
  <2>7. Closing(p) /\ TurnHeld(p) /\ PassesBy(p)
    BY <2>3, <2>5 DEF Closing, TurnHeld, PassesBy, ClosingStates, q
  <2> QED
    BY <2>5, <2>6, <2>7 DEF GateHeld, q
<1>2. TypeOK /\ EveryPortInService /\ EveryPortSound /\ EveryPortHandled
      /\ EveryGateHeld /\ [Next]_vars /\ TypeOK' => EveryGateHeld'
  <2> SUFFICES ASSUME TypeOK, EveryPortInService, EveryPortSound,
                      EveryPortHandled, EveryGateHeld, [Next]_vars, TypeOK',
                      NEW p \in Listed(bridge)'
               PROVE  GateHeld(p)'
    BY DEF EveryGateHeld
  <2>1. p \in Port
    BY ListedPorts DEF TypeOK
  <2>2. CASE ~UNCHANGED vars
    BY <2>1, <2>2, SteppedGate
  <2>3. CASE UNCHANGED vars
    <3>1. GateHeld(p) /\ bridge' = bridge /\ port' = port /\ call' = call
          /\ running' = running
      BY <2>3 DEF vars, EveryGateHeld, Listed
    <3>2. ~Ready(RoleselMachine) => ~Ready(RoleselMachine)'
      BY <3>1, RoleselSame
    <3>3. AheadQuiet(p) => AheadQuiet(p)'
      <4>1. p \in Listed(bridge)
        BY <3>1 DEF Listed
      <4> QED
        BY <3>1, <4>1, AheadSame DEF SameFields
    <3>4. InTurn("roletrns", p)' <=> InTurn("roletrns", p)
      BY <3>1 DEF InTurn
    <3>5. Stepwise(port'[p]) /\ Unopened(port'[p])
      BY <3>1 DEF GateHeld
    <3>6. Closing(p)'
      BY <3>1, <3>3, <3>4 DEF GateHeld, Closing
    <3>7. TurnHeld(p)'
      BY <3>1, <3>2, <3>4 DEF GateHeld, TurnHeld
    <3>8. PassesBy(p)'
      BY <3>1, <3>4 DEF GateHeld, PassesBy
    <3> QED
      BY <3>1, <3>5, <3>6, <3>7, <3>8 DEF GateHeld
  <2> QED
    BY <2>2, <2>3
<1> QED
  BY <1>1, <1>2, TypeCorrect, AlwaysInService, AlwaysSound, AlwaysHandled,
     PTL DEF Spec

-----------------------------------------------------------------------------
(* The refinement.                                                         *)

Order(p) == Level(p, "learn", "forward")
Kernel(p) == Level(p, "learning", "forwarding")
Delays == {bridge.rootTimes.ForwardDelay, bridge.rootTimes.MaxAge}

\* The actions of a gate, in the terms of the port.
LEMMA GateCloses ==
  ASSUME NEW p \in Port,
         Order(p)' = "discard", Wait(p)' \in Delays',
         Kernel(p)' = Kernel(p)
  PROVE  Gates!Close(p)
BY DEF Gates!Close, Order, Kernel, Delays

LEMMA GateRestarts ==
  ASSUME NEW p \in Port,
         Order(p)' = "discard", Kernel(p)' = "discard",
         Wait(p)' \in Delays'
  PROVE  Gates!Restart(p)
BY DEF Gates!Restart, Order, Kernel, Delays

LEMMA GateLearns ==
  ASSUME NEW p \in Port,
         Order(p) = "discard", Kernel(p) = "discard",
         Wait(p) = 0 \/ Reassured(p),
         Order(p)' = "learn", Wait(p)' \in Delays',
         Kernel(p)' = Kernel(p)
  PROVE  Gates!Learn(p)
BY DEF Gates!Learn, Gates!MayOpen,
       Order, Kernel, Delays

LEMMA GateForwards ==
  ASSUME NEW p \in Port,
         Order(p) = "learn", Wait(p) = 0 \/ Reassured(p),
         Order(p)' = "forward", Wait(p)' = 0,
         Kernel(p)' = Kernel(p)
  PROVE  Gates!Forward(p)
BY DEF Gates!Forward, Gates!MayOpen, Order, Kernel

LEMMA GateFollows ==
  ASSUME NEW p \in Port,
         \/ Order(p) # "discard" /\ Kernel(p) = "discard" /\ Kernel(p)' = "learn"
         \/ Order(p) = "forward" /\ Kernel(p) = "learn" /\ Kernel(p)' = "forward"
         \/ Order(p) = "discard" /\ Kernel(p) # "discard" /\ Kernel(p)' = "discard",
         Order(p)' = Order(p), Wait(p)' = Wait(p)
  PROVE  Gates!Follow(p)
BY DEF Gates!Follow, Order, Kernel

LEMMA GateSeconds ==
  ASSUME NEW p \in Port,
         Wait(p) > 0, Wait(p)' = Wait(p) - 1,
         Order(p)' = Order(p), Kernel(p)' = Kernel(p)
  PROVE  Gates!Second(p)
BY DEF Gates!Second, Order, Kernel

LEMMA GateFrees ==
  ASSUME NEW p \in Port,
         On(p, "admin_non_stp"),
         Order(p)' \in {Order(p), "forward"},
         Wait(p)' \in {Wait(p)} \cup Delays', Kernel(p)' = Kernel(p)
  PROVE  Gates!Free(p)
BY DEF Gates!Free, Order, Kernel, Delays

LEMMA GateStays ==
  ASSUME NEW p \in Port,
         Order(p)' = Order(p), Wait(p)' = Wait(p), Kernel(p)' = Kernel(p)
  PROVE  Gates!Stays(p)
BY DEF Gates!Stays, Order, Kernel

Gating(p) ==
  \/ Gates!Close(p) \/ Gates!Restart(p)
  \/ Gates!Learn(p) \/ Gates!Forward(p) \/ Gates!Follow(p)
  \/ Gates!Second(p) \/ Gates!Free(p)
  \/ Gates!Stays(p)

-----------------------------------------------------------------------------
(* The steps of a port, as steps of its gate.                              *)

\* A port that does not exist is a closed gate; one that starts becomes one.
LEMMA AbsentGates ==
  ASSUME NEW p \in Port, p \notin Listed(bridge)'
  PROVE  Gates!Restart(p)
<1>1. /\ Order(p)' = "discard" /\ Kernel(p)' = "discard"
      /\ Wait(p)' \in Delays'
  BY DEF Order, Kernel, Delays, Level, Wait
<1> QED
  BY <1>1, GateRestarts

LEMMA BegunGates ==
  ASSUME TypeOK, EveryGateHeld, [Next]_vars, ~UNCHANGED vars,
         NEW p \in Port, Begun(p)
  PROVE  Gates!Restart(p)
<1>1. /\ port'[p].roletrns = "BEGIN"
      /\ OrderedShut(port'[p]) /\ Discarding(port'[p])
      /\ port'[p].timer["fdWhile"] = bridge'.rootTimes.ForwardDelay
  BY BegunGate DEF EveryGateHeld
<1>2. /\ Order(p)' = "discard" /\ Kernel(p)' = "discard"
      /\ Wait(p)' \in Delays'
  BY <1>1 DEF Order, Kernel, Delays, Level, Wait, OrderedShut, Discarding
<1> QED
  BY <1>2, GateRestarts

\* The kernel is told what was ordered, one step at a time.
LEMMA TellsGates ==
  ASSUME NEW p \in Port, IsPort(port[p]), Gated(port[p]), Stepwise(port[p]),
         p \in Listed(bridge), bridge' = bridge, NEW to \in SttransState,
         SttransHop(port[p], to), port'[p] = SttransEnter(port[p], to)
  PROVE  Gating(p)
<1> DEFINE q == port[p]
           r == port'[p]
<1>1. /\ r.roletrns = q.roletrns
      /\ r.timer = q.timer
      /\ \A f \in {"learn", "forward"} : f \in r.on <=> f \in q.on
      /\ to = "DISCARDING" => r.on = q.on \ {"learning", "forwarding"}
      /\ to = "LEARNING" => r.on = q.on \cup {"learning"}
      /\ to = "FORWARDING" => r.on = q.on \cup {"forwarding"}
  BY SMT DEF IsPort, PortField, SttransEnter, SttransState
<1>2. p \in Listed(bridge)'
  BY DEF Listed
<1>3. Order(p)' = Order(p) /\ Wait(p)' = Wait(p)
  BY <1>1, <1>2 DEF Order, Level, Wait
<1>4. /\ Order(p) = "discard" <=> "forward" \notin q.on /\ "learn" \notin q.on
      /\ Order(p) = "forward" <=> "forward" \in q.on
      /\ Kernel(p) = IF "forwarding" \in q.on THEN "forward"
                     ELSE IF "learning" \in q.on THEN "learn" ELSE "discard"
      /\ Kernel(p)' = IF "forwarding" \in r.on THEN "forward"
                      ELSE IF "learning" \in r.on THEN "learn" ELSE "discard"
  BY <1>2 DEF Order, Kernel, Level
<1> HIDE DEF q, r
<1>5. \/ Kernel(p)' = Kernel(p)
      \/ Order(p) # "discard" /\ Kernel(p) = "discard" /\ Kernel(p)' = "learn"
      \/ Order(p) = "forward" /\ Kernel(p) = "learn" /\ Kernel(p)' = "forward"
      \/ Order(p) = "discard" /\ Kernel(p) # "discard"
           /\ Kernel(p)' = "discard"
  <2>1. /\ SttransHop(q, to) /\ Gated(q) /\ Stepwise(q)
    BY DEF q
  <2>2. CASE q.sttrans = "BEGIN" /\ to = "DISCARDING"
    BY <1>1, <1>4, <2>1, <2>2 DEF Gated
  <2>3. CASE q.sttrans = "DISCARDING" /\ "learn" \in q.on /\ to = "LEARNING"
    BY <1>1, <1>4, <2>1, <2>3 DEF Gated
  <2>4. CASE q.sttrans = "LEARNING" /\ "forward" \in q.on /\ to = "FORWARDING"
    BY <1>1, <1>4, <2>1, <2>4 DEF Stepwise
  <2>5. CASE /\ q.sttrans \in OpenStates /\ "forward" \notin q.on
             /\ q.sttrans = "LEARNING" => "learn" \notin q.on
             /\ to = "DISCARDING"
    BY <1>1, <1>4, <2>1, <2>5 DEF Stepwise, Gated, OpenStates
  <2> QED
    BY <2>1, <2>2, <2>3, <2>4, <2>5 DEF SttransHop, OpenStates
<1>6. Gates!Follow(p) \/ Gates!Stays(p)
  BY <1>3, <1>5, GateFollows, GateStays
<1> QED
  BY <1>6 DEF Gating

\* A step that touches neither the gate nor its wait.
LEMMA QuietGates ==
  ASSUME NEW p \in Port, p \in Listed(bridge), p \in Listed(bridge)',
         SameWait(port[p], port'[p]),
         \/ port[p].roletrns \notin ClosingStates
         \/ bridge' = bridge
  PROVE  Gating(p)
<1>1. Order(p)' = Order(p) /\ Kernel(p)' = Kernel(p) /\ Wait(p)' = Wait(p)
  BY DEF Order, Kernel, Level, Wait, SameWait, SameGate, ClosingStates
<1>2. Gates!Stays(p)
  BY <1>1, GateStays
<1> QED
  BY <1>2 DEF Gating

\* A second passes.
LEMMA TickedGates ==
  ASSUME TypeOK, NEW p \in Port, p \in Listed(bridge), p \in Listed(bridge)',
         SameGate(port[p], port'[p]), Ticked(p),
         port[p].roletrns \notin ClosingStates
  PROVE  Gating(p)
<1> DEFINE q == port[p]
           r == port'[p]
<1>1. Order(p)' = Order(p) /\ Kernel(p)' = Kernel(p)
  BY DEF Order, Kernel, Level, SameGate
<1>2. Wait(p) = q.timer["fdWhile"] /\ Wait(p)' = r.timer["fdWhile"]
  BY DEF Wait, SameGate, ClosingStates
<1>3. r.timer = CountDown(q.timer) /\ DOMAIN q.timer = Timer
  BY DEF Ticked, TypeOK, IsPort, PortField
<1>4. /\ q.timer["fdWhile"] \in Nat
      /\ r.timer["fdWhile"] = IF q.timer["fdWhile"] > 0
                              THEN q.timer["fdWhile"] - 1 ELSE 0
  BY <1>3 DEF CountDown, Timer, TypeOK, IsPort
<1> HIDE DEF q, r
<1>5. CASE q.timer["fdWhile"] > 0
  <2>1. Gates!Second(p)
    BY <1>1, <1>2, <1>4, <1>5, GateSeconds
  <2> QED
    BY <2>1 DEF Gating
<1>6. CASE ~(q.timer["fdWhile"] > 0)
  <2>1. Wait(p)' = Wait(p)
    BY <1>2, <1>4, <1>6
  <2>2. Gates!Stays(p)
    BY <1>1, <2>1, GateStays
  <2> QED
    BY <2>2 DEF Gating
<1> QED
  BY <1>5, <1>6

\* A role is selected: outside the protocol the port is opened.
LEMMA ElectedGates ==
  ASSUME TypeOK, NEW p \in Port, p \in Listed(bridge), p \in Listed(bridge)',
         Elected(p), port[p].roletrns \notin ClosingStates
  PROVE  Gating(p)
<1> DEFINE q == port[p]
           r == port'[p]
<1>1. \/ r = WithoutRole(q)
      \/ \E c : r = WithRole(c, q)
  BY DEF Elected
<1>2. IsPort(q)
  BY DEF TypeOK
<1> HIDE DEF q, r
<1>3. LET s == WithoutRole(q) IN
      s.roletrns = q.roletrns /\ s.timer = q.timer /\ s.on = q.on
  BY <1>2, SMT DEF IsPort, PortField, WithoutRole
<1>4. \A c : LET s == WithRole(c, q) IN
        /\ s.roletrns = q.roletrns /\ s.timer = q.timer
        /\ \A f \in {"learning", "forwarding"} : f \in s.on <=> f \in q.on
        /\ "admin_non_stp" \in q.on => "forward" \in s.on
        /\ "admin_non_stp" \notin q.on =>
             \A f \in {"learn", "forward"} : f \in s.on <=> f \in q.on
  BY <1>2, SMT DEF IsPort, PortField, WithRole, WithoutProtocol, Given
<1>5. /\ r.roletrns = q.roletrns /\ r.timer = q.timer
      /\ \A f \in {"learning", "forwarding"} : f \in r.on <=> f \in q.on
      /\ \/ \A f \in {"learn", "forward"} : f \in r.on <=> f \in q.on
         \/ "admin_non_stp" \in q.on /\ "forward" \in r.on
  BY <1>1, <1>3, <1>4
<1>6. /\ Wait(p)' = Wait(p) /\ Kernel(p)' = Kernel(p)
      /\ Order(p)' = Order(p) \/ (Order(p)' = "forward" /\ On(p, "admin_non_stp"))
  BY <1>5 DEF Wait, Kernel, Order, Level, On, ClosingStates, q, r
<1>7. Gates!Stays(p) \/ Gates!Free(p)
  BY <1>6, GateStays, GateFrees
<1> QED
  BY <1>7 DEF Gating

\* roletrns.c: where the machine goes from the rest of a role, or from its
\* other states.
LEMMA OpensFrom ==
  ASSUME NEW q, NEW b, NEW others, NEW to,
         RoletrnsHop(q, b, others, to)
  PROVE  /\ to \in LearnStates \cup ForwardStates =>
              \/ /\ q.roletrns = "ROOT_PORT"
                 /\ q.timer["fdWhile"] = 0
                      \/ (ReRooted(others) /\ q.timer["rbWhile"] = 0)
              \/ /\ q.roletrns = "DESIGNATED_PORT"
                 /\ q.timer["fdWhile"] = 0 \/ Trusted(q)
         /\ to \in LearnStates => "learn" \notin q.on
         /\ to \in ForwardStates => "learn" \in q.on /\ "forward" \notin q.on
<1> SUFFICES ASSUME to \in LearnStates \cup ForwardStates
             PROVE  /\ \/ /\ q.roletrns = "ROOT_PORT"
                          /\ q.timer["fdWhile"] = 0
                               \/ (ReRooted(others) /\ q.timer["rbWhile"] = 0)
                       \/ /\ q.roletrns = "DESIGNATED_PORT"
                          /\ q.timer["fdWhile"] = 0 \/ Trusted(q)
                    /\ to \in LearnStates => "learn" \notin q.on
                    /\ to \in ForwardStates =>
                         "learn" \in q.on /\ "forward" \notin q.on
  BY DEF LearnStates, ForwardStates
<1>1. \/ q.roletrns = "ROOT_PORT" /\ FromRootPort(q, b, others, to)
      \/ q.roletrns = "DESIGNATED_PORT" /\ FromDesignatedPort(q, to)
  BY DEF LearnStates, ForwardStates, RoletrnsHop, RoleEntry, FromDisabledPort,
         FromAlternatePort
<1>2. CASE q.roletrns = "ROOT_PORT" /\ FromRootPort(q, b, others, to)
  BY <1>2 DEF LearnStates, ForwardStates, FromRootPort
<1>3. CASE q.roletrns = "DESIGNATED_PORT" /\ FromDesignatedPort(q, to)
  BY <1>3 DEF LearnStates, ForwardStates, FromDesignatedPort, MayForward
<1> QED
  BY <1>1, <1>2, <1>3

\* roletrns.c: a blocked port that is not closed is outside the protocol.
LEMMA RestsOpen ==
  ASSUME NEW q, IsPort(q), NEW b, NEW others, NEW to \in {"DISABLED_PORT",
         "ALTERNATE_PORT"}, RoletrnsHop(q, b, others, to),
         Gated(q), Placed(q), q.roletrns \in ClosingStates => OrderedShut(q),
         q.roletrns \in {"ALTERNATE_PROPOSED", "ALTERNATE_AGREED",
                         "BACKUP_PORT"} => Settled(q)
  PROVE  OrderedShut(q) \/ "admin_non_stp" \in q.on
<1>1. /\ ~NewRole(q)
      /\ q.roletrns \in BlockedStates \cup {"DISABLE_PORT", "DISABLED_PORT"}
      /\ q.roletrns \in ClosingStates \/ Settled(q)
  BY DEF RoletrnsHop, RoleEntry, BlockedStates, ClosingStates, RootStates,
         DesignatedStates, FromRootPort, FromDesignatedPort
<1>2. q.role \in PortRole
  BY DEF IsPort
<1>3. q.role \in {"DisabledPort", "AlternatePort", "BackupPort", "NonStpPort"}
  BY <1>1, <1>2 DEF PortRole, Placed, BlockedStates, RootStates,
                    DesignatedStates
<1>4. CASE q.role # "NonStpPort"
  BY <1>3, <1>4 DEF Gated, OrderedShut
<1>5. CASE q.role = "NonStpPort"
  BY <1>1, <1>5 DEF NewRole, Settled, Placed
<1> QED
  BY <1>4, <1>5

\* A step of the Port Role Transitions machine.
LEMMA MovedGates ==
  ASSUME TypeOK, NEW p \in Listed(bridge), RoletrnsStep(p), GateHeld(p),
         Gated(port[p]), Handled(port[p], Turns(p))
  PROVE  Gating(p)
<1> DEFINE q == port[p]
           r == port'[p]
<1>1. p \in Port /\ IsPort(q) /\ IsBridge(bridge)
  BY ListedPorts DEF TypeOK
<1>2. PICK to \in RoletrnsState :
        /\ bridge' = bridge
        /\ RoletrnsHop(q, bridge, Others(p), to)
        /\ r = Entered(q, bridge, to)
  BY <1>1, RoletrnsEffect
<1>3. KeptShut(q) /\ (Unclosed(q) /\ NewRole(q) => q.selectedRole = "NonStpPort")
  BY MovesHeld
<1>4. to # "BEGIN" /\ r.roletrns = to
  BY <1>1, <1>2, EnteredKeeps
<1>5. Ordered(q, r, bridge, to)
  BY <1>1, <1>2, <1>4, RoletrnsGate
<1>6. q.roletrns \in ClosingStates => q.role = q.selectedRole /\ OrderedShut(q)
  BY DEF GateHeld, Closing
<1>7. to \in LearnStates => q.sttrans \notin OpenStates
  BY <1>1, <1>2, <1>3, <1>6, WaitsOn DEF GateHeld
<1>8. p \in Listed(bridge)' /\ Delays' = Delays
  BY <1>2 DEF Listed, Delays
<1>9. /\ Kernel(p)' = Kernel(p)
      /\ Order(p) = IF "forward" \in q.on THEN "forward"
                    ELSE IF "learn" \in q.on THEN "learn" ELSE "discard"
      /\ Order(p)' = IF "forward" \in r.on THEN "forward"
                     ELSE IF "learn" \in r.on THEN "learn" ELSE "discard"
      /\ Discarding(q) => Kernel(p) = "discard"
  BY <1>5, <1>8 DEF Order, Kernel, Level, Ordered, Discarding
<1>10. /\ q.roletrns \notin ClosingStates => Wait(p) = q.timer["fdWhile"]
       /\ to \notin ClosingStates => Wait(p)' = WaitIn(q, bridge, to)
       /\ to \in ClosingStates => Wait(p)' = bridge.rootTimes.ForwardDelay
       /\ Reassured(p) <=> IF q.roletrns = "ROOT_PORT"
                           THEN ReRooted(Others(p)) /\ q.timer["rbWhile"] = 0
                           ELSE Trusted(q)
  BY <1>2, <1>4, <1>5, <1>8 DEF Wait, Ordered, ClosingStates, Reassured
<1>11. /\ bridge.rootTimes.ForwardDelay \in Delays'
       /\ bridge.rootTimes.MaxAge \in Delays'
  BY <1>8 DEF Delays
<1>12. /\ GateHeld(p) /\ Stepwise(q) /\ Gated(q) /\ Placed(q)
       /\ q.sttrans \in SttransState
  BY <1>1 DEF GateHeld, Handled, IsPort
<1>13. q.roletrns \in {"ALTERNATE_PROPOSED", "ALTERNATE_AGREED",
                       "BACKUP_PORT"} => Settled(q)
  BY DEF GateHeld, PassesBy
<1>14. "admin_non_stp" \in q.on <=> On(p, "admin_non_stp")
  BY DEF On
<1> HIDE DEF q, r
<1>15. CASE to \in OffStates
  <2>1. Order(p)' = "discard"
    BY <1>5, <1>9, <1>15 DEF Ordered, OffStates, LearnStates, ForwardStates
  <2>2. Wait(p)' \in Delays'
    BY <1>10, <1>11, <1>15 DEF WaitIn, OffStates, ClosingStates
  <2>3. Gates!Close(p)
    BY <1>1, <1>9, <2>1, <2>2, GateCloses
  <2> QED
    BY <2>3 DEF Gating
<1>16. CASE to \in {"DISABLED_PORT", "ALTERNATE_PORT"}
  <2>1. Order(p)' = Order(p)
    BY <1>5, <1>9, <1>16 DEF Ordered, OffStates, LearnStates, ForwardStates
  <2>2. Wait(p)' \in Delays'
    BY <1>10, <1>11, <1>16 DEF WaitIn, ClosingStates
  <2>3. OrderedShut(q) \/ "admin_non_stp" \in q.on
    BY <1>1, <1>2, <1>6, <1>12, <1>13, <1>16, RestsOpen
  <2>4. OrderedShut(q) => Order(p) = "discard"
    BY <1>9 DEF OrderedShut
  <2>5. Gates!Close(p) \/ Gates!Free(p)
    BY <1>1, <1>9, <1>14, <2>1, <2>2, <2>3, <2>4, GateCloses, GateFrees
  <2> QED
    BY <2>5 DEF Gating
<1>17. CASE to \in LearnStates
  <2>1. "learn" \notin q.on /\ "forward" \notin q.on
    BY <1>2, <1>12, <1>17, OpensFrom DEF Stepwise
  <2>2. Wait(p) = 0 \/ Reassured(p)
    BY <1>2, <1>10, <1>17, OpensFrom DEF ClosingStates
  <2>3. Discarding(q)
    BY <1>7, <1>12, <1>17 DEF Gated, Discarding, OpenStates, SttransState
  <2>4. Order(p) = "discard" /\ Order(p)' = "learn"
    BY <1>5, <1>9, <1>17, <2>1 DEF Ordered, OffStates, LearnStates,
                                   ForwardStates
  <2>5. Wait(p)' \in Delays'
    BY <1>10, <1>11, <1>17 DEF WaitIn, LearnStates, ClosingStates
  <2>6. Gates!Learn(p)
    BY <1>1, <1>9, <2>2, <2>3, <2>4, <2>5, GateLearns
  <2> QED
    BY <2>6 DEF Gating
<1>18. CASE to \in ForwardStates
  <2>1. "learn" \in q.on /\ "forward" \notin q.on
    BY <1>2, <1>18, OpensFrom
  <2>2. Wait(p) = 0 \/ Reassured(p)
    BY <1>2, <1>10, <1>18, OpensFrom DEF ClosingStates
  <2>3. Order(p) = "learn" /\ Order(p)' = "forward"
    BY <1>5, <1>9, <1>18, <2>1 DEF Ordered
  <2>4. Wait(p)' = 0
    BY <1>10, <1>18 DEF WaitIn, LearnStates, ForwardStates, ClosingStates
  <2>5. Gates!Forward(p)
    BY <1>1, <1>9, <2>2, <2>3, <2>4, GateForwards
  <2> QED
    BY <2>5 DEF Gating
<1>19. CASE to \notin OffStates \cup {"DISABLED_PORT", "ALTERNATE_PORT"}
                        \cup LearnStates \cup ForwardStates
  <2>1. Order(p)' = Order(p)
    BY <1>5, <1>9, <1>19 DEF Ordered
  <2>2. q.roletrns \notin ClosingStates
    <3>1. q.roletrns \in ClosingStates => ~NewRole(q)
      BY <1>6 DEF NewRole
    <3> QED
      BY <1>2, <1>19, <3>1 DEF RoletrnsHop, ClosingStates, RootStates,
                               DesignatedStates
  <2>3. Wait(p)' = Wait(p)
    BY <1>10, <1>19, <2>2 DEF WaitIn, OffStates, ClosingStates
  <2>4. Gates!Stays(p)
    BY <1>1, <1>9, <2>1, <2>3, GateStays
  <2> QED
    BY <2>4 DEF Gating
<1> QED
  BY <1>15, <1>16, <1>17, <1>18, <1>19

\* Every other step.
LEMMA StillGates ==
  ASSUME TypeOK, [Next]_vars, ~UNCHANGED vars, NEW p \in Listed(bridge),
         p \in Listed(bridge)', Stepped(p), ~Begun(p), ~RoletrnsMoved(p),
         GateHeld(p), Gated(port[p])
  PROVE  Gating(p)
<1> DEFINE q == port[p]
           r == port'[p]
<1>1. p \in Port /\ IsPort(q) /\ ~RoletrnsStep(p)
  BY ListedPorts, StepMoves DEF TypeOK
<1>2. Stepwise(q) /\ Closing(p)
  BY DEF GateHeld
<1>3. ASSUME NEW to \in SttransState, bridge' = bridge, SttransHop(q, to),
             r = SttransEnter(q, to)
      PROVE  Gating(p)
  BY <1>1, <1>2, <1>3, TellsGates
<1>4. CASE q.roletrns \in ClosingStates
  <2>1. TransmitStep(p) \/ SttransStep(p)
    BY <1>1, <1>2, <1>4, Window
  <2>2. ASSUME NEW kind, NEW s, PortMoved(kind, p, s)
        PROVE  r = s /\ bridge' = bridge
    BY <1>1, <2>2 DEF PortMoved, TypeOK
  <2>3. CASE TransmitStep(p)
    <3>1. /\ bridge' = bridge
          /\ \E to \in TransmitState : r = TransmitEnter(q, bridge, to)
      BY <2>2, <2>3 DEF TransmitStep
    <3>2. SameWait(q, r)
      BY <1>1, <3>1, WaitKept
    <3> QED
      BY <1>1, <3>1, <3>2, QuietGates
  <2>4. CASE SttransStep(p)
    BY <1>3, <2>2, <2>4 DEF SttransStep
  <2> QED
    BY <2>1, <2>3, <2>4
<1>5. CASE q.roletrns \notin ClosingStates
  <2>1. \/ \E to \in SttransState :
             Ran("sttrans", p) /\ SttransHop(q, to) /\ r = SttransEnter(q, to)
        \/ Elected(p)
        \/ SameGate(q, r) /\ (Ticked(p) \/ SameWait(q, r))
    BY <1>1, GateSteps
  <2>2. CASE \E to \in SttransState :
               Ran("sttrans", p) /\ SttransHop(q, to) /\ r = SttransEnter(q, to)
    BY <1>3, <2>2 DEF Ran
  <2>3. CASE Elected(p)
    BY <1>1, <1>5, <2>3, ElectedGates
  <2>4. CASE SameGate(q, r) /\ Ticked(p)
    BY <1>1, <1>5, <2>4, TickedGates
  <2>5. CASE SameWait(q, r)
    BY <1>1, <1>5, <2>5, QuietGates
  <2> QED
    BY <2>1, <2>2, <2>3, <2>4, <2>5
<1> QED
  BY <1>4, <1>5

\* Whatever the step was, it is one of the gate.
LEMMA SteppedGates ==
  ASSUME TypeOK, EveryPortInService, EveryPortSound, EveryPortHandled,
         EveryGateHeld, [Next]_vars, ~UNCHANGED vars, NEW p \in Port
  PROVE  Gating(p)
<1>1. CASE p \notin Listed(bridge)'
  BY <1>1, AbsentGates DEF Gating
<1>2. CASE Begun(p)
  BY <1>2, BegunGates DEF Gating
<1>3. CASE p \in Listed(bridge)' /\ ~Begun(p)
  <2>1. Stepped(p) /\ p \in Listed(bridge)
    BY <1>3, PortSteps, SteppedListed
  <2>2. GateHeld(p) /\ Gated(port[p]) /\ Handled(port[p], Turns(p))
    BY <2>1 DEF EveryGateHeld, EveryPortHandled, EveryPortSound, PortSound
  <2>3. RoletrnsMoved(p) => RoletrnsStep(p)
    <3>1. RoletrnsMoved(p) => InTurn("roletrns", p)'
      BY DEF RoletrnsMoved, Ran, Turn, InTurn
    <3> QED
      BY <3>1, TurnMoved
  <2>4. CASE RoletrnsMoved(p)
    BY <2>1, <2>2, <2>3, <2>4, MovedGates
  <2>5. CASE ~RoletrnsMoved(p)
    BY <1>3, <2>1, <2>2, <2>5, StillGates
  <2> QED
    BY <2>4, <2>5
<1> QED
  BY <1>1, <1>2, <1>3

\* The ports of a new bridge are closed, and wait.
LEMMA InitGates ==
  ASSUME Init
  PROVE  Gates!Init
<1>1. ASSUME NEW p \in Port
      PROVE  Order(p) = "discard" /\ Kernel(p) = "discard" /\ Wait(p) \in Delays
  <2>1. IsBridge(bridge)
    BY InitType DEF TypeOK
  <2>2. CASE p \in Listed(bridge)
    <3>1. port[p] = Started(NewPort(p), bridge)
      BY <2>2 DEF Init, AllStarted
    <3>2. /\ port[p].roletrns = "BEGIN"
          /\ OrderedShut(port[p]) /\ Discarding(port[p])
          /\ port[p].timer["fdWhile"] = bridge.rootTimes.ForwardDelay
      BY <2>1, <3>1, NewPortType, StartedGate
    <3> QED
      BY <3>2 DEF Order, Kernel, Delays, Level, Wait, OrderedShut, Discarding
  <2>3. CASE p \notin Listed(bridge)
    BY <2>3 DEF Order, Kernel, Delays, Level, Wait
  <2> QED
    BY <2>2, <2>3
<1> QED
  BY <1>1 DEF Gates!Init, Order, Kernel, Delays

\* statmch.c, stpm.c, roletrns.c, sttrans.c: every port of the bridge is a
\* gate of PortGate, whatever frames, calls and seconds come in whatever
\* order, and wherever in a call of STP_change_state they find it.
THEOREM PortsAreGates == Spec => EveryPortGated
<1>1. Init => Gates!Init
  BY InitGates
<1>2. TypeOK /\ EveryPortInService /\ EveryPortSound /\ EveryPortHandled
      /\ EveryGateHeld /\ [Next]_vars => [Gates!Next]_(Gates!vars)
  <2> SUFFICES ASSUME TypeOK, EveryPortInService, EveryPortSound,
                      EveryPortHandled, EveryGateHeld, [Next]_vars
               PROVE  [Gates!Next]_(Gates!vars)
    OBVIOUS
  <2>1. CASE ~UNCHANGED vars
    <3>1. \A p \in Port : Gating(p)
      BY <2>1, SteppedGates
    <3> QED
      BY <3>1 DEF Gates!Next, Gating
  <2>2. CASE UNCHANGED vars
    BY <2>2 DEF vars, Gates!vars, Level, Wait, Listed
  <2> QED
    BY <2>1, <2>2
<1> QED
  BY <1>1, <1>2, TypeCorrect, AlwaysInService, AlwaysSound, AlwaysHandled,
     AlwaysHeld, PTL DEF Spec, EveryPortGated, Gates!Spec

=============================================================================
