------------------------------- MODULE Bridge -------------------------------
(***************************************************************************)
(* One bridge running the library: the scheduler of the state machines     *)
(* (rstplib/statmch.c, stpm.c), the ports (port.c) and the entry points of *)
(* the library (stp_in.c, stpmgmt.c).                                      *)
(*                                                                         *)
(* The program is single-threaded.  An entry point changes some state and  *)
(* then runs STP_stpm_update, which lets the machines move, one transition *)
(* at a time, until none of them has anything to do.  Each transition is   *)
(* an action here; "call" says that an entry point has not yet returned,   *)
(* and the environment acts only when none is in progress.                 *)
(***************************************************************************)
EXTENDS PortInfo, PortProtocol, TopologyChange, RoleTransitions, Transmit,
        RoleSelection

CONSTANTS
  Port,          \* indexes a port may have
  InitialPorts,  \* those created with the bridge, the latest first
  PortMac,       \* the MAC address of each port
  InitialPortCfg,\* what STP_OUT_get_init_port_cfg answers for a new port
  InitialCfg,    \* what STP_OUT_get_init_stpm_cfg answers for the bridge
  Received,      \* BPDUs that may arrive
  BridgeCfgs,    \* configurations STP_IN_stpm_set_cfg may be given
  PortCfgs,      \* configurations STP_IN_set_port_cfg may be given
  Speeds,        \* speeds a link may come up with, in Mb/s
  MaxRx,         \* bound: receptions in a behaviour
  MaxCalls,      \* bound: management and link calls in a behaviour
  MaxInputs      \* bound: receptions and calls together

VARIABLES
  bridge,   \* STPM_T
  port,     \* PORT_T of every index; the ones in bridge.ports exist
  call,     \* the entry point in progress, see CallKind
  running,  \* the machine STP_change_state is looping on, or NoMachine
  sent,     \* the BPDU the latest step transmitted, and where
  rxLeft,   \* receptions left
  callsLeft \* management and link calls left

vars == <<bridge, port, call, running, sent, rxLeft, callsLeft>>

\* "restart": one that starts every machine of the bridge again
CallKind == {"none", "one_second", "restart", "other"}

-----------------------------------------------------------------------------
(* Configurations.  A configuration is a function: its domain is the       *)
(* field_mask of the C structure.                                          *)

BridgeCfgField == {"prio", "MaxAge", "HelloTime", "ForwardDelay",
                   "ForceVersion"}
PortCfgField == {"mcheck", "adminPCost", "prio", "p2p", "edge", "non_stp"}

IsBridgeCfg(c) ==
  /\ DOMAIN c \subseteq BridgeCfgField \cup {"stp_enabled"}
  /\ \A f \in DOMAIN c \cap BridgeCfgField : c[f] \in Nat
  /\ "stp_enabled" \in DOMAIN c => c.stp_enabled \in BOOLEAN
  /\ "ForceVersion" \in DOMAIN c => c.ForceVersion \in ForceVersions

IsPortCfg(c) ==
  /\ DOMAIN c \subseteq PortCfgField
  /\ \A f \in DOMAIN c \cap {"adminPCost", "prio"} : c[f] \in Nat
  /\ "p2p" \in DOMAIN c => c.p2p \in AdminP2P
  /\ \A f \in DOMAIN c \cap {"mcheck", "edge", "non_stp"} : c[f] \in BOOLEAN

ASSUME PortAssumption ==
  /\ Port \subseteq Nat \ {0}
  /\ InitialPorts \in Seq(Port)
  /\ DOMAIN PortMac = Port
  /\ \A p \in Port : PortMac[p] \in 0 .. MacSpan - 1

ASSUME InputAssumption ==
  /\ Received \subseteq Bpdu
  /\ \A c \in BridgeCfgs : IsBridgeCfg(c)
  /\ \A c \in PortCfgs : IsPortCfg(c)
  /\ Speeds \subseteq Nat
  /\ MaxRx \in Nat
  /\ MaxCalls \in Nat
  /\ MaxInputs \in Nat

ASSUME InitialAssumption ==
  /\ IsBridgeCfg(InitialCfg)
  /\ DOMAIN InitialCfg = BridgeCfgField
  /\ IsPortCfg(InitialPortCfg)
  /\ DOMAIN InitialPortCfg = PortCfgField

MaxPathCost == 200000000
MaxPortPrio == 240

-----------------------------------------------------------------------------
(* Creating and initialising ports (port.c)                                *)

ZeroVector == MakeVector(0, 0, 0, 0, 0)
ZeroTimes == [MessageAge |-> 0, MaxAge |-> 0, ForwardDelay |-> 0,
              HelloTime |-> 0]

\* The structure STP_port_create returns: zero but for its configuration.
NewPort(p) ==
  [receive |-> "BEGIN", migrate |-> "BEGIN", brdgdet |-> "BEGIN",
   p2p |-> "BEGIN", pcost |-> "BEGIN", info |-> "BEGIN",
   roletrns |-> "BEGIN", sttrans |-> "BEGIN", transmit |-> "BEGIN",
   topoch |-> "BEGIN",
   on |-> Given(InitialPortCfg.edge, {"AdminEdgePort"})
            \cup Given(InitialPortCfg.non_stp, {"admin_non_stp"}),
   timer |-> [t \in Timer |-> 0],
   role |-> "DisabledPort", selectedRole |-> "DisabledPort",
   infoIs |-> "Mine", rcvdInfo |-> "SuperiorDesignatedInfo",
   msg |-> [type |-> "CONFIG", version |-> 0, role |-> "UNKN",
            flags |-> {}, vector |-> ZeroVector, times |-> ZeroTimes],
   msgPortRole |-> "UNKN",
   portId |-> MakePortId(InitialPortCfg.prio, p),
   portPriority |-> ZeroVector, portTimes |-> ZeroTimes,
   designatedPriority |-> ZeroVector, designatedTimes |-> ZeroTimes,
   adminPCost |-> InitialPortCfg.adminPCost,
   operPCost |-> 0, operSpeed |-> 0, usedSpeed |-> 0,
   adminPointToPointMac |-> InitialPortCfg.p2p,
   osSpeed |-> 100, osDuplex |-> TRUE]

\* What STP_port_init resets whether or not it was told to check the link.
PortReset(q) ==
  [q EXCEPT
     !.timer = [t \in Timer |->
                  IF t \in {"helloWhen", "mdelayWhile", "rbWhile",
                            "rcvdInfoWhile", "rrWhile", "tcWhile", "txCount"}
                  THEN 0 ELSE q.timer[t]],
     !.on = q.on \cup {"portEnabled", "sendRSTP", "p2p_recompute"},
     !.msgPortRole = "UNKN", !.selectedRole = "DisabledPort",
     !.operSpeed = q.osSpeed]

\* STP_port_init(port, stpm, True)
PortInit(q, b) ==
  LET r == PortReset(q) IN
  [r EXCEPT
     !.designatedPriority = MakeVector(BridgeIdentifier(b), 0,
                                       BridgeIdentifier(b),
                                       q.portId, q.portId),
     !.designatedTimes = b.rootTimes,
     !.timer = [r.timer EXCEPT !["fdWhile"] = 0]]

-----------------------------------------------------------------------------
(* (Re)starting the whole bridge: STP_stpm_start and                       *)
(* STP_stpm_update_after_bridge_management, up to the update they end in.  *)

\* _stp_stpm_init_data, and BEGIN of the role selection machine
InitData(b) ==
  LET times == [b.BridgeTimes EXCEPT !.MessageAge = 0] IN
  [b EXCEPT !.rolesel = "BEGIN", !.rootPriority = BridgePriority(b),
            !.BridgeTimes = times, !.rootTimes = times]

\* _stp_stpm_init_machine on every machine of a port, in list order
Begin(q, b) ==
  LET q1 == TransmitEnter(q, b, "BEGIN")
      q2 == SttransEnter(q1, "BEGIN")
      q3 == RoletrnsEnter(q2, b, "BEGIN")
      q4 == InfoEnter(q3, b, "BEGIN")
      q5 == BrdgdetEnter(PcostEnter(q4, "BEGIN"), "BEGIN")
      q6 == MigrateEnter(P2pEnter(q5, "BEGIN"), b, "BEGIN")
  IN ReceiveEnter(TopochEnter(q6, b, "BEGIN"), "BEGIN")

Started(q, b) == Begin(WithoutRole(PortInit(q, b)), b)

\* The ports of bridge b started again; the others left alone.
AllStarted(ports, b) ==
  [p \in Port |-> IF p \in Listed(b) THEN Started(ports[p], b)
                  ELSE ports[p]]

\* STP_compute_bridge_id: the least of the ports' addresses, else all ones
BridgeAddress(ports, addr) ==
  LET macs == {PortMac[ports[n]] : n \in DOMAIN ports} IN
  /\ addr \in macs \cup {MacSpan - 1}
  /\ \A m \in macs : addr <= m

-----------------------------------------------------------------------------
(* The scheduler.  A machine is named by its kind and its port; the role   *)
(* selection machine belongs to "port 0".                                  *)

\* The order of the machines in a port's list: last created, first checked
MachineOrder == <<"transmit", "sttrans", "roletrns", "info", "pcost",
                  "brdgdet", "p2p", "migrate", "topoch", "receive">>

NoMachine == [machine |-> "none", port |-> 0]
RoleselMachine == [machine |-> "rolesel", port |-> 0]
Machine(kind, p) == [machine |-> kind, port |-> p]

Others(p) == {port[r] : r \in Listed(bridge) \ {p}}

\* STP_check_condition: the machine has a transition to make
Ready(m) ==
  LET q == port[m.port] IN
  CASE m.machine = "rolesel" ->
         \E to \in RoleselState : RoleselHop(bridge, port, to)
    [] m.machine = "transmit" -> \E to \in TransmitState : TransmitHop(q, to)
    [] m.machine = "sttrans" -> \E to \in SttransState : SttransHop(q, to)
    [] m.machine = "roletrns" ->
         \E to \in RoletrnsState :
           RoletrnsHop(q, bridge, Others(m.port), to)
    [] m.machine = "info" -> \E to \in InfoState : InfoHop(q, to)
    [] m.machine = "pcost" -> \E to \in PcostState : PcostHop(q, to)
    [] m.machine = "brdgdet" -> \E to \in BrdgdetState : BrdgdetHop(q, to)
    [] m.machine = "p2p" -> \E to \in P2pState : P2pHop(q, to)
    [] m.machine = "migrate" ->
         \E to \in MigrateState : MigrateHop(q, bridge, to)
    [] m.machine = "topoch" -> \E to \in TopochState : TopochHop(q, to)
    [] m.machine = "receive" -> \E to \in ReceiveState : ReceiveHop(q, to)
    [] m.machine = "none" -> FALSE

\* The machines _stp_stpm_iterate_machines looks at before it comes to m.
Before(m) ==
  LET ports == bridge.ports
      ListPlace(p) == CHOOSE n \in DOMAIN ports : ports[n] = p
      Place(kind) == CHOOSE i \in DOMAIN MachineOrder :
                       MachineOrder[i] = kind
  IN
  IF m = RoleselMachine THEN {}
  ELSE {RoleselMachine}
         \cup {Machine(MachineOrder[i], ports[n]) :
                 i \in DOMAIN MachineOrder,
                 n \in 1 .. ListPlace(m.port) - 1}
         \cup {Machine(MachineOrder[i], m.port) :
                 i \in 1 .. Place(m.machine) - 1}

(***************************************************************************)
(* It is m's turn: STP_change_state stays with a machine as long as it has *)
(* transitions to make, and STP_stpm_update then looks for the first       *)
(* machine that has one, from the head of the list.                        *)
(***************************************************************************)
Turn(m) ==
  /\ call # "none"
  /\ Ready(m)
  /\ IF Ready(running) THEN m = running
     ELSE \A other \in Before(m) : ~Ready(other)

AllMachines ==
  {RoleselMachine} \cup
  {Machine(MachineOrder[i], p) : i \in DOMAIN MachineOrder, p \in Listed(bridge)}

Silent == [port |-> 0, bpdu |-> NoBpdu]

\* A machine of port p moved and left the port as q.
PortMoved(kind, p, q) ==
  /\ Turn(Machine(kind, p))
  /\ port' = [port EXCEPT ![p] = q]
  /\ running' = Machine(kind, p)
  /\ UNCHANGED <<bridge, call, rxLeft, callsLeft>>

\* A machine of port p moved, left p as q and raised flags on the others.
PortMovedAll(kind, p, q, flags) ==
  /\ Turn(Machine(kind, p))
  /\ port' = [r \in Port |->
                IF r = p THEN q
                ELSE IF r \in Listed(bridge)
                THEN [port[r] EXCEPT !.on = port[r].on \cup flags]
                ELSE port[r]]
  /\ running' = Machine(kind, p)
  /\ UNCHANGED <<bridge, call, rxLeft, callsLeft>>

-----------------------------------------------------------------------------
(* One action for each state machine.                                      *)

TransmitStep(p) ==
  \E to \in TransmitState :
    /\ TransmitHop(port[p], to)
    /\ PortMoved("transmit", p, TransmitEnter(port[p], bridge, to))
    /\ LET bpdu == TxBpdu(port[p], to) IN
       sent' = IF bpdu = NoBpdu THEN Silent ELSE [port |-> p, bpdu |-> bpdu]

SttransStep(p) ==
  \E to \in SttransState :
    /\ SttransHop(port[p], to)
    /\ PortMoved("sttrans", p, SttransEnter(port[p], to))
    /\ sent' = Silent

RoletrnsStep(p) ==
  \E to \in RoletrnsState :
    /\ RoletrnsHop(port[p], bridge, Others(p), to)
    /\ LET q == RoletrnsEnter(port[p], bridge, to) IN
       PortMovedAll("roletrns", p,
                    [q EXCEPT !.on = q.on \cup RoletrnsBroadcast(to)],
                    RoletrnsBroadcast(to))
    /\ sent' = Silent

InfoStep(p) ==
  \E to \in InfoState :
    /\ InfoHop(port[p], to)
    /\ PortMoved("info", p, InfoEnter(port[p], bridge, to))
    /\ sent' = Silent

PcostStep(p) ==
  \E to \in PcostState :
    /\ PcostHop(port[p], to)
    /\ PortMoved("pcost", p, PcostEnter(port[p], to))
    /\ sent' = Silent

BrdgdetStep(p) ==
  \E to \in BrdgdetState :
    /\ BrdgdetHop(port[p], to)
    /\ PortMoved("brdgdet", p, BrdgdetEnter(port[p], to))
    /\ sent' = Silent

P2pStep(p) ==
  \E to \in P2pState :
    /\ P2pHop(port[p], to)
    /\ PortMoved("p2p", p, P2pEnter(port[p], to))
    /\ sent' = Silent

MigrateStep(p) ==
  \E to \in MigrateState :
    /\ MigrateHop(port[p], bridge, to)
    /\ PortMoved("migrate", p, MigrateEnter(port[p], bridge, to))
    /\ sent' = Silent

TopochStep(p) ==
  \E to \in TopochState :
    /\ TopochHop(port[p], to)
    /\ PortMovedAll("topoch", p, TopochEnter(port[p], bridge, to),
                    TopochBroadcast(to))
    /\ sent' = Silent

ReceiveStep(p) ==
  \E to \in ReceiveState :
    /\ ReceiveHop(port[p], to)
    /\ PortMoved("receive", p, ReceiveEnter(port[p], to))
    /\ sent' = Silent

\* INIT_BRIDGE disables every port; ROLE_SELECTION elects the root from one
\* of the sources and gives every port its role.
RoleselStep ==
  \E to \in RoleselState, source \in {0} \cup Listed(bridge) :
    /\ RoleselHop(bridge, port, to)
    /\ Turn(RoleselMachine)
    /\ source = IF to = "ROLE_SELECTION" THEN BestSource(bridge, port) ELSE 0
    /\ bridge' = IF to = "ROLE_SELECTION"
                 THEN WithRoot(bridge, port, source)
                 ELSE [bridge EXCEPT !.rolesel = to]
    /\ port' = [p \in Port |->
                  IF p \notin Listed(bridge) THEN port[p]
                  ELSE IF to = "ROLE_SELECTION"
                       THEN WithRole(WithRoot(bridge, port, source), port[p])
                       ELSE WithoutRole(port[p])]
    /\ running' = RoleselMachine
    /\ sent' = Silent
    /\ UNCHANGED <<call, rxLeft, callsLeft>>

\* No machine has anything left to do: the entry point returns.
UpdateReturns ==
  /\ call # "none"
  /\ \A m \in AllMachines : ~Ready(m)
  /\ bridge' = IF call = "one_second"
               THEN [bridge EXCEPT !.Topology_Change =
                       \E p \in Listed(bridge) : port[p].timer["tcWhile"] # 0]
               ELSE bridge
  /\ call' = "none"
  /\ running' = NoMachine
  /\ sent' = Silent
  /\ UNCHANGED <<port, rxLeft, callsLeft>>

MachineStep ==
  \/ \E p \in Listed(bridge) :
       \/ TransmitStep(p)
       \/ SttransStep(p)
       \/ RoletrnsStep(p)
       \/ InfoStep(p)
       \/ PcostStep(p)
       \/ BrdgdetStep(p)
       \/ P2pStep(p)
       \/ MigrateStep(p)
       \/ TopochStep(p)
       \/ ReceiveStep(p)
  \/ RoleselStep
  \/ UpdateReturns

-----------------------------------------------------------------------------
(* The entry points.                                                       *)

\* An entry point that ends in STP_stpm_update.
Enters(kind) ==
  /\ call = "none"
  /\ call' = kind
  /\ running' = NoMachine
  /\ sent' = Silent

\* An entry point that leaves the update to the next one.
EntersAndReturns ==
  /\ call = "none"
  /\ sent' = Silent
  /\ UNCHANGED <<bridge, call, running>>

InputLeft == (MaxRx - rxLeft) + (MaxCalls - callsLeft) < MaxInputs

Call ==
  /\ callsLeft > 0 /\ InputLeft
  /\ callsLeft' = callsLeft - 1
  /\ UNCHANGED rxLeft

\* mutants: one of the two flags, or both, forgotten
ReselectOnly(q) == [q EXCEPT !.on = q.on \cup {"reselect"}]
ReselectForgotten(q) == q

Reselect(q) == [q EXCEPT !.on = (q.on \ {"selected"}) \cup {"reselect"}]

\* _stp_in_enable_port_on_stpm
EnableOn(q, enable) ==
  IF ("portEnabled" \in q.on) = enable THEN q ELSE Reselect(PortReset(q))

\* a mutant: the decrement without its test
CountDownUnguarded(timer) == [t \in Timer |-> timer[t] - 1]

\* a mutant: the transmit count is never worked off
CountDownButTxCount(timer) ==
  [t \in Timer |-> IF timer[t] > 0 /\ t # "txCount" THEN timer[t] - 1
                   ELSE timer[t]]

\* STP_stpm_one_second: the timers of one port
CountDown(timer) ==
  [t \in Timer |-> IF timer[t] > 0 THEN timer[t] - 1 ELSE 0]

\* The call leaves bridge b, and no machine runs.
SetsOnly(b) ==
  /\ call = "none"
  /\ bridge' = b
  /\ sent' = Silent
  /\ UNCHANGED <<port, call, running>>

\* STP_IN_one_second, on a bridge that is enabled
Ticks ==
  /\ bridge.stp_enabled
  /\ Enters("one_second")
  /\ port' = [p \in Port |->
                IF p \in Listed(bridge)
                THEN [port[p] EXCEPT !.timer = CountDown(port[p].timer)]
                ELSE port[p]]
  /\ UNCHANGED bridge

\* It passes over a bridge that is disabled, as most entry points do.
OneSecond ==
  /\ Ticks \/ (~bridge.stp_enabled /\ SetsOnly(bridge))
  /\ UNCHANGED <<rxLeft, callsLeft>>

\* STP_IN_rx_bpdu of BPDU m
Gets(p, m) ==
  /\ Enters("other")
  /\ bridge.stp_enabled
  /\ LET q == EnableOn(port[p], TRUE) IN
     port' = [port EXCEPT ![p] =
                InfoRxBpdu([q EXCEPT !.on = q.on \ {"operEdge"}], bridge, m)]
  /\ UNCHANGED <<bridge, callsLeft>>

RxBpdu(p) ==
  /\ rxLeft > 0 /\ InputLeft
  /\ rxLeft' = rxLeft - 1
  /\ \E m \in Received : Gets(p, m)

\* STP_IN_enable_port: the link of the port went up or down
LinkIs(p, enable) ==
  /\ EntersAndReturns
  /\ bridge.stp_enabled
  /\ port' = [port EXCEPT ![p] = EnableOn(port[p], enable)]

EnablePort(p, enable) == Call /\ LinkIs(p, enable)

\* STP_IN_changed_port_speed
ChangedPortSpeed(p) ==
  /\ EntersAndReturns
  /\ Call
  /\ \E speed \in Speeds :
       LET q == [port[p] EXCEPT !.osSpeed = speed] IN
       port' = [port EXCEPT ![p] =
                  IF bridge.stp_enabled
                  THEN Reselect([q EXCEPT !.operSpeed = speed]) ELSE q]

\* STP_IN_changed_port_duplex
ChangedPortDuplex(p) ==
  /\ EntersAndReturns
  /\ Call
  /\ \E duplex \in BOOLEAN \ {port[p].osDuplex} :
       LET q == [port[p] EXCEPT !.osDuplex = duplex] IN
       port' = [port EXCEPT ![p] =
                  IF bridge.stp_enabled
                  THEN Reselect([q EXCEPT !.on = q.on \cup {"p2p_recompute"}])
                  ELSE q]

\* _check_stpm_config
ValidCfg(c) ==
  /\ c.prio <= 61440 /\ c.prio % 4096 = 0
  /\ c.HelloTime \in 1 .. 10
  /\ c.MaxAge \in 6 .. 40
  /\ c.ForwardDelay \in 4 .. 30
  /\ 2 * (c.ForwardDelay - 1) >= c.MaxAge
  /\ c.MaxAge >= 2 * (c.HelloTime + 1)

CurrentCfg(b) ==
  [prio |-> b.prio, ForceVersion |-> b.ForceVersion,
   MaxAge |-> b.BridgeTimes.MaxAge, HelloTime |-> b.BridgeTimes.HelloTime,
   ForwardDelay |-> b.BridgeTimes.ForwardDelay]

Merged(c, current) ==
  [f \in BridgeCfgField |-> IF f \in DOMAIN c THEN c[f] ELSE current[f]]

\* A bridge with configuration c; rstpVersion is left to its creation.
Configured(b, c) ==
  [b EXCEPT !.prio = c.prio, !.ForceVersion = c.ForceVersion,
            !.BridgeTimes = [MessageAge |-> b.BridgeTimes.MessageAge,
                             MaxAge |-> c.MaxAge, HelloTime |-> c.HelloTime,
                             ForwardDelay |-> c.ForwardDelay]]

\* STP_stpm_update_after_bridge_management on bridge b
Restarts(b, ports) ==
  /\ Enters("restart")
  /\ bridge' = InitData(b)
  /\ port' = AllStarted(ports, InitData(b))

Sets(c, state) == "stp_enabled" \in DOMAIN c /\ c.stp_enabled = state

(***************************************************************************)
(* STP_IN_stpm_set_cfg; one that fails _check_stpm_config changes nothing. *)
(* One that disables the bridge does only that: "field_mask &= !..."       *)
(* clears the whole mask.  The ports stay as they are (STP_stpm_stop is    *)
(* empty).  Enabling it is STP_stpm_start.                                 *)
(***************************************************************************)
StpmSetCfg ==
  /\ Call
  /\ \E c \in BridgeCfgs :
       LET new == Configured(bridge, Merged(c, CurrentCfg(bridge))) IN
       /\ ValidCfg(CurrentCfg(new))
       /\ \/ /\ Sets(c, FALSE)
             /\ SetsOnly([bridge EXCEPT !.stp_enabled = FALSE])
          \/ /\ ~Sets(c, FALSE)
             /\ bridge.stp_enabled \/ Sets(c, TRUE)
             /\ Restarts([new EXCEPT !.stp_enabled = TRUE], port)
          \/ /\ "stp_enabled" \notin DOMAIN c
             /\ ~bridge.stp_enabled
             /\ SetsOnly(new)

(***************************************************************************)
(* STP_IN_set_port_cfg: applies the fields one by one and returns at the   *)
(* first bad value, keeping what it has already applied.                   *)
(***************************************************************************)
BadCost(c) == "adminPCost" \in DOMAIN c /\ c.adminPCost > MaxPathCost
BadPrio(c) == "prio" \in DOMAIN c /\ (c.prio > MaxPortPrio \/ c.prio % 16 # 0)

WithMcheck(q, b, c) ==
  [q EXCEPT !.on = q.on \cup
     Given("mcheck" \in DOMAIN c /\ b.ForceVersion >= 2, {"mcheck"})]

WithCost(q, c) ==
  [q EXCEPT !.adminPCost =
     IF "adminPCost" \in DOMAIN c THEN c.adminPCost ELSE q.adminPCost]

WithPrio(q, c, p) ==
  [q EXCEPT !.portId =
     IF "prio" \in DOMAIN c THEN MakePortId(c.prio, p) ELSE q.portId]

Assigned(on, c, field, flags) ==
  IF field \notin DOMAIN c THEN on
  ELSE IF c[field] THEN on \cup flags ELSE on \ flags

WithFlags(q, c) ==
  LET edge == Assigned(q.on, c, "edge", {"AdminEdgePort", "operEdge"})
      stp == Assigned(edge, c, "non_stp", {"admin_non_stp"})
  IN
  [q EXCEPT !.adminPointToPointMac =
              IF "p2p" \in DOMAIN c THEN c.p2p ELSE q.adminPointToPointMac,
            !.on = stp \cup Given("p2p" \in DOMAIN c, {"p2p_recompute"})]

\* An early return: the update is not run.
SetPortCfgFails(p, c) ==
  /\ BadCost(c) \/ BadPrio(c)
  /\ EntersAndReturns
  /\ LET q == WithMcheck(port[p], bridge, c) IN
     port' = [port EXCEPT ![p] = IF BadCost(c) THEN q ELSE WithCost(q, c)]

SetPortCfgSucceeds(p, c) ==
  /\ ~BadCost(c) /\ ~BadPrio(c)
  /\ Enters("other")
  /\ LET q == WithCost(WithMcheck(port[p], bridge, c), c) IN
     port' = [port EXCEPT ![p] =
                Reselect(WithFlags(WithPrio(q, c, p), c))]
  /\ UNCHANGED bridge

SetPortCfg(p) ==
  /\ Call
  /\ \E c \in PortCfgs : SetPortCfgFails(p, c) \/ SetPortCfgSucceeds(p, c)

\* STP_IN_port_create: a new port at the head of the list
PortCreate(p) ==
  /\ Call
  /\ \E addr \in 0 .. MacSpan - 1 :
       LET ports == <<p>> \o bridge.ports IN
       /\ BridgeAddress(ports, addr)
       /\ Restarts([bridge EXCEPT !.ports = ports, !.addr = addr],
                   [port EXCEPT ![p] = NewPort(p)])

\* STP_IN_port_delete: the rest of the list closes up
PortDelete(p) ==
  /\ Call
  /\ \E n \in DOMAIN bridge.ports, addr \in 0 .. MacSpan - 1 :
       LET ports == [i \in 1 .. Len(bridge.ports) - 1 |->
                       bridge.ports[IF i < n THEN i ELSE i + 1]]
       IN
       /\ bridge.ports[n] = p
       /\ BridgeAddress(ports, addr)
       /\ Restarts([bridge EXCEPT !.ports = ports, !.addr = addr],
                   [port EXCEPT ![p] = NewPort(p)])

Management ==
  \/ StpmSetCfg
  \/ \E p \in Port \ Listed(bridge) : PortCreate(p)
  \/ \E p \in Listed(bridge) :
       \/ PortDelete(p)
       \/ SetPortCfg(p)
       \/ ChangedPortSpeed(p)
       \/ ChangedPortDuplex(p)
       \/ \E enable \in BOOLEAN : EnablePort(p, enable)

-----------------------------------------------------------------------------
\* STP_IN_stpm_create: the bridge, its first ports and STP_stpm_start, whose
\* update is still to run.
CreatedBridge(addr) ==
  InitData([rolesel |-> "BEGIN", ports |-> InitialPorts,
            prio |-> InitialCfg.prio, addr |-> addr,
            ForceVersion |-> InitialCfg.ForceVersion,
            rstpVersion |-> InitialCfg.ForceVersion >= 2,
            BridgeTimes |-> [MessageAge |-> 0,
                             MaxAge |-> InitialCfg.MaxAge,
                             HelloTime |-> InitialCfg.HelloTime,
                             ForwardDelay |-> InitialCfg.ForwardDelay],
            rootPriority |-> ZeroVector, rootTimes |-> ZeroTimes,
            rootPortId |-> 0, Topology_Change |-> FALSE,
            stp_enabled |-> TRUE])

Init ==
  /\ \E addr \in 0 .. MacSpan - 1 :
       /\ BridgeAddress(InitialPorts, addr)
       /\ bridge = CreatedBridge(addr)
  /\ port = AllStarted([p \in Port |-> NewPort(p)], bridge)
  /\ call = "restart"
  /\ running = NoMachine
  /\ sent = Silent
  /\ rxLeft = MaxRx
  /\ callsLeft = MaxCalls

Next ==
  \/ MachineStep
  \/ OneSecond
  \/ \E p \in Listed(bridge) : RxBpdu(p)
  \/ Management

(***************************************************************************)
(* Fairness: an entry point runs to its end, and the main loop calls       *)
(* STP_IN_one_second every second (epoll_loop.c).                          *)
(***************************************************************************)
Spec == Init /\ [][Next]_vars
FairSpec == Spec /\ WF_vars(MachineStep) /\ WF_vars(OneSecond)

-----------------------------------------------------------------------------
TypeOK ==
  /\ IsBridge(bridge)
  /\ bridge.ports \in Seq(Port)
  /\ DOMAIN port = Port
  /\ \A p \in Port : IsPort(port[p])
  /\ call \in CallKind
  /\ rxLeft \in Nat
  /\ callsLeft \in Nat

=============================================================================
