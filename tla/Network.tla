------------------------------ MODULE Network -------------------------------
(***************************************************************************)
(* Two bridges, A and B, each running module Bridge, and a link from each  *)
(* port of the one to the port of the same index of the other.  With two   *)
(* links the network has a loop, and the protocol is there to break it.    *)
(*                                                                         *)
(* The environment is the one of the library's simulator: each bridge is a *)
(* process (rstplib/bridge.c) that takes the messages from its socket and  *)
(* calls STP_IN_one_second when a second passes without any, and a manager *)
(* (rstplib/mngr.c) carries BPDUs from a port to the port it is linked to. *)
(* What a machine of one bridge transmits waits on the link until it is    *)
(* handed to STP_IN_rx_bpdu of the other, or is lost; a link keeps the     *)
(* order, and links overtake each other.  Of two bridges that compute at   *)
(* the same time, A is taken to finish first: until it returns, neither    *)
(* sees anything of the other but BPDUs that wait, so the order of their   *)
(* steps makes no difference.                                              *)
(***************************************************************************)
EXTENDS Integers, Sequences, FiniteSets

CONSTANTS
  HalfWord, MigrateTime, TxHoldCount, \* as in module Vectors
  Port,          \* the ports of A, and of B
  InitialPorts,
  MacA, MacB,    \* the address of each port
  InitialPortCfg, InitialCfg,
  NewCfgs,       \* configurations that B may be given
  MaxCalls,      \* bound: how many of them in a behaviour
  MaxLost,       \* bound: BPDUs lost in a behaviour
  MaxCuts,       \* bound: links cut in a behaviour
  MaxFaults,     \* bound: configurations, losses and cuts together
  Deadline       \* seconds after which the tree must stand

VARIABLES
  bridgeA, portA, callA, runningA, sentA, \* the state of A
  bridgeB, portB, callB, runningB, sentB, \* the state of B
  toA, toB,   \* the messages on their way to each port
  linked,     \* the ports whose links are not cut
  ticked,     \* the bridges whose second has come, see Tick
  due,        \* seconds until the tree must stand
  callsLeft, lostLeft

A == INSTANCE Bridge WITH
       PortMac <- MacA, Received <- {}, BridgeCfgs <- {}, PortCfgs <- {},
       Speeds <- {}, MaxRx <- 0, MaxInputs <- MaxCalls,
       bridge <- bridgeA, port <- portA, call <- callA, running <- runningA,
       sent <- sentA, rxLeft <- 0

B == INSTANCE Bridge WITH
       PortMac <- MacB, Received <- {}, BridgeCfgs <- NewCfgs, PortCfgs <- {},
       Speeds <- {}, MaxRx <- 0, MaxInputs <- MaxCalls,
       bridge <- bridgeB, port <- portB, call <- callB, running <- runningB,
       sent <- sentB, rxLeft <- 0

stateA == <<bridgeA, portA, callA, runningA, sentA>>
stateB == <<bridgeB, portB, callB, runningB, sentB>>
links == <<toA, toB, linked>>
vars == <<stateA, stateB, links, ticked, due, callsLeft, lostLeft>>

ASSUME NetworkAssumption ==
  /\ MaxCalls \in Nat
  /\ MaxLost \in Nat
  /\ MaxCuts \in Nat
  /\ MaxFaults \in Nat
  /\ Deadline \in Nat

-----------------------------------------------------------------------------
Disconnect == [type |-> "UID_PORT_DISCONNECT"]

\* mngr_rx_bpdu: what the step has transmitted, if anything, is on its way,
\* unless the port is not linked.
Carried(link, sent) ==
  IF sent.port \notin linked THEN link
  ELSE [link EXCEPT ![sent.port] = Append(@, sent.bpdu)]

\* Nothing is computed and nothing is on its way.
AtEase == /\ callA = "none" /\ callB = "none"
          /\ \A p \in Port : toA[p] = <<>> /\ toB[p] = <<>>

\* A machine of one bridge moves.
StepA ==
  /\ A!MachineStep
  /\ toB' = Carried(toB, sentA')
  /\ UNCHANGED <<stateB, toA, linked, ticked, due, lostLeft>>

StepB ==
  /\ callA = "none" /\ B!MachineStep
  /\ toA' = Carried(toA, sentB')
  /\ UNCHANGED <<stateA, toB, linked, ticked, due, lostLeft>>

\* read_uid: the next message of a link arrives.
ReceiveA(p) ==
  /\ toA[p] # <<>> /\ callB = "none"
  /\ \/ Head(toA[p]) # Disconnect /\ A!Gets(p, Head(toA[p]))
     \/ Head(toA[p]) = Disconnect /\ A!LinkIs(p, FALSE)
  /\ toA' = [toA EXCEPT ![p] = Tail(@)]
  /\ UNCHANGED <<stateB, toB, linked, ticked, due, callsLeft, lostLeft>>

ReceiveB(p) ==
  /\ toB[p] # <<>> /\ callA = "none"
  /\ \/ Head(toB[p]) # Disconnect /\ B!Gets(p, Head(toB[p]))
     \/ Head(toB[p]) = Disconnect /\ B!LinkIs(p, FALSE)
  /\ toB' = [toB EXCEPT ![p] = Tail(@)]
  /\ UNCHANGED <<stateA, toA, linked, ticked, due, callsLeft, lostLeft>>

Cuts == Cardinality(Port \ linked)

FaultLeft ==
  (MaxLost - lostLeft) + (MaxCalls - callsLeft) + Cuts < MaxFaults

\* The next BPDU of a link is lost.
Lose ==
  /\ lostLeft > 0 /\ FaultLeft
  /\ due' = Deadline
  /\ lostLeft' = lostLeft - 1
  /\ \E p \in Port :
       \/ /\ toA[p] # <<>>
          /\ toA' = [toA EXCEPT ![p] = Tail(@)]
          /\ UNCHANGED toB
       \/ /\ toB[p] # <<>>
          /\ toB' = [toB EXCEPT ![p] = Tail(@)]
          /\ UNCHANGED toA
  /\ UNCHANGED <<stateA, stateB, linked, ticked, callsLeft>>

(***************************************************************************)
(* The second of a bridge is over.  The clocks of the two run at the same  *)
(* rate, and a BPDU travels in less than a second: a bridge has no second  *)
(* tick before the other's first, nor while a BPDU sent before is still on *)
(* its way.                                                                *)
(***************************************************************************)
Tick(bridge) ==
  /\ AtEase
  /\ bridge \notin ticked
  /\ ticked' = IF ticked = {} THEN {bridge} ELSE {}
  /\ due' = IF ticked = {} \/ due = 0 THEN due ELSE due - 1
  /\ UNCHANGED <<links, lostLeft>>

SecondA == Tick("A") /\ A!OneSecond /\ UNCHANGED stateB
SecondB == Tick("B") /\ B!OneSecond /\ UNCHANGED stateA

(***************************************************************************)
(* rstpctl gives B another configuration.  It takes its time: no BPDU is   *)
(* on its way.                                                             *)
(***************************************************************************)
ConfigureB ==
  /\ AtEase /\ FaultLeft
  /\ B!StpmSetCfg
  /\ due' = Deadline
  /\ UNCHANGED <<stateA, links, ticked, lostLeft>>

(***************************************************************************)
(* unlink_port: a link is cut, and both ports are told.                    *)
(***************************************************************************)
Unlink(p) ==
  /\ AtEase /\ FaultLeft
  /\ p \in linked /\ Cuts < MaxCuts
  /\ linked' = linked \ {p}
  /\ toA' = [toA EXCEPT ![p] = Append(@, Disconnect)]
  /\ toB' = [toB EXCEPT ![p] = Append(@, Disconnect)]
  /\ due' = Deadline
  /\ UNCHANGED <<stateA, stateB, ticked, callsLeft, lostLeft>>

-----------------------------------------------------------------------------
Init ==
  /\ A!Init /\ B!Init
  /\ toA = [p \in Port |-> <<>>]
  /\ toB = [p \in Port |-> <<>>]
  /\ ticked = {}
  /\ linked = Port
  /\ due = Deadline
  /\ lostLeft = MaxLost

Protocol ==
  \/ StepA \/ StepB
  \/ \E p \in Port : ReceiveA(p) \/ ReceiveB(p)
  \/ SecondA \/ SecondB

Next == Protocol \/ Lose \/ ConfigureB \/ \E p \in Port : Unlink(p)

Spec == Init /\ [][Next]_vars

-----------------------------------------------------------------------------
Forwards(port, p) == "forwarding" \in port[p].on

(***************************************************************************)
(* The network never has a loop: of the links, at most one forwards at     *)
(* both ends, at any moment and whatever is on its way.                    *)
(***************************************************************************)
Open(p) == p \in linked /\ Forwards(portA, p) /\ Forwards(portB, p)

LoopFree == \A p, q \in Port : Open(p) /\ Open(q) => p = q

NoLastingLoop == AtEase => LoopFree

(***************************************************************************)
(* In the end there is one tree: a root, all of whose ports are designated *)
(* ones, and another bridge with one root port, the rest being blocked;    *)
(* every bridge can be reached, and the two agree on the root.             *)
(***************************************************************************)
IsRoot(bridge, port) ==
  /\ bridge.rootPortId = 0
  /\ \A p \in linked : /\ port[p].role = "DesignatedPort"
                     /\ Forwards(port, p)

IsLeaf(port) ==
  \E root \in linked :
    /\ port[root].role = "RootPort" /\ Forwards(port, root)
    /\ \A p \in linked \ {root} : /\ port[p].role = "AlternatePort"
                                /\ ~Forwards(port, p)

Tree ==
  /\ bridgeA.rootPriority.root_bridge = bridgeB.rootPriority.root_bridge
  /\ \/ IsRoot(bridgeA, portA) /\ IsLeaf(portB)
     \/ IsRoot(bridgeB, portB) /\ IsLeaf(portA)

Converges == AtEase /\ due = 0 => Tree

=============================================================================
