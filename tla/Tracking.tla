------------------------------ MODULE Tracking ------------------------------
(***************************************************************************)
(* What the daemon keeps of the kernel's bridges and ports, and the        *)
(* library instance of each bridge (bridge_track.c).                       *)
(*                                                                         *)
(* The functions of the file call one another and the library, which       *)
(* calls back into the file, so each is an operator here that takes the    *)
(* state s = [kernel, daemon] before the call and gives the one after it.  *)
(* The library is seen from outside, the modules of rstplib being Bridge's *)
(* subject: what counts is which ports it has and the state it puts each   *)
(* in.  "out[b][i]" is the state in which its machines leave port i of     *)
(* bridge b, chosen by the action.                                         *)
(***************************************************************************)
EXTENDS Integers, FiniteSets, SequencesExt

CONSTANTS
  Bridge, Device, \* interfaces, by index
  NoBridge, NoDevice \* NULL

ASSUME InterfaceAssumption ==
  /\ IsFiniteSet(Bridge) /\ IsFiniteSet(Device)
  /\ Bridge \cap Device = {}
  /\ NoBridge \notin Bridge /\ NoDevice \notin Device

\* A bridge numbers its ports from 1, the lowest free number first.
PortNo == 1 .. Cardinality(Device)

LibState == {"Discarding", "Learning", "Forwarding"}

-----------------------------------------------------------------------------
(* Configuration: a function whose domain is the field_mask.               *)

DefaultBridgeCfg == [prio |-> 32768]
DefaultPortCfg == [cost |-> 0, prio |-> 128]

\* update_bridge_stp_config, update_port_stp_config
Updated(cfg, c) ==
  [f \in DOMAIN cfg |-> IF f \in DOMAIN c THEN c[f] ELSE cfg[f]]

-----------------------------------------------------------------------------
(* struct ifdata, of a bridge and of a port, and struct stp_instance       *)

NewBridge == [up |-> FALSE, do_stp |-> FALSE, stp_up |-> FALSE,
              port_list |-> <<>>, cfg |-> DefaultBridgeCfg]

NewPort(b) == [up |-> FALSE, master |-> b, port_index |-> 0,
               cfg |-> DefaultPortCfg]

NoInstance == [cfg |-> DefaultBridgeCfg, port |-> <<>>]

\* The daemon as it starts: no interface is known, nothing may be sent.
NewDaemon == [known |-> {}, stp_up |-> FALSE,
              br |-> [b \in Bridge |-> NewBridge],
              dev |-> [d \in Device |-> NewPort(NoBridge)],
              stp |-> [b \in Bridge |-> NoInstance]]

-----------------------------------------------------------------------------
(* What the daemon reads in sysfs                                          *)

IsBridge(s, if) == if \in s.kernel.bridges
IsBridgeSlave(s, b, d) == s.kernel.member[d] = b
GetBridgePortno(s, d) ==
  IF s.kernel.member[d] = NoBridge THEN -1 ELSE s.kernel.port_no[d]
\* stp_enabled: the kernel leaves the bridge to a user space daemon
StpEnabled(s, b) == b \in s.kernel.bridges /\ s.kernel.stp_state[b] = 2

-----------------------------------------------------------------------------
(* STP_OUT: the library's calls of the daemon                              *)

\* find_port: the port of the list that has index i, the latest if several
FindPort(s, b, i) ==
  LET list == s.daemon.br[b].port_list
      n == SelectInSeq(list, LAMBDA d : s.daemon.dev[d].port_index = i)
  IN IF n = 0 THEN NoDevice ELSE list[n]

\* STP_OUT_tx_bpdu: a BPDU of port i of bridge b is sent
TxBpdu(s, b, i) == s.daemon.stp_up /\ FindPort(s, b, i) # NoDevice

KernelState == [Discarding |-> "blocking", Learning |-> "learning",
                Forwarding |-> "forwarding"]

\* STP_OUT_set_port_state for the ports of bridge b in "moved": the kernel is
\* told only if the daemon takes the port to be up (and obeys only if the
\* device is a port whose link is up).
SetPortState(s, b, moved) ==
  LET Told(d) == /\ s.daemon.dev[d].up
                 /\ \E i \in moved : FindPort(s, b, i) = d
                 /\ s.kernel.member[d] # NoBridge
                 /\ s.kernel.oper[d]
      State(d) == s.daemon.stp[b].port[s.daemon.dev[d].port_index].state
  IN [s EXCEPT !.kernel.state =
        [d \in Device |-> IF Told(d) THEN KernelState[State(d)] ELSE @[d]]]

-----------------------------------------------------------------------------
(* STP_IN: the daemon's calls of the library                               *)

\* The machines of bridge b run; "again" are ports that leave their state,
\* whether or not they come back to it.
LibraryUpdate(s, b, out, again) ==
  LET old == s.daemon.stp[b].port
      moved == {i \in DOMAIN old : i \in again \/ out[b][i] # old[i].state}
  IN SetPortState([s EXCEPT !.daemon.stp[b].port =
                     [i \in DOMAIN old |->
                        [old[i] EXCEPT !.state = out[b][i]]]], b, moved)

\* Every machine of the bridge starts again, so every port is set anew.
LibraryRestart(s, b, out) == LibraryUpdate(s, b, out, PortNo)

\* STP_OUT_get_init_port_cfg, STP_OUT_get_init_stpm_cfg
InitPortCfg(s, b, i) == s.daemon.dev[FindPort(s, b, i)].cfg
InitStpmCfg(s, b) == s.daemon.br[b].cfg

\* STP_IN_port_create of an index the bridge has not got
PortCreate(s, b, i, out) ==
  LET cfg == InitPortCfg(s, b, i) IN
  LibraryRestart(
    [s EXCEPT !.daemon.stp[b].port =
       [j \in DOMAIN @ \cup {i} |->
          IF j \in DOMAIN @ THEN @[j]
          ELSE [state |-> "Discarding", cfg |-> cfg]]], b, out)

\* STP_IN_port_delete; deleting an absent port is an error without effect
PortDelete(s, b, i, out) ==
  IF i \notin DOMAIN s.daemon.stp[b].port THEN s
  ELSE LibraryRestart(
         [s EXCEPT !.daemon.stp[b].port = [j \in DOMAIN @ \ {i} |-> @[j]]],
         b, out)

-----------------------------------------------------------------------------
(* Ports and bridges joining and leaving the protocol                      *)

\* add_port_stp succeeds: the device is still a port, and the library has no
\* port of its number.
CanAddPort(s, d) ==
  LET i == GetBridgePortno(s, d) IN
  i >= 0 /\ i \notin DOMAIN s.daemon.stp[s.daemon.dev[d].master].port

AddPortStp(s, d, out) ==
  LET b == s.daemon.dev[d].master
      i == GetBridgePortno(s, d)
      named == [s EXCEPT !.daemon.dev[d].port_index = i]
  IN IF CanAddPort(s, d) THEN PortCreate(named, b, i, out) ELSE named

\* init_rstplib_instance: the bridge is given the configuration kept for it
InitRstplibInstance(s, b) ==
  [s EXCEPT !.daemon.stp[b] = [cfg |-> InitStpmCfg(s, b), port |-> <<>>]]

\* clear_rstplib_instance
ClearRstplibInstance(s, b) == [s EXCEPT !.daemon.stp[b] = NoInstance]

RemovePortStp(s, d, out) ==
  LET p == s.daemon.dev[d] IN
  [PortDelete(s, p.master, p.port_index, out)
     EXCEPT !.daemon.dev[d].port_index = -1]

RemovePortsStp(s, ports, out) ==
  FoldLeft(LAMBDA t, d : RemovePortStp(t, d, out), s, ports)

\* init_bridge_stp: one port that cannot be added undoes the others.
InitBridgeStp(s, b, out) ==
  LET ports == s.daemon.br[b].port_list
      Add(acc, d) ==
        IF acc.failed THEN acc
        ELSE [s |-> AddPortStp(acc.s, d, out),
              failed |-> ~CanAddPort(acc.s, d),
              added |-> IF CanAddPort(acc.s, d) THEN Append(acc.added, d)
                        ELSE acc.added]
      end == FoldLeft(Add, [s |-> InitRstplibInstance(s, b),
                            failed |-> FALSE, added |-> <<>>], ports)
  IN IF s.daemon.br[b].stp_up THEN s
     ELSE IF end.failed
     THEN ClearRstplibInstance(RemovePortsStp(end.s, end.added, out), b)
     ELSE [end.s EXCEPT !.daemon.br[b].stp_up = TRUE]

ClearBridgeStp(s, b, out) ==
  IF ~s.daemon.br[b].stp_up THEN s
  ELSE ClearRstplibInstance(
         RemovePortsStp([s EXCEPT !.daemon.br[b].stp_up = FALSE],
                        s.daemon.br[b].port_list, out), b)

-----------------------------------------------------------------------------
(* Interfaces: create_if and delete_if, for a bridge and for a port        *)

CreateBridge(s, b) ==
  [s EXCEPT !.daemon.br[b] = NewBridge, !.daemon.known = @ \cup {b}]

\* What add_port_stp answers is not looked at.
CreatePort(s, d, b, out) ==
  LET joined == [s EXCEPT !.daemon.dev[d] = NewPort(b),
                          !.daemon.br[b].port_list = <<d>> \o @,
                          !.daemon.known = @ \cup {d}]
  IN IF s.daemon.br[b].stp_up THEN AddPortStp(joined, d, out) ELSE joined

\* a mutant: the port leaves the list and not the library
DeletePortOnly(s, d, out) ==
  [s EXCEPT !.daemon.br[s.daemon.dev[d].master].port_list =
              RemoveFirst(@, d),
            !.daemon.dev[d] = NewPort(NoBridge),
            !.daemon.known = @ \ {d}]

DeletePort(s, d, out) ==
  LET b == s.daemon.dev[d].master
      left == IF s.daemon.br[b].stp_up THEN RemovePortStp(s, d, out) ELSE s
  IN [left EXCEPT !.daemon.br[b].port_list =
                    RemoveFirst(@, d),
                  !.daemon.dev[d] = NewPort(NoBridge),
                  !.daemon.known = @ \ {d}]

DeleteBridge(s, b, out) ==
  LET stopped == ClearBridgeStp(s, b, out)
      bare == FoldLeft(LAMBDA t, d : DeletePort(t, d, out), stopped,
                       stopped.daemon.br[b].port_list)
  IN [bare EXCEPT !.daemon.br[b] = NewBridge, !.daemon.known = @ \ {b}]

DeleteIf(s, if, out) ==
  IF if \in Bridge THEN DeleteBridge(s, if, out) ELSE DeletePort(s, if, out)

-----------------------------------------------------------------------------
(* Interfaces going up and down                                            *)

\* set_br_up: the kernel's stp_state decides, whichever way the bridge goes.
SetBrUp(s, b, up, out) ==
  LET t == [s EXCEPT !.daemon.br[b].up = up] IN
  IF s.daemon.br[b].stp_up = StpEnabled(s, b) THEN t
  ELSE IF StpEnabled(s, b) THEN InitBridgeStp(t, b, out)
  ELSE ClearBridgeStp(t, b, out)

\* set_if_up: the library hears of the link, its speed and its duplex mode,
\* but its machines do not run before its next update.
SetIfUp(s, d, up) == [s EXCEPT !.daemon.dev[d].up = up]

-----------------------------------------------------------------------------
(* bridge_notify of a message [if, master, newlink, up]                    *)

\* The bridge of the message is known and up.
BridgeOf(s, b, out) ==
  LET t == IF b \in s.daemon.known THEN s ELSE CreateBridge(s, b) IN
  IF t.daemon.br[b].up THEN t ELSE SetBrUp(t, b, TRUE, out)

\* a mutant: a port that has moved is not taken off its old list
PortOfMoved(s, d, b, out) ==
  IF d \in s.daemon.known /\ s.daemon.dev[d].master = b THEN s
  ELSE CreatePort(s, d, b, out)

\* The port of the message is known, and its master is bridge b.
PortOf(s, d, b, out) ==
  LET strayed == d \in s.daemon.known /\ s.daemon.dev[d].master # b
      t == IF strayed THEN DeletePort(s, d, out) ELSE s
  IN IF d \in t.daemon.known THEN t ELSE CreatePort(t, d, b, out)

\* a mutant: every DELLINK of a bridge deletes the port
SlaveNotifiedTrusting(s, m, out) ==
  LET t == PortOf(BridgeOf(s, m.master, out), m.if, m.master, out) IN
  IF ~m.newlink THEN DeletePort(t, m.if, out) ELSE SetIfUp(t, m.if, m.up)

SlaveNotified(s, m, out) ==
  LET t == PortOf(BridgeOf(s, m.master, out), m.if, m.master, out) IN
  IF ~m.newlink /\ ~IsBridgeSlave(t, m.master, m.if)
  THEN DeletePort(t, m.if, out)
  ELSE SetIfUp(t, m.if, m.up)

NewLinkNotified(s, m, out) ==
  LET t == IF m.if \notin s.daemon.known /\ IsBridge(s, m.if)
           THEN CreateBridge(s, m.if) ELSE s
  IN IF m.if \notin t.daemon.known THEN t
     ELSE IF m.if \in Bridge
     THEN IF t.daemon.br[m.if].up = m.up THEN t
          ELSE SetBrUp(t, m.if, m.up, out)
     ELSE IF ~IsBridgeSlave(t, t.daemon.dev[m.if].master, m.if)
     THEN DeletePort(t, m.if, out)
     ELSE SetIfUp(t, m.if, m.up)

BridgeNotify(s, m, out) ==
  IF m.master # NoBridge THEN SlaveNotified(s, m, out)
  ELSE IF m.newlink THEN NewLinkNotified(s, m, out)
  ELSE IF m.if \in s.daemon.known THEN DeleteIf(s, m.if, out)
  ELSE s

=============================================================================
