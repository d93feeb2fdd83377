-------------------------- MODULE DaemonProperties --------------------------
(***************************************************************************)
(* What is expected of the daemon beside the kernel.                       *)
(***************************************************************************)
EXTENDS Daemon

Ports(b) == Range(daemon.br[b].port_list)

TypeOK ==
  /\ IsKernel(kernel)
  /\ queue \in Seq(Message)
  /\ Len(queue) <= Max({QueueLimit, Cardinality(Device)})
  /\ lost \in BOOLEAN
  /\ daemon.known \subseteq Interface
  /\ daemon.stp_up \in BOOLEAN
  /\ \A b \in Bridge :
       LET br == daemon.br[b] IN
       /\ {br.up, br.do_stp, br.stp_up} \subseteq BOOLEAN
       /\ br.port_list \in Seq(Device)
       /\ DOMAIN daemon.stp[b].port \subseteq PortNo
       /\ \A i \in DOMAIN daemon.stp[b].port :
            daemon.stp[b].port[i].state \in LibState
  /\ \A d \in Device :
       /\ daemon.dev[d].up \in BOOLEAN
       /\ daemon.dev[d].master \in Bridge \cup {NoBridge}
       /\ daemon.dev[d].port_index \in PortNo \cup {-1, 0}
  /\ phase \in Phase
  /\ seconds \in 0 .. DumpEvery - 1

(***************************************************************************)
(* The interface list and the port lists of the bridges tell one story: a  *)
(* port is on the list of its master, once, and on no other, whatever was  *)
(* created, deleted or moved and in which order the messages came.         *)
(***************************************************************************)
ListsAgree ==
  /\ \A b \in Bridge :
       /\ IsInjective(daemon.br[b].port_list)
       /\ b \notin daemon.known => Ports(b) = {}
  /\ \A d \in Device, b \in Bridge :
       d \in Ports(b) <=> d \in daemon.known /\ daemon.dev[d].master = b

(***************************************************************************)
(* Once every message has been read, and none was lost, the daemon has the *)
(* bridge's ports as the kernel has them, and their links: bridge_notify   *)
(* looks at what the kernel is when it reads a message, which may be many  *)
(* changes after the one it tells of.                                      *)
(***************************************************************************)
UpToDate == phase = "idle" /\ queue = <<>> /\ ~lost

Tracked ==
  UpToDate =>
    /\ daemon.known \cap Bridge \subseteq kernel.bridges
    /\ \A d \in Device :
         /\ d \in daemon.known <=> kernel.member[d] # NoBridge
         /\ d \in daemon.known =>
              /\ daemon.dev[d].master = kernel.member[d]
              /\ daemon.dev[d].up = kernel.oper[d]

(***************************************************************************)
(* The library never has a port that the daemon could not find for it:     *)
(* what STP_OUT_get_port_name, get_port_mac and the others answer for such *)
(* a port is used unchecked.  It has none at all while STP is down.        *)
(***************************************************************************)
NoOrphanPort ==
  \A b \in Bridge :
    DOMAIN daemon.stp[b].port \subseteq
      IF daemon.br[b].stp_up THEN {daemon.dev[d].port_index : d \in Ports(b)}
      ELSE {}

(***************************************************************************)
(* A configuration the library has is the one the daemon will give it when *)
(* RSTP is turned off and on, or when the port list is started again:      *)
(* update_bridge_stp_config and update_port_stp_config keep what the calls *)
(* of the library accepted.  Two ports may have one number, when the       *)
(* kernel gave the number of a port that left to another before the daemon *)
(* heard of either; a command to one of them then reaches the port of both *)
(* in the library, so nothing is promised of these.                        *)
(***************************************************************************)
ConfigKept ==
  \A b \in Bridge : daemon.br[b].stp_up =>
    /\ daemon.stp[b].cfg = daemon.br[b].cfg
    /\ \A d \in Ports(b) :
         LET i == daemon.dev[d].port_index IN
         /\ i \in DOMAIN daemon.stp[b].port
         /\ \A e \in Ports(b) \ {d} : daemon.dev[e].port_index # i
         => daemon.dev[d].cfg = daemon.stp[b].port[i].cfg

(***************************************************************************)
(* A bridge that was told to run RSTP, and runs it, sends the BPDUs of     *)
(* every port of the library, whatever the other bridges are told:         *)
(* STP_OUT_tx_bpdu looks at one flag for all bridges.                      *)
(***************************************************************************)
Speaks ==
  \A b \in Bridge : CheckBridge(b) =>
    \A i \in DOMAIN daemon.stp[b].port : TxBpdu(state, b, i)

(***************************************************************************)
(* If the daemon goes on running, it ends up with every port the kernel    *)
(* has, though it lost the message that told of it: the ports are asked    *)
(* for again every DumpEvery seconds (bridge_one_second).  Deletions that  *)
(* were lost may stay unnoticed, as the comment there says.                *)
(***************************************************************************)
HasMembers == \A d \in Device : kernel.member[d] # NoBridge =>
  d \in daemon.known /\ daemon.dev[d].master = kernel.member[d]

MembersFound == <>[](phase # "stopped") => <>[]HasMembers

=============================================================================
