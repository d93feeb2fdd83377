-------------------------- MODULE BridgeProperties --------------------------
(***************************************************************************)
(* What one bridge promises, whatever its neighbours send and its manager  *)
(* asks for: properties of module Bridge.                                  *)
(***************************************************************************)
EXTENDS Bridge

On(p, flag) == flag \in port[p].on
Stp(p) == ~On(p, "admin_non_stp")
Blocked(p) == port[p].role \in {"AlternatePort", "BackupPort", "DisabledPort"}
Relays(p) == port[p].on \cap {"learn", "forward", "learning", "forwarding"} # {}

\* No entry point is in progress, and those that returned left the roles
\* selected.
AtRest == call = "none" /\ \A p \in Listed(bridge) : ~On(p, "reselect")

-----------------------------------------------------------------------------
(* Safety.                                                                 *)

(***************************************************************************)
(* A port either has a selected role or waits for the next selection,      *)
(* never both and never neither, at every single transition.  Eleven       *)
(* places in portinfo.c, pcost.c, rolesel.c and stp_in.c write the two     *)
(* flags; one that wrote only one of them would stop the port for good or  *)
(* let it act on a stale role.                                             *)
(***************************************************************************)
SelectedOrReselect ==
  \A p \in Listed(bridge) : On(p, "selected") <=> ~On(p, "reselect")

(***************************************************************************)
(* STP_stpm_update stops at the first pass in which no machine moves.      *)
(* When it has, every port has taken the role selected for it, and has     *)
(* installed the information that goes with it.                            *)
(***************************************************************************)
RolesSettled ==
  AtRest => \A p \in Listed(bridge) :
              /\ Settled(port[p])
              /\ \/ port[p].role = port[p].selectedRole
                 \/ port[p].selectedRole = "NonStpPort"

(***************************************************************************)
(* The hand-over of a BPDU from the receive machine to the information     *)
(* machine (rcvdBPDU, then rcvdMsg) is finished when the entry point       *)
(* returns; otherwise the next BPDU would overwrite msgPriority before it  *)
(* was looked at.                                                          *)
(***************************************************************************)
NothingPending ==
  AtRest => \A p \in Listed(bridge) :
              Stp(p) => ~On(p, "rcvdMsg") /\ ~On(p, "rcvdBPDU")

(***************************************************************************)
(* An alternate, backup or disabled port relays nothing: neither its       *)
(* variables nor the state given to the kernel say so (roletrns.c,         *)
(* sttrans.c).                                                             *)
(***************************************************************************)
BlockedDiscards == AtRest => \A p \in Listed(bridge) : Blocked(p) => ~Relays(p)

(***************************************************************************)
(* The role of a port agrees with what is known of its segment: a          *)
(* designated port advertises the vector elected for it, the root port is  *)
(* where the root priority vector was heard, and a blocked port is facing  *)
(* a designated port at least as good as itself (items h to l in           *)
(* rolesel.c).                                                             *)
(***************************************************************************)
SegmentRule ==
  AtRest => \A p \in Listed(bridge) :
    LET q == port[p] IN
    Stp(p) =>
      /\ q.role = "DesignatedPort" =>
           q.infoIs = "Mine" /\ q.portPriority = q.designatedPriority
      /\ q.role = "RootPort" =>
           q.infoIs = "Received" /\ RootPath(q) = bridge.rootPriority
      /\ q.role \in {"AlternatePort", "BackupPort"} =>
           /\ q.infoIs = "Received"
           /\ Compare(q.portPriority, q.designatedPriority) <= 0

(***************************************************************************)
(* The root priority vector is no worse than the bridge's own and than     *)
(* that of any port whose information is still valid: nothing that was     *)
(* heard, aged out or reconfigured is missed by the last selection.  A     *)
(* bridge that is disabled may be given a better identifier and selects    *)
(* nothing until it is enabled again.                                      *)
(***************************************************************************)
RootIsBest ==
  AtRest /\ bridge.stp_enabled =>
    /\ Compare(bridge.rootPriority, BridgePriority(bridge)) <= 0
    /\ \A p \in Listed(bridge) :
         Offers(port[p]) =>
           Compare(bridge.rootPriority, RootPath(port[p])) <= 0

(***************************************************************************)
(* Information that has reached its Max Age is never used in an election   *)
(* nor relayed, although rcvInfo accepts it: it must age out before the    *)
(* role selection machine gets its turn (portinfo.c, updtRcvdInfoWhile).   *)
(***************************************************************************)
NoOverAge == bridge.rootTimes.MessageAge <= bridge.rootTimes.MaxAge

(***************************************************************************)
(* A designated port never advertises a root the bridge has abandoned, or  *)
(* information it heard from another bridge.                               *)
(***************************************************************************)
HonestHello ==
  LET q == port[sent.port] IN
  sent.bpdu.type \in {"RSTP", "CONFIG"} /\ q.role = "DesignatedPort" =>
    /\ q.infoIs = "Mine"
    /\ sent.bpdu.vector.root_bridge = bridge.rootPriority.root_bridge

(***************************************************************************)
(* The handshake is never left half done when an entry point returns: a    *)
(* proposal has been taken up, every port that was told to synchronise     *)
(* discards or is trusted, and a root, alternate or backup port agrees     *)
(* unless another port carries information so new that it has not          *)
(* synchronised with it (roletrns.c, sttrans.c).                           *)
(***************************************************************************)
ProposalAnswered ==
  AtRest => \A p \in Listed(bridge) : Stp(p) =>
    /\ port[p].role \in {"RootPort", "AlternatePort", "BackupPort"} =>
         /\ ~On(p, "proposed")
         /\ On(p, "agree") \/ ~AllSynced(Others(p))
    /\ port[p].role # "RootPort" => ~On(p, "sync")

(***************************************************************************)
(* Restarting the machines (bridge configuration, port created or deleted) *)
(* leaves no port forwarding but edge ports and ports outside the          *)
(* protocol: the tree is built again before anything is relayed.           *)
(***************************************************************************)
RestartBlocks ==
  [][call = "restart" /\ call' = "none" =>
       \A p \in Listed(bridge) :
         On(p, "forwarding") => On(p, "operEdge") \/ ~Stp(p)]_vars

(***************************************************************************)
(* A port outside the protocol forwards: INIT_PORT clears its flags at     *)
(* every restart and the role transition machine then leaves it where it   *)
(* is, so that only the role selections that follow bring it back          *)
(* (roletrns.c, rolesel.c).  One taken out of the protocol while it was    *)
(* designated stays in the hands of that machine.                          *)
(***************************************************************************)
NonStpForwards ==
  AtRest => \A p \in Listed(bridge) :
              ~Stp(p) /\ port[p].roletrns # "DESIGNATED_PORT"
                => On(p, "forwarding")

(***************************************************************************)
(* "rstpctl portmcheck" is never lost: whenever an update ends, a port on  *)
(* which the check is still to be made already sends RST BPDUs, whatever   *)
(* migration state the request found it in (migrate.c).                    *)
(***************************************************************************)
McheckServed ==
  [][call # "none" /\ call' = "none" /\ bridge.rstpVersion =>
       \A p \in Listed(bridge) : On(p, "mcheck") => On(p, "sendRSTP")]_vars

-----------------------------------------------------------------------------
(* Refinement: every port is a gate.                                       *)

\* A port that does not exist neither learns nor forwards.
Level(p, learn, forward) ==
  IF p \notin Listed(bridge) THEN "discard"
  ELSE IF forward \in port[p].on THEN "forward"
  ELSE IF learn \in port[p].on THEN "learn" ELSE "discard"

\* What the machine waits for before it lets the port learn or forward;
\* BLOCK_PORT and DISABLE_PORT leave fdWhile to the state that follows them.
Wait(p) ==
  IF p \in Listed(bridge) /\ port[p].roletrns \notin {"BLOCK_PORT", "DISABLE_PORT"}
  THEN port[p].timer["fdWhile"] ELSE bridge.rootTimes.ForwardDelay

Reassured(p) ==
  IF port[p].roletrns = "ROOT_PORT"
  THEN ReRooted(Others(p)) /\ port[p].timer["rbWhile"] = 0
  ELSE Trusted(port[p])

Gates == INSTANCE PortGate WITH
  Gate <- Port,
  order <- [p \in Port |-> Level(p, "learn", "forward")],
  kernel <- [p \in Port |-> Level(p, "learning", "forwarding")],
  wait <- [p \in Port |-> Wait(p)],
  delays <- {bridge.rootTimes.ForwardDelay, bridge.rootTimes.MaxAge},
  trusted <- {p \in Port : Reassured(p)},
  exempt <- {p \in Port : On(p, "admin_non_stp")}

(***************************************************************************)
(* The orders that a port learn and forward come one after the other, each *)
(* after a whole wait or with a reason not to wait (a neighbour that       *)
(* agreed, an edge port, a root port the others have given way to); they   *)
(* reach the kernel one at a time, and a port that was told to discard is  *)
(* not let learn again before the kernel has closed it, whichever machines *)
(* of whichever ports move in between (roletrns.c, sttrans.c, stpm.c).     *)
(***************************************************************************)
EveryPortGated == Gates!Spec

-----------------------------------------------------------------------------
(* Liveness, under FairSpec.                                               *)

(***************************************************************************)
(* Every entry point returns: the eleven machines never keep each other    *)
(* busy for ever in the unbounded loop of STP_stpm_update, which would     *)
(* hang the whole daemon.                                                  *)
(***************************************************************************)
Returns == call # "none" ~> call = "none"

(***************************************************************************)
(* When the neighbours fall silent, the bridge forgets them, becomes the   *)
(* root and forwards on every port, whatever they sent before.             *)
(***************************************************************************)
Recovers ==
  <>[](\A p \in Listed(bridge) :
         port[p].role = "DesignatedPort" /\ On(p, "forwarding"))

(***************************************************************************)
(* No port falls silent for good: neither the transmit limit, nor the      *)
(* hello timer, nor the order of the machines starves it.                  *)
(***************************************************************************)
HellosForever ==
  \A p \in Port : []<>(p \in Listed(bridge) => sent.port = p)

-----------------------------------------------------------------------------
(* What the comments and the manual say and the code does not do.          *)

(***************************************************************************)
(* rstpctl.8, setportnonstp: yes disables RSTP on the port, "which then is *)
(* always kept in FORWARDING state".                                       *)
(***************************************************************************)
NonStpKeptForwarding ==
  AtRest => \A p \in Listed(bridge) : ~Stp(p) => On(p, "forwarding")

(***************************************************************************)
(* rolesel.c: when "the root priority vector is now derived from" a port,  *)
(* "selectedRole is set to RootPort".                                      *)
(***************************************************************************)
RootPortSelected ==
  AtRest /\ bridge.rootPortId # 0 =>
    \E p \in Listed(bridge) :
      /\ port[p].selectedRole = "RootPort"
      /\ bridge.rootPriority = RootPath(port[p])

(***************************************************************************)
(* B5056.txt: a port that has come to forward, as root port or designated  *)
(* port, is DETECTED by the topology change machine, and the tables        *)
(* cleared, in the same update; topoch.c: "clean learning table once for   *)
(* TopologyChange".  Edge ports bring about no change.                     *)
(***************************************************************************)
ChangeDetected ==
  AtRest => \A p \in Listed(bridge) :
    /\ Stp(p) /\ port[p].role \in {"RootPort", "DesignatedPort"}
    /\ On(p, "forward") /\ ~On(p, "operEdge")
    => port[p].topoch \notin {"INACTIVE", "LEARNING"}

(***************************************************************************)
(* What the code does instead, whatever happens: no topology change is     *)
(* noticed, sent or passed on, for the machine waits in INACTIVE for       *)
(* fbdFlush to be cleared, which nothing does (topoch.c).  A statement     *)
(* about the extent of the defect, and nothing a bridge should promise.    *)
(***************************************************************************)
NoChangeTold ==
  /\ ~bridge.Topology_Change
  /\ \A p \in Listed(bridge) : port[p].timer["tcWhile"] = 0
  /\ sent.bpdu.type \in {"RSTP", "CONFIG"} =>
       sent.bpdu.flags
         \cap {"TOPOLOGY_CHANGE", "TOPOLOGY_CHANGE_ACK"} = {}

=============================================================================
