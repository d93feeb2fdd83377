---------------------------- MODULE PortProtocol ----------------------------
(***************************************************************************)
(* The six small machines of a port: Port Receive, Port Protocol           *)
(* Migration, Bridge Detection, Point-to-Point, Port Path Cost and Port    *)
(* State Transition (rstplib/receive.c, migrate.c, brdgdet.c, p2p.c,       *)
(* pcost.c, sttrans.c).                                                    *)
(*                                                                         *)
(* For each machine X, XHop(q, to) is its check_conditions: the transition *)
(* it would take now; XEnter(q, to) is its enter_state.  Both work on the  *)
(* record q of the machine's own port, which is all these machines touch.  *)
(***************************************************************************)
EXTENDS PortState

Enabled(q) == "portEnabled" \in q.on

-----------------------------------------------------------------------------
(* Port Receive *)

\* updtBPDUVersion: raises a flag, never clears one
BpduVersion(q) ==
  Given(q.msg.type = "RSTP", {"rcvdRSTP"})
    \cup Given(q.msg.type = "TCN" \/ q.msg.version < 2, {"rcvdSTP"})

\* a mutant: the next BPDU waits for the migration machine as well
AcceptsNextSensed(q) ==
  /\ q.receive = "RECEIVE"
  /\ q.on \cap {"rcvdMsg", "rcvdRSTP", "rcvdSTP"} = {}

\* the last BPDU has been taken over by the information machine
AcceptsNext(q) == q.receive = "RECEIVE" /\ "rcvdMsg" \notin q.on

ReceiveHop(q, to) ==
  LET discard == /\ ~Enabled(q)
                 /\ \/ "rcvdBPDU" \in q.on
                    \/ q.timer["edgeDelayWhile"] # MigrateTime
  IN
  \/ (q.receive = "BEGIN" \/ discard) /\ to = "DISCARD"
  \/ /\ q.receive = "DISCARD" \/ AcceptsNext(q)
     /\ "rcvdBPDU" \in q.on /\ Enabled(q)
     /\ to = "RECEIVE"

ReceiveEnter(q, to) ==
  [q EXCEPT
     !.receive = to,
     !.timer = [q.timer EXCEPT !["edgeDelayWhile"] = MigrateTime],
     !.on = IF to = "RECEIVE"
            THEN (q.on \ {"operEdge", "rcvdBPDU"})
                   \cup {"rcvdMsg"} \cup BpduVersion(q)
            ELSE q.on \ {"rcvdBPDU", "rcvdRSTP", "rcvdSTP", "rcvdMsg"}]

-----------------------------------------------------------------------------
(* Port Protocol Migration *)

\* a mutant: a port that fell back to STP ignores mcheck for a while
LeavesStpInTime(q) == q.timer["mdelayWhile"] = 0 \/ ~Enabled(q)

LeavesStp(q) ==
  q.timer["mdelayWhile"] = 0 \/ ~Enabled(q) \/ "mcheck" \in q.on

MigrateHop(q, b, to) ==
  LET delay == q.timer["mdelayWhile"]
      upgrade == /\ b.rstpVersion
                 /\ "sendRSTP" \notin q.on /\ "rcvdRSTP" \in q.on
      check == ~Enabled(q) \/ "mcheck" \in q.on \/ upgrade
  IN
  \/ q.migrate = "BEGIN" /\ to = "CHECKING_RSTP"
  \/ /\ q.migrate = "CHECKING_RSTP"
     /\ \/ delay = 0 /\ to = "SENSING"
        \/ /\ delay \notin {0, MigrateTime} /\ ~Enabled(q)
           /\ to = "CHECKING_RSTP"
  \/ q.migrate = "SELECTING_STP" /\ LeavesStp(q) /\ to = "SENSING"
  \/ /\ q.migrate = "SENSING"
     /\ \/ check /\ to = "CHECKING_RSTP"
        \/ /\ ~check /\ "sendRSTP" \in q.on /\ "rcvdSTP" \in q.on
           /\ to = "SELECTING_STP"

MigrateEnter(q, b, to) ==
  IF to = "SENSING"
  THEN [q EXCEPT !.migrate = to, !.on = q.on \ {"rcvdRSTP", "rcvdSTP"}]
  ELSE LET rstp == to # "SELECTING_STP" /\ b.rstpVersion IN
       [q EXCEPT
          !.migrate = to,
          !.timer = [q.timer EXCEPT !["mdelayWhile"] = MigrateTime],
          !.on = (q.on \ ({"sendRSTP"} \cup
                          Given(to # "SELECTING_STP", {"mcheck"})))
                   \cup Given(rstp, {"sendRSTP"})]

-----------------------------------------------------------------------------
(* Bridge Detection.  AutoEdgePort is never set by the program, so the     *)
(* machine returns to EDGE only when a disabled port is an admin edge.     *)

BrdgdetHop(q, to) ==
  LET admin == "AdminEdgePort" \in q.on IN
  \/ q.brdgdet = "BEGIN" /\ to = (IF admin THEN "EDGE" ELSE "NOT_EDGE")
  \/ /\ q.brdgdet = "EDGE"
     /\ (~Enabled(q) /\ ~admin) \/ "operEdge" \notin q.on
     /\ to = "NOT_EDGE"
  \/ q.brdgdet = "NOT_EDGE" /\ ~Enabled(q) /\ admin /\ to = "EDGE"

BrdgdetEnter(q, to) ==
  [q EXCEPT !.brdgdet = to,
            !.on = CASE to = "BEGIN" -> q.on
                     [] to = "EDGE" -> q.on \cup {"operEdge"}
                     [] to = "NOT_EDGE" -> q.on \ {"operEdge"}]

-----------------------------------------------------------------------------
(* Point-to-Point *)

P2pHop(q, to) ==
  \/ q.p2p \in {"BEGIN", "INIT", "RECOMPUTE"} /\ to = "STABLE"
  \/ q.p2p = "STABLE" /\ "p2p_recompute" \in q.on /\ to = "RECOMPUTE"

\* computeP2P
ComputeP2p(q) == \/ q.adminPointToPointMac = "P2P_FORCE_TRUE"
                 \/ q.adminPointToPointMac = "P2P_AUTO" /\ q.osDuplex

P2pEnter(q, to) ==
  [q EXCEPT
     !.p2p = to,
     !.on = CASE to \in {"BEGIN", "INIT"} -> q.on \cup {"p2p_recompute"}
              [] to = "RECOMPUTE" ->
                   (q.on \ {"operPointToPointMac", "p2p_recompute"})
                     \cup Given(ComputeP2p(q), {"operPointToPointMac"})
              [] to = "STABLE" -> q.on]

-----------------------------------------------------------------------------
(* Port Path Cost.  An adminPCost of zero asks for the cost of the speed.  *)

PcostHop(q, to) ==
  \/ q.pcost = "BEGIN" /\ to = "AUTO"
  \/ q.pcost \in {"AUTO", "FORCE"} /\ to = "STABLE"
  \/ /\ q.pcost = "STABLE"
     /\ \/ q.adminPCost = 0 /\ q.operSpeed # q.usedSpeed /\ to = "AUTO"
        \/ /\ q.adminPCost # 0 /\ q.operPCost # q.adminPCost
           /\ to = "FORCE"

\* computeAutoPCost: the recommended cost of a link of this speed in Mb/s
AutoPCost(speed) ==
  IF speed < 10 THEN 20000000
  ELSE IF speed = 10 THEN 2000000
  ELSE IF speed <= 100 THEN 200000
  ELSE IF speed <= 1000 THEN 20000
  ELSE IF speed <= 10000 THEN 2000
  ELSE IF speed <= 100000 THEN 200
  ELSE IF speed <= 1000000 THEN 20
  ELSE IF speed <= 10000000 THEN 2 ELSE 1

PcostEnter(q, to) ==
  CASE to = "BEGIN" -> [q EXCEPT !.pcost = to]
    [] to = "AUTO" ->
         [q EXCEPT !.pcost = to, !.operSpeed = q.osSpeed,
                   !.usedSpeed = q.osSpeed,
                   !.operPCost = AutoPCost(q.osSpeed)]
    [] to = "FORCE" ->
         [q EXCEPT !.pcost = to, !.operPCost = q.adminPCost,
                   !.usedSpeed = -1]
    [] to = "STABLE" ->
         [q EXCEPT !.pcost = to,
                   !.on = (q.on \ {"selected"}) \cup {"reselect"}]

-----------------------------------------------------------------------------
(* Port State Transition: the machine that tells the kernel to learn and   *)
(* to forward (STP_OUT_set_learning, STP_OUT_set_forwarding).              *)

SttransHop(q, to) ==
  \/ q.sttrans = "BEGIN" /\ to = "DISCARDING"
  \/ q.sttrans = "DISCARDING" /\ "learn" \in q.on /\ to = "LEARNING"
  \/ q.sttrans = "LEARNING" /\ "forward" \in q.on /\ to = "FORWARDING"
  \/ /\ q.sttrans = "LEARNING" /\ "forward" \notin q.on
     /\ "learn" \notin q.on
     /\ to = "DISCARDING"
  \/ q.sttrans = "FORWARDING" /\ "forward" \notin q.on /\ to = "DISCARDING"

SttransEnter(q, to) ==
  [q EXCEPT !.sttrans = to,
            !.on = CASE to \in {"BEGIN", "DISCARDING"} ->
                          q.on \ {"learning", "forwarding"}
                     [] to = "LEARNING" -> q.on \cup {"learning"}
                     [] to = "FORWARDING" -> q.on \cup {"forwarding"}]

=============================================================================
