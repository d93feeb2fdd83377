--------------------------- MODULE TopologyChange ---------------------------
(***************************************************************************)
(* The Topology Change machine (rstplib/topoch.c).                         *)
(*                                                                         *)
(* TopochEnter is what a state does to the machine's own port; the two     *)
(* states that call setTcPropTree also raise tcProp on every other port,   *)
(* which TopochBroadcast names.                                            *)
(***************************************************************************)
EXTENDS PortState

TopochHop(q, to) ==
  LET active == q.role \in {"RootPort", "DesignatedPort"}
      heard == q.on \cap {"rcvdTc", "rcvdTcn", "rcvdTcAck", "tcProp"} # {}
      detected == active /\ "forward" \in q.on /\ "operEdge" \notin q.on
      learns == q.on \cap {"learn", "learning"} # {}
      edge == "operEdge" \in q.on
  IN
  \/ q.topoch = "BEGIN" /\ to = "INACTIVE"
  \/ /\ q.topoch = "INACTIVE"
     /\ "learn" \in q.on /\ "fbdFlush" \notin q.on
     /\ to = "LEARNING"
  \/ /\ q.topoch = "LEARNING"
     /\ \/ detected /\ to = "DETECTED"
        \/ ~active /\ ~learns /\ ~heard /\ to = "INACTIVE"
        \/ ~detected /\ heard /\ to = "LEARNING"
  \/ /\ q.topoch = "ACTIVE"
     /\ IF ~active \/ edge THEN to = "LEARNING"
        ELSE IF "rcvdTcn" \in q.on THEN to = "NOTIFIED_TCN"
        ELSE IF "rcvdTc" \in q.on THEN to = "NOTIFIED_TC"
        ELSE IF "tcProp" \in q.on THEN to = "PROPAGATING"
        ELSE "rcvdTcAck" \in q.on /\ to = "ACKNOWLEDGED"
  \/ /\ q.topoch \in {"DETECTED", "ACKNOWLEDGED", "PROPAGATING",
                      "NOTIFIED_TC", "NOTIFIED_TCN"}
     /\ to = "NOTIFIED_TC"

(***************************************************************************)
(* newTcWhile, seen from the port: when the second test of the C function  *)
(* runs tcWhile is no longer zero, so the two cases exclude each other.    *)
(***************************************************************************)
NewTcWhile(q, b) ==
  IF q.timer["tcWhile"] # 0 THEN q.timer["tcWhile"]
  ELSE IF "sendRSTP" \in q.on THEN q.designatedTimes.HelloTime + 1
  ELSE b.rootTimes.MaxAge + b.rootTimes.ForwardDelay

NewTcInfo(q) ==
  Given(q.timer["tcWhile"] = 0 /\ "sendRSTP" \in q.on, {"newInfo"})

Inactive(q) == (q.on \ {"tcAck"}) \cup {"fbdFlush"}

TopochEnter(q, b, to) ==
  LET tcWhile == CASE to \in {"BEGIN", "INACTIVE", "ACKNOWLEDGED"} -> 0
                   [] to \in {"DETECTED", "PROPAGATING", "NOTIFIED_TCN"} ->
                        NewTcWhile(q, b)
                   [] OTHER -> q.timer["tcWhile"]
  IN
  [q EXCEPT
     !.topoch = to,
     !.timer = [q.timer EXCEPT !["tcWhile"] = tcWhile],
     !.on = CASE to \in {"BEGIN", "INACTIVE"} -> Inactive(q)
              [] to = "LEARNING" ->
                   q.on \ {"rcvdTc", "rcvdTcn", "rcvdTcAck", "tcProp"}
              [] to = "DETECTED" -> q.on \cup {"newInfo"}
              [] to = "ACTIVE" -> q.on
              [] to = "ACKNOWLEDGED" -> q.on \ {"rcvdTcAck"}
              [] to = "PROPAGATING" ->
                   (q.on \ {"tcProp"}) \cup {"fbdFlush"} \cup NewTcInfo(q)
              [] to = "NOTIFIED_TC" ->
                   (q.on \ {"rcvdTcn", "rcvdTc"})
                     \cup Given(q.role = "DesignatedPort", {"tcAck"})
              [] to = "NOTIFIED_TCN" -> q.on \cup NewTcInfo(q)]

\* setTcPropTree: what the other ports of the bridge are told
TopochBroadcast(to) ==
  Given(to \in {"DETECTED", "NOTIFIED_TC"}, {"tcProp"})

=============================================================================
