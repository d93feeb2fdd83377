----------------------------- MODULE PortInfo ------------------------------
(***************************************************************************)
(* The Port Information machine (rstplib/portinfo.c): classifies each      *)
(* received BPDU against what the port holds, records it, ages it out and  *)
(* replaces it by the bridge's own information when roles are selected.    *)
(*                                                                         *)
(* InfoHop(q, to) says when check_conditions moves the machine to state    *)
(* "to"; InfoEnter(q, to) is what enter_state then does to the port.       *)
(***************************************************************************)
EXTENDS PortState

SameTimes(t1, t2) == t1 = t2

\* A Config BPDU conveys the Designated role whatever its flags say.
ConveyedRole(m) == IF m.type = "CONFIG" THEN "DESGN" ELSE m.role

(***************************************************************************)
(* rcvInfo: the kind of information the message carries, relative to the   *)
(* port priority vector.  The second disjunct of Superior compares the     *)
(* designated bridge and port only.                                        *)
(***************************************************************************)
RcvInfo(q) ==
  LET cmp == Compare(q.msg.vector, q.portPriority)
      role == ConveyedRole(q.msg)
      sameSender ==
        /\ q.msg.vector.design_bridge = q.portPriority.design_bridge
        /\ q.msg.vector.design_port = q.portPriority.design_port
      sameTimes == SameTimes(q.msg.times, q.portTimes)
  IN
  IF role = "DESGN"
  THEN IF cmp < 0 \/ (sameSender /\ ~sameTimes) THEN "SuperiorDesignatedInfo"
       ELSE IF cmp = 0 THEN "RepeatedDesignatedInfo"
       ELSE "InferiorDesignatedInfo"
  ELSE IF role \in {"ROOT", "ALTBACK"} /\ cmp >= 0
       THEN "InferiorRootAlternateInfo"
       ELSE "OtherInfo"

(***************************************************************************)
(* betterorsameinfo: the C code compares the Boolean newInfo with the      *)
(* INFO_IS_T constants Mine (0) and Received (2).  Received never equals a *)
(* Boolean; Mine equals False.                                             *)
(***************************************************************************)
BetterOrSameInfo(q) ==
  /\ "newInfo" \notin q.on
  /\ q.infoIs = "Mine"
  /\ Compare(q.designatedPriority, q.portPriority) <= 0

\* recordProposal and setTcFlags: flags a Designated message raises.
Proposal(q) ==
  Given(q.msgPortRole = "DESGN" /\ "PROPOSAL" \in q.msg.flags, {"proposed"})

TcFlags(q) ==
  IF q.msg.type = "TCN" THEN {"rcvdTcn"}
  ELSE Given("TOPOLOGY_CHANGE" \in q.msg.flags, {"rcvdTc"})
         \cup Given("TOPOLOGY_CHANGE_ACK" \in q.msg.flags, {"rcvdTcAck"})

\* a mutant: the age of the information on arrival is not counted
LifetimeFromNow(t) == 3 * t.HelloTime

\* updtRcvdInfoWhile: how long information with these times may be held
Lifetime(t) ==
  LET sixteenth == t.MaxAge \div 16
      age == (IF sixteenth < 1 THEN 1 ELSE sixteenth) + t.MessageAge
      hello3 == 3 * t.HelloTime
  IN IF age > t.MaxAge THEN 0
     ELSE IF t.MaxAge - age > hello3 THEN hello3 ELSE t.MaxAge - age

-----------------------------------------------------------------------------
(***************************************************************************)
(* STP_info_check_conditions.                                              *)
(***************************************************************************)
InfoHop(q, to) ==
  LET enabled == "portEnabled" \in q.on
      down == ~enabled /\ q.infoIs # "Disabled"
      update == "selected" \in q.on /\ "updtInfo" \in q.on
  IN
  \/ /\ down \/ q.info = "BEGIN"
     /\ to = "DISABLED"
  \/ /\ ~down
     /\ \/ /\ q.info = "DISABLED"
           /\ \/ enabled /\ to = "AGED"
              \/ ~enabled /\ "rcvdMsg" \in q.on /\ to = "DISABLED"
        \/ q.info = "AGED" /\ update /\ to = "UPDATE"
        \/ q.info = "UPDATE" /\ to = "CURRENT"
        \/ /\ q.info = "CURRENT"
           /\ \/ update /\ to = "UPDATE"
              \/ /\ "updtInfo" \notin q.on /\ "rcvdMsg" \notin q.on
                 /\ q.infoIs = "Received" /\ q.timer["rcvdInfoWhile"] = 0
                 /\ to = "AGED"
              \/ /\ "updtInfo" \notin q.on /\ "rcvdMsg" \in q.on
                 /\ to = "RECEIVE"
        \/ /\ q.info = "RECEIVE"
           /\ to = CASE q.rcvdInfo = "SuperiorDesignatedInfo" ->
                          "SUPERIOR_DESIGNATED"
                     [] q.rcvdInfo = "RepeatedDesignatedInfo" ->
                          "REPEATED_DESIGNATED"
                     [] q.rcvdInfo = "InferiorDesignatedInfo" ->
                          "INFERIOR_DESIGNATED"
                     [] q.rcvdInfo = "InferiorRootAlternateInfo" ->
                          "NOT_DESIGNATED"
                     [] q.rcvdInfo = "OtherInfo" -> "OTHER"
        \/ /\ q.info \in {"SUPERIOR_DESIGNATED", "REPEATED_DESIGNATED",
                          "INFERIOR_DESIGNATED", "NOT_DESIGNATED", "OTHER"}
           /\ to = "CURRENT"

(***************************************************************************)
(* STP_info_enter_state, one operator per state that does something.       *)
(***************************************************************************)
InfoDisabled(q) ==
  [q EXCEPT !.info = "DISABLED",
            !.on = (q.on \ {"rcvdMsg", "proposing", "proposed", "agree",
                            "agreed", "selected"}) \cup {"reselect"},
            !.timer = [q.timer EXCEPT !["rcvdInfoWhile"] = 0],
            !.infoIs = "Disabled"]

\* BEGIN clears the message and falls through to DISABLED; the priority
\* vector and the times of the last message stay behind.
InfoBegin(q) ==
  LET d == InfoDisabled(q) IN
  [d EXCEPT !.info = "BEGIN",
            !.msgPortRole = "UNKN",
            !.msg = [type |-> "NONE", version |-> q.msg.version,
                     role |-> "UNKN", flags |-> {},
                     vector |-> q.msg.vector, times |-> q.msg.times]]

\* a mutant: nobody is told that the information is gone
InfoAgedSilently(q) == [q EXCEPT !.info = "AGED", !.infoIs = "Aged"]

InfoAged(q) ==
  [q EXCEPT !.info = "AGED", !.infoIs = "Aged",
            !.on = (q.on \ {"selected"}) \cup {"reselect"}]

InfoUpdate(q) ==
  LET agreed == "agreed" \in q.on /\ BetterOrSameInfo(q) IN
  [q EXCEPT !.info = "UPDATE", !.infoIs = "Mine",
            !.on = ((q.on \ {"proposing", "proposed", "updtInfo"})
                      \ Given(~agreed, {"agreed", "synced"}))
                    \cup {"newInfo"},
            !.portPriority = q.designatedPriority,
            !.portTimes = q.designatedTimes]

InfoReceive(q) ==
  [q EXCEPT !.info = "RECEIVE", !.rcvdInfo = RcvInfo(q),
            !.msgPortRole = ConveyedRole(q.msg)]

InfoSuperior(q) ==
  [q EXCEPT !.info = "SUPERIOR_DESIGNATED", !.infoIs = "Received",
            !.on = ((q.on \ {"agreed", "proposing", "selected", "rcvdMsg"})
                      \ Given(~BetterOrSameInfo(q), {"agree"}))
                    \cup {"reselect"} \cup Proposal(q) \cup TcFlags(q),
            !.portPriority = q.msg.vector,
            !.portTimes = q.msg.times,
            !.timer = [q.timer EXCEPT
                         !["rcvdInfoWhile"] = Lifetime(q.msg.times)]]

InfoRepeated(q) ==
  [q EXCEPT !.info = "REPEATED_DESIGNATED",
            !.on = (q.on \ {"rcvdMsg"}) \cup Proposal(q) \cup TcFlags(q),
            !.timer = [q.timer EXCEPT
                         !["rcvdInfoWhile"] = Lifetime(q.portTimes)]]

\* recordDispute: a learning neighbour with worse information
InfoInferior(q) ==
  LET learns == "LEARN" \in q.msg.flags IN
  [q EXCEPT !.info = "INFERIOR_DESIGNATED",
            !.on = (q.on \ ({"rcvdMsg"} \cup Given(learns, {"proposing"})))
                    \cup Given(learns, {"agreed"})]

\* recordAgreement
InfoNotDesignated(q, b) ==
  LET accepts == /\ b.rstpVersion
                 /\ "operPointToPointMac" \in q.on
                 /\ "AGREEMENT" \in q.msg.flags
  IN
  [q EXCEPT !.info = "NOT_DESIGNATED",
            !.on = (q.on \ ({"rcvdMsg"} \cup
                            (IF accepts THEN {"proposing"} ELSE {"agreed"})))
                    \cup Given(accepts, {"agreed"}) \cup TcFlags(q)]

InfoEnter(q, b, to) ==
  CASE to = "BEGIN" -> InfoBegin(q)
    [] to = "DISABLED" -> InfoDisabled(q)
    [] to = "AGED" -> InfoAged(q)
    [] to = "UPDATE" -> InfoUpdate(q)
    [] to = "CURRENT" -> [q EXCEPT !.info = "CURRENT"]
    [] to = "RECEIVE" -> InfoReceive(q)
    [] to = "SUPERIOR_DESIGNATED" -> InfoSuperior(q)
    [] to = "REPEATED_DESIGNATED" -> InfoRepeated(q)
    [] to = "INFERIOR_DESIGNATED" -> InfoInferior(q)
    [] to = "NOT_DESIGNATED" -> InfoNotDesignated(q, b)
    [] to = "OTHER" -> [q EXCEPT !.info = "OTHER",
                                 !.on = q.on \ {"rcvdMsg"}]

-----------------------------------------------------------------------------
(***************************************************************************)
(* STP_info_rx_bpdu: what arrival of a BPDU leaves in the port.  A port    *)
(* outside the protocol ignores it, and so does a bridge forced to STP     *)
(* when it is an RST BPDU.  A TCN replaces the type and the version only.  *)
(***************************************************************************)
Accepts(q, b, m) ==
  /\ "admin_non_stp" \notin q.on
  /\ m.type = "RSTP" => b.ForceVersion >= 2

InfoRxBpdu(q, b, m) ==
  IF ~Accepts(q, b, m) THEN q
  ELSE [q EXCEPT
          !.on = q.on \cup {"rcvdBPDU"},
          !.msg = IF m.type = "TCN"
                  THEN [type |-> m.type, version |-> m.version,
                        role |-> q.msg.role, flags |-> q.msg.flags,
                        vector |-> q.msg.vector, times |-> q.msg.times]
                  ELSE [type |-> m.type, version |-> m.version,
                        role |-> m.role, flags |-> m.flags,
                        vector |-> OnArrival(m.vector, q.portId),
                        times |-> m.times]]

=============================================================================
