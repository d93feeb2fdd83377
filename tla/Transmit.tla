------------------------------ MODULE Transmit ------------------------------
(***************************************************************************)
(* The Port Transmit machine (rstplib/transmit.c): when a BPDU is sent, of *)
(* which kind, and what it carries.                                        *)
(***************************************************************************)
EXTENDS PortState

NoBpdu == [type |-> "NONE"]

\* a mutant: BPDUs are sent while the role is being selected
MayTransmitUnsettled(q) == q.transmit = "IDLE"

MayTransmit(q) == Settled(q) /\ q.transmit = "IDLE"

TransmitHop(q, to) ==
  LET ready == MayTransmit(q)
      send == /\ ready
              /\ q.timer["helloWhen"] # 0 /\ "newInfo" \in q.on
              /\ q.timer["txCount"] < TxHoldCount
      rstp == "sendRSTP" \in q.on
  IN
  \/ q.transmit = "BEGIN" /\ to = "TRANSMIT_INIT"
  \/ q.transmit \notin {"BEGIN", "IDLE"} /\ to = "IDLE"
  \/ ready /\ q.timer["helloWhen"] = 0 /\ to = "TRANSMIT_PERIODIC"
  \/ send /\ ~rstp /\ q.role = "DesignatedPort" /\ to = "TRANSMIT_CONFIG"
  \/ send /\ ~rstp /\ q.role = "RootPort" /\ to = "TRANSMIT_TCN"
  \/ send /\ rstp /\ to = "TRANSMIT_RSTP"

TransmitEnter(q, b, to) ==
  LET tx == q.timer["txCount"] IN
  CASE to \in {"BEGIN", "TRANSMIT_INIT"} ->
         [q EXCEPT !.transmit = to, !.on = q.on \cup {"newInfo"},
                   !.timer = [q.timer EXCEPT !["txCount"] = 0]]
    [] to = "TRANSMIT_PERIODIC" ->
         [q EXCEPT !.transmit = to,
                   !.on = q.on \cup
                     Given(\/ q.role = "DesignatedPort"
                           \/ q.role = "RootPort" /\ q.timer["tcWhile"] # 0,
                           {"newInfo"})]
    [] to = "IDLE" ->
         [q EXCEPT !.transmit = to,
                   !.timer = [q.timer EXCEPT
                                !["helloWhen"] = b.rootTimes.HelloTime]]
    [] to \in {"TRANSMIT_RSTP", "TRANSMIT_CONFIG"} ->
         [q EXCEPT !.transmit = to, !.on = q.on \ {"newInfo", "tcAck"},
                   !.timer = [q.timer EXCEPT !["txCount"] = tx + 1]]
    [] to = "TRANSMIT_TCN" ->
         [q EXCEPT !.transmit = to, !.on = q.on \ {"newInfo"},
                   !.timer = [q.timer EXCEPT !["txCount"] = tx + 1]]

-----------------------------------------------------------------------------
(***************************************************************************)
(* txConfig, txTcn and txRstp: the BPDU handed to STP_OUT_tx_bpdu.  A port *)
(* outside the protocol sends nothing, though it counts as if it had.      *)
(***************************************************************************)
TxRole(q) == CASE q.selectedRole \in {"AlternatePort", "BackupPort"} ->
                    "ALTBACK"
               [] q.selectedRole = "RootPort" -> "ROOT"
               [] q.selectedRole = "DesignatedPort" -> "DESGN"
               [] OTHER -> "UNKN"

\* build_config_bpdu
TopologyFlags(q) == Given(q.timer["tcWhile"] # 0, {"TOPOLOGY_CHANGE"})

RstpFlags(q) ==
  TopologyFlags(q) \cup Given("forwarding" \in q.on, {"FORWARD"})
                   \cup Given("learning" \in q.on, {"LEARN"})
                   \cup Given("synced" \in q.on, {"AGREEMENT"})
                   \cup Given("proposing" \in q.on, {"PROPOSAL"})

ConfigFlags(q) ==
  TopologyFlags(q) \cup Given("tcAck" \in q.on, {"TOPOLOGY_CHANGE_ACK"})

Carrying(type, version, role, flags, vector, times) ==
  [type |-> type, version |-> version, role |-> role, flags |-> flags,
   vector |-> vector, times |-> times]

\* What entering state "to" puts on the wire; q is the port before it.
TxBpdu(q, to) ==
  IF "admin_non_stp" \in q.on THEN NoBpdu
  ELSE CASE to = "TRANSMIT_RSTP" ->
              Carrying("RSTP", 2, TxRole(q), RstpFlags(q),
                       q.portPriority, q.portTimes)
         [] to = "TRANSMIT_CONFIG" ->
              Carrying("CONFIG", 0, "UNKN", ConfigFlags(q),
                       q.portPriority, q.portTimes)
         [] to = "TRANSMIT_TCN" -> [type |-> "TCN", version |-> 0]
         [] OTHER -> NoBpdu

=============================================================================
