--------------------------- MODULE RoleSelection ---------------------------
(***************************************************************************)
(* The Port Role Selection machine (rstplib/rolesel.c), the only one that  *)
(* belongs to the bridge: elects the root from what the ports have heard   *)
(* and gives every port its role.                                          *)
(*                                                                         *)
(* "ports" is the function from port index to port record; only the        *)
(* indexes in b.ports exist.  The source of the root priority vector is a  *)
(* port index, or 0 for the bridge itself.                                 *)
(***************************************************************************)
EXTENDS PortState

Listed(b) == {b.ports[n] : n \in DOMAIN b.ports}

RoleselHop(b, ports, to) ==
  \/ b.rolesel = "BEGIN" /\ to = "INIT_BRIDGE"
  \/ b.rolesel = "INIT_BRIDGE" /\ to = "ROLE_SELECTION"
  \/ /\ b.rolesel = "ROLE_SELECTION"
     /\ \E p \in Listed(b) : "reselect" \in ports[p].on
     /\ to = "ROLE_SELECTION"

-----------------------------------------------------------------------------
(* (a), (b) and (c) of updtRolesTree: the root priority vector *)

BridgePriority(b) ==
  MakeVector(BridgeIdentifier(b), 0, BridgeIdentifier(b), 0, 0)

\* A port whose information counts in the election.
Offers(q) == "admin_non_stp" \notin q.on /\ q.infoIs = "Received"

\* The root path priority vector of a port: its cost is raised by portId.
RootPath(q) ==
  [q.portPriority EXCEPT
     !.root_path_cost = q.portPriority.root_path_cost + q.portId]

VectorFrom(b, ports, source) ==
  IF source = 0 THEN BridgePriority(b) ELSE RootPath(ports[source])

\* a mutant: the walk ends at the first port
BestSourceFirst(b, ports) ==
  IF /\ b.ports # <<>>
     /\ Offers(ports[b.ports[1]])
     /\ Compare(RootPath(ports[b.ports[1]]), BridgePriority(b)) < 0
  THEN b.ports[1] ELSE 0

(***************************************************************************)
(* updtRootPriority: walks the list of ports and keeps the first of the    *)
(* best vectors.                                                           *)
(***************************************************************************)
BestSource(b, ports) ==
  LET best[n \in 0 .. Len(b.ports)] ==
        IF n = 0 THEN 0
        ELSE LET p == b.ports[n] IN
             IF /\ Offers(ports[p])
                /\ Compare(RootPath(ports[p]),
                           VectorFrom(b, ports, best[n - 1])) < 0
             THEN p ELSE best[n - 1]
  IN best[Len(b.ports)]

\* One hop further from the root: Message Age grows by MaxAge/16, at least 1.
OneHopOlder(t) ==
  LET dm == (8 + t.MaxAge) \div 16 IN
  [t EXCEPT !.MessageAge = t.MessageAge + (IF dm = 0 THEN 1 ELSE dm)]

WithRoot(b, ports, source) ==
  [b EXCEPT !.rolesel = "ROLE_SELECTION",
            !.rootPriority = VectorFrom(b, ports, source),
            !.rootTimes = IF source = 0 THEN b.BridgeTimes
                          ELSE OneHopOlder(ports[source].portTimes),
            !.rootPortId = VectorFrom(b, ports, source).bridge_port]

-----------------------------------------------------------------------------
(* (d) to (l): what each port offers its own segment, and its role *)

DesignatedVector(b, q) ==
  MakeVector(b.rootPriority.root_bridge, b.rootPriority.root_path_cost,
             BridgeIdentifier(b), q.portId, q.portId)

DesignatedTimes(b) ==
  [b.rootTimes EXCEPT !.HelloTime = b.BridgeTimes.HelloTime]

\* _is_backup_port
IsBackup(b, q) ==
  /\ q.portPriority.design_bridge = BridgeIdentifier(b)
  /\ q.portPriority.design_port # b.rootPortId

RoleFor(b, q) ==
  CASE "admin_non_stp" \in q.on -> "NonStpPort"
    [] "admin_non_stp" \notin q.on /\ q.infoIs = "Disabled" -> "DisabledPort"
    [] "admin_non_stp" \notin q.on /\ q.infoIs \in {"Aged", "Mine"} ->
         "DesignatedPort"
    [] Offers(q) ->
         IF b.rootPortId = q.portId THEN "RootPort"
         ELSE IF Compare(DesignatedVector(b, q), q.portPriority) < 0
           THEN "DesignatedPort"
         ELSE IF IsBackup(b, q) THEN "BackupPort" ELSE "AlternatePort"

\* updtInfo after role selection: the port must replace what it holds.
\* a mutant: the bridge's own information is not compared with the new
MustUpdateUnlessMine(b, q) ==
  CASE q.infoIs = "Aged" -> TRUE
    [] q.infoIs \in {"Disabled", "Mine"} -> "updtInfo" \in q.on
    [] q.infoIs = "Received" -> RoleFor(b, q) = "DesignatedPort"

MustUpdate(b, q) ==
  CASE q.infoIs = "Aged" -> TRUE
    [] q.infoIs = "Disabled" -> "updtInfo" \in q.on
    [] q.infoIs = "Mine" ->
         \/ "updtInfo" \in q.on
         \/ Compare(q.portPriority, DesignatedVector(b, q)) # 0
         \/ q.portTimes # b.rootTimes
    [] q.infoIs = "Received" -> RoleFor(b, q) = "DesignatedPort"

\* a mutant: forwarding is switched on only when the role is new
WithoutProtocolOnce(q) ==
  [q EXCEPT !.selectedRole = "NonStpPort", !.role = "NonStpPort",
            !.on = (q.on \ {"reselect"}) \cup {"selected"}
                     \cup Given(q.selectedRole # "NonStpPort",
                                {"forward", "learn"})]

WithoutProtocol(q) ==
  [q EXCEPT !.selectedRole = "NonStpPort", !.role = "NonStpPort",
            !.on = (q.on \ {"reselect"}) \cup {"forward", "learn", "selected"}]

\* One port after ROLE_SELECTION on a bridge b whose root is elected.
\* clearReselectTree has run on every port, so setSelectedTree selects all.
WithRole(b, q) ==
  IF "admin_non_stp" \in q.on
  THEN WithoutProtocol(q)
  ELSE [q EXCEPT !.selectedRole = RoleFor(b, q),
                 !.designatedPriority = DesignatedVector(b, q),
                 !.designatedTimes = DesignatedTimes(b),
                 !.on = (q.on \ {"reselect", "updtInfo"})
                          \cup {"selected"}
                          \cup Given(MustUpdate(b, q), {"updtInfo"})]

\* updtRoleDisableTree
WithoutRole(q) == [q EXCEPT !.selectedRole = "DisabledPort"]

=============================================================================
