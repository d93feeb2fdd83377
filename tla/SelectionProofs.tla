--------------------------- MODULE SelectionProofs ---------------------------
(***************************************************************************)
(* What a selection of the roles computes (rolesel.c), that the roles of   *)
(* the ports agree with it whenever the entry points have returned, what a *)
(* selection in which nothing was heard, at the start of a bridge, leaves  *)
(* forwarding, and that a designated port advertises only what was         *)
(* selected, whatever it hears meanwhile.                                  *)
(***************************************************************************)
EXTENDS RestProofs, WellFoundedInduction

-----------------------------------------------------------------------------
(* Induction on the length of the walk over the ports.                     *)

\* A set that has 0, and the successor of what it has, has every number.
LEMMA Induction ==
  ASSUME NEW S, 0 \in S, \A n \in Nat : n \in S => n + 1 \in S
  PROVE  \A n \in Nat : n \in S
<1> DEFINE T == {n \in Nat : n \notin S}
<1> SUFFICES ASSUME T # {}
             PROVE  FALSE
  OBVIOUS
<1>1. PICK n \in T : \A m \in T : <<m, n>> \notin OpToRel(<, Nat)
  <2>1. T \subseteq Nat
    OBVIOUS
  <2> HIDE DEF T
  <2> QED
    BY <2>1, NatLessThanWellFounded, WFMin
<1>2. \A m \in T : ~(m < n)
  BY <1>1 DEF OpToRel
<1>3. n \in Nat /\ n \notin S
  BY <1>1
<1> HIDE DEF T
<1>4. n - 1 \in Nat /\ n - 1 < n /\ (n - 1) + 1 = n
  <2>1. n # 0
    BY <1>3
  <2> QED
    BY <1>3, <2>1, SMT
<1>5. n - 1 \in S
  BY <1>2, <1>4 DEF T
<1> QED
  BY <1>3, <1>4, <1>5

\* updtRootPriority: port number n of the list is looked at when "best" is
\* the best source so far.
Walk(b, ports, n, best) ==
  LET p == b.ports[n] IN
  IF /\ Offers(ports[p])
     /\ Compare(RootPath(ports[p]), VectorFrom(b, ports, best)) < 0
  THEN p ELSE best

IsWalk(b, ports, n, best) ==
  best = [i \in 0 .. n |-> IF i = 0 THEN 0 ELSE Walk(b, ports, i, best[i - 1])]

\* There is one for a list of any length.
LEMMA WalkExists ==
  ASSUME NEW b, NEW ports, NEW n \in Nat
  PROVE  \E best : IsWalk(b, ports, n, best)
<1> DEFINE S == {m \in Nat : \E best : IsWalk(b, ports, m, best)}
<1>1. 0 \in S
  <2> DEFINE f == [i \in 0 .. 0 |-> 0]
  <2>1. IsWalk(b, ports, 0, f)
    BY DEF IsWalk
  <2> HIDE DEF f
  <2> QED
    BY <2>1
<1>2. ASSUME NEW m \in Nat, m \in S
      PROVE  m + 1 \in S
  <2>1. PICK f : IsWalk(b, ports, m, f)
    BY <1>2
  <2> DEFINE g == [i \in 0 .. m + 1 |-> IF i = m + 1
                                        THEN Walk(b, ports, m + 1, f[m])
                                        ELSE f[i]]
             h == [i \in 0 .. m + 1 |->
                     IF i = 0 THEN 0 ELSE Walk(b, ports, i, g[i - 1])]
  <2>2. ASSUME NEW i \in 0 .. m + 1
        PROVE  g[i] = IF i = 0 THEN 0 ELSE Walk(b, ports, i, g[i - 1])
    <3>1. CASE i = 0
      <4>1. 0 \in 0 .. m /\ 0 # m + 1
        OBVIOUS
      <4>2. f[0] = 0
        BY <2>1, <4>1 DEF IsWalk
      <4> QED
        BY <3>1, <4>1, <4>2
    <3>2. CASE i = m + 1
      <4>1. /\ m \in 0 .. m + 1 /\ m # m + 1 /\ i - 1 = m /\ i # 0
            /\ m + 1 \in 0 .. m + 1
        BY <3>2, SMT
      <4>2. g[m] = f[m] /\ g[m + 1] = Walk(b, ports, m + 1, f[m])
        BY <4>1
      <4> HIDE DEF g
      <4> QED
        BY <3>2, <4>1, <4>2
    <3>3. CASE i # 0 /\ i # m + 1
      <4>1. /\ i \in 0 .. m /\ i - 1 \in 0 .. m + 1 /\ i - 1 # m + 1
        BY <2>2, <3>3, SMT
      <4>2. f[i] = Walk(b, ports, i, f[i - 1])
        BY <2>1, <3>3, <4>1 DEF IsWalk
      <4>3. g[i] = f[i] /\ g[i - 1] = f[i - 1]
        BY <3>3, <4>1
      <4> HIDE DEF g
      <4> QED
        BY <3>3, <4>2, <4>3
    <3> QED
      BY <3>1, <3>2, <3>3
  <2>3. g = h
    <3>1. \A i \in 0 .. m + 1 : g[i] = h[i]
      <4> HIDE DEF g
      <4> QED
        BY <2>2
    <3>2. DOMAIN g = 0 .. m + 1 /\ DOMAIN h = 0 .. m + 1
      OBVIOUS
    <3>3. g = [i \in 0 .. m + 1 |-> g[i]] /\ h = [i \in 0 .. m + 1 |-> h[i]]
      OBVIOUS
    <3> HIDE DEF g, h
    <3> QED
      BY <3>1, <3>3
  <2>4. IsWalk(b, ports, m + 1, g)
    <3> HIDE DEF g
    <3> QED
      BY <2>3 DEF IsWalk
  <2> HIDE DEF g
  <2> QED
    BY <2>4
<1> HIDE DEF S
<1>3. n \in S
  BY <1>1, <1>2, Induction
<1> QED
  BY <1>3 DEF S

\* rolesel.c: the source is where such a walk over the whole list ends.
LEMMA SourceWalks ==
  ASSUME NEW b, NEW ports, Len(b.ports) \in Nat
  PROVE  \E best : /\ IsWalk(b, ports, Len(b.ports), best)
                   /\ BestSource(b, ports) = best[Len(b.ports)]
<1> DEFINE f == CHOOSE best : IsWalk(b, ports, Len(b.ports), best)
<1>1. IsWalk(b, ports, Len(b.ports), f)
  BY WalkExists
<1>2. BestSource(b, ports) = f[Len(b.ports)]
  BY DEF BestSource, IsWalk, Walk
<1> HIDE DEF f
<1> QED
  BY <1>1, <1>2

-----------------------------------------------------------------------------
(* STP_VECT_compare_vector orders the vectors whose costs fit in an int.   *)

Small(v) == v \in Vector /\ v.root_path_cost < HalfWord

\* vector.c: between such vectors the difference of the costs is not cut.
LEMMA CompareSmall ==
  ASSUME NEW u, NEW v, Small(u), Small(v)
  PROVE  Compare(u, v) =
           IF u.root_bridge # v.root_bridge
             THEN u.root_bridge - v.root_bridge
           ELSE IF u.root_path_cost # v.root_path_cost
             THEN u.root_path_cost - v.root_path_cost
           ELSE IF u.design_bridge # v.design_bridge
             THEN u.design_bridge - v.design_bridge
           ELSE IF u.design_port # v.design_port
             THEN u.design_port - v.design_port
           ELSE u.bridge_port - v.bridge_port
<1>1. u.root_path_cost \in Nat /\ v.root_path_cost \in Nat
  BY SMT DEF Small, Vector
<1>2. CostDifference(u.root_path_cost, v.root_path_cost)
        = u.root_path_cost - v.root_path_cost
  BY <1>1, HalfWordAssumption, SMT DEF CostDifference, Small
<1>3. u.root_path_cost - v.root_path_cost # 0
        <=> u.root_path_cost # v.root_path_cost
  BY <1>1, SMT
<1> QED
  BY <1>2, <1>3 DEF Compare

\* It is a total order.
LEMMA CompareOrders ==
  ASSUME NEW u, NEW v, NEW w, Small(u), Small(v), Small(w)
  PROVE  /\ Compare(u, v) <= 0 /\ Compare(v, w) <= 0 => Compare(u, w) <= 0
         /\ ~(Compare(u, v) < 0) => Compare(v, u) <= 0
         /\ Compare(u, v) < 0 => Compare(u, v) <= 0
         /\ Compare(u, u) <= 0
         /\ Compare(u, v) = 0 => u = v
<1>1. ASSUME NEW x, Small(x)
      PROVE  /\ x.root_bridge \in Nat /\ x.root_path_cost \in Nat
             /\ x.design_bridge \in Nat /\ x.design_port \in Nat
             /\ x.bridge_port \in Nat
  BY <1>1, SMT DEF Small, Vector
<1>2. /\ Compare(u, v) <= 0 /\ Compare(v, w) <= 0 => Compare(u, w) <= 0
      /\ ~(Compare(u, v) < 0) => Compare(v, u) <= 0
      /\ Compare(u, v) < 0 => Compare(u, v) <= 0
      /\ Compare(u, u) <= 0
  BY <1>1, CompareSmall, SMT
<1>3. Compare(u, v) = 0 => /\ u.root_bridge = v.root_bridge
                           /\ u.root_path_cost = v.root_path_cost
                           /\ u.design_bridge = v.design_bridge
                           /\ u.design_port = v.design_port
                           /\ u.bridge_port = v.bridge_port
  BY <1>1, CompareSmall, SMT
<1>4. u \in Vector /\ v \in Vector
  BY DEF Small
<1> QED
  BY <1>2, <1>3, <1>4, SMT DEF Vector

(***************************************************************************)
(* rolesel.c, updtRootPriority: the source of the root priority vector is  *)
(* the bridge itself or a port whose information counts, and no port whose *)
(* information counts is better, in a list of any length.                  *)
(***************************************************************************)
LEMMA BestSourceIsBest ==
  ASSUME NEW b, IsBridge(b), NEW ports,
         \A p \in Listed(b) : Offers(ports[p]) => Small(RootPath(ports[p])),
         Small(BridgePriority(b)), 0 \notin Listed(b)
  PROVE  LET s == BestSource(b, ports) IN
         /\ s = 0 \/ (s \in Listed(b) /\ Offers(ports[s]))
         /\ Compare(VectorFrom(b, ports, s), BridgePriority(b)) <= 0
         /\ \A p \in Listed(b) : Offers(ports[p]) =>
              Compare(VectorFrom(b, ports, s), RootPath(ports[p])) <= 0
<1> DEFINE n == Len(b.ports)
           From(s) == VectorFrom(b, ports, s)
           Source(s) == s = 0 \/ (s \in Listed(b) /\ Offers(ports[s]))
           Beats(s, i) ==
             /\ Source(s)
             /\ Compare(From(s), BridgePriority(b)) <= 0
             /\ \A j \in 1 .. i : Offers(ports[b.ports[j]]) =>
                  Compare(From(s), RootPath(ports[b.ports[j]])) <= 0
<1>1. n \in Nat /\ DOMAIN b.ports = 1 .. n
  BY SMT DEF IsBridge
<1>2. \A i \in 1 .. n : b.ports[i] \in Listed(b)
  BY <1>1 DEF Listed
<1>3. PICK best : IsWalk(b, ports, n, best) /\ BestSource(b, ports) = best[n]
  BY <1>1, SourceWalks
<1>4. \A s : Source(s) => Small(From(s))
  BY DEF VectorFrom
<1>5. \A p \in Listed(b) : From(p) = RootPath(ports[p])
  BY DEF VectorFrom
<1>6. From(0) = BridgePriority(b)
  BY DEF VectorFrom
<1> HIDE DEF n, From
<1> DEFINE S == {i \in Nat : i <= n => Beats(best[i], i)}
<1>7. 0 \in S
  <2>1. best[0] = 0
    BY <1>1, <1>3, SMT DEF IsWalk
  <2>2. \A j \in 1 .. 0 : FALSE
    BY SMT
  <2>3. Compare(From(0), BridgePriority(b)) <= 0
    BY <1>6, CompareOrders
  <2>4. Beats(best[0], 0)
    BY <2>1, <2>2, <2>3
  <2> HIDE DEF Beats
  <2> QED
    BY <2>4
<1>8. ASSUME NEW i \in Nat, i \in S
      PROVE  i + 1 \in S
  <2> SUFFICES ASSUME i + 1 <= n
               PROVE  Beats(best[i + 1], i + 1)
    BY <1>8, SMT
  <2> DEFINE old == best[i]
             new == best[i + 1]
             p == b.ports[i + 1]
  <2>1. Beats(old, i)
    BY <1>1, <1>8, SMT
  <2>2. new = Walk(b, ports, i + 1, old)
    <3>1. i + 1 \in 0 .. n /\ i + 1 # 0 /\ (i + 1) - 1 = i
      BY <1>1, <1>8, SMT
    <3> QED
      BY <1>3, <3>1 DEF IsWalk
  <2>3. p \in Listed(b)
    <3>1. i + 1 \in 1 .. n
      BY <1>1, <1>8, SMT
    <3> QED
      BY <1>2, <3>1
  <2>4. \A j \in 1 .. i + 1 : j \in 1 .. i \/ j = i + 1
    BY <1>8, SMT
  <2> DEFINE won == Offers(ports[p]) /\ Compare(RootPath(ports[p]), From(old)) < 0
  <2>5. new = IF won THEN p ELSE old
    BY <2>2 DEF Walk, From
  <2> HIDE DEF old, new
  <2>6. Small(From(old)) /\ (Offers(ports[p]) => Small(RootPath(ports[p])))
    BY <1>4, <2>1, <2>3
  <2>7. CASE won
    <3>1. /\ new = p /\ Offers(ports[p]) /\ From(p) = RootPath(ports[p])
          /\ Small(From(p)) /\ Compare(From(p), From(old)) < 0
      BY <1>5, <2>3, <2>5, <2>6, <2>7
    <3>2. Compare(From(p), From(old)) <= 0
      BY <2>6, <3>1, CompareOrders
    <3>3. Compare(From(p), BridgePriority(b)) <= 0
      BY <2>1, <2>6, <3>1, <3>2, CompareOrders
    <3>4. ASSUME NEW j \in 1 .. i, Offers(ports[b.ports[j]])
          PROVE  Compare(From(p), RootPath(ports[b.ports[j]])) <= 0
      <4>1. /\ Small(RootPath(ports[b.ports[j]]))
            /\ Compare(From(old), RootPath(ports[b.ports[j]])) <= 0
        <5>1. j \in 1 .. n
          BY <1>1, <1>8, SMT
        <5> QED
          BY <1>2, <2>1, <3>4, <5>1
      <4> QED
        BY <2>6, <3>1, <3>2, <4>1, CompareOrders
    <3>5. Compare(From(p), RootPath(ports[p])) <= 0
      BY <3>1, CompareOrders
    <3> HIDE DEF p
    <3>6. ASSUME NEW j \in 1 .. i + 1, Offers(ports[b.ports[j]])
          PROVE  Compare(From(p), RootPath(ports[b.ports[j]])) <= 0
      BY <2>4, <3>4, <3>5, <3>6 DEF p
    <3> QED
      BY <2>3, <3>1, <3>3, <3>6 DEF new
  <2>8. CASE ~won
    <3>1. new = old
      BY <2>5, <2>8
    <3>2. Offers(ports[p]) => Compare(From(old), RootPath(ports[p])) <= 0
      BY <2>6, <2>8, CompareOrders
    <3>3. ASSUME NEW j \in 1 .. i + 1, Offers(ports[b.ports[j]])
          PROVE  Compare(From(old), RootPath(ports[b.ports[j]])) <= 0
      BY <2>1, <2>4, <3>2, <3>3
    <3> QED
      BY <2>1, <3>1, <3>3 DEF new
  <2> QED
    BY <2>7, <2>8
<1> HIDE DEF S
<1>9. n \in S
  BY <1>1, <1>7, <1>8, Induction
<1>10. Beats(best[n], n)
  BY <1>1, <1>9, SMT DEF S
<1>11. ASSUME NEW p \in Listed(b)
       PROVE  \E j \in 1 .. n : p = b.ports[j]
  BY <1>1, <1>11 DEF Listed
<1> QED
  BY <1>3, <1>10, <1>11 DEF From

-----------------------------------------------------------------------------
(* The inductive invariant.                                                *)

(***************************************************************************)
(* What the theorems below take for granted of the parameters: a port      *)
(* index fits in the octet that port->port_id leaves it, the priority a    *)
(* port is created with is one STP_IN_set_port_cfg would accept, and no    *)
(* neighbour is so far from its root that the cost of the path through a   *)
(* port, which rolesel.c raises by the port identifier, outgrows an int.   *)
(***************************************************************************)
MaxPortId == MakePortId(MaxPortPrio, 255)

Fits(v) == v \in Vector /\ v.root_path_cost + MaxPortId < HalfWord

InRange ==
  /\ Port \subseteq 1 .. 255
  /\ InitialPortCfg.prio <= MaxPortPrio
  /\ \A m \in Received : Fits(m.vector)

\* A vector heard on port p: it carries an identifier the port had.
HeardOn(p, v) == Fits(v) /\ IsPortIdOf(v.bridge_port, p)

\* portinfo.c: what port p holds was heard on it or comes from a selection.
Recorded(p, q) ==
  /\ IsPortIdOf(q.portId, p)
  /\ Small(q.portPriority) /\ Small(q.designatedPriority)
  /\ \/ ConveyedRole(q.msg) = "DESGN"
     \/ q.info = "RECEIVE" /\ q.rcvdInfo = "SuperiorDesignatedInfo"
     => HeardOn(p, q.msg.vector)
  /\ q.infoIs = "Received" => HeardOn(p, q.portPriority)

\* rolesel.c: what the latest selection on bridge b says of a port holds
\* for as long as the port is selected.
Chosen(b, q) ==
  "selected" \in q.on /\ "admin_non_stp" \notin q.on =>
    /\ q.infoIs = "Disabled" => q.selectedRole = "DisabledPort"
    /\ q.infoIs = "Mine" =>
         "updtInfo" \in q.on \/ q.portPriority = q.designatedPriority
    /\ q.infoIs = "Received" =>
         /\ q.selectedRole \in {"RootPort", "DesignatedPort",
                                "AlternatePort", "BackupPort"}
         /\ q.selectedRole = "RootPort" => RootPath(q) = b.rootPriority
         /\ q.selectedRole \in {"AlternatePort", "BackupPort"} =>
              Compare(q.portPriority, q.designatedPriority) <= 0
         /\ Compare(b.rootPriority, RootPath(q)) <= 0

PortsChosen ==
  /\ Small(bridge.rootPriority)
  /\ bridge.stp_enabled =>
       Compare(bridge.rootPriority, BridgePriority(bridge)) <= 0
  /\ \A p \in Listed(bridge) :
       Recorded(p, port[p]) /\ Chosen(bridge, port[p])

-----------------------------------------------------------------------------
(* What the machines of a port do to it.                                   *)

\* A machine that leaves the information alone keeps both.
LEMMA ChosenSame ==
  ASSUME NEW q, NEW r, NEW b, NEW p, SameInfo(q, r)
  PROVE  /\ Recorded(p, q) => Recorded(p, r)
         /\ Chosen(b, q) => Chosen(b, r)
BY DEF SameInfo, Recorded, Chosen, RootPath

\* portinfo.c: information is recorded when the message was found superior.
LEMMA InfoSuperiorFrom ==
  ASSUME NEW q, IsPort(q), InfoHop(q, "SUPERIOR_DESIGNATED")
  PROVE  q.info = "RECEIVE" /\ q.rcvdInfo = "SuperiorDesignatedInfo"
<1>1. q.rcvdInfo \in RcvdInfo
  BY DEF IsPort
<1>2. (CASE q.rcvdInfo = "SuperiorDesignatedInfo" -> "SUPERIOR_DESIGNATED"
         [] q.rcvdInfo = "RepeatedDesignatedInfo" -> "REPEATED_DESIGNATED"
         [] q.rcvdInfo = "InferiorDesignatedInfo" -> "INFERIOR_DESIGNATED"
         [] q.rcvdInfo = "InferiorRootAlternateInfo" -> "NOT_DESIGNATED"
         [] q.rcvdInfo = "OtherInfo" -> "OTHER") = "SUPERIOR_DESIGNATED"
        => q.rcvdInfo = "SuperiorDesignatedInfo"
  BY <1>1, SMT DEF RcvdInfo
<1> QED
  BY <1>2 DEF InfoHop

\* portinfo.c: only a message that conveys the Designated role is superior.
LEMMA SuperiorConveys ==
  ASSUME NEW q, RcvInfo(q) = "SuperiorDesignatedInfo"
  PROVE  ConveyedRole(q.msg) = "DESGN"
BY DEF RcvInfo

\* portinfo.c: what the port holds changes as the selection asked, or a new
\* selection is asked for.
LEMMA InfoChosen ==
  ASSUME NEW q, IsPort(q), NEW b, NEW p, Recorded(p, q),
         NEW to \in InfoState, InfoHop(q, to) \/ to = "BEGIN"
  PROVE  /\ Recorded(p, InfoEnter(q, b, to))
         /\ Chosen(b, q) => Chosen(b, InfoEnter(q, b, to))
<1> DEFINE Fine(r) == Recorded(p, r) /\ (Chosen(b, q) => Chosen(b, r))
           Holds(r) == /\ r.portId = q.portId
                       /\ r.portPriority = q.portPriority
                       /\ r.designatedPriority = q.designatedPriority
           Keeps(r) == /\ Holds(r) /\ r.infoIs = q.infoIs
                       /\ r.selectedRole = q.selectedRole
                       /\ r.msg = q.msg
                       /\ \A f \in {"selected", "updtInfo", "admin_non_stp"} :
                            f \in q.on <=> f \in r.on
<1>1. \A f \in {"selected", "updtInfo", "admin_non_stp"} :
        f \notin Proposal(q) /\ f \notin TcFlags(q)
  BY DEF Proposal, TcFlags, Given
<1>2. ASSUME NEW r, Keeps(r), r.info # "RECEIVE"
      PROVE  Fine(r)
  BY <1>2 DEF Recorded, Chosen, RootPath
<1>3. ASSUME NEW r, Holds(r), "selected" \notin r.on, r.info # "RECEIVE",
             r.infoIs # "Received",
             ConveyedRole(r.msg) = "DESGN" => r.msg = q.msg
      PROVE  Fine(r)
  BY <1>3 DEF Recorded, Chosen
<1>4. Fine(InfoDisabled(q)) /\ Fine(InfoAged(q))
  <2> DEFINE Lost(r) == /\ Holds(r) /\ "selected" \notin r.on
                        /\ r.info # "RECEIVE" /\ r.infoIs # "Received"
                        /\ r.msg = q.msg
  <2>1. Lost(InfoDisabled(q))
    BY SMT DEF IsPort, PortField, InfoDisabled
  <2>2. Lost(InfoAged(q))
    BY SMT DEF IsPort, PortField, InfoAged
  <2> QED
    BY <1>3, <2>1, <2>2
<1>5. Fine(InfoBegin(q))
  <2> DEFINE r == InfoBegin(q)
  <2>1. /\ Holds(r) /\ "selected" \notin r.on /\ r.info # "RECEIVE"
        /\ r.infoIs # "Received"
        /\ r.msg.type = "NONE" /\ r.msg.role = "UNKN"
    <3> DEFINE d == InfoDisabled(q)
               m == [type |-> "NONE", version |-> q.msg.version,
                     role |-> "UNKN", flags |-> {},
                     vector |-> q.msg.vector, times |-> q.msg.times]
    <3>1. r = [d EXCEPT !.info = "BEGIN", !.msgPortRole = "UNKN", !.msg = m]
      BY DEF InfoBegin
    <3>2. /\ Holds(d) /\ "selected" \notin d.on /\ d.infoIs = "Disabled"
          /\ DOMAIN d = PortField
      BY SMT DEF IsPort, PortField, InfoDisabled
    <3>3. m.type = "NONE" /\ m.role = "UNKN"
      OBVIOUS
    <3> HIDE DEF d, m, r
    <3> QED
      BY <3>1, <3>2, <3>3, SMT DEF PortField
  <2> HIDE DEF r
  <2>2. ConveyedRole(r.msg) # "DESGN"
    BY <2>1 DEF ConveyedRole
  <2> QED
    BY <1>3, <2>1, <2>2 DEF r
<1>6. Fine(InfoUpdate(q))
  <2> DEFINE r == InfoUpdate(q)
  <2>1. /\ r.info = "UPDATE" /\ r.infoIs = "Mine" /\ r.portId = q.portId
        /\ r.portPriority = q.designatedPriority
        /\ r.designatedPriority = q.designatedPriority
        /\ r.msg = q.msg
    BY SMT DEF IsPort, PortField, InfoUpdate
  <2> HIDE DEF r
  <2> QED
    BY <2>1 DEF Recorded, Chosen, r
<1>7. CASE to = "SUPERIOR_DESIGNATED"
  <2> DEFINE r == InfoSuperior(q)
  <2>1. HeardOn(p, q.msg.vector)
    BY <1>7, InfoSuperiorFrom DEF Recorded
  <2>2. /\ r.info = "SUPERIOR_DESIGNATED" /\ r.portId = q.portId
        /\ r.portPriority = q.msg.vector
        /\ r.designatedPriority = q.designatedPriority
        /\ r.msg = q.msg /\ "selected" \notin r.on
    BY <1>1, SMT DEF IsPort, PortField, InfoSuperior, Given
  <2>3. Small(q.msg.vector)
    <3>1. q.msg.vector \in Vector
               /\ q.msg.vector.root_path_cost + MaxPortId < HalfWord
      BY <2>1 DEF HeardOn, Fits
    <3>2. q.msg.vector.root_path_cost \in Nat /\ MaxPortId \in Nat
      BY <3>1, SMT DEF Vector, MaxPortId, MakePortId, MaxPortPrio
    <3> QED
      BY <3>1, <3>2, HalfWordAssumption, SMT DEF Small
  <2> HIDE DEF r
  <2>4. Fine(r)
    BY <2>1, <2>2, <2>3 DEF Recorded, Chosen
  <2> QED
    BY <1>7, <2>4 DEF InfoEnter, r
<1>8. CASE to = "RECEIVE"
  <2> DEFINE r == InfoReceive(q)
  <2>1. Keeps(r) /\ r.rcvdInfo = RcvInfo(q)
    BY SMT DEF IsPort, PortField, InfoReceive
  <2> HIDE DEF r
  <2>2. Fine(r)
    BY <2>1, SuperiorConveys DEF Recorded, Chosen, RootPath
  <2> QED
    BY <1>8, <2>2 DEF InfoEnter, r
<1>9. CASE to = "CURRENT"
  <2>1. /\ Keeps([q EXCEPT !.info = "CURRENT"])
        /\ [q EXCEPT !.info = "CURRENT"].info # "RECEIVE"
    BY SMT DEF IsPort, PortField
  <2> QED
    BY <1>2, <1>9, <2>1 DEF InfoEnter
<1>10. CASE to \in {"REPEATED_DESIGNATED", "INFERIOR_DESIGNATED",
                    "NOT_DESIGNATED", "OTHER"}
  <2>1. /\ Keeps(InfoRepeated(q)) /\ InfoRepeated(q).info # "RECEIVE"
        /\ Keeps([q EXCEPT !.info = "OTHER", !.on = q.on \ {"rcvdMsg"}])
        /\ [q EXCEPT !.info = "OTHER", !.on = q.on \ {"rcvdMsg"}].info
             # "RECEIVE"
    BY <1>1, SMT DEF IsPort, PortField, InfoRepeated
  <2>2. /\ Keeps(InfoInferior(q)) /\ InfoInferior(q).info # "RECEIVE"
        /\ Keeps(InfoNotDesignated(q, b))
        /\ InfoNotDesignated(q, b).info # "RECEIVE"
    BY <1>1, SMT DEF IsPort, PortField, Given, InfoInferior,
                     InfoNotDesignated
  <2> QED
    BY <1>2, <1>10, <2>1, <2>2 DEF InfoEnter
<1> QED
  BY <1>4, <1>5, <1>6, <1>7, <1>8, <1>9, <1>10 DEF InfoState, InfoEnter

\* pcost.c
LEMMA PcostChosen ==
  ASSUME NEW q, IsPort(q), NEW b, NEW p, NEW to \in PcostState
  PROVE  /\ Recorded(p, q) => Recorded(p, PcostEnter(q, to))
         /\ Chosen(b, q) => Chosen(b, PcostEnter(q, to))
BY SMT DEF IsPort, PortField, Recorded, Chosen, RootPath, PcostEnter,
           PcostState

-----------------------------------------------------------------------------
(* What a selection and a restart do to a port.                            *)

\* port.c: the identifier of a port says which port it is, and is never zero.
LEMMA PortIdTells ==
  ASSUME InRange, NEW p \in Port, NEW id, IsPortIdOf(id, p)
  PROVE  /\ id \in Nat /\ id # 0 /\ id <= MaxPortId
         /\ \A x \in Port : IsPortIdOf(id, x) => x = p
<1>1. PICK prio \in 0 .. MaxPortPrio : id = MakePortId(prio, p)
  BY DEF IsPortIdOf
<1>2. \A x \in Port : x \in 1 .. 255
  BY DEF InRange
<1>3. p \in 1 .. 255
  BY <1>2
<1>4. id \in Nat /\ id # 0 /\ id <= MaxPortId
  BY <1>1, <1>3, SMT DEF MakePortId, MaxPortId, MaxPortPrio
<1>5. ASSUME NEW x \in 1 .. 255, NEW n \in 0 .. MaxPortPrio,
             id = MakePortId(n, x)
      PROVE  x = p
  BY <1>1, <1>3, <1>5, SMT DEF MakePortId, MaxPortPrio
<1> QED
  BY <1>2, <1>4, <1>5 DEF IsPortIdOf

\* portinfo.c: what a port has received fits, with its identifier added.
LEMMA RootPathSmall ==
  ASSUME InRange, NEW p \in Port, NEW q, Recorded(p, q),
         q.infoIs = "Received"
  PROVE  Small(RootPath(q))
<1> DEFINE v == q.portPriority
<1>1. /\ v \in Vector /\ v.root_path_cost + MaxPortId < HalfWord
      /\ q.portId \in Nat /\ q.portId <= MaxPortId /\ MaxPortId \in Nat
  <2>1. MaxPortId \in Nat
    BY SMT DEF MaxPortId, MakePortId, MaxPortPrio
  <2> QED
    BY <2>1, PortIdTells DEF Recorded, HeardOn, Fits
<1>2. v.root_path_cost \in Nat
  BY <1>1, SMT DEF Vector
<1>3. /\ v.root_path_cost + q.portId \in Nat
      /\ v.root_path_cost + q.portId < HalfWord
  BY <1>1, <1>2, HalfWordAssumption, SMT
<1>4. /\ RootPath(q) = [v EXCEPT !.root_path_cost = v.root_path_cost + q.portId]
      /\ [v EXCEPT !.root_path_cost = v.root_path_cost + q.portId] \in Vector
      /\ [v EXCEPT !.root_path_cost = v.root_path_cost + q.portId]
           .root_path_cost = v.root_path_cost + q.portId
  BY <1>1, <1>3, SMT DEF RootPath, Vector
<1> QED
  BY <1>3, <1>4 DEF Small

\* rolesel.c: the bridge's own vector has no cost.
LEMMA BridgePrioritySmall ==
  ASSUME NEW b, IsBridge(b)
  PROVE  /\ Small(BridgePriority(b))
         /\ Compare(BridgePriority(b), BridgePriority(b)) <= 0
<1>1. BridgeIdentifier(b) \in Nat
  BY SMT DEF IsBridge, BridgeIdentifier, MacSpan
<1>2. Small(BridgePriority(b))
  BY <1>1, HalfWordAssumption, SMT DEF Small, BridgePriority, MakeVector,
                                       Vector
<1> QED
  BY <1>2, CompareOrders

\* rolesel.c: the election of the root, on ports as the invariant says.
LEMMA ElectedRoot ==
  ASSUME InRange, TypeOK,
         \A p \in Listed(bridge) : Recorded(p, port[p])
  PROVE  LET s == BestSource(bridge, port)
             c == WithRoot(bridge, port, s)
         IN
         /\ s = 0 \/ (s \in Listed(bridge) /\ Offers(port[s]))
         /\ c.rootPriority = VectorFrom(bridge, port, s)
         /\ c.rootPortId = VectorFrom(bridge, port, s).bridge_port
         /\ Small(c.rootPriority)
         /\ Compare(c.rootPriority, BridgePriority(c)) <= 0
         /\ \A p \in Listed(bridge) :
              Offers(port[p]) =>
                Compare(c.rootPriority, RootPath(port[p])) <= 0
<1> DEFINE s == BestSource(bridge, port)
           v == VectorFrom(bridge, port, s)
           c == WithRoot(bridge, port, s)
<1>1. IsBridge(bridge) /\ Listed(bridge) \subseteq Port
  BY ListedPorts DEF TypeOK
<1>2. 0 \notin Listed(bridge)
  BY <1>1, SMT DEF InRange
<1>3. Small(BridgePriority(bridge))
  BY <1>1, BridgePrioritySmall
<1>4. \A p \in Listed(bridge) : Offers(port[p]) => Small(RootPath(port[p]))
  BY <1>1, RootPathSmall DEF Offers
<1>5. /\ s = 0 \/ (s \in Listed(bridge) /\ Offers(port[s]))
      /\ Compare(v, BridgePriority(bridge)) <= 0
      /\ \A p \in Listed(bridge) :
           Offers(port[p]) => Compare(v, RootPath(port[p])) <= 0
  BY <1>1, <1>2, <1>3, <1>4, BestSourceIsBest
<1>6. Small(v)
  BY <1>3, <1>4, <1>5 DEF VectorFrom
<1> HIDE DEF s, v
<1>7. /\ c.rootPriority = v /\ c.rootPortId = v.bridge_port
      /\ c.prio = bridge.prio /\ c.addr = bridge.addr
  BY <1>1, SMT DEF WithRoot, IsBridge, BridgeField, v
<1> HIDE DEF c
<1>8. BridgePriority(c) = BridgePriority(bridge)
  BY <1>7 DEF BridgePriority, BridgeIdentifier
<1> QED
  BY <1>5, <1>6, <1>7, <1>8 DEF s, v, c

\* rolesel.c: the roles that follow from it.
LEMMA ElectedChosen ==
  ASSUME InRange, TypeOK,
         \A p \in Listed(bridge) : Recorded(p, port[p]),
         NEW c, c = WithRoot(bridge, port, BestSource(bridge, port)),
         NEW p \in Listed(bridge)
  PROVE  /\ Recorded(p, WithRole(c, port[p]))
         /\ Chosen(c, WithRole(c, port[p]))
<1> DEFINE q == port[p]
           s == BestSource(bridge, port)
<1>1. p \in Port /\ IsPort(q) /\ IsBridge(bridge) /\ Recorded(p, q)
  BY ListedPorts DEF TypeOK
<1>2. /\ s = 0 \/ (s \in Listed(bridge) /\ Offers(port[s]))
      /\ c.rootPriority = VectorFrom(bridge, port, s)
      /\ c.rootPortId = VectorFrom(bridge, port, s).bridge_port
      /\ Small(c.rootPriority)
      /\ Offers(q) => Compare(c.rootPriority, RootPath(q)) <= 0
  BY ElectedRoot
<1>3. c.prio \in Nat /\ c.addr \in Nat
  BY <1>1, SMT DEF WithRoot, IsBridge, BridgeField
<1>4. Offers(q) /\ c.rootPortId = q.portId => c.rootPriority = RootPath(q)
  <2> SUFFICES ASSUME Offers(q), c.rootPortId = q.portId
               PROVE  c.rootPriority = RootPath(q)
    OBVIOUS
  <2>1. IsPortIdOf(q.portId, p) /\ q.portId # 0
    BY <1>1, PortIdTells DEF Recorded
  <2>2. s # 0
    <3>1. BridgePriority(bridge).bridge_port = 0
      BY DEF BridgePriority, MakeVector
    <3> QED
      BY <1>2, <2>1, <3>1 DEF VectorFrom
  <2>3. c.rootPortId = port[s].portPriority.bridge_port
    <3>1. RootPath(port[s]).bridge_port = port[s].portPriority.bridge_port
      <4>1. port[s].portPriority \in Vector
        BY <1>2, <2>2, ListedPorts DEF TypeOK, IsPort
      <4> QED
        BY <4>1, SMT DEF RootPath, Vector
    <3> QED
      BY <1>2, <2>2, <3>1 DEF VectorFrom
  <2>4. IsPortIdOf(port[s].portPriority.bridge_port, s) /\ s \in Port
    BY <1>2, <2>2, ListedPorts DEF Recorded, HeardOn, Offers, TypeOK
  <2>5. s = p
    BY <1>1, <2>1, <2>3, <2>4, PortIdTells
  <2> QED
    BY <1>2, <2>2, <2>5 DEF VectorFrom
<1> HIDE DEF q, s
<1>5. CASE "admin_non_stp" \in q.on
  <2> DEFINE r == WithoutProtocol(q)
  <2>1. /\ r.info = q.info /\ r.infoIs = q.infoIs /\ r.msg = q.msg
        /\ r.rcvdInfo = q.rcvdInfo /\ r.portId = q.portId
        /\ r.portPriority = q.portPriority
        /\ r.designatedPriority = q.designatedPriority
        /\ "admin_non_stp" \in r.on
    BY <1>1, <1>5, SMT DEF WithoutProtocol, IsPort, PortField
  <2> HIDE DEF r
  <2>2. Recorded(p, r) /\ Chosen(c, r)
    BY <1>1, <2>1 DEF Recorded, Chosen
  <2> QED
    BY <1>5, <2>2 DEF WithRole, r, q
<1>6. CASE "admin_non_stp" \notin q.on
  <2> DEFINE r == WithRole(c, q)
             v == DesignatedVector(c, q)
             role == RoleFor(c, q)
             must == MustUpdate(c, q)
  <2>1. /\ r.info = q.info /\ r.infoIs = q.infoIs /\ r.msg = q.msg
        /\ r.rcvdInfo = q.rcvdInfo /\ r.portId = q.portId
        /\ r.portPriority = q.portPriority
        /\ r.designatedPriority = v
        /\ r.selectedRole = role
        /\ "updtInfo" \in r.on <=> must
    <3> HIDE DEF v, role, must
    <3>1. r = [q EXCEPT !.selectedRole = role,
                        !.designatedPriority = v,
                        !.designatedTimes = DesignatedTimes(c),
                        !.on = (q.on \ {"reselect", "updtInfo"})
                                 \cup {"selected"}
                                 \cup Given(must, {"updtInfo"})]
      BY <1>6 DEF WithRole, v, role, must
    <3> HIDE DEF r
    <3> QED
      BY <1>1, <3>1, SMT DEF IsPort, PortField, Given
  <2>2. Small(v)
    <3>1. BridgeIdentifier(c) \in Nat /\ q.portId \in Nat
      BY <1>1, <1>3, SMT DEF IsPort, BridgeIdentifier, MacSpan
    <3> QED
      BY <1>2, <3>1, SMT DEF DesignatedVector, MakeVector, Vector, Small
  <2>3. Small(q.portPriority)
    BY <1>1 DEF Recorded
  <2>4. q.infoIs = "Disabled" => role = "DisabledPort"
    BY <1>6 DEF RoleFor, Offers
  <2>5. q.infoIs = "Mine" /\ ~must => q.portPriority = v
    <3>1. q.infoIs = "Mine" /\ ~must => Compare(q.portPriority, v) = 0
      BY DEF MustUpdate
    <3> HIDE DEF v, must
    <3> QED
      BY <2>2, <2>3, <3>1, CompareOrders
  <2>6. q.infoIs = "Received" =>
          /\ Offers(q)
          /\ role \in {"RootPort", "DesignatedPort", "AlternatePort",
                       "BackupPort"}
          /\ role = "RootPort" => c.rootPortId = q.portId
          /\ role \in {"AlternatePort", "BackupPort"} =>
               ~(Compare(v, q.portPriority) < 0)
    BY <1>6 DEF RoleFor, Offers
  <2> HIDE DEF v, role, must
  <2>7. ~(Compare(v, q.portPriority) < 0) => Compare(q.portPriority, v) <= 0
    BY <2>2, <2>3, CompareOrders
  <2> HIDE DEF r
  <2>8. RootPath(r) = RootPath(q)
    BY <2>1 DEF RootPath
  <2>9. Recorded(p, r)
    BY <1>1, <2>1, <2>2 DEF Recorded
  <2>10. Chosen(c, r)
    BY <1>2, <1>4, <2>1, <2>4, <2>5, <2>6, <2>7, <2>8 DEF Chosen
  <2> QED
    BY <2>9, <2>10 DEF r, q
<1> QED
  BY <1>5, <1>6

\* stpm.c, port.c: a restart takes nothing for information but what is there.
LEMMA StartedChosen ==
  ASSUME NEW q, IsPort(q), NEW b, IsBridge(b), NEW p,
         IsPortIdOf(q.portId, p), Small(q.portPriority)
  PROVE  Recorded(p, Started(q, b)) /\ Chosen(b, Started(q, b))
<1> DEFINE q0 == WithoutRole(PortInit(q, b))
           q1 == TransmitEnter(q0, b, "BEGIN")
           q2 == SttransEnter(q1, "BEGIN")
           q3 == RoletrnsEnter(q2, b, "BEGIN")
           q4 == InfoEnter(q3, b, "BEGIN")
           q5 == PcostEnter(q4, "BEGIN")
           q6 == BrdgdetEnter(q5, "BEGIN")
           q7 == P2pEnter(q6, "BEGIN")
           q8 == MigrateEnter(q7, b, "BEGIN")
           q9 == TopochEnter(q8, b, "BEGIN")
           q10 == ReceiveEnter(q9, "BEGIN")
           Ready4(r) == /\ r.portId = q.portId
                        /\ r.portPriority = q.portPriority
                        /\ Small(r.designatedPriority)
<1>1. /\ "BEGIN" \in TransmitState /\ "BEGIN" \in SttransState
      /\ "BEGIN" \in RoletrnsState /\ "BEGIN" \in InfoState
      /\ "BEGIN" \in PcostState /\ "BEGIN" \in BrdgdetState
      /\ "BEGIN" \in P2pState /\ "BEGIN" \in MigrateState
      /\ "BEGIN" \in TopochState /\ "BEGIN" \in ReceiveState
  BY DEF TransmitState, SttransState, RoletrnsState, InfoState, PcostState,
         BrdgdetState, P2pState, MigrateState, TopochState, ReceiveState
<1>2. IsPort(q0)
  BY PortInitType, WithoutRoleType
<1>3. IsPort(q1)
  BY <1>1, <1>2, TransmitType
<1>4. IsPort(q2)
  BY <1>1, <1>3, SttransType
<1>5. IsPort(q3)
  BY <1>1, <1>4, RoletrnsType
<1>6. IsPort(q4)
  BY <1>1, <1>5, InfoType
<1>7. IsPort(q5)
  BY <1>1, <1>6, PcostType
<1>8. IsPort(q6)
  BY <1>1, <1>7, BrdgdetType
<1>9. IsPort(q7)
  BY <1>1, <1>8, P2pType
<1>10. IsPort(q8)
  BY <1>1, <1>9, MigrateType
<1>11. IsPort(q9)
  BY <1>1, <1>10, TopochType
<1>12. Started(q, b) = q10
  BY DEF Started, Begin
<1>13. Ready4(q0)
  <2> DEFINE v == MakeVector(BridgeIdentifier(b), 0, BridgeIdentifier(b),
                             q.portId, q.portId)
             r == PortInit(q, b)
  <2>1. Small(v)
    <3>1. BridgeIdentifier(b) \in Nat /\ q.portId \in Nat
      BY SMT DEF IsBridge, IsPort, BridgeIdentifier, MacSpan
    <3> QED
      BY <3>1, HalfWordAssumption, SMT DEF Small, MakeVector, Vector
  <2> HIDE DEF v
  <2>2. /\ r.portId = q.portId /\ r.portPriority = q.portPriority
        /\ r.designatedPriority = v /\ DOMAIN r = PortField
    BY SMT DEF PortInit, PortReset, IsPort, PortField, v
  <2> HIDE DEF r
  <2>3. /\ q0.portId = r.portId /\ q0.portPriority = r.portPriority
        /\ q0.designatedPriority = r.designatedPriority
    BY <2>2, SMT DEF WithoutRole, PortField, r
  <2> QED
    BY <2>1, <2>2, <2>3
<1> HIDE DEF q0, q1, q2, q3, q4, q5, q6, q7, q8, q9, q10
<1>14. SameInfo(q0, q1) /\ SameInfo(q1, q2)
  BY <1>1, <1>2, <1>3, OthersSame, SttransSound DEF q1, q2, SameAll
<1>15. SameInfo(q2, q3)
  <2>1. SameInfo(q2, InitPort(q2, b, "BEGIN"))
    BY <1>4, SMT DEF IsPort, PortField, SameInfo, InitPort
  <2> QED
    BY <2>1 DEF q3, RoletrnsEnter
<1>16. Ready4(q3)
  BY <1>13, <1>14, <1>15 DEF SameInfo
<1>17. Recorded(p, q4) /\ Chosen(b, q4)
  <2> DEFINE d == InfoDisabled(q3)
             m == [type |-> "NONE", version |-> q3.msg.version,
                   role |-> "UNKN", flags |-> {},
                   vector |-> q3.msg.vector, times |-> q3.msg.times]
  <2>1. q4 = [d EXCEPT !.info = "BEGIN", !.msgPortRole = "UNKN", !.msg = m]
    BY DEF q4, InfoEnter, InfoBegin
  <2>2. /\ Ready4(d) /\ "selected" \notin d.on /\ d.infoIs = "Disabled"
        /\ DOMAIN d = PortField
    BY <1>5, <1>16, SMT DEF IsPort, PortField, InfoDisabled
  <2>3. m.type = "NONE" /\ m.role = "UNKN"
    OBVIOUS
  <2> HIDE DEF d, m
  <2>4. /\ q4.portId = d.portId /\ q4.portPriority = d.portPriority
        /\ q4.designatedPriority = d.designatedPriority
        /\ q4.on = d.on /\ q4.infoIs = d.infoIs /\ q4.info = "BEGIN"
        /\ q4.msg = m
    BY <2>1, <2>2, SMT DEF PortField
  <2> QED
    BY <2>2, <2>3, <2>4 DEF Recorded, Chosen, ConveyedRole
<1>18. Recorded(p, q5) /\ Chosen(b, q5)
  BY <1>1, <1>6, <1>17, PcostChosen DEF q5
<1>19. SameInfo(q5, q6) /\ SameInfo(q6, q7) /\ SameInfo(q7, q8)
       /\ SameInfo(q8, q9) /\ SameInfo(q9, q10)
  BY <1>1, <1>7, <1>8, <1>9, <1>10, <1>11, OthersSame, MigrateSound
     DEF q6, q7, q8, q9, q10, SameAll
<1> QED
  BY <1>12, <1>18, <1>19, ChosenSame

\* portinfo.c, STP_info_rx_bpdu: a BPDU is marked with the port it came in on.
LEMMA HeardChosen ==
  ASSUME InRange, NEW q, IsPort(q), NEW b, NEW p, Recorded(p, q),
         NEW m \in Received
  PROVE  LET r == InfoRxBpdu([q EXCEPT !.on = q.on \ {"operEdge"}], b, m) IN
         Recorded(p, r) /\ (Chosen(b, q) => Chosen(b, r))
<1> DEFINE s == [q EXCEPT !.on = q.on \ {"operEdge"}]
           Takes(msg) == [s EXCEPT !.on = s.on \cup {"rcvdBPDU"}, !.msg = msg]
           tcn == [type |-> m.type, version |-> m.version,
                   role |-> s.msg.role, flags |-> s.msg.flags,
                   vector |-> s.msg.vector, times |-> s.msg.times]
           new == [type |-> m.type, version |-> m.version,
                   role |-> m.role, flags |-> m.flags,
                   vector |-> OnArrival(m.vector, s.portId),
                   times |-> m.times]
<1>1. SameInfo(q, s) /\ DOMAIN s = PortField
  BY SMT DEF IsPort, PortField, SameInfo
<1>2. Recorded(p, s) /\ (Chosen(b, q) => Chosen(b, s))
  BY <1>1, ChosenSame
<1> HIDE DEF s
<1>3. ASSUME NEW msg, \/ ConveyedRole(msg) = "DESGN"
                      \/ s.info = "RECEIVE" /\ s.rcvdInfo
                            = "SuperiorDesignatedInfo"
                      => HeardOn(p, msg.vector)
      PROVE  Recorded(p, Takes(msg)) /\ (Chosen(b, s) => Chosen(b, Takes(msg)))
  <2> DEFINE r == Takes(msg)
  <2>1. /\ r.info = s.info /\ r.infoIs = s.infoIs /\ r.msg = msg
        /\ r.rcvdInfo = s.rcvdInfo /\ r.portId = s.portId
        /\ r.portPriority = s.portPriority
        /\ r.designatedPriority = s.designatedPriority
        /\ r.selectedRole = s.selectedRole
        /\ \A f \in {"selected", "updtInfo", "admin_non_stp"} :
             f \in s.on <=> f \in r.on
    BY <1>1, SMT DEF PortField
  <2> HIDE DEF r
  <2>2. Recorded(p, r)
    BY <1>2, <1>3, <2>1 DEF Recorded
  <2>3. Chosen(b, s) => Chosen(b, r)
    BY <2>1 DEF Chosen, RootPath
  <2> QED
    BY <2>2, <2>3 DEF r
<1>4. CASE m.type = "TCN" /\ Accepts(s, b, m)
  <2>1. tcn.type = "TCN" /\ tcn.role = s.msg.role /\ tcn.vector = s.msg.vector
    BY <1>4
  <2>2. InfoRxBpdu(s, b, m) = Takes(tcn)
    BY <1>4 DEF InfoRxBpdu
  <2> HIDE DEF tcn
  <2>3. ConveyedRole(tcn) = "DESGN" => ConveyedRole(s.msg) = "DESGN"
    BY <2>1 DEF ConveyedRole
  <2>4. \/ ConveyedRole(tcn) = "DESGN"
        \/ s.info = "RECEIVE" /\ s.rcvdInfo = "SuperiorDesignatedInfo"
        => HeardOn(p, tcn.vector)
    BY <1>2, <2>1, <2>3 DEF Recorded
  <2>5. Recorded(p, Takes(tcn)) /\ (Chosen(b, s) => Chosen(b, Takes(tcn)))
    BY <1>3, <2>4
  <2> QED
    BY <1>2, <2>2, <2>5 DEF s
<1>5. CASE m.type # "TCN" /\ Accepts(s, b, m)
  <2>1. new.vector = OnArrival(m.vector, s.portId)
    OBVIOUS
  <2>2. InfoRxBpdu(s, b, m) = Takes(new)
    BY <1>5 DEF InfoRxBpdu
  <2> HIDE DEF new
  <2>3. HeardOn(p, OnArrival(m.vector, s.portId))
    <3>1. /\ m.vector \in Vector
          /\ m.vector.root_path_cost + MaxPortId < HalfWord
      BY DEF InRange, Fits
    <3>2. s.portId \in Nat /\ IsPortIdOf(s.portId, p)
      BY <1>1, <1>2 DEF Recorded, SameInfo, IsPort
    <3>3. /\ OnArrival(m.vector, s.portId) \in Vector
          /\ OnArrival(m.vector, s.portId).bridge_port = s.portId
          /\ OnArrival(m.vector, s.portId).root_path_cost
               = m.vector.root_path_cost
      BY <3>1, <3>2, SMT DEF OnArrival, Vector
    <3> QED
      BY <3>1, <3>2, <3>3 DEF HeardOn, Fits
  <2>4. Recorded(p, Takes(new)) /\ (Chosen(b, s) => Chosen(b, Takes(new)))
    BY <1>3, <2>1, <2>3
  <2> QED
    BY <1>2, <2>2, <2>4 DEF s
<1>6. CASE ~Accepts(s, b, m)
  BY <1>2, <1>6 DEF InfoRxBpdu, s
<1> QED
  BY <1>4, <1>5, <1>6

-----------------------------------------------------------------------------
(* Every step keeps the inductive invariant.                               *)

\* The root of the bridge.
RootChosen(b) ==
  /\ Small(b.rootPriority)
  /\ b.stp_enabled => Compare(b.rootPriority, BridgePriority(b)) <= 0

\* _stp_stpm_init_data: a bridge that starts again is its own root.
LEMMA InitDataChosen ==
  ASSUME NEW b, IsBridge(b)
  PROVE  RootChosen(InitData(b))
<1>1. Small(BridgePriority(b)) /\ Compare(BridgePriority(b), BridgePriority(b)) <= 0
  BY BridgePrioritySmall
<1>2. /\ InitData(b).rootPriority = BridgePriority(b)
      /\ InitData(b).prio = b.prio /\ InitData(b).addr = b.addr
  BY SMT DEF InitData, IsBridge, BridgeField
<1> QED
  BY <1>1, <1>2 DEF RootChosen, BridgePriority, BridgeIdentifier

\* rolesel.c, stpm.c: the root is never worse than the bridge itself.
LEMMA SteppedRoot ==
  ASSUME InRange, TypeOK, PortsChosen, [Next]_vars
  PROVE  RootChosen(bridge')
<1>1. CASE RootStays
  BY <1>1 DEF RootStays, SameRoot, RootChosen, PortsChosen
<1>2. CASE bridge' = [bridge EXCEPT !.rolesel = "INIT_BRIDGE"]
  <2>1. /\ bridge'.rootPriority = bridge.rootPriority
        /\ bridge'.prio = bridge.prio /\ bridge'.addr = bridge.addr
        /\ bridge'.stp_enabled = bridge.stp_enabled
    BY <1>2, SMT DEF TypeOK, IsBridge, BridgeField
  <2> QED
    BY <2>1 DEF RootChosen, PortsChosen, BridgePriority, BridgeIdentifier
<1>3. CASE bridge' = WithRoot(bridge, port, BestSource(bridge, port))
  BY <1>3, ElectedRoot DEF PortsChosen, RootChosen
<1>4. ASSUME NEW b, BridgeOK(b), bridge' = InitData(b)
      PROVE  RootChosen(bridge')
  BY <1>4, InitDataChosen DEF BridgeOK
<1> QED
  BY <1>1, <1>2, <1>3, <1>4, BridgeSteps

\* port.c: a port that is created holds nothing.
LEMMA NewPortRecorded ==
  ASSUME InRange, NEW p \in Port
  PROVE  IsPortIdOf(NewPort(p).portId, p) /\ Small(NewPort(p).portPriority)
<1>1. InitialPortCfg.prio \in Nat
  BY InitialAssumption DEF IsPortCfg, PortCfgField
<1>2. InitialPortCfg.prio \in 0 .. MaxPortPrio
  BY <1>1, SMT DEF InRange, MaxPortPrio
<1>3. /\ NewPort(p).portId = MakePortId(InitialPortCfg.prio, p)
      /\ NewPort(p).portPriority = ZeroVector
  BY DEF NewPort
<1>4. Small(ZeroVector)
  BY HalfWordAssumption, SMT DEF ZeroVector, MakeVector, Vector, Small
<1> QED
  BY <1>2, <1>3, <1>4 DEF IsPortIdOf

\* Whatever the step was, the port agrees with the selection after it.
LEMMA SteppedChosen ==
  ASSUME InRange, TypeOK, EveryPortSound, PortsChosen, NEW p \in Port,
         Stepped(p), p \in Listed(bridge) \/ Begun(p)
  PROVE  Recorded(p, port'[p]) /\ Chosen(bridge', port'[p])
<1> DEFINE q == port[p]
           r == port'[p]
<1>1. IsPort(q) /\ IsBridge(bridge)
  BY DEF TypeOK
<1>2. CASE Begun(p)
  <2>1. PICK b : BridgeOK(b) /\ bridge' = InitData(b)
    BY <1>2 DEF Begun
  <2>2. IsBridge(bridge')
    BY <2>1, InitDataType DEF BridgeOK
  <2>3. PICK s \in {q, NewPort(p)} :
          r = Started(s, bridge') /\ (p \in Listed(bridge) \/ s = NewPort(p))
    BY <1>2 DEF Begun
  <2>4. IsPort(s)
    BY <1>1, NewPortType
  <2>5. IsPortIdOf(s.portId, p) /\ Small(s.portPriority)
    BY <2>3, NewPortRecorded DEF PortsChosen, Recorded
  <2> QED
    BY <2>2, <2>3, <2>4, <2>5, StartedChosen
<1> SUFFICES ASSUME ~Begun(p), p \in Listed(bridge), Recorded(p, q),
                    Chosen(bridge, q)
             PROVE  Recorded(p, r) /\ Chosen(bridge', r)
  BY <1>2 DEF PortsChosen
<1>3. CASE Transited(p)
  <2> HIDE DEF q, r
  <2>1. bridge' = bridge
    BY <1>3 DEF Transited, Ran
  <2>2. ASSUME \/ \E to \in TransmitState : r = TransmitEnter(q, bridge, to)
               \/ \E to \in BrdgdetState : r = BrdgdetEnter(q, to)
               \/ \E to \in P2pState : r = P2pEnter(q, to)
               \/ \E to \in TopochState : r = TopochEnter(q, bridge, to)
               \/ \E to \in ReceiveState : r = ReceiveEnter(q, to)
               \/ \E to \in SttransState : r = SttransEnter(q, to)
               \/ \E to \in MigrateState : r = MigrateEnter(q, bridge, to)
        PROVE  SameInfo(q, r)
    BY <1>1, <2>2, OthersSame, SttransSound, MigrateSound DEF SameAll
  <2>3. ASSUME NEW to \in PcostState, r = PcostEnter(q, to)
        PROVE  Recorded(p, r) /\ Chosen(bridge, r)
    BY <1>1, <2>3, PcostChosen
  <2>4. ASSUME NEW to \in InfoState, InfoHop(q, to),
               r = InfoEnter(q, bridge, to)
        PROVE  Recorded(p, r) /\ Chosen(bridge, r)
    BY <1>1, <2>4, InfoChosen
  <2>5. ASSUME NEW to \in RoletrnsState,
               RoletrnsHop(q, bridge, Others(p), to),
               LET s == RoletrnsEnter(q, bridge, to) IN
               r = [s EXCEPT !.on = s.on \cup RoletrnsBroadcast(to)]
        PROVE  Recorded(p, r) /\ Chosen(bridge, r)
    <3> DEFINE s == RoletrnsEnter(q, bridge, to)
    <3>1. SameInfo(q, s) /\ IsPort(s)
      BY <1>1, <2>5, RoletrnsSound, RoletrnsType
    <3>2. r = [s EXCEPT !.on = s.on \cup RoletrnsBroadcast(to)]
      BY <2>5
    <3> HIDE DEF s
    <3>3. SameInfo(s, r)
      BY <3>1, <3>2, SMT DEF IsPort, PortField, SameInfo, RoletrnsBroadcast
    <3> QED
      BY <3>1, <3>3, ChosenSame
  <2>6. SameInfo(q, r) => Recorded(p, r) /\ Chosen(bridge, r)
    BY ChosenSame
  <2>7. Recorded(p, r) /\ Chosen(bridge, r)
    BY <1>3, <2>2, <2>3, <2>4, <2>5, <2>6 DEF Transited, q, r
  <2> QED
    BY <2>1, <2>7
<1>4. CASE Told(p)
  <2>1. PICK flags \in SUBSET {"sync", "reRoot", "tcProp"} :
          r = [q EXCEPT !.on = q.on \cup flags]
    BY <1>4 DEF Told
  <2> HIDE DEF q, r
  <2>2. SameInfo(q, r)
    BY <1>1, <2>1, SMT DEF IsPort, PortField, SameInfo
  <2>3. bridge' = bridge
    BY <1>4 DEF Told
  <2> QED
    BY <2>2, <2>3, ChosenSame
<1>5. CASE Elected(p)
  <2>1. ASSUME bridge.rolesel = "BEGIN", r = WithoutRole(q)
        PROVE  Recorded(p, r) /\ Chosen(bridge', r)
    <3>1. "selected" \notin q.on
      BY <2>1 DEF EveryPortSound, PortSound, Informed
    <3> HIDE DEF q, r
    <3>2. /\ r.info = q.info /\ r.infoIs = q.infoIs /\ r.msg = q.msg
          /\ r.rcvdInfo = q.rcvdInfo /\ r.portId = q.portId
          /\ r.portPriority = q.portPriority /\ r.on = q.on
          /\ r.designatedPriority = q.designatedPriority
      BY <1>1, <2>1, SMT DEF IsPort, PortField, WithoutRole
    <3> QED
      BY <3>1, <3>2 DEF Recorded, Chosen
  <2>2. \A x \in Listed(bridge) : Recorded(x, port[x])
    BY DEF PortsChosen
  <2> QED
    BY <1>5, <2>1, <2>2, ElectedChosen DEF Elected
<1>6. CASE Ticked(p)
  <2>1. SameInfo(q, [q EXCEPT !.timer = CountDown(q.timer)])
    BY <1>1, SMT DEF IsPort, PortField, SameInfo
  <2> QED
    BY <1>6, <2>1, ChosenSame DEF Ticked
<1>7. CASE Heard(p)
  BY <1>1, <1>7, HeardChosen DEF Heard
<1>8. CASE Asked(p)
  <2>1. Recorded(p, r)
    BY <1>8 DEF Asked, SameState, Recorded
  <2>2. Chosen(bridge', r)
    BY <1>8 DEF Asked, Chosen
  <2> QED
    BY <2>1, <2>2
<1>9. CASE Noted(p)
  <2>1. SameInfo(q, r)
    BY <1>9 DEF Noted, SameState, SameInfo, Flag
  <2> QED
    BY <1>9, <2>1, ChosenSame DEF Noted
<1>10. CASE PassedOver(p)
  BY <1>10 DEF PassedOver, SameRoot, Chosen
<1> QED
  BY <1>3, <1>4, <1>5, <1>6, <1>7, <1>8, <1>9, <1>10 DEF Stepped

(***************************************************************************)
(* What a port holds was heard on it or comes from a selection, and the    *)
(* roles agree with it for as long as the port is selected: the invariant  *)
(* behind the two theorems below (rolesel.c, portinfo.c).                  *)
(***************************************************************************)
THEOREM AlwaysChosen == ASSUME InRange PROVE Spec => []PortsChosen
<1>1. Init => PortsChosen
  <2> SUFFICES ASSUME Init
               PROVE  PortsChosen
    OBVIOUS
  <2>1. TypeOK
    BY InitType
  <2>2. IsBridge(bridge) /\ Listed(bridge) \subseteq Port
    BY <2>1, ListedPorts DEF TypeOK
  <2>3. RootChosen(bridge)
    <3>1. PICK addr \in 0 .. MacSpan - 1 : bridge = CreatedBridge(addr)
      BY DEF Init
    <3>2. /\ bridge.rootPriority = BridgePriority(bridge)
      BY <3>1, SMT DEF CreatedBridge, InitData, BridgePriority,
                       BridgeIdentifier
    <3> QED
      BY <2>2, <3>2, BridgePrioritySmall DEF RootChosen
  <2>4. ASSUME NEW p \in Listed(bridge)
        PROVE  Recorded(p, port[p]) /\ Chosen(bridge, port[p])
    <3>1. p \in Port
      BY <2>2
    <3>2. port[p] = Started(NewPort(p), bridge)
      BY <3>1 DEF Init, AllStarted
    <3> QED
      BY <2>2, <3>1, <3>2, NewPortType, NewPortRecorded, StartedChosen
  <2> QED
    BY <2>3, <2>4 DEF PortsChosen, RootChosen
<1>2. TypeOK /\ EveryPortInService /\ EveryPortSound /\ PortsChosen
        /\ [Next]_vars /\ TypeOK'
      => PortsChosen'
  <2> SUFFICES ASSUME TypeOK, EveryPortInService, EveryPortSound,
                      PortsChosen, [Next]_vars, TypeOK'
               PROVE  PortsChosen'
    OBVIOUS
  <2>1. RootChosen(bridge')
    BY SteppedRoot
  <2>2. ASSUME NEW p \in Listed(bridge)'
        PROVE  Recorded(p, port'[p]) /\ Chosen(bridge', port'[p])
    <3>1. p \in Port
      BY ListedPorts DEF TypeOK
    <3>2. Stepped(p)
      BY PortSteps
    <3>3. p \in Listed(bridge) \/ Begun(p)
      BY <3>2, SteppedListed
    <3> QED
      BY <3>1, <3>2, <3>3, SteppedChosen
  <2> QED
    BY <2>1, <2>2 DEF PortsChosen, RootChosen
<1> QED
  BY <1>1, <1>2, TypeCorrect, AlwaysInService, AlwaysSound, PTL DEF Spec

(***************************************************************************)
(* The role of a port agrees with what is known of its segment whenever    *)
(* the entry points have returned (items h to l in rolesel.c).             *)
(***************************************************************************)
THEOREM AlwaysSegmentRule == ASSUME InRange PROVE Spec => []SegmentRule
<1>1. TypeOK /\ EveryPortSound /\ PortsChosen /\ RolesSettled
        /\ EveryPortQuiet /\ EveryPortInService
      => SegmentRule
  <2> SUFFICES ASSUME TypeOK, EveryPortSound, PortsChosen, RolesSettled,
                      EveryPortQuiet, EveryPortInService, AtRest,
                      NEW p \in Listed(bridge), Stp(p),
                      NEW q, q = port[p]
               PROVE  /\ q.role = "DesignatedPort" =>
                           /\ q.infoIs = "Mine"
                           /\ q.portPriority = q.designatedPriority
                      /\ q.role = "RootPort" =>
                           /\ q.infoIs = "Received"
                           /\ RootPath(q) = bridge.rootPriority
                      /\ q.role \in {"AlternatePort", "BackupPort"} =>
                           /\ q.infoIs = "Received"
                           /\ Compare(q.portPriority, q.designatedPriority)
                                <= 0
    BY DEF SegmentRule
  <2>1. /\ "selected" \in q.on /\ "updtInfo" \notin q.on
        /\ q.role = q.selectedRole \/ q.selectedRole = "NonStpPort"
        /\ "admin_non_stp" \notin q.on
    BY DEF RolesSettled, Settled, Stp, On
  <2>2. Informed(bridge, q) /\ Chosen(bridge, q)
    BY DEF EveryPortSound, PortSound, PortsChosen
  <2>3. q.infoIs \in InfoIs
    BY ListedPorts DEF TypeOK, IsPort
  <2>4. q.infoIs # "Disabled"
    <3>1. "portEnabled" \in q.on /\ PortQuiet(q) /\ IsPort(q)
      BY ListedPorts DEF EveryPortQuiet, EveryPortInService, InService,
                         TypeOK
    <3>2. q.info = "CURRENT"
      BY <2>1, <2>2, <3>1, InfoCurrent DEF PortQuiet
    <3> QED
      BY <2>2, <3>2 DEF Informed
  <2>5. CASE q.infoIs = "Mine"
    BY <2>1, <2>2, <2>5 DEF Informed, Chosen
  <2>6. CASE q.infoIs = "Received"
    BY <2>1, <2>2, <2>6 DEF Informed, Chosen
  <2>7. q.infoIs # "Aged"
    BY <2>1, <2>2 DEF Informed
  <2> QED
    BY <2>3, <2>4, <2>5, <2>6, <2>7 DEF InfoIs
<1> QED
  BY <1>1, TypeCorrect, AlwaysSound, AlwaysChosen, RolesAlwaysSettled,
     AlwaysQuiet, AlwaysInService, PTL

(***************************************************************************)
(* The root priority vector is no worse than the bridge's own and than     *)
(* that of any port whose information is still valid, whenever the entry   *)
(* points have returned (rolesel.c, updtRootPriority).                     *)
(***************************************************************************)
THEOREM RootAlwaysBest == ASSUME InRange PROVE Spec => []RootIsBest
<1>1. PortsChosen /\ RolesSettled => RootIsBest
  BY DEF PortsChosen, RolesSettled, Settled, RootIsBest, Offers, Chosen
<1> QED
  BY <1>1, AlwaysChosen, RolesAlwaysSettled, PTL

-----------------------------------------------------------------------------
(***************************************************************************)
(* What depends on whose turn it is: STP_change_state (statmch.c) stays    *)
(* with a machine that has transitions to make, and STP_stpm_update        *)
(* (stpm.c) looks at the others in the order of the list.                  *)
(***************************************************************************)

-----------------------------------------------------------------------------
(* The scheduler.                                                          *)

\* statmch.c: while the information machine of a port has a transition to
\* make, no other machine of the bridge moves and no entry point returns.
LEMMA StaysWithInfo ==
  ASSUME [Next]_vars, call # "none", NEW p \in Listed(bridge),
         running = Machine("info", p), Ready(running)
  PROVE  InfoStep(p) \/ UNCHANGED vars
<1>1. ASSUME NEW kind, NEW x, NEW q,
             PortMoved(kind, x, q), running' = Machine("info", p)
      PROVE  kind = "info" /\ x = p
  BY <1>1 DEF PortMoved, Machine
<1>2. ASSUME NEW kind, NEW x, NEW q, NEW flags,
             PortMovedAll(kind, x, q, flags), running' = Machine("info", p)
      PROVE  kind = "info"
  BY <1>2 DEF PortMovedAll, Machine
<1>3. ASSUME NEW x, running' = Machine("info", p),
             \/ TransmitStep(x) \/ SttransStep(x) \/ RoletrnsStep(x)
             \/ InfoStep(x) \/ PcostStep(x) \/ BrdgdetStep(x) \/ P2pStep(x)
             \/ MigrateStep(x) \/ TopochStep(x) \/ ReceiveStep(x)
      PROVE  InfoStep(x) /\ x = p
  BY <1>1, <1>2, <1>3
     DEF TransmitStep, SttransStep, RoletrnsStep, InfoStep, PcostStep,
         BrdgdetStep, P2pStep, MigrateStep, TopochStep, ReceiveStep
<1>4. RoleselStep \/ UpdateReturns => running' # Machine("info", p)
  BY DEF RoleselStep, UpdateReturns, RoleselMachine, NoMachine, Machine
<1>5. running \in AllMachines
  BY SMT DEF AllMachines, MachineOrder
<1> QED
  BY <1>3, <1>4, <1>5, OnlyRunning DEF MachineStep

-----------------------------------------------------------------------------
(* Information that has reached its Max Age (portinfo.c, rolesel.c).       *)

\* rolesel.c: information with these times may be relayed.
Young(t) == OneHopOlder(t).MessageAge <= t.MaxAge

Stale(q) == q.infoIs = "Received" /\ ~Young(q.portTimes)

\* The states the information machine only passes through.
PassingStates == InfoState \ {"BEGIN", "DISABLED", "AGED", "CURRENT"}

\* It is resting, and what the port holds may be used.
Calm(q) == q.info \notin PassingStates /\ ~Stale(q)

\* What the machine leaves in the port while it passes.
Passing(q) ==
  /\ q.info \in PassingStates => "updtInfo" \notin q.on
  /\ q.info = "SUPERIOR_DESIGNATED" => "rcvdMsg" \notin q.on
  /\ Stale(q) =>
       /\ q.info \in {"SUPERIOR_DESIGNATED", "CURRENT"}
       /\ q.timer["rcvdInfoWhile"] = 0
       /\ "updtInfo" \notin q.on /\ "rcvdMsg" \notin q.on

InfoTurn(p) == InTurn("info", p)

\* While the machine passes, or the port holds what is too old, it is the
\* machine's turn.
InfoInTurn ==
  \A p \in Listed(bridge) :
    Passing(port[p]) /\ (Calm(port[p]) \/ InfoTurn(p))

\* portinfo.c, updtRcvdInfoWhile: what may not be relayed is not held.
LEMMA LifetimeYoung ==
  ASSUME NEW t \in TimeValues, ~Young(t)
  PROVE  Lifetime(t) = 0
<1> DEFINE s == t.MaxAge \div 16
           d == (8 + t.MaxAge) \div 16
           age == (IF s < 1 THEN 1 ELSE s) + t.MessageAge
<1>1. t.MaxAge \in Nat /\ t.MessageAge \in Nat /\ t.HelloTime \in Nat
  BY SMT DEF TimeValues
<1>2. s \in Nat /\ d \in Nat /\ d <= s + 1
  BY <1>1, SMT
<1>3. OneHopOlder(t).MessageAge = t.MessageAge + (IF d = 0 THEN 1 ELSE d)
  BY SMT DEF OneHopOlder, TimeValues
<1> HIDE DEF s, d
<1>4. t.MessageAge + (IF d = 0 THEN 1 ELSE d) > t.MaxAge
  BY <1>1, <1>2, <1>3, SMT DEF Young
<1>5. age >= t.MaxAge /\ age \in Nat
  BY <1>1, <1>2, <1>4, SMT
<1>6. Lifetime(t) = IF age > t.MaxAge THEN 0
                    ELSE IF t.MaxAge - age > 3 * t.HelloTime
                         THEN 3 * t.HelloTime ELSE t.MaxAge - age
  BY DEF Lifetime, s
<1> HIDE DEF age
<1> QED
  BY <1>1, <1>5, <1>6, SMT

\* Such a machine has a transition to make.
LEMMA PassingReady ==
  ASSUME NEW p, IsPort(port[p]), InService(port[p]), Passing(port[p]),
         ~Calm(port[p])
  PROVE  Ready(Machine("info", p))
<1> DEFINE q == port[p]
<1>1. Ready(Machine("info", p)) <=> \E to \in InfoState : InfoHop(q, to)
  BY DEF Ready, Machine
<1>2. "portEnabled" \in q.on /\ q.rcvdInfo \in RcvdInfo
  BY DEF InService, IsPort
<1> HIDE DEF q
<1>3. CASE q.info = "RECEIVE"
  <2> DEFINE to == CASE q.rcvdInfo = "SuperiorDesignatedInfo" ->
                          "SUPERIOR_DESIGNATED"
                     [] q.rcvdInfo = "RepeatedDesignatedInfo" ->
                          "REPEATED_DESIGNATED"
                     [] q.rcvdInfo = "InferiorDesignatedInfo" ->
                          "INFERIOR_DESIGNATED"
                     [] q.rcvdInfo = "InferiorRootAlternateInfo" ->
                          "NOT_DESIGNATED"
                     [] q.rcvdInfo = "OtherInfo" -> "OTHER"
  <2>1. to \in InfoState
    BY <1>2, SMT DEF RcvdInfo, InfoState
  <2>2. InfoHop(q, to)
    BY <1>2, <1>3 DEF InfoHop
  <2> HIDE DEF to
  <2> QED
    BY <1>1, <2>1, <2>2
<1>4. CASE q.info \in PassingStates \ {"RECEIVE"}
  <2>1. InfoHop(q, "CURRENT") /\ "CURRENT" \in InfoState
    BY <1>2, <1>4 DEF InfoHop, PassingStates, InfoState
  <2> QED
    BY <1>1, <2>1
<1>5. CASE q.info \notin PassingStates
  <2>1. /\ q.info = "CURRENT" /\ q.infoIs = "Received"
        /\ q.timer["rcvdInfoWhile"] = 0
        /\ "updtInfo" \notin q.on /\ "rcvdMsg" \notin q.on
    BY <1>5 DEF Calm, Passing, Stale, q, PassingStates, InfoState
  <2>2. InfoHop(q, "AGED") /\ "AGED" \in InfoState
    BY <1>2, <2>1 DEF InfoHop, InfoState
  <2> QED
    BY <1>1, <2>2
<1> QED
  BY <1>3, <1>4, <1>5

\* Then no other step is possible.
LEMMA OnlyInfo ==
  ASSUME TypeOK, EveryPortInService, InfoInTurn, [Next]_vars,
         NEW p \in Listed(bridge), ~Calm(port[p])
  PROVE  InfoStep(p) \/ UNCHANGED vars
<1>1. IsPort(port[p]) /\ InService(port[p]) /\ Passing(port[p]) /\ InfoTurn(p)
  BY ListedPorts DEF TypeOK, EveryPortInService, InfoInTurn
<1>2. Ready(Machine("info", p))
  BY <1>1, PassingReady
<1> QED
  BY <1>1, <1>2, StaysWithInfo DEF InfoTurn, InTurn

\* portinfo.c: every transition of the machine leaves the port so.
LEMMA InfoPassing ==
  ASSUME NEW q, IsPort(q), InService(q), NEW b, Passing(q),
         NEW to \in InfoState, InfoHop(q, to)
  PROVE  Passing(InfoEnter(q, b, to))
<1> DEFINE Keeps(r) == /\ r.infoIs = q.infoIs /\ r.portTimes = q.portTimes
                       /\ r.info = to
<1>1. \A f \in {"updtInfo", "rcvdMsg"} :
        f \notin Proposal(q) /\ f \notin TcFlags(q)
  BY DEF Proposal, TcFlags, Given
<1>2. "portEnabled" \in q.on
  BY DEF InService
<1>3. CASE to \in {"BEGIN", "DISABLED", "AGED"}
  <2> DEFINE Gone(r) == r.info \notin PassingStates /\ r.infoIs # "Received"
  <2>1. Gone(InfoBegin(q)) /\ Gone(InfoDisabled(q)) /\ Gone(InfoAged(q))
    BY SMT DEF IsPort, PortField, InfoBegin, InfoDisabled, InfoAged,
               PassingStates
  <2>2. ASSUME NEW r, Gone(r)
        PROVE  Passing(r)
    BY <2>2 DEF Passing, Stale, PassingStates, InfoState
  <2> QED
    BY <1>3, <2>1, <2>2 DEF InfoEnter
<1>4. CASE to = "UPDATE"
  <2> DEFINE r == InfoUpdate(q)
  <2>1. r.info = "UPDATE" /\ r.infoIs = "Mine" /\ "updtInfo" \notin r.on
    BY SMT DEF IsPort, PortField, InfoUpdate, Given
  <2> HIDE DEF r
  <2>2. Passing(r)
    BY <2>1 DEF Passing, Stale
  <2> QED
    BY <1>4, <2>2 DEF InfoEnter, r
<1>5. CASE to = "CURRENT"
  <2> DEFINE r == [q EXCEPT !.info = "CURRENT"]
  <2>1. Keeps(r) /\ r.on = q.on /\ r.timer = q.timer
    BY <1>5, SMT DEF IsPort, PortField
  <2> HIDE DEF r
  <2>2. Passing(r)
    BY <1>5, <2>1 DEF Passing, Stale, PassingStates
  <2> QED
    BY <1>5, <2>2 DEF InfoEnter, r
<1>6. CASE to = "RECEIVE"
  <2> DEFINE r == InfoReceive(q)
  <2>1. Keeps(r) /\ r.on = q.on /\ r.timer = q.timer
    BY <1>6, SMT DEF IsPort, PortField, InfoReceive
  <2>2. q.info = "CURRENT" /\ "updtInfo" \notin q.on /\ "rcvdMsg" \in q.on
    <3>1. q.rcvdInfo \in RcvdInfo
      BY DEF IsPort
    <3>2. (CASE q.rcvdInfo = "SuperiorDesignatedInfo" -> "SUPERIOR_DESIGNATED"
             [] q.rcvdInfo = "RepeatedDesignatedInfo" -> "REPEATED_DESIGNATED"
             [] q.rcvdInfo = "InferiorDesignatedInfo" -> "INFERIOR_DESIGNATED"
             [] q.rcvdInfo = "InferiorRootAlternateInfo" -> "NOT_DESIGNATED"
             [] q.rcvdInfo = "OtherInfo" -> "OTHER") # "RECEIVE"
      BY <3>1, SMT DEF RcvdInfo
    <3> QED
      BY <1>6, <3>2 DEF InfoHop
  <2> HIDE DEF r
  <2>3. Passing(r)
    BY <1>6, <2>1, <2>2 DEF Passing, Stale
  <2> QED
    BY <1>6, <2>3 DEF InfoEnter, r
<1>7. ASSUME to \in {"SUPERIOR_DESIGNATED", "REPEATED_DESIGNATED",
                    "INFERIOR_DESIGNATED", "NOT_DESIGNATED", "OTHER"}
      PROVE  q.info = "RECEIVE"
  BY <1>7 DEF InfoHop
<1>8. CASE to = "SUPERIOR_DESIGNATED"
  <2> DEFINE r == InfoSuperior(q)
  <2>1. /\ r.info = to /\ r.portTimes = q.msg.times
        /\ r.timer["rcvdInfoWhile"] = Lifetime(q.msg.times)
        /\ "rcvdMsg" \notin r.on
        /\ "updtInfo" \in r.on => "updtInfo" \in q.on
    BY <1>1, <1>8, SMT DEF IsPort, PortField, InfoSuperior, Given, Timer
  <2>2. q.msg.times \in TimeValues
    BY SMT DEF IsPort, Message
  <2>3. "updtInfo" \notin q.on
    BY <1>7, <1>8 DEF Passing, PassingStates, InfoState
  <2> HIDE DEF r
  <2>4. Passing(r)
    BY <1>8, <2>1, <2>2, <2>3, LifetimeYoung DEF Passing, Stale
  <2> QED
    BY <1>8, <2>4 DEF InfoEnter, r
<1>9. CASE to \in {"REPEATED_DESIGNATED", "INFERIOR_DESIGNATED",
                   "NOT_DESIGNATED", "OTHER"}
  <2> DEFINE r == InfoEnter(q, b, to)
             Same(s) == /\ Keeps(s)
                        /\ "updtInfo" \in s.on => "updtInfo" \in q.on
  <2>1. /\ to = "REPEATED_DESIGNATED" => Same(InfoRepeated(q))
        /\ to = "OTHER" => Same([q EXCEPT !.info = "OTHER",
                                          !.on = q.on \ {"rcvdMsg"}])
    BY <1>1, SMT DEF IsPort, PortField, InfoRepeated
  <2>2. /\ to = "INFERIOR_DESIGNATED" => Same(InfoInferior(q))
        /\ to = "NOT_DESIGNATED" => Same(InfoNotDesignated(q, b))
    BY <1>1, SMT DEF IsPort, PortField, Given, InfoInferior,
                     InfoNotDesignated
  <2>3. Same(r)
    BY <1>9, <2>1, <2>2 DEF InfoEnter
  <2>4. q.info = "RECEIVE"
    BY <1>7, <1>9
  <2> HIDE DEF r
  <2>5. Passing(r)
    BY <1>9, <2>3, <2>4 DEF Passing, Stale, PassingStates, InfoState
  <2> QED
    BY <2>5 DEF r
<1> QED
  BY <1>3, <1>4, <1>5, <1>6, <1>8, <1>9 DEF InfoState

-----------------------------------------------------------------------------
(* A step of another machine, or of the environment, on such a port.       *)

\* The information machine is where it was, with what it held.
SamePassing(q, r) == /\ q.info = r.info /\ q.infoIs = r.infoIs
                     /\ q.portTimes = r.portTimes

\* stpm.c, _stp_stpm_init_machine: a port that starts holds nothing.
LEMMA StartedInfo ==
  ASSUME NEW q, IsPort(q), NEW b, IsBridge(b)
  PROVE  Started(q, b).info = "BEGIN" /\ Started(q, b).infoIs = "Disabled"
BY StartedHandled

\* The machine is left calm unless it moves itself.
LEMMA SteppedCalm ==
  ASSUME TypeOK, NEW p \in Port, Stepped(p),
         p \in Listed(bridge) => Calm(port[p]),
         p \in Listed(bridge) \/ Begun(p)
  PROVE  \/ Calm(port'[p])
         \/ \E to \in InfoState :
              /\ Ran("info", p) /\ InfoHop(port[p], to)
              /\ port'[p] = InfoEnter(port[p], bridge, to)
<1> DEFINE q == port[p]
           r == port'[p]
<1>1. IsPort(q) /\ IsBridge(bridge)
  BY DEF TypeOK
<1>2. CASE Begun(p)
  <2>1. PICK s \in {q, NewPort(p)} : r = Started(s, bridge')
    BY <1>2 DEF Begun
  <2>2. IsPort(s) /\ IsBridge(bridge')
    BY <1>1, <1>2, NewPortType, InitDataType DEF Begun, BridgeOK
  <2>3. r.info = "BEGIN" /\ r.infoIs = "Disabled"
    BY <2>1, <2>2, StartedInfo
  <2> QED
    BY <2>3 DEF Calm, Stale, PassingStates
<1> SUFFICES ASSUME ~Begun(p), Calm(q)
             PROVE  \/ Calm(r)
                    \/ \E to \in InfoState :
                         /\ Ran("info", p) /\ InfoHop(q, to)
                         /\ r = InfoEnter(q, bridge, to)
  BY <1>2
<1>3. SamePassing(q, r) => Calm(r)
  BY DEF SamePassing, Calm, Stale
<1>4. CASE Transited(p)
  <2> HIDE DEF q, r
  <2>1. ASSUME \/ \E to \in TransmitState : r = TransmitEnter(q, bridge, to)
               \/ \E to \in BrdgdetState : r = BrdgdetEnter(q, to)
               \/ \E to \in P2pState : r = P2pEnter(q, to)
               \/ \E to \in TopochState : r = TopochEnter(q, bridge, to)
               \/ \E to \in ReceiveState : r = ReceiveEnter(q, to)
               \/ \E to \in SttransState : r = SttransEnter(q, to)
               \/ \E to \in MigrateState : r = MigrateEnter(q, bridge, to)
        PROVE  SamePassing(q, r)
    BY <1>1, <2>1, OthersSame, SttransSound, MigrateSound
       DEF SameAll, SameInfo, SamePassing
  <2>2. ASSUME NEW to \in PcostState, r = PcostEnter(q, to)
        PROVE  SamePassing(q, r)
    BY <1>1, <2>2, SMT DEF IsPort, PortField, PcostEnter, PcostState,
                           SamePassing
  <2>3. ASSUME NEW to \in RoletrnsState,
               RoletrnsHop(q, bridge, Others(p), to),
               LET s == RoletrnsEnter(q, bridge, to) IN
               r = [s EXCEPT !.on = s.on \cup RoletrnsBroadcast(to)]
        PROVE  SamePassing(q, r)
    <3> DEFINE s == RoletrnsEnter(q, bridge, to)
    <3>1. SameInfo(q, s) /\ IsPort(s)
      BY <1>1, <2>3, RoletrnsSound, RoletrnsType
    <3>2. r = [s EXCEPT !.on = s.on \cup RoletrnsBroadcast(to)]
      BY <2>3
    <3> HIDE DEF s
    <3>3. SamePassing(s, r)
      BY <3>1, <3>2, SMT DEF IsPort, PortField, SamePassing
    <3> QED
      BY <3>1, <3>3 DEF SameInfo, SamePassing
  <2> QED
    BY <1>3, <1>4, <2>1, <2>2, <2>3 DEF Transited, q, r
<1>5. CASE Told(p) \/ Ticked(p)
  <2>1. /\ \A on : SamePassing(q, [q EXCEPT !.on = on])
        /\ \A timer : SamePassing(q, [q EXCEPT !.timer = timer])
    BY <1>1, SMT DEF IsPort, PortField, SamePassing
  <2> QED
    BY <1>3, <1>5, <2>1 DEF Told, Ticked
<1>6. CASE Elected(p)
  <2>1. \A c : SamePassing(q, WithRole(c, q))
    BY <1>1, SMT DEF IsPort, PortField, WithRole, WithoutProtocol, SamePassing
  <2>2. SamePassing(q, WithoutRole(q))
    BY <1>1, SMT DEF IsPort, PortField, WithoutRole, SamePassing
  <2> QED
    BY <1>3, <1>6, <2>1, <2>2 DEF Elected
<1>7. CASE Heard(p)
  <2> DEFINE s == [q EXCEPT !.on = q.on \ {"operEdge"}]
  <2>1. SamePassing(q, s) /\ DOMAIN s = PortField
    BY <1>1, SMT DEF IsPort, PortField, SamePassing
  <2> HIDE DEF s
  <2>2. \A m : SamePassing(s, InfoRxBpdu(s, bridge, m))
    BY <2>1, SMT DEF PortField, InfoRxBpdu, SamePassing
  <2>3. \E m \in Received : r = InfoRxBpdu(s, bridge, m)
    BY <1>7 DEF Heard, s
  <2> QED
    BY <1>3, <2>1, <2>2, <2>3 DEF SamePassing
<1>8. CASE Asked(p) \/ Noted(p) \/ PassedOver(p)
  BY <1>3, <1>8 DEF Asked, Noted, SameState, PassedOver, SamePassing
<1> QED
  BY <1>4, <1>5, <1>6, <1>7, <1>8 DEF Stepped

-----------------------------------------------------------------------------
(* The information machine has its turn.                                   *)

(***************************************************************************)
(* Whenever the information machine of a port is between two of its        *)
(* resting states, or the port holds information that may no longer be     *)
(* relayed, STP_change_state is still with that machine: no election can   *)
(* see what it has not finished with (portinfo.c, statmch.c).              *)
(***************************************************************************)
THEOREM AlwaysInTurn == Spec => []InfoInTurn
<1>1. Init => InfoInTurn
  <2> SUFFICES ASSUME Init, NEW p \in Listed(bridge)
               PROVE  Passing(port[p]) /\ Calm(port[p])
    BY DEF InfoInTurn
  <2>1. IsBridge(bridge) /\ p \in Port
    BY InitType, ListedPorts DEF TypeOK
  <2>2. port[p] = Started(NewPort(p), bridge)
    BY <2>1 DEF Init, AllStarted
  <2>3. port[p].info = "BEGIN" /\ port[p].infoIs = "Disabled"
    BY <2>1, <2>2, NewPortType, StartedInfo
  <2> QED
    BY <2>3 DEF Passing, Calm, Stale, PassingStates
<1>2. TypeOK /\ EveryPortInService /\ InfoInTurn /\ [Next]_vars /\ TypeOK'
      => InfoInTurn'
  <2> SUFFICES ASSUME TypeOK, EveryPortInService, InfoInTurn, [Next]_vars,
                      TypeOK', NEW p \in Listed(bridge)'
               PROVE  Passing(port'[p]) /\ (Calm(port'[p]) \/ InfoTurn(p)')
    BY DEF InfoInTurn
  <2>1. \A q : Calm(q) => Passing(q)
    BY DEF Calm, Passing, PassingStates, InfoState
  <2>2. ASSUME UNCHANGED vars
        PROVE  Passing(port'[p]) /\ (Calm(port'[p]) \/ InfoTurn(p)')
    BY <2>2 DEF vars, Listed, InfoInTurn, InfoTurn, InTurn
  <2>3. ASSUME p \in Listed(bridge), NEW to \in InfoState,
               InfoHop(port[p], to), Ran("info", p),
               port'[p] = InfoEnter(port[p], bridge, to)
        PROVE  Passing(port'[p]) /\ InfoTurn(p)'
    <3>1. IsPort(port[p]) /\ InService(port[p]) /\ Passing(port[p])
      BY <2>3, ListedPorts DEF TypeOK, EveryPortInService, InfoInTurn
    <3>2. Passing(port'[p])
      BY <2>3, <3>1, InfoPassing
    <3>3. InfoTurn(p)'
      BY <2>3 DEF InfoTurn, InTurn, Ran, Turn, Machine
    <3> QED
      BY <3>2, <3>3
  <2>4. CASE \E x \in Listed(bridge) : ~Calm(port[x])
    <3>1. PICK x \in Listed(bridge) : ~Calm(port[x])
      BY <2>4
    <3>2. CASE InfoStep(x)
      <4>1. PICK to \in InfoState :
              /\ InfoHop(port[x], to)
              /\ PortMoved("info", x, InfoEnter(port[x], bridge, to))
        BY <3>2 DEF InfoStep
      <4>2. Ran("info", x)
        BY <4>1 DEF PortMoved, Ran
      <4>3. p \in Listed(bridge) /\ p \in Port /\ DOMAIN port = Port
        BY <4>2, ListedPorts DEF Ran, TypeOK
      <4>4. CASE p = x
        BY <2>3, <4>1, <4>2, <4>3, <4>4 DEF PortMoved
      <4>5. CASE p # x
        <5>1. port'[p] = port[p]
          BY <4>1, <4>3, <4>5 DEF PortMoved
        <5>2. InfoTurn(x)
          BY <3>1 DEF InfoInTurn
        <5>3. ~InfoTurn(p)
          BY <4>5, <5>2 DEF InfoTurn, InTurn, Machine
        <5>4. Calm(port[p]) /\ Passing(port[p])
          BY <4>3, <5>3 DEF InfoInTurn
        <5> QED
          BY <5>1, <5>4
      <4> QED
        BY <4>4, <4>5
    <3> QED
      BY <2>2, <3>1, <3>2, OnlyInfo
  <2>5. CASE \A x \in Listed(bridge) : Calm(port[x])
    <3>1. p \in Port
      BY ListedPorts DEF TypeOK
    <3>2. Stepped(p)
      BY <3>1, PortSteps
    <3>3. p \in Listed(bridge) \/ Begun(p)
      BY <3>2, SteppedListed
    <3>4. \/ Calm(port'[p])
          \/ \E to \in InfoState :
               /\ Ran("info", p) /\ InfoHop(port[p], to)
               /\ port'[p] = InfoEnter(port[p], bridge, to)
      BY <2>5, <3>1, <3>2, <3>3, SteppedCalm
    <3>5. Ran("info", p) => p \in Listed(bridge)
      BY DEF Ran
    <3> QED
      BY <2>1, <2>3, <3>4, <3>5
  <2> QED
    BY <2>4, <2>5
<1> QED
  BY <1>1, <1>2, TypeCorrect, AlwaysInService, PTL DEF Spec

-----------------------------------------------------------------------------
(* What the bridge relays.                                                 *)

\* rolesel.c, updtRootPriority: the source of the root is the bridge itself
\* or a port whose information counts, however the vectors compare.
LEMMA SourceOffers ==
  ASSUME NEW b, IsBridge(b), NEW ports
  PROVE  LET s == BestSource(b, ports) IN
         s = 0 \/ (s \in Listed(b) /\ Offers(ports[s]))
<1> DEFINE n == Len(b.ports)
           Source(s) == s = 0 \/ (s \in Listed(b) /\ Offers(ports[s]))
<1>1. n \in Nat /\ DOMAIN b.ports = 1 .. n
  BY SMT DEF IsBridge
<1>2. \A i \in 1 .. n : b.ports[i] \in Listed(b)
  BY <1>1 DEF Listed
<1>3. PICK best : IsWalk(b, ports, n, best) /\ BestSource(b, ports) = best[n]
  BY <1>1, SourceWalks
<1> HIDE DEF n
<1> DEFINE S == {i \in Nat : i <= n => Source(best[i])}
<1>4. 0 \in S
  BY <1>1, <1>3, SMT DEF IsWalk
<1>5. ASSUME NEW i \in Nat, i \in S
      PROVE  i + 1 \in S
  <2> SUFFICES ASSUME i + 1 <= n
               PROVE  Source(best[i + 1])
    OBVIOUS
  <2>1. /\ i + 1 \in 0 .. n /\ i + 1 \in 1 .. n /\ i + 1 # 0
        /\ (i + 1) - 1 = i /\ i <= n
    BY <1>1, SMT
  <2>2. best[i + 1] = Walk(b, ports, i + 1, best[i])
    BY <1>3, <2>1 DEF IsWalk
  <2>3. Source(best[i])
    BY <1>5, <2>1
  <2> QED
    BY <1>2, <2>1, <2>2, <2>3 DEF Walk
<1>6. S \subseteq Nat
  OBVIOUS
<1> HIDE DEF S
<1>7. n \in S
  BY <1>1, <1>4, <1>5, Induction
<1> QED
  BY <1>1, <1>3, <1>7, SMT DEF S

\* The times of the root, and the age of the bridge's own information.
RootYoung == NoOverAge /\ bridge.BridgeTimes.MessageAge = 0

\* portinfo.c, rolesel.c: a step that elects a root elects a young one.
LEMMA SteppedYoung ==
  ASSUME TypeOK, EveryPortInService, InfoInTurn, RootYoung, [Next]_vars
  PROVE  RootYoung'
<1>1. IsBridge(bridge) /\ bridge.BridgeTimes \in TimeValues
  BY DEF TypeOK, IsBridge
<1>2. CASE RootStays
  BY <1>2 DEF RootStays, SameRoot, RootYoung, NoOverAge
<1>3. CASE bridge' = [bridge EXCEPT !.rolesel = "INIT_BRIDGE"]
  <2>1. /\ bridge'.rootTimes = bridge.rootTimes
        /\ bridge'.BridgeTimes = bridge.BridgeTimes
    BY <1>1, <1>3, SMT DEF IsBridge, BridgeField
  <2> QED
    BY <2>1 DEF RootYoung, NoOverAge
<1>4. CASE bridge' = WithRoot(bridge, port, BestSource(bridge, port))
  <2> DEFINE s == BestSource(bridge, port)
  <2>1. CASE bridge' = bridge
    BY <2>1 DEF RootYoung, NoOverAge
  <2>2. CASE bridge' # bridge
    <3>1. ASSUME NEW p \in Listed(bridge)
          PROVE  Calm(port[p])
      BY <2>2, OnlyInfo DEF InfoStep, PortMoved, vars
    <3>2. s = 0 \/ (s \in Listed(bridge) /\ Offers(port[s]))
      BY <1>1, SourceOffers
    <3> HIDE DEF s
    <3>3. /\ WithRoot(bridge, port, s).BridgeTimes = bridge.BridgeTimes
          /\ WithRoot(bridge, port, s).rootTimes =
               IF s = 0 THEN bridge.BridgeTimes
               ELSE OneHopOlder(port[s].portTimes)
      BY <1>1, SMT DEF WithRoot, IsBridge, BridgeField
    <3>4. CASE s = 0
      <4>1. bridge.BridgeTimes.MaxAge \in Nat
        BY <1>1, SMT DEF TimeValues
      <4> QED
        BY <1>4, <3>3, <3>4, <4>1, SMT DEF s, RootYoung, NoOverAge
    <3>5. CASE s # 0
      <4>1. Young(port[s].portTimes)
        BY <3>1, <3>2, <3>5 DEF Calm, Stale, Offers
      <4>2. OneHopOlder(port[s].portTimes).MaxAge = port[s].portTimes.MaxAge
        <5>1. port[s].portTimes \in TimeValues
          BY <3>2, <3>5, ListedPorts DEF TypeOK, IsPort
        <5> QED
          BY <5>1, SMT DEF OneHopOlder, TimeValues
      <4> QED
        BY <1>4, <3>3, <3>5, <4>1, <4>2 DEF s, RootYoung, NoOverAge, Young
    <3> QED
      BY <3>4, <3>5
  <2> QED
    BY <2>1, <2>2
<1>5. ASSUME NEW b, BridgeOK(b), bridge' = InitData(b)
      PROVE  RootYoung'
  <2> DEFINE times == [b.BridgeTimes EXCEPT !.MessageAge = 0]
  <2>1. times.MessageAge = 0 /\ times.MaxAge \in Nat
    BY <1>5, SMT DEF BridgeOK, IsBridge, TimeValues
  <2> HIDE DEF times
  <2>2. InitData(b).BridgeTimes = times /\ InitData(b).rootTimes = times
    BY <1>5, SMT DEF BridgeOK, IsBridge, BridgeField, InitData, times
  <2> QED
    BY <1>5, <2>1, <2>2, SMT DEF RootYoung, NoOverAge
<1> QED
  BY <1>2, <1>3, <1>4, <1>5, BridgeSteps

(***************************************************************************)
(* Information that has reached its Max Age is never relayed, on any       *)
(* number of ports and for any times a neighbour may send: updtRcvdInfo-   *)
(* While sets the timer of what is too old to 0, and the information       *)
(* machine ages it out before another machine moves (portinfo.c,           *)
(* rolesel.c, statmch.c).                                                  *)
(***************************************************************************)
THEOREM NeverOverAge == Spec => []NoOverAge
<1>1. Init => RootYoung
  <2> SUFFICES ASSUME Init
               PROVE  RootYoung
    OBVIOUS
  <2>1. PICK addr \in 0 .. MacSpan - 1 : bridge = CreatedBridge(addr)
    BY DEF Init
  <2>2. InitialCfg.MaxAge \in Nat
    BY InitialAssumption DEF IsBridgeCfg, BridgeCfgField
  <2>3. /\ bridge.BridgeTimes.MessageAge = 0
        /\ bridge.rootTimes.MessageAge = 0
        /\ bridge.rootTimes.MaxAge = InitialCfg.MaxAge
    BY <2>1, SMT DEF CreatedBridge, InitData
  <2> QED
    BY <2>2, <2>3, SMT DEF RootYoung, NoOverAge
<1>2. TypeOK /\ EveryPortInService /\ InfoInTurn /\ RootYoung /\ [Next]_vars
      => RootYoung'
  BY SteppedYoung
<1>3. RootYoung => NoOverAge
  BY DEF RootYoung
<1> QED
  BY <1>1, <1>2, <1>3, TypeCorrect, AlwaysInService, AlwaysInTurn, PTL
     DEF Spec

-----------------------------------------------------------------------------
(* What a restart leaves forwarding.                                       *)

\* The flags by which a port relays, or is trusted to.
RelayFlags == {"learn", "forward", "learning", "forwarding", "agreed"}

\* The states in which the information machine handles a message.
HearingStates == {"RECEIVE", "SUPERIOR_DESIGNATED", "REPEATED_DESIGNATED",
                  "INFERIOR_DESIGNATED", "NOT_DESIGNATED", "OTHER"}

\* Nothing was heard on the port since the bridge was started.
Deaf(q) ==
  /\ "rcvdBPDU" \notin q.on /\ "rcvdMsg" \notin q.on
  /\ q.infoIs # "Received" /\ q.info \notin HearingStates
  /\ q.selectedRole \in {"DisabledPort", "DesignatedPort", "NonStpPort"}
  /\ q.roletrns \notin RootStates /\ q.roletrns # "ROOT_PORT"

\* It has a forward delay to wait for before it relays anything.
Waits(q) ==
  "admin_non_stp" \in q.on \/ "operEdge" \in q.on \/
    /\ \A f \in RelayFlags : f \notin q.on
    /\ q.timer["fdWhile"] > 0

Shut(q) == Deaf(q) /\ Waits(q)

\* Times with which a timer does not start expired.
Lasting(t) == t.MaxAge > 0 /\ t.ForwardDelay > 0

EveryEdgeAdmin == \A p \in Listed(bridge) : AdminEdge(port[p])

RestartShuts ==
  call = "restart" => /\ Lasting(bridge.rootTimes)
                      /\ \A p \in Listed(bridge) : Shut(port[p])

\* r has what q has of all this.
SameShut(q, r) ==
  /\ q.infoIs = r.infoIs /\ q.info = r.info
  /\ q.selectedRole = r.selectedRole /\ q.roletrns = r.roletrns
  /\ q.timer["fdWhile"] = r.timer["fdWhile"]
  /\ \A f \in RelayFlags \cup {"rcvdBPDU", "rcvdMsg", "admin_non_stp",
                               "operEdge", "AdminEdgePort"} :
       f \in q.on <=> f \in r.on

LEMMA ShutSame ==
  ASSUME NEW q, NEW r, SameShut(q, r)
  PROVE  (Shut(q) => Shut(r)) /\ (AdminEdge(q) => AdminEdge(r))
BY DEF SameShut, Shut, Deaf, Waits, AdminEdge

\* transmit.c, migrate.c, p2p.c, topoch.c and pcost.c have no part in it.
LEMMA OthersShut ==
  ASSUME NEW q, IsPort(q), NEW b
  PROVE  /\ \A to \in TransmitState : SameShut(q, TransmitEnter(q, b, to))
         /\ \A to \in MigrateState : SameShut(q, MigrateEnter(q, b, to))
         /\ \A to \in P2pState : SameShut(q, P2pEnter(q, to))
         /\ \A to \in TopochState : SameShut(q, TopochEnter(q, b, to))
         /\ \A to \in PcostState : SameShut(q, PcostEnter(q, to))
<1> USE DEF IsPort, PortField, SameShut, RelayFlags, Timer
<1>1. ASSUME NEW to \in TransmitState
      PROVE  SameShut(q, TransmitEnter(q, b, to))
  BY <1>1, SMT DEF TransmitEnter, TransmitState, Given
<1>2. ASSUME NEW to \in MigrateState
      PROVE  SameShut(q, MigrateEnter(q, b, to))
  BY <1>2, SMT DEF MigrateEnter, MigrateState, Given
<1>3. ASSUME NEW to \in P2pState
      PROVE  SameShut(q, P2pEnter(q, to))
  BY <1>3, SMT DEF P2pEnter, P2pState, Given
<1>4. ASSUME NEW to \in TopochState
      PROVE  SameShut(q, TopochEnter(q, b, to))
  BY <1>4, SMT DEF TopochEnter, TopochState, NewTcInfo, Given, Inactive
<1>5. ASSUME NEW to \in PcostState
      PROVE  SameShut(q, PcostEnter(q, to))
  BY <1>5, SMT DEF PcostEnter, PcostState
<1> QED
  BY <1>1, <1>2, <1>3, <1>4, <1>5

\* sttrans.c: only a port that may relay is told to.
LEMMA SttransShut ==
  ASSUME NEW q, IsPort(q), Shut(q), NEW to \in SttransState,
         to = "BEGIN" \/ SttransHop(q, to)
  PROVE  Shut(SttransEnter(q, to))
<1> DEFINE r == SttransEnter(q, to)
<1>1. Deaf(r)
  BY SMT DEF IsPort, PortField, Shut, Deaf, SttransEnter, SttransState
<1>2. /\ \A f \in Flag \ {"learning", "forwarding"} : f \in r.on <=> f \in q.on
      /\ r.timer = q.timer
      /\ "learning" \in r.on => "learning" \in q.on \/ "learn" \in q.on
      /\ "forwarding" \in r.on => "forwarding" \in q.on \/ "forward" \in q.on
  BY SMT DEF IsPort, PortField, SttransEnter, SttransState, SttransHop
<1> HIDE DEF r
<1> QED
  BY <1>1, <1>2 DEF Shut, Waits, RelayFlags, Flag, r

\* receive.c: a port that is deaf has nothing to hand over.
LEMMA ReceiveShut ==
  ASSUME NEW q, IsPort(q), Shut(q), NEW to \in ReceiveState,
         to = "BEGIN" \/ ReceiveHop(q, to)
  PROVE  Shut(ReceiveEnter(q, to))
<1> DEFINE r == ReceiveEnter(q, to)
<1>1. to # "RECEIVE"
  BY DEF ReceiveHop, ReceiveState, Shut, Deaf
<1>2. Deaf(r)
  BY <1>1, SMT DEF IsPort, PortField, Shut, Deaf, ReceiveEnter
<1>3. /\ \A f \in Flag \ {"rcvdBPDU", "rcvdRSTP", "rcvdSTP", "rcvdMsg"} :
           f \in r.on <=> f \in q.on
      /\ r.timer["fdWhile"] = q.timer["fdWhile"]
  BY <1>1, SMT DEF IsPort, PortField, Timer, ReceiveEnter
<1> HIDE DEF r
<1> QED
  BY <1>2, <1>3 DEF Shut, Waits, RelayFlags, Flag, r

\* brdgdet.c: an edge port in service stays one.
LEMMA BrdgdetShut ==
  ASSUME NEW q, IsPort(q), Shut(q), AdminEdge(q), InService(q),
         NEW to \in BrdgdetState, to = "BEGIN" \/ BrdgdetHop(q, to)
  PROVE  Shut(BrdgdetEnter(q, to))
<1> DEFINE r == BrdgdetEnter(q, to)
<1>1. Deaf(r)
  BY SMT DEF IsPort, PortField, Shut, Deaf, BrdgdetEnter, BrdgdetState
<1>2. /\ \A f \in Flag \ {"operEdge"} : f \in r.on <=> f \in q.on
      /\ r.timer = q.timer
      /\ "operEdge" \in q.on => "operEdge" \in r.on
  BY SMT DEF IsPort, PortField, BrdgdetEnter, BrdgdetState, BrdgdetHop,
             Enabled, AdminEdge, InService
<1> HIDE DEF r
<1> QED
  BY <1>1, <1>2 DEF Shut, Waits, RelayFlags, Flag, r

\* portinfo.c: without a message the information becomes the bridge's own.
LEMMA InfoShut ==
  ASSUME NEW q, IsPort(q), Shut(q), NEW b, NEW to \in InfoState,
         to = "BEGIN" \/ InfoHop(q, to)
  PROVE  Shut(InfoEnter(q, b, to))
<1> DEFINE r == InfoEnter(q, b, to)
<1>1. to \notin HearingStates
  BY DEF InfoHop, HearingStates, Shut, Deaf
<1>2. to \in {"BEGIN", "DISABLED", "AGED", "UPDATE", "CURRENT"}
  BY <1>1 DEF HearingStates, InfoState
<1> DEFINE Kept(s) == /\ Deaf(s)
                      /\ s.timer["fdWhile"] = q.timer["fdWhile"]
                      /\ \A f \in RelayFlags : f \in s.on => f \in q.on
                      /\ \A f \in {"admin_non_stp", "operEdge"} :
                           f \in q.on => f \in s.on
<1>3. DOMAIN q = PortField /\ DOMAIN q.timer = Timer /\ Deaf(q)
  BY DEF IsPort, Shut
<1>4. Kept(InfoBegin(q)) /\ Kept(InfoDisabled(q))
  BY <1>3, SMT DEF PortField, Timer, RelayFlags, HearingStates, Deaf,
                   InfoBegin, InfoDisabled
<1>5. Kept(InfoAged(q)) /\ Kept([q EXCEPT !.info = "CURRENT"])
  BY <1>3, SMT DEF PortField, RelayFlags, HearingStates, Deaf, InfoAged
<1>6. Kept(InfoUpdate(q))
  BY <1>3, SMT DEF PortField, RelayFlags, HearingStates, Deaf, InfoUpdate,
                   Given
<1>7. Kept(r)
  BY <1>2, <1>4, <1>5, <1>6 DEF InfoEnter
<1> HIDE DEF r
<1> QED
  BY <1>7 DEF Shut, Waits, r

\* roletrns.c: a port that was given its forward delay waits for it, and
\* starts with the role it is given when nothing was heard.
LEMMA RoletrnsShut ==
  ASSUME NEW q, IsPort(q), Shut(q), NEW b, IsBridge(b), Lasting(b.rootTimes),
         NEW others, NEW to \in RoletrnsState,
         to = "BEGIN" \/ RoletrnsHop(q, b, others, to)
  PROVE  LET s == RoletrnsEnter(q, b, to) IN
         Shut(s) /\ Shut([s EXCEPT !.on = s.on \cup RoletrnsBroadcast(to)])
<1> DEFINE s == RoletrnsEnter(q, b, to)
           r == [s EXCEPT !.on = s.on \cup RoletrnsBroadcast(to)]
           fwdDelay == b.rootTimes.ForwardDelay
           maxAge == b.rootTimes.MaxAge
           Like(t) == /\ DOMAIN t = PortField
                      /\ t.infoIs = q.infoIs /\ t.info = q.info
                      /\ t.selectedRole = q.selectedRole /\ t.roletrns = to
                      /\ \A f \in {"rcvdBPDU", "rcvdMsg", "admin_non_stp",
                                   "operEdge"} : f \in t.on <=> f \in q.on
           Kept(t) == /\ Like(t)
                      /\ \A f \in RelayFlags : f \in t.on => f \in q.on
                      /\ \/ t.timer["fdWhile"] = q.timer["fdWhile"]
                         \/ t.timer["fdWhile"] > 0
<1>1. DOMAIN q = PortField /\ DOMAIN q.timer = Timer /\ Deaf(q) /\ Waits(q)
  BY DEF IsPort, Shut
<1>2. fwdDelay > 0 /\ maxAge > 0
  BY DEF Lasting
<1>3. to \notin RootStates /\ to # "ROOT_PORT"
  <2>1. to \notin RootStates
    BY <1>1, RoletrnsFrom DEF Deaf, RootStates
  <2>2. ~RoleEntry(q, "ROOT_PORT")
    BY <1>1 DEF RoleEntry, Deaf
  <2>3. ~RoletrnsHop(q, b, others, "ROOT_PORT")
    BY <1>1, <2>2 DEF RoletrnsHop, Deaf, RootStates, DesignatedStates,
                      FromDisabledPort, FromDesignatedPort,
                      FromAlternatePort
  <2> QED
    BY <2>1, <2>3
<1>4. CASE to \in {"DESIGNATED_LEARN", "DESIGNATED_FORWARD"}
  <2>1. MayForward(q)
    BY <1>4 DEF RoletrnsHop, RoleEntry, FromRootPort, FromDesignatedPort,
                FromAlternatePort, FromDisabledPort
  <2>2. "admin_non_stp" \in q.on \/ "operEdge" \in q.on
    <3>1. q.timer["fdWhile"] = 0 \/ "agreed" \in q.on \/ "operEdge" \in q.on
      BY <2>1 DEF MayForward, Trusted
    <3>2. q.timer["fdWhile"] \in Nat
      BY SMT DEF IsPort, Timer
    <3> QED
      BY <1>1, <3>1, <3>2, SMT DEF Waits, RelayFlags
  <2>3. ASSUME to = "DESIGNATED_LEARN"
        PROVE  Like(s)
    <3>1. Like(Timed(Moved(q, to, {}, {"learn"}), "fdWhile", fwdDelay))
      BY <1>1, <2>3, SMT DEF PortField, Timer, Timed, Moved
    <3> QED
      BY <2>3, <3>1 DEF RoletrnsEnter
  <2>4. ASSUME to = "DESIGNATED_FORWARD"
        PROVE  Like(s)
    <3> DEFINE set == {"forward"} \cup Given("sendRSTP" \in q.on, {"agreed"})
    <3>1. Like(Timed(Moved(q, to, {"agreed"}, set), "fdWhile", 0))
      BY <1>1, <2>4, SMT DEF PortField, Timer, Timed, Moved, Given
    <3> QED
      BY <2>4, <3>1 DEF RoletrnsEnter
  <2>5. Like(s)
    BY <1>4, <2>3, <2>4
  <2> HIDE DEF s
  <2>6. Like(r)
    BY <1>4, <2>5, SMT DEF PortField, RoletrnsBroadcast
  <2> HIDE DEF r
  <2> QED
    BY <1>1, <1>3, <2>2, <2>5, <2>6 DEF Shut, Deaf, Waits, s, r
<1>5. CASE to \notin {"DESIGNATED_LEARN", "DESIGNATED_FORWARD"}
  <2>1. to \in {"BEGIN", "INIT_PORT"} => Kept(InitPort(q, b, to))
    BY <1>1, <1>2, SMT DEF PortField, Timer, RelayFlags, InitPort
  <2>2. Kept(TakeRole(q, to))
    BY <1>1, SMT DEF PortField, RelayFlags, TakeRole
  <2>3. /\ Kept(Retired(q, to, maxAge)) /\ Kept(Retired(q, to, fwdDelay))
    BY <1>1, <1>2, SMT DEF PortField, Timer, RelayFlags, Retired
  <2>4. /\ Kept(Moved(q, to, {"proposed"}, {}))
        /\ Kept(Moved(q, to, {"proposed"}, {"agree", "newInfo"}))
        /\ Kept(Moved(q, to, {"reRoot"}, {}))
        /\ Kept([q EXCEPT !.roletrns = to, !.role = "DesignatedPort"])
    BY <1>1, SMT DEF PortField, RelayFlags, Moved
  <2>5. \A delay : /\ Kept(Timed(Moved(q, to, {}, {"proposing", "newInfo"}),
                                 "edgeDelayWhile", delay))
                   /\ Kept(Timed(Moved(q, to, {"sync"}, {"synced"}),
                                 "rrWhile", delay))
                   /\ Kept(Timed(Moved(q, to, {}, {}), "rbWhile", delay))
    BY <1>1, SMT DEF PortField, Timer, RelayFlags, Moved, Timed
  <2>6. Kept(Timed(Moved(q, to, {"learn", "forward"}, {}),
                   "fdWhile", fwdDelay))
    BY <1>1, <1>2, SMT DEF PortField, Timer, RelayFlags, Moved, Timed
  <2> HIDE DEF Kept, fwdDelay, maxAge
  <2>7. Kept(s)
    BY <1>3, <1>5, <2>1, <2>2, <2>3, <2>4, <2>5, <2>6
       DEF RoletrnsEnter, RoletrnsState, RootStates, fwdDelay, maxAge
  <2> HIDE DEF s
  <2>8. Kept(r)
    BY <2>7, SMT DEF Kept, PortField, RelayFlags, RoletrnsBroadcast
  <2> HIDE DEF r
  <2> QED
    BY <1>1, <1>3, <2>7, <2>8 DEF Kept, Shut, Deaf, Waits, s, r
<1> QED
  BY <1>4, <1>5

\* rolesel.c: the roles given when no port has heard anything.
LEMMA RoleselShut ==
  ASSUME NEW q, IsPort(q), Shut(q), NEW b
  PROVE  Shut(WithoutRole(q)) /\ Shut(WithRole(b, q))
<1>1. DOMAIN q = PortField /\ Deaf(q) /\ Waits(q) /\ q.infoIs \in InfoIs
  BY DEF IsPort, Shut
<1>2. Shut(WithoutRole(q))
  BY <1>1, SMT DEF PortField, Shut, Deaf, Waits, WithoutRole
<1>3. CASE "admin_non_stp" \in q.on
  <2>1. Shut(WithoutProtocol(q))
    BY <1>1, <1>3, SMT DEF PortField, Shut, Deaf, Waits, WithoutProtocol
  <2> QED
    BY <1>2, <1>3, <2>1 DEF WithRole
<1>4. CASE "admin_non_stp" \notin q.on
  <2>1. RoleFor(b, q) \in {"DisabledPort", "DesignatedPort"}
    BY <1>1, <1>4 DEF RoleFor, Offers, InfoIs, Deaf
  <2> DEFINE r == WithRole(b, q)
             on == (q.on \ {"reselect", "updtInfo"}) \cup {"selected"}
                     \cup Given(MustUpdate(b, q), {"updtInfo"})
  <2>2. r = [q EXCEPT !.selectedRole = RoleFor(b, q),
                      !.designatedPriority = DesignatedVector(b, q),
                      !.designatedTimes = DesignatedTimes(b),
                      !.on = on]
    BY <1>4 DEF WithRole
  <2>3. \A f \in RelayFlags \cup {"rcvdBPDU", "rcvdMsg", "admin_non_stp",
                                  "operEdge"} : f \in on <=> f \in q.on
    BY DEF RelayFlags, Given
  <2> HIDE DEF r, on
  <2>4. /\ r.infoIs = q.infoIs /\ r.info = q.info /\ r.roletrns = q.roletrns
        /\ r.timer = q.timer /\ r.on = on /\ r.selectedRole = RoleFor(b, q)
    BY <1>1, <2>2, SMT DEF PortField
  <2> QED
    BY <1>1, <1>2, <2>1, <2>3, <2>4 DEF Shut, Deaf, Waits, r
<1> QED
  BY <1>3, <1>4

\* stpm.c, STP_stpm_start: every port is shut once its machines have begun.
LEMMA StartedShut ==
  ASSUME NEW q, IsPort(q), NEW b, IsBridge(b), Lasting(b.rootTimes)
  PROVE  Shut(Started(q, b))
<1> DEFINE q0 == WithoutRole(PortInit(q, b))
           q1 == TransmitEnter(q0, b, "BEGIN")
           q2 == SttransEnter(q1, "BEGIN")
           q3 == RoletrnsEnter(q2, b, "BEGIN")
           q4 == InfoEnter(q3, b, "BEGIN")
           q5 == PcostEnter(q4, "BEGIN")
           q6 == BrdgdetEnter(q5, "BEGIN")
           q7 == P2pEnter(q6, "BEGIN")
           q8 == MigrateEnter(q7, b, "BEGIN")
           q9 == TopochEnter(q8, b, "BEGIN")
           q10 == ReceiveEnter(q9, "BEGIN")
           Silenced(r) == r.selectedRole = "DisabledPort"
           Delayed(r) == /\ Silenced(r) /\ r.roletrns = "BEGIN"
                         /\ \A f \in {"learn", "forward", "learning",
                                      "forwarding"} : f \notin r.on
                         /\ r.timer["fdWhile"] > 0
           Cleared(r) == /\ Delayed(r) /\ "agreed" \notin r.on
                         /\ r.info = "BEGIN" /\ r.infoIs = "Disabled"
<1>1. /\ "BEGIN" \in TransmitState /\ "BEGIN" \in SttransState
      /\ "BEGIN" \in RoletrnsState /\ "BEGIN" \in InfoState
      /\ "BEGIN" \in PcostState /\ "BEGIN" \in BrdgdetState
      /\ "BEGIN" \in P2pState /\ "BEGIN" \in MigrateState
      /\ "BEGIN" \in TopochState /\ "BEGIN" \in ReceiveState
  BY DEF TransmitState, SttransState, RoletrnsState, InfoState, PcostState,
         BrdgdetState, P2pState, MigrateState, TopochState, ReceiveState
<1>2. IsPort(q0)
  BY PortInitType, WithoutRoleType
<1>3. IsPort(q1)
  BY <1>1, <1>2, TransmitType
<1>4. IsPort(q2)
  BY <1>1, <1>3, SttransType
<1>5. IsPort(q3)
  BY <1>1, <1>4, RoletrnsType
<1>6. IsPort(q4)
  BY <1>1, <1>5, InfoType
<1>7. IsPort(q5)
  BY <1>1, <1>6, PcostType
<1>8. IsPort(q6)
  BY <1>1, <1>7, BrdgdetType
<1>9. IsPort(q7)
  BY <1>1, <1>8, P2pType
<1>10. IsPort(q8)
  BY <1>1, <1>9, MigrateType
<1>11. IsPort(q9)
  BY <1>1, <1>10, TopochType
<1>12. Started(q, b) = q10
  BY DEF Started, Begin
<1>13. Silenced(q0)
  <2>1. IsPort(PortInit(q, b))
    BY PortInitType
  <2> QED
    BY <2>1, SMT DEF WithoutRole, IsPort, PortField
<1> HIDE DEF q0, q1, q2, q3, q4, q5, q6, q7, q8, q9, q10
<1>14. Silenced(q1)
  BY <1>1, <1>2, <1>13, OthersShut DEF SameShut, q1
<1>15. /\ Silenced(q2)
       /\ "learning" \notin q2.on /\ "forwarding" \notin q2.on
  BY <1>3, <1>14, SMT DEF q2, SttransEnter, IsPort, PortField
<1>16. Delayed(q3)
  <2>1. Delayed(InitPort(q2, b, "BEGIN"))
    BY <1>4, <1>15, SMT DEF IsPort, PortField, Timer, InitPort, Lasting
  <2> QED
    BY <2>1 DEF q3, RoletrnsEnter
<1>17. Cleared(q4)
  <2>1. Cleared(InfoBegin(q3))
    BY <1>5, <1>16, SMT DEF IsPort, PortField, Timer, InfoBegin, InfoDisabled
  <2> QED
    BY <2>1 DEF q4, InfoEnter
<1>18. ASSUME NEW r, NEW s, Cleared(r), SameShut(r, s)
       PROVE  Cleared(s)
  BY <1>18 DEF SameShut, RelayFlags
<1>19. Cleared(q5)
  BY <1>1, <1>6, <1>17, <1>18, OthersShut DEF q5
<1>20. Cleared(q6)
  BY <1>19, <1>7, SMT DEF q6, BrdgdetEnter, IsPort, PortField
<1>21. Cleared(q7)
  BY <1>1, <1>8, <1>18, <1>20, OthersShut DEF q7
<1>22. Cleared(q8)
  BY <1>1, <1>9, <1>18, <1>21, OthersShut DEF q8
<1>23. Cleared(q9)
  BY <1>1, <1>10, <1>18, <1>22, OthersShut DEF q9
<1>24. /\ Cleared(q10) /\ "rcvdBPDU" \notin q10.on /\ "rcvdMsg" \notin q10.on
  BY <1>11, <1>23, SMT DEF q10, ReceiveEnter, IsPort, PortField, Timer
<1> QED
  BY <1>12, <1>24 DEF Shut, Deaf, Waits, RelayFlags, RootStates,
                      HearingStates

\* stp_in.c: what starts a restart starts every port of the bridge.
LEMMA RestartBegins ==
  ASSUME TypeOK, [Next]_vars, call = "none", call' = "restart"
  PROVE  /\ \E b : BridgeOK(b) /\ bridge' = InitData(b)
         /\ \A p \in Listed(bridge)' :
              \E q : IsPort(q) /\ port'[p] = Started(q, bridge')
<1>1. IsBridge(bridge) /\ BridgeOK(bridge) /\ PortsOK(port)
  BY DEF TypeOK, BridgeOK, PortsOK
<1>2. ASSUME NEW b, BridgeOK(b), NEW ports, PortsOK(ports),
             Restarts(b, ports)
      PROVE  /\ \E c : BridgeOK(c) /\ bridge' = InitData(c)
             /\ \A p \in Listed(bridge)' :
                  \E q : IsPort(q) /\ port'[p] = Started(q, bridge')
  <2>1. bridge' = InitData(b) /\ BridgeOK(bridge')
    BY <1>2, InitDataType DEF Restarts
  <2>2. Listed(bridge') \subseteq Port
    BY <2>1, ListedPorts DEF BridgeOK
  <2>3. \A p \in Listed(bridge') : port'[p] = Started(ports[p], bridge')
    BY <1>2, <2>1, <2>2 DEF Restarts, AllStarted
  <2>4. Listed(bridge)' = Listed(bridge')
    BY DEF Listed
  <2> QED
    BY <1>2, <2>1, <2>2, <2>3, <2>4 DEF PortsOK
<1>3. ~MachineStep /\ ~UNCHANGED vars
  <2>1. \A m : ~Turn(m)
    BY DEF Turn
  <2> QED
    BY <2>1 DEF MachineStep, TransmitStep, SttransStep, RoletrnsStep,
                InfoStep, PcostStep, BrdgdetStep, P2pStep, MigrateStep,
                TopochStep, ReceiveStep, PortMoved, PortMovedAll,
                RoleselStep, UpdateReturns, vars
<1>4. ~OneSecond /\ \A p \in Listed(bridge) : ~RxBpdu(p)
  BY DEF OneSecond, Ticks, SetsOnly, RxBpdu, Gets, Enters
<1>5. ASSUME StpmSetCfg
      PROVE  \E b : BridgeOK(b) /\ Restarts(b, port)
  <2>1. PICK b : /\ BridgeOK(b)
                 /\ Restarts(b, port) \/ SetsOnly(b)
    BY <1>1, <1>5, SetCfgOutcome
  <2> QED
    BY <2>1 DEF SetsOnly
<1>6. ASSUME NEW list \in Seq(Port), NEW addr \in 0 .. MacSpan - 1
      PROVE  BridgeOK([bridge EXCEPT !.ports = list, !.addr = addr])
  <2>1. addr \in Nat
    BY SMT DEF MacSpan
  <2> QED
    BY <1>1, <2>1, RelistedType
<1>7. ASSUME NEW x \in Port, PortCreate(x) \/ PortDelete(x)
      PROVE  \E b, ports : BridgeOK(b) /\ PortsOK(ports) /\ Restarts(b, ports)
  <2> DEFINE created == <<x>> \o bridge.ports
             closed(n) == [i \in 1 .. Len(bridge.ports) - 1 |->
                             bridge.ports[IF i < n THEN i ELSE i + 1]]
             ports == [port EXCEPT ![x] = NewPort(x)]
  <2>1. PICK list \in {created} \cup {closed(n) : n \in DOMAIN bridge.ports},
             addr \in 0 .. MacSpan - 1 :
          Restarts([bridge EXCEPT !.ports = list, !.addr = addr], ports)
    BY <1>7 DEF PortCreate, PortDelete
  <2>2. list \in Seq(Port)
    BY <1>1, ListType DEF BridgeOK
  <2>3. PortsOK(ports)
    BY <1>1, NewPortType, PortsExcept
  <2> HIDE DEF ports
  <2> QED
    BY <1>6, <2>1, <2>2, <2>3
<1>8. ASSUME NEW x \in Listed(bridge)
      PROVE  /\ ~SetPortCfg(x) /\ ~ChangedPortSpeed(x) /\ ~ChangedPortDuplex(x)
             /\ \A enable \in BOOLEAN : ~EnablePort(x, enable)
  BY DEF SetPortCfg, SetPortCfgFails, SetPortCfgSucceeds, ChangedPortSpeed,
         ChangedPortDuplex, EnablePort, LinkIs, EntersAndReturns, Enters
<1>9. Listed(bridge) \subseteq Port
  BY <1>1, ListedPorts DEF BridgeOK
<1> QED
  BY <1>1, <1>2, <1>3, <1>4, <1>5, <1>7, <1>8, <1>9 DEF Next, Management

-----------------------------------------------------------------------------
(* Edge ports and times.                                                   *)

EdgeFlags == {"operEdge", "AdminEdgePort"}
SameEdge(q, r) == \A f \in EdgeFlags : f \in r.on <=> f \in q.on

\* portinfo.c, sttrans.c and roletrns.c have no part in edge detection.
LEMMA OthersEdge ==
  ASSUME NEW q, IsPort(q), NEW b
  PROVE  /\ \A to \in SttransState : SameEdge(q, SttransEnter(q, to))
         /\ \A to \in InfoState : SameEdge(q, InfoEnter(q, b, to))
         /\ \A to \in RoletrnsState : SameEdge(q, RoletrnsEnter(q, b, to))
<1> USE DEF SameEdge, EdgeFlags
<1>1. DOMAIN q = PortField
  BY DEF IsPort
<1>2. ASSUME NEW to \in SttransState
      PROVE  SameEdge(q, SttransEnter(q, to))
  BY <1>1, <1>2, SMT DEF PortField, SttransEnter, SttransState
<1>3. \A f \in EdgeFlags : f \notin Proposal(q) /\ f \notin TcFlags(q)
  BY DEF Proposal, TcFlags, Given
<1>4. ASSUME NEW to \in InfoState
      PROVE  SameEdge(q, InfoEnter(q, b, to))
  <2>1. /\ SameEdge(q, InfoBegin(q)) /\ SameEdge(q, InfoDisabled(q))
        /\ SameEdge(q, InfoAged(q)) /\ SameEdge(q, InfoReceive(q))
        /\ SameEdge(q, [q EXCEPT !.info = "CURRENT"])
        /\ SameEdge(q, [q EXCEPT !.info = "OTHER",
                                 !.on = q.on \ {"rcvdMsg"}])
    BY <1>1, SMT DEF PortField, InfoBegin, InfoDisabled, InfoAged, InfoReceive
  <2>2. SameEdge(q, InfoUpdate(q))
    BY <1>1, SMT DEF PortField, InfoUpdate, Given
  <2>3. SameEdge(q, InfoSuperior(q)) /\ SameEdge(q, InfoRepeated(q))
    BY <1>1, <1>3, SMT DEF PortField, InfoSuperior, InfoRepeated, Given
  <2>4. SameEdge(q, InfoInferior(q)) /\ SameEdge(q, InfoNotDesignated(q, b))
    BY <1>1, <1>3, SMT DEF PortField, InfoInferior, InfoNotDesignated, Given
  <2> HIDE DEF SameEdge
  <2> QED
    BY <2>1, <2>2, <2>3, <2>4 DEF InfoEnter, InfoState
<1>5. ASSUME NEW to \in RoletrnsState
      PROVE  SameEdge(q, RoletrnsEnter(q, b, to))
  <2> DEFINE Gone(off, set) == SameEdge(q, Moved(q, to, off, set))
  <2>1. /\ Gone({}, {}) /\ Gone({"proposed"}, {}) /\ Gone({"reRoot"}, {})
        /\ Gone({}, {"forward"}) /\ Gone({}, {"learn"})
        /\ Gone({"proposed", "sync"}, {"agree", "newInfo"})
        /\ Gone({"proposed"}, {"agree", "newInfo"})
        /\ Gone({}, {"proposing", "newInfo"})
        /\ Gone({"agreed"}, {"forward"} \cup
                             Given("sendRSTP" \in q.on, {"agreed"}))
        /\ Gone({"sync"}, {"synced"}) /\ Gone({"learn", "forward"}, {})
    BY <1>1, SMT DEF PortField, Moved, Given
  <2>2. \A off, set : DOMAIN Moved(q, to, off, set) = PortField
    BY <1>1, SMT DEF Moved
  <2>3. ASSUME NEW r, DOMAIN r = PortField, SameEdge(q, r), NEW t, NEW n
        PROVE  SameEdge(q, Timed(r, t, n))
    BY <2>3, SMT DEF PortField, Timed
  <2>4. /\ SameEdge(q, InitPort(q, b, to)) /\ SameEdge(q, TakeRole(q, to))
        /\ \A delay : SameEdge(q, Retired(q, to, delay))
        /\ SameEdge(q, [q EXCEPT !.roletrns = to, !.role = "DesignatedPort"])
        /\ \A delay : SameEdge(q, [Timed(q, "rrWhile", delay)
                                     EXCEPT !.roletrns = to,
                                            !.role = "RootPort"])
    BY <1>1, SMT DEF PortField, InitPort, TakeRole, Retired, Timed
  <2> HIDE DEF SameEdge
  <2>5. CASE to \in {"BEGIN", "INIT_PORT", "DISABLE_PORT", "BLOCK_PORT",
                     "DISABLED_PORT", "ALTERNATE_PORT", "ROOT_PORT",
                     "DESIGNATED_PORT"}
    BY <2>4, <2>5 DEF RoletrnsEnter
  <2>6. CASE to \in {"ROOT_PROPOSED", "ALTERNATE_PROPOSED", "ROOT_AGREED",
                     "ALTERNATE_AGREED", "REROOT", "REROOTED",
                     "DESIGNATED_RETIRED"}
    BY <2>1, <2>6 DEF RoletrnsEnter
  <2>7. CASE to \in {"ROOT_FORWARD", "ROOT_LEARN", "DESIGNATED_LEARN",
                     "DESIGNATED_PROPOSE", "DESIGNATED_FORWARD",
                     "DESIGNATED_SYNCED", "DESIGNATED_DISCARD",
                     "BACKUP_PORT"}
    BY <2>1, <2>2, <2>3, <2>7 DEF RoletrnsEnter
  <2> QED
    BY <2>5, <2>6, <2>7 DEF RoletrnsState
<1> QED
  BY <1>2, <1>4, <1>5

\* brdgdet.c takes only what the manager calls an edge port for one, and
\* receive.c takes none.
LEMMA DetectedEdge ==
  ASSUME NEW q, IsPort(q), AdminEdge(q)
  PROVE  /\ \A to \in BrdgdetState :
              to = "BEGIN" \/ BrdgdetHop(q, to) =>
                AdminEdge(BrdgdetEnter(q, to))
         /\ \A to \in ReceiveState : AdminEdge(ReceiveEnter(q, to))
<1>1. DOMAIN q = PortField
  BY DEF IsPort
<1>2. ASSUME NEW to \in BrdgdetState, to = "BEGIN" \/ BrdgdetHop(q, to)
      PROVE  AdminEdge(BrdgdetEnter(q, to))
  BY <1>1, <1>2, SMT DEF PortField, AdminEdge, BrdgdetEnter, BrdgdetState,
                         BrdgdetHop
<1>3. ASSUME NEW to \in ReceiveState
      PROVE  AdminEdge(ReceiveEnter(q, to))
  BY <1>1, <1>3, SMT DEF PortField, AdminEdge, ReceiveEnter, BpduVersion,
                         Given
<1> QED
  BY <1>2, <1>3

\* stpm.c, STP_stpm_start keeps the flags of the manager.
LEMMA StartedEdge ==
  ASSUME NEW q, IsPort(q), AdminEdge(q), NEW b, IsBridge(b)
  PROVE  AdminEdge(Started(q, b))
<1> DEFINE q0 == WithoutRole(PortInit(q, b))
           q1 == TransmitEnter(q0, b, "BEGIN")
           q2 == SttransEnter(q1, "BEGIN")
           q3 == RoletrnsEnter(q2, b, "BEGIN")
           q4 == InfoEnter(q3, b, "BEGIN")
           q5 == PcostEnter(q4, "BEGIN")
           q6 == BrdgdetEnter(q5, "BEGIN")
           q7 == P2pEnter(q6, "BEGIN")
           q8 == MigrateEnter(q7, b, "BEGIN")
           q9 == TopochEnter(q8, b, "BEGIN")
           q10 == ReceiveEnter(q9, "BEGIN")
           Fine(r) == IsPort(r) /\ AdminEdge(r)
<1>1. /\ "BEGIN" \in TransmitState /\ "BEGIN" \in SttransState
      /\ "BEGIN" \in RoletrnsState /\ "BEGIN" \in InfoState
      /\ "BEGIN" \in PcostState /\ "BEGIN" \in BrdgdetState
      /\ "BEGIN" \in P2pState /\ "BEGIN" \in MigrateState
      /\ "BEGIN" \in TopochState /\ "BEGIN" \in ReceiveState
  BY DEF TransmitState, SttransState, RoletrnsState, InfoState, PcostState,
         BrdgdetState, P2pState, MigrateState, TopochState, ReceiveState
<1>2. \A r, s : AdminEdge(r) /\ SameEdge(r, s) => AdminEdge(s)
  BY DEF AdminEdge, SameEdge, EdgeFlags
<1>3. Fine(q0)
  <2>1. IsPort(PortInit(q, b)) /\ IsPort(q0)
    BY PortInitType, WithoutRoleType
  <2>2. PortInit(q, b).on = q.on \cup {"portEnabled", "sendRSTP",
                                       "p2p_recompute"}
    BY SMT DEF PortInit, PortReset, IsPort, PortField
  <2>3. WithoutRole(PortInit(q, b)).on = PortInit(q, b).on
    BY <2>1, SMT DEF WithoutRole, IsPort, PortField
  <2> QED
    BY <2>1, <2>2, <2>3 DEF AdminEdge
<1>12. Started(q, b) = q10
  BY DEF Started, Begin
<1> HIDE DEF q0, q1, q2, q3, q4, q5, q6, q7, q8, q9, q10
<1>4. Fine(q1)
  BY <1>1, <1>3, TransmitType, OthersShut, ShutSame DEF q1
<1>5. Fine(q2)
  BY <1>1, <1>2, <1>4, SttransType, OthersEdge DEF q2
<1>6. Fine(q3)
  BY <1>1, <1>2, <1>5, RoletrnsType, OthersEdge DEF q3
<1>7. Fine(q4)
  BY <1>1, <1>2, <1>6, InfoType, OthersEdge DEF q4
<1>8. Fine(q5)
  BY <1>1, <1>7, PcostType, OthersShut, ShutSame DEF q5
<1>9. Fine(q6)
  BY <1>1, <1>8, BrdgdetType, DetectedEdge DEF q6
<1>10. Fine(q8)
  <2>1. Fine(q7)
    BY <1>1, <1>9, P2pType, OthersShut, ShutSame DEF q7
  <2> QED
    BY <1>1, <2>1, MigrateType, OthersShut, ShutSame DEF q8
<1>11. Fine(q9)
  BY <1>1, <1>10, TopochType, OthersShut, ShutSame DEF q9
<1> QED
  BY <1>1, <1>11, <1>12, DetectedEdge DEF q10

\* Whatever the step was, an edge port is still one of the manager's.
LEMMA SteppedEdge ==
  ASSUME TypeOK, NEW p \in Port, Stepped(p),
         p \in Listed(bridge) => AdminEdge(port[p]),
         p \in Listed(bridge) \/ Begun(p)
  PROVE  AdminEdge(port'[p])
<1> DEFINE q == port[p]
           r == port'[p]
<1>1. IsPort(q) /\ IsBridge(bridge)
  BY DEF TypeOK
<1>2. \A s, t : AdminEdge(s) /\ SameEdge(s, t) => AdminEdge(t)
  BY DEF AdminEdge, SameEdge, EdgeFlags
<1>3. CASE Begun(p)
  <2>1. PICK s \in {q, NewPort(p)} : /\ r = Started(s, bridge')
                                     /\ p \in Listed(bridge) \/ s = NewPort(p)
    BY <1>3 DEF Begun
  <2>2. IsPort(s) /\ IsBridge(bridge')
    BY <1>1, <1>3, NewPortType, InitDataType DEF Begun, BridgeOK
  <2>3. AdminEdge(NewPort(p))
    <3>1. NewPort(p).on = Given(InitialPortCfg.edge, {"AdminEdgePort"})
                \cup Given(InitialPortCfg.non_stp, {"admin_non_stp"})
      BY DEF NewPort
    <3> QED
      BY <3>1 DEF AdminEdge, Given
  <2> QED
    BY <2>1, <2>2, <2>3, StartedEdge
<1> SUFFICES ASSUME ~Begun(p), AdminEdge(q)
             PROVE  AdminEdge(r)
  BY <1>3
<1>4. CASE Transited(p)
  <2> HIDE DEF q, r
  <2>1. ASSUME \/ \E to \in TransmitState : r = TransmitEnter(q, bridge, to)
               \/ \E to \in MigrateState : r = MigrateEnter(q, bridge, to)
               \/ \E to \in P2pState : r = P2pEnter(q, to)
               \/ \E to \in TopochState : r = TopochEnter(q, bridge, to)
               \/ \E to \in PcostState : r = PcostEnter(q, to)
        PROVE  AdminEdge(r)
    BY <1>1, <2>1, OthersShut, ShutSame
  <2>2. ASSUME \/ \E to \in SttransState : r = SttransEnter(q, to)
               \/ \E to \in InfoState : r = InfoEnter(q, bridge, to)
        PROVE  AdminEdge(r)
    BY <1>1, <1>2, <2>2, OthersEdge
  <2>3. ASSUME \/ \E to \in BrdgdetState :
                    BrdgdetHop(q, to) /\ r = BrdgdetEnter(q, to)
               \/ \E to \in ReceiveState : r = ReceiveEnter(q, to)
        PROVE  AdminEdge(r)
    BY <1>1, <2>3, DetectedEdge
  <2>4. ASSUME NEW to \in RoletrnsState,
               LET s == RoletrnsEnter(q, bridge, to) IN
               r = [s EXCEPT !.on = s.on \cup RoletrnsBroadcast(to)]
        PROVE  AdminEdge(r)
    <3> DEFINE s == RoletrnsEnter(q, bridge, to)
    <3>1. AdminEdge(s) /\ IsPort(s)
      BY <1>1, <1>2, RoletrnsType, OthersEdge
    <3>2. r = [s EXCEPT !.on = s.on \cup RoletrnsBroadcast(to)]
      BY <2>4
    <3> HIDE DEF s
    <3> QED
      BY <3>1, <3>2, SMT DEF IsPort, PortField, AdminEdge, RoletrnsBroadcast
  <2> QED
    BY <1>4, <2>1, <2>2, <2>3, <2>4 DEF Transited, q, r
<1>5. CASE Told(p)
  <2>1. PICK flags \in SUBSET {"sync", "reRoot", "tcProp"} :
          r = [q EXCEPT !.on = q.on \cup flags]
    BY <1>5 DEF Told
  <2> HIDE DEF q, r
  <2> QED
    BY <1>1, <2>1, SMT DEF IsPort, PortField, AdminEdge
<1>6. CASE Elected(p)
  <2>1. AdminEdge(WithoutRole(q))
    BY <1>1, SMT DEF IsPort, PortField, WithoutRole, AdminEdge
  <2>2. \A c : AdminEdge(WithRole(c, q))
    <3> SUFFICES ASSUME NEW c
                 PROVE  AdminEdge(WithRole(c, q))
      OBVIOUS
    <3>1. CASE "admin_non_stp" \in q.on
      BY <1>1, <3>1, SMT DEF IsPort, PortField, WithRole, WithoutProtocol,
                             AdminEdge
    <3>2. CASE "admin_non_stp" \notin q.on
      BY <1>1, <3>2, SMT DEF IsPort, PortField, WithRole, Given, AdminEdge
    <3> QED
      BY <3>1, <3>2
  <2> QED
    BY <1>6, <2>1, <2>2 DEF Elected
<1>7. CASE Heard(p)
  <2> DEFINE s == [q EXCEPT !.on = q.on \ {"operEdge"}]
  <2>1. "operEdge" \notin s.on /\ DOMAIN s = PortField
    BY <1>1, SMT DEF IsPort, PortField
  <2> HIDE DEF s
  <2>2. \A m : "operEdge" \notin InfoRxBpdu(s, bridge, m).on
    BY <2>1, SMT DEF PortField, InfoRxBpdu
  <2>3. \E m \in Received : r = InfoRxBpdu(s, bridge, m)
    BY <1>7 DEF Heard, s
  <2> QED
    BY <2>2, <2>3 DEF AdminEdge
<1>8. CASE Ticked(p)
  BY <1>1, <1>8, SMT DEF Ticked, IsPort, PortField, AdminEdge
<1>9. CASE Asked(p) \/ Noted(p) \/ PassedOver(p)
  BY <1>9 DEF Asked, Noted, SameState, PassedOver
<1> QED
  BY <1>4, <1>5, <1>6, <1>7, <1>8, <1>9 DEF Stepped

\* The times that matter are those of b.
SameTimesOf(b, c) == /\ c.BridgeTimes.MaxAge = b.BridgeTimes.MaxAge
                     /\ c.BridgeTimes.ForwardDelay = b.BridgeTimes.ForwardDelay

\* _stp_stpm_init_data: a bridge that starts takes its own times.
LEMMA InitDataTimes ==
  ASSUME NEW b, IsBridge(b)
  PROVE  /\ SameTimesOf(b, InitData(b))
         /\ Lasting(b.BridgeTimes) => Lasting(InitData(b).rootTimes)
<1> DEFINE times == [b.BridgeTimes EXCEPT !.MessageAge = 0]
<1>1. /\ times.MaxAge = b.BridgeTimes.MaxAge
      /\ times.ForwardDelay = b.BridgeTimes.ForwardDelay
  BY SMT DEF IsBridge, TimeValues
<1> HIDE DEF times
<1>2. InitData(b).BridgeTimes = times /\ InitData(b).rootTimes = times
  BY SMT DEF IsBridge, BridgeField, InitData, times
<1> QED
  BY <1>1, <1>2 DEF SameTimesOf, Lasting

\* stp_in.c, _check_stpm_config: times that do not last are refused.
LEMMA TimesSteps ==
  ASSUME TypeOK, [Next]_vars, Lasting(bridge.BridgeTimes)
  PROVE  Lasting(bridge'.BridgeTimes)
<1>1. IsBridge(bridge) /\ BridgeOK(bridge)
  BY DEF TypeOK, BridgeOK
<1>2. ASSUME SameTimesOf(bridge, bridge')
      PROVE  Lasting(bridge'.BridgeTimes)
  BY <1>2 DEF SameTimesOf, Lasting
<1>3. bridge' = bridge => SameTimesOf(bridge, bridge')
  BY DEF SameTimesOf
<1>4. ASSUME NEW p \in Listed(bridge),
             \/ TransmitStep(p) \/ SttransStep(p) \/ RoletrnsStep(p)
             \/ InfoStep(p) \/ PcostStep(p) \/ BrdgdetStep(p) \/ P2pStep(p)
             \/ MigrateStep(p) \/ TopochStep(p) \/ ReceiveStep(p)
      PROVE  bridge' = bridge
  BY <1>4
     DEF TransmitStep, SttransStep, RoletrnsStep, InfoStep, PcostStep,
         BrdgdetStep, P2pStep, MigrateStep, TopochStep, ReceiveStep,
         PortMoved, PortMovedAll
<1>5. RoleselStep \/ UpdateReturns => SameTimesOf(bridge, bridge')
  <2>1. /\ \A to : SameTimesOf(bridge, [bridge EXCEPT !.rolesel = to])
        /\ \A change : SameTimesOf(bridge, [bridge EXCEPT
                                              !.Topology_Change = change])
        /\ \A source : SameTimesOf(bridge, WithRoot(bridge, port, source))
    BY <1>1, SMT DEF SameTimesOf, WithRoot, IsBridge, BridgeField
  <2> QED
    BY <1>3, <2>1 DEF RoleselStep, UpdateReturns
<1>6. OneSecond \/ (\E p \in Listed(bridge) : RxBpdu(p)) => bridge' = bridge
  BY DEF OneSecond, Ticks, SetsOnly, RxBpdu, Gets
<1>7. ASSUME StpmSetCfg
      PROVE  Lasting(bridge'.BridgeTimes)
  <2>1. PICK c \in BridgeCfgs :
          LET new == Configured(bridge, Merged(c, CurrentCfg(bridge))) IN
          /\ ValidCfg(CurrentCfg(new))
          /\ bridge' \in {[bridge EXCEPT !.stp_enabled = FALSE], new,
                          InitData([new EXCEPT !.stp_enabled = TRUE])}
    BY <1>7 DEF StpmSetCfg, SetsOnly, Restarts
  <2> DEFINE new == Configured(bridge, Merged(c, CurrentCfg(bridge)))
  <2>2. ASSUME NEW d, IsBridge(d), NEW state \in BOOLEAN
        PROVE  /\ IsBridge([d EXCEPT !.stp_enabled = state])
               /\ SameTimesOf(d, [d EXCEPT !.stp_enabled = state])
    BY <2>2, SMT DEF IsBridge, BridgeField, SameTimesOf
  <2>3. IsBridge(new)
    BY <1>1, <2>1, ConfiguredType DEF BridgeOK
  <2> HIDE DEF new
  <2>4. Lasting(new.BridgeTimes)
    <3>1. /\ CurrentCfg(new).MaxAge = new.BridgeTimes.MaxAge
          /\ CurrentCfg(new).ForwardDelay = new.BridgeTimes.ForwardDelay
      BY SMT DEF CurrentCfg
    <3>2. ValidCfg(CurrentCfg(new))
      BY <2>1 DEF new
    <3> QED
      BY <3>1, <3>2, SMT DEF ValidCfg, Lasting
  <2>5. SameTimesOf(bridge, [bridge EXCEPT !.stp_enabled = FALSE])
    BY <1>1, <2>2
  <2>6. SameTimesOf(new, InitData([new EXCEPT !.stp_enabled = TRUE]))
    BY <2>2, <2>3, InitDataTimes DEF SameTimesOf
  <2>7. bridge' \in {[bridge EXCEPT !.stp_enabled = FALSE], new,
                     InitData([new EXCEPT !.stp_enabled = TRUE])}
    BY <2>1 DEF new
  <2> QED
    BY <1>2, <2>4, <2>5, <2>6, <2>7 DEF SameTimesOf, Lasting
<1>8. ASSUME NEW x \in Port, PortCreate(x) \/ PortDelete(x)
      PROVE  SameTimesOf(bridge, bridge')
  <2> DEFINE created == <<x>> \o bridge.ports
             closed(n) == [i \in 1 .. Len(bridge.ports) - 1 |->
                             bridge.ports[IF i < n THEN i ELSE i + 1]]
  <2>1. PICK list \in {created} \cup {closed(n) : n \in DOMAIN bridge.ports},
             addr \in 0 .. MacSpan - 1 :
          bridge' = InitData([bridge EXCEPT !.ports = list, !.addr = addr])
    BY <1>8 DEF PortCreate, PortDelete, Restarts
  <2>2. list \in Seq(Port)
    BY <1>1, ListType DEF BridgeOK
  <2>3. addr \in Nat
    BY SMT DEF MacSpan
  <2>4. IsBridge([bridge EXCEPT !.ports = list, !.addr = addr])
    BY <1>1, <2>2, <2>3, RelistedType DEF BridgeOK
  <2>5. SameTimesOf(bridge, [bridge EXCEPT !.ports = list, !.addr = addr])
    BY <1>1, SMT DEF SameTimesOf, IsBridge, BridgeField
  <2> QED
    BY <2>1, <2>4, <2>5, InitDataTimes DEF SameTimesOf
<1>9. ASSUME NEW p \in Listed(bridge),
             \/ SetPortCfg(p) \/ ChangedPortSpeed(p) \/ ChangedPortDuplex(p)
             \/ \E enable \in BOOLEAN : EnablePort(p, enable)
      PROVE  bridge' = bridge
  BY <1>9 DEF SetPortCfg, SetPortCfgFails, SetPortCfgSucceeds,
              ChangedPortSpeed, ChangedPortDuplex, EnablePort, LinkIs,
              EntersAndReturns
<1>10. Listed(bridge) \subseteq Port
  BY <1>1, ListedPorts DEF BridgeOK
<1> QED
  BY <1>2, <1>3, <1>4, <1>5, <1>6, <1>7, <1>8, <1>9, <1>10
     DEF Next, MachineStep, Management, vars

-----------------------------------------------------------------------------
(* The restart.                                                            *)

\* A machine's step during a restart leaves a port as shut as it was.
LEMMA SteppedShut ==
  ASSUME TypeOK, NEW p \in Listed(bridge), Stepped(p), call = "restart",
         Shut(port[p]), AdminEdge(port[p]), InService(port[p]),
         Lasting(bridge.rootTimes)
  PROVE  Shut(port'[p])
<1> DEFINE q == port[p]
           r == port'[p]
<1>1. IsPort(q) /\ IsBridge(bridge)
  BY ListedPorts DEF TypeOK
<1>2. CASE Transited(p)
  <2> HIDE DEF q, r
  <2>0. Shut(q) /\ AdminEdge(q) /\ InService(q)
    BY DEF q
  <2>1. ASSUME \/ \E to \in TransmitState : r = TransmitEnter(q, bridge, to)
               \/ \E to \in MigrateState : r = MigrateEnter(q, bridge, to)
               \/ \E to \in P2pState : r = P2pEnter(q, to)
               \/ \E to \in TopochState : r = TopochEnter(q, bridge, to)
               \/ \E to \in PcostState : r = PcostEnter(q, to)
        PROVE  Shut(r)
    BY <1>1, <2>0, <2>1, OthersShut, ShutSame
  <2>2. ASSUME NEW to \in SttransState, SttransHop(q, to),
               r = SttransEnter(q, to)
        PROVE  Shut(r)
    BY <1>1, <2>0, <2>2, SttransShut
  <2>3. ASSUME NEW to \in InfoState, InfoHop(q, to),
               r = InfoEnter(q, bridge, to)
        PROVE  Shut(r)
    BY <1>1, <2>0, <2>3, InfoShut
  <2>4. ASSUME NEW to \in BrdgdetState, BrdgdetHop(q, to),
               r = BrdgdetEnter(q, to)
        PROVE  Shut(r)
    BY <1>1, <2>0, <2>4, BrdgdetShut
  <2>5. ASSUME NEW to \in ReceiveState, ReceiveHop(q, to),
               r = ReceiveEnter(q, to)
        PROVE  Shut(r)
    BY <1>1, <2>0, <2>5, ReceiveShut
  <2>6. ASSUME NEW to \in RoletrnsState,
               RoletrnsHop(q, bridge, Others(p), to),
               LET s == RoletrnsEnter(q, bridge, to) IN
               r = [s EXCEPT !.on = s.on \cup RoletrnsBroadcast(to)]
        PROVE  Shut(r)
    BY <1>1, <2>0, <2>6, RoletrnsShut
  <2> QED
    BY <1>2, <2>1, <2>2, <2>3, <2>4, <2>5, <2>6 DEF Transited, q, r
<1>3. CASE Told(p)
  <2>1. PICK flags \in SUBSET {"sync", "reRoot", "tcProp"} :
          r = [q EXCEPT !.on = q.on \cup flags]
    BY <1>3 DEF Told
  <2>2. Shut(q)
    OBVIOUS
  <2> HIDE DEF q, r
  <2>3. SameShut(q, r)
    BY <1>1, <2>1, SMT DEF IsPort, PortField, SameShut, RelayFlags
  <2> QED
    BY <2>2, <2>3, ShutSame DEF r
<1>4. CASE Elected(p)
  BY <1>1, <1>4, RoleselShut DEF Elected
<1>5. CASE Noted(p) \/ PassedOver(p)
  <2>1. SameShut(q, r)
    BY <1>5 DEF Noted, PassedOver, SameState, SameShut, RelayFlags, Flag
  <2> QED
    BY <2>1, ShutSame
<1> QED
  BY <1>2, <1>3, <1>4, <1>5 DEF Stepped, Begun, Ticked, Heard, Asked

\* rolesel.c: with nothing heard, the bridge is the root with its own times.
LEMMA RestartTimes ==
  ASSUME TypeOK, [Next]_vars, call = "restart", RestartShuts,
         Lasting(bridge.BridgeTimes), Lasting(bridge'.BridgeTimes)
  PROVE  Lasting(bridge'.rootTimes)
<1>1. IsBridge(bridge) /\ Lasting(bridge.rootTimes)
  BY DEF TypeOK, RestartShuts
<1>2. CASE RootStays
  BY <1>1, <1>2 DEF RootStays, SameRoot
<1>3. CASE bridge' = [bridge EXCEPT !.rolesel = "INIT_BRIDGE"]
  BY <1>1, <1>3, SMT DEF IsBridge, BridgeField
<1>4. CASE bridge' = WithRoot(bridge, port, BestSource(bridge, port))
  <2>1. BestSource(bridge, port) = 0
    <3>1. \A x \in Listed(bridge) : ~Offers(port[x])
      BY DEF RestartShuts, Shut, Deaf, Offers
    <3> QED
      BY <1>1, <3>1, SourceOffers
  <2>2. WithRoot(bridge, port, 0).rootTimes = bridge.BridgeTimes
    BY <1>1, SMT DEF WithRoot, IsBridge, BridgeField
  <2> QED
    BY <1>4, <2>1, <2>2
<1>5. ASSUME NEW b, BridgeOK(b), bridge' = InitData(b)
      PROVE  Lasting(bridge'.rootTimes)
  <2>1. Lasting(b.BridgeTimes)
    BY <1>5, InitDataTimes DEF BridgeOK, SameTimesOf, Lasting
  <2> QED
    BY <1>5, <2>1, InitDataTimes DEF BridgeOK
<1> QED
  BY <1>2, <1>3, <1>4, <1>5, BridgeSteps

\* A restart is in progress only if one has begun, or goes on.
LEMMA RestartGoesOn ==
  ASSUME [Next]_vars, call' = "restart", call # "none"
  PROVE  call = "restart"
<1>1. ASSUME MachineStep
      PROVE  call' = call \/ call' = "none"
  BY <1>1 DEF MachineStep, TransmitStep, SttransStep, RoletrnsStep,
              InfoStep, PcostStep, BrdgdetStep, P2pStep, MigrateStep,
              TopochStep, ReceiveStep, PortMoved, PortMovedAll, RoleselStep,
              UpdateReturns
<1>2. OneSecond \/ (\E p \in Listed(bridge) : RxBpdu(p)) => call = "none"
  BY DEF OneSecond, Ticks, SetsOnly, RxBpdu, Gets, Enters
<1>3. Management => call = "none"
  BY DEF Management, StpmSetCfg, SetsOnly, Restarts, Enters,
         EntersAndReturns, PortCreate, PortDelete, SetPortCfg,
         SetPortCfgFails, SetPortCfgSucceeds, ChangedPortSpeed,
         ChangedPortDuplex, EnablePort, LinkIs
<1> QED
  BY <1>1, <1>2, <1>3 DEF Next, vars

(***************************************************************************)
(* An operational edge port is always one that the manager declared: only  *)
(* AdminEdgePort makes one, and a BPDU ends it (brdgdet.c, receive.c,      *)
(* stp_in.c).                                                              *)
(***************************************************************************)
THEOREM EdgesAlwaysAdmin == Spec => []EveryEdgeAdmin
<1>1. Init => EveryEdgeAdmin
  <2> SUFFICES ASSUME Init, NEW p \in Listed(bridge)
               PROVE  AdminEdge(port[p])
    BY DEF EveryEdgeAdmin
  <2>1. IsBridge(bridge) /\ p \in Port
    BY InitType, ListedPorts DEF TypeOK
  <2>2. port[p] = Started(NewPort(p), bridge)
    BY <2>1 DEF Init, AllStarted
  <2>3. NewPort(p).on = Given(InitialPortCfg.edge, {"AdminEdgePort"})
              \cup Given(InitialPortCfg.non_stp, {"admin_non_stp"})
    BY DEF NewPort
  <2>4. AdminEdge(NewPort(p))
    BY <2>3 DEF AdminEdge, Given
  <2> QED
    BY <2>1, <2>2, <2>4, NewPortType, StartedEdge
<1>2. TypeOK /\ EveryPortInService /\ EveryEdgeAdmin /\ [Next]_vars /\ TypeOK'
      => EveryEdgeAdmin'
  <2> SUFFICES ASSUME TypeOK, EveryPortInService, EveryEdgeAdmin,
                      [Next]_vars, TypeOK', NEW p \in Listed(bridge)'
               PROVE  AdminEdge(port'[p])
    BY DEF EveryEdgeAdmin
  <2>1. p \in Port
    BY ListedPorts DEF TypeOK
  <2>2. Stepped(p)
    BY PortSteps
  <2>3. p \in Listed(bridge) \/ Begun(p)
    BY <2>2, SteppedListed
  <2> QED
    BY <2>1, <2>2, <2>3, SteppedEdge DEF EveryEdgeAdmin
<1> QED
  BY <1>1, <1>2, TypeCorrect, AlwaysInService, PTL DEF Spec

(***************************************************************************)
(* Restarting the machines leaves no port forwarding but edge ports and    *)
(* ports outside the protocol, whatever any of them did before: until the  *)
(* update ends every other port waits for a forward delay that has not     *)
(* begun to run, trusts nobody, and has heard nothing that could make it   *)
(* the root port.  The hypothesis is about the configuration a bridge is   *)
(* created with, which STP_IN_stpm_create does not check (stpm.c,          *)
(* roletrns.c, portinfo.c).                                                *)
(***************************************************************************)
THEOREM RestartAlwaysBlocks ==
  ASSUME ValidCfg(InitialCfg)
  PROVE  Spec => RestartBlocks
<1> DEFINE Times == Lasting(bridge.BridgeTimes)
<1>1. Init => Times /\ RestartShuts
  <2> SUFFICES ASSUME Init
               PROVE  Times /\ RestartShuts
    OBVIOUS
  <2>1. PICK addr \in 0 .. MacSpan - 1 : bridge = CreatedBridge(addr)
    BY DEF Init
  <2>2. InitialCfg.MaxAge > 0 /\ InitialCfg.ForwardDelay > 0
    BY SMT DEF ValidCfg
  <2>3. /\ bridge.BridgeTimes.MaxAge = InitialCfg.MaxAge
        /\ bridge.BridgeTimes.ForwardDelay = InitialCfg.ForwardDelay
        /\ bridge.rootTimes.MaxAge = InitialCfg.MaxAge
        /\ bridge.rootTimes.ForwardDelay = InitialCfg.ForwardDelay
    BY <2>1, SMT DEF CreatedBridge, InitData
  <2>4. Times /\ Lasting(bridge.rootTimes)
    BY <2>2, <2>3 DEF Lasting
  <2>5. IsBridge(bridge) /\ Listed(bridge) \subseteq Port
    BY InitType, ListedPorts DEF TypeOK
  <2>6. ASSUME NEW p \in Listed(bridge)
        PROVE  Shut(port[p])
    <3>1. p \in Port /\ port[p] = Started(NewPort(p), bridge)
      BY <2>5 DEF Init, AllStarted
    <3> QED
      BY <2>4, <2>5, <3>1, NewPortType, StartedShut
  <2> QED
    BY <2>4, <2>6 DEF RestartShuts
<1>2. TypeOK /\ EveryPortInService /\ EveryEdgeAdmin /\ Times /\ RestartShuts
        /\ [Next]_vars /\ TypeOK'
      => (Times /\ RestartShuts)'
  <2> SUFFICES ASSUME TypeOK, EveryPortInService, EveryEdgeAdmin, Times,
                      RestartShuts, [Next]_vars, TypeOK'
               PROVE  Times' /\ RestartShuts'
    OBVIOUS
  <2>1. Lasting(bridge'.BridgeTimes)
    BY TimesSteps
  <2>2. ASSUME call = "none", call' = "restart"
        PROVE  RestartShuts'
    <3>1. PICK b : BridgeOK(b) /\ bridge' = InitData(b)
      BY <2>2, RestartBegins
    <3>2. Lasting(bridge'.rootTimes)
      BY <2>1, <3>1, InitDataTimes DEF BridgeOK, SameTimesOf, Lasting
    <3>3. ASSUME NEW p \in Listed(bridge)'
          PROVE  Shut(port'[p])
      <4>1. PICK q : IsPort(q) /\ port'[p] = Started(q, bridge')
        BY <2>2, RestartBegins
      <4>2. IsBridge(bridge')
        BY DEF TypeOK
      <4> QED
        BY <3>2, <4>1, <4>2, StartedShut
    <3> QED
      BY <3>2, <3>3 DEF RestartShuts
  <2>3. ASSUME call # "none", call' = "restart"
        PROVE  RestartShuts'
    <3>1. call = "restart"
      BY <2>3, RestartGoesOn
    <3>2. Lasting(bridge'.rootTimes)
      BY <2>1, <3>1, RestartTimes
    <3>3. ASSUME NEW p \in Listed(bridge)'
          PROVE  Shut(port'[p])
      <4>1. Stepped(p)
        BY PortSteps
      <4>2. p \in Listed(bridge)
        BY <2>3, <4>1, SteppedListed DEF Begun
      <4> QED
        BY <3>1, <4>1, <4>2, SteppedShut
           DEF RestartShuts, EveryEdgeAdmin, EveryPortInService
    <3> QED
      BY <3>2, <3>3 DEF RestartShuts
  <2> QED
    BY <2>1, <2>2, <2>3 DEF RestartShuts
<1>3. RestartShuts /\ [Next]_vars
      => (call = "restart" /\ call' = "none" =>
            \A p \in Listed(bridge) :
              On(p, "forwarding") => On(p, "operEdge") \/ ~Stp(p))
  BY DEF RestartShuts, Shut, Waits, RelayFlags, On, Stp
<1> QED
  BY <1>1, <1>2, <1>3, TypeCorrect, AlwaysInService, EdgesAlwaysAdmin, PTL
     DEF Spec, RestartBlocks

-----------------------------------------------------------------------------
(***************************************************************************)
(* What a port advertises.  A port whose information was superseded keeps  *)
(* its role until roletrns.c takes the new one, and the transmit machine   *)
(* comes first in the list of a port.  What keeps it from advertising what *)
(* it heard is that the information machine had its turn only when the     *)
(* transmit machine had nothing to send, and that nothing gives it         *)
(* something to send until the role is taken.                              *)
(***************************************************************************)

\* roletrns.c: the states of a designated port.
DesignatedPlaces == DesignatedStates \cup {"DESIGNATED_PORT"}

\* transmit.c: the machine has nothing to send.
Mute(q) ==
  /\ q.transmit = "IDLE" /\ q.timer["helloWhen"] # 0
  /\ "newInfo" \in q.on => q.timer["txCount"] >= TxHoldCount

\* The port takes part in the protocol, and is mute if it is designated.
Polite(q) ==
  /\ "admin_non_stp" \notin q.on
  /\ q.roletrns \in DesignatedPlaces => q.role = "DesignatedPort" /\ Mute(q)

\* portinfo.c: a port that has not been in service yet.
Unstarted(q) ==
  q.info \in {"BEGIN", "DISABLED"} =>
    /\ q.infoIs = "Disabled" /\ q.roletrns \notin DesignatedPlaces
    /\ "selected" \in q.on => q.selectedRole # "DesignatedPort"

\* receive.c: a BPDU has arrived, and the machine has not taken it.
Arrived(q) ==
  "rcvdBPDU" \in q.on =>
    /\ "admin_non_stp" \notin q.on /\ "operEdge" \notin q.on
    /\ q.brdgdet # "BEGIN"

\* stpm.c: the first place of a port in the list, and the machines that are
\* looked at before the information machine of the port.
ListPlace(p) == CHOOSE n \in DOMAIN bridge.ports : bridge.ports[n] = p

Earlier(p) ==
  {RoleselMachine}
    \cup {Machine(kind, p) : kind \in {"transmit", "sttrans", "roletrns"}}
    \cup {Machine(MachineOrder[i], bridge.ports[n]) :
            i \in DOMAIN MachineOrder,
            n \in {l \in 1 .. ListPlace(p) - 1 : bridge.ports[l] # p}}

NothingEarlier(p) == \A m \in Earlier(p) : ~Ready(m)

\* receive.c has handed the BPDU over, and the information machine is next.
HandedOver(p) ==
  "rcvdMsg" \in port[p].on /\ port[p].info # "RECEIVE" =>
    /\ InTurn("receive", p) /\ port[p].receive = "RECEIVE"
    /\ port[p].info = "CURRENT" /\ Settled(port[p]) /\ Polite(port[p])
    /\ NothingEarlier(p)

\* portinfo.c compares the BPDU with what the port holds.
Examined(p) == port[p].info = "RECEIVE" => Polite(port[p])

\* What the port holds was heard, and it has still its role of designated port.
Superseded(p) ==
  port[p].infoIs = "Received" /\ port[p].roletrns \in DesignatedPlaces =>
    Polite(port[p]) /\ ~InTurn("topoch", p)

\* No call is in progress.
Unhurried(p) ==
  call = "none" =>
    /\ "rcvdBPDU" \notin port[p].on /\ "rcvdMsg" \notin port[p].on
    /\ port[p].brdgdet # "BEGIN"
    /\ port[p].infoIs = "Received" => port[p].roletrns \notin DesignatedPlaces

HelloPort(p) ==
  /\ Unstarted(port[p]) /\ Arrived(port[p])
  /\ InTurn("receive", p) => "rcvdBPDU" \notin port[p].on
  /\ HandedOver(p) /\ Examined(p) /\ Superseded(p) /\ Unhurried(p)

EveryHelloFit == \A p \in Listed(bridge) : HelloPort(p)

-----------------------------------------------------------------------------
(* Whose turn it is.                                                       *)

\* stp_in.c: while an entry point is in progress no other is called.
LEMMA OnlyMachines ==
  ASSUME [Next]_vars, call # "none"
  PROVE  MachineStep \/ UNCHANGED vars
<1>1. ~OneSecond /\ ~(\E x \in Listed(bridge) : RxBpdu(x))
  BY DEF OneSecond, Ticks, SetsOnly, RxBpdu, Gets, Enters
<1>2. ~Management
  BY DEF Management, StpmSetCfg, SetsOnly, Restarts, Enters,
         EntersAndReturns, PortCreate, PortDelete, SetPortCfg,
         SetPortCfgFails, SetPortCfgSucceeds, ChangedPortSpeed,
         ChangedPortDuplex, EnablePort, LinkIs
<1> QED
  BY <1>1, <1>2 DEF Next

\* statmch.c: the machine that has the turn after a step made the step.
LEMMA ReceiveTook ==
  ASSUME [Next]_vars, NEW p, InTurn("receive", p)'
  PROVE  ReceiveStep(p) \/ UNCHANGED vars
<1>1. running' = Machine("receive", p) /\ call' # "none"
  BY DEF InTurn
<1>2. ASSUME NEW kind, NEW x, NEW q, PortMoved(kind, x, q)
      PROVE  kind = "receive" /\ x = p
  BY <1>1, <1>2 DEF PortMoved, Machine
<1>3. ASSUME NEW kind, NEW x, NEW q, NEW flags, PortMovedAll(kind, x, q, flags)
      PROVE  kind = "receive"
  BY <1>1, <1>3 DEF PortMovedAll, Machine
<1>4. ASSUME NEW x,
             \/ TransmitStep(x) \/ SttransStep(x) \/ RoletrnsStep(x)
             \/ InfoStep(x) \/ PcostStep(x) \/ BrdgdetStep(x) \/ P2pStep(x)
             \/ MigrateStep(x) \/ TopochStep(x) \/ ReceiveStep(x)
      PROVE  ReceiveStep(x) /\ x = p
  BY <1>2, <1>3, <1>4
     DEF TransmitStep, SttransStep, RoletrnsStep, InfoStep, PcostStep,
         BrdgdetStep, P2pStep, MigrateStep, TopochStep, ReceiveStep
<1>5. ~RoleselStep /\ ~UpdateReturns
  BY <1>1 DEF RoleselStep, UpdateReturns, RoleselMachine, NoMachine, Machine
<1>6. call # "none" \/ UNCHANGED vars
  BY <1>1, TurnTaken DEF Turn
<1> QED
  BY <1>4, <1>5, <1>6, OnlyMachines DEF MachineStep

\* stpm.c: a machine that is not earlier than the information machine of a
\* port is that machine or comes after it.
LEMMA EarlierOrLater ==
  ASSUME IsBridge(bridge), NEW p \in Listed(bridge), NEW x \in Listed(bridge),
         NEW j \in DOMAIN MachineOrder
  PROVE  LET m == Machine(MachineOrder[j], x) IN
         \/ m \in Earlier(p) \/ m = Machine("info", p)
         \/ Machine("info", p) \in Before(m)
<1> DEFINE m == Machine(MachineOrder[j], x)
           Place(kind) == CHOOSE k \in DOMAIN MachineOrder :
                            MachineOrder[k] = kind
<1>1. /\ DOMAIN MachineOrder = 1 .. 10
      /\ MachineOrder[1] = "transmit" /\ MachineOrder[2] = "sttrans"
      /\ MachineOrder[3] = "roletrns" /\ MachineOrder[4] = "info"
  BY SMT DEF MachineOrder
<1>2. /\ DOMAIN bridge.ports = 1 .. Len(bridge.ports)
      /\ Len(bridge.ports) \in Nat
  BY SMT DEF IsBridge
<1>3. \A y \in Listed(bridge) : /\ ListPlace(y) \in DOMAIN bridge.ports
                               /\ bridge.ports[ListPlace(y)] = y
  BY DEF Listed, ListPlace
<1>4. m # RoleselMachine /\ m.port = x /\ m.machine = MachineOrder[j]
  <2>1. \A k \in 1 .. 10 : MachineOrder[k] # "rolesel"
    BY SMT DEF MachineOrder
  <2> QED
    BY <1>1, <2>1 DEF Machine, RoleselMachine
<1>5. CASE x = p
  <2>1. CASE j < 4
    <3>1. MachineOrder[j] \in {"transmit", "sttrans", "roletrns"}
      BY <1>1, <2>1, SMT
    <3> QED
      BY <1>5, <3>1 DEF Earlier
  <2>2. CASE j > 4
    <3>1. \A k, l \in 1 .. 10 : MachineOrder[k] = MachineOrder[l] => k = l
      BY SMT DEF MachineOrder
    <3>2. Place(m.machine) = j
      BY <1>1, <1>4, <3>1
    <3>3. 4 \in 1 .. j - 1
      BY <1>1, <2>2, SMT
    <3> DEFINE n == Place(m.machine)
               Mine == {Machine(MachineOrder[k], m.port) : k \in 1 .. n - 1}
    <3>4. Mine \subseteq Before(m)
      BY <1>4 DEF Before
    <3>5. Machine(MachineOrder[4], m.port) \in Mine
      BY <3>2, <3>3
    <3> QED
      BY <1>1, <1>4, <1>5, <3>4, <3>5
  <2> QED
    BY <1>1, <1>5, <2>1, <2>2, SMT
<1>6. CASE x # p
  <2>1. /\ ListPlace(p) \in Nat /\ ListPlace(x) \in Nat
        /\ ListPlace(p) >= 1 /\ ListPlace(x) >= 1
        /\ ListPlace(p) # ListPlace(x)
    BY <1>2, <1>3, <1>6, SMT
  <2>2. CASE ListPlace(x) < ListPlace(p)
    <3>1. ListPlace(x) \in 1 .. ListPlace(p) - 1
      BY <2>1, <2>2, SMT
    <3>2. ListPlace(x) \in {l \in 1 .. ListPlace(p) - 1 : bridge.ports[l] # p}
      BY <1>3, <1>6, <3>1
    <3> DEFINE Ports == {Machine(MachineOrder[i], bridge.ports[n]) :
                 i \in DOMAIN MachineOrder,
                 n \in {l \in 1 .. ListPlace(p) - 1 : bridge.ports[l] # p}}
    <3>3. Machine(MachineOrder[j], bridge.ports[ListPlace(x)]) \in Ports
      BY <3>2
    <3>4. Ports \subseteq Earlier(p)
      BY DEF Earlier
    <3> QED
      BY <1>3, <3>3, <3>4
  <2>3. CASE ListPlace(p) < ListPlace(x)
    <3>1. ListPlace(p) \in 1 .. ListPlace(x) - 1
      BY <2>1, <2>3, SMT
    <3> DEFINE Ports == {Machine(MachineOrder[i], bridge.ports[n]) :
                           i \in DOMAIN MachineOrder,
                           n \in 1 .. ListPlace(m.port) - 1}
    <3>2. Ports \subseteq Before(m)
      BY <1>4 DEF Before, ListPlace
    <3>3. 4 \in DOMAIN MachineOrder
      BY <1>1, SMT
    <3>4. Machine(MachineOrder[4], bridge.ports[ListPlace(p)]) \in Ports
      BY <1>4, <3>1, <3>3
    <3> QED
      BY <1>1, <1>3, <3>2, <3>4
  <2> QED
    BY <2>1, <2>2, <2>3, SMT
<1> QED
  BY <1>5, <1>6

-----------------------------------------------------------------------------
(* What the machines leave alone.                                          *)

\* What the transmit machine reads of the port but for its role.
SameMute(q, r) ==
  /\ q.transmit = r.transmit
  /\ \A t \in {"helloWhen", "txCount"} : q.timer[t] = r.timer[t]
  /\ "newInfo" \in q.on <=> "newInfo" \in r.on

\* What belongs to a BPDU that has arrived, and to the edge it arrived on.
SameArrival(q, r) ==
  /\ q.brdgdet = r.brdgdet
  /\ \A f \in {"rcvdBPDU", "rcvdMsg", "operEdge", "admin_non_stp"} :
       f \in q.on <=> f \in r.on

\* transmit.c and topoch.c send and count, and leave what arrived alone; the
\* path cost, the link and the migration are about neither.
LEMMA OthersHello ==
  ASSUME NEW q, IsPort(q), NEW b
  PROVE  /\ \A to \in TransmitState : SameArrival(q, TransmitEnter(q, b, to))
         /\ \A to \in TopochState : SameArrival(q, TopochEnter(q, b, to))
         /\ \A to \in SttransState :
              LET r == SttransEnter(q, to) IN SameArrival(q, r) /\ SameMute(q, r)
         /\ \A to \in P2pState :
              LET r == P2pEnter(q, to) IN SameArrival(q, r) /\ SameMute(q, r)
         /\ \A to \in PcostState :
              LET r == PcostEnter(q, to) IN SameArrival(q, r) /\ SameMute(q, r)
         /\ \A to \in MigrateState :
              LET r == MigrateEnter(q, b, to) IN
              SameArrival(q, r) /\ SameMute(q, r)
<1> USE DEF IsPort, PortField, Timer, SameArrival, SameMute
<1>1. \A to \in TransmitState : SameArrival(q, TransmitEnter(q, b, to))
  BY SMT DEF TransmitEnter, TransmitState, Given
<1>2. \A to \in TopochState : SameArrival(q, TopochEnter(q, b, to))
  BY SMT DEF TopochEnter, TopochState, NewTcInfo, Given, Inactive
<1>3. ASSUME NEW to \in SttransState
      PROVE  SameArrival(q, SttransEnter(q, to))
             /\ SameMute(q, SttransEnter(q, to))
  BY SMT DEF SttransEnter, SttransState
<1>4. ASSUME NEW to \in P2pState
      PROVE  SameArrival(q, P2pEnter(q, to)) /\ SameMute(q, P2pEnter(q, to))
  BY SMT DEF P2pEnter, P2pState, Given
<1>5. ASSUME NEW to \in PcostState
      PROVE  SameArrival(q, PcostEnter(q, to))
             /\ SameMute(q, PcostEnter(q, to))
  BY SMT DEF PcostEnter, PcostState
<1>6. ASSUME NEW to \in MigrateState
      PROVE  SameArrival(q, MigrateEnter(q, b, to))
             /\ SameMute(q, MigrateEnter(q, b, to))
  BY SMT DEF MigrateEnter, MigrateState, Given
<1> QED
  BY <1>1, <1>2, <1>3, <1>4, <1>5, <1>6

\* brdgdet.c detects the edge, receive.c takes the BPDU over.
LEMMA ArrivalHello ==
  ASSUME NEW q, IsPort(q), NEW b
  PROVE  /\ \A to \in BrdgdetState :
              LET r == BrdgdetEnter(q, to) IN
              /\ SameMute(q, r) /\ r.brdgdet = to
              /\ to = "NOT_EDGE" => "operEdge" \notin r.on
              /\ \A f \in {"rcvdBPDU", "rcvdMsg", "admin_non_stp"} :
                   f \in q.on <=> f \in r.on
         /\ \A to \in ReceiveState :
              LET r == ReceiveEnter(q, to) IN
              /\ SameMute(q, r) /\ r.receive = to /\ "rcvdBPDU" \notin r.on
              /\ to # "RECEIVE" => "rcvdMsg" \notin r.on
<1> USE DEF IsPort, PortField, Timer, SameMute
<1>1. ASSUME NEW to \in BrdgdetState
      PROVE  LET r == BrdgdetEnter(q, to) IN
             /\ SameMute(q, r) /\ r.brdgdet = to
             /\ to = "NOT_EDGE" => "operEdge" \notin r.on
             /\ \A f \in {"rcvdBPDU", "rcvdMsg", "admin_non_stp"} :
                  f \in q.on <=> f \in r.on
  BY SMT DEF BrdgdetEnter, BrdgdetState
<1>2. ASSUME NEW to \in ReceiveState
      PROVE  LET r == ReceiveEnter(q, to) IN
             /\ SameMute(q, r) /\ r.receive = to /\ "rcvdBPDU" \notin r.on
             /\ to # "RECEIVE" => "rcvdMsg" \notin r.on
  BY SMT DEF ReceiveEnter, ReceiveState, BpduVersion, Given
<1> QED
  BY <1>1, <1>2

\* portinfo.c gives the transmit machine something to send only when the
\* port takes the information of its own bridge, and done with a BPDU it has
\* it no longer.
LEMMA InfoHello ==
  ASSUME NEW q, IsPort(q), NEW b, NEW to \in InfoState \ {"BEGIN"}
  PROVE  LET r == InfoEnter(q, b, to) IN
         /\ r.brdgdet = q.brdgdet
         /\ \A f \in {"rcvdBPDU", "operEdge", "admin_non_stp"} :
              f \in q.on <=> f \in r.on
         /\ "rcvdMsg" \in r.on => "rcvdMsg" \in q.on
         /\ to \in {"SUPERIOR_DESIGNATED", "REPEATED_DESIGNATED",
                    "INFERIOR_DESIGNATED", "NOT_DESIGNATED", "OTHER"}
              => "rcvdMsg" \notin r.on
         /\ to # "UPDATE" => SameMute(q, r)
         /\ to = "UPDATE" => r.infoIs = "Mine"
         /\ to \in {"DISABLED", "AGED", "UPDATE"} => r.infoIs # "Received"
         /\ to \notin {"DISABLED", "AGED", "UPDATE", "SUPERIOR_DESIGNATED"}
              => r.infoIs = q.infoIs
<1> DEFINE Kept(r) == /\ r.brdgdet = q.brdgdet
                      /\ \A f \in {"rcvdBPDU", "operEdge", "admin_non_stp"} :
                           f \in q.on <=> f \in r.on
           Clean(r) == Kept(r) /\ SameMute(q, r) /\ "rcvdMsg" \notin r.on
           Left(r) == Kept(r) /\ SameMute(q, r)
                      /\ ("rcvdMsg" \in r.on => "rcvdMsg" \in q.on)
<1> USE DEF IsPort, PortField, Timer, SameMute
<1>1. \A f \in {"rcvdBPDU", "operEdge", "admin_non_stp", "rcvdMsg",
                "newInfo"} : f \notin Proposal(q) /\ f \notin TcFlags(q)
  BY DEF Proposal, TcFlags, Given
<1>2. /\ Left(InfoDisabled(q)) /\ InfoDisabled(q).infoIs = "Disabled"
      /\ Left(InfoAged(q)) /\ InfoAged(q).infoIs = "Aged"
  BY SMT DEF InfoDisabled, InfoAged
<1>3. LET r == InfoUpdate(q) IN
      /\ Kept(r) /\ r.infoIs = "Mine"
      /\ "rcvdMsg" \in r.on => "rcvdMsg" \in q.on
  BY SMT DEF InfoUpdate, Given
<1>4. /\ Left([q EXCEPT !.info = "CURRENT"])
      /\ [q EXCEPT !.info = "CURRENT"].infoIs = q.infoIs
      /\ Left(InfoReceive(q)) /\ InfoReceive(q).infoIs = q.infoIs
  BY SMT DEF InfoReceive
<1>5. /\ Clean(InfoSuperior(q))
      /\ Clean(InfoRepeated(q)) /\ InfoRepeated(q).infoIs = q.infoIs
  BY <1>1, SMT DEF InfoSuperior, InfoRepeated, Given
<1>6. /\ Clean(InfoInferior(q)) /\ InfoInferior(q).infoIs = q.infoIs
      /\ LET r == InfoNotDesignated(q, b) IN Clean(r) /\ r.infoIs = q.infoIs
      /\ LET r == [q EXCEPT !.info = "OTHER", !.on = q.on \ {"rcvdMsg"}] IN
         Clean(r) /\ r.infoIs = q.infoIs
  BY <1>1, SMT DEF InfoInferior, InfoNotDesignated, Given
<1> DEFINE Becomes(r) ==
             /\ Kept(r)
             /\ "rcvdMsg" \in r.on => "rcvdMsg" \in q.on
             /\ to \in {"SUPERIOR_DESIGNATED", "REPEATED_DESIGNATED",
                        "INFERIOR_DESIGNATED", "NOT_DESIGNATED", "OTHER"}
                  => "rcvdMsg" \notin r.on
             /\ to # "UPDATE" => SameMute(q, r)
             /\ to = "UPDATE" => r.infoIs = "Mine"
             /\ to \in {"DISABLED", "AGED", "UPDATE"} => r.infoIs # "Received"
             /\ to \notin {"DISABLED", "AGED", "UPDATE", "SUPERIOR_DESIGNATED"}
                  => r.infoIs = q.infoIs
<1> HIDE DEF IsPort, PortField, Timer, SameMute, Kept
<1>7. Becomes(InfoEnter(q, b, to))
  BY <1>2, <1>3, <1>4, <1>5, <1>6 DEF InfoEnter, InfoState
<1> QED
  BY <1>7 DEF Kept

\* roletrns.c: a port that is told again that it is designated is left alone.
LEMMA RoletrnsHello ==
  ASSUME NEW q, IsPort(q), NEW b, IsBridge(b), NEW to \in RoletrnsState
  PROVE  LET r == RoletrnsEnter(q, b, to)
             s == [r EXCEPT !.on = r.on \cup RoletrnsBroadcast(to)]
         IN
         /\ SameArrival(q, s)
         /\ to = "DESIGNATED_PORT" => SameMute(q, s)
<1> DEFINE r == RoletrnsEnter(q, b, to)
           s == [r EXCEPT !.on = r.on \cup RoletrnsBroadcast(to)]
           Go(off, set) == Moved(q, to, off, set)
           Mine == {"rcvdBPDU", "rcvdMsg", "operEdge", "admin_non_stp"}
<1>1. ASSUME NEW off, NEW set, off \cap Mine = {}, set \cap Mine = {}
      PROVE  /\ SameArrival(q, Go(off, set))
             /\ DOMAIN Go(off, set) = PortField
  BY <1>1, SMT DEF IsPort, PortField, Moved, SameArrival
<1>2. ASSUME NEW x, DOMAIN x = PortField, SameArrival(q, x), NEW t, NEW n
      PROVE  SameArrival(q, Timed(x, t, n))
  BY <1>2, SMT DEF PortField, Timed, SameArrival
<1>3. /\ SameArrival(q, InitPort(q, b, to)) /\ SameArrival(q, TakeRole(q, to))
      /\ \A n : SameArrival(q, Retired(q, to, n))
  BY SMT DEF IsPort, PortField, SameArrival, InitPort, TakeRole, Retired
<1>4. \A n : SameArrival(q, [Timed(q, "rrWhile", n)
                               EXCEPT !.roletrns = to, !.role = "RootPort"])
  BY SMT DEF IsPort, PortField, SameArrival, Timed
<1>5. LET x == [q EXCEPT !.roletrns = to, !.role = "DesignatedPort"] IN
      SameArrival(q, x) /\ SameMute(q, x) /\ DOMAIN x = PortField
  BY SMT DEF IsPort, PortField, SameArrival, SameMute
<1>6. SameArrival(q, r)
  <2>1. CASE to \in {"BEGIN", "INIT_PORT", "DISABLE_PORT", "BLOCK_PORT",
                     "DISABLED_PORT", "ALTERNATE_PORT", "ROOT_PORT",
                     "DESIGNATED_PORT"}
    BY <1>3, <1>4, <1>5, <2>1 DEF RoletrnsEnter
  <2>2. CASE to \in {"ROOT_PROPOSED", "ALTERNATE_PROPOSED", "ROOT_AGREED",
                     "ALTERNATE_AGREED", "REROOT", "REROOTED",
                     "DESIGNATED_RETIRED"}
    BY <1>1, <2>2 DEF RoletrnsEnter
  <2>3. CASE to \in {"ROOT_FORWARD", "ROOT_LEARN", "DESIGNATED_LEARN",
                     "DESIGNATED_PROPOSE", "DESIGNATED_SYNCED",
                     "DESIGNATED_DISCARD", "BACKUP_PORT"}
    BY <1>1, <1>2, <2>3 DEF RoletrnsEnter
  <2>4. CASE to = "DESIGNATED_FORWARD"
    <3>1. Given("sendRSTP" \in q.on, {"agreed"}) \in SUBSET {"agreed"}
      BY DEF Given
    <3> QED
      BY <1>1, <1>2, <2>4, <3>1 DEF RoletrnsEnter
  <2> QED
    BY <2>1, <2>2, <2>3, <2>4 DEF RoletrnsState
<1>7. IsPort(r)
  BY RoletrnsType
<1>8. to = "DESIGNATED_PORT" => SameMute(q, r)
  BY <1>5 DEF RoletrnsEnter
<1> HIDE DEF r
<1>9. /\ s.brdgdet = r.brdgdet /\ s.transmit = r.transmit
      /\ s.timer = r.timer /\ s.on = r.on \cup RoletrnsBroadcast(to)
  BY <1>7, SMT DEF IsPort, PortField
<1>10. /\ RoletrnsBroadcast(to) \cap Mine = {}
       /\ "newInfo" \notin RoletrnsBroadcast(to)
  BY DEF RoletrnsBroadcast
<1> HIDE DEF s
<1> QED
  BY <1>6, <1>8, <1>9, <1>10 DEF SameArrival, SameMute, r, s

-----------------------------------------------------------------------------
(* Who has something to do.                                                *)

\* rolesel.c: a port that is not selected gives the machine of the bridge
\* something to do.
LEMMA RoleselReady ==
  ASSUME TypeOK, NEW p \in Listed(bridge), InService(port[p]),
         ~Ready(RoleselMachine)
  PROVE  bridge.rolesel = "ROLE_SELECTION" /\ "selected" \in port[p].on
<1>1. \A to \in RoleselState : ~RoleselHop(bridge, port, to)
  BY DEF Ready, RoleselMachine
<1>2. bridge.rolesel \in RoleselState
  BY DEF TypeOK, IsBridge
<1>3. bridge.rolesel = "ROLE_SELECTION"
  BY <1>1, <1>2 DEF RoleselHop, RoleselState
<1>4. "reselect" \notin port[p].on
  BY <1>1, <1>3 DEF RoleselHop, RoleselState
<1> QED
  BY <1>3, <1>4 DEF InService

\* What was heard on a port that is still designated is no longer the role
\* that is selected for it.
LEMMA OutOfRole ==
  ASSUME NEW q, NEW b, Informed(b, q), Placed(q), Settled(q),
         "admin_non_stp" \notin q.on, q.infoIs = "Received"
  PROVE  q.selectedRole \notin {"DesignatedPort", "NonStpPort"}
BY DEF Informed, Placed, Settled

\* So one of three machines has something to do, all of them earlier in the
\* list than the Topology Change machine of the port.
LEMMA SupersededBusy ==
  ASSUME TypeOK, NEW p \in Listed(bridge), InService(port[p]),
         Informed(bridge, port[p]), Placed(port[p]),
         port[p].infoIs = "Received", port[p].roletrns \in DesignatedPlaces,
         Polite(port[p])
  PROVE  \/ Ready(RoleselMachine) \/ Ready(Machine("info", p))
         \/ Ready(Machine("roletrns", p))
<1> DEFINE q == port[p]
<1> SUFFICES ASSUME ~Ready(RoleselMachine), ~Ready(Machine("info", p)),
                    ~Ready(Machine("roletrns", p))
             PROVE  FALSE
  OBVIOUS
<1>1. IsPort(q) /\ "portEnabled" \in q.on /\ "selected" \in q.on
  BY RoleselReady, ListedPorts DEF TypeOK, InService
<1>2. \A to \in InfoState : ~InfoHop(q, to)
  BY DEF Ready, Machine
<1>3. \A to \in RoletrnsState : ~RoletrnsHop(q, bridge, Others(p), to)
  BY DEF Ready, Machine
<1>4. Settled(q)
  BY <1>1, <1>2, InfoAtRest
<1>5. q.role = q.selectedRole \/ q.selectedRole = "NonStpPort"
  BY <1>1, <1>3, <1>4, RoletrnsAtRest
<1> QED
  BY <1>4, <1>5, OutOfRole DEF Polite

\* It does not get its turn, and the update does not end.
LEMMA TopochWaits ==
  ASSUME TypeOK, NEW p \in Listed(bridge), InService(port[p]),
         Informed(bridge, port[p]), Placed(port[p]),
         port[p].infoIs = "Received", port[p].roletrns \in DesignatedPlaces,
         Polite(port[p]), ~InTurn("topoch", p)
  PROVE  ~Turn(Machine("topoch", p)) /\ ~UpdateReturns
<1>1. /\ {3, 4, 9} \subseteq DOMAIN MachineOrder
      /\ MachineOrder[3] = "roletrns" /\ MachineOrder[4] = "info"
      /\ MachineOrder[9] = "topoch" /\ 3 < 9 /\ 4 < 9
  BY SMT DEF MachineOrder
<1>2. ASSUME Turn(Machine("topoch", p))
      PROVE  FALSE
  <2>1. ~Ready(Machine("roletrns", p)) /\ ~Ready(Machine("info", p))
    BY <1>1, <1>2, EarlierFirst
  <2>2. RoleselMachine \in Before(Machine("topoch", p))
    <3>1. Machine("topoch", p) # RoleselMachine
      BY DEF Machine, RoleselMachine
    <3> QED
      BY <3>1 DEF Before
  <2>3. ~Ready(RoleselMachine)
    BY <1>2, <2>2 DEF Turn, InTurn
  <2> QED
    BY <2>1, <2>3, SupersededBusy
<1>3. ASSUME UpdateReturns
      PROVE  FALSE
  <2>1. /\ RoleselMachine \in AllMachines
        /\ Machine("info", p) \in AllMachines
        /\ Machine("roletrns", p) \in AllMachines
    BY <1>1 DEF AllMachines
  <2> QED
    BY <1>3, <2>1, SupersededBusy DEF UpdateReturns
<1> QED
  BY <1>2, <1>3

\* statmch.c: when the information machine of a port is the only one whose
\* turn it is, it makes the step.
LEMMA InfoAlone ==
  ASSUME MachineStep, NEW p \in Listed(bridge), Ready(Machine("info", p)),
         \A m \in AllMachines : Turn(m) => m = Machine("info", p)
  PROVE  InfoStep(p)
<1>1. /\ DOMAIN MachineOrder = 1 .. 10
      /\ MachineOrder[1] = "transmit" /\ MachineOrder[2] = "sttrans"
      /\ MachineOrder[3] = "roletrns" /\ MachineOrder[4] = "info"
      /\ MachineOrder[5] = "pcost" /\ MachineOrder[6] = "brdgdet"
      /\ MachineOrder[7] = "p2p" /\ MachineOrder[8] = "migrate"
      /\ MachineOrder[9] = "topoch" /\ MachineOrder[10] = "receive"
  BY SMT DEF MachineOrder
<1>2. ASSUME NEW j \in 1 .. 10, NEW x \in Listed(bridge),
             Turn(Machine(MachineOrder[j], x))
      PROVE  MachineOrder[j] = "info" /\ x = p
  <2>1. Machine(MachineOrder[j], x) \in AllMachines
    BY <1>1, <1>2 DEF AllMachines
  <2>2. Machine(MachineOrder[j], x) = Machine("info", p)
    BY <1>2, <2>1
  <2> QED
    BY <2>2 DEF Machine
<1>3. ASSUME NEW x \in Listed(bridge),
             \/ TransmitStep(x) \/ SttransStep(x) \/ RoletrnsStep(x)
             \/ InfoStep(x) \/ PcostStep(x) \/ BrdgdetStep(x) \/ P2pStep(x)
             \/ MigrateStep(x) \/ TopochStep(x) \/ ReceiveStep(x)
      PROVE  InfoStep(x) /\ x = p
  <2>1. PICK j \in 1 .. 10 :
          /\ Turn(Machine(MachineOrder[j], x))
          /\ j = 4 => InfoStep(x)
    <3>1. ASSUME TransmitStep(x) PROVE Turn(Machine(MachineOrder[1], x))
      BY <1>1, <3>1 DEF TransmitStep, PortMoved
    <3>2. ASSUME SttransStep(x) PROVE Turn(Machine(MachineOrder[2], x))
      BY <1>1, <3>2 DEF SttransStep, PortMoved
    <3>3. ASSUME RoletrnsStep(x) PROVE Turn(Machine(MachineOrder[3], x))
      BY <1>1, <3>3 DEF RoletrnsStep, PortMovedAll
    <3>4. ASSUME InfoStep(x) PROVE Turn(Machine(MachineOrder[4], x))
      BY <1>1, <3>4 DEF InfoStep, PortMoved
    <3>5. ASSUME PcostStep(x) PROVE Turn(Machine(MachineOrder[5], x))
      BY <1>1, <3>5 DEF PcostStep, PortMoved
    <3>6. ASSUME BrdgdetStep(x) PROVE Turn(Machine(MachineOrder[6], x))
      BY <1>1, <3>6 DEF BrdgdetStep, PortMoved
    <3>7. ASSUME P2pStep(x) PROVE Turn(Machine(MachineOrder[7], x))
      BY <1>1, <3>7 DEF P2pStep, PortMoved
    <3>8. ASSUME MigrateStep(x) PROVE Turn(Machine(MachineOrder[8], x))
      BY <1>1, <3>8 DEF MigrateStep, PortMoved
    <3>9. ASSUME TopochStep(x) PROVE Turn(Machine(MachineOrder[9], x))
      BY <1>1, <3>9 DEF TopochStep, PortMovedAll
    <3>10. ASSUME ReceiveStep(x) PROVE Turn(Machine(MachineOrder[10], x))
      BY <1>1, <3>10 DEF ReceiveStep, PortMoved
    <3>11. \A n \in {1, 2, 3, 5, 6, 7, 8, 9, 10} : n \in 1 .. 10 /\ n # 4
      BY SMT
    <3>12. 4 \in 1 .. 10
      BY SMT
    <3> QED
      BY <1>3, <3>1, <3>2, <3>3, <3>4, <3>5, <3>6, <3>7, <3>8, <3>9, <3>10,
         <3>11, <3>12
  <2>2. MachineOrder[j] = "info" /\ x = p
    BY <1>2, <2>1
  <2>3. j = 4
    <3>1. \A k \in 1 .. 10 : MachineOrder[k] = "info" => k = 4
      BY SMT DEF MachineOrder
    <3> QED
      BY <2>2, <3>1
  <2> QED
    BY <2>1, <2>2, <2>3
<1>4. ~RoleselStep
  <2>1. RoleselMachine \in AllMachines
        /\ RoleselMachine # Machine("info", p)
    BY DEF AllMachines, RoleselMachine, Machine
  <2> QED
    BY <2>1 DEF RoleselStep
<1>5. ~UpdateReturns
  <2>1. Machine("info", p) \in AllMachines
    BY <1>1, SMT DEF AllMachines
  <2> QED
    BY <2>1 DEF UpdateReturns
<1> QED
  BY <1>3, <1>4, <1>5 DEF MachineStep

\* statmch.c: the BPDU that was handed over is looked at next.
LEMMA NextIsInfo ==
  ASSUME TypeOK, [Next]_vars, NEW p \in Listed(bridge), InService(port[p]),
         HelloPort(p), "rcvdMsg" \in port[p].on, port[p].info # "RECEIVE"
  PROVE  /\ Ready(Machine("info", p))
         /\ InfoStep(p) \/ UNCHANGED vars
<1> DEFINE q == port[p]
<1>1. /\ InTurn("receive", p) /\ q.receive = "RECEIVE"
      /\ q.info = "CURRENT" /\ Settled(q) /\ NothingEarlier(p)
      /\ "rcvdBPDU" \notin q.on
  BY DEF HelloPort, HandedOver
<1>2. ~Ready(running)
  <2>1. \A to \in ReceiveState : ~ReceiveHop(q, to)
    BY <1>1 DEF ReceiveHop, AcceptsNext, Enabled, InService
  <2> QED
    BY <1>1, <2>1 DEF InTurn, Ready, Machine
<1>3. Ready(Machine("info", p))
  <2>1. InfoHop(q, "RECEIVE") /\ "RECEIVE" \in InfoState
    BY <1>1 DEF InfoHop, InfoState, InService, Settled
  <2> QED
    BY <2>1 DEF Ready, Machine
<1>4. ASSUME NEW m \in AllMachines, Turn(m)
      PROVE  m = Machine("info", p)
  <2>1. Ready(m) /\ \A other \in Before(m) : ~Ready(other)
    BY <1>2, <1>4 DEF Turn
  <2>2. m \notin Earlier(p)
    BY <1>1, <2>1 DEF NothingEarlier
  <2>3. m # RoleselMachine
    BY <2>2 DEF Earlier
  <2>4. PICK j \in DOMAIN MachineOrder, x \in Listed(bridge) :
          m = Machine(MachineOrder[j], x)
    BY <1>4, <2>3 DEF AllMachines
  <2> QED
    BY <1>3, <2>1, <2>2, <2>4, EarlierOrLater DEF TypeOK
<1>5. call # "none"
  BY <1>1 DEF InTurn
<1> QED
  BY <1>3, <1>4, <1>5, OnlyMachines, InfoAlone

-----------------------------------------------------------------------------
(* What a step leaves of a port.                                           *)

\* The machines of the role and of the information are where they were.
SamePlace(q, r) ==
  /\ q.info = r.info /\ q.infoIs = r.infoIs /\ q.roletrns = r.roletrns
  /\ "admin_non_stp" \notin q.on => q.role = r.role

\* The step was about something else.
Unconcerned(q, r) == SamePlace(q, r) /\ SameArrival(q, r) /\ SameMute(q, r)

\* An entry point left the port as r; nothing is taken over before the
\* machines run.
Called(q, r) ==
  /\ call = "none" /\ SamePlace(q, r) /\ q.brdgdet = r.brdgdet
  /\ "rcvdMsg" \in r.on => "rcvdMsg" \in q.on
  /\ "rcvdBPDU" \in r.on =>
       \/ "rcvdBPDU" \in q.on
       \/ /\ "admin_non_stp" \notin r.on /\ "operEdge" \notin r.on
          /\ call' # "none"

\* pcost.c asks for a selection and changes no place.
LEMMA PcostPlace ==
  ASSUME NEW q, IsPort(q), NEW to \in PcostState
  PROVE  LET r == PcostEnter(q, to) IN
         /\ SamePlace(q, r) /\ r.selectedRole = q.selectedRole
         /\ "selected" \in r.on => "selected" \in q.on
BY SMT DEF IsPort, PortField, PcostEnter, PcostState, SamePlace

\* rolesel.c gives a port of the protocol a role to take.
LEMMA ElectedPlace ==
  ASSUME NEW q, IsPort(q)
  PROVE  /\ LET r == WithoutRole(q) IN
            Unconcerned(q, r) /\ r.selectedRole = "DisabledPort"
         /\ \A b : LET r == WithRole(b, q) IN
              /\ Unconcerned(q, r)
              /\ r.selectedRole = RoleFor(b, q) \/ r.selectedRole = "NonStpPort"
<1>1. LET r == WithoutRole(q) IN
      Unconcerned(q, r) /\ r.selectedRole = "DisabledPort"
  BY SMT DEF IsPort, PortField, WithoutRole, Unconcerned, SamePlace,
             SameArrival, SameMute
<1>2. ASSUME NEW b
      PROVE  LET r == WithRole(b, q) IN
             /\ Unconcerned(q, r)
             /\ r.selectedRole = RoleFor(b, q) \/ r.selectedRole = "NonStpPort"
  BY SMT DEF IsPort, PortField, WithRole, WithoutProtocol, Given, Unconcerned,
             SamePlace, SameArrival, SameMute
<1> QED
  BY <1>1, <1>2

\* stp_in.c: what the entry points that are not about the bridge leave.
LEMMA CalledPlace ==
  ASSUME TypeOK, NEW p \in Port, Ticked(p) \/ Heard(p) \/ Asked(p)
  PROVE  Called(port[p], port'[p])
<1> DEFINE q == port[p]
           r == port'[p]
<1>1. IsPort(q)
  BY DEF TypeOK
<1>2. CASE Ticked(p)
  <2>1. \A timer : LET s == [q EXCEPT !.timer = timer] IN
                   SamePlace(q, s) /\ SameArrival(q, s)
    BY <1>1, SMT DEF IsPort, PortField, SamePlace, SameArrival
  <2>2. SamePlace(q, r) /\ SameArrival(q, r)
    BY <1>2, <2>1 DEF Ticked
  <2> QED
    BY <1>2, <2>2 DEF Ticked, Called, SameArrival
<1>3. CASE Heard(p)
  <2> DEFINE s == [q EXCEPT !.on = q.on \ {"operEdge"}]
  <2>1. /\ SamePlace(q, s) /\ q.brdgdet = s.brdgdet /\ DOMAIN s = PortField
        /\ "operEdge" \notin s.on
        /\ \A f \in {"rcvdMsg", "rcvdBPDU"} : f \in s.on <=> f \in q.on
        /\ "admin_non_stp" \in s.on <=> "admin_non_stp" \in q.on
    BY <1>1, SMT DEF IsPort, PortField, SamePlace
  <2> HIDE DEF s
  <2>2. \A m : LET t == InfoRxBpdu(s, bridge, m) IN
          /\ SamePlace(s, t) /\ s.brdgdet = t.brdgdet
          /\ "rcvdMsg" \in t.on => "rcvdMsg" \in s.on
          /\ "rcvdBPDU" \in t.on =>
               \/ "rcvdBPDU" \in s.on
               \/ "admin_non_stp" \notin t.on /\ "operEdge" \notin t.on
    BY <2>1, SMT DEF PortField, InfoRxBpdu, Accepts, SamePlace
  <2>3. \E m \in Received : r = InfoRxBpdu(s, bridge, m)
    BY <1>3 DEF Heard, s
  <2>4. call = "none" /\ call' = "other"
    BY <1>3 DEF Heard
  <2> HIDE DEF q, r
  <2>5. Called(q, r)
    BY <2>1, <2>2, <2>3, <2>4 DEF Called, SamePlace
  <2> QED
    BY <2>5 DEF q, r
<1>4. CASE Asked(p)
  BY <1>4 DEF Asked, SameState, Settable, Flag, Called, SamePlace
<1> QED
  BY <1>2, <1>3, <1>4

\* Whatever the step was, it was about one of the things the invariant reads.
Moves(p) ==
  LET q == port[p]
      r == port'[p]
  IN
  \/ \E to \in InfoState :
       Ran("info", p) /\ InfoHop(q, to) /\ r = InfoEnter(q, bridge, to)
  \/ \E to \in RoletrnsState :
       LET s == RoletrnsEnter(q, bridge, to) IN
       /\ Ran("roletrns", p) /\ RoletrnsHop(q, bridge, Others(p), to)
       /\ r = [s EXCEPT !.on = s.on \cup RoletrnsBroadcast(to)]
  \/ \E to \in TransmitState :
       /\ Ran("transmit", p) /\ TransmitHop(q, to)
       /\ SamePlace(q, r) /\ SameArrival(q, r)
  \/ Ran("topoch", p) /\ SamePlace(q, r) /\ SameArrival(q, r)
  \/ \E to \in BrdgdetState :
       /\ Ran("brdgdet", p) /\ BrdgdetHop(q, to)
       /\ r = BrdgdetEnter(q, to) /\ SamePlace(q, r)
  \/ \E to \in ReceiveState :
       /\ Ran("receive", p) /\ ReceiveHop(q, to)
       /\ r = ReceiveEnter(q, to) /\ SamePlace(q, r)
  \/ Called(q, r)
  \/ Unconcerned(q, r)

\* It began, or moved so.
LEMMA SteppedMoves ==
  ASSUME TypeOK, NEW p \in Port, Stepped(p)
  PROVE  Begun(p) \/ Moves(p)
<1> DEFINE q == port[p]
           r == port'[p]
<1>1. IsPort(q)
  BY DEF TypeOK
<1>2. ASSUME NEW x, SameHandling(q, x)
      PROVE  SamePlace(q, x)
  BY <1>2 DEF SameHandling, SamePlace
<1>3. CASE Transited(p)
  <2>1. ASSUME NEW to \in TransmitState, Ran("transmit", p),
               TransmitHop(q, to), r = TransmitEnter(q, bridge, to)
        PROVE  Moves(p)
    <3>1. SamePlace(q, r) /\ SameArrival(q, r)
      BY <1>1, <1>2, <2>1, OthersHandle, OthersHello
    <3> QED
      BY <2>1, <3>1 DEF Moves
  <2>2. ASSUME NEW to \in SttransState, r = SttransEnter(q, to)
        PROVE  Moves(p)
    <3>1. Unconcerned(q, r)
      BY <1>1, <1>2, <2>2, OthersHandle, OthersHello DEF Unconcerned
    <3> QED
      BY <3>1 DEF Moves
  <2>3. ASSUME NEW to \in PcostState, r = PcostEnter(q, to)
        PROVE  Moves(p)
    <3>1. Unconcerned(q, r)
      BY <1>1, <2>3, PcostPlace, OthersHello DEF Unconcerned
    <3> QED
      BY <3>1 DEF Moves
  <2>4. ASSUME NEW to \in BrdgdetState, Ran("brdgdet", p), BrdgdetHop(q, to),
               r = BrdgdetEnter(q, to)
        PROVE  Moves(p)
    <3>1. SamePlace(q, r)
      BY <1>1, <1>2, <2>4, OthersHandle
    <3> QED
      BY <2>4, <3>1 DEF Moves
  <2>5. ASSUME NEW to \in P2pState, r = P2pEnter(q, to)
        PROVE  Moves(p)
    <3>1. Unconcerned(q, r)
      BY <1>1, <1>2, <2>5, OthersHandle, OthersHello DEF Unconcerned
    <3> QED
      BY <3>1 DEF Moves
  <2>6. ASSUME NEW to \in MigrateState, r = MigrateEnter(q, bridge, to)
        PROVE  Moves(p)
    <3>1. Unconcerned(q, r)
      BY <1>1, <1>2, <2>6, OthersHandle, OthersHello DEF Unconcerned
    <3> QED
      BY <3>1 DEF Moves
  <2>7. ASSUME NEW to \in TopochState, Ran("topoch", p),
               r = TopochEnter(q, bridge, to)
        PROVE  Moves(p)
    <3>1. SamePlace(q, r) /\ SameArrival(q, r)
      BY <1>1, <1>2, <2>7, OthersHandle, OthersHello
    <3> QED
      BY <2>7, <3>1 DEF Moves
  <2>8. ASSUME NEW to \in ReceiveState, Ran("receive", p), ReceiveHop(q, to),
               r = ReceiveEnter(q, to)
        PROVE  Moves(p)
    <3>1. SamePlace(q, r)
      BY <1>1, <1>2, <2>8, OthersHandle
    <3> QED
      BY <2>8, <3>1 DEF Moves
  <2>9. ASSUME NEW to \in InfoState, Ran("info", p), InfoHop(q, to),
               r = InfoEnter(q, bridge, to)
        PROVE  Moves(p)
    BY <2>9 DEF Moves
  <2>10. ASSUME NEW to \in RoletrnsState, Ran("roletrns", p),
                RoletrnsHop(q, bridge, Others(p), to),
                LET s == RoletrnsEnter(q, bridge, to) IN
                r = [s EXCEPT !.on = s.on \cup RoletrnsBroadcast(to)]
         PROVE  Moves(p)
    BY <2>10 DEF Moves
  <2> QED
    BY <1>3, <2>1, <2>2, <2>3, <2>4, <2>5, <2>6, <2>7, <2>8, <2>9, <2>10
       DEF Transited
<1>4. CASE Told(p)
  <2>1. \A flags \in SUBSET {"sync", "reRoot", "tcProp"} :
          Unconcerned(q, [q EXCEPT !.on = q.on \cup flags])
    BY <1>1, SMT DEF IsPort, PortField, Unconcerned, SamePlace, SameArrival,
                     SameMute
  <2>2. Unconcerned(q, r)
    BY <1>4, <2>1 DEF Told
  <2> QED
    BY <2>2 DEF Moves
<1>5. CASE Elected(p)
  <2>1. Unconcerned(q, r)
    BY <1>1, <1>5, ElectedPlace DEF Elected
  <2> QED
    BY <2>1 DEF Moves
<1>6. CASE Noted(p) \/ PassedOver(p)
  <2>1. Unconcerned(q, r)
    BY <1>6 DEF Noted, PassedOver, SameState, Settable, Flag, Unconcerned,
                SamePlace, SameArrival, SameMute
  <2> QED
    BY <2>1 DEF Moves
<1>7. CASE Ticked(p) \/ Heard(p) \/ Asked(p)
  BY <1>7, CalledPlace DEF Moves
<1> QED
  BY <1>3, <1>4, <1>5, <1>6, <1>7 DEF Stepped

\* roletrns.c: where the states of a designated port are entered from.
LEMMA DesignatedFrom ==
  ASSUME NEW q, NEW b, NEW others, NEW to \in DesignatedPlaces,
         RoletrnsHop(q, b, others, to)
  PROVE  \/ to = "DESIGNATED_PORT" /\ q.roletrns \in DesignatedStates
         \/ to = "DESIGNATED_PORT" /\ NewRole(q)
            /\ q.selectedRole = "DesignatedPort"
         \/ q.roletrns = "DESIGNATED_PORT" /\ Settled(q) /\ ~NewRole(q)
<1>1. CASE to = "DESIGNATED_PORT"
  BY <1>1 DEF RoletrnsHop, RoleEntry, FromRootPort, FromDesignatedPort,
              FromAlternatePort, FromDisabledPort
<1>2. CASE to \in DesignatedStates
  BY <1>2 DEF DesignatedStates, RoletrnsHop, RoleEntry, FromRootPort,
              FromDesignatedPort, FromAlternatePort, FromDisabledPort
<1> QED
  BY <1>1, <1>2 DEF DesignatedPlaces

\* portinfo.c: where the states that touch a BPDU are entered from.
LEMMA InfoFrom ==
  ASSUME NEW q, IsPort(q), InService(q), NEW to \in InfoState, InfoHop(q, to)
  PROVE  /\ to # "BEGIN"
         /\ to = "DISABLED" => q.info = "BEGIN"
         /\ to = "RECEIVE" => q.info = "CURRENT" /\ "rcvdMsg" \in q.on
         /\ to = "SUPERIOR_DESIGNATED" => q.info = "RECEIVE"
         /\ q.info = "RECEIVE" =>
              to \in {"SUPERIOR_DESIGNATED", "REPEATED_DESIGNATED",
                      "INFERIOR_DESIGNATED", "NOT_DESIGNATED", "OTHER"}
<1> DEFINE next == CASE q.rcvdInfo = "SuperiorDesignatedInfo" ->
                          "SUPERIOR_DESIGNATED"
                     [] q.rcvdInfo = "RepeatedDesignatedInfo" ->
                          "REPEATED_DESIGNATED"
                     [] q.rcvdInfo = "InferiorDesignatedInfo" ->
                          "INFERIOR_DESIGNATED"
                     [] q.rcvdInfo = "InferiorRootAlternateInfo" ->
                          "NOT_DESIGNATED"
                     [] q.rcvdInfo = "OtherInfo" -> "OTHER"
<1>1. next \in {"SUPERIOR_DESIGNATED", "REPEATED_DESIGNATED",
                "INFERIOR_DESIGNATED", "NOT_DESIGNATED", "OTHER"}
  <2>1. q.rcvdInfo \in RcvdInfo
    BY DEF IsPort
  <2> QED
    BY <2>1, SMT DEF RcvdInfo
<1>2. q.info = "RECEIVE" => to = next
  BY DEF InfoHop, InService
<1>3. q.info # "RECEIVE" =>
        /\ to \notin {"BEGIN", "SUPERIOR_DESIGNATED"}
        /\ to = "DISABLED" => q.info = "BEGIN"
        /\ to = "RECEIVE" => q.info = "CURRENT" /\ "rcvdMsg" \in q.on
  BY DEF InfoHop, InService
<1> HIDE DEF next
<1> QED
  BY <1>1, <1>2, <1>3

-----------------------------------------------------------------------------
(* A port that starts.                                                     *)

\* stpm.c, _stp_stpm_init_machine: the receive machine, the last to begin,
\* drops what has arrived.
LEMMA StartedHello ==
  ASSUME NEW q, IsPort(q), NEW b, IsBridge(b)
  PROVE  LET r == Started(q, b) IN
         /\ "rcvdBPDU" \notin r.on /\ "rcvdMsg" \notin r.on
         /\ r.roletrns = "BEGIN" /\ r.info = "BEGIN" /\ r.infoIs = "Disabled"
         /\ r.selectedRole # "DesignatedPort"
<1> DEFINE q0 == WithoutRole(PortInit(q, b))
           q1 == TransmitEnter(q0, b, "BEGIN")
           q2 == SttransEnter(q1, "BEGIN")
           q3 == RoletrnsEnter(q2, b, "BEGIN")
           q4 == InfoEnter(q3, b, "BEGIN")
           q5 == PcostEnter(q4, "BEGIN")
           q6 == BrdgdetEnter(q5, "BEGIN")
           q7 == P2pEnter(q6, "BEGIN")
           q8 == MigrateEnter(q7, b, "BEGIN")
           q9 == TopochEnter(q8, b, "BEGIN")
           r == ReceiveEnter(q9, "BEGIN")
<1>1. /\ "BEGIN" \in TransmitState /\ "BEGIN" \in SttransState
      /\ "BEGIN" \in RoletrnsState /\ "BEGIN" \in InfoState
      /\ "BEGIN" \in PcostState /\ "BEGIN" \in BrdgdetState
      /\ "BEGIN" \in P2pState /\ "BEGIN" \in MigrateState
      /\ "BEGIN" \in TopochState /\ "BEGIN" \in ReceiveState
  BY DEF TransmitState, SttransState, RoletrnsState, InfoState, PcostState,
         BrdgdetState, P2pState, MigrateState, TopochState, ReceiveState
<1>2. Started(q, b) = r
  BY DEF Started, Begin
<1>3. IsPort(q0)
  BY PortInitType, WithoutRoleType
<1> HIDE DEF q0, q1, q2, q3, q4, q5, q6, q7, q8, q9, r
<1>4. IsPort(q1)
  BY <1>1, <1>3, TransmitType DEF q1
<1>5. IsPort(q2)
  BY <1>1, <1>4, SttransType DEF q2
<1>6. IsPort(q3)
  BY <1>1, <1>5, RoletrnsType DEF q3
<1>7. IsPort(q4)
  BY <1>1, <1>6, InfoType DEF q4
<1>8. IsPort(q5)
  BY <1>1, <1>7, PcostType DEF q5
<1>9. IsPort(q6)
  BY <1>1, <1>8, BrdgdetType DEF q6
<1>10. IsPort(q7)
  BY <1>1, <1>9, P2pType DEF q7
<1>11. IsPort(q8)
  BY <1>1, <1>10, MigrateType DEF q8
<1>12. IsPort(q9)
  BY <1>1, <1>11, TopochType DEF q9
<1>13. "rcvdBPDU" \notin r.on /\ "rcvdMsg" \notin r.on
  BY <1>1, <1>12, ArrivalHello DEF r
<1>14. /\ r.roletrns = "BEGIN" /\ r.info = "BEGIN" /\ r.infoIs = "Disabled"
       /\ r.selectedRole \in {"DisabledPort", "NonStpPort"}
  BY <1>2, StartedHandled DEF Fresh, FreshStates
<1> QED
  BY <1>2, <1>13, <1>14

\* So nothing of it is left to the invariant.
LEMMA BegunHello ==
  ASSUME TypeOK, [Next]_vars, NEW p \in Port, Begun(p)
  PROVE  HelloPort(p)'
<1> DEFINE r == port'[p]
<1>1. PICK s \in {port[p], NewPort(p)} : r = Started(s, bridge')
  BY DEF Begun
<1>2. IsPort(s) /\ IsBridge(bridge')
  BY NewPortType, InitDataType DEF Begun, BridgeOK, TypeOK
<1>3. /\ "rcvdBPDU" \notin r.on /\ "rcvdMsg" \notin r.on
      /\ r.roletrns = "BEGIN" /\ r.info = "BEGIN" /\ r.infoIs = "Disabled"
      /\ r.selectedRole # "DesignatedPort"
  BY <1>1, <1>2, StartedHello
<1>4. call = "none" /\ call' = "restart"
  BY DEF Begun
<1>5. ~InTurn("receive", p)'
  BY <1>4, TurnTaken DEF Turn, vars
<1> HIDE DEF r
<1>6. Unstarted(r) /\ Arrived(r)
  BY <1>3 DEF Unstarted, Arrived, DesignatedPlaces, DesignatedStates
<1>7. HandedOver(p)' /\ Examined(p)' /\ Superseded(p)' /\ Unhurried(p)'
  BY <1>3, <1>4 DEF HandedOver, Examined, Superseded, Unhurried, r
<1> QED
  BY <1>5, <1>6, <1>7 DEF HelloPort, r

-----------------------------------------------------------------------------
(* A port that has not been in service yet, and a BPDU that has arrived.   *)

\* What Unstarted reads of a port.
SameStart(q, r) ==
  /\ q.info = r.info /\ q.infoIs = r.infoIs /\ q.roletrns = r.roletrns
  /\ q.selectedRole = r.selectedRole
  /\ "selected" \in r.on => "selected" \in q.on

\* rolesel.c gives a port without information no role that advertises, and
\* roletrns.c takes no role but the one that was selected.
LEMMA StillUnstarted ==
  ASSUME TypeOK, NEW p \in Port, Stepped(p), ~Begun(p), InService(port[p]),
         Unstarted(port[p])
  PROVE  Unstarted(port'[p])
<1> DEFINE q == port[p]
           r == port'[p]
<1>1. IsPort(q) /\ IsBridge(bridge)
  BY DEF TypeOK
<1>2. ASSUME SameStart(q, r)
      PROVE  Unstarted(r)
  BY <1>2 DEF SameStart, Unstarted
<1>3. ASSUME SameHandling(q, r)
      PROVE  Unstarted(r)
  <2>1. SameStart(q, r)
    BY <1>3 DEF SameHandling, SameStart
  <2> QED
    BY <1>2, <2>1
<1>4. ASSUME NEW to \in InfoState, InfoHop(q, to), r = InfoEnter(q, bridge, to)
      PROVE  Unstarted(r)
  <2>1. r.info = to /\ (to = "DISABLED" => "selected" \notin r.on)
    BY <1>1, <1>4, InfoKept
  <2>2. to # "BEGIN" /\ (to = "DISABLED" => q.info = "BEGIN")
    BY <1>1, <1>4, InfoFrom
  <2>3. r.roletrns = q.roletrns
    BY <1>1, <1>4, InfoSound DEF SameGate
  <2>4. to = "DISABLED" => r.infoIs = "Disabled"
    <3>1. InfoDisabled(q).infoIs = "Disabled"
      BY <1>1, SMT DEF IsPort, PortField, InfoDisabled
    <3> QED
      BY <1>4, <3>1 DEF InfoEnter
  <2> HIDE DEF q, r
  <2> QED
    BY <2>1, <2>2, <2>3, <2>4 DEF Unstarted, q
<1>5. ASSUME RoletrnsMoved(p)
      PROVE  Unstarted(r)
  <2>1. PICK to \in RoletrnsState :
          LET s == RoletrnsEnter(q, bridge, to) IN
          /\ RoletrnsHop(q, bridge, Others(p), to)
          /\ r = [s EXCEPT !.on = s.on \cup RoletrnsBroadcast(to)]
    BY <1>5 DEF RoletrnsMoved
  <2> DEFINE s == RoletrnsEnter(q, bridge, to)
  <2>2. SameInfo(q, s) /\ IsPort(s)
    BY <1>1, <2>1, RoletrnsSound, RoletrnsType
  <2>3. s.roletrns = to
    BY <1>1, <2>1, RoletrnsSource, RoletrnsTakes
  <2>4. to \in DesignatedPlaces =>
          \/ q.roletrns \in DesignatedPlaces
          \/ "selected" \in q.on /\ q.selectedRole = "DesignatedPort"
    <3>1. RoletrnsHop(q, bridge, Others(p), to)
      BY <2>1
    <3> HIDE DEF q, r, s
    <3>2. to \in DesignatedPlaces =>
            \/ to = "DESIGNATED_PORT" /\ q.roletrns \in DesignatedStates
            \/ to = "DESIGNATED_PORT" /\ NewRole(q)
               /\ q.selectedRole = "DesignatedPort"
            \/ q.roletrns = "DESIGNATED_PORT" /\ Settled(q) /\ ~NewRole(q)
      BY <3>1, DesignatedFrom
    <3> QED
      BY <3>2 DEF DesignatedPlaces, NewRole, Settled
  <2>5. r = [s EXCEPT !.on = s.on \cup RoletrnsBroadcast(to)]
    BY <2>1
  <2> HIDE DEF s
  <2>6. /\ r.info = s.info /\ r.infoIs = s.infoIs /\ r.roletrns = s.roletrns
        /\ r.selectedRole = s.selectedRole
        /\ r.on = s.on \cup RoletrnsBroadcast(to)
    BY <2>2, <2>5, SMT DEF IsPort, PortField
  <2>7. "selected" \notin RoletrnsBroadcast(to)
    BY DEF RoletrnsBroadcast
  <2> HIDE DEF q, r
  <2> QED
    BY <2>2, <2>3, <2>4, <2>6, <2>7 DEF SameInfo, Unstarted, q
<1>6. CASE Transited(p)
  <2>1. ASSUME NEW to \in PcostState, r = PcostEnter(q, to)
        PROVE  Unstarted(r)
    <3>1. SameStart(q, r)
      BY <1>1, <2>1, PcostPlace DEF SamePlace, SameStart
    <3> QED
      BY <1>2, <3>1
  <2>2. \/ RoletrnsMoved(p)
        \/ \E to \in InfoState : InfoHop(q, to) /\ r = InfoEnter(q, bridge, to)
        \/ \E to \in PcostState : r = PcostEnter(q, to)
        \/ SameHandling(q, r)
    BY <1>1, <1>6, OthersHandle DEF Transited, RoletrnsMoved
  <2> QED
    BY <1>3, <1>4, <1>5, <2>1, <2>2
<1>7. CASE Told(p) \/ Ticked(p)
  <2>1. /\ \A flags \in SUBSET {"sync", "reRoot", "tcProp"} :
             SameStart(q, [q EXCEPT !.on = q.on \cup flags])
        /\ \A timer : SameStart(q, [q EXCEPT !.timer = timer])
    BY <1>1, SMT DEF IsPort, PortField, SameStart
  <2> QED
    BY <1>2, <1>7, <2>1 DEF Told, Ticked
<1>8. CASE Elected(p)
  <2>1. /\ r.info = q.info /\ r.infoIs = q.infoIs /\ r.roletrns = q.roletrns
        /\ \/ r.selectedRole \in {"DisabledPort", "NonStpPort"}
           \/ \E b : r.selectedRole = RoleFor(b, q)
    <3>1. SamePlace(q, r)
      BY <1>1, <1>8, ElectedPlace DEF Elected, Unconcerned
    <3>2. \/ r.selectedRole \in {"DisabledPort", "NonStpPort"}
          \/ \E b : r.selectedRole = RoleFor(b, q)
      BY <1>1, <1>8, ElectedPlace DEF Elected
    <3> QED
      BY <3>1, <3>2 DEF SamePlace
  <2>2. \A b : q.infoIs = "Disabled" =>
               RoleFor(b, q) \in {"DisabledPort", "NonStpPort"}
    BY DEF RoleFor, Offers
  <2> HIDE DEF r
  <2>3. Unstarted(r)
    BY <2>1, <2>2 DEF Unstarted
  <2> QED
    BY <2>3 DEF r
<1>9. CASE Heard(p)
  <2> DEFINE s == [q EXCEPT !.on = q.on \ {"operEdge"}]
  <2>1. SameStart(q, s) /\ DOMAIN s = PortField
    BY <1>1, SMT DEF IsPort, PortField, SameStart
  <2> HIDE DEF s
  <2>2. \A m : SameStart(s, InfoRxBpdu(s, bridge, m))
    BY <2>1, SMT DEF PortField, InfoRxBpdu, SameStart
  <2>3. \E m \in Received : r = InfoRxBpdu(s, bridge, m)
    BY <1>9 DEF Heard, s
  <2>4. SameStart(q, r)
    BY <2>1, <2>2, <2>3 DEF SameStart
  <2> QED
    BY <1>2, <2>4
<1>10. CASE Asked(p) \/ Noted(p) \/ PassedOver(p)
  BY <1>10 DEF Asked, Noted, PassedOver, SameState, Flag, Unstarted
<1> QED
  BY <1>6, <1>7, <1>8, <1>9, <1>10 DEF Stepped

\* brdgdet.c takes no port for an edge port once a BPDU has arrived on it.
LEMMA StillArrived ==
  ASSUME TypeOK, NEW p \in Port, Moves(p), InService(port[p]),
         Arrived(port[p]), Unhurried(p)
  PROVE  Arrived(port'[p])
<1> DEFINE q == port[p]
           r == port'[p]
<1>1. IsPort(q) /\ IsBridge(bridge)
  BY DEF TypeOK
<1>2. ASSUME SameArrival(q, r)
      PROVE  Arrived(r)
  BY <1>2 DEF SameArrival, Arrived
<1>3. ASSUME NEW to \in InfoState, InfoHop(q, to), r = InfoEnter(q, bridge, to)
      PROVE  Arrived(r)
  <2>1. to \in InfoState \ {"BEGIN"}
    BY <1>1, <1>3, InfoFrom
  <2>2. /\ r.brdgdet = q.brdgdet
        /\ \A f \in {"rcvdBPDU", "operEdge", "admin_non_stp"} :
             f \in q.on <=> f \in r.on
    BY <1>1, <1>3, <2>1, InfoHello
  <2> HIDE DEF q, r
  <2> QED
    BY <2>2 DEF Arrived, q
<1>4. ASSUME NEW to \in RoletrnsState,
             LET s == RoletrnsEnter(q, bridge, to) IN
             r = [s EXCEPT !.on = s.on \cup RoletrnsBroadcast(to)]
      PROVE  Arrived(r)
  BY <1>1, <1>2, <1>4, RoletrnsHello
<1>5. ASSUME NEW to \in BrdgdetState, BrdgdetHop(q, to),
             r = BrdgdetEnter(q, to)
      PROVE  Arrived(r)
  <2>1. /\ r.brdgdet = to
        /\ to = "NOT_EDGE" => "operEdge" \notin r.on
        /\ \A f \in {"rcvdBPDU", "rcvdMsg", "admin_non_stp"} :
             f \in q.on <=> f \in r.on
    BY <1>1, <1>5, ArrivalHello
  <2>2. q.brdgdet # "BEGIN" => to = "NOT_EDGE"
    BY <1>5 DEF BrdgdetHop, Enabled, InService
  <2> HIDE DEF q, r
  <2> QED
    BY <2>1, <2>2 DEF Arrived, q
<1>6. ASSUME NEW to \in ReceiveState, r = ReceiveEnter(q, to)
      PROVE  Arrived(r)
  BY <1>1, <1>6, ArrivalHello DEF Arrived
<1>7. ASSUME Called(q, r)
      PROVE  Arrived(r)
  BY <1>7 DEF Called, Unhurried, Arrived
<1> QED
  BY <1>2, <1>3, <1>4, <1>5, <1>6, <1>7 DEF Moves, Unconcerned

\* receive.c takes the BPDU over when it moves.
LEMMA StillTaken ==
  ASSUME TypeOK, [Next]_vars, NEW p \in Port, HelloPort(p),
         InTurn("receive", p)'
  PROVE  "rcvdBPDU" \notin port'[p].on
<1>1. CASE UNCHANGED vars
  BY <1>1 DEF HelloPort, InTurn, vars
<1>2. CASE ReceiveStep(p)
  <2>1. PICK to \in ReceiveState : port'[p] = ReceiveEnter(port[p], to)
    BY <1>2 DEF ReceiveStep, PortMoved, TypeOK
  <2> QED
    BY <2>1, ArrivalHello DEF TypeOK
<1> QED
  BY <1>1, <1>2, ReceiveTook

\* A port stays polite when nothing is about its role or what it sends.
LEMMA PoliteSame ==
  ASSUME NEW q, NEW r, Polite(q), SameMute(q, r), r.roletrns = q.roletrns,
         r.role = q.role, "admin_non_stp" \in r.on => "admin_non_stp" \in q.on
  PROVE  Polite(r)
BY DEF Polite, Mute, SameMute

\* portinfo.c compares a BPDU when it was handed over.
LEMMA StillExamined ==
  ASSUME TypeOK, EveryPortInService, InfoInTurn, [Next]_vars,
         NEW p \in Listed(bridge), Moves(p), HelloPort(p)
  PROVE  Examined(p)'
<1> DEFINE q == port[p]
           r == port'[p]
<1>1. p \in Port /\ IsPort(q) /\ IsBridge(bridge) /\ InService(q)
  BY ListedPorts DEF TypeOK, EveryPortInService
<1>2. CASE q.info = "RECEIVE"
  <2>1. InfoStep(p) \/ UNCHANGED vars
    <3>1. ~Calm(q)
      BY <1>2 DEF Calm, PassingStates, InfoState
    <3> QED
      BY <3>1, OnlyInfo
  <2>2. CASE UNCHANGED vars
    BY <2>2 DEF HelloPort, Examined, vars
  <2>3. CASE InfoStep(p)
    <3>1. PICK to \in InfoState : InfoHop(q, to) /\ r = InfoEnter(q, bridge, to)
      BY <1>1, <2>3 DEF InfoStep, PortMoved, TypeOK
    <3>2. to # "RECEIVE"
      BY <1>1, <1>2, <3>1, InfoFrom
    <3>3. r.info = to
      BY <1>1, <3>1, InfoKept
    <3> QED
      BY <3>2, <3>3 DEF Examined
  <2> QED
    BY <2>1, <2>2, <2>3
<1>3. CASE q.info # "RECEIVE"
  <2> SUFFICES ASSUME r.info = "RECEIVE"
               PROVE  Polite(r)
    BY DEF Examined
  <2>1. ASSUME NEW to \in InfoState, InfoHop(q, to),
               r = InfoEnter(q, bridge, to)
        PROVE  Polite(r)
    <3>1. to = "RECEIVE"
      BY <1>1, <2>1, InfoKept
    <3>2. "rcvdMsg" \in q.on
      BY <1>1, <2>1, <3>1, InfoFrom
    <3>3. Polite(q)
      BY <1>3, <3>2 DEF HelloPort, HandedOver
    <3>4. SameMute(q, r) /\ ("admin_non_stp" \in q.on <=> "admin_non_stp" \in r.on)
      BY <1>1, <2>1, <3>1, InfoHello
    <3>5. r.roletrns = q.roletrns /\ r.role = q.role
      BY <1>1, <2>1, InfoSound DEF SameGate
    <3> QED
      BY <3>3, <3>4, <3>5, PoliteSame
  <2>2. ASSUME NEW to \in RoletrnsState, RoletrnsHop(q, bridge, Others(p), to),
               LET s == RoletrnsEnter(q, bridge, to) IN
               r = [s EXCEPT !.on = s.on \cup RoletrnsBroadcast(to)]
        PROVE  FALSE
    <3> DEFINE s == RoletrnsEnter(q, bridge, to)
    <3>1. IsPort(s) /\ SameInfo(q, s)
      BY <1>1, <2>2, RoletrnsType, RoletrnsSound
    <3>2. r = [s EXCEPT !.on = s.on \cup RoletrnsBroadcast(to)]
      BY <2>2
    <3> HIDE DEF s
    <3>3. r.info = s.info
      BY <3>1, <3>2, SMT DEF IsPort, PortField
    <3> QED
      BY <1>3, <3>1, <3>3 DEF SameInfo
  <2>3. SamePlace(q, r) => FALSE
    BY <1>3 DEF SamePlace
  <2> QED
    BY <2>1, <2>2, <2>3 DEF Moves, Called, Unconcerned
<1> QED
  BY <1>2, <1>3

-----------------------------------------------------------------------------
(* A designated port that was told better.                                 *)

\* roletrns.c leaves the information of the port alone.
LEMMA RoletrnsPlace ==
  ASSUME NEW q, IsPort(q), NEW b, IsBridge(b), NEW others,
         NEW to \in RoletrnsState, RoletrnsHop(q, b, others, to)
  PROVE  LET s == RoletrnsEnter(q, b, to)
             r == [s EXCEPT !.on = s.on \cup RoletrnsBroadcast(to)]
         IN
         /\ r.info = q.info /\ r.infoIs = q.infoIs /\ r.roletrns = to
         /\ to = "DESIGNATED_PORT" => r.role = "DesignatedPort"
         /\ "admin_non_stp" \in q.on <=> "admin_non_stp" \in r.on
<1> DEFINE s == RoletrnsEnter(q, b, to)
           r == [s EXCEPT !.on = s.on \cup RoletrnsBroadcast(to)]
<1>1. IsPort(s) /\ SameInfo(q, s)
  BY RoletrnsType, RoletrnsSound
<1>2. s.roletrns = to /\ (to = "DESIGNATED_PORT" => s.role = "DesignatedPort")
  BY RoletrnsSource, RoletrnsTakes
<1>3. "admin_non_stp" \in q.on <=> "admin_non_stp" \in r.on
  BY RoletrnsHello DEF SameArrival
<1> HIDE DEF s
<1>4. r.info = s.info /\ r.infoIs = s.infoIs /\ r.roletrns = s.roletrns
      /\ r.role = s.role
  BY <1>1, SMT DEF IsPort, PortField
<1> QED
  BY <1>1, <1>2, <1>3, <1>4 DEF SameInfo, s

\* transmit.c: a machine that has nothing to send does not move.
LEMMA MuteStays ==
  ASSUME NEW q, IsPort(q), Mute(q), NEW to \in TransmitState
  PROVE  ~TransmitHop(q, to)
<1>1. q.timer["txCount"] \in Nat
  BY SMT DEF IsPort, Timer
<1>2. TxHoldCount \in Nat
  BY LimitsAssumption
<1>3. "newInfo" \in q.on => ~(q.timer["txCount"] < TxHoldCount)
  BY <1>1, <1>2, SMT DEF Mute
<1> QED
  BY <1>3 DEF Mute, TransmitHop, MayTransmit

\* It is silent from the BPDU on until it has taken its new role.
LEMMA StillSuperseded ==
  ASSUME TypeOK, EveryPortInService, EveryPortSound, EveryPortHandled,
         [Next]_vars, NEW p \in Listed(bridge), Moves(p), HelloPort(p)
  PROVE  Superseded(p)'
<1> DEFINE q == port[p]
           r == port'[p]
           Held(x) == x.infoIs = "Received" /\ x.roletrns \in DesignatedPlaces
<1>1. /\ p \in Port /\ IsPort(q) /\ IsBridge(bridge) /\ InService(q)
      /\ Informed(bridge, q) /\ Placed(q)
  BY ListedPorts DEF TypeOK, EveryPortInService, EveryPortSound, PortSound,
                     EveryPortHandled, Handled
<1>2. CASE UNCHANGED vars
  BY <1>2 DEF HelloPort, Superseded, InTurn, vars
<1> SUFFICES ASSUME ~UNCHANGED vars, Held(r)
             PROVE  Polite(r) /\ ~InTurn("topoch", p)'
  BY <1>2 DEF Superseded
<1>3. Held(q) => /\ Polite(q)
                 /\ ~Turn(Machine("topoch", p)) /\ ~InTurn("topoch", p)'
  <2> SUFFICES ASSUME Held(q)
               PROVE  /\ Polite(q)
                      /\ ~Turn(Machine("topoch", p)) /\ ~InTurn("topoch", p)'
    OBVIOUS
  <2>1. Polite(q) /\ ~InTurn("topoch", p)
    BY DEF HelloPort, Superseded
  <2>2. ~Turn(Machine("topoch", p))
    BY <1>1, <2>1, TopochWaits
  <2> QED
    BY <2>1, <2>2, TurnTaken
<1>4. ASSUME NEW to \in InfoState, Ran("info", p), InfoHop(q, to),
             r = InfoEnter(q, bridge, to)
      PROVE  Polite(r) /\ ~InTurn("topoch", p)'
  <2>1. /\ to # "BEGIN"
        /\ to = "SUPERIOR_DESIGNATED" => q.info = "RECEIVE"
    BY <1>1, <1>4, InfoFrom
  <2>2. /\ r.roletrns = q.roletrns /\ r.role = q.role
    BY <1>1, <1>4, InfoSound DEF SameGate
  <2>3. /\ "admin_non_stp" \in q.on <=> "admin_non_stp" \in r.on
        /\ to # "UPDATE" => SameMute(q, r)
        /\ to \in {"DISABLED", "AGED", "UPDATE"} => r.infoIs # "Received"
        /\ to \notin {"DISABLED", "AGED", "UPDATE", "SUPERIOR_DESIGNATED"}
             => r.infoIs = q.infoIs
    BY <1>1, <1>4, <2>1, InfoHello
  <2>4. Polite(q)
    <3>1. CASE to = "SUPERIOR_DESIGNATED"
      BY <2>1, <3>1 DEF HelloPort, Examined
    <3>2. CASE to # "SUPERIOR_DESIGNATED"
      BY <1>3, <2>2, <2>3, <3>2
    <3> QED
      BY <3>1, <3>2
  <2>5. Polite(r)
    BY <2>2, <2>3, <2>4, PoliteSame
  <2>6. ~InTurn("topoch", p)'
    BY <1>4 DEF Ran, InTurn, Machine
  <2> QED
    BY <2>5, <2>6
<1>5. ASSUME NEW to \in RoletrnsState, Ran("roletrns", p),
             RoletrnsHop(q, bridge, Others(p), to),
             LET s == RoletrnsEnter(q, bridge, to) IN
             r = [s EXCEPT !.on = s.on \cup RoletrnsBroadcast(to)]
      PROVE  Polite(r) /\ ~InTurn("topoch", p)'
  <2>1. /\ r.infoIs = q.infoIs /\ r.roletrns = to
        /\ to = "DESIGNATED_PORT" => r.role = "DesignatedPort"
        /\ "admin_non_stp" \in q.on <=> "admin_non_stp" \in r.on
    BY <1>1, <1>5, RoletrnsPlace
  <2>2. to = "DESIGNATED_PORT" => SameMute(q, r)
    BY <1>1, <1>5, RoletrnsHello
  <2>3. RoletrnsHop(q, bridge, Others(p), to)
    BY <1>5
  <2>4. q.infoIs = "Received" /\ to \in DesignatedPlaces
    BY <2>1
  <2> HIDE DEF q, r
  <2>5. \/ to = "DESIGNATED_PORT" /\ q.roletrns \in DesignatedStates
        \/ to = "DESIGNATED_PORT" /\ NewRole(q)
           /\ q.selectedRole = "DesignatedPort"
        \/ q.roletrns = "DESIGNATED_PORT" /\ Settled(q) /\ ~NewRole(q)
    BY <2>3, <2>4, DesignatedFrom
  <2>6. CASE to = "DESIGNATED_PORT" /\ q.roletrns \in DesignatedStates
    <3>1. Polite(q)
      BY <1>3, <2>4, <2>6 DEF DesignatedPlaces
    <3> QED
      BY <1>5, <2>1, <2>2, <2>6, <3>1
         DEF Polite, Mute, SameMute, Ran, InTurn, Machine, DesignatedPlaces
  <2>7. CASE NewRole(q) /\ q.selectedRole = "DesignatedPort"
    <3>1. "admin_non_stp" \notin q.on
      BY <1>1, <2>7 DEF Placed, NewRole, Settled
    <3> QED
      BY <1>1, <2>4, <2>7, <3>1, OutOfRole DEF NewRole
  <2>8. CASE q.roletrns = "DESIGNATED_PORT" /\ Settled(q) /\ ~NewRole(q)
    <3>1. Polite(q)
      BY <1>3, <2>4, <2>8 DEF DesignatedPlaces
    <3>2. q.selectedRole = "DesignatedPort"
      BY <2>8, <3>1 DEF Polite, NewRole, DesignatedPlaces
    <3> QED
      BY <1>1, <2>4, <2>8, <3>1, <3>2, OutOfRole DEF Polite
  <2> QED
    BY <2>5, <2>6, <2>7, <2>8
<1>6. ASSUME SamePlace(q, r)
      PROVE  Held(q) /\ Polite(q) /\ r.role = q.role /\ r.roletrns = q.roletrns
             /\ ~Turn(Machine("topoch", p)) /\ ~InTurn("topoch", p)'
  <2>1. Held(q)
    BY <1>6 DEF SamePlace
  <2>2. "admin_non_stp" \notin q.on
    BY <1>3, <2>1 DEF Polite
  <2> QED
    BY <1>3, <1>6, <2>1, <2>2 DEF SamePlace
<1>7. ASSUME SamePlace(q, r), SameMute(q, r),
             "admin_non_stp" \in r.on => "admin_non_stp" \in q.on
      PROVE  Polite(r) /\ ~InTurn("topoch", p)'
  <2>1. Held(q) /\ Polite(q) /\ r.role = q.role /\ r.roletrns = q.roletrns
        /\ ~InTurn("topoch", p)'
    BY <1>6, <1>7
  <2> QED
    BY <1>7, <2>1, PoliteSame
<1>8. ASSUME NEW to \in TransmitState, TransmitHop(q, to), SamePlace(q, r)
      PROVE  FALSE
  <2>1. Held(q) /\ Polite(q)
    BY <1>6, <1>8
  <2>2. Mute(q)
    BY <2>1 DEF Polite
  <2> QED
    BY <1>1, <1>8, <2>2, MuteStays
<1>9. ASSUME NEW to \in BrdgdetState, r = BrdgdetEnter(q, to), SamePlace(q, r)
      PROVE  Polite(r) /\ ~InTurn("topoch", p)'
  <2>1. SameMute(q, r) /\ ("admin_non_stp" \in q.on <=> "admin_non_stp" \in r.on)
    BY <1>1, <1>9, ArrivalHello
  <2> QED
    BY <1>7, <1>9, <2>1
<1>10. ASSUME NEW to \in ReceiveState, r = ReceiveEnter(q, to), SamePlace(q, r)
       PROVE  Polite(r) /\ ~InTurn("topoch", p)'
  <2>1. SameMute(q, r)
    BY <1>1, <1>10, ArrivalHello
  <2>2. "admin_non_stp" \in q.on <=> "admin_non_stp" \in r.on
    BY <1>1, <1>10, OthersHandle DEF SameHandling
  <2> QED
    BY <1>7, <1>10, <2>1, <2>2
<1>11. ASSUME Called(q, r)
       PROVE  FALSE
  BY <1>11 DEF Called, SamePlace, HelloPort, Unhurried
<1>12. ASSUME Unconcerned(q, r)
       PROVE  Polite(r) /\ ~InTurn("topoch", p)'
  BY <1>7, <1>12 DEF Unconcerned, SameArrival
<1>13. ASSUME Ran("topoch", p), SamePlace(q, r)
       PROVE  FALSE
  BY <1>6, <1>13 DEF Ran
<1> QED
  BY <1>4, <1>5, <1>8, <1>9, <1>10, <1>11, <1>12, <1>13 DEF Moves

-----------------------------------------------------------------------------
(* What an entry point leaves when it returns.                             *)

\* stpm.c: STP_stpm_update goes on while there is something to hand over.
LEMMA ReturnsUnhurried ==
  ASSUME TypeOK, EveryPortInService, EveryPortSound, EveryPortHandled,
         InfoInTurn, [Next]_vars, NEW p \in Listed(bridge), HelloPort(p),
         UpdateReturns
  PROVE  /\ "rcvdBPDU" \notin port[p].on /\ "rcvdMsg" \notin port[p].on
         /\ port[p].brdgdet # "BEGIN"
         /\ port[p].infoIs = "Received" =>
              port[p].roletrns \notin DesignatedPlaces
<1> DEFINE q == port[p]
<1>1. /\ p \in Port /\ IsPort(q) /\ InService(q)
      /\ Informed(bridge, q) /\ Placed(q)
  BY ListedPorts DEF TypeOK, EveryPortInService, EveryPortSound, PortSound,
                     EveryPortHandled, Handled
<1>2. ~Ready(Machine("info", p)) /\ ~Ready(Machine("brdgdet", p))
  <2>1. {4, 6} \subseteq DOMAIN MachineOrder
        /\ MachineOrder[4] = "info" /\ MachineOrder[6] = "brdgdet"
    BY SMT DEF MachineOrder
  <2>2. /\ Machine("info", p) \in AllMachines
        /\ Machine("brdgdet", p) \in AllMachines
    BY <2>1 DEF AllMachines
  <2> QED
    BY <2>2 DEF UpdateReturns
<1>3. "rcvdMsg" \notin q.on
  <2>1. CASE q.info = "RECEIVE"
    <3>1. ~Calm(q)
      BY <2>1 DEF Calm, PassingStates, InfoState
    <3>2. Passing(q)
      BY DEF InfoInTurn
    <3> QED
      BY <1>1, <1>2, <3>1, <3>2, PassingReady
  <2>2. CASE q.info # "RECEIVE"
    BY <1>1, <1>2, <2>2, NextIsInfo
  <2> QED
    BY <2>1, <2>2
<1>4. "rcvdBPDU" \notin q.on
  <2>1. \A to \in ReceiveState : ~ReceiveHop(q, to)
    BY ReturnsQuiet DEF PortQuiet
  <2>2. q.receive \in ReceiveState
    BY <1>1 DEF IsPort
  <2> QED
    BY <1>1, <1>3, <2>1, <2>2
       DEF ReceiveHop, ReceiveState, AcceptsNext, Enabled, InService
<1>5. q.brdgdet # "BEGIN"
  <2>1. \A to \in BrdgdetState : ~BrdgdetHop(q, to)
    BY <1>2 DEF Ready, Machine
  <2> QED
    BY <2>1 DEF BrdgdetHop, BrdgdetState
<1>6. q.infoIs = "Received" => q.roletrns \notin DesignatedPlaces
  <2> SUFFICES ASSUME q.infoIs = "Received", q.roletrns \in DesignatedPlaces
               PROVE  FALSE
    OBVIOUS
  <2>1. Polite(q) /\ ~InTurn("topoch", p)
    BY DEF HelloPort, Superseded
  <2> QED
    BY <1>1, <2>1, TopochWaits
<1> QED
  BY <1>3, <1>4, <1>5, <1>6

\* stp_in.c: what does not run the update hands nothing over.
LEMMA StillUnhurried ==
  ASSUME TypeOK, EveryPortInService, EveryPortSound, EveryPortHandled,
         InfoInTurn, [Next]_vars, NEW p \in Listed(bridge), Moves(p),
         HelloPort(p)
  PROVE  Unhurried(p)'
<1> DEFINE q == port[p]
           r == port'[p]
<1> SUFFICES ASSUME call' = "none"
             PROVE  /\ "rcvdBPDU" \notin r.on /\ "rcvdMsg" \notin r.on
                    /\ r.brdgdet # "BEGIN"
                    /\ r.infoIs = "Received" =>
                         r.roletrns \notin DesignatedPlaces
  BY DEF Unhurried
<1>1. CASE call = "none"
  <2>1. \A kind : ~Ran(kind, p)
    BY <1>1 DEF Ran, Turn
  <2>2. Called(q, r) \/ Unconcerned(q, r)
    BY <2>1 DEF Moves
  <2>3. /\ "rcvdBPDU" \notin q.on /\ "rcvdMsg" \notin q.on
        /\ q.brdgdet # "BEGIN"
        /\ q.infoIs = "Received" => q.roletrns \notin DesignatedPlaces
    BY <1>1 DEF HelloPort, Unhurried
  <2> HIDE DEF q, r
  <2> QED
    BY <2>2, <2>3 DEF Called, Unconcerned, SamePlace, SameArrival
<1>2. CASE UpdateReturns
  BY <1>2, ReturnsUnhurried DEF UpdateReturns
<1> QED
  BY <1>1, <1>2, CallSteps

-----------------------------------------------------------------------------
(* The hand-over of a BPDU.                                                *)

\* receive.c changes nothing that the machines before it read, the edge
\* being none since the BPDU arrived.
LEMMA ReceiveReads ==
  ASSUME NEW q, IsPort(q), "operEdge" \notin q.on
  PROVE  LET r == ReceiveEnter(q, "RECEIVE") IN
         /\ SameReads(q, r) /\ SameMute(q, r) /\ r.sttrans = q.sttrans
         /\ \A f \in {"sendRSTP", "reselect"} : f \in q.on <=> f \in r.on
BY SMT DEF IsPort, PortField, Timer, ReceiveEnter, BpduVersion, Given,
           SameReads, SameMute

\* So none of them has more to do than it had.
LEMMA ReceiveLeavesEarlier ==
  ASSUME TypeOK, NEW p \in Listed(bridge), "operEdge" \notin port[p].on,
         NothingEarlier(p), bridge' = bridge,
         port' = [port EXCEPT ![p] = ReceiveEnter(port[p], "RECEIVE")]
  PROVE  NothingEarlier(p)'
<1> DEFINE q == port[p]
           r == port'[p]
<1>1. /\ p \in Port /\ IsPort(q) /\ Listed(bridge) \subseteq Port
      /\ r = ReceiveEnter(q, "RECEIVE")
      /\ \A x \in Port \ {p} : port'[x] = port[x]
  BY ListedPorts DEF TypeOK
<1>2. /\ SameReads(q, r) /\ SameMute(q, r) /\ r.sttrans = q.sttrans
      /\ \A f \in {"sendRSTP", "reselect"} : f \in q.on <=> f \in r.on
  BY <1>1, ReceiveReads
<1>3. /\ Earlier(p)' = Earlier(p) /\ Listed(bridge)' = Listed(bridge)
  BY DEF Earlier, ListPlace, Listed
<1> HIDE DEF q, r
<1>4. ~Ready(RoleselMachine)'
  <2>1. \A to \in RoleselState : ~RoleselHop(bridge, port, to)
    <3>1. ~Ready(RoleselMachine)
      BY DEF NothingEarlier, Earlier
    <3> QED
      BY <3>1, Zenon DEF Ready, RoleselMachine
  <2>2. \A x \in Listed(bridge) :
          "reselect" \in port'[x].on <=> "reselect" \in port[x].on
    BY <1>1, <1>2 DEF q, r
  <2>3. \A to \in RoleselState : ~RoleselHop(bridge', port', to)
    BY <2>1, <2>2 DEF RoleselHop
  <2> QED
    BY <2>3 DEF Ready, RoleselMachine
<1>5. ASSUME NEW x \in Listed(bridge), ~Ready(Machine("roletrns", x))
      PROVE  ~Ready(Machine("roletrns", x))'
  <2>1. NoHop(port[x], bridge, Others(x))
    BY <1>5 DEF NoHop, Ready, Machine
  <2>2. SameReads(port[x], port'[x])
    <3>1. CASE x = p
      BY <1>2, <3>1 DEF q, r
    <3>2. CASE x # p
      BY <1>1, <3>2 DEF SameReads
    <3> QED
      BY <3>1, <3>2
  <2>3. /\ AllSynced(Others(x)) <=> AllSynced(Others(x)')
        /\ ReRooted(Others(x)) <=> ReRooted(Others(x)')
    <3>1. \A y \in Listed(bridge) :
            /\ "synced" \in port[y].on <=> "synced" \in port'[y].on
            /\ port[y].timer["rrWhile"] = port'[y].timer["rrWhile"]
      BY <1>1, <1>2 DEF SameReads, q, r
    <3>2. Others(x)' = {port'[y] : y \in Listed(bridge) \ {x}}
      BY <1>3 DEF Others
    <3> QED
      BY <3>1, <3>2 DEF Others, AllSynced, ReRooted
  <2>4. NoHop(port'[x], bridge, Others(x)')
    BY <2>1, <2>2, <2>3, NoHopSame
  <2> QED
    BY <2>4 DEF NoHop, Ready, Machine
<1>6. ASSUME NEW m \in Earlier(p), m.port = p, m # RoleselMachine
      PROVE  ~Ready(m)'
  <2>1. ~Ready(m)
    BY <1>6 DEF NothingEarlier
  <2>2. \/ m \in {Machine(kind, p) : kind \in {"transmit", "sttrans", "roletrns"}}
        \/ \E i \in DOMAIN MachineOrder : \E x :
             x # p /\ m = Machine(MachineOrder[i], x)
    BY <1>6 DEF Earlier
  <2>3. m \in {Machine(kind, p) : kind \in {"transmit", "sttrans", "roletrns"}}
    BY <1>6, <2>2 DEF Machine
  <2>4. CASE m = Machine("transmit", p)
    <3>1. \A to \in TransmitState : ~TransmitHop(q, to)
      BY <2>1, <2>4 DEF Ready, Machine, q
    <3>2. /\ r.role = q.role /\ (Settled(q) <=> Settled(r))
      BY <1>2 DEF SameReads, Settled
    <3>3. \A to \in TransmitState : ~TransmitHop(r, to)
      BY <1>2, <3>1, <3>2 DEF TransmitHop, MayTransmit, SameMute
    <3> QED
      BY <2>4, <3>3 DEF Ready, Machine, r
  <2>5. CASE m = Machine("sttrans", p)
    <3>1. \A to \in SttransState : ~SttransHop(q, to)
      BY <2>1, <2>5 DEF Ready, Machine, q
    <3>2. \A to \in SttransState : ~SttransHop(r, to)
      BY <1>2, <3>1 DEF SttransHop, SameReads
    <3> QED
      BY <2>5, <3>2 DEF Ready, Machine, r
  <2>6. CASE m = Machine("roletrns", p)
    BY <1>5, <2>1, <2>6
  <2> QED
    BY <2>3, <2>4, <2>5, <2>6
<1>7. ASSUME NEW m \in Earlier(p), m.port # p, m # RoleselMachine
      PROVE  ~Ready(m)'
  <2>1. ~Ready(m)
    BY <1>7 DEF NothingEarlier
  <2>2. PICK i \in DOMAIN MachineOrder, x \in Listed(bridge) :
          m = Machine(MachineOrder[i], x)
    <3>1. PICK i \in DOMAIN MachineOrder,
               n \in {l \in 1 .. ListPlace(p) - 1 : bridge.ports[l] # p} :
            m = Machine(MachineOrder[i], bridge.ports[n])
      BY <1>7 DEF Earlier, Machine
    <3>2. ListPlace(p) \in DOMAIN bridge.ports
      BY DEF Listed, ListPlace
    <3>3. DOMAIN bridge.ports = 1 .. Len(bridge.ports)
          /\ Len(bridge.ports) \in Nat
      BY SMT DEF TypeOK, IsBridge
    <3>4. n \in DOMAIN bridge.ports
      BY <3>2, <3>3, SMT
    <3> QED
      BY <3>1, <3>4 DEF Listed
  <2>3. port'[x] = port[x] /\ x # p
    BY <1>1, <1>7, <2>2 DEF Machine
  <2>4. MachineOrder[i] \in {"transmit", "sttrans", "roletrns", "info",
                             "pcost", "brdgdet", "p2p", "migrate", "topoch",
                             "receive"}
    BY SMT DEF MachineOrder
  <2>5. CASE MachineOrder[i] = "roletrns"
    BY <1>5, <2>1, <2>2, <2>5
  <2>6. CASE MachineOrder[i] # "roletrns"
    <3> DEFINE kind == MachineOrder[i]
    <3>1. m = Machine(kind, x) /\ kind \in {"transmit", "sttrans", "info",
                             "pcost", "brdgdet", "p2p", "migrate", "topoch",
                             "receive"}
      BY <2>2, <2>4, <2>6
    <3> HIDE DEF kind
    <3> QED
      BY <2>1, <2>3, <3>1 DEF Ready, Machine
  <2> QED
    BY <2>5, <2>6
<1> QED
  BY <1>3, <1>4, <1>6, <1>7 DEF NothingEarlier

\* stpm.c: what is earlier than the information machine of a port is before
\* the receive machine of the port.
LEMMA EarlierBefore ==
  ASSUME NEW p
  PROVE  Earlier(p) \subseteq Before(Machine("receive", p))
<1> DEFINE m == Machine("receive", p)
           Place(kind) == CHOOSE k \in DOMAIN MachineOrder :
                            MachineOrder[k] = kind
           Ports == {Machine(MachineOrder[i], bridge.ports[n]) :
                       i \in DOMAIN MachineOrder, n \in 1 .. ListPlace(p) - 1}
           Mine == {Machine(MachineOrder[i], p) : i \in 1 .. Place("receive") - 1}
<1>1. /\ DOMAIN MachineOrder = 1 .. 10
      /\ MachineOrder[1] = "transmit" /\ MachineOrder[2] = "sttrans"
      /\ MachineOrder[3] = "roletrns" /\ MachineOrder[10] = "receive"
  BY SMT DEF MachineOrder
<1>2. Place("receive") = 10
  <2>1. \A k \in 1 .. 10 : MachineOrder[k] = "receive" => k = 10
    BY SMT DEF MachineOrder
  <2>2. 10 \in 1 .. 10
    BY SMT
  <2> QED
    BY <1>1, <2>1, <2>2
<1>3. m # RoleselMachine /\ m.port = p /\ m.machine = "receive"
  BY DEF Machine, RoleselMachine
<1>4. Before(m) = {RoleselMachine} \cup Ports \cup Mine
  <2> HIDE DEF m
  <2> QED
    BY <1>3 DEF Before, ListPlace
<1>5. {Machine(kind, p) : kind \in {"transmit", "sttrans", "roletrns"}}
        \subseteq Mine
  <2>1. {1, 2, 3} \subseteq 1 .. Place("receive") - 1
    <3> HIDE DEF Place
    <3> QED
      BY <1>2, SMT
  <2> HIDE DEF Place
  <2> QED
    BY <1>1, <2>1
<1> HIDE DEF Mine, m
<1>6. Earlier(p) \subseteq {RoleselMachine} \cup Ports \cup Mine
  BY <1>5 DEF Earlier
<1> QED
  BY <1>4, <1>6 DEF m

\* statmch.c: the receive machine has the turn only when the machines before
\* it have nothing to do, and they leave a port that is ready to hear.
LEMMA ReceiveAlone ==
  ASSUME TypeOK, EveryPortInService, EveryPortSound, EveryPortHandled,
         NEW p \in Listed(bridge), HelloPort(p), "rcvdBPDU" \in port[p].on,
         Turn(Machine("receive", p))
  PROVE  /\ port[p].info = "CURRENT" /\ Settled(port[p]) /\ Polite(port[p])
         /\ NothingEarlier(p)
<1> DEFINE q == port[p]
<1>1. /\ p \in Port /\ IsPort(q) /\ InService(q)
      /\ Informed(bridge, q) /\ Placed(q) /\ Gated(q)
  BY ListedPorts DEF TypeOK, EveryPortInService, EveryPortSound, PortSound,
                     EveryPortHandled, Handled
<1>2. "admin_non_stp" \notin q.on /\ ~InTurn("receive", p)
  BY DEF HelloPort, Arrived
<1>3. /\ {1, 3, 4, 10} \subseteq DOMAIN MachineOrder
      /\ MachineOrder[1] = "transmit" /\ MachineOrder[3] = "roletrns"
      /\ MachineOrder[4] = "info" /\ MachineOrder[10] = "receive"
      /\ 1 < 10 /\ 3 < 10 /\ 4 < 10
  BY SMT DEF MachineOrder
<1>4. /\ ~Ready(Machine("transmit", p)) /\ ~Ready(Machine("roletrns", p))
      /\ ~Ready(Machine("info", p))
  BY <1>2, <1>3, EarlierFirst
<1>5. NothingEarlier(p)
  <2>1. Earlier(p) \subseteq Before(Machine("receive", p))
    BY EarlierBefore
  <2> QED
    BY <1>2, <2>1 DEF NothingEarlier, Turn, InTurn
<1>6. "selected" \in q.on
  <2>1. ~Ready(RoleselMachine)
    BY <1>5 DEF NothingEarlier, Earlier
  <2> QED
    BY <1>1, <2>1, RoleselReady
<1>7. q.info = "CURRENT" /\ Settled(q)
  <2>1. \A to \in InfoState : ~InfoHop(q, to)
    BY <1>4 DEF Ready, Machine
  <2> QED
    BY <1>1, <1>2, <1>6, <2>1, InfoCurrent DEF InService
<1>8. q.roletrns \in DesignatedPlaces => q.role = "DesignatedPort"
  <2>1. \A to \in RoletrnsState : ~RoletrnsHop(q, bridge, Others(p), to)
    BY <1>4 DEF Ready, Machine
  <2>2. q.role = q.selectedRole \/ q.selectedRole = "NonStpPort"
    BY <1>1, <1>7, <2>1, RoletrnsAtRest
  <2> QED
    BY <1>1, <1>2, <1>6, <2>2 DEF Gated, Placed, DesignatedPlaces
<1>9. q.role = "DesignatedPort" => Mute(q)
  <2>1. \A to \in TransmitState : ~TransmitHop(q, to)
    BY <1>4 DEF Ready, Machine
  <2>2. q.transmit = "IDLE" /\ q.timer["helloWhen"] # 0
    BY <1>7, <2>1 DEF TransmitHop, MayTransmit, TransmitState
  <2>3. q.role = "DesignatedPort" /\ "newInfo" \in q.on =>
          ~(q.timer["txCount"] < TxHoldCount)
    BY <1>7, <2>1, <2>2 DEF TransmitHop, MayTransmit, TransmitState
  <2>4. q.timer["txCount"] \in Nat /\ TxHoldCount \in Nat
    BY <1>1, LimitsAssumption DEF IsPort, Timer
  <2> QED
    BY <2>2, <2>3, <2>4, SMT DEF Mute
<1> QED
  BY <1>2, <1>5, <1>7, <1>8, <1>9 DEF Polite

\* receive.c hands the BPDU over to a port that is ready to hear.
LEMMA ReceiveHandsOver ==
  ASSUME TypeOK, EveryPortInService, EveryPortSound, EveryPortHandled,
         NEW p \in Listed(bridge), HelloPort(p), Ran("receive", p),
         ReceiveStep(p), "rcvdMsg" \in port'[p].on
  PROVE  HandedOver(p)'
<1> DEFINE q == port[p]
           r == port'[p]
<1>1. p \in Port /\ IsPort(q)
  BY ListedPorts DEF TypeOK
<1>2. PICK to \in ReceiveState :
        /\ ReceiveHop(q, to) /\ port' = [port EXCEPT ![p] = ReceiveEnter(q, to)]
        /\ r = ReceiveEnter(q, to)
  BY <1>1 DEF ReceiveStep, PortMoved, TypeOK
<1>3. to = "RECEIVE" /\ r.receive = "RECEIVE" /\ SameMute(q, r)
  BY <1>1, <1>2, ArrivalHello
<1>4. "rcvdBPDU" \in q.on
  BY <1>2, <1>3 DEF ReceiveHop
<1>5. "operEdge" \notin q.on
  BY <1>4 DEF HelloPort, Arrived
<1>6. /\ q.info = "CURRENT" /\ Settled(q) /\ Polite(q) /\ NothingEarlier(p)
  BY <1>4, ReceiveAlone DEF Ran
<1>7. r.info = "CURRENT" /\ Settled(r) /\ Polite(r)
  <2>1. SameHandling(q, r)
    BY <1>1, <1>2, OthersHandle
  <2> QED
    BY <1>3, <1>6, <2>1, PoliteSame DEF SameHandling, Settled
<1>8. NothingEarlier(p)'
  BY <1>2, <1>3, <1>5, <1>6, ReceiveLeavesEarlier DEF Ran
<1>9. InTurn("receive", p)'
  BY DEF Ran, Turn, InTurn
<1> QED
  BY <1>3, <1>7, <1>8, <1>9 DEF HandedOver

\* portinfo.c takes up at once what was handed over, and lays it down when it
\* is done; nothing else hands a BPDU over.
LEMMA StillHandedOver ==
  ASSUME TypeOK, EveryPortInService, EveryPortSound, EveryPortHandled,
         InfoInTurn, [Next]_vars, NEW p \in Listed(bridge), Moves(p),
         HelloPort(p)
  PROVE  HandedOver(p)'
<1> DEFINE q == port[p]
           r == port'[p]
<1>1. p \in Port /\ IsPort(q) /\ IsBridge(bridge) /\ InService(q)
  BY ListedPorts DEF TypeOK, EveryPortInService
<1>2. CASE UNCHANGED vars
  <2>1. bridge' = bridge /\ port' = port /\ call' = call /\ running' = running
    BY <1>2 DEF vars
  <2>2. NothingEarlier(p) => NothingEarlier(p)'
    <3>1. Earlier(p)' = Earlier(p)
      BY <2>1 DEF Earlier, ListPlace
    <3>2. \A m : Others(m)' = Others(m)
      BY <2>1 DEF Others, Listed
    <3>3. ASSUME NEW m, Ready(m)'
          PROVE  Ready(m)
      BY <2>1, <3>2, <3>3, Zenon DEF Ready
    <3> QED
      BY <3>1, <3>3 DEF NothingEarlier
  <2> QED
    BY <2>1, <2>2 DEF HelloPort, HandedOver, InTurn
<1> SUFFICES ASSUME ~UNCHANGED vars, "rcvdMsg" \in r.on, r.info # "RECEIVE"
             PROVE  HandedOver(p)'
  BY <1>2 DEF HandedOver
<1>3. "rcvdMsg" \notin q.on
  <2>1. CASE "rcvdMsg" \in q.on /\ q.info # "RECEIVE"
    <3>1. PICK to \in InfoState : InfoHop(q, to) /\ r = InfoEnter(q, bridge, to)
      BY <1>1, <2>1, NextIsInfo DEF InfoStep, PortMoved, TypeOK
    <3>2. q.info = "CURRENT" /\ Settled(q)
      BY <2>1 DEF HelloPort, HandedOver
    <3>3. to = "RECEIVE"
      BY <1>1, <2>1, <3>1, <3>2 DEF InfoHop, InService, Settled, InfoState
    <3> QED
      BY <1>1, <3>1, <3>3, InfoKept
  <2>2. CASE q.info = "RECEIVE"
    <3>1. ~Calm(q)
      BY <2>2 DEF Calm, PassingStates, InfoState
    <3>2. PICK to \in InfoState : InfoHop(q, to) /\ r = InfoEnter(q, bridge, to)
      BY <1>1, <3>1, OnlyInfo DEF InfoStep, PortMoved, TypeOK
    <3> QED
      BY <1>1, <2>2, <3>2, InfoFrom, InfoHello
  <2> QED
    BY <2>1, <2>2
<1>4. ASSUME NEW to \in InfoState, InfoHop(q, to), r = InfoEnter(q, bridge, to)
      PROVE  FALSE
  BY <1>1, <1>3, <1>4, InfoFrom, InfoHello
<1>5. ASSUME NEW to \in RoletrnsState,
             LET s == RoletrnsEnter(q, bridge, to) IN
             r = [s EXCEPT !.on = s.on \cup RoletrnsBroadcast(to)]
      PROVE  FALSE
  BY <1>1, <1>3, <1>5, RoletrnsHello DEF SameArrival
<1>6. ASSUME NEW to \in BrdgdetState, r = BrdgdetEnter(q, to)
      PROVE  FALSE
  BY <1>1, <1>3, <1>6, ArrivalHello
<1>7. ASSUME Ran("receive", p)
      PROVE  HandedOver(p)'
  <2>1. InTurn("receive", p)'
    BY <1>7 DEF Ran, Turn, InTurn
  <2>2. ReceiveStep(p)
    BY <2>1, ReceiveTook
  <2> QED
    BY <1>7, <2>2, ReceiveHandsOver
<1> HIDE DEF q, r
<1> QED
  BY <1>3, <1>4, <1>5, <1>6, <1>7 DEF Moves, Called, Unconcerned, SameArrival, q, r

-----------------------------------------------------------------------------
(* Together.                                                               *)

\* A step leaves every port fit.
LEMMA SteppedHello ==
  ASSUME TypeOK, EveryPortInService, EveryPortSound, EveryPortHandled,
         InfoInTurn, EveryHelloFit, [Next]_vars, NEW p \in Listed(bridge)',
         p \in Port
  PROVE  HelloPort(p)'
<1>1. Stepped(p)
  BY PortSteps
<1>2. CASE Begun(p)
  BY <1>2, BegunHello
<1>3. CASE ~Begun(p)
  <2>1. p \in Listed(bridge) /\ Moves(p)
    BY <1>1, <1>3, SteppedListed, SteppedMoves
  <2>2. HelloPort(p) /\ InService(port[p])
    BY <2>1 DEF EveryHelloFit, EveryPortInService
  <2>3. Unstarted(port'[p])
    BY <1>1, <1>3, <2>2, StillUnstarted DEF HelloPort
  <2>4. Arrived(port'[p])
    BY <2>1, <2>2, StillArrived DEF HelloPort
  <2>5. InTurn("receive", p)' => "rcvdBPDU" \notin port'[p].on
    BY <2>2, StillTaken
  <2>6. HandedOver(p)' /\ Examined(p)' /\ Superseded(p)' /\ Unhurried(p)'
    BY <2>1, <2>2, StillHandedOver, StillExamined, StillSuperseded,
       StillUnhurried
  <2> QED
    BY <2>3, <2>4, <2>5, <2>6 DEF HelloPort
<1> QED
  BY <1>2, <1>3

(***************************************************************************)
(* Every port stays fit to advertise: a BPDU is compared with what the     *)
(* port holds only while the port has nothing to send or is not            *)
(* designated, and a port that was told better stays so until it has taken *)
(* its new role (statmch.c, receive.c, portinfo.c, rolesel.c, roletrns.c). *)
(***************************************************************************)
THEOREM AlwaysFit == Spec => []EveryHelloFit
<1>1. Init => EveryHelloFit
  <2> SUFFICES ASSUME Init, NEW p \in Listed(bridge)
               PROVE  HelloPort(p)
    BY DEF EveryHelloFit
  <2>1. IsBridge(bridge) /\ p \in Port
    BY InitType, ListedPorts DEF TypeOK
  <2>2. port[p] = Started(NewPort(p), bridge)
    BY <2>1 DEF Init, AllStarted
  <2>3. /\ "rcvdBPDU" \notin port[p].on /\ "rcvdMsg" \notin port[p].on
        /\ port[p].roletrns = "BEGIN" /\ port[p].info = "BEGIN"
        /\ port[p].infoIs = "Disabled"
        /\ port[p].selectedRole # "DesignatedPort"
    BY <2>1, <2>2, NewPortType, StartedHello
  <2>4. call # "none"
    BY DEF Init
  <2> QED
    BY <2>3, <2>4 DEF HelloPort, Unstarted, Arrived, HandedOver, Examined,
                      Superseded, Unhurried, DesignatedPlaces,
                      DesignatedStates
<1>2. TypeOK /\ EveryPortInService /\ EveryPortSound /\ EveryPortHandled
        /\ InfoInTurn /\ EveryHelloFit /\ [Next]_vars /\ TypeOK'
      => EveryHelloFit'
  <2> SUFFICES ASSUME TypeOK, EveryPortInService, EveryPortSound,
                      EveryPortHandled, InfoInTurn, EveryHelloFit,
                      [Next]_vars, TypeOK', NEW p \in Listed(bridge)'
               PROVE  HelloPort(p)'
    BY DEF EveryHelloFit
  <2>1. p \in Port
    BY ListedPorts DEF TypeOK
  <2> QED
    BY <2>1, SteppedHello
<1> QED
  BY <1>1, <1>2, TypeCorrect, AlwaysInService, AlwaysSound, AlwaysHandled,
     AlwaysInTurn, PTL DEF Spec

\* transmit.c: what a designated port sends is of its own bridge.
LEMMA FitSends ==
  ASSUME TypeOK, EveryPortInService, EveryPortSound, EveryPortHandled,
         NEW p \in Listed(bridge), HelloPort(p),
         NEW to \in TransmitState, TransmitHop(port[p], to),
         "admin_non_stp" \notin port[p].on, Settled(port[p]),
         port[p].role = "DesignatedPort"
  PROVE  /\ port[p].infoIs = "Mine"
         /\ port[p].portPriority.root_bridge = bridge.rootPriority.root_bridge
<1> DEFINE q == port[p]
<1>1. /\ p \in Port /\ IsPort(q) /\ Informed(bridge, q) /\ Placed(q)
  BY ListedPorts DEF TypeOK, EveryPortSound, PortSound, EveryPortHandled,
                     Handled
<1>2. q.roletrns \in DesignatedPlaces
  BY <1>1 DEF Placed, DesignatedPlaces
<1>3. q.infoIs # "Received"
  <2> SUFFICES ASSUME q.infoIs = "Received"
               PROVE  FALSE
    OBVIOUS
  <2>1. Mute(q)
    BY <1>2 DEF HelloPort, Superseded, Polite
  <2> QED
    BY <1>1, <2>1, MuteStays
<1>4. q.infoIs # "Disabled"
  BY <1>1, <1>2 DEF Informed, HelloPort, Unstarted
<1>5. q.infoIs # "Aged"
  BY <1>1 DEF Informed, Settled
<1>6. q.infoIs \in {"Received", "Mine", "Aged", "Disabled"}
  BY <1>1 DEF IsPort, InfoIs
<1> QED
  BY <1>1, <1>3, <1>4, <1>5, <1>6 DEF Informed, Settled

\* Only the transmit machine sends.
LEMMA OnlyTransmitSends ==
  ASSUME Next
  PROVE  sent' = Silent \/ \E p \in Listed(bridge) : TransmitStep(p)
<1>1. ASSUME MachineStep
      PROVE  sent' = Silent \/ \E p \in Listed(bridge) : TransmitStep(p)
  BY <1>1 DEF MachineStep, SttransStep, RoletrnsStep, InfoStep, PcostStep,
              BrdgdetStep, P2pStep, MigrateStep, TopochStep, ReceiveStep,
              RoleselStep, UpdateReturns
<1>2. OneSecond \/ (\E p \in Listed(bridge) : RxBpdu(p)) => sent' = Silent
  BY DEF OneSecond, Ticks, SetsOnly, RxBpdu, Gets, Enters
<1>3. Management => sent' = Silent
  BY DEF Management, StpmSetCfg, SetsOnly, Restarts, Enters,
         EntersAndReturns, PortCreate, PortDelete, SetPortCfg,
         SetPortCfgFails, SetPortCfgSucceeds, ChangedPortSpeed,
         ChangedPortDuplex, EnablePort, LinkIs
<1> QED
  BY <1>1, <1>2, <1>3 DEF Next

(***************************************************************************)
(* A designated port never advertises a root the bridge has abandoned, or  *)
(* information it heard from another bridge, though the role it has to     *)
(* leave is still in force when the transmit machine, the first in the     *)
(* list, is looked at again (transmit.c, statmch.c).                       *)
(***************************************************************************)
THEOREM HelloAlwaysHonest == Spec => []HonestHello
<1>1. Init => HonestHello
  BY DEF Init, HonestHello, Silent, NoBpdu
<1>2. TypeOK /\ EveryPortInService /\ EveryPortSound /\ EveryPortHandled
        /\ EveryHelloFit /\ HonestHello /\ [Next]_vars
      => HonestHello'
  <2> SUFFICES ASSUME TypeOK, EveryPortInService, EveryPortSound,
                      EveryPortHandled, EveryHelloFit, HonestHello,
                      [Next]_vars
               PROVE  HonestHello'
    OBVIOUS
  <2>1. CASE UNCHANGED vars
    BY <2>1 DEF vars, HonestHello
  <2>2. CASE sent' = Silent
    BY <2>2 DEF HonestHello, Silent, NoBpdu
  <2>3. ASSUME NEW p \in Listed(bridge), TransmitStep(p)
        PROVE  HonestHello'
    <3> DEFINE q == port[p]
    <3>1. p \in Port /\ IsPort(q)
      BY ListedPorts DEF TypeOK
    <3>2. PICK to \in TransmitState :
            /\ TransmitHop(q, to) /\ bridge' = bridge
            /\ port'[p] = TransmitEnter(q, bridge, to)
            /\ sent' = IF TxBpdu(q, to) = NoBpdu THEN Silent
                       ELSE [port |-> p, bpdu |-> TxBpdu(q, to)]
      BY <2>3, <3>1 DEF TransmitStep, PortMoved, TypeOK
    <3>3. /\ port'[p].role = q.role /\ port'[p].infoIs = q.infoIs
      BY <3>1, <3>2, OthersHandle DEF SameHandling
    <3> SUFFICES ASSUME sent'.bpdu.type \in {"RSTP", "CONFIG"},
                        port'[sent'.port].role = "DesignatedPort"
                 PROVE  /\ port'[sent'.port].infoIs = "Mine"
                        /\ sent'.bpdu.vector.root_bridge
                             = bridge'.rootPriority.root_bridge
      BY DEF HonestHello
    <3>4. sent'.port = p /\ sent'.bpdu = TxBpdu(q, to)
      BY <3>2 DEF Silent, NoBpdu
    <3>5. /\ "admin_non_stp" \notin q.on
          /\ to \in {"TRANSMIT_RSTP", "TRANSMIT_CONFIG"}
      BY <3>4 DEF TxBpdu, NoBpdu, TransmitState
    <3>6. TxBpdu(q, to).vector = q.portPriority
      BY <3>5 DEF TxBpdu, Carrying
    <3>7. Settled(q)
      BY <3>2, <3>5 DEF TransmitHop, MayTransmit
    <3>8. q.infoIs = "Mine"
          /\ q.portPriority.root_bridge = bridge.rootPriority.root_bridge
      BY <3>2, <3>3, <3>4, <3>5, <3>7, FitSends DEF EveryHelloFit
    <3> QED
      BY <3>2, <3>3, <3>4, <3>6, <3>8
  <2> QED
    BY <2>1, <2>2, <2>3, OnlyTransmitSends
<1> QED
  BY <1>1, <1>2, TypeCorrect, AlwaysInService, AlwaysSound, AlwaysHandled,
     AlwaysFit, PTL DEF Spec

=============================================================================
