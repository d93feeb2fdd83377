------------------------------ MODULE Vectors ------------------------------
(***************************************************************************)
(* Priority vectors and timer values (rstplib/vector.c, rstplib/times.c).  *)
(*                                                                         *)
(* A bridge identifier is a 16-bit priority followed by a MAC address and  *)
(* is compared in that order, so it is modelled by one natural number.     *)
(* Everything here is pure: the state machines call these operators.       *)
(***************************************************************************)
EXTENDS Integers

CONSTANT
  HalfWord   \* half the range of the C type int: 2^31 in the program

ASSUME HalfWordAssumption == HalfWord \in Nat \ {0}

(***************************************************************************)
(* PRIO_VECTOR_T: who the root is, what it costs to get there, who says    *)
(* so on which of its ports, and on which of our ports it was heard.       *)
(***************************************************************************)
Vector == [root_bridge: Nat, root_path_cost: Nat, design_bridge: Nat,
           design_port: Nat, bridge_port: Nat]

\* STP_VECT_create
MakeVector(root, cost, bridge, dport, bport) ==
  [root_bridge |-> root, root_path_cost |-> cost, design_bridge |-> bridge,
   design_port |-> dport, bridge_port |-> bport]

\* TIMEVALUES_T: seconds, one octet each on the wire.
TimeValues == [MessageAge: Nat, MaxAge: Nat, ForwardDelay: Nat, HelloTime: Nat]

(***************************************************************************)
(* The difference of two 32-bit path costs as the C code sees it after the *)
(* assignment "int bridcmp = v1->root_path_cost - v2->root_path_cost": the *)
(* unsigned difference is cut to a signed word.  For costs below 2^32 the  *)
(* true difference lies strictly between -2^32 and 2^32, which leaves the  *)
(* three cases below.                                                      *)
(***************************************************************************)
CostDifference(c1, c2) ==
  LET d == c1 - c2 IN
  IF d >= HalfWord THEN d - 2 * HalfWord
  ELSE IF d < -HalfWord THEN d + 2 * HalfWord
  ELSE d

(***************************************************************************)
(* STP_VECT_compare_vector: negative when v1 is the better (smaller)       *)
(* vector, zero when they are the same, positive otherwise.                *)
(***************************************************************************)
Compare(v1, v2) ==
  LET cost == CostDifference(v1.root_path_cost, v2.root_path_cost) IN
  IF v1.root_bridge # v2.root_bridge THEN v1.root_bridge - v2.root_bridge
  ELSE IF cost # 0 THEN cost
  ELSE IF v1.design_bridge # v2.design_bridge
    THEN v1.design_bridge - v2.design_bridge
  ELSE IF v1.design_port # v2.design_port THEN v1.design_port - v2.design_port
  ELSE v1.bridge_port - v2.bridge_port

(***************************************************************************)
(* STP_VECT_set_vector followed by STP_VECT_get_vector at the other end:   *)
(* the wire carries every component but bridge_port, which the receiver    *)
(* sets to its own port.                                                   *)
(***************************************************************************)
OnArrival(v, rxport) == [v EXCEPT !.bridge_port = rxport]

=============================================================================
