----------------------------- MODULE RemoteCall -----------------------------
(***************************************************************************)
(* What the control channel promises to the commands of rstpctl: a call is *)
(* performed once at most, and returns either the result of its own        *)
(* performance or a failure.  A call that has failed may have been         *)
(* performed, and may still be.                                            *)
(***************************************************************************)
CONSTANTS
  Call,      \* the calls that may be made
  Result,    \* what performing one may result in
  Nothing,   \* no result yet
  Failure    \* the result of a call that has failed

VARIABLES
  called,     \* the calls that have been made
  performed,  \* the result of performing a call
  returned    \* what a call has returned

vars == <<called, performed, returned>>

Init ==
  /\ called = {}
  /\ performed = [k \in Call |-> Nothing]
  /\ returned = [k \in Call |-> Nothing]

Make(k) ==
  /\ k \notin called
  /\ called' = called \cup {k}
  /\ UNCHANGED <<performed, returned>>

Perform(k) ==
  /\ k \in called
  /\ performed[k] = Nothing
  /\ \E r \in Result : performed' = [performed EXCEPT ![k] = r]
  /\ UNCHANGED <<called, returned>>

Return(k) ==
  /\ k \in called
  /\ performed[k] # Nothing
  /\ returned[k] = Nothing
  /\ returned' = [returned EXCEPT ![k] = performed[k]]
  /\ UNCHANGED <<called, performed>>

\* A call may fail before it is made: the daemon is not there.
Fail(k) ==
  /\ returned[k] = Nothing
  /\ called' = called \cup {k}
  /\ returned' = [returned EXCEPT ![k] = Failure]
  /\ UNCHANGED performed

Next == \E k \in Call : Make(k) \/ Perform(k) \/ Return(k) \/ Fail(k)

Spec == Init /\ [][Next]_vars

=============================================================================
