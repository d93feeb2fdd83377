--------------------------- MODULE CtlProperties ---------------------------
(***************************************************************************)
(* What the control channel promises the commands.                         *)
(***************************************************************************)
EXTENDS CtlSocket

\* A client whose program makes no call after one that has failed: all but
\* those that show several bridges or several ports.
StopsAtFailure(c) == \A i \in 1 .. Len(program[c]) - 1 : program[c][i].fatal

TypeOK ==
  /\ daemon \in 0 .. MaxStarts
  /\ starts \in 0 .. MaxStarts
  /\ requests \in Seq(Request)
  /\ outbuf \in Calls \cup {NoCall}
  /\ program \in [Client -> Programs]
  /\ pc \in [Client -> {"start", "call", "wait", "exit"}]
  /\ at \in [Client -> 1 .. MaxCalls]
  /\ \A c \in Client : at[c] <= Len(program[c])
  /\ peer \in [Client -> 0 .. MaxStarts]
  /\ inbox \in [Client -> Seq(Reply)]
  /\ status \in [Client -> {"ok", "error"}]
  /\ performed \in [Calls -> Results \cup {Nothing}]
  /\ returned \in [Calls -> Results \cup {Failed, Nothing}]

(***************************************************************************)
(* A command of rstpctl exits with zero only if the daemon performed every *)
(* one of its calls and answered each with the data asked for: an answer   *)
(* that came late, which a later call may take for its own, can only       *)
(* follow a failure, and that failure is not forgotten.                    *)
(***************************************************************************)
ExitZero == \A c \in Client :
  pc[c] = "exit" /\ status[c] = "ok" =>
    \A n \in 1 .. Len(program[c]) :
      /\ performed[<<c, n>>] # Nothing
      /\ performed[<<c, n>>].res = "ok"
      /\ returned[<<c, n>>] = performed[<<c, n>>]

\* What RemoteCall sees: the calls of the clients that stop at a failure,
\* those of them that have been made, and their results.
Seen(k) == StopsAtFailure(k[1])

Made == {k \in Calls :
           /\ Seen(k)
           /\ \/ k[2] < at[k[1]]
              \/ k[2] = at[k[1]] /\ (pc[k[1]] = "wait" \/ returned[k] # Nothing)}

SeenOf(results) == [k \in Calls |-> IF Seen(k) THEN results[k] ELSE Nothing]

Abstract == INSTANCE RemoteCall
  WITH Call <- Calls, Result <- Results, Failure <- Failed, called <- Made,
       performed <- SeenOf(performed), returned <- SeenOf(returned)

(***************************************************************************)
(* To a command that stops at a failure, the sockets, the queues, the      *)
(* timeout and the restarts of the daemon implement RemoteCall, whatever   *)
(* other commands run beside it: no call is performed twice, and none      *)
(* returns what was meant for another.                                     *)
(***************************************************************************)
Implements == Abstract!Spec

(***************************************************************************)
(* Every command ends, whether or not the daemon runs: send_ctl_message    *)
(* waits five seconds at most for an answer.                               *)
(***************************************************************************)
AllExit == \A c \in Client : <>(pc[c] = "exit")

=============================================================================
