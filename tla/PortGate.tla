------------------------------ MODULE PortGate ------------------------------
(***************************************************************************)
(* What a bridge promises about the gates of its ports: when frames are    *)
(* learnt from and when they are relayed.  The protocol orders, and the    *)
(* kernel follows one step at a time.  Each of the two orders that open a  *)
(* gate waits for its time, or for a reason not to wait; nothing but the   *)
(* passing of seconds shortens a wait, every closing begins a whole one,   *)
(* and no gate is opened again before the kernel has closed it.            *)
(*                                                                         *)
(* Gates may move together, when a second passes or the machines restart.  *)
(* The last three variables are the surroundings, which may change with    *)
(* any step and by themselves.                                             *)
(***************************************************************************)
EXTENDS Naturals

CONSTANT Gate

VARIABLES
  order,    \* what the protocol wants: to "discard", "learn" or "forward"
  kernel,   \* what the kernel was told
  wait,     \* seconds before the next order to open
  delays,   \* how long the bridge's waits are
  trusted,  \* the gates with a reason not to wait
  exempt    \* the gates that are outside the protocol

vars == <<order, kernel, wait>>

Init ==
  /\ order = [g \in Gate |-> "discard"]
  /\ kernel = [g \in Gate |-> "discard"]
  /\ wait \in [Gate -> delays]

\* The gate must not relay, or must still not: it waits anew.
Close(g) ==
  /\ order'[g] = "discard"
  /\ wait'[g] \in delays'
  /\ kernel'[g] = kernel[g]

\* The machines are started again, and the kernel is told at once.
Restart(g) ==
  /\ order'[g] = "discard"
  /\ kernel'[g] = "discard"
  /\ wait'[g] \in delays'

MayOpen(g) == wait[g] = 0 \/ g \in trusted

Learn(g) ==
  /\ order[g] = "discard" /\ kernel[g] = "discard"
  /\ MayOpen(g)
  /\ order'[g] = "learn"
  /\ wait'[g] \in delays'
  /\ kernel'[g] = kernel[g]

Forward(g) ==
  /\ order[g] = "learn"
  /\ MayOpen(g)
  /\ order'[g] = "forward"
  /\ wait'[g] = 0
  /\ kernel'[g] = kernel[g]

\* The kernel follows: it learns before it forwards, and closes at once.
Follow(g) ==
  /\ \/ order[g] # "discard" /\ kernel[g] = "discard" /\ kernel'[g] = "learn"
     \/ order[g] = "forward" /\ kernel[g] = "learn" /\ kernel'[g] = "forward"
     \/ order[g] = "discard" /\ kernel[g] # "discard" /\ kernel'[g] = "discard"
  /\ order'[g] = order[g]
  /\ wait'[g] = wait[g]

Second(g) ==
  /\ wait[g] > 0
  /\ wait'[g] = wait[g] - 1
  /\ order'[g] = order[g]
  /\ kernel'[g] = kernel[g]

\* Outside the protocol a gate is opened without waiting.
Free(g) ==
  /\ g \in exempt
  /\ order'[g] \in {order[g], "forward"}
  /\ wait'[g] \in {wait[g]} \cup delays'
  /\ kernel'[g] = kernel[g]

Stays(g) ==
  /\ order'[g] = order[g]
  /\ kernel'[g] = kernel[g]
  /\ wait'[g] = wait[g]

Next ==
  \A g \in Gate :
    \/ Close(g) \/ Restart(g)
    \/ Learn(g) \/ Forward(g) \/ Follow(g)
    \/ Second(g) \/ Free(g)
    \/ Stays(g)

Spec == Init /\ [][Next]_vars

=============================================================================
