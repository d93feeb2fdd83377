------------------------------- MODULE Daemon -------------------------------
(***************************************************************************)
(* rstpd beside the kernel: the kernel's bridges change and tell of it     *)
(* over netlink; the daemon hears of each change later, in order, and acts *)
(* on what the kernel is by then (bridge_track.c, brmon.c, main.c).        *)
(*                                                                         *)
(* The daemon is single-threaded.  Its main loop runs one handler at a     *)
(* time; the netlink handler goes on as long as there are messages.  Each  *)
(* message, BPDU, command or second is an action here.  The kernel is not  *)
(* part of the repository: its actions are those the handlers answer to.   *)
(***************************************************************************)
EXTENDS Tracking

CONSTANTS
  InitialKernels, \* what the daemon may find when it is first started
  LibStates,      \* bound: states the library's machines leave a port in
  BridgeCfgs,     \* configurations CTL_set_bridge_config may be given
  PortCfgs,       \* configurations CTL_set_port_config may be given
  DumpEvery,      \* seconds between two dumps of the kernel's ports
  QueueLimit,     \* messages the netlink socket holds
  MaxChanges,     \* bound: changes of the kernel's bridges in a behaviour
  MaxCommands,    \* bound: commands in a behaviour
  MaxInputs,      \* bound: changes and commands together
  MaxStarts       \* bound: starts of the daemon in a behaviour

VARIABLES
  kernel,   \* bridges, ports and links, see IsKernel
  queue,    \* netlink messages not yet read
  lost,     \* a message has been lost since the daemon started
  daemon,   \* the daemon's data, see Tracking
  phase,    \* what the daemon is doing, see Phase
  seconds,  \* count of bridge_one_second, modulo DumpEvery
  left      \* changes, commands, both together, and starts left

vars == <<kernel, queue, lost, daemon, phase, seconds, left>>

\* "dumping": init_bridge_ops reads the first dump; "listening": within
\* rtnl_listen; "idle": in the main loop, between two handlers
Phase == {"stopped", "dumping", "listening", "idle"}

Interface == Bridge \cup Device

\* A port is numbered by a bridge there is.
IsKernel(k) ==
  /\ k \in [bridges : SUBSET Bridge,
            member : [Device -> Bridge \cup {NoBridge}],
            port_no : [Device -> PortNo \cup {0}],
            oper : [Interface -> BOOLEAN],
            stp_state : [Bridge -> 0 .. 2],
            state : [Device -> {"disabled", "blocking", "learning",
                                "forwarding"}]]
  /\ \A d \in Device : k.member[d] # NoBridge =>
       k.member[d] \in k.bridges /\ k.port_no[d] \in PortNo

Message == [if : Interface, master : Bridge \cup {NoBridge},
            newlink : BOOLEAN, up : BOOLEAN]

ASSUME BoundAssumption ==
  /\ \A k \in InitialKernels : IsKernel(k)
  /\ LibStates \subseteq LibState
  /\ DumpEvery \in Nat \ {0} /\ QueueLimit \in Nat \ {0}
  /\ MaxChanges \in Nat /\ MaxCommands \in Nat
  /\ MaxInputs \in Nat /\ MaxStarts \in Nat

Outcome == [Bridge -> [PortNo -> LibStates]]

state == [kernel |-> kernel, daemon |-> daemon]
Becomes(s) == kernel' = s.kernel /\ daemon' = s.daemon

-----------------------------------------------------------------------------
(* The kernel (external)                                                   *)

\* What dump_msg makes of the message the kernel sends: a link counts as up
\* only in a NEWLINK.  (Messages that dump_msg passes over are left out.)
Says(if, master, newlink, up) ==
  [if |-> if, master |-> master, newlink |-> newlink, up |-> newlink /\ up]

\* a mutant: the socket is never full
NotifyUnbounded(messages) ==
  CASE phase = "stopped" -> UNCHANGED <<queue, lost, phase>>
    [] phase = "dumping" -> lost' = TRUE /\ UNCHANGED <<queue, phase>>
    [] OTHER -> queue' = queue \o messages /\ UNCHANGED <<lost, phase>>

(***************************************************************************)
(* The messages go to the daemon's socket.  One that arrives before the    *)
(* first dump has been read is dropped by rtnl_dump_filter, which is given *)
(* no use for it.  If the socket is full the kernel drops the message, and *)
(* rtnl_listen fails: the daemon exits.                                    *)
(***************************************************************************)
Notify(messages) ==
  CASE phase = "stopped" -> UNCHANGED <<queue, lost, phase>>
    [] phase = "dumping" -> lost' = TRUE /\ UNCHANGED <<queue, phase>>
    [] OTHER ->
         IF Len(queue) + Len(messages) > QueueLimit
         THEN phase' = "stopped" /\ queue' = <<>> /\ lost' = TRUE
         ELSE queue' = queue \o messages /\ UNCHANGED <<lost, phase>>

KernelChange ==
  /\ left.changes > 0 /\ left.inputs > 0
  /\ left' = [left EXCEPT !.changes = @ - 1, !.inputs = @ - 1]
  /\ UNCHANGED <<daemon, seconds>>

Members(b) == {d \in Device : kernel.member[d] = b}

\* the state of a port whose link comes up; the kernel decides it alone when
\* no daemon does
FirstState(b, up) ==
  CASE ~up -> "disabled"
    [] up /\ kernel.stp_state[b] = 0 -> "forwarding"
    [] OTHER -> "blocking"

\* brctl addif
AddInterface(d, b) ==
  /\ KernelChange
  /\ kernel.member[d] = NoBridge /\ b \in kernel.bridges
  /\ kernel' = [kernel EXCEPT
       !.member[d] = b,
       !.port_no[d] = Min(PortNo \ {kernel.port_no[e] : e \in Members(b)}),
       !.state[d] = FirstState(b, kernel.oper[d])]
  /\ Notify(<<Says(d, b, TRUE, kernel.oper[d])>>)

\* brctl delif
DeleteInterface(d) ==
  /\ KernelChange
  /\ kernel.member[d] # NoBridge
  /\ kernel' = [kernel EXCEPT !.member[d] = NoBridge, !.port_no[d] = 0,
                              !.state[d] = "disabled"]
  /\ Notify(<<Says(d, kernel.member[d], FALSE, FALSE)>>)

\* The link of a device: a port that is taken down may be told of by a
\* DELLINK.
LinkChange(d, newlink) ==
  /\ KernelChange
  /\ newlink \/ (kernel.oper[d] /\ kernel.member[d] # NoBridge)
  /\ kernel' = [kernel EXCEPT
       !.oper[d] = ~@,
       !.state[d] = IF kernel.member[d] = NoBridge THEN @
                    ELSE FirstState(kernel.member[d], ~kernel.oper[d])]
  /\ Notify(<<Says(d, kernel.member[d], newlink, ~kernel.oper[d])>>)

\* ifconfig <bridge> up or down
BridgeChange(b) ==
  /\ KernelChange
  /\ b \in kernel.bridges
  /\ kernel' = [kernel EXCEPT !.oper[b] = ~@]
  /\ Notify(<<Says(b, NoBridge, TRUE, ~kernel.oper[b])>>)

\* brctl stp on or off, of which netlink says nothing
StpStateChange(b) ==
  /\ KernelChange
  /\ b \in kernel.bridges
  /\ kernel' = [kernel EXCEPT !.stp_state[b] = IF @ = 0 THEN 2 ELSE 0]
  /\ UNCHANGED <<queue, lost, phase>>

\* brctl delbr: the ports leave first
RemoveBridge(b) ==
  /\ KernelChange
  /\ b \in kernel.bridges
  /\ kernel' = [kernel EXCEPT
       !.bridges = @ \ {b},
       !.member = [d \in Device |-> IF @[d] = b THEN NoBridge ELSE @[d]],
       !.port_no = [d \in Device |-> IF d \in Members(b) THEN 0 ELSE @[d]],
       !.state = [d \in Device |->
                    IF d \in Members(b) THEN "disabled" ELSE @[d]],
       !.oper[b] = FALSE]
  /\ Notify([n \in 1 .. Cardinality(Members(b)) |->
               Says(SetToSeq(Members(b))[n], b, FALSE, FALSE)]
            \o <<Says(b, NoBridge, FALSE, FALSE)>>)

Kernel ==
  \/ \E d \in Device :
       \/ \E b \in Bridge : AddInterface(d, b)
       \/ DeleteInterface(d)
       \/ \E newlink \in BOOLEAN : LinkChange(d, newlink)
  \/ \E b \in Bridge : BridgeChange(b) \/ StpStateChange(b) \/ RemoveBridge(b)

\* What the kernel answers to a dump request: one message for every port.
Dump ==
  LET ports == SetToSeq({d \in Device : kernel.member[d] # NoBridge}) IN
  [n \in DOMAIN ports |->
     Says(ports[n], kernel.member[ports[n]], TRUE, kernel.oper[ports[n]])]

-----------------------------------------------------------------------------
(* Starting, and the netlink handler                                       *)

\* main, up to the dump request of init_bridge_ops
Start ==
  /\ phase = "stopped"
  /\ left.starts > 0
  /\ left' = [left EXCEPT !.starts = @ - 1]
  /\ phase' = IF Dump = <<>> THEN "idle" ELSE "dumping"
  /\ queue' = Dump
  /\ lost' = FALSE
  /\ daemon' = NewDaemon
  /\ seconds' = 0
  /\ UNCHANGED kernel

\* rtnl_dump_filter or rtnl_listen hands the next message to dump_msg, which
\* calls bridge_notify; the main loop goes on when there are no more.
ReadMessage ==
  /\ phase # "stopped"
  /\ queue # <<>>
  /\ \E out \in Outcome : Becomes(BridgeNotify(state, Head(queue), out))
  /\ queue' = Tail(queue)
  /\ phase' = IF Tail(queue) = <<>> THEN "idle"
              ELSE IF phase = "dumping" THEN "dumping" ELSE "listening"
  /\ UNCHANGED <<lost, seconds, left>>

-----------------------------------------------------------------------------
(* The other handlers of the main loop                                     *)

Handler == phase = "idle" /\ UNCHANGED <<lost, phase>>

\* packet_rcv and bridge_bpdu_rcv of a BPDU that is not taken for one of the
\* bridge's own.  The library drops what it has no port for.
ReceiveBpdu(d) ==
  LET p == daemon.dev[d]
      b == p.master
  IN /\ Handler
     /\ d \in daemon.known
     /\ p.up /\ daemon.br[b].stp_up
     /\ p.port_index \in DOMAIN daemon.stp[b].port
     /\ \E out \in Outcome, again \in SUBSET PortNo :
          Becomes(LibraryUpdate(state, b, out, again))
     /\ UNCHANGED <<queue, seconds, left>>

\* a mutant: the ports are asked for only once
OneSecondOnly ==
  /\ Handler
  /\ \E out \in Outcome, again \in SUBSET PortNo :
       Becomes(FoldSet(LAMBDA b, s : LibraryUpdate(s, b, out, again), state,
                       {b \in daemon.known \cap Bridge : daemon.br[b].stp_up}))
  /\ seconds' = (seconds + 1) % DumpEvery
  /\ UNCHANGED <<queue, left>>

\* bridge_one_second: every running bridge, and now and then a new dump
OneSecond ==
  /\ Handler
  /\ \E out \in Outcome, again \in SUBSET PortNo :
       Becomes(FoldSet(LAMBDA b, s : LibraryUpdate(s, b, out, again), state,
                       {b \in daemon.known \cap Bridge : daemon.br[b].stp_up}))
  /\ seconds' = (seconds + 1) % DumpEvery
  /\ queue' = IF seconds' = 0 /\ Len(queue) + Len(Dump) <= QueueLimit
              THEN queue \o Dump ELSE queue
  /\ UNCHANGED left

-----------------------------------------------------------------------------
(* Commands of rstpctl                                                     *)

Command ==
  /\ Handler
  /\ left.commands > 0 /\ left.inputs > 0
  /\ left' = [left EXCEPT !.commands = @ - 1, !.inputs = @ - 1]
  /\ UNCHANGED <<queue, seconds>>

\* a mutant: turned off for one bridge, sending stops on all
EnableBridgeRstpForAll(b, enable) ==
  LET s == IF b \in daemon.known THEN state ELSE CreateBridge(state, b)
      asked == [s EXCEPT !.daemon.br[b].do_stp = enable,
                         !.daemon.stp_up = enable]
      acts == s.daemon.br[b].do_stp # enable /\ s.daemon.br[b].up
  IN /\ Command
     /\ b \in daemon.known \/ IsBridge(state, b)
     /\ \E out \in Outcome :
          Becomes(IF ~acts THEN asked
                  ELSE IF enable THEN InitBridgeStp(asked, b, out)
                  ELSE ClearBridgeStp(asked, b, out))

\* CTL_enable_bridge_rstp of a bridge the kernel has
EnableBridgeRstp(b, enable) ==
  LET s == IF b \in daemon.known THEN state ELSE CreateBridge(state, b)
      asked == [s EXCEPT !.daemon.br[b].do_stp = enable,
                         !.daemon.stp_up = TRUE]
      acts == s.daemon.br[b].do_stp # enable /\ s.daemon.br[b].up
  IN /\ Command
     /\ b \in daemon.known \/ IsBridge(state, b)
     /\ \E out \in Outcome :
          Becomes(IF ~acts THEN asked
                  ELSE IF enable THEN InitBridgeStp(asked, b, out)
                  ELSE ClearBridgeStp(asked, b, out))

\* CTL_CHECK_BRIDGE
CheckBridge(b) ==
  b \in daemon.known /\ daemon.br[b].do_stp /\ daemon.br[b].stp_up

BadPrio(c) == "prio" \in DOMAIN c /\ c.prio % 16 # 0

\* a mutant: what the library refuses is kept all the same
SetBridgeConfigAlways(b, c) ==
  LET kept == [state EXCEPT !.daemon.br[b].cfg = Updated(@, c)] IN
  /\ Command
  /\ CheckBridge(b)
  /\ \E out \in Outcome :
       Becomes(IF BadPrio(c) THEN kept
               ELSE LibraryRestart(
                      [kept EXCEPT !.daemon.stp[b].cfg = Updated(@, c)],
                      b, out))

\* CTL_set_bridge_config; the library refuses a bad priority, and one it
\* takes makes its machines start again.
SetBridgeConfig(b, c) ==
  /\ Command
  /\ CheckBridge(b)
  /\ \E out \in Outcome :
       Becomes(IF BadPrio(c) THEN state
               ELSE LibraryRestart(
                      [state EXCEPT !.daemon.stp[b].cfg = Updated(@, c),
                                    !.daemon.br[b].cfg = Updated(@, c)],
                      b, out))

\* CTL_set_port_config; the library has set the cost by the time it refuses
\* the priority.
SetPortConfig(b, d, c) ==
  LET i == daemon.dev[d].port_index
      taken == IF BadPrio(c) THEN [f \in DOMAIN c \ {"prio"} |-> c[f]] ELSE c
      set == [state EXCEPT !.daemon.stp[b].port[i].cfg = Updated(@, taken)]
  IN /\ Command
     /\ CheckBridge(b)
     /\ d \in daemon.known /\ daemon.dev[d].master = b
     /\ i \in DOMAIN daemon.stp[b].port
     /\ \E out \in Outcome, again \in SUBSET PortNo :
          Becomes(IF BadPrio(c) THEN set
                  ELSE LibraryUpdate(
                         [set EXCEPT !.daemon.dev[d].cfg = Updated(@, c)],
                         b, out, again))

Commands ==
  \E b \in Bridge :
    \/ \E enable \in BOOLEAN : EnableBridgeRstp(b, enable)
    \/ \E c \in BridgeCfgs : SetBridgeConfig(b, c)
    \/ \E d \in Device, c \in PortCfgs : SetPortConfig(b, d, c)

-----------------------------------------------------------------------------
Init ==
  /\ kernel \in InitialKernels
  /\ queue = <<>>
  /\ lost = FALSE
  /\ daemon = NewDaemon
  /\ phase = "stopped"
  /\ seconds = 0
  /\ left = [changes |-> MaxChanges, commands |-> MaxCommands,
             inputs |-> MaxInputs, starts |-> MaxStarts]

Next ==
  \/ Kernel
  \/ Start
  \/ ReadMessage
  \/ \E d \in Device : ReceiveBpdu(d)
  \/ OneSecond
  \/ Commands

(***************************************************************************)
(* The main loop reads the messages there are and calls bridge_one_second  *)
(* every second, for as long as the daemon runs.                           *)
(***************************************************************************)
Spec == Init /\ [][Next]_vars
FairSpec == Spec /\ WF_vars(ReadMessage) /\ WF_vars(OneSecond)

=============================================================================
