# A TLA+ verification of rstp

rstp is a user-space implementation of the Rapid Spanning Tree Protocol for
Linux bridges.  This directory holds TLA+ models of it, the TLC configurations
that check them on small instances, and TLAPS proofs about them.  The models
are written from the C code; comments and manuals are used only to find out
what the code is meant to do, and where the two differ the difference is one
of the violation runs, or is described under Divergences.

File names are relative to `src/`; `L/` stands for `src/rstplib/`.

## 1. The system

The program has two parts and a client.  `rstplib` is a library that runs the
state machines of 802.1D-2004 for one bridge.  The daemon `rstpd` watches the
kernel's bridges, feeds the library with BPDUs, link changes and seconds, and
carries out what it decides.  `rstpctl` sends commands to the daemon over a
Unix socket.  Both processes are single-threaded.

```
  kernel --netlink--> brmon --> bridge_track --STP_IN_*--> stp_in --> stpm
  kernel <--netlink-- brstate <-- bridge_track <--STP_OUT_*-- state machines
  rstpctl <--datagrams--> ctl_socket --> CTL_* (bridge_track)
  epoll_loop: one event at a time, and bridge_one_second once a second
  library simulator: bridge processes <--datagrams--> manager that links ports
```

### Inventory

| Component | State it keeps | Operations | Correct when |
|---|---|---|---|
| Vectors, times (`L/vector.c`, `L/times.c`) | none | compare, create, read, write | comparison orders vectors as the standard does |
| Port Information (`L/portinfo.c`) | `infoIs`, `msg*`, port vector and times | receive a BPDU, classify, install, age | information is used while valid and never after |
| Receive, migration, bridge detection, point-to-point, path cost, state transition (`L/receive.c`, `migrate.c`, `brdgdet.c`, `p2p.c`, `pcost.c`, `sttrans.c`) | a few flags and timers each | one transition at a time | BPDUs handed over once, version follows the neighbour, kernel state follows `learn` and `forward` |
| Role Selection (`L/rolesel.c`) | root vector, times and port | elect the root, assign a role to each port | the root is the best known, roles agree with the segments |
| Role Transitions (`L/roletrns.c`) | `role`, `sync`, `synced`, `reRoot`, `agree`, `proposing`, `learn`, `forward`, timers | take a role, proposal and agreement, forwarding | no port forwards before the others have been made safe |
| Topology Change (`L/topoch.c`) | `tcWhile`, `tcProp`, `fbdFlush` | detect, propagate, acknowledge | changes reach every bridge |
| Transmit (`L/transmit.c`) | `newInfo`, `txCount`, `helloWhen` | send Config, TCN and RST BPDUs | what is sent is what the bridge now believes; never starved, never flooding |
| Bridge and scheduler (`L/stpm.c`, `statmch.c`, `port.c`) | list of ports and of machines | update, second, start, restart | the update loop ends, and ends settled |
| Entry points (`L/stp_in.c`, `stpmgmt.c`) | configuration | BPDU, second, link, configuration, port created or deleted | a call is applied entirely or refused; nothing is left half way |
| Bridge tracking (`bridge_track.c`) | `ifdata` lists, `up`, `do_stp`, `stp_up`, `port_index`, configurations | notifications, BPDUs, seconds, commands, callbacks | the library's ports are the kernel's ports, after missed notifications and failures too |
| Kernel notifications (`brmon.c`, `brstate.c`) | netlink sockets | first dump, messages, repeated dump, set port state | what a message is lost for is found out all the same |
| Event loop (`epoll_loop.c`, `main.c`) | handlers, `ref_ev`, `nexttimeout` | add, remove, run a batch, seconds | no removed handler is called; seconds are neither lost nor stopped |
| Control channel (`ctl_socket.c`, `ctl_socket_client.c`) | `msg_outbuf`, sockets | request, reply, timeout | a reply belongs to the request it is taken for |
| Command line (`ctl_main.c`) | exit status | sequences of calls | exit status zero means it was done |
| Packets, interface queries (`packet.c`, `netif_utils.c`) | none to speak of | input and output | - |
| Simulators (`L/bridge.c`, `L/mngr.c` and others) | links between ports | carry BPDUs, cut a link | the bridges they join become one tree |
| Vendored netlink code (`libnetlink.c`) | - | requests, dumps, listening | modelled as the daemon uses it |

### What is hard

* One BPDU starts a cascade: eleven kinds of machine, ten of them once per
  port, move one transition at a time in an order set by two linked lists, in a
  loop without a bound.  Guards read variables that other machines write, and
  the result depends on the order.
* Some entry points (`STP_IN_enable_port`, the changes of speed and of duplex,
  a rejected `STP_IN_set_port_cfg`) change state and return without running
  the machines.  The next call finds the state as they left it.
* A restart of the machines keeps the flags of the ports, and so does disabling
  and enabling the bridge.
* Received information is cached with the port identifier, times and version
  of the moment, all of which management may change.
* The neighbours are only known through BPDUs, which may be lost, and which
  tell of what the neighbour believed when it sent them.
* The daemon reads what the kernel is by now when it gets a message of what the
  kernel was.  Messages are dropped while the first dump is read, and a full
  socket ends the daemon.  Commands for one bridge change what is done for all.
* A failure half way (a port that cannot be added, a configuration refused at
  its second field) has to be undone, or to be lived with.
* The second is reckoned by the wall clock, in an `int` of milliseconds, and the
  clock may be set by any amount: from 1970 to the time of day, for one.  A
  constant stream of netlink messages and BPDUs must not stop it.
* An answer of the daemon may come when the command has given up and made its
  next call, or be another daemon's.

The hazards behind these, each with its line, are listed in `PROJECT.json`
together with the properties that cover them.

## 2. Modules

| Module | Models | In the code |
|---|---|---|
| `Vectors` | priority vectors and their comparison | `L/vector.c`, `times.c` |
| `PortState` | the records of a port and of a bridge; a BPDU | `L/port.h`, `stpm.h`, `stp_bpdu.h` |
| `PortInfo` | Port Information machine | `L/portinfo.c` |
| `PortProtocol` | six small machines of a port | `L/receive.c`, `migrate.c`, `brdgdet.c`, `p2p.c`, `pcost.c`, `sttrans.c` |
| `TopologyChange` | Topology Change machine | `L/topoch.c` |
| `RoleTransitions` | Port Role Transitions machine | `L/roletrns.c` |
| `Transmit` | Port Transmit machine and the BPDUs it builds | `L/transmit.c` |
| `RoleSelection` | Port Role Selection machine | `L/rolesel.c` |
| `Bridge`, `BridgeProperties` | scheduler, ports, entry points: the specification of one bridge, and what it promises | `L/stpm.c`, `statmch.c`, `port.c`, `stp_in.c`, `stpmgmt.c` |
| `PortGate` | abstract specification: a port waits before it learns and before it forwards, and the kernel follows step by step | - |
| `Network` | two instances of `Bridge`, links between them, what may go wrong | `L/bridge.c`, `L/mngr.c` |
| `Tracking` | what the daemon keeps, and the functions that change it | `bridge_track.c`, `brstate.c` |
| `Daemon`, `DaemonProperties` | the kernel, the netlink socket, the handlers of the daemon | `bridge_track.c`, `brmon.c`, `main.c`, `packet.c`, `libnetlink.c` |
| `EpollLoop` | the main loop, its properties included | `epoll_loop.c` |
| `RemoteCall` | abstract specification: a call is performed once at most and returns its own result, or fails | - |
| `CtlSocket`, `CtlProperties` | clients, sockets and the daemon's side of a call; the refinement | `ctl_main.c`, `ctl_socket.c`, `ctl_socket_client.c`, `ctl_cli_wrap.c` |
| `MCBridge`, `MCNetwork`, `MCDaemon`, `MCEpollLoop`, `MCCtlSocket` | constants for TLC | - |
| `PortProofs`, `BridgeProofs`, `RestProofs`, `SelectionProofs` | proofs about one bridge: what a step of a machine does to its port, what holds at every transition, what holds when the calls have returned, what a selection of roles computes | - |
| `DaemonProofs`, `Folding` | proofs about the daemon, and about walks over a set | - |
| `EpollProofs`, `CtlProofs` | proofs about the loop and the channel | - |

The specifications meet where the code does.  `Network` composes two bridges.
`Daemon` sees the library from outside: the state in which its machines leave
a port is chosen, and `Bridge` says which choices there are.  `Bridge` assumes
that a second comes again and again, which is `SecondsGoOn` of `EpollLoop`;
`CtlSocket` assumes that the daemon reads its socket, which is `Served` there.
The commands that `CtlSocket` carries are the actions `Commands` of `Daemon`.

### Bridge

**State.**  A port is one record: the states of its ten machines, the set `on`
of its Boolean variables that are True, its nine timers as one function (the
`timers[]` array), its vectors and times, the latest BPDU.  `osSpeed` and
`osDuplex` are what the daemon's callbacks would answer.  A bridge is another
record.  Both are functions of the program's variables: statistics, names, debugging
counters and uptime are left out, and so is `adminEnable`, which no machine
reads.

**Machines.**  Each machine has two operators, as in the code.  `XHop(q, to)`
is `STP_x_check_conditions`: the machine of port `q` would hop to state `to`.
`XEnter(q, to)` is `STP_x_enter_state`: the port after it.  The tests of a
state are made in the order of the C text, and the first that holds decides.
What a machine does to other ports (`setSyncTree`, `setReRootTree`,
`setTcPropTree`) is returned as the set of flags it raises on all of them
(`RoletrnsBroadcast`, `TopochBroadcast`).

**Scheduler.**  `STP_stpm_update` looks for the first machine, in list order,
that has a transition, and `STP_change_state` then stays with it until it has
none.  In `Bridge` every transition is a step of its own, and `Turn(m)` says
that it is the turn of `m`: the machine that is running goes on; when it
cannot, the first ready one of the list is next.  `UpdateReturns` ends the
entry point when no machine is ready.  The environment acts only between entry
points, as in a single-threaded program.

**Entry points** are `OneSecond`, `RxBpdu`, `EnablePort`, `ChangedPortSpeed`,
`ChangedPortDuplex`, `StpmSetCfg`, `SetPortCfg`, `PortCreate` and
`PortDelete`.  Those that end in an update set `call`; those that do not leave
their changes to the next one.  A configuration is a function whose domain is
the `field_mask`; `stp_enabled` in it is `BR_CFG_STATE`, which disables the
bridge (and then nothing else the call asks for is done, see Divergences) or
enables it, which starts the machines again.  While the bridge is disabled
seconds, BPDUs and links are ignored.  Calls that fail the checks of the code
are among the inputs: a refused `stpm_set_cfg` changes nothing and is a
stutter, a refused `set_port_cfg` keeps what it had applied.

**Abstractions.**  A bridge identifier is one number, priority times `MacSpan`
(256) plus the address, since the code only compares identifiers.  The wire
format is the identity on what a BPDU carries, but for `bridge_port`, which the
receiver overwrites, and the fields a TCN does not carry.  `HalfWord`, half the
range of the C `int`, is a parameter because TLC's own integers have 32 bits:
runs use 2^29.

### Network

Bridges A and B have the same ports, and port `p` of one is linked to port `p`
of the other, as with the simulator's `link` command.  `StepA` and `StepB` are
transitions of their machines, whose BPDUs join the queues `toA`, `toB` of the
links (`mngr_rx_bpdu`); `ReceiveA`, `ReceiveB` hand the next one over
(`read_uid`).  A link keeps the order; links overtake each other.  `Unlink`
cuts a link and queues `UID_PORT_DISCONNECT` for both ends; BPDUs sent before
it still arrive.  `Lose` takes a BPDU off a link; `ConfigureB` gives B another
configuration.  `SecondA` and `SecondB` are the seconds.

The addresses of the ports (`MCMacA`, `MCMacB`) are numbers of the model's own
and not the ones the simulator makes from a process number: only their order
tells in a comparison, and here all of A's come before all of B's.

Three assumptions about time are made, and stated at `Tick`, `ConfigureB` and
`Unlink`: both clocks run at the same rate, a BPDU travels in less than a
second, and a person's command or a cut comes when no BPDU is on its way.
When both bridges compute, A finishes first; until it returns neither sees
anything of the other but BPDUs that wait, so the order of their steps changes
no state in which something can be received.

### Tracking and Daemon

`kernel` is what sysfs and the kernel's bridges hold: which bridges there are,
the master, number, link and state of each device, and `stp_state`.  `daemon`
is what `bridge_track.c` keeps: the interfaces known, for a bridge its flags
`up`, `do_stp`, `stp_up`, its `port_list` and configuration, for a port its
master, `up`, `port_index` and configuration, and the library's instance
(`stp`): its ports, with state and configuration.  `queue` is the netlink
socket.

Every function of `bridge_track.c` that changes state is an operator of
`Tracking` on the pair of the two, since the functions call one another and the
library calls back; the handlers in `Daemon` are `ReadMessage`
(`bridge_notify`), `ReceiveBpdu`, `OneSecond`, and the commands
`EnableBridgeRstp`, `SetBridgeConfig`, `SetPortConfig`.  `Start` is `main` with
the first dump.  The kernel's actions are external: a port added, removed, its
link changed (told by NEWLINK, or by DELLINK when it goes down), a bridge up,
down or deleted, and `brctl stp`, of which no message tells.

### EpollLoop

`watched` are the handlers added, `ready` those with something to read, `ev`
the batch of `epoll_wait`, `at` the index of the loop, `running` the handler
being called; `due` is `nexttimeout` minus the time of day, the only way the
code looks at the clock.  Between `Call` and `Return` a handler may `Add` and
`Remove` any handler.  `Tick` lets time pass, `SetClock` sets the clock.

`time_diff` is modelled with its width: an `int` of milliseconds holds 24 days
(`Half`).  The clock may be set by any step (`Jumps`), and one that `time_diff`
does not hold makes it overflow; all that `LoopAssumption` excludes is that the
loop falls 24 days behind by itself (`MaxLag`), in one handler that is.
`Interrupted` is `epoll_wait` returning with EINTR.

The daemon registers three static handlers (`brmon.c`, `packet.c`,
`ctl_socket.c`), removes none while it runs, and its batch of eight holds them
all.  `Add` and `Remove` by a handler, and more handlers than a batch has
entries, go beyond it: they are what `add_epoll`, `remove_epoll` and `ref_ev` are
written for, so `NoStaleCall` and the batch part of `Served` are the contract
of that interface.  `add_epoll` is called for handlers that are not watched, as
everywhere in the code: of one that is watched it would clear `ref_ev` before
the kernel refuses it, and a later removal would miss the batch.

### CtlSocket

A client runs a program, the sequence of calls that a command of `rstpctl`
makes; `fatal` says that an error in a call ends the command.  A message says
the kind of call and, in the model only, which call it is about: properties
speak of it, and no guard reads it but to find the sender.  `Receive` accepts
what has the right kind, as the code does.  The five seconds of `poll` are a
choice, so a client may give up whenever nothing has come.  `msg_outbuf`
(`outbuf`) outlives the calls.  `Stop` and `Start` end and begin runs of the
daemon; a client stays connected to the run it found.

## 3. Runs

`tlc -config X.cfg M` with the configuration and the module of the table.  The
states of a bridge are points between two transitions of its machines, not
settled bridges.

| Run | `X`, `M` | Instance and inputs | Distinct states | Shows |
|---|---|---|---|---|
| `bridge_rx` | `BridgeRx`, `MCBridge` | 2 ports; two BPDUs of 5 kinds | 186,633 | nine invariants across elections |
| `bridge_mgmt` | `BridgeMgmt`, `MCBridge` | 2 of 3 ports; two calls, or a call and an older bridge's BPDU, in any order | 221,051 | no call leaves a port between two roles, or forwarding across a restart; a migration check is never lost; the refinement of `PortGate`, each of its actions included |
| `bridge_live` | `BridgeLive`, `MCBridge` | 2 ports; one BPDU of 9 kinds, fairness | 14,838 | the update ends, the bridge recovers, hellos go on |
| `network` | `Network`, `MCNetwork` | 2 bridges, 2 links; from the start, one loss, cut or new root | 219,463 | no loop lasts; two seconds later the tree stands |
| `daemon` | `Daemon`, `MCDaemon` | 2 bridges, 2 devices; four changes or commands | 733,312 | lists, links, ports and configurations end up as they should |
| `daemon_lost` | `DaemonLost`, `MCDaemon` | 2 bridges, 1 device; 2 changes, 2 starts, fairness | 2,815 | the repeated dump finds what the first one lost |
| `epoll` | `Epoll`, `MCEpollLoop` | 3 handlers, batches of 2, a clock set by less or more than an `int` holds, fairness | 49,887 | no stale call, no sleep but what a step of the clock explains, seconds go on, everybody is served |
| `ctl` | `Ctl`, `MCCtlSocket` | 2 commands, 2 runs of the daemon, fairness | 616,246 | exit status, the refinement of `RemoteCall`, every command ends |

What the properties say (the modules have the full statements):

* One bridge (`BridgeProperties`)
  * `TypeOK` - types; the timers never go below zero.
  * `SelectedOrReselect` - at every transition each port has a selected role or
    waits for one, never both, never neither.
  * `RolesSettled` - when the update has ended, the role played is the role
    selected and its information is installed.
  * `NothingPending` - a BPDU has gone through both machines that hand it over.
  * `BlockedDiscards` - a blocked port neither learns nor forwards, in its
    variables and in the kernel.
  * `SegmentRule` - the role of a port agrees with what is known of its segment.
  * `RootIsBest` - the root vector is no worse than the bridge's own and than
    anything still valid, on a bridge that is not disabled.
  * `NoOverAge` - information at its Max Age is never elected, although it is
    accepted: the order of the machines ages it first.
  * `HonestHello` - no BPDU advertises a root the bridge has abandoned.
  * `ProposalAnswered` - the handshake is never left half done when a call
    returns: a proposal has been taken up, every port that was told to
    synchronise has done so, and a root, alternate or backup port agrees unless
    another port has not synchronised with what it heard.
  * `RestartBlocks` - what forwards when a restart ends.
  * `NonStpForwards` - a port outside the protocol forwards, unless it was taken
    out of it while designated (see `non_stp` below).
  * `McheckServed` - a pending migration check finds the port sending RST BPDUs.
  * `EveryPortGated` - refinement of `PortGate`: the orders to learn and to
    forward come in that order, each after a whole wait or with a reason not to
    wait; they reach the kernel one at a time; and a port told to discard is not
    let learn again before the kernel has closed it.  The wait is `fdWhile`, or
    a whole forward delay while the port passes through BLOCK_PORT or
    DISABLE_PORT, whose successors set it.  Ports outside the protocol open
    without waiting (`Free`), and a restart closes at once (`Restart`).
  * `Returns`, `Recovers`, `HellosForever` - liveness.
* Two bridges (`Network`)
  * `NoLastingLoop` - with nothing computed and nothing on its way, at most one
    link forwards at both ends.
  * `Converges` - `Deadline` seconds after the start, or after the last fault,
    there is one tree that spans the network, and both bridges know its root.
* The daemon (`DaemonProperties`)
  * `ListsAgree` - a port is on the list of its master, once, and on no other.
  * `Tracked` - once every message is read, and none was lost, the daemon's
    ports, masters and links are the kernel's.
  * `NoOrphanPort` - the library has no port the daemon could not name.
  * `ConfigKept` - what the library was given is what it will be given again,
    for a bridge, and for a port that shares its number with no other.
  * `Speaks` - a bridge that runs RSTP sends, whatever the others are told.
  * `MembersFound` (liveness) - every port the kernel has is found in the end.
* The loop (`EpollLoop`)
  * `NoStaleCall` - no handler is called that has been removed.
  * `NeverAhead` - no second is called early unless the clock is set back,
    and the loop sleeps past the next second only as long as the step of the
    clock explains: not at all after a step forward of less than 24 days, and
    what the overflow leaves after a longer one.
  * `SecondsGoOn`, `Served` (liveness) - the seconds never end, wherever the
    clock is set and whatever is ready; nor does a ready handler wait for ever.
* The channel (`CtlProperties`)
  * `ExitZero` - a command that exits with zero had every call performed and
    got its own answers.
  * `Implements` - refinement of `RemoteCall`, for the commands that stop at a
    failure.  Those that go on after one (`showbridge` of several bridges,
    `showport` of several ports) may take a late answer for another's: they are
    left out of what `RemoteCall` sees, and run beside the others.
  * `AllExit` (liveness) - no command hangs.

### Bounds

Inputs are bounded, time never is: the timers of a bridge count down to zero
and stay there, so its state graph is finite.

* `Bridge`: `MaxRx`, `MaxCalls` and `MaxInputs` (both together).  Two BPDUs are
  enough for every change of opinion (better root after a root, the same
  again, ageing, an echo, an inferior bridge), since a port remembers only the
  last one and the information installed.  The bridge's times are the shortest
  `_check_stpm_config` accepts (Max Age 6, Forward Delay 4, Hello Time 1): the
  machines compare the timers with zero and with their starting values only.
  Two ports suffice for one port's decision to depend on another's; the third
  of `ThreePorts` is the one `PortCreate` adds.  In `bridge_mgmt` the
  one BPDU is an STP bridge's, for that is what a migration check answers; what
  proposals lead to is seen in `bridge_rx`, and what they lead to between any
  calls in the theorems.  No symmetry is used: ports are ordered by their place
  in the list and by their identifier.
* `Network`: `MaxLost`, `MaxCuts`, `MaxCalls` are 1, and `MaxFaults` is 1: one
  fault of any kind, at any moment, a start included.  Two links are the
  smallest network with a loop.  `Deadline` is 2 seconds, and with 1 the run
  fails: less than a Forward Delay (4), so that the tree must come from
  proposals and agreements, and not from the timers.
* `Daemon`: `MaxChanges`, `MaxCommands` and `MaxInputs` (both together) are 4:
  a port created and moved, the change told of twice, and a command in between.
  `QueueLimit` 4 lets four messages wait, and a fifth overrun the socket.  Two
  bridges are what a port moves between, two devices what a failure in the
  middle of `init_bridge_stp` needs.  `DumpEvery` is 1 or 2 instead of 60:
  what counts is that a dump comes at last.  `LibStates` is one state in the runs,
  for no property asks for more: what each port does with it is `Bridge`'s.
  `MaxStarts` is 2 where a second start matters.
* `EpollLoop`: three handlers and `EvSize` 2 (8 in the code): more handlers
  than the batch has room for, and one to remove another that is later in it.
  A second is two units and an `int` holds eight (`Half`).  The clock is set
  once, either way, by more than a second and by more than an `int` holds
  (`Jumps`).  A loop `MaxLag` behind is late whatever more it falls behind.
* `CtlSocket`: three calls a command, two commands at once, one datagram in
  the daemon's socket, two runs of the daemon.  One client's messages meet
  another's in the daemon's queue only, so a third adds an order, not a case.

### Violation runs

Four runs check what a comment, the manual or a recorded session says and the
code does not do.
TLC finds a counterexample for each; `PROJECT.json` quotes the text.

| Run | Statement | What the code does |
|---|---|---|
| `non_stp` | a port that RSTP is disabled on "is always kept in FORWARDING state" (`rstpctl.8`) | a port taken out while designated, and not synchronised, is blocked by the next proposal on another port (`L/roletrns.c:486`) |
| `root_port_prio` | the port the root vector derives from is the Root Port (comment in `updtRolesTree`) | it is recognised by an identifier that `set_port_cfg` may have changed; the bridge is left without a root port |
| `change_missed` | a port that comes to forward is DETECTED and the tables are cleared (session recorded in `L/B5056.txt`, comment in `L/topoch.c`) | a port becomes root port, learns and forwards, and its machine stays in INACTIVE: `fbdFlush`, which it sets there and waits for, is cleared by nothing (`L/topoch.c:125`, `:195`) |
| `network_loop` | loops are eliminated from the topology (`rstpd.8`) | when B is made the root, A's new root port answers the proposal with the `synced` that its other port has from the old tree; the inferior BPDU that the other port sends, still learning, makes `recordDispute` set `agreed` at B's end; all four ends forward until the BPDU on its way arrives |

`change_missed` shows one port; the theorem `NeverTold` says how far it goes: of
no bridge is a topology change ever noticed, sent or passed on, whatever it
hears.  The end of the update depends on that: NOTIFIED_TC, to which every state
that notices a change leads, goes to itself for ever (`L/topoch.c:236`).

The loop of `network_loop` lives for the time of one BPDU, and `NoLastingLoop`
shows that it never lives longer, whichever BPDU is lost.

### Divergences

Other differences between code and documents, or surprises of the code, met
while modelling.  The models do what the code does; no property is stated of
them, unless one is named.

* `rstpd.8:10` says that the daemon "merely monitors the ethernet bridges on the
  machine until instructed to run RSTP".  `set_br_up` starts the library on
  every bridge whose kernel `stp_state` is 2, whatever `do_stp` says; it looks
  at `stp_state` only when the bridge goes up or down.  `rstpctl` commands then
  refuse it, for they ask for `do_stp`.
* `rstpctl rstp` (`bridge_track.c:940`) does nothing when `do_stp` already has
  the value asked for, or while the bridge is down, and reports success.
* `TODO:1` says that the STP instance is shut down when the bridge is down; it
  stays as long as `stp_state` is 2 (`bridge_track.c:466`).
* No BPDU is sent before the first command of `rstpctl rstp`, for whichever
  bridge, on or off (`stp_up`, `bridge_track.c:852`): the flag is for all, and
  is never cleared (`Speaks`).
* A port that leaves a bridge and comes back before the DELLINK is read is not
  deleted (`bridge_track.c:584`), and keeps its old `port_index`, although the
  kernel may have given it another number.
* The kernel may give the number of a port that has left to another one before
  the daemon hears of either.  `bridge_track.c` then has two ports with one
  number (`create_if`, `add_port_stp`), and the library one for both: commands
  and callbacks for the one reach the other until the DELLINK is read.
  `ConfigKept` promises nothing of such ports.
* `txRstp` sends `synced` as the Agreement flag (`L/transmit.c:303`), and not
  `agree` as the comment above it says (`L/transmit.c:230`).
* The identifier by which a bridge knows its own BPDUs (`bridge_track.c:655`)
  is read when a port is added, and is stale after a change of priority.
* The kernel is told the state of a port only while the daemon takes it to be
  up (`bridge_track.c:813`), and ports are created down (`:377`): a port that
  an earlier daemon left forwarding goes on forwarding until its state changes.
* `STP_IN_stpm_set_cfg` (`L/stp_in.c:741`) clears the whole `field_mask` when
  it means to clear `BR_CFG_STATE`: the rest of a call that disables the bridge
  is dropped.  A bridge disabled by `setbridgestate` comes back enabled when
  the daemon makes its instance anew.  While it is disabled, `set_port_cfg`,
  port creation and deletion still run its machines.
* The root path cost grows by the port identifier and not by the path cost
  (`L/rolesel.c:185`), so the costs that `setportpathcost` sets have no part in
  the election of the root port.
* A TCN is classified by the fields of the BPDU received before it
  (`L/portinfo.c:429`), so it may refresh that one's information.
* The comment at `L/rolesel.c:156-161` leaves out of the election what was heard
  from a designated bridge that is this bridge.  The code (`L/rolesel.c:178`) has
  no such test, and neither have `RoleSelection` and `RootIsBest`.  An echo of
  the bridge's own information is worse than its own vector; one that tells of
  a root it has lost could be elected.
* `setforcevers slow` forces STP (`rstpctl.8:91-95`), but `rstpVersion` is set
  only when a bridge is created (`L/stpmgmt.c:51`) and `sendRSTP` starts True
  (`L/port.c:158`); `STP_IN_stpm_set_cfg` (`L/stp_in.c:774`) stores
  `ForceVersion` alone.  A running bridge that is forced to slow goes on sending
  RST BPDUs, and ignores the ones it receives (`L/portinfo.c`).
* A clock set forward by more than 24 days overflows the `int` of `time_diff`
  (`epoll_loop.c:86`): the loop takes itself to be early, and may sleep, while
  nothing is to be read, for up to 24 days (`FarStepSleeps`).
* A late answer is taken by the next call of the same kind
  (`ctl_socket_client.c:148`), in commands that go on after a failure.
* `sendmsg` to the daemon has no timeout: a command waits as long as the socket
  of a running daemon stays full.  `AllExit` needs the daemon to read.

## 4. Fairness

`Bridge`: `WF_vars(MachineStep)`, a call that has entered the library goes on,
as nothing in it waits; `WF_vars(OneSecond)`, the main loop calls
`bridge_one_second` when its second is over, whatever descriptors are ready.
Since `OneSecond` is enabled only between calls and stays so until a call is
made, weak fairness is what the loop gives.  Nothing is assumed of the
environment: BPDUs and calls may come or not.  `Returns` needs the first
condition only; it is not implied by it, as two machines could keep each other
busy for ever.

`Daemon`: weak fairness of `ReadMessage` and `OneSecond`, from the same loop.
Commands and changes of the kernel are bounded by the inputs, and so cannot
starve them.

`EpollLoop`: weak fairness of each step of the loop and of `Return` (a
handler reads a datagram that is there, or goes on only while there are more) and of `Tick`.
`Served` also needs strong fairness of being part of a batch: `epoll_wait`
takes ready descriptors in turn, which is Linux's behaviour and no more than
that.  Nothing is assumed of arrivals: handlers always having something to read
do not stop the second.

`CtlSocket`: weak fairness of `Serve` and of each client.  `Serve` is enabled
only while a daemon runs; nothing says that one does.

`Network` states no fairness: `Converges` is a safety property, the deadline
being counted in seconds.

## 5. Proofs

`tlapm` checks the eight modules of proofs, for every value of the constants
that satisfies the named assumptions of the modules.  These say that the
constants have their types, and of `EpollLoop` besides that the loop does not
fall 24 days behind by itself.  Three results on role selection, one on restarts
and one on configurations have a hypothesis more, given with them below.

**Every transition of one bridge** (`PortProofs`, `BridgeProofs`), for any
ports, addresses, configurations, received BPDUs, speeds and bounds:

* `TypeCorrect == Spec => []TypeOK`.  Inductive as it stands; one lemma for
  each machine (`PortProofs`), one step for each action (`BridgeProofs`).
* `AlwaysInService == Spec => []EveryPortInService`.  The inductive
  strengthening of the next theorem: every listed port is enabled, and is selected
  exactly when it is not waiting for reselection.  `portEnabled` is needed because
  the Port Information machine withdraws the role of a disabled port; that it
  always holds, a link that goes down included (`STP_port_init` sets it), is
  a result of its own.
* `AlwaysSelectedOrReselect == Spec => []SelectedOrReselect`, which follows.
* `RolesAlwaysSettled == Spec => []RolesSettled`.  The property can only be
  disturbed where the update ends.  There no machine is ready; the lemmas `InfoAtRest` and
  `RoletrnsAtRest` derive from a machine that is not ready, and from a port in
  service, that the information is installed and the role taken.  Between
  calls, an entry point that returns at once either raises `reselect` or leaves
  alone what the property reads.

**A bridge at rest** (`RestProofs`), in the same generality.  Each property
combines two facts: an invariant of every transition, and that no machine is
ready when an update ends (`EveryPortQuiet`, `EveryPortDone`), which the entry
points that return at once must not undo.

* `AlwaysSound == Spec => []EveryPortSound` is the invariant, of three parts.
  `Gated`: the state of `sttrans` is what the kernel was told, and a port whose
  role blocks it has neither `learn` nor `forward`.  `Informed`: what the last
  selection left in a selected port agrees with where its information comes
  from.  `Migrated`: a port that is checking its neighbour sends RST BPDUs.
* `AlwaysBlockedDiscards`, `AlwaysNothingPending`, `McheckAlwaysServed` follow.
* `AlwaysHandled == Spec => []EveryPortHandled` is the invariant of the role
  transition machine, of four parts, none of which is inductive alone.
  `Placed`: its state is one of the role the port has.  `Outside`: what a port
  outside the protocol has.  `InPassage`: it only passes through
  the states of a designated port, so that at rest it is in `DESIGNATED_PORT`.
  `Fresh`: until it has left `BEGIN` and `INIT_PORT` nothing that comes after
  it in the list moves.  The last is about the order of the machines: if the path
  cost machine could ask for a selection first, a port might be given a role
  while its machine is still to initialise the flags of the old one.
* `AlwaysAnswered == Spec => []ProposalAnswered`, from these and from
  `AlwaysDone == Spec => []EveryPortDone`: a machine that rests in a state of
  the role it has, and could not hop, has nothing to answer.
* `NonStpAlwaysForwards == Spec => []NonStpForwards`, from `Outside`.
* `NeverTold == Spec => []NoChangeTold` is no promise but the extent of a defect
  (`change_missed`): no topology change is noticed, sent or passed on.  It comes
  from `ChangeUnnoticed`: of every listed port the machine is in BEGIN or
  INACTIVE, with `fbdFlush` on, `tcAck` off and `tcWhile` zero; no flag of a
  topology change has been sent.  What other machines and the entry points leave
  alone (`SameState`) makes it inductive, and a transmission copies `tcWhile` and
  `tcAck`.

* `PortsAreGates == Spec => EveryPortGated`, the refinement of `PortGate`: the
  ports of a new bridge are closed gates, and every step of the bridge is, for
  each of its ports, an action of the gate: the states of the role transition
  machine are `Close`, `Learn`, `Forward` or nothing (`MovedGates`), the state
  transition machine `Follow` (`TellsGates`), a second `Second`, a selection
  outside the protocol `Free` (`ElectedGates`), a start `Restart`.
* `AlwaysHeld == Spec => []EveryGateHeld` is the invariant it needs.  The code
  does not test what `PortGate` promises; it follows from the order of the
  machines.  `Closing`: a port in BLOCK_PORT or DISABLE_PORT has no wait yet,
  but until it leaves, the role selection and the ports before it in the list
  rest, so that only its own transmit, state transition and role
  transition machines move (`Window`), and none of them takes it elsewhere.
  `TurnHeld`: the state transition machine comes before the role transition
  machine, which therefore starts its turn with the kernel told; and
  when it closes a port within its turn, the path back to `learn` stays shut
  until the turn is over (`KeptShut`), for a designated port because the same `sync`
  or `reRoot` that closed it still stands (`Holding`).  `PassesBy`, `Unopened` and
  `Stepwise` are about the states the machine only passes through, a port that
  starts, and the order of `learn` and `forward`.  It rests on
  `EveryPortSound` and `EveryPortHandled`.

**Role selection** (`SelectionProofs`)

* `AlwaysChosen`, `AlwaysSegmentRule`, `RootAlwaysBest` assume `InRange` and
  state `Spec => []PortsChosen`, `[]SegmentRule`, `[]RootIsBest`.
  `updtRootPriority` is a walk over the ports; that what it ends with is no worse
  than what it passed is an induction on the length of the list, made with a
  well-founded order because the library's induction schemes are out of reach.
  `PortsChosen` says that what the last selection chose remains true of
  the vectors it chose from for as long as the port is selected, and that
  what was heard on a port carries an identifier which that port had: by it the
  root port is recognised.
* `InRange` says that a port index fits its octet, that ports are created with a
  priority that `set_port_cfg` accepts, and that the path cost in a BPDU plus
  the largest port identifier is less than 2^31.  The first is what the code takes
  for granted when it adds the index to the priority shifted by eight bits
  (`L/port.c:73`): beyond 255 ports, identifiers coincide.  The second is
  `DEF_PORT_PRIO`, 128.  The third is about the network: ten hops of the largest
  path cost, 200,000,000, come within it.  Beyond it `STP_VECT_compare_vector`
  subtracts its way past the range of `int` and is no order any more; no
  statement about a best vector is then true.
* `NeverOverAge == Spec => []NoOverAge`, without that hypothesis.  The reason is
  the order of the machines once more: `AlwaysInTurn == Spec => []InfoInTurn`
  says that while a port holds information that is too old the turn is its
  information machine's, which ages it before the selection gets a turn.
* `EdgesAlwaysAdmin == Spec => []EveryEdgeAdmin`: an operational edge port is one
  that the manager declared.
* `RestartAlwaysBlocks` assumes `ValidCfg(InitialCfg)` and states
  `Spec => RestartBlocks`.  Forwarding alone is no invariant of a restart; what
  is (`RestartShuts`) says why no port can come to forward.  Nothing is heard
  while it lasts, so that no port offers a root, the times of the root remain the
  bridge's own and no port is given the role of root or becomes trusted.  A
  port that is neither an edge port nor outside the protocol therefore waits
  for a forward delay that does not run down before the restart has ended.
  `EveryEdgeAdmin` keeps an edge port from ceasing to be one while it already
  forwards.  The hypothesis makes the delay positive: `set_cfg` checks it
  (`TimesSteps`), the creation of a bridge does not, and takes the defaults of
  `bridge_track.c`, which are valid.
* `HelloAlwaysHonest == Spec => []HonestHello`.  A port keeps the role of
  designated port for some transitions after it has heard something better, and
  the transmit machine is the first in the list of the port.  That it is silent
  meanwhile is what `AlwaysFit == Spec => []EveryHelloFit` says, an invariant of
  several parts.  `HandedOver`: the receive machine takes a BPDU only when the machines
  before it rest, so that the port is mute (nothing to send, or no room to send
  it), the information machine is next, and no machine ahead of it wakes up.
  `Examined`: the port is mute while the BPDU is compared.  `Superseded`: it is
  mute from then on until the role transition machine has left the states of a
  designated port, and until then the topology change machine, which could give
  it something to send, does not get its turn.  `Unhurried`: when an
  entry point returns, nothing is left half done.  `Arrived` and `Unstarted` are
  about a BPDU not taken yet, which is on no edge port and on none outside the
  protocol, and about a port that has not been in service.  The invariant rests
  on `EveryPortSound`, `EveryPortHandled` and `InfoInTurn`, and needs no
  hypothesis about numbers.

**The daemon** (`DaemonProofs`, with `Folding` for its walks over lists and
bridges), for any bridges, devices, states the library may report, commands,
queue and bounds:

* `DaemonSound == Spec => []Sound`, the inductive invariant.  Its parts are
  `Typed`; `Lists` (a known port is on the list of its master, once, and on no
  other; a bridge not known has no ports and does not run); `LibOK` for each
  bridge (the library's ports are numbers of ports of its list, and the
  configurations are the ones kept); `Spoken` (a bridge told to run RSTP may
  send); and that a message on its way that names a master is about a device,
  without which `bridge_notify` could make a port of a bridge.  Each function of
  `bridge_track.c` has a lemma that says what it keeps and what it leaves alone,
  the callbacks of the library included.
* `AlwaysTyped`, `AlwaysListed`, `NeverOrphan`, `AlwaysSpeaks` follow.
* `AlwaysConfigured` assumes `OneField`: a port configuration that the library
  refuses names one field only.  `rstpctl` sends no other
  (`set_port_cfg_value`, `ctl_main.c:608`).  A call with two fields, the second
  refused, would leave the first in the library and not in the daemon.
* `DaemonFollows == Spec => []Following`, the invariant behind
  `AlwaysTracked == Spec => []Tracked`.  As long as nothing was lost, the
  newest message under way about each device says what the kernel is now, and
  of a device without one the daemon agrees with the kernel (`InStep`).  That is
  not inductive: the deletion of a bridge takes its ports off the daemon's
  lists whatever the messages about them say.  `Departed` adds that
  the end of a bridge the kernel no longer has comes after all messages that
  name it as a master, and is under way while the daemon knows it.

**The main loop** (`EpollProofs`), for any handlers, any length of the batch,
and any steps of the clock:

* `TypeCorrect == Spec => []TypeOK`, with `OnePlace`: a handler has one entry
  of a batch at most.
* `NeverStale == Spec => NoStaleCall`.  The invariant `BatchNamesWatched` is
  what `add_epoll`, `remove_epoll` and the loop keep between them: an entry of
  the batch that is not NULL names a handler that is watched, and whose
  `ref_ev` is that entry.  Without the second half a handler removed by another
  could not find the entry to clear.
* `AlwaysInTime == Spec => []NeverAhead`, from `InTime`.  Until the clock is
  set, `time_diff` is exact (`TimeDiffExact`), since the lag is bounded; after a
  step it is what `TimeDiff` makes of a value near the step (`TimeDiffShift`:
  a second more or less shifts it by as much, modulo the range), which bounds
  the sleep by `Explained`.
* `NearStepsInTime`: after a step forward that an `int` holds with the lag, the
  loop never sleeps past the next second.  `FarStepSleeps`: after a longer one,
  up to twice the range, it calls no second and sleeps `due + 2 * Half`.

**The control channel** (`CtlProofs`), for any clients, commands, queue and
number of restarts:

* `TypeCorrect == Spec => []TypeOK`.
* `OneInFlightAlways == Spec => []Flight`.  Neither property below speaks of
  messages, so neither is inductive.  `Flight` says of a client that is `Sound`
  (no call of its has failed, or its command ends when one does) that all that
  is on its way is one request not performed yet, or one answer with the result
  of performing the call it is at; and that its calls were made in order.
* `ExitZeroHolds == Spec => []ExitZero`, from `Flight`.
* `ImplementsRemoteCall == Spec => Implements`: initial states map to initial
  states, and each action to a step of `RemoteCall` (`Send` makes a call,
  `Serve` performs it, `Receive` returns it, `SendFails` and `TimesOut` fail
  it) or to a stutter: one lemma for each kind of step, `Flight` being what
  makes an answer the right one.

**Found by proving.**  Three properties had held in every run and were not true
of all instances; attempts to prove them showed why, and they now say what the
code does.  `RootIsBest` fails for a bridge that is given a better identifier
while it is disabled.  `ConfigKept` fails for two ports with one number.
`NonStpForwards` held without its exception only because its run has two inputs:
the counterexample is `non_stp`.  `ProposalAnswered` spoke of the proposal alone,
and now speaks of `sync` and `agree` as well.

**Only model-checked**

* Liveness under fairness (`Returns`, `Recovers`, `HellosForever`,
  `MembersFound`, `SecondsGoOn`, `Served`, `AllExit`), which the prover does not
  handle.
* `NoLastingLoop` and `Converges` of `Network`: they rest on the values of the
  timers and of the identifiers of a small network, and would need an invariant
  of the whole protocol.

## 6. Not modelled

* Of the library: several `STPM_T` in one instance and the uniqueness check
  among them (the daemon keeps one instance for each bridge, with one
  `STPM_T`), `STP_IN_delete_all` and `STP_IN_stpm_delete` but for their effect
  as the daemon sees it, the getters, the debugging switches (`skip_rx`,
  `skip_tx`, `dbg_rstp_deny`), the conversions of the wire format.
* Of the daemon: the status calls, which read only, and the text of the sockets
  (filters of `packet.c`, ethtool, attributes of netlink messages).
* Of `rstpctl`: the conversion of its arguments and what it prints.  Those keep
  no state.
* Of the simulators: bridges that join and leave, the `ring` command, hubs, and
  their command line (`L/cli.c`, `L/stp_cli.c`) but for the change of priority
  (`ConfigureB`).
* `libnetlink.c` and the kernel's headers in `include/` are vendored: what the
  daemon calls of them is in `Daemon`, the rest is not called.

## 7. Plan

Done: one bridge, two bridges, the daemon, the loop, the channel, and proofs
about all but two bridges.  What would come next:

1. Three bridges in `Network`, with a reduction that keeps it small: an inner
   bridge passes on what it heard, so that information may count to infinity.
