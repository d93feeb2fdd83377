----------------------------- MODULE CtlSocket -----------------------------
(***************************************************************************)
(* The control channel: processes that run commands of rstpctl (ctl_main.c,*)
(* ctl_cli_wrap.c, ctl_socket_client.c), and the daemon that answers them  *)
(* (ctl_socket.c), over datagram sockets.                                  *)
(*                                                                         *)
(* A message says which kind of call it is about but not which call, and   *)
(* the client waits for an answer no longer than five seconds: how long a  *)
(* second is does not matter, so it may give up whenever nothing has come. *)
(* What a call asks for and the values it returns are known by the call.   *)
(***************************************************************************)
EXTENDS Naturals, Sequences

CONSTANTS
  Client,      \* processes running rstpctl
  Programs,    \* the sequences of calls that its commands make
  NoCall,      \* no call's data
  Nothing,     \* not performed, or not returned, yet
  Failed,      \* what send_ctl_message returning -1 leaves of a call
  MaxCalls,    \* the arguments that a command takes bound its calls
  QueueLimit,  \* datagrams that the daemon's socket holds
  MaxStarts    \* bound: how often the daemon is started

Command == {"enable_bridge_rstp", "get_bridge_state", "set_bridge_config",
            "get_port_state", "set_port_config", "set_debug_level"}

\* A call of a program; the command goes on after an error unless it is fatal.
Step == [cmd : Command, fatal : BOOLEAN]

ASSUME ProgramAssumption ==
  /\ MaxCalls \in Nat
  /\ \A p \in Programs : p \in Seq(Step) /\ Len(p) \in 1 .. MaxCalls
  /\ QueueLimit \in Nat \ {0}
  /\ MaxStarts \in Nat

\* The calls whose answer carries data: the others have an empty _OUT.
HasOut(cmd) == cmd \in {"get_bridge_state", "get_port_state"}

Calls == Client \X (1 .. MaxCalls)
Codes == {"ok", "error", "refused"}  \* zero, an error number, -1
Results == [res : Codes, data : Calls \cup {NoCall}]

\* The datagrams: struct ctl_msg_hdr and what follows it.
Request == [cmd : Command, call : Calls]
Reply == [cmd : Command, call : Calls, res : Codes,
          data : Calls \cup {NoCall}]

ASSUME NothingAssumption ==
  /\ NoCall \notin Calls
  /\ Nothing \notin Results /\ Failed \notin Results /\ Nothing # Failed

VARIABLES
  daemon,     \* which run of the daemon this is, 0 when none runs
  starts,     \* how many there have been
  requests,   \* datagrams that the daemon has not read
  outbuf,     \* msg_outbuf: the call whose data it holds
  program,    \* what a client runs
  pc,         \* where a client is: "start", "call", "wait" or "exit"
  at,         \* the call of its program it is at
  peer,       \* the run of the daemon it is connected to
  inbox,      \* datagrams that it has not read
  status,     \* r: zero, or an error that one of its calls met
  performed,  \* what performing a call has resulted in
  returned    \* what a call has returned to the client

server == <<daemon, starts, requests, outbuf>>
vars == <<daemon, starts, requests, outbuf, program, pc, at, peer, inbox,
          status, performed, returned>>

This(c) == <<c, at[c]>>
Cmd(c) == program[c][at[c]].cmd

-----------------------------------------------------------------------------
(* The client                                                              *)

\* ctl_client_init
Connect(c) ==
  /\ pc[c] = "start"
  /\ IF daemon = 0
     THEN /\ pc' = [pc EXCEPT ![c] = "exit"]
          /\ status' = [status EXCEPT ![c] = "error"]
          /\ UNCHANGED peer
     ELSE /\ pc' = [pc EXCEPT ![c] = "call"]
          /\ peer' = [peer EXCEPT ![c] = daemon]
          /\ UNCHANGED status
  /\ UNCHANGED <<server, program, at, inbox, performed, returned>>

\* a mutant: an error is forgotten when the next call succeeds
ReturnsForgetting(c, result) ==
  LET good == result # Failed /\ result.res = "ok"
      over == at[c] = Len(program[c]) \/ (~good /\ program[c][at[c]].fatal)
  IN /\ returned' = [returned EXCEPT ![This(c)] = result]
     /\ status' = [status EXCEPT ![c] = IF good THEN "ok" ELSE "error"]
     /\ pc' = [pc EXCEPT ![c] = IF over THEN "exit" ELSE "call"]
     /\ at' = IF over THEN at ELSE [at EXCEPT ![c] = @ + 1]

\* a mutant: the command goes on after its last call
ReturnsPast(c, result) ==
  LET good == result # Failed /\ result.res = "ok"
      over == at[c] > Len(program[c]) \/ (~good /\ program[c][at[c]].fatal)
  IN /\ returned' = [returned EXCEPT ![This(c)] = result]
     /\ status' = IF good THEN status ELSE [status EXCEPT ![c] = "error"]
     /\ pc' = [pc EXCEPT ![c] = IF over THEN "exit" ELSE "call"]
     /\ at' = IF over THEN at ELSE [at EXCEPT ![c] = @ + 1]

\* The call returns; the command goes on with the next one, or is over.
Returns(c, result) ==
  LET good == result # Failed /\ result.res = "ok"
      over == at[c] = Len(program[c]) \/ (~good /\ program[c][at[c]].fatal)
  IN /\ returned' = [returned EXCEPT ![This(c)] = result]
     /\ status' = IF good THEN status ELSE [status EXCEPT ![c] = "error"]
     /\ pc' = [pc EXCEPT ![c] = IF over THEN "exit" ELSE "call"]
     /\ at' = IF over THEN at ELSE [at EXCEPT ![c] = @ + 1]

\* sendmsg, which waits for room in the queue of the daemon's socket
Send(c) ==
  /\ pc[c] = "call"
  /\ daemon = peer[c] /\ Len(requests) < QueueLimit
  /\ requests' = Append(requests, [cmd |-> Cmd(c), call |-> This(c)])
  /\ pc' = [pc EXCEPT ![c] = "wait"]
  /\ UNCHANGED <<daemon, starts, outbuf, program, at, peer, inbox, status,
                 performed, returned>>

\* sendmsg to a socket that is closed
SendFails(c) ==
  /\ pc[c] = "call"
  /\ daemon # peer[c]
  /\ Returns(c, Failed)
  /\ UNCHANGED <<server, program, peer, inbox, performed>>

\* a mutant: after a timeout the client waits again
TimesOutAgain(c) ==
  /\ pc[c] = "wait"
  /\ inbox[c] = <<>>
  /\ UNCHANGED vars

\* poll returns 0
TimesOut(c) ==
  /\ pc[c] = "wait"
  /\ inbox[c] = <<>>
  /\ Returns(c, Failed)
  /\ UNCHANGED <<server, program, peer, inbox, performed>>

\* a mutant: the output is copied whatever the result
ResultCopied(m) == [res |-> m.res, data |-> m.data]

\* COPY_OUT: the data are used only when there is no error
ResultOf(m) == [res |-> m.res,
                data |-> IF m.res = "ok" THEN m.data ELSE NoCall]

\* recvmsg: the answer must be to the same kind of call
Receive(c) ==
  /\ pc[c] = "wait"
  /\ inbox[c] # <<>>
  /\ LET m == Head(inbox[c]) IN
     Returns(c, IF m.cmd = Cmd(c) THEN ResultOf(m) ELSE Failed)
  /\ inbox' = [inbox EXCEPT ![c] = Tail(@)]
  /\ UNCHANGED <<server, program, peer, performed>>

-----------------------------------------------------------------------------
(* The daemon                                                              *)

\* What ctl_rcv_handler sends back.  After an error it is what msg_outbuf
\* held before, after -1 there are no data.
Answer(m, res) ==
  [cmd |-> m.cmd, call |-> m.call, res |-> res,
   data |-> IF HasOut(m.cmd) /\ res # "refused" THEN outbuf' ELSE NoCall]

\* ctl_rcv_handler.  Its answer finds no one if the client has exited.
Serve ==
  /\ daemon # 0
  /\ requests # <<>>
  /\ LET m == Head(requests)
         c == m.call[1]
     IN \E res \in Codes :
          /\ outbuf' = IF res = "ok" /\ HasOut(m.cmd) THEN m.call ELSE outbuf
          /\ performed' = [performed EXCEPT ![m.call] =
                             [res |-> res,
                              data |-> IF res = "ok" /\ HasOut(m.cmd)
                                       THEN m.call ELSE NoCall]]
          /\ inbox' = IF pc[c] = "exit" THEN inbox
                      ELSE [inbox EXCEPT ![c] = Append(@, Answer(m, res))]
  /\ requests' = Tail(requests)
  /\ UNCHANGED <<daemon, starts, program, pc, at, peer, status, returned>>

\* The daemon exits, and its socket goes with what is queued there.
Stop ==
  /\ daemon # 0
  /\ daemon' = 0
  /\ requests' = <<>>
  /\ outbuf' = NoCall
  /\ UNCHANGED <<starts, program, pc, at, peer, inbox, status, performed,
                 returned>>

\* ctl_socket_init: a new socket, which no earlier client is connected to
Start ==
  /\ daemon = 0
  /\ starts < MaxStarts
  /\ starts' = starts + 1
  /\ daemon' = starts'
  /\ UNCHANGED <<requests, outbuf, program, pc, at, peer, inbox, status,
                 performed, returned>>

-----------------------------------------------------------------------------
Init ==
  /\ daemon = 0
  /\ starts = 0
  /\ requests = <<>>
  /\ outbuf = NoCall
  /\ program \in [Client -> Programs]
  /\ pc = [c \in Client |-> "start"]
  /\ at = [c \in Client |-> 1]
  /\ peer = [c \in Client |-> 0]
  /\ inbox = [c \in Client |-> <<>>]
  /\ status = [c \in Client |-> "ok"]
  /\ performed = [k \in Calls |-> Nothing]
  /\ returned = [k \in Calls |-> Nothing]

ClientStep(c) ==
  Connect(c) \/ Send(c) \/ SendFails(c) \/ TimesOut(c) \/ Receive(c)

Next == (\E c \in Client : ClientStep(c)) \/ Serve \/ Stop \/ Start

Spec == Init /\ [][Next]_vars

(***************************************************************************)
(* Processes run, and the daemon, if it runs, reads its socket again and   *)
(* again, which is what EpollLoop!Served says of it.                       *)
(***************************************************************************)
FairSpec == Spec /\ WF_vars(Serve) /\ \A c \in Client : WF_vars(ClientStep(c))

=============================================================================
