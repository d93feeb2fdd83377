----------------------------- MODULE CtlProofs -----------------------------
(***************************************************************************)
(* A command that exits with zero has had every call performed and         *)
(* answered; and to commands that stop at a failure the channel implements *)
(* RemoteCall: for any clients, any programs, any length of the daemon's   *)
(* queue and any number of restarts.                                       *)
(***************************************************************************)
EXTENDS CtlProperties, SequenceTheorems, TLAPS

-----------------------------------------------------------------------------
(* Types                                                                   *)

LEMMA CallParts ==
  ASSUME NEW k \in Calls
  PROVE  k[1] \in Client /\ k[2] \in 1 .. MaxCalls /\ k = <<k[1], k[2]>>
BY DEF Calls

LEMMA ThisType ==
  ASSUME TypeOK, NEW c \in Client
  PROVE  /\ This(c) \in Calls
         /\ program[c] \in Seq(Step)
         /\ at[c] \in 1 .. Len(program[c])
         /\ program[c][at[c]] \in Step
         /\ Cmd(c) \in Command
<1>1. program[c] \in Seq(Step) /\ Len(program[c]) \in Nat
  BY ProgramAssumption DEF TypeOK
<1>2. at[c] \in 1 .. Len(program[c]) /\ at[c] \in 1 .. MaxCalls
  BY <1>1, ProgramAssumption DEF TypeOK
<1>3. program[c][at[c]] \in Step
  BY <1>1, <1>2
<1> QED
  BY <1>1, <1>2, <1>3 DEF This, Calls, Cmd, Step

\* What Returns does, in the terms the proofs need.
LEMMA ReturnsDoes ==
  ASSUME TypeOK, NEW c \in Client, NEW result \in Results \cup {Failed},
         Returns(c, result)
  PROVE  /\ returned' = [returned EXCEPT ![This(c)] = result]
         /\ \/ /\ pc' = [pc EXCEPT ![c] = "exit"]
               /\ at' = at
            \/ /\ pc' = [pc EXCEPT ![c] = "call"]
               /\ at' = [at EXCEPT ![c] = at[c] + 1]
               /\ at[c] < Len(program[c])
         /\ \/ /\ result # Failed /\ result.res = "ok"
               /\ status' = status
               /\ pc'[c] = "exit" => at[c] = Len(program[c])
            \/ /\ ~(result # Failed /\ result.res = "ok")
               /\ status' = [status EXCEPT ![c] = "error"]
               /\ StopsAtFailure(c) => pc'[c] = "exit"
<1>1. at[c] \in 1 .. Len(program[c]) /\ Len(program[c]) \in Nat
  BY ThisType
<1> DEFINE good == result # Failed /\ result.res = "ok"
           over == \/ at[c] = Len(program[c])
                   \/ ~good /\ program[c][at[c]].fatal
<1>2. /\ returned' = [returned EXCEPT ![This(c)] = result]
      /\ status' = IF good THEN status ELSE [status EXCEPT ![c] = "error"]
      /\ pc' = [pc EXCEPT ![c] = IF over THEN "exit" ELSE "call"]
      /\ at' = IF over THEN at ELSE [at EXCEPT ![c] = @ + 1]
  BY DEF Returns
<1>3. over => pc' = [pc EXCEPT ![c] = "exit"] /\ at' = at
  BY <1>2
<1>4. ~over => /\ pc' = [pc EXCEPT ![c] = "call"]
               /\ at' = [at EXCEPT ![c] = at[c] + 1]
               /\ at[c] < Len(program[c])
  BY <1>1, <1>2
<1>5. good => /\ status' = status
              /\ pc'[c] = "exit" => at[c] = Len(program[c])
  <2>1. good /\ ~over => pc'[c] = "call"
    BY <1>4 DEF TypeOK
  <2> QED BY <1>2, <2>1
<1>6. ~good => /\ status' = [status EXCEPT ![c] = "error"]
               /\ StopsAtFailure(c) => pc'[c] = "exit"
  <2>1. ~good /\ StopsAtFailure(c) => over
    BY <1>1 DEF StopsAtFailure
  <2> QED BY <1>2, <1>3, <2>1 DEF TypeOK
<1> QED
  BY <1>2, <1>3, <1>4, <1>5, <1>6

LEMMA ReturnsType ==
  ASSUME TypeOK, NEW c \in Client, NEW result \in Results \cup {Failed},
         Returns(c, result), UNCHANGED program
  PROVE  /\ pc' \in [Client -> {"start", "call", "wait", "exit"}]
         /\ at' \in [Client -> 1 .. MaxCalls]
         /\ \A d \in Client : at'[d] <= Len(program'[d])
         /\ status' \in [Client -> {"ok", "error"}]
         /\ returned' \in [Calls -> Results \cup {Failed, Nothing}]
<1>1. at[c] \in 1 .. Len(program[c]) /\ Len(program[c]) \in 1 .. MaxCalls
  BY ThisType, ProgramAssumption DEF TypeOK
<1>2. This(c) \in Calls
  BY ThisType
<1>8. at' = at \/ (/\ at' = [at EXCEPT ![c] = at[c] + 1]
                    /\ at[c] < Len(program[c]))
  BY ReturnsDoes
<1>3. at' \in [Client -> 1 .. MaxCalls]
  <2>1. at \in [Client -> 1 .. MaxCalls]
    BY DEF TypeOK
  <2>2. at[c] < Len(program[c]) => at[c] + 1 \in 1 .. MaxCalls
    BY <1>1, ProgramAssumption
  <2> QED BY <1>8, <2>1, <2>2
<1>4. \A d \in Client : at'[d] <= Len(program'[d])
  <2> SUFFICES ASSUME NEW d \in Client PROVE at'[d] <= Len(program[d])
    OBVIOUS
  <2>1. at[d] <= Len(program[d]) /\ at \in [Client -> 1 .. MaxCalls]
    BY DEF TypeOK
  <2>2. CASE at' = at
    BY <2>1, <2>2
  <2>3. CASE at' = [at EXCEPT ![c] = at[c] + 1] /\ at[c] < Len(program[c])
    BY <1>1, <2>1, <2>3
  <2> QED BY <1>8, <2>2, <2>3
<1>5. status' \in [Client -> {"ok", "error"}]
  BY ReturnsDoes DEF TypeOK
<1>6. pc' \in [Client -> {"start", "call", "wait", "exit"}]
  BY ReturnsDoes DEF TypeOK
<1>7. returned' \in [Calls -> Results \cup {Failed, Nothing}]
  <2>1. returned' = [returned EXCEPT ![This(c)] = result]
    BY ReturnsDoes
  <2> QED BY <1>2, <2>1 DEF TypeOK
<1> QED
  BY <1>3, <1>4, <1>5, <1>6, <1>7

\* What a client makes of an answer is a result.
LEMMA ReceiveType ==
  ASSUME TypeOK, NEW c \in Client, inbox[c] # <<>>
  PROVE  /\ Head(inbox[c]) \in Reply
         /\ ResultOf(Head(inbox[c])) \in Results
<1>1. inbox[c] \in Seq(Reply)
  BY DEF TypeOK
<1>2. Head(inbox[c]) \in Reply
  BY <1>1, HeadTailProperties
<1> QED
  BY <1>2 DEF ResultOf, Results, Reply

LEMMA ServeType ==
  ASSUME TypeOK, requests # <<>>, NEW res \in Codes,
         outbuf' \in Calls \cup {NoCall}
  PROVE  /\ Head(requests) \in Request
         /\ Head(requests).call[1] \in Client
         /\ Answer(Head(requests), res) \in
              Reply
<1>1. Head(requests) \in Request
  BY HeadTailProperties DEF TypeOK
<1>2. Head(requests).call[1] \in Client
  BY <1>1, CallParts DEF Request
<1>3. (IF HasOut(Head(requests).cmd) /\ res # "refused" THEN outbuf'
       ELSE NoCall) \in Calls \cup {NoCall}
  OBVIOUS
<1> QED
  BY <1>1, <1>2, <1>3 DEF Answer, Request, Reply

LEMMA InitType == Init => TypeOK
<1> SUFFICES ASSUME Init PROVE TypeOK
  OBVIOUS
<1>1. at \in [Client -> 1 .. MaxCalls]
  <2>1. ASSUME NEW c \in Client PROVE 1 \in 1 .. MaxCalls
    <3>1. program[c] \in Programs
      BY DEF Init
    <3> QED BY <3>1, ProgramAssumption
  <2> QED BY <2>1 DEF Init
<1>2. \A c \in Client : at[c] <= Len(program[c])
  <2>1. ASSUME NEW c \in Client PROVE at[c] <= Len(program[c])
    <3>1. program[c] \in Programs /\ at[c] = 1
      BY DEF Init
    <3>2. Len(program[c]) \in 1 .. MaxCalls /\ MaxCalls \in Nat
      BY <3>1, ProgramAssumption
    <3> QED BY <3>1, <3>2
  <2> QED BY <2>1
<1>3. /\ daemon \in 0 .. MaxStarts /\ starts \in 0 .. MaxStarts
      /\ peer \in [Client -> 0 .. MaxStarts]
  BY ProgramAssumption DEF Init
<1>4. /\ requests \in Seq(Request)
      /\ inbox \in [Client -> Seq(Reply)]
  BY DEF Init
<1> QED
  BY <1>1, <1>2, <1>3, <1>4 DEF Init, TypeOK

LEMMA NextType == TypeOK /\ [Next]_vars => TypeOK'
<1> SUFFICES ASSUME TypeOK, [Next]_vars PROVE TypeOK'
  OBVIOUS
<1>1. ASSUME NEW c \in Client, Connect(c) PROVE TypeOK'
  BY <1>1 DEF Connect, TypeOK, server
<1>2. ASSUME NEW c \in Client, Send(c) PROVE TypeOK'
  <2>1. [cmd |-> Cmd(c), call |-> This(c)] \in Request
    BY ThisType DEF Request
  <2>2. requests' \in Seq(Request)
    BY <1>2, <2>1, AppendProperties DEF Send, TypeOK
  <2> QED BY <1>2, <2>2 DEF Send, TypeOK
<1>3. ASSUME NEW c \in Client, SendFails(c) \/ TimesOut(c) PROVE TypeOK'
  <2>1. Returns(c, Failed) /\ UNCHANGED program
    BY <1>3 DEF SendFails, TimesOut
  <2>2. /\ pc' \in [Client -> {"start", "call", "wait", "exit"}]
        /\ at' \in [Client -> 1 .. MaxCalls]
        /\ \A d \in Client : at'[d] <= Len(program'[d])
        /\ status' \in [Client -> {"ok", "error"}]
        /\ returned' \in [Calls -> Results \cup {Failed, Nothing}]
    BY <2>1, ReturnsType
  <2> QED BY <1>3, <2>2 DEF SendFails, TimesOut, TypeOK, server
<1>4. ASSUME NEW c \in Client, Receive(c) PROVE TypeOK'
  <2>1. PICK result \in Results \cup {Failed} :
          Returns(c, result) /\ UNCHANGED program
    BY <1>4, ReceiveType DEF Receive
  <2>2. /\ pc' \in [Client -> {"start", "call", "wait", "exit"}]
        /\ at' \in [Client -> 1 .. MaxCalls]
        /\ \A d \in Client : at'[d] <= Len(program'[d])
        /\ status' \in [Client -> {"ok", "error"}]
        /\ returned' \in [Calls -> Results \cup {Failed, Nothing}]
    BY <2>1, ReturnsType
  <2>3. inbox' \in [Client -> Seq(Reply)]
    <3>1. inbox[c] \in Seq(Reply) /\ inbox[c] # <<>>
      BY <1>4 DEF Receive, TypeOK
    <3>2. Tail(inbox[c]) \in Seq(Reply)
      BY <3>1, HeadTailProperties
    <3> QED BY <1>4, <3>2 DEF Receive, TypeOK
  <2> QED BY <1>4, <2>2, <2>3 DEF Receive, TypeOK, server
<1>5. CASE Serve
  <2> DEFINE m == Head(requests)
             k == m.call
  <2>1. PICK res \in Codes :
          /\ outbuf' = IF res = "ok" /\ HasOut(m.cmd) THEN k ELSE outbuf
          /\ performed' = [performed EXCEPT ![k] =
                             [res |-> res,
                              data |-> IF res = "ok" /\ HasOut(m.cmd)
                                       THEN k ELSE NoCall]]
          /\ inbox' = IF pc[k[1]] = "exit" THEN inbox
                      ELSE [inbox EXCEPT ![k[1]] = Append(@, Answer(m, res))]
    BY <1>5 DEF Serve
  <2>2. m \in Request /\ requests # <<>>
    BY <1>5, HeadTailProperties DEF Serve, TypeOK
  <2>3. outbuf' \in Calls \cup {NoCall}
    BY <2>1, <2>2 DEF TypeOK, Request
  <2>4. /\ k[1] \in Client
        /\ Answer(m, res) \in Reply
    BY <2>2, <2>3, ServeType
  <2>5. inbox' \in [Client -> Seq(Reply)]
    <3>1. CASE pc[k[1]] = "exit"
      BY <2>1, <3>1 DEF TypeOK
    <3>2. CASE pc[k[1]] # "exit"
      <4>1. inbox[k[1]] \in Seq(Reply)
        BY <2>4 DEF TypeOK
      <4>2. Append(inbox[k[1]], Answer(m, res)) \in Seq(Reply)
        BY <2>4, <4>1, AppendProperties
      <4> QED BY <2>1, <2>4, <3>2, <4>2 DEF TypeOK
    <3> QED BY <3>1, <3>2
  <2>6. performed' \in [Calls -> Results \cup {Nothing}]
    <3>1. [res |-> res, data |-> IF res = "ok" /\ HasOut(m.cmd)
                                 THEN k ELSE NoCall] \in Results
      BY <2>2 DEF Results, Request
    <3> QED BY <2>1, <2>2, <3>1 DEF TypeOK, Request
  <2>7. requests' \in Seq(Request)
    BY <1>5, HeadTailProperties DEF Serve, TypeOK
  <2> QED BY <1>5, <2>3, <2>5, <2>6, <2>7 DEF Serve, TypeOK
<1>6. CASE Stop
  <2>1. requests' \in Seq(Request) /\ daemon' \in 0 .. MaxStarts
    BY <1>6, ProgramAssumption DEF Stop
  <2> QED BY <1>6, <2>1 DEF Stop, TypeOK
<1>7. CASE Start
  <2>1. starts' \in 0 .. MaxStarts /\ daemon' \in 0 .. MaxStarts
    BY <1>7, ProgramAssumption DEF Start, TypeOK
  <2> QED BY <1>7, <2>1 DEF Start, TypeOK
<1>8. CASE UNCHANGED vars
  BY <1>8 DEF vars, TypeOK
<1> QED
  BY <1>1, <1>2, <1>3, <1>4, <1>5, <1>6, <1>7, <1>8 DEF Next, ClientStep

\* ctl_socket.c, ctl_socket_client.c: every message is of a call that a
\* command makes, and no command makes more calls than its program holds.
THEOREM TypeCorrect == Spec => []TypeOK
BY InitType, NextType, PTL DEF Spec

-----------------------------------------------------------------------------
(* The messages in flight                                                  *)

\* A client none of whose calls has failed, or that ends when one does.
Sound(c) == status[c] = "ok" \/ StopsAtFailure(c)

\* The requests of a client on their way to the daemon.
Sent(c) == {i \in 1 .. Len(requests) : requests[i].call[1] = c}

(***************************************************************************)
(* Everything in flight between a sound client and the daemon is about the *)
(* call that it is waiting for, or waited for when it exited: one request  *)
(* not performed yet, or one answer with the result of performing it.  The *)
(* two properties say nothing of messages, and so are not inductive: this  *)
(* is what keeps a late answer from being taken for another's.             *)
(***************************************************************************)
OneInFlight(c) ==
  /\ \A i \in Sent(c) :
       /\ requests[i].call = This(c)
       /\ performed[This(c)] = Nothing
       /\ pc[c] = "wait" \/ (pc[c] = "exit" /\ returned[This(c)] # Nothing)
       /\ \A j \in Sent(c) : i = j
  /\ Len(inbox[c]) <= 1
  /\ inbox[c] # <<>> => /\ pc[c] \in {"wait", "exit"}
                        /\ performed[This(c)] = ResultOf(Head(inbox[c]))

\* A client's calls beyond the one it is at have not been made; of those
\* behind it, all went well if none failed.
InOrder(c) ==
  /\ \A n \in 1 .. MaxCalls : n > at[c] =>
       performed[<<c, n>>] = Nothing /\ returned[<<c, n>>] = Nothing
  /\ pc[c] \in {"start", "call"} => performed[This(c)] = Nothing
  /\ pc[c] # "exit" => returned[This(c)] = Nothing
  /\ status[c] = "ok" =>
       /\ \A n \in 1 .. MaxCalls :
            n < at[c] \/ (n = at[c] /\ pc[c] = "exit") =>
              /\ performed[<<c, n>>] # Nothing
              /\ performed[<<c, n>>].res = "ok"
              /\ returned[<<c, n>>] = performed[<<c, n>>]
       /\ pc[c] = "exit" => at[c] = Len(program[c])

Flight == \A c \in Client : Sound(c) => OneInFlight(c) /\ InOrder(c)

\* What a step of one client leaves as it was for another.
LEMMA OthersUndisturbed ==
  ASSUME TypeOK, NEW d \in Client, Sound(d)' => Sound(d),
         Sound(d) => OneInFlight(d) /\ InOrder(d),
         UNCHANGED <<pc[d], at[d], status[d], inbox[d], program[d]>>,
         \A n \in 1 .. MaxCalls : UNCHANGED <<performed[<<d, n>>],
                                              returned[<<d, n>>]>>,
         \A i \in Sent(d)' : \E j \in Sent(d) :
           requests'[i].call = requests[j].call,
         \A i, j \in Sent(d)' : (\A k, l \in Sent(d) : k = l) => i = j
  PROVE  Sound(d)' => OneInFlight(d)' /\ InOrder(d)'
<1> SUFFICES ASSUME Sound(d)' PROVE OneInFlight(d)' /\ InOrder(d)'
  OBVIOUS
<1>1. OneInFlight(d) /\ InOrder(d)
  OBVIOUS
<1>2. This(d)' = This(d) /\ at[d] \in 1 .. MaxCalls
  BY DEF This, TypeOK
<1>3. UNCHANGED <<performed[This(d)], returned[This(d)]>>
  BY <1>2 DEF This
<1>4. OneInFlight(d)'
  BY <1>1, <1>2, <1>3 DEF OneInFlight, ResultOf
<1>5. InOrder(d)'
  BY <1>1, <1>2, <1>3 DEF InOrder
<1> QED
  BY <1>4, <1>5

\* A step of client c that neither reads nor sends leaves the requests.
LEMMA SameRequests ==
  ASSUME NEW d \in Client, UNCHANGED requests
  PROVE  Sent(d)' = Sent(d)
BY DEF Sent

LEMMA ResultIsSomething ==
  ASSUME NEW r \in Results
  PROVE  r # Nothing /\ r # Failed
BY NothingAssumption

LEMMA InitFlight == Init => Flight
<1> SUFFICES ASSUME Init, NEW c \in Client PROVE OneInFlight(c) /\ InOrder(c)
  BY DEF Flight
<1>1. TypeOK
  BY InitType
<1>2. Sent(c) = {} /\ inbox[c] = <<>> /\ pc[c] = "start" /\ at[c] = 1
  BY DEF Init, Sent
<1>3. OneInFlight(c)
  BY <1>2 DEF OneInFlight
<1>4. InOrder(c)
  <2>1. \A n \in 1 .. MaxCalls : <<c, n>> \in Calls
    BY DEF Calls
  <2>2. This(c) \in Calls
    BY <1>1, ThisType
  <2>3. \A k \in Calls : performed[k] = Nothing /\ returned[k] = Nothing
    BY DEF Init
  <2> QED BY <1>2, <2>1, <2>2, <2>3 DEF InOrder
<1> QED
  BY <1>3, <1>4

LEMMA ConnectFlight ==
  ASSUME TypeOK, Flight, NEW c \in Client, Connect(c)
  PROVE  Flight'
<1> SUFFICES ASSUME NEW d \in Client
             PROVE  Sound(d)' => OneInFlight(d)' /\ InOrder(d)'
  BY DEF Flight
<1>1. Sent(d)' = Sent(d) /\ UNCHANGED <<requests, performed, returned, at,
                                       inbox, program>>
  BY SameRequests DEF Connect, server
<1>2. CASE d # c
  <2>1. UNCHANGED <<pc[d], status[d]>>
    BY <1>2 DEF Connect, TypeOK
  <2> QED BY <1>1, <2>1, OthersUndisturbed
  DEF Flight, Sound, StopsAtFailure
<1>3. CASE d = c
  <2> SUFFICES ASSUME Sound(c)' PROVE OneInFlight(c)' /\ InOrder(c)'
    BY <1>3
  <2>1. status[c] = "ok" \/ status'[c] = status[c]
    BY DEF Connect, TypeOK
  <2>2. Sound(c)
    BY <1>1, <2>1 DEF Sound, StopsAtFailure
  <2>3. OneInFlight(c) /\ InOrder(c) /\ pc[c] = "start"
    BY <2>2 DEF Flight, Connect
  <2>4. Sent(c) = {} /\ inbox[c] = <<>>
    BY <2>3 DEF OneInFlight
  <2>5. This(c)' = This(c)
    BY <1>1 DEF This
  <2>6. \/ pc'[c] = "exit" /\ status'[c] = "error"
        \/ pc'[c] = "call" /\ status'[c] = status[c]
    BY DEF Connect, TypeOK
  <2>7. OneInFlight(c)'
    BY <1>1, <1>3, <2>4 DEF OneInFlight
  <2>8. InOrder(c)'
    BY <1>1, <2>3, <2>5, <2>6 DEF InOrder
  <2> QED BY <2>7, <2>8
<1> QED
  BY <1>2, <1>3

LEMMA SendFlight ==
  ASSUME TypeOK, Flight, NEW c \in Client, Send(c)
  PROVE  Flight'
<1> SUFFICES ASSUME NEW d \in Client
             PROVE  Sound(d)' => OneInFlight(d)' /\ InOrder(d)'
  BY DEF Flight
<1> DEFINE new == [cmd |-> Cmd(c), call |-> This(c)]
<1>1. UNCHANGED <<performed, returned, at, inbox, program, status>>
  BY DEF Send
<1>2. /\ requests' = Append(requests, new)
      /\ requests \in Seq(Request) /\ new \in Request
      /\ new.call[1] = c
  BY ThisType DEF Send, TypeOK, Request, This
<1>3. /\ Len(requests') = Len(requests) + 1 /\ Len(requests) \in Nat
      /\ \A i \in 1 .. Len(requests) : requests'[i] = requests[i]
      /\ requests'[Len(requests) + 1] = new
  BY <1>2, AppendProperties
<1>4. CASE d # c
  <2>1. Sent(d)' = Sent(d)
    BY <1>2, <1>3, <1>4 DEF Sent
  <2>2. \A i \in Sent(d) : requests'[i].call = requests[i].call
    BY <1>3 DEF Sent
  <2>3. UNCHANGED pc[d]
    BY <1>4 DEF Send, TypeOK
  <2> QED BY <1>1, <2>1, <2>2, <2>3, OthersUndisturbed
  DEF Flight, Sound, StopsAtFailure
<1>5. CASE d = c
  <2> SUFFICES ASSUME Sound(c)' PROVE OneInFlight(c)' /\ InOrder(c)'
    BY <1>5
  <2>1. OneInFlight(c) /\ InOrder(c) /\ pc[c] = "call"
    BY <1>1 DEF Flight, Sound, StopsAtFailure, Send
  <2>2. Sent(c) = {} /\ inbox[c] = <<>>
    BY <2>1 DEF OneInFlight
  <2>3. This(c)' = This(c) /\ pc'[c] = "wait"
    BY <1>1 DEF This, Send, TypeOK
  <2>4. Sent(c)' = {Len(requests) + 1}
    BY <1>2, <1>3, <2>2 DEF Sent
  <2>5. /\ performed[This(c)] = Nothing
        /\ requests'[Len(requests) + 1].call = This(c)
    BY <1>3, <2>1 DEF InOrder
  <2>6. OneInFlight(c)'
    BY <1>1, <2>2, <2>3, <2>4, <2>5 DEF OneInFlight
  <2>7. InOrder(c)'
    BY <1>1, <2>1, <2>3 DEF InOrder
  <2> QED BY <2>6, <2>7
<1> QED
  BY <1>4, <1>5

\* A return leaves the other clients' state as it was.
LEMMA ReturnsOthers ==
  ASSUME TypeOK, NEW c \in Client, NEW result \in Results \cup {Failed},
         Returns(c, result), NEW d \in Client, d # c
  PROVE  /\ UNCHANGED <<pc[d], at[d], status[d]>>
         /\ \A n \in 1 .. MaxCalls : UNCHANGED returned[<<d, n>>]
<1>1. \A n \in 1 .. MaxCalls : <<d, n>> \in Calls /\ <<d, n>> # This(c)
  BY DEF Calls, This
<1>2. returned' = [returned EXCEPT ![This(c)] = result]
  BY ReturnsDoes
<1>3. \A n \in 1 .. MaxCalls : UNCHANGED returned[<<d, n>>]
  BY <1>1, <1>2 DEF TypeOK
<1>4. UNCHANGED <<pc[d], at[d]>>
  <2>1. /\ \/ pc' = [pc EXCEPT ![c] = "exit"]
           \/ pc' = [pc EXCEPT ![c] = "call"]
        /\ \/ at' = at
           \/ at' = [at EXCEPT ![c] = at[c] + 1]
    BY ReturnsDoes
  <2> QED BY <2>1 DEF TypeOK
<1>5. UNCHANGED status[d]
  <2>1. status' = status \/ status' = [status EXCEPT ![c] = "error"]
    BY ReturnsDoes
  <2> QED BY <2>1 DEF TypeOK
<1> QED
  BY <1>3, <1>4, <1>5

LEMMA FailFlight ==
  ASSUME TypeOK, Flight, NEW c \in Client, SendFails(c) \/ TimesOut(c)
  PROVE  Flight'
<1> SUFFICES ASSUME NEW d \in Client
             PROVE  Sound(d)' => OneInFlight(d)' /\ InOrder(d)'
  BY DEF Flight
<1>1. Returns(c, Failed) /\ Failed \in Results \cup {Failed}
  BY DEF SendFails, TimesOut
<1>2. UNCHANGED <<requests, performed, inbox, program>> /\ Sent(d)' = Sent(d)
  BY SameRequests DEF SendFails, TimesOut, server
<1>3. CASE d # c
  BY <1>1, <1>2, <1>3, ReturnsOthers, OthersUndisturbed
  DEF Flight, Sound, StopsAtFailure
<1>4. CASE d = c
  <2> SUFFICES ASSUME Sound(c)' PROVE OneInFlight(c)' /\ InOrder(c)'
    BY <1>4
  <2>1. /\ returned' = [returned EXCEPT ![This(c)] = Failed]
        /\ status'[c] = "error"
    BY <1>1, ReturnsDoes DEF TypeOK
  <2>2. StopsAtFailure(c)
    BY <1>2, <2>1 DEF Sound, StopsAtFailure
  <2>3. pc'[c] = "exit" /\ at' = at
    BY <1>1, <2>2, ReturnsDoes DEF TypeOK
  <2>4. OneInFlight(c) /\ InOrder(c) /\ This(c)' = This(c)
    BY <2>2, <2>3 DEF Flight, Sound, StopsAtFailure, This
  <2>5. returned'[This(c)] = Failed /\ Failed # Nothing
    BY <2>1, ThisType, NothingAssumption DEF TypeOK
  <2>6. \A n \in 1 .. MaxCalls : n > at[c] =>
          returned'[<<c, n>>] = returned[<<c, n>>]
    <3>1. \A n \in 1 .. MaxCalls : n > at[c] => <<c, n>> # This(c)
      BY DEF This, TypeOK
    <3> QED BY <2>1, <3>1 DEF TypeOK, Calls
  <2>7. OneInFlight(c)'
    BY <1>2, <1>4, <2>3, <2>4, <2>5 DEF OneInFlight, ResultOf
  <2>8. InOrder(c)'
    BY <1>2, <2>1, <2>3, <2>4, <2>6 DEF InOrder
  <2> QED BY <2>7, <2>8
<1> QED
  BY <1>3, <1>4

LEMMA ReceiveFlight ==
  ASSUME TypeOK, Flight, NEW c \in Client, Receive(c)
  PROVE  Flight'
<1> SUFFICES ASSUME NEW d \in Client
             PROVE  Sound(d)' => OneInFlight(d)' /\ InOrder(d)'
  BY DEF Flight
<1> DEFINE m == Head(inbox[c])
           result == IF m.cmd = Cmd(c) THEN ResultOf(m) ELSE Failed
<1>1. Returns(c, result) /\ result \in Results \cup {Failed}
  BY ReceiveType DEF Receive
<1>2. UNCHANGED <<requests, performed, program>> /\ Sent(d)' = Sent(d)
  BY SameRequests DEF Receive, server
<1>3. CASE d # c
  <2>1. UNCHANGED inbox[d]
    BY <1>3 DEF Receive, TypeOK
  <2> QED BY <1>1, <1>2, <1>3, <2>1, ReturnsOthers, OthersUndisturbed
             DEF Flight, Sound, StopsAtFailure
<1>4. CASE d = c
  <2> SUFFICES ASSUME Sound(c)' PROVE OneInFlight(c)' /\ InOrder(c)'
    BY <1>4
  <2>0. returned' = [returned EXCEPT ![This(c)] = result]
    BY <1>1, ReturnsDoes
  <2>1. Sound(c)
    <3>1. status'[c] = "ok" => status[c] = "ok"
      BY <1>1, ReturnsDoes DEF TypeOK
    <3> QED BY <1>2, <3>1 DEF Sound, StopsAtFailure
  <2>2. OneInFlight(c) /\ InOrder(c) /\ inbox[c] # <<>> /\ pc[c] = "wait"
    BY <2>1 DEF Flight, Receive
  <2>3. performed[This(c)] = ResultOf(m) /\ performed[This(c)] # Nothing
    BY <2>2, ReceiveType, ResultIsSomething DEF OneInFlight
  <2>4. Sent(c) = {}
    BY <2>2, <2>3 DEF OneInFlight
  <2>5. inbox'[c] = <<>>
    <3>1. inbox'[c] = Tail(inbox[c]) /\ inbox[c] \in Seq(Reply)
      BY DEF Receive, TypeOK
    <3>2. Len(inbox[c]) = 1
        <4>1. Len(inbox[c]) \in Nat \ {0}
        BY <2>2, <3>1, EmptySeq
      <4>2. Len(inbox[c]) <= 1
        BY <2>2 DEF OneInFlight
      <4>3. \A l \in Nat \ {0} : l <= 1 => l = 1
        OBVIOUS
      <4> QED BY <4>1, <4>2, <4>3
    <3>3. Tail(inbox[c]) \in Seq(Reply) /\ Len(Tail(inbox[c])) = 0
      BY <2>2, <3>1, <3>2, HeadTailProperties
    <3> QED BY <3>1, <3>3, EmptySeq
  <2>6. OneInFlight(c)'
    BY <1>2, <1>4, <2>4, <2>5 DEF OneInFlight
  <2>7. /\ at[c] \in 1 .. MaxCalls /\ at[c] \in Int
        /\ \A n \in 1 .. MaxCalls : <<c, n>> \in Calls
        /\ returned'[This(c)] = result
        /\ \A n \in 1 .. MaxCalls : n # at[c] =>
             returned'[<<c, n>>] = returned[<<c, n>>]
    <3>1. at[c] \in 1 .. MaxCalls /\ \A n \in 1 .. MaxCalls : <<c, n>> \in Calls
      BY DEF TypeOK, Calls
    <3>2. \A n \in 1 .. MaxCalls : n # at[c] => <<c, n>> # This(c)
      BY DEF This
    <3>3. This(c) \in Calls
      BY ThisType
    <3> QED BY <2>0, <3>1, <3>2, <3>3 DEF TypeOK
  <2>8. CASE result # Failed /\ result.res = "ok"
    <3>1. result = performed[This(c)]
      BY <2>3, <2>8
    <3>2. status' = status /\ (pc'[c] = "exit" => at[c] = Len(program[c]))
      BY <1>1, <2>8, ReturnsDoes
    <3>3. CASE pc' = [pc EXCEPT ![c] = "exit"] /\ at' = at
      <4>1. pc'[c] = "exit" /\ at'[c] = at[c] /\ This(c)' = This(c)
        BY <3>3 DEF TypeOK, This
      <4>2. ASSUME status[c] = "ok", NEW n \in 1 .. MaxCalls, n <= at[c]
            PROVE  /\ performed[<<c, n>>] # Nothing
                   /\ performed[<<c, n>>].res = "ok"
                   /\ returned'[<<c, n>>] = performed[<<c, n>>]
        <5>1. CASE n = at[c]
          BY <2>3, <2>7, <2>8, <3>1, <5>1 DEF This
        <5>2. CASE n < at[c]
          BY <2>2, <2>7, <4>2, <5>2 DEF InOrder
        <5> QED BY <2>7, <4>2, <5>1, <5>2
      <4>3. \A n \in 1 .. MaxCalls : n > at[c] =>
              performed[<<c, n>>] = Nothing /\ returned'[<<c, n>>] = Nothing
        BY <2>2, <2>7 DEF InOrder
      <4> QED BY <1>2, <2>6, <2>7, <3>2, <4>1, <4>2, <4>3 DEF InOrder
    <3>4. CASE /\ pc' = [pc EXCEPT ![c] = "call"]
               /\ at' = [at EXCEPT ![c] = at[c] + 1]
               /\ at[c] < Len(program[c])
      <4>1. /\ pc'[c] = "call" /\ at'[c] = at[c] + 1
            /\ This(c)' = <<c, at[c] + 1>>
            /\ at[c] + 1 \in 1 .. MaxCalls
        <5>1. Len(program[c]) \in 1 .. MaxCalls
          BY ProgramAssumption DEF TypeOK
        <5> QED BY <2>7, <3>4, <5>1, ProgramAssumption DEF TypeOK, This
      <4>2. ASSUME status[c] = "ok", NEW n \in 1 .. MaxCalls, n < at[c] + 1
            PROVE  /\ performed[<<c, n>>] # Nothing
                   /\ performed[<<c, n>>].res = "ok"
                   /\ returned'[<<c, n>>] = performed[<<c, n>>]
        <5>1. CASE n = at[c]
          BY <2>3, <2>7, <2>8, <3>1, <5>1 DEF This
        <5>2. CASE n < at[c]
          BY <2>2, <2>7, <4>2, <5>2 DEF InOrder
        <5> QED BY <2>7, <4>2, <5>1, <5>2
      <4>3. \A n \in 1 .. MaxCalls : n > at[c] =>
              performed[<<c, n>>] = Nothing /\ returned'[<<c, n>>] = Nothing
        BY <2>2, <2>7 DEF InOrder
      <4>4. performed[<<c, at[c] + 1>>] = Nothing
            /\ returned'[<<c, at[c] + 1>>] = Nothing
        BY <2>7, <4>1, <4>3
      <4>5. \A n \in 1 .. MaxCalls : n > at[c] + 1 => n > at[c]
        BY <2>7
      <4> QED BY <1>2, <2>6, <2>7, <3>2, <4>1, <4>2, <4>3, <4>4, <4>5
                 DEF InOrder
    <3> QED BY <1>1, <3>3, <3>4, ReturnsDoes
  <2>9. CASE ~(result # Failed /\ result.res = "ok")
    <3>1. status' = [status EXCEPT ![c] = "error"]
      BY <1>1, <2>9, ReturnsDoes
    <3>2. status'[c] = "error" /\ StopsAtFailure(c)
      BY <1>2, <3>1 DEF Sound, StopsAtFailure, TypeOK
    <3>3. pc'[c] = "exit"
      BY <1>1, <2>9, <3>2, ReturnsDoes
    <3>4. at' = at
      BY <1>1, <3>3, ReturnsDoes DEF TypeOK
    <3>5. \A n \in 1 .. MaxCalls : n > at[c] =>
            performed[<<c, n>>] = Nothing /\ returned'[<<c, n>>] = Nothing
      BY <2>2, <2>7 DEF InOrder
    <3> QED BY <1>2, <2>6, <3>2, <3>3, <3>4, <3>5 DEF InOrder
  <2> QED BY <2>8, <2>9
<1> QED
  BY <1>3, <1>4

LEMMA ServeFlight ==
  ASSUME TypeOK, Flight, Serve
  PROVE  Flight'
<1> SUFFICES ASSUME NEW d \in Client
             PROVE  Sound(d)' => OneInFlight(d)' /\ InOrder(d)'
  BY DEF Flight
<1> DEFINE m == Head(requests)
           k == m.call
           c == k[1]
           Outcome(res) == [res |-> res,
                            data |-> IF res = "ok" /\ HasOut(m.cmd)
                                     THEN k ELSE NoCall]
<1>1. PICK res \in Codes :
        /\ outbuf' = IF res = "ok" /\ HasOut(m.cmd) THEN k ELSE outbuf
        /\ performed' = [performed EXCEPT ![k] = Outcome(res)]
        /\ inbox' = IF pc[c] = "exit" THEN inbox
                    ELSE [inbox EXCEPT ![c] = Append(@, Answer(m, res))]
  BY DEF Serve
<1>2. UNCHANGED <<pc, at, status, program, returned>>
  BY DEF Serve
<1>3. requests \in Seq(Request) /\ requests # <<>> /\ requests' = Tail(requests)
  BY DEF Serve, TypeOK
<1>4. /\ m \in Request /\ k \in Calls /\ c \in Client /\ m = requests[1]
      /\ k = <<c, k[2]>>
  <2>1. m \in Request /\ m = requests[1]
    BY <1>3, HeadTailProperties
  <2> QED BY <2>1, CallParts DEF Request
<1>5. /\ Len(requests) \in Nat \ {0} /\ Len(requests') = Len(requests) - 1
      /\ \A i \in 1 .. Len(requests') : requests'[i] = requests[i + 1]
  BY <1>3, HeadTailProperties, EmptySeq
<1>6. \A i \in Sent(d)' : i + 1 \in Sent(d) /\ requests'[i] = requests[i + 1]
  BY <1>5 DEF Sent
<1>7. CASE d # c
  <2>1. inbox'[d] = inbox[d]
    BY <1>1, <1>4, <1>7 DEF TypeOK
  <2>2. \A n \in 1 .. MaxCalls : <<d, n>> \in Calls /\ <<d, n>> # k
    BY <1>4, <1>7 DEF Calls
  <2>3. \A n \in 1 .. MaxCalls : performed'[<<d, n>>] = performed[<<d, n>>]
    BY <1>1, <2>2 DEF TypeOK
  <2>4. \A i \in Sent(d)' : \E j \in Sent(d) :
          requests'[i].call = requests[j].call
    BY <1>6
  <2>5. \A i, j \in Sent(d)' : (\A g, h \in Sent(d) : g = h) => i = j
    <3>1. \A i \in Sent(d)' : i \in Int
      BY <1>5 DEF Sent
    <3>2. ASSUME NEW i \in Sent(d)', NEW j \in Sent(d)',
                 \A g, h \in Sent(d) : g = h
          PROVE  i = j
      <4>1. i + 1 \in Sent(d) /\ j + 1 \in Sent(d)
        BY <1>6
      <4>2. i + 1 = j + 1
        BY <3>2, <4>1
      <4> QED BY <3>1, <4>2
    <3> QED BY <3>2
  <2> QED BY <1>2, <2>1, <2>3, <2>4, <2>5, OthersUndisturbed
             DEF Flight, Sound, StopsAtFailure
<1>8. CASE d = c
  <2> SUFFICES ASSUME Sound(d)' PROVE OneInFlight(d)' /\ InOrder(d)'
    OBVIOUS
  <2>1. OneInFlight(d) /\ InOrder(d)
    BY <1>2, <1>4 DEF Flight, Sound, StopsAtFailure
  <2>2. 1 \in Sent(d)
    BY <1>4, <1>5, <1>8 DEF Sent
  <2>3. /\ k = This(d) /\ This(d)' = This(d)
        /\ performed[This(d)] = Nothing
        /\ pc[d] = "wait" \/ (pc[d] = "exit" /\ returned[This(d)] # Nothing)
        /\ \A j \in Sent(d) : j = 1
    BY <1>2, <1>4, <1>8, <2>1, <2>2 DEF OneInFlight, This
  <2>4. Sent(d)' = {}
    <3>1. \A i \in Sent(d)' : i + 1 = 1
      BY <1>6, <2>3
    <3>2. \A i \in Sent(d)' : i \in Int /\ i >= 1
      BY <1>5 DEF Sent
    <3> QED BY <3>1, <3>2
  <2>5. inbox[d] = <<>>
    <3>1. inbox[d] # <<>> => performed[This(d)] \in Results
      BY <1>4, <2>1, ReceiveType DEF OneInFlight
    <3> QED BY <2>3, <3>1, ResultIsSomething
  <2>6. performed'[This(d)] = Outcome(res)
    BY <1>1, <1>4, <2>3 DEF TypeOK
  <2>7. /\ Len(inbox'[d]) <= 1
        /\ inbox'[d] # <<>> => /\ pc[d] = "wait"
                               /\ Head(inbox'[d]) = Answer(m, res)
    <3>1. CASE pc[d] = "exit"
      BY <1>1, <1>8, <2>5, <3>1
    <3>2. CASE pc[d] # "exit"
      <4>1. inbox'[d] = <<Answer(m, res)>>
        BY <1>1, <1>4, <1>8, <2>5, <3>2 DEF TypeOK
      <4> QED BY <2>3, <3>2, <4>1
    <3> QED BY <3>1, <3>2
  <2>8. ResultOf(Answer(m, res)) = Outcome(res)
    BY <1>1 DEF ResultOf, Answer
  <2>9. OneInFlight(d)'
    <3>1. ResultOf(Head(inbox[d]))' = ResultOf(Head(inbox'[d]))
      BY DEF ResultOf
    <3> QED BY <1>2, <2>3, <2>4, <2>6, <2>7, <2>8, <3>1 DEF OneInFlight
  <2>10. ASSUME NEW n \in 1 .. MaxCalls, n # at[d]
         PROVE  performed'[<<d, n>>] = performed[<<d, n>>]
    <3>1. <<d, n>> \in Calls /\ <<d, n>> # k
      BY <1>4, <2>3, <2>10 DEF This, Calls
    <3> QED BY <1>1, <3>1 DEF TypeOK
  <2>11. pc[d] = "exit" => status[d] # "ok"
    <3>1. at[d] \in 1 .. MaxCalls
      BY DEF TypeOK
    <3> QED BY <2>1, <2>3, <3>1 DEF InOrder, This
  <2>12. InOrder(d)'
    <3>1. at[d] \in 1 .. MaxCalls /\ at[d] \in Int
      BY DEF TypeOK
    <3>2. \A n \in 1 .. MaxCalls : n > at[d] =>
            performed'[<<d, n>>] = Nothing /\ returned[<<d, n>>] = Nothing
      BY <2>1, <2>10, <3>1 DEF InOrder
    <3>3. pc[d] \notin {"start", "call"}
      BY <2>3
    <3>4. pc[d] # "exit" => returned[This(d)] = Nothing
      BY <2>1 DEF InOrder
    <3>5. ASSUME status[d] = "ok", NEW n \in 1 .. MaxCalls,
                 n < at[d] \/ (n = at[d] /\ pc[d] = "exit")
          PROVE  /\ performed'[<<d, n>>] # Nothing
                 /\ performed'[<<d, n>>].res = "ok"
                 /\ returned[<<d, n>>] = performed'[<<d, n>>]
      <4>1. n < at[d] /\ n # at[d]
        BY <2>11, <3>1, <3>5
      <4> QED BY <2>1, <2>10, <3>5, <4>1 DEF InOrder
    <3> QED BY <1>2, <2>3, <2>11, <3>2, <3>3, <3>4, <3>5 DEF InOrder
  <2> QED BY <2>9, <2>12
<1> QED
  BY <1>7, <1>8

LEMMA DaemonFlight ==
  ASSUME TypeOK, Flight, Stop \/ Start \/ UNCHANGED vars
  PROVE  Flight'
<1> SUFFICES ASSUME NEW d \in Client
             PROVE  Sound(d)' => OneInFlight(d)' /\ InOrder(d)'
  BY DEF Flight
<1>1. UNCHANGED <<pc, at, status, inbox, program, performed, returned>>
  BY DEF Stop, Start, vars
<1>2. CASE UNCHANGED requests
  BY <1>1, <1>2, SameRequests, OthersUndisturbed
  DEF Flight, Sound, StopsAtFailure
<1>3. CASE requests' = <<>>
  <2>1. Sent(d)' = {}
    BY <1>3 DEF Sent
  <2> QED BY <1>1, <2>1, OthersUndisturbed
  DEF Flight, Sound, StopsAtFailure
<1> QED
  BY <1>2, <1>3 DEF Stop, Start, vars

THEOREM OneInFlightAlways == Spec => []Flight
<1>1. TypeOK /\ Flight /\ [Next]_vars => Flight'
  <2> SUFFICES ASSUME TypeOK, Flight, [Next]_vars PROVE Flight'
    OBVIOUS
  <2> QED BY ConnectFlight, SendFlight, FailFlight, ReceiveFlight,
             ServeFlight, DaemonFlight DEF Next, ClientStep
<1> QED
  BY <1>1, InitFlight, TypeCorrect, PTL DEF Spec

\* ctl_main.c: a command whose exit status is zero has had every call
\* performed, and has got the answer to each, whatever commands run beside
\* it and however often the daemon is restarted.
THEOREM ExitZeroHolds == Spec => []ExitZero
<1>1. TypeOK /\ Flight => ExitZero
  <2> SUFFICES ASSUME TypeOK, Flight, NEW c \in Client,
                      pc[c] = "exit", status[c] = "ok",
                      NEW n \in 1 .. Len(program[c])
               PROVE  /\ performed[<<c, n>>] # Nothing
                      /\ performed[<<c, n>>].res = "ok"
                      /\ returned[<<c, n>>] = performed[<<c, n>>]
    BY DEF ExitZero
  <2>1. InOrder(c)
    BY DEF Flight, Sound, StopsAtFailure
  <2>2. /\ n \in 1 .. MaxCalls
        /\ at[c] = Len(program[c]) /\ Len(program[c]) \in Nat
    BY <2>1, ProgramAssumption DEF InOrder, TypeOK
  <2>3. n < at[c] \/ n = at[c]
    BY <2>2
  <2> QED BY <2>1, <2>2, <2>3 DEF InOrder
<1> QED
  BY <1>1, TypeCorrect, OneInFlightAlways, PTL

-----------------------------------------------------------------------------
(* The refinement                                                          *)

LEMMA SeenIsSound ==
  ASSUME NEW c \in Client, StopsAtFailure(c)
  PROVE  Sound(c)
BY DEF Sound

\* A program is never changed, and so a call is seen always or never.
LEMMA SameProgram == [Next]_vars => UNCHANGED program
BY DEF Next, vars, ClientStep, Connect, Send, SendFails, TimesOut, Receive,
       Serve, Stop, Start

LEMMA SameSeen ==
  ASSUME UNCHANGED program, NEW k \in Calls
  PROVE  Seen(k)' <=> Seen(k)
BY DEF Seen, StopsAtFailure

\* RemoteCall sees the result of a seen call.
LEMMA SeenResult ==
  ASSUME TypeOK, UNCHANGED program, NEW k \in Calls, Seen(k), NEW r
  PROVE  /\ performed' = [performed EXCEPT ![k] = r] =>
              SeenOf(performed)' = [SeenOf(performed) EXCEPT ![k] = r]
         /\ returned' = [returned EXCEPT ![k] = r] =>
              SeenOf(returned)' = [SeenOf(returned) EXCEPT ![k] = r]
<1>1. \A h \in Calls : Seen(h)' <=> Seen(h)
  BY SameSeen
<1>2. performed \in [Calls -> Results \cup {Nothing}]
      /\ returned \in [Calls -> Results \cup {Failed, Nothing}]
  BY DEF TypeOK
<1> QED
  BY <1>1, <1>2 DEF SeenOf

\* It sees nothing of a step about the calls of a client that goes on.
LEMMA Unseen ==
  ASSUME TypeOK, UNCHANGED program, NEW c \in Client, ~StopsAtFailure(c),
         \A d \in Client \ {c} : UNCHANGED <<pc[d], at[d]>>,
         \A k \in Calls : k[1] # c => UNCHANGED <<performed[k], returned[k]>>
  PROVE  UNCHANGED Abstract!vars
<1>1. ASSUME NEW k \in Calls, Seen(k)
      PROVE  /\ k[1] \in Client \ {c}
             /\ UNCHANGED <<performed[k], returned[k]>>
  BY <1>1, CallParts DEF Seen
<1>2. \A k \in Calls : Seen(k)' <=> Seen(k)
  BY SameSeen
<1>3. UNCHANGED Made
  BY <1>1, <1>2 DEF Made
<1>4. UNCHANGED <<SeenOf(performed), SeenOf(returned)>>
  BY <1>1, <1>2 DEF SeenOf
<1> QED
  BY <1>3, <1>4 DEF Abstract!vars

\* The calls made stay the same if no client moves on and none returns.
LEMMA SameMade ==
  ASSUME TypeOK, UNCHANGED <<program, at, returned>>,
         \A c \in Client : pc[c] = "wait" <=> pc'[c] = "wait"
  PROVE  UNCHANGED <<Made, SeenOf(returned)>>
<1>1. \A k \in Calls : Seen(k)' <=> Seen(k)
  BY SameSeen
<1> QED
  BY <1>1, CallParts DEF Made, SeenOf

\* The call that a client is at becomes one that has been made.
LEMMA MadeThis ==
  ASSUME TypeOK, TypeOK', Flight, Flight', NEW c \in Client, StopsAtFailure(c),
         \A d \in Client \ {c} : UNCHANGED <<pc[d], at[d]>>,
         \A k \in Calls \ {This(c)} : UNCHANGED returned[k],
         UNCHANGED program, pc[c] \in {"call", "wait"},
         \/ at'[c] = at[c] /\ (pc'[c] = "wait" \/ returned'[This(c)] # Nothing)
         \/ at'[c] = at[c] + 1 /\ pc'[c] = "call"
  PROVE  Made' = Made \cup {This(c)}
<1>1. This(c) \in Calls /\ at[c] \in Nat
  BY ThisType DEF TypeOK
<1>2. ASSUME NEW k \in Calls, k[1] # c
      PROVE  k \in Made' <=> k \in Made
  <2>1. k[1] \in Client \ {c} /\ k # This(c)
    BY <1>2, CallParts DEF This
  <2> QED BY <2>1, SameSeen DEF Made
<1>3. ASSUME NEW k \in Calls, k[1] = c
      PROVE  k \in Made' <=> k \in Made \/ k = This(c)
  <2>0. Seen(k) /\ Seen(k)'
    BY <1>3, SameSeen DEF Seen
  <2>1. k[2] \in Nat /\ k = <<c, k[2]>> /\ k[2] \in 1 .. MaxCalls
    BY <1>3, CallParts
  <2>2. k = This(c) <=> k[2] = at[c]
    BY <2>1 DEF This
  <2>3. k[2] = at[c] + 1 /\ at'[c] = at[c] + 1 => returned'[k] = Nothing
    <3>0. Sound(c)'
      BY DEF Sound, StopsAtFailure
    <3>1. InOrder(c)'
      BY <3>0 DEF Flight
    <3>2. at'[c] = at[c] + 1 => pc'[c] # "exit"
      BY <1>1
    <3> QED BY <2>1, <3>1, <3>2 DEF InOrder, This
  <2>4. k \in Made <=> k[2] < at[c] \/ (k[2] = at[c]
                          /\ (pc[c] = "wait" \/ returned[k] # Nothing))
    BY <1>3, <2>0 DEF Made
  <2>5. k \in Made' <=> k[2] < at'[c] \/ (k[2] = at'[c]
                          /\ (pc'[c] = "wait" \/ returned'[k] # Nothing))
    BY <1>3, <2>0 DEF Made
  <2>6. CASE at'[c] = at[c] /\ (pc'[c] = "wait" \/ returned'[This(c)] # Nothing)
    BY <1>1, <2>1, <2>2, <2>4, <2>5, <2>6
  <2>7. CASE at'[c] = at[c] + 1 /\ pc'[c] = "call"
    BY <1>1, <2>1, <2>2, <2>3, <2>4, <2>5, <2>7
  <2> QED BY <2>6, <2>7
<1>4. Made \subseteq Calls /\ Made' \subseteq Calls
  BY DEF Made
<1>5. This(c)[1] = c
  BY DEF This
<1> QED
  BY <1>1, <1>2, <1>3, <1>4, <1>5

LEMMA InitRefines == Init => Abstract!Init
<1> SUFFICES ASSUME Init PROVE Abstract!Init
  OBVIOUS
<1>1. ASSUME NEW k \in Calls PROVE k \notin Made
  <2>1. k[1] \in Client /\ k[2] \in 1 .. MaxCalls
    BY CallParts
  <2>2. at[k[1]] = 1 /\ pc[k[1]] = "start" /\ returned[k] = Nothing
    BY <2>1 DEF Init
  <2> QED BY <2>1, <2>2 DEF Made
<1>2. Made = {}
  BY <1>1 DEF Made
<1>3. /\ SeenOf(performed) = [k \in Calls |-> Nothing]
      /\ SeenOf(returned) = [k \in Calls |-> Nothing]
  BY DEF SeenOf, Init
<1> QED
  BY <1>2, <1>3 DEF Abstract!Init

LEMMA ReturnsRefines ==
  ASSUME TypeOK, TypeOK', Flight, Flight', NEW c \in Client,
         NEW result \in Results \cup {Failed}, Returns(c, result),
         UNCHANGED <<program, performed>>, pc[c] \in {"call", "wait"},
         StopsAtFailure(c) =>
           (result # Failed => pc[c] = "wait" /\ result = performed[This(c)])
  PROVE  [Abstract!Next]_Abstract!vars
<1>1. This(c) \in Calls
  BY ThisType
<1>2. returned' = [returned EXCEPT ![This(c)] = result] /\ result # Nothing
  BY ReturnsDoes, NothingAssumption
<1>3. \A d \in Client \ {c} : UNCHANGED <<pc[d], at[d]>>
  BY ReturnsOthers
<1>4. \A k \in Calls \ {This(c)} : UNCHANGED returned[k]
  BY <1>2 DEF TypeOK
<1>5. CASE ~StopsAtFailure(c)
  <2>1. \A k \in Calls : k[1] # c => UNCHANGED <<performed[k], returned[k]>>
    BY <1>4 DEF This
  <2> QED BY <1>3, <1>5, <2>1, Unseen
<1>6. CASE StopsAtFailure(c)
  <2>1. Seen(This(c)) /\ Seen(This(c))'
    BY <1>1, <1>6, SameSeen DEF Seen, This
  <2>2. returned[This(c)] = Nothing
    BY <1>6, SeenIsSound DEF Flight, InOrder
  <2>3. /\ SeenOf(performed)[This(c)] = performed[This(c)]
        /\ SeenOf(returned)[This(c)] = Nothing
    BY <1>1, <2>1, <2>2 DEF SeenOf
  <2>4. /\ SeenOf(returned)' = [SeenOf(returned) EXCEPT ![This(c)] = result]
        /\ SeenOf(performed)' = SeenOf(performed)
    <3>1. SeenOf(returned)' = [SeenOf(returned) EXCEPT ![This(c)] = result]
      BY <1>1, <1>2, <2>1, SeenResult
    <3>2. \A h \in Calls : Seen(h)' <=> Seen(h)
      BY SameSeen
    <3> QED BY <3>1, <3>2 DEF SeenOf
  <2>5. Made' = Made \cup {This(c)}
    <3>1. \/ pc'[c] = "exit" /\ at' = at
          \/ pc'[c] = "call" /\ at' = [at EXCEPT ![c] = at[c] + 1]
      <4>1. \/ /\ pc' = [pc EXCEPT ![c] = "exit"]
               /\ at' = at
            \/ /\ pc' = [pc EXCEPT ![c] = "call"]
               /\ at' = [at EXCEPT ![c] = at[c] + 1]
        BY ReturnsDoes
      <4> QED BY <4>1 DEF TypeOK
    <3>2. returned'[This(c)] # Nothing
      BY <1>1, <1>2 DEF TypeOK
    <3>3. \/ /\ at'[c] = at[c]
             /\ pc'[c] = "wait" \/ returned'[This(c)] # Nothing
          \/ at'[c] = at[c] + 1 /\ pc'[c] = "call"
      BY <3>1, <3>2 DEF TypeOK
    <3> QED BY <1>3, <1>4, <1>6, <3>3, MadeThis
  <2>6. CASE result = Failed
    <3>1. Abstract!Fail(This(c))
      BY <2>3, <2>4, <2>5, <2>6 DEF Abstract!Fail
    <3> QED BY <1>1, <3>1 DEF Abstract!Next
  <2>7. CASE result # Failed
    <3>1. This(c) \in Made
      BY <1>1, <1>6, <2>1, <2>7 DEF Made, This
    <3>2. Abstract!Return(This(c))
      BY <1>2, <1>6, <2>3, <2>4, <2>5, <2>7, <3>1 DEF Abstract!Return
    <3> QED BY <1>1, <3>2 DEF Abstract!Next
  <2> QED BY <2>6, <2>7
<1> QED
  BY <1>5, <1>6

LEMMA SendRefines ==
  ASSUME TypeOK, TypeOK', Flight, Flight', NEW c \in Client, Send(c)
  PROVE  [Abstract!Next]_Abstract!vars
<1>1. /\ This(c) \in Calls /\ pc[c] = "call" /\ pc'[c] = "wait"
      /\ UNCHANGED <<program, at, performed, returned>>
  BY ThisType DEF Send, TypeOK
<1>2. \A d \in Client \ {c} : UNCHANGED <<pc[d], at[d]>>
  BY DEF Send, TypeOK
<1>3. CASE ~StopsAtFailure(c)
  BY <1>1, <1>2, <1>3, Unseen
<1>4. CASE StopsAtFailure(c)
  <2>1. Made' = Made \cup {This(c)}
    BY <1>1, <1>2, <1>4, MadeThis
  <2>2. This(c) \notin Made
    <3>1. returned[This(c)] = Nothing
      BY <1>1, <1>4, SeenIsSound DEF Flight, InOrder
    <3>2. at[c] \in Nat
      BY DEF TypeOK
    <3> QED BY <1>1, <3>1, <3>2 DEF Made, This
  <2>3. UNCHANGED <<SeenOf(performed), SeenOf(returned)>>
    <3>1. \A h \in Calls : Seen(h)' <=> Seen(h)
      BY <1>1, SameSeen
    <3> QED BY <1>1, <3>1 DEF SeenOf
  <2>4. Abstract!Make(This(c))
    BY <2>1, <2>2, <2>3 DEF Abstract!Make
  <2> QED BY <1>1, <2>4 DEF Abstract!Next
<1> QED
  BY <1>3, <1>4

LEMMA ServeRefines ==
  ASSUME TypeOK, TypeOK', Flight, Flight', Serve
  PROVE  [Abstract!Next]_Abstract!vars
<1>1. requests # <<>> /\ UNCHANGED <<program, pc, at, returned>>
  BY DEF Serve
<1>2. Len(requests) \in Nat \ {0}
  BY <1>1, EmptySeq DEF TypeOK
<1>3. PICK k \in Calls : k = Head(requests).call
  <2>1. requests \in Seq(Request)
    BY DEF TypeOK
  <2>2. Head(requests) \in Request
    BY <1>1, <2>1, HeadTailProperties
  <2> QED BY <2>2 DEF Request
<1>4. PICK c \in Client : c = k[1]
  BY CallParts
<1>5. UNCHANGED <<Made, SeenOf(returned)>>
  BY <1>1, SameMade
<1>6. PICK r \in Results : performed' = [performed EXCEPT ![k] = r]
  <2>1. PICK res \in Codes : performed' = [performed EXCEPT ![k] =
          [res |-> res,
           data |-> IF res = "ok" /\ HasOut(Head(requests).cmd)
                    THEN k ELSE NoCall]]
    BY <1>3 DEF Serve
  <2>2. [res |-> res,
         data |-> IF res = "ok" /\ HasOut(Head(requests).cmd)
                  THEN k ELSE NoCall] \in Results
    BY DEF Results
  <2> QED BY <2>1, <2>2
<1>7. CASE ~StopsAtFailure(c)
  <2>1. \A h \in Calls : h[1] # c => UNCHANGED <<performed[h], returned[h]>>
    BY <1>1, <1>4, <1>6 DEF TypeOK
  <2> QED BY <1>1, <1>7, <2>1, Unseen
<1>8. CASE StopsAtFailure(c)
  <2>1. Seen(k)
    BY <1>4, <1>8 DEF Seen
  <2>2. 1 \in Sent(c)
    BY <1>2, <1>3, <1>4 DEF Sent, TypeOK
  <2>3. /\ k = This(c) /\ performed[k] = Nothing
        /\ pc[c] = "wait" \/ returned[k] # Nothing
    BY <1>1, <1>3, <1>8, <2>2, SeenIsSound DEF Flight, OneInFlight
  <2>4. k \in Made
    BY <1>4, <2>1, <2>3 DEF Made, This
  <2>5. SeenOf(performed)' = [SeenOf(performed) EXCEPT ![k] = r]
    BY <1>1, <1>6, <2>1, SeenResult
  <2>6. SeenOf(performed)[k] = Nothing
    BY <2>1, <2>3 DEF SeenOf
  <2>7. Abstract!Perform(k)
    BY <1>5, <2>4, <2>5, <2>6 DEF Abstract!Perform
  <2> QED BY <2>7 DEF Abstract!Next
<1> QED
  BY <1>7, <1>8

LEMMA NextRefines ==
  ASSUME TypeOK, TypeOK', Flight, Flight', [Next]_vars
  PROVE  [Abstract!Next]_Abstract!vars
<1>0. \A k \in Calls : Seen(k)' <=> Seen(k)
  BY SameProgram, SameSeen
<1>1. ASSUME NEW c \in Client, Connect(c) PROVE UNCHANGED Abstract!vars
  <2>1. /\ \A d \in Client : pc[d] = "wait" <=> pc'[d] = "wait"
        /\ UNCHANGED <<program, at, performed, returned>>
    BY <1>1 DEF Connect, TypeOK
  <2>2. UNCHANGED <<Made, SeenOf(returned)>>
    BY <2>1, SameMade
  <2> QED BY <1>0, <2>1, <2>2 DEF Abstract!vars, SeenOf
<1>2. ASSUME NEW c \in Client, SendFails(c) \/ TimesOut(c)
      PROVE  [Abstract!Next]_Abstract!vars
  BY <1>2, ReturnsRefines DEF SendFails, TimesOut
<1>3. ASSUME NEW c \in Client, Receive(c)
      PROVE  [Abstract!Next]_Abstract!vars
  <2> DEFINE result == IF Head(inbox[c]).cmd = Cmd(c)
                       THEN ResultOf(Head(inbox[c])) ELSE Failed
  <2>1. /\ Returns(c, result) /\ result \in Results \cup {Failed}
        /\ UNCHANGED <<program, performed>> /\ pc[c] = "wait"
    BY <1>3, ReceiveType DEF Receive
  <2>2. StopsAtFailure(c) =>
          performed[This(c)] = ResultOf(Head(inbox[c]))
    BY <1>3, SeenIsSound DEF Flight, OneInFlight, Receive
  <2> QED BY <2>1, <2>2, ReturnsRefines
<1>4. CASE Stop \/ Start \/ UNCHANGED vars
  <2>1. UNCHANGED <<program, pc, at, performed, returned>>
    BY <1>4 DEF Stop, Start, vars
  <2>2. UNCHANGED <<Made, SeenOf(returned)>>
    BY <2>1, SameMade
  <2> QED BY <1>0, <2>1, <2>2 DEF Abstract!vars, SeenOf
<1> QED
  BY <1>1, <1>2, <1>3, <1>4, SendRefines, ServeRefines DEF Next, ClientStep

\* ctl_socket.c and ctl_socket_client.c: to a command that makes no call
\* after a failure, a call is performed once at most and returns its own
\* result or a failure, whatever is queued, late or lost with the daemon, and
\* whatever other commands do.
THEOREM ImplementsRemoteCall == Spec => Implements
<1>1. TypeOK /\ TypeOK' /\ Flight /\ Flight' /\ [Next]_vars =>
        [Abstract!Next]_Abstract!vars
  BY NextRefines
<1>2. Spec => [](TypeOK /\ Flight)
  BY TypeCorrect, OneInFlightAlways, PTL
<1> QED
  BY <1>1, <1>2, InitRefines, PTL DEF Spec, Implements, Abstract!Spec

=============================================================================
