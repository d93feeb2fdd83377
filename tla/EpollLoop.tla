----------------------------- MODULE EpollLoop -----------------------------
(***************************************************************************)
(* The main loop of the daemon (epoll_loop.c): it waits for descriptors to *)
(* become readable and calls their handlers, a batch at a time, and calls  *)
(* bridge_one_second about once a second by the wall clock.                *)
(*                                                                         *)
(* A handler may add and remove handlers, itself included, while the batch *)
(* that the kernel reported still names them: ref_ev is there for that.    *)
(* The daemon has no such handler: it adds three at its start and removes  *)
(* none.  What its handlers might do is the contract of add_epoll and      *)
(* remove_epoll, modelled here as they allow it.                           *)
(*                                                                         *)
(* Time is counted in units of which Second make a second; the clock is    *)
(* seen only through "due", how far nexttimeout lies ahead of it.          *)
(***************************************************************************)
EXTENDS Integers, Sequences, FiniteSets

CONSTANTS
  Handler,    \* struct epoll_event_handler
  NoHandler,  \* NULL
  EvSize,     \* EV_SIZE: the length of a batch
  Second,     \* clock units in a second
  Half,       \* a time difference lies in -Half .. Half - 1
  Jumps,      \* steps by which the wall clock may be set
  MaxLag      \* bound: how far the loop falls behind by itself

ASSUME LoopAssumption ==
  /\ IsFiniteSet(Handler)
  /\ NoHandler \notin Handler
  /\ EvSize \in Nat \ {0}
  /\ Second \in Nat \ {0}
  /\ Half \in Nat /\ Half > Second
  \* a handler does not take 24 days
  /\ MaxLag \in Nat /\ MaxLag <= Half
  /\ Jumps \subseteq Int

VARIABLES
  watched,  \* handlers whose descriptor the epoll descriptor watches
  ready,    \* those whose descriptor has something to read
  ev,       \* the batch: ev[n] is ev[n - 1].data.ptr of the code
  ref_ev,   \* the entry of the batch that names a handler, 0 for none
  at,       \* the entry of the batch being served, 0 outside the batch
  running,  \* the handler being called
  due,      \* nexttimeout minus the time of day
  timeout,  \* how long epoll_wait is still to wait, or -1 outside it
  jump      \* the step by which the clock has been set, 0 if it has not

vars == <<watched, ready, ev, ref_ev, at, running, due, timeout, jump>>
loop == <<at, running, timeout>>
clock == <<due, jump>>

\* the int that time_diff returns for a difference of t
TimeDiff(t) == ((t + Half) % (2 * Half)) - Half

-----------------------------------------------------------------------------
(* The loop                                                                *)

Top == at = 0 /\ timeout = -1

\* a mutant: the loop sleeps for as long as the batch took
PassByLag ==
  /\ Top
  /\ LET late == TimeDiff(due) < 0 IN
     /\ due' = IF late THEN due + Second ELSE due
     /\ timeout' = IF late THEN Second - due ELSE TimeDiff(due)
  /\ UNCHANGED <<watched, ready, ev, ref_ev, at, running, jump>>

\* a mutant: the next second is reckoned from the last one's timeout
PassAgain ==
  /\ Top
  /\ timeout' = IF TimeDiff(due) < 0 THEN 0 ELSE TimeDiff(due)
  /\ UNCHANGED <<watched, ready, ev, ref_ev, at, running, due, jump>>

\* One call of run_timeouts at most for each pass of the loop.
Pass ==
  /\ Top
  /\ LET late == TimeDiff(due) < 0 IN
     /\ due' = IF late THEN due + Second ELSE due
     /\ timeout' = IF late THEN 0 ELSE TimeDiff(due)
  /\ UNCHANGED <<watched, ready, ev, ref_ev, at, running, jump>>

RunTimeouts == Pass /\ due' # due

\* a mutant: a batch longer than the array it is read into
BatchesUncut ==
  {b \in [1 .. Cardinality(ready) -> ready] :
     \A m, n \in DOMAIN b : b[m] = b[n] => m = n}

\* epoll_wait returns the ready handlers, EvSize of them if there are more;
\* each then learns its place in the batch.
Batches ==
  LET size == IF Cardinality(ready) < EvSize THEN Cardinality(ready)
              ELSE EvSize
  IN {b \in [1 .. size -> ready] :
        \A m, n \in 1 .. size : b[m] = b[n] => m = n}

Wake ==
  /\ timeout >= 0
  /\ ready # {}
  /\ \E b \in Batches :
       /\ ev' = b
       /\ ref_ev' = [h \in Handler |->
                       IF \E n \in DOMAIN b : b[n] = h
                       THEN CHOOSE n \in DOMAIN b : b[n] = h
                       ELSE ref_ev[h]]
  /\ at' = 1
  /\ timeout' = -1
  /\ UNCHANGED <<watched, ready, running, clock>>

TimesOut ==
  /\ timeout = 0
  /\ ready = {}
  /\ timeout' = -1
  /\ UNCHANGED <<watched, ready, ev, ref_ev, at, running, clock>>

\* epoll_wait fails with EINTR: there is no batch.
Interrupted ==
  /\ timeout >= 0
  /\ timeout' = -1
  /\ UNCHANGED <<watched, ready, ev, ref_ev, at, running, clock>>

\* The next entry of the batch: a handler to call, or one that is gone.
Call ==
  /\ at > 0 /\ running = NoHandler
  /\ at \in DOMAIN ev /\ ev[at] # NoHandler
  /\ running' = ev[at]
  /\ UNCHANGED <<watched, ready, ev, ref_ev, at, timeout, clock>>

Skip ==
  /\ at > 0 /\ running = NoHandler
  /\ at \in DOMAIN ev /\ ev[at] = NoHandler
  /\ at' = at + 1
  /\ UNCHANGED <<watched, ready, ev, ref_ev, running, timeout, clock>>

\* a mutant: the batch goes on by one entry too many
ReturnTwice ==
  /\ running # NoHandler
  /\ ready' = ready \ {running}
  /\ running' = NoHandler
  /\ at' = at + 2
  /\ UNCHANGED <<watched, ev, ref_ev, timeout, clock>>

\* The handler has read what there was and returns.
Return ==
  /\ running # NoHandler
  /\ ready' = ready \ {running}
  /\ running' = NoHandler
  /\ at' = at + 1
  /\ UNCHANGED <<watched, ev, ref_ev, timeout, clock>>

\* The end of the batch: its handlers forget it.
EndBatch ==
  /\ at > 0 /\ running = NoHandler
  /\ at \notin DOMAIN ev
  /\ ref_ev' = [h \in Handler |->
                  IF \E n \in DOMAIN ev : ev[n] = h THEN 0 ELSE ref_ev[h]]
  /\ ev' = <<>>
  /\ at' = 0
  /\ UNCHANGED <<watched, ready, running, timeout, clock>>

-----------------------------------------------------------------------------
(* What a handler may do to the others and to itself                       *)

\* add_epoll of a handler that is not watched
Add(h) ==
  /\ running # NoHandler
  /\ h \notin watched
  /\ ref_ev' = [ref_ev EXCEPT ![h] = 0]
  /\ watched' = watched \cup {h}
  /\ UNCHANGED <<ready, ev, loop, clock>>

\* a mutant: remove_epoll leaves the batch alone
StillNamed(h) == ev

Unnamed(h) ==
  IF ref_ev[h] \in DOMAIN ev /\ ev[ref_ev[h]] = h
  THEN [ev EXCEPT ![ref_ev[h]] = NoHandler] ELSE ev

\* remove_epoll; of a handler that is not watched it fails, and does nothing.
Remove(h) ==
  /\ running # NoHandler
  /\ h \in watched
  /\ watched' = watched \ {h}
  /\ ready' = ready \ {h}
  /\ ev' = Unnamed(h)
  /\ ref_ev' = IF Unnamed(h) # ev THEN [ref_ev EXCEPT ![h] = 0] ELSE ref_ev
  /\ UNCHANGED <<loop, clock>>

-----------------------------------------------------------------------------
(* The environment                                                         *)

Arrive(h) ==
  /\ h \in watched
  /\ ready' = ready \cup {h}
  /\ UNCHANGED <<watched, ev, ref_ev, loop, clock>>

\* Time passes, in epoll_wait too.  A loop that takes itself to be MaxLag
\* behind is late whatever more it falls behind.
Tick ==
  /\ due' = IF TimeDiff(due) > -MaxLag THEN due - 1 ELSE due
  /\ timeout' = IF timeout > 0 THEN timeout - 1 ELSE timeout
  /\ UNCHANGED <<watched, ready, ev, ref_ev, at, running, jump>>

\* The time of day is set, by any amount: a machine without a clock of its
\* own starts in 1970.  epoll_wait does not go by it.
SetClock(j) ==
  /\ jump = 0
  /\ jump' = j
  /\ due' = due - j
  /\ UNCHANGED <<watched, ready, ev, ref_ev, loop>>

-----------------------------------------------------------------------------
Init ==
  /\ watched = Handler
  /\ ready = {}
  /\ ev = <<>>
  /\ ref_ev = [h \in Handler |-> 0]
  /\ at = 0
  /\ running = NoHandler
  /\ due = Second
  /\ timeout = -1
  /\ jump = 0

Loop ==
  \/ Pass \/ Wake \/ TimesOut \/ Interrupted
  \/ Call \/ Skip \/ Return \/ EndBatch

Next ==
  \/ Loop
  \/ \E h \in Handler : Add(h) \/ Remove(h) \/ Arrive(h)
  \/ Tick
  \/ \E j \in Jumps : SetClock(j)

(***************************************************************************)
(* The loop goes on and time passes: handlers return, as the daemon's read *)
(* what there is without waiting for more.  epoll_wait reports descriptors *)
(* in turn: one that stays ready is in some batch at last, however many    *)
(* others there are.                                                       *)
(***************************************************************************)
Spec == Init /\ [][Next]_vars
FairSpec ==
  /\ Spec
  /\ WF_vars(Pass) /\ WF_vars(Wake \/ TimesOut) /\ WF_vars(Call \/ Skip)
  /\ WF_vars(Return) /\ WF_vars(EndBatch) /\ WF_vars(Tick)
  /\ \A h \in Handler : SF_vars(Wake /\ \E n \in DOMAIN ev' : ev'[n] = h)

-----------------------------------------------------------------------------
TypeOK ==
  /\ watched \subseteq Handler
  /\ ready \subseteq Handler
  /\ \E k \in 0 .. EvSize : ev \in [1 .. k -> Handler \cup {NoHandler}]
  /\ ref_ev \in [Handler -> 0 .. EvSize]
  /\ at \in 0 .. EvSize + 1
  /\ running \in Handler \cup {NoHandler}
  /\ due \in Int
  /\ timeout \in Int
  /\ jump \in Jumps \cup {0}

(***************************************************************************)
(* No handler is called that has been removed, by another handler of the   *)
(* batch or by itself on an earlier call, though the kernel had already    *)
(* reported it: it may have been freed since.                              *)
(***************************************************************************)
NoStaleCall == [][\A h \in Handler : running # h /\ running' = h
                                       => h \in watched]_vars

\* A time no longer than a second, or than what time_diff makes of the step
\* that the clock was set by.
Explained(t) ==
  t <= Second \/ \E d \in -MaxLag .. Second : t <= TimeDiff(d - jump)

(***************************************************************************)
(* Unless the clock is set back, bridge_one_second is not called ahead of  *)
(* time, however far the clock is set forward.  And the loop sleeps past   *)
(* the next second only as long as the one step of the clock makes it: not *)
(* at all after a step forward that fits the int of time_diff, and by what *)
(* the overflow leaves after one that does not (of 24 days or more).       *)
(***************************************************************************)
NeverAhead ==
  /\ jump >= 0 => due <= Second
  /\ Explained(timeout)

(***************************************************************************)
(* bridge_one_second is called again and again, whatever else the handlers *)
(* have to do and wherever the clock is set.                               *)
(***************************************************************************)
SecondsGoOn == []<><<RunTimeouts>>_vars

(***************************************************************************)
(* A descriptor with something to read has its handler called, unless the  *)
(* handler is removed.                                                     *)
(***************************************************************************)
Served == \A h \in Handler :
  h \in ready ~> (running = h \/ h \notin watched)

=============================================================================
