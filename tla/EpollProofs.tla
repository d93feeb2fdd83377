---------------------------- MODULE EpollProofs ----------------------------
(***************************************************************************)
(* The main loop never calls a handler that has been removed, never calls  *)
(* bridge_one_second early unless the clock is set back, and sleeps no     *)
(* longer than the step of the clock explains, for any handlers, any       *)
(* length of the batch and any such step, those that overflow included.    *)
(***************************************************************************)
EXTENDS EpollLoop, FiniteSetTheorems, TLAPS

-----------------------------------------------------------------------------
(* Batches and time differences                                            *)

\* epoll_wait: a batch is a list of ready handlers no longer than EV_SIZE.
LEMMA BatchType ==
  ASSUME ready \subseteq Handler, NEW b \in Batches
  PROVE  \E k \in 0 .. EvSize :
           /\ b \in [1 .. k -> ready]
           /\ \A m, n \in 1 .. k : b[m] = b[n] => m = n
<1>1. Cardinality(ready) \in Nat
  BY FS_Subset, FS_CardinalityType, LoopAssumption
<1> DEFINE k == IF Cardinality(ready) < EvSize THEN Cardinality(ready)
                ELSE EvSize
<1>2. k \in 0 .. EvSize
  BY <1>1, LoopAssumption
<1>3. b \in [1 .. k -> ready] /\ \A m, n \in 1 .. k : b[m] = b[n] => m = n
  BY DEF Batches
<1> QED
  BY <1>2, <1>3

\* The remainder is the only one there is.
LEMMA OneRemainder ==
  ASSUME NEW m \in Nat \ {0}, NEW q \in Int, NEW r \in Int, 0 <= r, r < m
  PROVE  (m * q + r) % m = r
<1> DEFINE x == m * q + r
<1>1. x \in Int
  BY SMT
<1>2. /\ x = m * (x \div m) + (x % m)
      /\ 0 <= (x % m) /\ (x % m) < m
      /\ x \div m \in Int /\ (x % m) \in Int
  BY <1>1, SMT
<1> HIDE DEF x
<1>3. PICK p \in Int, s \in Int :
        s = (x % m) /\ x = m * p + s /\ 0 <= s /\ s < m
  BY <1>2
<1>4. m * (q - p) = s - r
  <2>1. m * p + s = m * q + r
    BY <1>3 DEF x
  <2>2. m * (q - p) = m * q - m * p /\ m * q \in Int /\ m * p \in Int
    BY <1>3, SMT
  <2> QED BY <1>3, <2>1, <2>2
<1>5. CASE q - p >= 1
  <2>1. m * (q - p) >= m
    BY <1>5, SMT
  <2> QED BY <2>1, <1>3, <1>4
<1>6. CASE q - p <= -1
  <2>1. m * (q - p) <= -m
    BY <1>6, SMT
  <2> QED BY <2>1, <1>3, <1>4
<1>7. CASE q = p
  BY <1>7, <1>3, <1>4, SMT DEF x
<1> QED
  BY <1>5, <1>6, <1>7 DEF x

\* A step that does not leave the range moves the remainder by as much.
LEMMA RemainderShift ==
  ASSUME NEW m \in Nat \ {0}, NEW x \in Int, NEW s \in Int,
         0 <= (x % m) + s, (x % m) + s < m
  PROVE  (x + s) % m = (x % m) + s
<1>1. /\ x = m * (x \div m) + (x % m)
      /\ x \div m \in Int /\ (x % m) \in Int
  BY SMT
<1>2. PICK q \in Int, r \in Int : x = m * q + r /\ r = (x % m)
  BY <1>1
<1>3. (m * q + (r + s)) % m = r + s
  <2>1. r + s \in Int /\ 0 <= r + s /\ r + s < m
    BY <1>2
  <2> QED BY <2>1, OneRemainder
<1>4. x + s = m * q + (r + s)
  BY <1>2, SMT
<1> QED
  BY <1>2, <1>3, <1>4

\* time_diff: an int, and the difference itself unless it overflows.
LEMMA TimeDiffType ==
  ASSUME NEW t \in Int
  PROVE  /\ TimeDiff(t) \in Int
         /\ -Half <= TimeDiff(t) /\ TimeDiff(t) < Half
<1>1. 2 * Half \in Nat \ {0}
  BY LoopAssumption
<1>2. /\ (t + Half) % (2 * Half) \in Int
      /\ 0 <= (t + Half) % (2 * Half)
      /\ (t + Half) % (2 * Half) < 2 * Half
  BY <1>1, LoopAssumption, SMT
<1> QED
  BY <1>2, LoopAssumption DEF TimeDiff

LEMMA TimeDiffExact ==
  ASSUME NEW t \in Int, -Half <= t, t < Half
  PROVE  TimeDiff(t) = t
<1>1. Half \in Nat /\ 0 <= t + Half /\ t + Half < 2 * Half
  BY LoopAssumption
<1>2. (t + Half) % (2 * Half) = t + Half
  BY <1>1, SMT
<1> QED
  BY <1>1, <1>2 DEF TimeDiff

\* Time that passes is seen as such, but for the moment of an overflow.
LEMMA TimeDiffShift ==
  ASSUME NEW t \in Int, NEW s \in Int,
         -Half <= TimeDiff(t) + s, TimeDiff(t) + s < Half
  PROVE  TimeDiff(t + s) = TimeDiff(t) + s
<1>1. 2 * Half \in Nat \ {0} /\ t + Half \in Int
  BY LoopAssumption
<1>2. /\ (t + Half) % (2 * Half) \in Int
      /\ 0 <= ((t + Half) % (2 * Half)) + s
      /\ ((t + Half) % (2 * Half)) + s < 2 * Half
  BY <1>1, LoopAssumption, SMT DEF TimeDiff
<1>3. ((t + Half) + s) % (2 * Half) = ((t + Half) % (2 * Half)) + s
  BY <1>1, <1>2, RemainderShift
<1>4. (t + Half) + s = (t + s) + Half
  BY LoopAssumption
<1> QED
  BY <1>2, <1>3, <1>4, LoopAssumption DEF TimeDiff

-----------------------------------------------------------------------------
(* Types                                                                   *)

(***************************************************************************)
(* The loop is in one place at a time: it calls a handler only at an entry *)
(* of the batch, and waits only outside it.  TypeOK needs this: "at" grows *)
(* when a handler returns, and stays within the array because the handler  *)
(* was called at an entry of it.                                           *)
(***************************************************************************)
OnePlace ==
  /\ running # NoHandler => at \in DOMAIN ev
  /\ timeout # -1 => at = 0

LEMMA InitType == Init => TypeOK /\ OnePlace
<1> SUFFICES ASSUME Init PROVE TypeOK /\ OnePlace
  OBVIOUS
<1>1. \E k \in 0 .. EvSize : ev \in [1 .. k -> Handler \cup {NoHandler}]
  <2>1. ev \in [1 .. 0 -> Handler \cup {NoHandler}] /\ 0 \in 0 .. EvSize
    BY LoopAssumption DEF Init
  <2> QED BY <2>1
<1> QED
  BY <1>1, LoopAssumption DEF Init, TypeOK, OnePlace

LEMMA NextType == TypeOK /\ OnePlace /\ [Next]_vars => TypeOK'
<1> SUFFICES ASSUME TypeOK, OnePlace, [Next]_vars PROVE TypeOK'
  OBVIOUS
<1> USE LoopAssumption
<1>1. CASE Pass
  <2>1. due' \in Int /\ timeout' \in Int
    BY <1>1, TimeDiffType DEF Pass, TypeOK
  <2> QED BY <1>1, <2>1 DEF Pass, TypeOK
<1>2. CASE Wake
  <2>1. PICK b \in Batches :
          /\ ev' = b
          /\ ref_ev' = [h \in Handler |->
                          IF \E n \in DOMAIN b : b[n] = h
                          THEN CHOOSE n \in DOMAIN b : b[n] = h
                          ELSE ref_ev[h]]
    BY <1>2 DEF Wake
  <2>2. PICK k \in 0 .. EvSize : b \in [1 .. k -> ready]
    BY BatchType DEF TypeOK
  <2>3. ev' \in [1 .. k -> Handler \cup {NoHandler}]
    BY <2>1, <2>2 DEF TypeOK
  <2>4. ASSUME NEW h \in Handler
        PROVE  (IF \E n \in DOMAIN b : b[n] = h
                THEN CHOOSE n \in DOMAIN b : b[n] = h
                ELSE ref_ev[h]) \in 0 .. EvSize
    <3>1. DOMAIN b = 1 .. k /\ 1 .. k \subseteq 0 .. EvSize
      BY <2>2
    <3> QED BY <3>1 DEF TypeOK
  <2>5. ref_ev' \in [Handler -> 0 .. EvSize]
    BY <2>1, <2>4
  <2>6. at' \in 0 .. EvSize + 1 /\ timeout' \in Int
    BY <1>2 DEF Wake
  <2>7. /\ watched' \subseteq Handler
        /\ ready' \subseteq Handler
        /\ running' \in Handler \cup {NoHandler}
        /\ due' \in Int
        /\ jump' \in Jumps \cup {0}
    BY <1>2 DEF Wake, TypeOK, clock
  <2> QED BY <2>3, <2>5, <2>6, <2>7 DEF TypeOK
<1>3. CASE TimesOut \/ Interrupted
  BY <1>3 DEF TimesOut, Interrupted, TypeOK, clock
<1>4. CASE Call
  BY <1>4 DEF Call, TypeOK, clock
<1>5. CASE Skip \/ Return
  <2>1. PICK k \in 0 .. EvSize : ev \in [1 .. k -> Handler \cup {NoHandler}]
    BY DEF TypeOK
  <2>2. at \in 1 .. k /\ at' = at + 1
    BY <1>5, <2>1 DEF Skip, Return, OnePlace
  <2>3. at' \in 0 .. EvSize + 1
    BY <2>2
  <2>4. ev' \in [1 .. k -> Handler \cup {NoHandler}]
    BY <1>5, <2>1 DEF Skip, Return
  <2>5. /\ watched' \subseteq Handler
        /\ ready' \subseteq Handler
        /\ ref_ev' \in [Handler -> 0 .. EvSize]
        /\ running' \in Handler \cup {NoHandler}
        /\ due' \in Int
        /\ timeout' \in Int
        /\ jump' \in Jumps \cup {0}
    BY <1>5 DEF Skip, Return, TypeOK, clock
  <2> QED BY <2>3, <2>4, <2>5 DEF TypeOK
<1>6. CASE EndBatch
  <2>1. ev' \in [1 .. 0 -> Handler \cup {NoHandler}] /\ 0 \in 0 .. EvSize
    BY <1>6 DEF EndBatch
  <2>2. ref_ev' \in [Handler -> 0 .. EvSize]
    BY <1>6 DEF EndBatch, TypeOK
  <2>3. at' \in 0 .. EvSize + 1
    BY <1>6 DEF EndBatch
  <2> QED BY <1>6, <2>1, <2>2, <2>3 DEF EndBatch, TypeOK, clock
<1>7. ASSUME NEW h \in Handler, Add(h) PROVE TypeOK'
  BY <1>7 DEF Add, TypeOK, loop, clock
<1>8. ASSUME NEW h \in Handler, Remove(h) PROVE TypeOK'
  BY <1>8 DEF Remove, Unnamed, TypeOK, loop, clock
<1>9. ASSUME NEW h \in Handler, Arrive(h) PROVE TypeOK'
  BY <1>9 DEF Arrive, TypeOK, loop, clock
<1>10. CASE Tick
  BY <1>10 DEF Tick, TypeOK
<1>11. ASSUME NEW j \in Jumps, SetClock(j) PROVE TypeOK'
  BY <1>11 DEF SetClock, TypeOK, loop
<1>12. CASE UNCHANGED vars
  BY <1>12 DEF vars, TypeOK
<1> QED
  BY <1>1, <1>2, <1>3, <1>4, <1>5, <1>6, <1>7, <1>8, <1>9, <1>10, <1>11,
     <1>12 DEF Next, Loop

LEMMA NextPlace == TypeOK /\ OnePlace /\ [Next]_vars => OnePlace'
<1> SUFFICES ASSUME TypeOK, OnePlace, [Next]_vars PROVE OnePlace'
  OBVIOUS
<1> USE LoopAssumption
<1>0. PICK k \in 0 .. EvSize : ev \in [1 .. k -> Handler \cup {NoHandler}]
  BY DEF TypeOK
<1>1. 0 \notin DOMAIN ev
  BY <1>0
<1>2. CASE Pass
  BY <1>1, <1>2 DEF Pass, Top, OnePlace
<1>3. CASE Wake
  BY <1>1, <1>3 DEF Wake, OnePlace
<1>4. CASE TimesOut \/ Interrupted \/ Call \/ Skip \/ Return \/ EndBatch
  BY <1>0, <1>1, <1>4 DEF TimesOut, Interrupted, Call, Skip, Return,
     EndBatch, OnePlace, TypeOK
<1>5. ASSUME NEW h \in Handler, Remove(h) PROVE OnePlace'
  <2>1. DOMAIN ev' = DOMAIN ev
    BY <1>0, <1>5 DEF Remove, Unnamed
  <2> QED BY <1>5, <2>1 DEF Remove, OnePlace, loop
<1>6. ASSUME NEW h \in Handler, Add(h) \/ Arrive(h) PROVE OnePlace'
  BY <1>6 DEF Add, Arrive, OnePlace, loop
<1>7. CASE Tick
  BY <1>7 DEF Tick, OnePlace, TypeOK
<1>8. ASSUME NEW j \in Jumps, SetClock(j) PROVE OnePlace'
  BY <1>8 DEF SetClock, OnePlace, loop
<1>9. CASE UNCHANGED vars
  BY <1>9 DEF vars, OnePlace
<1> QED
  BY <1>2, <1>3, <1>4, <1>5, <1>6, <1>7, <1>8, <1>9 DEF Next, Loop

\* epoll_main_loop: the batch array is never overrun, and the index of the
\* entry being served stays within it.
THEOREM TypeCorrect == Spec => []TypeOK
BY InitType, NextType, NextPlace, PTL DEF Spec

-----------------------------------------------------------------------------
(* Removed handlers                                                        *)

(***************************************************************************)
(* What add_epoll, remove_epoll and the loop keep between them: an entry   *)
(* of the batch that is not NULL names a handler that is still watched,    *)
(* and whose ref_ev is that entry.  Without the second part a handler      *)
(* removed by another could not find the entry it must clear.              *)
(***************************************************************************)
BatchNamesWatched ==
  /\ ready \subseteq watched
  /\ \A n \in DOMAIN ev : ev[n] # NoHandler =>
       /\ ev[n] \in watched
       /\ ref_ev[ev[n]] = n
  /\ at = 0 => ev = <<>>

LEMMA InitNames == Init => BatchNamesWatched
BY DEF Init, BatchNamesWatched

LEMMA NextNames ==
  TypeOK /\ BatchNamesWatched /\ [Next]_vars => BatchNamesWatched'
<1> SUFFICES ASSUME TypeOK, BatchNamesWatched, [Next]_vars
             PROVE  BatchNamesWatched'
  OBVIOUS
<1> USE LoopAssumption
<1>0. PICK k \in 0 .. EvSize : ev \in [1 .. k -> Handler \cup {NoHandler}]
  BY DEF TypeOK
<1>1. CASE Pass
  BY <1>1 DEF Pass, BatchNamesWatched
<1>2. CASE Wake
  <2>1. PICK b \in Batches :
          /\ ev' = b
          /\ ref_ev' = [h \in Handler |->
                          IF \E n \in DOMAIN b : b[n] = h
                          THEN CHOOSE n \in DOMAIN b : b[n] = h
                          ELSE ref_ev[h]]
    BY <1>2 DEF Wake
  <2>2. PICK l \in 0 .. EvSize :
          /\ b \in [1 .. l -> ready]
          /\ \A m, n \in 1 .. l : b[m] = b[n] => m = n
    BY BatchType DEF TypeOK
  <2>3. ASSUME NEW n \in DOMAIN ev'
        PROVE  ev'[n] \in watched' /\ ref_ev'[ev'[n]] = n
    <3>1. n \in 1 .. l /\ DOMAIN b = 1 .. l /\ b[n] \in Handler
      BY <2>1, <2>2 DEF TypeOK
    <3>2. (CHOOSE m \in DOMAIN b : b[m] = b[n]) = n
      BY <2>2, <3>1
    <3>3. ref_ev'[b[n]] = n
      BY <2>1, <3>1, <3>2
    <3> QED BY <1>2, <2>1, <2>2, <3>1, <3>3 DEF Wake, BatchNamesWatched
  <2>4. ready' \subseteq watched' /\ at' # 0
    BY <1>2 DEF Wake, BatchNamesWatched
  <2> QED BY <2>3, <2>4 DEF BatchNamesWatched
<1>3. CASE TimesOut \/ Interrupted \/ Call
  BY <1>3 DEF TimesOut, Interrupted, Call, BatchNamesWatched, clock
<1>5. CASE Skip \/ Return
  <2>1. at' = at + 1 /\ at' # 0
    BY <1>5 DEF Skip, Return, TypeOK
  <2> QED BY <1>5, <2>1 DEF Skip, Return, BatchNamesWatched, clock
<1>6. CASE EndBatch
  BY <1>6 DEF EndBatch, BatchNamesWatched
<1>7. ASSUME NEW h \in Handler, Add(h) PROVE BatchNamesWatched'
  BY <1>0, <1>7 DEF Add, BatchNamesWatched, TypeOK, loop
<1>8. ASSUME NEW h \in Handler, Remove(h) PROVE BatchNamesWatched'
  <2>1. CASE ref_ev[h] \in DOMAIN ev /\ ev[ref_ev[h]] = h
    <3>1. ev' = [ev EXCEPT ![ref_ev[h]] = NoHandler]
      BY <1>8, <2>1 DEF Remove, Unnamed
    <3>2. ev' # ev /\ ref_ev' = [ref_ev EXCEPT ![h] = 0]
      BY <1>0, <1>8, <2>1, <3>1 DEF Remove, Unnamed
    <3>3. ASSUME NEW n \in DOMAIN ev', ev'[n] # NoHandler
          PROVE  ev'[n] \in watched' /\ ref_ev'[ev'[n]] = n
      <4>1. n \in DOMAIN ev /\ n # ref_ev[h] /\ ev'[n] = ev[n]
        BY <1>0, <3>1, <3>3
      <4>2. ev[n] \in watched /\ ref_ev[ev[n]] = n /\ ev[n] # h
        BY <3>3, <4>1 DEF BatchNamesWatched
      <4> QED BY <1>8, <3>2, <4>1, <4>2 DEF Remove, TypeOK
    <3>4. at' = 0 => ev' = <<>>
      BY <1>0, <1>8, <2>1 DEF Remove, BatchNamesWatched, loop
    <3> QED BY <1>8, <3>3, <3>4 DEF Remove, BatchNamesWatched
  <2>2. CASE ~(ref_ev[h] \in DOMAIN ev /\ ev[ref_ev[h]] = h)
    <3>1. ev' = ev /\ ref_ev' = ref_ev
      BY <1>8, <2>2 DEF Remove, Unnamed
    <3>2. ASSUME NEW n \in DOMAIN ev, ev[n] # NoHandler PROVE ev[n] # h
      BY <2>2, <3>2 DEF BatchNamesWatched
    <3> QED BY <1>8, <3>1, <3>2 DEF Remove, BatchNamesWatched, loop
  <2> QED BY <2>1, <2>2
<1>9. ASSUME NEW h \in Handler, Arrive(h) PROVE BatchNamesWatched'
  BY <1>9 DEF Arrive, BatchNamesWatched, loop
<1>10. CASE Tick
  BY <1>10 DEF Tick, BatchNamesWatched
<1>11. ASSUME NEW j \in Jumps, SetClock(j) PROVE BatchNamesWatched'
  BY <1>11 DEF SetClock, BatchNamesWatched, loop
<1>12. CASE UNCHANGED vars
  BY <1>12 DEF vars, BatchNamesWatched
<1> QED
  BY <1>1, <1>2, <1>3, <1>5, <1>6, <1>7, <1>8, <1>9, <1>10, <1>11, <1>12
     DEF Next, Loop

LEMMA StepNotStale ==
  TypeOK /\ BatchNamesWatched /\ [Next]_vars =>
    [\A h \in Handler : running # h /\ running' = h => h \in watched]_vars
<1> SUFFICES ASSUME TypeOK, BatchNamesWatched, Next, NEW h \in Handler,
                    running # h, running' = h
             PROVE  h \in watched
  OBVIOUS
<1>1. CASE Call
  BY <1>1, LoopAssumption DEF Call, BatchNamesWatched
<1>2. CASE ~Call
  <2>1. running' = running \/ running' = NoHandler
    BY <1>2 DEF Next, Loop, Pass, Wake, TimesOut, Interrupted, Skip, Return, EndBatch,
       Add, Remove, Arrive, Tick, SetClock, loop
  <2> QED BY <2>1, LoopAssumption
<1> QED
  BY <1>1, <1>2

\* epoll_main_loop: a handler removed while the batch is served is not
\* called, however the handlers of the batch add and remove one another.
THEOREM NeverStale == Spec => NoStaleCall
<1>1. Spec => []BatchNamesWatched
  BY InitNames, NextNames, TypeCorrect, PTL DEF Spec
<1> QED
  BY <1>1, TypeCorrect, StepNotStale, PTL DEF Spec, NoStaleCall

-----------------------------------------------------------------------------
(* The second                                                              *)

(***************************************************************************)
(* NeverAhead speaks of a sleep under way and of a clock not set back.  The *)
(* next sleep is what time_diff makes of due, so that one has to be        *)
(* explained as well; and before the clock is set due is near.             *)
(***************************************************************************)
InTime ==
  /\ NeverAhead
  /\ Explained(TimeDiff(due))
  /\ jump = 0 => -MaxLag <= due

LEMMA InitInTime == Init => InTime
<1> SUFFICES ASSUME Init PROVE InTime
  OBVIOUS
<1>1. TimeDiff(due) = due
  BY TimeDiffExact, LoopAssumption DEF Init
<1> QED
  BY <1>1, LoopAssumption DEF Init, InTime, NeverAhead, Explained

\* What is shorter than something explained is explained.
LEMMA ShorterExplained ==
  ASSUME NEW t \in Int, NEW u \in Int, jump \in Int, Explained(t), u <= t
  PROVE  Explained(u)
<1>1. CASE t <= Second
  BY <1>1, LoopAssumption DEF Explained
<1>2. ASSUME NEW d \in -MaxLag .. Second, t <= TimeDiff(d - jump)
      PROVE  Explained(u)
  <2>1. TimeDiff(d - jump) \in Int
    BY TimeDiffType, LoopAssumption
  <2> QED BY <1>2, <2>1 DEF Explained
<1> QED
  BY <1>1, <1>2 DEF Explained

LEMMA NextInTime == TypeOK /\ InTime /\ [Next]_vars => InTime'
<1> SUFFICES ASSUME TypeOK, InTime, [Next]_vars PROVE InTime'
  OBVIOUS
<1> USE LoopAssumption
<1>0. /\ due \in Int /\ timeout \in Int /\ jump \in Int
      /\ TimeDiff(due) \in Int
      /\ -Half <= TimeDiff(due) /\ TimeDiff(due) < Half
  <2>1. due \in Int /\ timeout \in Int /\ jump \in Int
    BY DEF TypeOK
  <2> QED BY <2>1, TimeDiffType
<1>1. CASE Pass
  <2>1. jump' = jump
    BY <1>1 DEF Pass
  <2>2. CASE TimeDiff(due) < 0
    <3>1. due' = due + Second /\ timeout' = 0
      BY <1>1, <2>2 DEF Pass
    <3>2. TimeDiff(due') = TimeDiff(due) + Second
      BY <1>0, <2>2, <3>1, TimeDiffShift
    <3>3. jump >= 0 => due < 0
      <4>1. 0 <= due /\ due <= Second => TimeDiff(due) = due
        BY <1>0, TimeDiffExact
      <4> QED BY <1>0, <2>2, <4>1 DEF InTime, NeverAhead
    <3>4. Explained(timeout)' /\ Explained(TimeDiff(due))'
      BY <1>0, <2>2, <3>1, <3>2 DEF Explained
    <3> QED BY <1>0, <2>1, <3>1, <3>3, <3>4 DEF InTime, NeverAhead
  <2>3. CASE TimeDiff(due) >= 0
    <3>1. due' = due /\ timeout' = TimeDiff(due)
      BY <1>0, <1>1, <2>3 DEF Pass
    <3> QED BY <2>1, <3>1 DEF InTime, NeverAhead, Explained
  <2> QED BY <1>0, <2>2, <2>3
<1>2. CASE Wake \/ TimesOut \/ Interrupted
  <2>1. timeout' = -1 /\ UNCHANGED clock
    BY <1>2 DEF Wake, TimesOut, Interrupted
  <2> QED BY <2>1 DEF InTime, NeverAhead, Explained, clock
<1>3. CASE Call \/ Skip \/ Return \/ EndBatch
  BY <1>3 DEF Call, Skip, Return, EndBatch, InTime, NeverAhead, Explained,
     clock
<1>4. ASSUME NEW h \in Handler, Add(h) \/ Remove(h) \/ Arrive(h)
      PROVE  InTime'
  BY <1>4 DEF Add, Remove, Arrive, InTime, NeverAhead, Explained, loop, clock
<1>5. CASE Tick
  <2>1. jump' = jump /\ timeout' \in Int /\ timeout' <= timeout
    BY <1>0, <1>5 DEF Tick
  <2>2. Explained(timeout)'
    <3>1. Explained(timeout')
      BY <1>0, <2>1, ShorterExplained DEF InTime, NeverAhead
    <3> QED BY <2>1, <3>1 DEF Explained
  <2>3. CASE TimeDiff(due) > -MaxLag
    <3>1. due' = due - 1
      BY <1>5, <2>3 DEF Tick
    <3>2. TimeDiff(due + (-1)) = TimeDiff(due) + (-1)
      BY <1>0, <2>3, TimeDiffShift
    <3>3. TimeDiff(due') = TimeDiff(due) - 1
      BY <1>0, <3>1, <3>2
    <3>4. Explained(TimeDiff(due'))
      BY <1>0, <3>3, ShorterExplained DEF InTime
    <3>5. jump = 0 => -MaxLag < due
      <4>1. ASSUME jump = 0 PROVE TimeDiff(due) = due
        BY <1>0, <4>1, TimeDiffExact DEF InTime, NeverAhead
      <4> QED BY <2>3, <4>1
    <3> QED
      BY <1>0, <2>1, <2>2, <3>1, <3>4, <3>5
         DEF InTime, NeverAhead, Explained
  <2>4. CASE ~(TimeDiff(due) > -MaxLag)
    <3>1. due' = due
      BY <1>5, <2>4 DEF Tick
    <3> QED BY <2>1, <2>2, <3>1 DEF InTime, NeverAhead, Explained
  <2> QED BY <2>3, <2>4
<1>6. ASSUME NEW j \in Jumps, SetClock(j) PROVE InTime'
  <2>1. jump = 0 /\ jump' = j /\ due' = due - j /\ timeout' = timeout
    BY <1>6 DEF SetClock, loop
  <2>2. due \in -MaxLag .. Second
    BY <1>0, <2>1 DEF InTime, NeverAhead
  <2>3. Explained(TimeDiff(due))'
    BY <1>0, <2>1, <2>2, TimeDiffType DEF Explained
  <2>4. timeout <= Second
    <3>1. ASSUME NEW d \in -MaxLag .. Second, timeout <= TimeDiff(d - jump)
          PROVE  timeout <= Second
      <4>1. TimeDiff(d) = d /\ d - jump = d
        BY <2>1, TimeDiffExact
      <4> QED BY <1>0, <3>1, <4>1
    <3> QED BY <3>1 DEF InTime, NeverAhead, Explained
  <2> QED
    BY <1>0, <2>1, <2>2, <2>3, <2>4 DEF InTime, NeverAhead, Explained
<1>7. CASE UNCHANGED vars
  BY <1>7 DEF vars, InTime, NeverAhead, Explained
<1> QED
  BY <1>1, <1>2, <1>3, <1>4, <1>5, <1>6, <1>7 DEF Next, Loop

\* run_timeouts and time_diff, whatever the step of the clock: without one
\* backwards no second is early, and no sleep is longer than the step
\* explains.
THEOREM AlwaysInTime == Spec => []NeverAhead
<1>1. Spec => []InTime
  BY InitInTime, NextInTime, TypeCorrect, PTL DEF Spec
<1>2. InTime => NeverAhead
  BY DEF InTime
<1> QED
  BY <1>1, <1>2, PTL

\* What this comes to after a step forward that an int holds: the loop does
\* not sleep past the next second.
THEOREM NearStepsInTime ==
  Spec => [](jump >= 0 /\ MaxLag + jump <= Half => timeout <= Second)
<1> USE LoopAssumption
<1>1. ASSUME TypeOK, NeverAhead, jump >= 0, MaxLag + jump <= Half
      PROVE  timeout <= Second
  <2>1. ASSUME NEW d \in -MaxLag .. Second, timeout <= TimeDiff(d - jump)
        PROVE  timeout <= Second
    <3>1. d - jump \in Int /\ -Half <= d - jump /\ d - jump < Half
      BY <1>1 DEF TypeOK
    <3>2. TimeDiff(d - jump) = d - jump
      BY <3>1, TimeDiffExact
    <3> QED BY <1>1, <2>1, <3>2 DEF TypeOK
  <2> QED BY <1>1, <2>1 DEF NeverAhead, Explained
<1> QED
  BY <1>1, AlwaysInTime, TypeCorrect, PTL

\* And after one that it does not hold: no second is called, and epoll_wait
\* is given what the overflow leaves.
THEOREM FarStepSleeps ==
  ASSUME due \in Int, -2 * Half <= due, due < -Half, Pass
  PROVE  due' = due /\ timeout' = due + 2 * Half
<1> DEFINE m == 2 * Half
<1>1. m \in Nat \ {0} /\ due + Half \in Int
  BY LoopAssumption
<1>2. 0 <= due + 3 * Half /\ due + 3 * Half < m
  BY LoopAssumption
<1>3. (m * (-1) + (due + 3 * Half)) % m = due + 3 * Half
  BY <1>1, <1>2, LoopAssumption, OneRemainder
<1>4. m * (-1) + (due + 3 * Half) = due + Half
  BY LoopAssumption
<1>5. TimeDiff(due) = due + 2 * Half
  BY <1>3, <1>4, LoopAssumption DEF TimeDiff
<1> QED
  BY <1>5, LoopAssumption DEF Pass

=============================================================================
