---------------------------- MODULE DaemonProofs ----------------------------
(***************************************************************************)
(* Proofs about the daemon beside the kernel: modules Tracking, Daemon and *)
(* DaemonProperties.                                                       *)
(***************************************************************************)
EXTENDS DaemonProperties, FiniteSetTheorems, SequenceTheorems,
        WellFoundedInduction, TLAPS

-----------------------------------------------------------------------------
(* The state of Tracking, and what each function of bridge_track.c leaves  *)
(* alone.                                                                  *)

IsCfg(c) == c = [f \in DOMAIN c |-> c[f]]

IsBr(r) ==
  /\ DOMAIN r = {"up", "do_stp", "stp_up", "port_list", "cfg"}
  /\ r.up \in BOOLEAN /\ r.do_stp \in BOOLEAN /\ r.stp_up \in BOOLEAN
  /\ r.port_list \in Seq(Device)

IsDev(p) ==
  /\ DOMAIN p = {"up", "master", "port_index", "cfg"}
  /\ p.up \in BOOLEAN
  /\ p.master \in Bridge \cup {NoBridge}
  /\ p.port_index \in PortNo \cup {-1, 0}
  /\ IsCfg(p.cfg)

IsInstance(i) ==
  /\ DOMAIN i = {"cfg", "port"}
  /\ DOMAIN i.port \subseteq PortNo
  /\ \A n \in DOMAIN i.port :
       /\ DOMAIN i.port[n] = {"state", "cfg"}
       /\ i.port[n].state \in LibState
       /\ IsCfg(i.port[n].cfg)

IsDaemon(m) ==
  /\ DOMAIN m = {"known", "stp_up", "br", "dev", "stp"}
  /\ m.known \subseteq Interface
  /\ m.stp_up \in BOOLEAN
  /\ DOMAIN m.br = Bridge /\ DOMAIN m.dev = Device /\ DOMAIN m.stp = Bridge
  /\ \A b \in Bridge : IsBr(m.br[b]) /\ IsInstance(m.stp[b])
  /\ \A d \in Device : IsDev(m.dev[d])

Typed(s) ==
  /\ DOMAIN s = {"kernel", "daemon"}
  /\ IsKernel(s.kernel)
  /\ IsDaemon(s.daemon)

List(s, b) == s.daemon.br[b].port_list
Runs(s, b) == s.daemon.br[b].stp_up
Index(s, d) == s.daemon.dev[d].port_index
Master(s, d) == s.daemon.dev[d].master
Lib(s, b) == s.daemon.stp[b].port
Up(s, d) == s.daemon.dev[d].up

\* The daemon takes device e for the same port, or for none, as before.
Unmoved(s, t, e) ==
  /\ e \in t.daemon.known <=> e \in s.daemon.known
  /\ Master(t, e) = Master(s, e)
  /\ Up(t, e) = Up(s, e)

\* The daemon takes every interface for the same as before.
Steady(s, t) ==
  /\ t.daemon.known = s.daemon.known
  /\ \A e \in Device : Unmoved(s, t, e)

\* The kernel but for the states of its ports.
SameKernel(s, t) ==
  /\ t.kernel.bridges = s.kernel.bridges
  /\ t.kernel.member = s.kernel.member
  /\ t.kernel.port_no = s.kernel.port_no
  /\ t.kernel.oper = s.kernel.oper
  /\ t.kernel.stp_state = s.kernel.stp_state

\* What a port is to the daemon, and what a bridge is, but for the library.
SameDev(s, t, d) ==
  /\ t.daemon.dev[d].up = s.daemon.dev[d].up
  /\ t.daemon.dev[d].master = s.daemon.dev[d].master
  /\ t.daemon.dev[d].cfg = s.daemon.dev[d].cfg

SameBr(s, t, b) ==
  /\ t.daemon.br[b].up = s.daemon.br[b].up
  /\ t.daemon.br[b].do_stp = s.daemon.br[b].do_stp
  /\ t.daemon.br[b].port_list = s.daemon.br[b].port_list
  /\ t.daemon.br[b].cfg = s.daemon.br[b].cfg

\* The interfaces are the same; only the library and what the daemon keeps
\* of it may differ: stp_up, the port indexes, the instances.
SameView(s, t) ==
  /\ SameKernel(s, t)
  /\ t.daemon.known = s.daemon.known
  /\ t.daemon.stp_up = s.daemon.stp_up
  /\ \A b \in Bridge : SameBr(s, t, b)
  /\ \A d \in Device : SameDev(s, t, d)

PortsOf(s, b) == Range(List(s, b))

\* Of the library, only what belongs to bridge b and to its ports differs,
Only(s, t, b) ==
  /\ SameView(s, t)
  /\ \A c \in Bridge \ {b} :
       Runs(t, c) = Runs(s, c) /\ t.daemon.stp[c] = s.daemon.stp[c]
  /\ \A d \in Device \ PortsOf(s, b) : Index(t, d) = Index(s, d)

\* or only the ports the instance of b has, and their states.
OnlyLib(s, t, b) ==
  /\ Only(s, t, b)
  /\ Runs(t, b) = Runs(s, b)
  /\ \A d \in Device : Index(t, d) = Index(s, d)
  /\ t.daemon.stp[b].cfg = s.daemon.stp[b].cfg

-----------------------------------------------------------------------------
(* Finding a port, and the state the library puts it in.                   *)

\* A set of numbers has a least one.
LEMMA MinIs ==
  ASSUME NEW S, S \subseteq Nat, S # {}
  PROVE  Min(S) \in S /\ \A n \in S : Min(S) <= n
<1>1. PICK m \in S : \A n \in S : <<n, m>> \notin OpToRel(<, Nat)
  BY NatLessThanWellFounded, WFMin
<1>2. \A n \in S : ~(n < m)
  BY <1>1 DEF OpToRel
<1>3. \A n \in S : m <= n
  BY <1>2, SMT
<1> QED
  BY <1>3 DEF Min

\* bridge_track.c, find_port: the first port of the list with the index.
LEMMA FindPortIs ==
  ASSUME NEW s, NEW b \in Bridge, List(s, b) \in Seq(Device), NEW i
  PROVE  \/ /\ FindPort(s, b, i) = NoDevice
            /\ \A n \in DOMAIN List(s, b) : Index(s, List(s, b)[n]) # i
         \/ \E n \in DOMAIN List(s, b) :
              /\ FindPort(s, b, i) = List(s, b)[n]
              /\ Index(s, List(s, b)[n]) = i
              /\ \A m \in DOMAIN List(s, b) :
                   m < n => Index(s, List(s, b)[m]) # i
<1> DEFINE list == List(s, b)
           I == {n \in 1 .. Len(list) : Index(s, list[n]) = i}
           n == SelectInSeq(list, LAMBDA d : s.daemon.dev[d].port_index = i)
<1>1. /\ n = IF I # {} THEN Min(I) ELSE 0
      /\ FindPort(s, b, i) = IF n = 0 THEN NoDevice ELSE list[n]
  BY DEF SelectInSeq, FindPort, List, Index
<1>2. DOMAIN list = 1 .. Len(list) /\ Len(list) \in Nat
  OBVIOUS
<1> HIDE DEF list, n
<1>3. I \subseteq Nat
  OBVIOUS
<1>4. CASE I = {}
  BY <1>1, <1>2, <1>4 DEF list
<1>5. CASE I # {}
  <2> HIDE DEF I
  <2>1. n = Min(I) /\ n \in I /\ \A m \in I : n <= m
    BY <1>1, <1>3, <1>5, MinIs
  <2>2. n # 0 /\ n \in DOMAIN list /\ Index(s, list[n]) = i
    BY <1>2, <2>1 DEF I
  <2>3. \A m \in DOMAIN list : m < n => Index(s, list[m]) # i
    BY <1>2, <2>1, <2>2 DEF I
  <2> QED
    BY <1>1, <2>2, <2>3 DEF list
<1> QED
  BY <1>4, <1>5

-----------------------------------------------------------------------------
(* STP_OUT_set_port_state and STP_IN: the library's instance of a bridge.  *)

\* bridge_track.c, STP_OUT_set_port_state: of the kernel, only the states of
\* ports change, and to states there are.
LEMMA SetPortStateIs ==
  ASSUME NEW s, Typed(s), NEW b \in Bridge, NEW moved,
         moved \subseteq DOMAIN Lib(s, b)
  PROVE  LET t == SetPortState(s, b, moved) IN
         /\ Typed(t) /\ t.daemon = s.daemon /\ SameKernel(s, t)
<1> DEFINE Told(d) == /\ s.daemon.dev[d].up
                      /\ \E i \in moved : FindPort(s, b, i) = d
                      /\ s.kernel.member[d] # NoBridge
                      /\ s.kernel.oper[d]
           State(d) == s.daemon.stp[b].port[s.daemon.dev[d].port_index].state
           k == [d \in Device |-> IF Told(d) THEN KernelState[State(d)]
                                  ELSE s.kernel.state[d]]
           t == SetPortState(s, b, moved)
<1>1. t = [s EXCEPT !.kernel.state = k]
  <2>1. DOMAIN s = {"kernel", "daemon"} /\ "state" \in DOMAIN s.kernel
    BY DEF Typed, IsKernel
  <2> QED
    BY <2>1 DEF SetPortState
<1>2. ASSUME NEW d \in Device, Told(d)
      PROVE  State(d) \in LibState
  <2>1. PICK i \in moved : FindPort(s, b, i) = d
    BY <1>2
  <2>2. List(s, b) \in Seq(Device) /\ d # NoDevice
    BY InterfaceAssumption DEF Typed, IsDaemon, IsBr, List
  <2>3. Index(s, d) = i
    BY <2>1, <2>2, FindPortIs
  <2>4. i \in DOMAIN Lib(s, b)
    BY <2>1
  <2> QED
    BY <2>3, <2>4 DEF Typed, IsDaemon, IsInstance, Lib, Index
<1>3. k \in [Device -> {"disabled", "blocking", "learning", "forwarding"}]
  <2>1. \A x \in LibState : KernelState[x] \in
          {"disabled", "blocking", "learning", "forwarding"}
    BY DEF KernelState, LibState
  <2>2. \A d \in Device : s.kernel.state[d] \in
          {"disabled", "blocking", "learning", "forwarding"}
    BY DEF Typed, IsKernel
  <2> HIDE DEF State, Told
  <2> QED
    BY <1>2, <2>1, <2>2
<1> HIDE DEF k, t
<1>4. t.daemon = s.daemon /\ t.kernel = [s.kernel EXCEPT !.state = k]
      /\ DOMAIN t = {"kernel", "daemon"}
  BY <1>1 DEF Typed
<1>5. IsKernel(t.kernel) /\ SameKernel(s, t)
  BY <1>3, <1>4 DEF Typed, IsKernel, SameKernel
<1> QED
  BY <1>4, <1>5 DEF Typed, t

\* A change of the ports of instance b, as far as types go.
LEMMA PortsChange ==
  ASSUME NEW s, Typed(s), NEW b \in Bridge, NEW port,
         IsInstance([cfg |-> s.daemon.stp[b].cfg, port |-> port])
  PROVE  LET t == [s EXCEPT !.daemon.stp[b].port = port] IN
         /\ Typed(t) /\ OnlyLib(s, t, b) /\ Lib(t, b) = port
<1> DEFINE i == [s.daemon.stp[b] EXCEPT !.port = port]
           m == [s.daemon EXCEPT !.stp = [@ EXCEPT ![b] = i]]
           t == [s EXCEPT !.daemon = m]
<1>1. DOMAIN s = {"kernel", "daemon"} /\ "stp" \in DOMAIN s.daemon
      /\ b \in DOMAIN s.daemon.stp
      /\ DOMAIN s.daemon.stp[b] = {"cfg", "port"}
  BY DEF Typed, IsDaemon, IsInstance
<1>2. t = [s EXCEPT !.daemon.stp[b].port = port]
  BY <1>1
<1>3. IsInstance(i) /\ i.port = port /\ i.cfg = s.daemon.stp[b].cfg
  BY <1>1 DEF IsInstance
<1> HIDE DEF i
<1>4. /\ DOMAIN m = DOMAIN s.daemon
      /\ m.known = s.daemon.known /\ m.stp_up = s.daemon.stp_up
      /\ m.br = s.daemon.br /\ m.dev = s.daemon.dev
      /\ DOMAIN m.stp = Bridge /\ m.stp[b] = i
      /\ \A c \in Bridge \ {b} : m.stp[c] = s.daemon.stp[c]
  BY <1>1 DEF Typed, IsDaemon
<1> HIDE DEF m
<1>5. IsDaemon(m)
  BY <1>3, <1>4 DEF Typed, IsDaemon
<1>6. t.kernel = s.kernel /\ t.daemon = m /\ DOMAIN t = {"kernel", "daemon"}
  BY <1>1
<1> HIDE DEF t
<1>7. Typed(t)
  BY <1>5, <1>6 DEF Typed
<1>8. OnlyLib(s, t, b)
  BY <1>3, <1>4, <1>6 DEF OnlyLib, Only, SameView, SameKernel, SameBr,
     SameDev, Runs, Index
<1> QED
  BY <1>2, <1>3, <1>4, <1>6, <1>7, <1>8 DEF Lib

\* The machines of an instance run: its ports stay, and keep what they were
\* given.
LEMMA LibraryUpdateIs ==
  ASSUME NEW s, Typed(s), NEW b \in Bridge, NEW out \in Outcome, NEW again
  PROVE  LET t == LibraryUpdate(s, b, out, again) IN
         /\ Typed(t) /\ OnlyLib(s, t, b)
         /\ DOMAIN Lib(t, b) = DOMAIN Lib(s, b)
         /\ \A i \in DOMAIN Lib(s, b) : Lib(t, b)[i].cfg = Lib(s, b)[i].cfg
<1> DEFINE old == s.daemon.stp[b].port
           moved == {i \in DOMAIN old : i \in again \/ out[b][i] # old[i].state}
           port == [i \in DOMAIN old |-> [old[i] EXCEPT !.state = out[b][i]]]
           r == [s EXCEPT !.daemon.stp[b].port = port]
           t == SetPortState(r, b, moved)
<1>1. t = LibraryUpdate(s, b, out, again)
  BY DEF LibraryUpdate
<1>2. IsInstance(s.daemon.stp[b])
  BY DEF Typed, IsDaemon
<1>3. DOMAIN port = DOMAIN old
      /\ \A i \in DOMAIN old : /\ DOMAIN port[i] = {"state", "cfg"}
                               /\ port[i].state = out[b][i]
                               /\ port[i].cfg = old[i].cfg
  BY <1>2 DEF IsInstance
<1> HIDE DEF port
<1>4. \A i \in DOMAIN old : out[b][i] \in LibState
  BY <1>2, BoundAssumption DEF IsInstance, Outcome
<1>5. IsInstance([cfg |-> s.daemon.stp[b].cfg, port |-> port])
  BY <1>2, <1>3, <1>4 DEF IsInstance
<1>6. Typed(r) /\ OnlyLib(s, r, b) /\ Lib(r, b) = port
  BY <1>5, PortsChange
<1> HIDE DEF r
<1>7. Typed(t) /\ t.daemon = r.daemon /\ SameKernel(r, t)
  BY <1>3, <1>6, SetPortStateIs
<1> HIDE DEF t
<1>8. OnlyLib(s, t, b)
  BY <1>6, <1>7 DEF OnlyLib, Only, SameView, SameKernel, SameBr, SameDev,
     Runs, Index, List, PortsOf
<1>9. Lib(t, b) = port /\ Lib(s, b) = old
  BY <1>6, <1>7 DEF Lib
<1> HIDE DEF old
<1> QED
  BY <1>1, <1>3, <1>7, <1>8, <1>9

\* What two calls in a row leave alone.
LEMMA SameViewTrans ==
  ASSUME NEW s, NEW t, NEW u, SameView(s, t), SameView(t, u)
  PROVE  SameView(s, u)
BY DEF SameView, SameKernel, SameBr, SameDev

\* Two calls for one bridge differ from the start in that bridge only.
LEMMA OnlyTrans ==
  ASSUME NEW s, NEW t, NEW u, NEW b \in Bridge, Only(s, t, b), Only(t, u, b)
  PROVE  Only(s, u, b)
<1>1. SameView(s, u)
  BY SameViewTrans DEF Only
<1>2. PortsOf(t, b) = PortsOf(s, b)
  BY DEF Only, SameView, SameBr, PortsOf, List
<1> QED
  BY <1>1, <1>2 DEF Only

\* The same where no index changes.
LEMMA OnlyLibTrans ==
  ASSUME NEW s, NEW t, NEW u, NEW b \in Bridge,
         OnlyLib(s, t, b), OnlyLib(t, u, b)
  PROVE  OnlyLib(s, u, b)
BY OnlyTrans DEF OnlyLib

\* port_create: the port is new to the instance, and is given what the daemon
\* keeps for the port it finds by the number.
LEMMA PortCreateIs ==
  ASSUME NEW s, Typed(s), NEW b \in Bridge, NEW i \in PortNo,
         NEW out \in Outcome, i \notin DOMAIN Lib(s, b),
         FindPort(s, b, i) \in Device,
         NEW t, t = PortCreate(s, b, i, out)
  PROVE  /\ Typed(t) /\ OnlyLib(s, t, b)
         /\ \A j : j \in DOMAIN Lib(t, b) <=> j \in DOMAIN Lib(s, b) \/ j = i
         /\ \A j \in DOMAIN Lib(s, b) : Lib(t, b)[j].cfg = Lib(s, b)[j].cfg
         /\ Lib(t, b)[i].cfg = s.daemon.dev[FindPort(s, b, i)].cfg
<1> DEFINE old == s.daemon.stp[b].port
           cfg == s.daemon.dev[FindPort(s, b, i)].cfg
           port == [j \in DOMAIN old \cup {i} |->
                      IF j \in DOMAIN old THEN old[j]
                      ELSE [state |-> "Discarding", cfg |-> cfg]]
           r == [s EXCEPT !.daemon.stp[b].port = port]
           u == LibraryUpdate(r, b, out, PortNo)
<1>1. u = t
  BY DEF PortCreate, LibraryRestart, InitPortCfg, Typed, IsDaemon, IsInstance
<1>2. IsInstance(s.daemon.stp[b]) /\ IsCfg(cfg)
  BY DEF Typed, IsDaemon, IsDev
<1>3. /\ DOMAIN port = DOMAIN old \cup {i}
      /\ \A j \in DOMAIN old : port[j] = old[j]
      /\ i \notin DOMAIN old =>
           port[i] = [state |-> "Discarding", cfg |-> cfg]
  OBVIOUS
<1>4. old = Lib(s, b)
  BY DEF Lib
<1> HIDE DEF port, cfg
<1>5. IsInstance([cfg |-> s.daemon.stp[b].cfg, port |-> port])
  <2>1. \A j \in DOMAIN port :
          /\ DOMAIN port[j] = {"state", "cfg"}
          /\ port[j].state \in LibState
          /\ IsCfg(port[j].cfg)
    BY <1>2, <1>3, <1>4 DEF IsInstance, LibState
  <2> QED
    BY <1>2, <1>3, <2>1 DEF IsInstance
<1>6. Typed(r) /\ OnlyLib(s, r, b) /\ Lib(r, b) = port
  BY <1>5, PortsChange
<1> HIDE DEF r
<1>7. /\ Typed(u) /\ OnlyLib(r, u, b)
      /\ DOMAIN Lib(u, b) = DOMAIN Lib(r, b)
      /\ \A j \in DOMAIN Lib(r, b) : Lib(u, b)[j].cfg = Lib(r, b)[j].cfg
  BY <1>6, LibraryUpdateIs
<1> HIDE DEF u, old
<1>8. OnlyLib(s, u, b)
  BY <1>6, <1>7, OnlyLibTrans
<1> QED
  BY <1>1, <1>3, <1>4, <1>6, <1>7, <1>8 DEF cfg

\* port_delete: the instance has the port no more.
LEMMA PortDeleteIs ==
  ASSUME NEW s, Typed(s), NEW b \in Bridge, NEW i \in PortNo \cup {-1, 0},
         NEW out \in Outcome, NEW t, t = PortDelete(s, b, i, out)
  PROVE  /\ Typed(t) /\ OnlyLib(s, t, b)
         /\ \A j : j \in DOMAIN Lib(t, b) <=> j \in DOMAIN Lib(s, b) /\ j # i
         /\ \A j \in DOMAIN Lib(t, b) : Lib(t, b)[j].cfg = Lib(s, b)[j].cfg
<1> DEFINE old == s.daemon.stp[b].port
           port == [j \in DOMAIN old \ {i} |-> old[j]]
           r == [s EXCEPT !.daemon.stp[b].port = port]
           u == LibraryUpdate(r, b, out, PortNo)
<1>1. old = Lib(s, b)
  BY DEF Lib
<1>2. CASE i \notin DOMAIN old
  <2>1. t = s
    BY <1>2 DEF PortDelete
  <2>2. OnlyLib(s, s, b)
    BY DEF OnlyLib, Only, SameView, SameKernel, SameBr, SameDev
  <2> QED
    BY <1>1, <1>2, <2>1, <2>2
<1>3. CASE i \in DOMAIN old
  <2>1. u = t
    BY <1>3 DEF PortDelete, LibraryRestart, Typed, IsDaemon, IsInstance
  <2>2. IsInstance(s.daemon.stp[b])
    BY DEF Typed, IsDaemon
  <2>3. /\ DOMAIN port = DOMAIN old \ {i}
        /\ \A j \in DOMAIN port : port[j] = old[j]
    OBVIOUS
  <2> HIDE DEF port
  <2>4. IsInstance([cfg |-> s.daemon.stp[b].cfg, port |-> port])
    BY <2>2, <2>3 DEF IsInstance
  <2>5. Typed(r) /\ OnlyLib(s, r, b) /\ Lib(r, b) = port
    BY <2>4, PortsChange
  <2> HIDE DEF r
  <2>6. /\ Typed(u) /\ OnlyLib(r, u, b)
        /\ DOMAIN Lib(u, b) = DOMAIN Lib(r, b)
        /\ \A j \in DOMAIN Lib(r, b) : Lib(u, b)[j].cfg = Lib(r, b)[j].cfg
    BY <2>5, LibraryUpdateIs
  <2> HIDE DEF u, old
  <2>7. OnlyLib(s, u, b)
    BY <2>5, <2>6, OnlyLibTrans
  <2> QED
    BY <1>1, <2>1, <2>3, <2>5, <2>6, <2>7
<1> QED
  BY <1>2, <1>3

-----------------------------------------------------------------------------
(* Ports joining and leaving the protocol.                                 *)

\* Within the functions that start or stop the protocol for a bridge,
\* whether it runs is the same.
Within(s, t, b) ==
  /\ Only(s, t, b)
  /\ Runs(t, b) = Runs(s, b)
  /\ t.daemon.stp[b].cfg = s.daemon.stp[b].cfg

\* Two such calls in a row are one.
LEMMA WithinTrans ==
  ASSUME NEW s, NEW t, NEW u, NEW b \in Bridge, Within(s, t, b), Within(t, u, b)
  PROVE  Within(s, u, b)
BY OnlyTrans DEF Within

\* The number kept for a port changes.
LEMMA IndexChange ==
  ASSUME NEW s, Typed(s), NEW b \in Bridge, NEW d \in PortsOf(s, b),
         NEW i \in PortNo \cup {-1, 0}
  PROVE  LET t == [s EXCEPT !.daemon.dev[d].port_index = i] IN
         /\ Typed(t) /\ Within(s, t, b)
         /\ t.kernel = s.kernel /\ t.daemon.stp = s.daemon.stp
         /\ Index(t, d) = i
         /\ \A e \in Device \ {d} : Index(t, e) = Index(s, e)
<1> DEFINE p == [s.daemon.dev[d] EXCEPT !.port_index = i]
           m == [s.daemon EXCEPT !.dev = [@ EXCEPT ![d] = p]]
           t == [s EXCEPT !.daemon = m]
<1>1. d \in Device
  BY DEF Typed, IsDaemon, IsBr, PortsOf, List, Range
<1>2. DOMAIN s = {"kernel", "daemon"} /\ "dev" \in DOMAIN s.daemon
      /\ d \in DOMAIN s.daemon.dev
      /\ DOMAIN s.daemon.dev[d] = {"up", "master", "port_index", "cfg"}
  BY <1>1 DEF Typed, IsDaemon, IsDev
<1>3. t = [s EXCEPT !.daemon.dev[d].port_index = i]
  BY <1>2
<1>4. /\ IsDev(p) /\ p.port_index = i
      /\ p.up = s.daemon.dev[d].up /\ p.master = s.daemon.dev[d].master
      /\ p.cfg = s.daemon.dev[d].cfg
  BY <1>1, <1>2 DEF Typed, IsDaemon, IsDev
<1> HIDE DEF p
<1>5. /\ DOMAIN m = DOMAIN s.daemon
      /\ m.known = s.daemon.known /\ m.stp_up = s.daemon.stp_up
      /\ m.br = s.daemon.br /\ m.stp = s.daemon.stp
      /\ DOMAIN m.dev = Device /\ m.dev[d] = p
      /\ \A e \in Device \ {d} : m.dev[e] = s.daemon.dev[e]
  BY <1>2 DEF Typed, IsDaemon
<1> HIDE DEF m
<1>6. IsDaemon(m)
  BY <1>4, <1>5 DEF Typed, IsDaemon
<1>7. t.kernel = s.kernel /\ t.daemon = m /\ DOMAIN t = {"kernel", "daemon"}
  BY <1>2
<1> HIDE DEF t
<1>8. Typed(t)
  BY <1>6, <1>7 DEF Typed
<1>9. Within(s, t, b)
  BY <1>4, <1>5, <1>7 DEF Within, Only, SameView, SameKernel, SameBr,
     SameDev, Runs, Index
<1> QED
  BY <1>3, <1>4, <1>5, <1>7, <1>8, <1>9 DEF Index

\* What the kernel says of the number of a port.
LEMMA PortnoIs ==
  ASSUME NEW s, Typed(s), NEW d \in Device
  PROVE  /\ GetBridgePortno(s, d) \in PortNo \cup {-1}
         /\ GetBridgePortno(s, d) >= 0 <=> GetBridgePortno(s, d) \in PortNo
<1>1. NoBridge \notin Bridge /\ PortNo \subseteq Nat \ {0}
  BY InterfaceAssumption DEF PortNo
<1>2. s.kernel.member[d] # NoBridge => s.kernel.port_no[d] \in PortNo
  BY DEF Typed, IsKernel
<1>3. CASE s.kernel.member[d] = NoBridge
  <2>1. GetBridgePortno(s, d) = -1
    BY <1>3 DEF GetBridgePortno
  <2>2. -1 \notin PortNo
    BY <1>1
  <2> QED
    BY <2>1, <2>2
<1>4. CASE s.kernel.member[d] # NoBridge
  <2>1. GetBridgePortno(s, d) = s.kernel.port_no[d]
    BY <1>4 DEF GetBridgePortno
  <2>2. \A n \in PortNo : n >= 0
    BY <1>1
  <2> QED
    BY <1>2, <1>4, <2>1, <2>2
<1> QED
  BY <1>3, <1>4

\* add_port_stp: the port is given the number the kernel has for it, and the
\* library a port of this number, unless it has one.
LEMMA AddPortStpIs ==
  ASSUME NEW s, Typed(s), NEW b \in Bridge, NEW d \in PortsOf(s, b),
         Master(s, d) = b, NEW out \in Outcome
  PROVE  LET t == AddPortStp(s, d, out)
             i == Index(t, d)
             list == List(s, b)
         IN
         /\ Typed(t) /\ Within(s, t, b)
         /\ \A e \in Device \ {d} : Index(t, e) = Index(s, e)
         /\ CanAddPort(s, d) =>
              /\ i \in PortNo /\ i \notin DOMAIN Lib(s, b)
              /\ \A j : j \in DOMAIN Lib(t, b) <=> j \in DOMAIN Lib(s, b) \/ j = i
              /\ \A j \in DOMAIN Lib(s, b) :
                   Lib(t, b)[j].cfg = Lib(s, b)[j].cfg
              /\ \A n \in DOMAIN list :
                   (/\ list[n] = d
                    /\ \A m \in DOMAIN list :
                         m < n => list[m] # d /\ Index(s, list[m]) # i)
                   => Lib(t, b)[i].cfg = s.daemon.dev[d].cfg
         /\ ~CanAddPort(s, d) =>
              /\ Lib(t, b) = Lib(s, b)
              /\ i \notin PortNo \/ i \in DOMAIN Lib(s, b)
<1> DEFINE j == GetBridgePortno(s, d)
           r == [s EXCEPT !.daemon.dev[d].port_index = j]
           t == AddPortStp(s, d, out)
           list == List(s, b)
<1>1. d \in Device
  BY DEF Typed, IsDaemon, IsBr, PortsOf, List, Range
<1>2. j \in PortNo \cup {-1} /\ (j >= 0 <=> j \in PortNo)
  BY <1>1, PortnoIs
<1>3. CanAddPort(s, d) <=> j \in PortNo /\ j \notin DOMAIN Lib(s, b)
  BY <1>2 DEF CanAddPort, Lib, Master
<1>4. t = IF CanAddPort(s, d) THEN PortCreate(r, b, j, out) ELSE r
  BY DEF AddPortStp, Master
<1> HIDE DEF j, t
<1>5. /\ Typed(r) /\ Within(s, r, b)
      /\ r.kernel = s.kernel /\ r.daemon.stp = s.daemon.stp
      /\ Index(r, d) = j
      /\ \A e \in Device \ {d} : Index(r, e) = Index(s, e)
  BY <1>2, IndexChange DEF Master
<1> HIDE DEF r
<1>6. Lib(r, b) = Lib(s, b)
  BY <1>5 DEF Lib
<1>7. List(r, b) = list /\ list \in Seq(Device)
  BY <1>5 DEF Within, Only, SameView, SameBr, List, Typed, IsDaemon, IsBr
<1>8. CASE ~CanAddPort(s, d)
  BY <1>3, <1>4, <1>5, <1>6, <1>8 DEF t
<1>9. CASE CanAddPort(s, d)
  <2>1. j \in PortNo /\ j \notin DOMAIN Lib(r, b)
    BY <1>3, <1>6, <1>9
  <2>2. \/ /\ FindPort(r, b, j) = NoDevice
           /\ \A n \in DOMAIN list : Index(r, list[n]) # j
        \/ \E n \in DOMAIN list :
             /\ FindPort(r, b, j) = list[n]
             /\ Index(r, list[n]) = j
             /\ \A m \in DOMAIN list : m < n => Index(r, list[m]) # j
    BY <1>7, FindPortIs
  <2>3. \A n \in DOMAIN list : list[n] \in Device
    BY <1>7
  <2>4. \E n \in DOMAIN list : list[n] = d
    BY DEF PortsOf, Range
  <2>5. PICK n \in DOMAIN list :
          /\ FindPort(r, b, j) = list[n]
          /\ Index(r, list[n]) = j
          /\ \A m \in DOMAIN list : m < n => Index(r, list[m]) # j
    BY <1>5, <2>2, <2>4
  <2>6. FindPort(r, b, j) \in Device
    BY <2>3, <2>5
  <2>7. /\ Typed(t) /\ OnlyLib(r, t, b)
        /\ \A k : k \in DOMAIN Lib(t, b) <=> k \in DOMAIN Lib(r, b) \/ k = j
        /\ \A k \in DOMAIN Lib(r, b) : Lib(t, b)[k].cfg = Lib(r, b)[k].cfg
        /\ Lib(t, b)[j].cfg = r.daemon.dev[FindPort(r, b, j)].cfg
    BY <1>4, <1>5, <1>9, <2>1, <2>6, PortCreateIs
  <2>8. Index(t, d) = j /\ \A e \in Device \ {d} : Index(t, e) = Index(s, e)
    BY <1>1, <1>5, <2>7 DEF OnlyLib
  <2>9. Within(r, t, b)
    BY <2>7 DEF OnlyLib, Within
  <2>10. Within(s, t, b)
    BY <1>5, <2>9, WithinTrans
  <2>11. ASSUME NEW k \in DOMAIN list, list[k] = d,
                \A m \in DOMAIN list :
                  m < k => list[m] # d /\ Index(s, list[m]) # j
         PROVE  Lib(t, b)[j].cfg = s.daemon.dev[d].cfg
    <3>1. ~(k < n)
      BY <1>5, <2>5, <2>11
    <3>2. ~(n < k)
      BY <1>5, <2>3, <2>5, <2>11
    <3>3. n = k
      BY <1>7, <3>1, <3>2
    <3>4. r.daemon.dev[d].cfg = s.daemon.dev[d].cfg
      BY <1>1, <1>5 DEF Within, Only, SameView, SameDev
    <3> QED
      BY <2>5, <2>7, <2>11, <3>3, <3>4
  <2>12. \A k \in DOMAIN Lib(s, b) : Lib(t, b)[k].cfg = Lib(s, b)[k].cfg
    BY <1>6, <2>7
  <2> QED
    BY <1>3, <1>6, <1>9, <2>1, <2>7, <2>8, <2>10, <2>11, <2>12 DEF t
<1> QED
  BY <1>8, <1>9

\* remove_port_stp: the library has no port of this number any more.
LEMMA RemovePortStpIs ==
  ASSUME NEW s, Typed(s), NEW b \in Bridge, NEW d \in PortsOf(s, b),
         Master(s, d) = b, NEW out \in Outcome
  PROVE  LET t == RemovePortStp(s, d, out) IN
         /\ Typed(t) /\ Within(s, t, b)
         /\ Index(t, d) = -1
         /\ \A e \in Device \ {d} : Index(t, e) = Index(s, e)
         /\ \A j : j \in DOMAIN Lib(t, b) <=>
                j \in DOMAIN Lib(s, b) /\ j # Index(s, d)
         /\ \A j \in DOMAIN Lib(t, b) : Lib(t, b)[j].cfg = Lib(s, b)[j].cfg
<1> DEFINE i == Index(s, d)
           r == PortDelete(s, b, i, out)
           t == [r EXCEPT !.daemon.dev[d].port_index = -1]
<1>1. t = RemovePortStp(s, d, out)
  BY DEF RemovePortStp, Index, Master
<1>2. d \in Device
  BY DEF Typed, IsDaemon, IsBr, PortsOf, List, Range
<1>3. /\ Typed(r) /\ OnlyLib(s, r, b)
      /\ \A j : j \in DOMAIN Lib(r, b) <=> j \in DOMAIN Lib(s, b) /\ j # i
      /\ \A j \in DOMAIN Lib(r, b) : Lib(r, b)[j].cfg = Lib(s, b)[j].cfg
  <2>1. r = PortDelete(s, b, i, out)
    OBVIOUS
  <2>2. i \in PortNo \cup {-1, 0}
    BY <1>2 DEF Typed, IsDaemon, IsDev, Index
  <2> HIDE DEF r, i
  <2> QED
    BY <2>1, <2>2, PortDeleteIs
<1> HIDE DEF r
<1>4. d \in PortsOf(r, b)
  BY <1>3 DEF OnlyLib, Only, SameView, SameBr, PortsOf, List
<1>5. /\ Typed(t) /\ Within(r, t, b)
      /\ t.daemon.stp = r.daemon.stp
      /\ Index(t, d) = -1
      /\ \A e \in Device \ {d} : Index(t, e) = Index(r, e)
  BY <1>3, <1>4, IndexChange
<1> HIDE DEF t
<1>6. Within(s, r, b) /\ \A e \in Device : Index(r, e) = Index(s, e)
  BY <1>3 DEF OnlyLib, Within
<1>7. Within(s, t, b)
  BY <1>5, <1>6, WithinTrans
<1>8. Lib(t, b) = Lib(r, b)
  BY <1>5 DEF Lib
<1> QED
  BY <1>1, <1>3, <1>5, <1>6, <1>7, <1>8

-----------------------------------------------------------------------------
(* Starting and stopping the protocol for a bridge.                        *)

\* A bridge is given another instance.
LEMMA InstanceChange ==
  ASSUME NEW s, Typed(s), NEW b \in Bridge, NEW i, IsInstance(i)
  PROVE  LET t == [s EXCEPT !.daemon.stp[b] = i] IN
         /\ Typed(t) /\ Only(s, t, b)
         /\ Runs(t, b) = Runs(s, b) /\ t.daemon.stp[b] = i
         /\ \A d \in Device : Index(t, d) = Index(s, d)
<1> DEFINE m == [s.daemon EXCEPT !.stp = [@ EXCEPT ![b] = i]]
           t == [s EXCEPT !.daemon = m]
<1>1. DOMAIN s = {"kernel", "daemon"} /\ "stp" \in DOMAIN s.daemon
      /\ b \in DOMAIN s.daemon.stp
  BY DEF Typed, IsDaemon
<1>2. t = [s EXCEPT !.daemon.stp[b] = i]
  BY <1>1
<1>3. /\ DOMAIN m = DOMAIN s.daemon
      /\ m.known = s.daemon.known /\ m.stp_up = s.daemon.stp_up
      /\ m.br = s.daemon.br /\ m.dev = s.daemon.dev
      /\ DOMAIN m.stp = Bridge /\ m.stp[b] = i
      /\ \A c \in Bridge \ {b} : m.stp[c] = s.daemon.stp[c]
  BY <1>1 DEF Typed, IsDaemon
<1> HIDE DEF m
<1>4. IsDaemon(m)
  BY <1>3 DEF Typed, IsDaemon
<1>5. t.kernel = s.kernel /\ t.daemon = m /\ DOMAIN t = {"kernel", "daemon"}
  BY <1>1
<1> HIDE DEF t
<1>6. Typed(t)
  BY <1>4, <1>5 DEF Typed
<1>7. Only(s, t, b)
  BY <1>3, <1>5 DEF Only, SameView, SameKernel, SameBr, SameDev, Runs, Index
<1> QED
  BY <1>2, <1>3, <1>5, <1>6, <1>7 DEF Runs, Index

\* The daemon's record of a bridge is replaced.
Recorded(s, b, r) == [s EXCEPT !.daemon.br[b] = r]

\* As far as types go.
LEMMA BridgeChanges ==
  ASSUME NEW s, Typed(s), NEW b \in Bridge, NEW r, IsBr(r),
         NEW t, t = Recorded(s, b, r)
  PROVE  /\ Typed(t)
         /\ t.kernel = s.kernel
         /\ t.daemon.known = s.daemon.known
         /\ t.daemon.stp_up = s.daemon.stp_up
         /\ t.daemon.dev = s.daemon.dev /\ t.daemon.stp = s.daemon.stp
         /\ t.daemon.br[b] = r
         /\ \A c \in Bridge \ {b} : t.daemon.br[c] = s.daemon.br[c]
<1> DEFINE m == [s.daemon EXCEPT !.br = [@ EXCEPT ![b] = r]]
           u == [s EXCEPT !.daemon = m]
<1>1. DOMAIN s = {"kernel", "daemon"} /\ "br" \in DOMAIN s.daemon
      /\ b \in DOMAIN s.daemon.br
  BY DEF Typed, IsDaemon
<1>2. u = t
  BY <1>1 DEF Recorded
<1>3. /\ DOMAIN m = DOMAIN s.daemon
      /\ m.known = s.daemon.known /\ m.stp_up = s.daemon.stp_up
      /\ m.stp = s.daemon.stp /\ m.dev = s.daemon.dev
      /\ DOMAIN m.br = Bridge /\ m.br[b] = r
      /\ \A c \in Bridge \ {b} : m.br[c] = s.daemon.br[c]
  BY <1>1 DEF Typed, IsDaemon
<1> HIDE DEF m
<1>4. IsDaemon(m)
  BY <1>3 DEF Typed, IsDaemon
<1>5. u.kernel = s.kernel /\ u.daemon = m /\ DOMAIN u = {"kernel", "daemon"}
  BY <1>1
<1> HIDE DEF u
<1> QED
  BY <1>2, <1>3, <1>4, <1>5 DEF Typed

\* The protocol is marked as running, or not, for a bridge.
LEMMA StpUpChange ==
  ASSUME NEW s, Typed(s), NEW b \in Bridge, NEW up \in BOOLEAN,
         NEW t, t = [s EXCEPT !.daemon.br[b].stp_up = up]
  PROVE  /\ Typed(t) /\ Only(s, t, b)
         /\ Runs(t, b) = up /\ t.daemon.stp = s.daemon.stp
         /\ \A d \in Device : Index(t, d) = Index(s, d)
<1> DEFINE r == [s.daemon.br[b] EXCEPT !.stp_up = up]
           u == Recorded(s, b, r)
<1>1. DOMAIN s = {"kernel", "daemon"} /\ "br" \in DOMAIN s.daemon
      /\ b \in DOMAIN s.daemon.br /\ IsBr(s.daemon.br[b])
  BY DEF Typed, IsDaemon
<1>2. u = t
  BY <1>1 DEF Recorded
<1>3. /\ IsBr(r) /\ r.stp_up = up
      /\ r.up = s.daemon.br[b].up /\ r.do_stp = s.daemon.br[b].do_stp
      /\ r.port_list = s.daemon.br[b].port_list
      /\ r.cfg = s.daemon.br[b].cfg
  BY <1>1 DEF IsBr
<1> HIDE DEF r
<1>4. /\ Typed(u)
      /\ u.kernel = s.kernel
      /\ u.daemon.known = s.daemon.known
      /\ u.daemon.stp_up = s.daemon.stp_up
      /\ u.daemon.dev = s.daemon.dev /\ u.daemon.stp = s.daemon.stp
      /\ u.daemon.br[b] = r
      /\ \A c \in Bridge \ {b} : u.daemon.br[c] = s.daemon.br[c]
  BY <1>3, BridgeChanges
<1> HIDE DEF u
<1>5. Only(s, t, b)
  BY <1>2, <1>3, <1>4 DEF Only, SameView, SameKernel, SameBr, SameDev, Runs, Index
<1> QED
  BY <1>2, <1>3, <1>4, <1>5 DEF Runs, Index

\* The ports of a bridge have it as their master.
Mastered(s, b) == \A d \in PortsOf(s, b) : Master(s, d) = b

\* Calls of the library leave the list of a bridge and its masters alone.
LEMMA MasteredKept ==
  ASSUME NEW s, Typed(s), NEW t, NEW b \in Bridge, Only(s, t, b), Mastered(s, b)
  PROVE  Mastered(t, b) /\ PortsOf(t, b) = PortsOf(s, b)
<1>1. PortsOf(t, b) = PortsOf(s, b)
  BY DEF Only, SameView, SameBr, PortsOf, List
<1>2. PortsOf(s, b) \subseteq Device
  BY DEF Typed, IsDaemon, IsBr, PortsOf, List, Range
<1> QED
  BY <1>1, <1>2 DEF Only, SameView, SameDev, Mastered, Master

\* remove_ports_stp walks the list from its head.
Latest(S) == Max(S)
RemoveNth(ports, out, n, s) == RemovePortStp(s, ports[n], out)
Removing == INSTANCE Folding WITH Step <- RemoveNth, Pick <- Latest

\* The last index of a set of them is one of them.
LEMMA LatestIs ==
  ASSUME NEW n \in Nat, NEW S \in SUBSET (1 .. n), S # {}
  PROVE  Latest(S) \in S /\ \A m \in S : m <= Latest(S)
<1> DEFINE R == {k \in 0 .. n : n - k \in S}
<1>1. R \subseteq Nat /\ R # {}
  <2>1. PICK m \in S : TRUE
    OBVIOUS
  <2>2. n - m \in 0 .. n /\ n - (n - m) = m
    BY <2>1
  <2>3. n - m \in R
    BY <2>1, <2>2
  <2>4. R \subseteq Nat
    OBVIOUS
  <2> HIDE DEF R
  <2> QED
    BY <2>3, <2>4
<1>2. PICK k \in R : \A j \in R : k <= j
  <2> HIDE DEF R
  <2>1. Min(R) \in R /\ \A j \in R : Min(R) <= j
    BY <1>1, MinIs
  <2> QED
    BY <2>1
<1>3. \A m \in S : m <= n - k
  <2> SUFFICES ASSUME NEW m \in S
               PROVE  m <= n - k
    OBVIOUS
  <2>1. n - m \in 0 .. n /\ n - (n - m) = m /\ m \in Int
    OBVIOUS
  <2>2. n - m \in R
    BY <2>1
  <2>3. k <= n - m
    BY <1>2, <2>2
  <2> QED
    BY <1>2, <2>1, <2>3
<1>4. \E x \in S : \A m \in S : m <= x
  BY <1>2, <1>3
<1> QED
  BY <1>4 DEF Latest, Max

\* remove_port_stp of each port of a list in turn: of the bridge, only
\* the ports the library has, and their numbers, change.
LEMMA RemovePortsStpIs ==
  ASSUME NEW s, Typed(s), NEW b \in Bridge, Mastered(s, b),
         NEW ports \in Seq(Device), Range(ports) \subseteq PortsOf(s, b),
         NEW out \in Outcome,
         NEW t, t = RemovePortsStp(s, ports, out)
  PROVE  Typed(t) /\ Within(s, t, b)
<1> DEFINE S == DOMAIN ports
<1>1. S = 1 .. Len(ports) /\ Len(ports) \in Nat
  OBVIOUS
<1>2. t = Removing!Folded(ports, out, s, S)
  BY DEF RemovePortsStp, FoldLeft, MapThenFoldSet, Removing!Folded,
     RemoveNth, Latest
<1> HIDE DEF S
<1>3. Removing!IsFiniteSet(S)
  <2>1. IsFiniteSet(S)
    BY <1>1, FS_Interval
  <2> QED
    BY <2>1 DEF IsFiniteSet, Removing!IsFiniteSet
<1>4. \A x \in SUBSET S : x # {} => Latest(x) \in x
  BY <1>1, LatestIs
<1>5. PICK f : Removing!Traces(ports, out, s, S, f)
  BY <1>3, <1>4, Removing!FoldTrace
<1> DEFINE T == {x \in SUBSET S : Typed(f[x]) /\ Within(s, f[x], b)}
<1>6. {} \in T
  <2>1. Within(s, s, b)
    BY DEF Within, Only, SameView, SameKernel, SameBr, SameDev
  <2> QED
    BY <1>5, <2>1 DEF Removing!Traces
<1>7. ASSUME NEW x \in SUBSET S, x # {}
      PROVE  \E n \in x : Removing!Rest(x, n) \in T => x \in T
  <2> DEFINE n == Latest(x)
             y == Removing!Rest(x, n)
  <2>1. n \in x /\ f[x] = RemovePortStp(f[y], ports[n], out)
    BY <1>5, <1>7 DEF RemoveNth, Removing!Traces
  <2> HIDE DEF n
  <2> SUFFICES ASSUME y \in T
               PROVE  x \in T
    BY <2>1
  <2> DEFINE r == f[y]
  <2>2. Typed(r) /\ Within(s, r, b)
    OBVIOUS
  <2> HIDE DEF y, r
  <2>3. Mastered(r, b) /\ PortsOf(r, b) = PortsOf(s, b)
    BY <2>2, MasteredKept DEF Within
  <2>4. ports[n] \in PortsOf(s, b)
    BY <1>1, <2>1 DEF S, Range
  <2>5. Typed(f[x]) /\ Within(r, f[x], b)
    BY <2>1, <2>2, <2>3, <2>4, RemovePortStpIs DEF Mastered, r
  <2> QED
    BY <2>2, <2>5, WithinTrans
<1> HIDE DEF T
<1>8. S \in T
  BY <1>3, <1>6, <1>7, Removing!SubsetInduction
<1> QED
  BY <1>2, <1>5, <1>8 DEF T, Removing!Traces

\* clear_bridge_stp: the bridge is left without the protocol and without
\* ports in the library.
LEMMA ClearBridgeStpIs ==
  ASSUME NEW s, Typed(s), NEW b \in Bridge, Mastered(s, b),
         NEW out \in Outcome, NEW t, t = ClearBridgeStp(s, b, out)
  PROVE  /\ Typed(t) /\ Only(s, t, b)
         /\ ~Runs(t, b)
         /\ Runs(s, b) => t.daemon.stp[b] = NoInstance
         /\ ~Runs(s, b) => t = s
<1>1. CASE ~Runs(s, b)
  <2>1. t = s
    BY <1>1 DEF ClearBridgeStp, Runs
  <2>2. Only(s, s, b)
    BY DEF Only, SameView, SameKernel, SameBr, SameDev
  <2> QED
    BY <1>1, <2>1, <2>2
<1>2. CASE Runs(s, b)
  <2> DEFINE down == [s EXCEPT !.daemon.br[b].stp_up = FALSE]
             bare == RemovePortsStp(down, List(s, b), out)
  <2>1. t = ClearRstplibInstance(bare, b)
    BY <1>2 DEF ClearBridgeStp, Runs, List
  <2>2. Typed(down) /\ Only(s, down, b) /\ ~Runs(down, b)
    BY StpUpChange
  <2> HIDE DEF down
  <2>3. Mastered(down, b) /\ PortsOf(down, b) = PortsOf(s, b)
    BY <2>2, MasteredKept
  <2>4. List(s, b) \in Seq(Device) /\ Range(List(s, b)) = PortsOf(s, b)
    BY DEF Typed, IsDaemon, IsBr, List, PortsOf
  <2>5. Typed(bare) /\ Within(down, bare, b)
    <3>1. bare = RemovePortsStp(down, List(s, b), out)
      OBVIOUS
    <3> HIDE DEF bare
    <3> QED
      BY <2>2, <2>3, <2>4, <3>1, RemovePortsStpIs
  <2> HIDE DEF bare
  <2>6. IsInstance(NoInstance)
    BY DEF IsInstance, NoInstance
  <2>7. t = [bare EXCEPT !.daemon.stp[b] = NoInstance]
    BY <2>1 DEF ClearRstplibInstance
  <2>8. /\ Typed(t) /\ Only(bare, t, b) /\ Runs(t, b) = Runs(bare, b)
        /\ t.daemon.stp[b] = NoInstance
    BY <2>5, <2>6, <2>7, InstanceChange
  <2>9. Only(s, t, b)
    BY <2>2, <2>5, <2>8, OnlyTrans DEF Within
  <2> QED
    BY <1>2, <2>2, <2>5, <2>8, <2>9 DEF Within
<1> QED
  BY <1>1, <1>2

-----------------------------------------------------------------------------
(* What holds of each bridge between two calls.                            *)

\* No other port of the bridge has the number of this one.
Alone(s, b, d) == \A e \in PortsOf(s, b) : e # d => Index(s, e) # Index(s, d)

\* A field of a port's configuration is set by a command of its own: what the
\* library has taken of a configuration that it refuses is then nothing.
OneField == \A c \in PortCfgs : BadPrio(c) => DOMAIN c = {"prio"}

LibFits(s, b) ==
  /\ ~Runs(s, b) => \A i : i \notin DOMAIN Lib(s, b)
  /\ \A i \in DOMAIN Lib(s, b) : \E d \in PortsOf(s, b) : Index(s, d) = i

CfgsKept(s, b) ==
  Runs(s, b) =>
    /\ s.daemon.stp[b].cfg = s.daemon.br[b].cfg
    /\ \A d \in PortsOf(s, b) :
         Index(s, d) \in DOMAIN Lib(s, b) /\ Alone(s, b, d) =>
           s.daemon.dev[d].cfg = Lib(s, b)[Index(s, d)].cfg

LibOK(s, b) == LibFits(s, b) /\ (OneField => CfgsKept(s, b))

\* init_bridge_stp walks the list from its head, too.
AddNth(ports, out, n, acc) ==
  IF acc.failed THEN acc
  ELSE [s |-> AddPortStp(acc.s, ports[n], out),
        failed |-> ~CanAddPort(acc.s, ports[n]),
        added |-> IF CanAddPort(acc.s, ports[n])
                  THEN Append(acc.added, ports[n]) ELSE acc.added]
Adding == INSTANCE Folding WITH Step <- AddNth, Pick <- Latest

\* The ports so far have been added, each with a number of its own, and no
\* others have, or one could not be.
Added(s, b, x, acc) ==
  /\ Typed(acc.s) /\ Within(s, acc.s, b)
  /\ acc.failed \in BOOLEAN
  /\ acc.added \in Seq(Device) /\ Range(acc.added) \subseteq PortsOf(s, b)
  /\ ~acc.failed =>
       /\ \A j \in DOMAIN Lib(acc.s, b) :
            \E n \in x : Index(acc.s, List(s, b)[n]) = j
       /\ \A n \in x :
            LET i == Index(acc.s, List(s, b)[n]) IN
            /\ i \in DOMAIN Lib(acc.s, b)
            /\ Lib(acc.s, b)[i].cfg = s.daemon.dev[List(s, b)[n]].cfg

\* One more port of the list is added.
LEMMA AddNthIs ==
  ASSUME NEW s, Typed(s), NEW b \in Bridge, Mastered(s, b),
         IsInjective(List(s, b)), NEW out \in Outcome,
         NEW n \in DOMAIN List(s, b),
         NEW x, x \subseteq DOMAIN List(s, b), n \notin x,
         \A m \in DOMAIN List(s, b) : m < n => m \in x,
         NEW y, \A m : m \in y <=> m \in x \/ m = n,
         NEW acc, Added(s, b, x, acc)
  PROVE  Added(s, b, y, AddNth(List(s, b), out, n, acc))
<1> DEFINE list == List(s, b)
           d == list[n]
           r == acc.s
           t == AddPortStp(r, d, out)
           i == Index(t, d)
           can == CanAddPort(r, d)
           end == AddNth(list, out, n, acc)
<1>1. CASE acc.failed
  <2>1. end = acc
    BY <1>1 DEF AddNth
  <2> QED
    BY <1>1, <2>1 DEF Added
<1>2. CASE ~acc.failed
  <2> SUFFICES Added(s, b, y, end)
    OBVIOUS
  <2>1. /\ end.s = t /\ end.failed = ~can
        /\ end.added = IF can THEN Append(acc.added, d) ELSE acc.added
    BY <1>2 DEF AddNth
  <2> HIDE DEF end
  <2>2. Typed(r) /\ Within(s, r, b)
    BY DEF Added
  <2> HIDE DEF r
  <2>3. Mastered(r, b) /\ PortsOf(r, b) = PortsOf(s, b) /\ List(r, b) = list
    BY <2>2, MasteredKept DEF Within, Only, SameView, SameBr, List
  <2>4. list \in Seq(Device) /\ PortsOf(s, b) = Range(list)
    BY DEF Typed, IsDaemon, IsBr, List, PortsOf
  <2>5. d \in PortsOf(s, b) /\ d \in Device
    BY <2>4 DEF Range
  <2>6. \A m \in DOMAIN list : m # n => list[m] # d /\ list[m] \in Device
    BY <2>4 DEF IsInjective
  <2> HIDE DEF list, d, can
  <2>7. /\ Typed(t) /\ Within(r, t, b)
        /\ \A e \in Device \ {d} : Index(t, e) = Index(r, e)
        /\ can =>
             /\ i \in PortNo /\ i \notin DOMAIN Lib(r, b)
             /\ \A j : j \in DOMAIN Lib(t, b) <=>
                         j \in DOMAIN Lib(r, b) \/ j = i
             /\ \A j \in DOMAIN Lib(r, b) :
                  Lib(t, b)[j].cfg = Lib(r, b)[j].cfg
             /\ \A k \in DOMAIN list :
                  (/\ list[k] = d
                   /\ \A m \in DOMAIN list :
                        m < k => list[m] # d /\ Index(r, list[m]) # i)
                  => Lib(t, b)[i].cfg = r.daemon.dev[d].cfg
    BY <2>2, <2>3, <2>5, AddPortStpIs DEF Mastered, can
  <2> HIDE DEF t
  <2>8. Within(s, t, b)
    BY <2>2, <2>7, WithinTrans
  <2>9. end.added \in Seq(Device) /\ Range(end.added) \subseteq PortsOf(s, b)
    <3>1. acc.added \in Seq(Device) /\ Range(acc.added) \subseteq PortsOf(s, b)
      BY DEF Added
    <3>2. CASE can
      <4>1. end.added = Append(acc.added, d)
        BY <2>1, <3>2
      <4>2. end.added \in Seq(Device)
        BY <2>5, <3>1, <4>1
      <4>3. \A k \in DOMAIN end.added :
              end.added[k] = d \/ \E j \in DOMAIN acc.added :
                                    acc.added[j] = end.added[k]
        BY <2>5, <3>1, <4>1
      <4> QED
        BY <2>5, <3>1, <4>2, <4>3 DEF Range
    <3>3. CASE ~can
      BY <2>1, <3>1, <3>3
    <3> QED
      BY <3>2, <3>3
  <2>10. CASE ~can
    BY <2>1, <2>7, <2>8, <2>9, <2>10 DEF Added
  <2>11. CASE can
    <3>1. /\ \A j \in DOMAIN Lib(r, b) : \E m \in x : Index(r, list[m]) = j
          /\ \A m \in x :
               /\ Index(r, list[m]) \in DOMAIN Lib(r, b)
               /\ Lib(r, b)[Index(r, list[m])].cfg
                    = s.daemon.dev[list[m]].cfg
      BY <1>2 DEF Added, list, r
    <3>2. \A m \in x : list[m] # d /\ Index(t, list[m]) = Index(r, list[m])
                       /\ m \in DOMAIN list
      BY <2>6, <2>7 DEF list
    <3>3. \A j \in DOMAIN Lib(t, b) : \E m \in y : Index(t, list[m]) = j
      <4> SUFFICES ASSUME NEW j \in DOMAIN Lib(t, b)
                   PROVE  \E m \in y : Index(t, list[m]) = j
        OBVIOUS
      <4>1. CASE j = i
        BY <4>1 DEF d
      <4>2. CASE j # i
        <5>1. PICK m \in x : Index(r, list[m]) = j
          BY <2>7, <2>11, <3>1, <4>2
        <5> QED
          BY <3>2, <5>1
      <4> QED
        BY <4>1, <4>2
    <3>4. Lib(t, b)[i].cfg = s.daemon.dev[d].cfg
      <4>1. \A m \in DOMAIN list : m < n => list[m] # d /\ Index(r, list[m]) # i
        BY <2>7, <2>11, <3>1, <3>2 DEF list
      <4>2. Lib(t, b)[i].cfg = r.daemon.dev[d].cfg
        BY <2>7, <2>11, <4>1 DEF d, list
      <4> QED
        BY <2>2, <2>5, <4>2 DEF Within, Only, SameView, SameDev
    <3>5. \A m \in y :
            /\ Index(t, list[m]) \in DOMAIN Lib(t, b)
            /\ Lib(t, b)[Index(t, list[m])].cfg = s.daemon.dev[list[m]].cfg
      <4> SUFFICES ASSUME NEW m \in y
                   PROVE  /\ Index(t, list[m]) \in DOMAIN Lib(t, b)
                          /\ Lib(t, b)[Index(t, list[m])].cfg
                               = s.daemon.dev[list[m]].cfg
        OBVIOUS
      <4>1. CASE m = n
        BY <2>7, <2>11, <3>4, <4>1 DEF d
      <4>2. CASE m \in x
        BY <2>7, <2>11, <3>1, <3>2, <4>2
      <4> QED
        BY <4>1, <4>2
    <3> QED
      BY <2>1, <2>7, <2>8, <2>9, <2>11, <3>3, <3>5 DEF Added, list
  <2> QED
    BY <2>10, <2>11
<1> QED
  BY <1>1, <1>2

\* The whole list is walked.
LEMMA AddAllIs ==
  ASSUME NEW s, Typed(s), NEW b \in Bridge, Mastered(s, b),
         IsInjective(List(s, b)), NEW out \in Outcome,
         NEW base, Added(s, b, {}, base),
         NEW end, end = Adding!Folded(List(s, b), out, base, DOMAIN List(s, b))
  PROVE  Added(s, b, DOMAIN List(s, b), end)
<1> DEFINE list == List(s, b)
           S == DOMAIN list
<1>1. list \in Seq(Device)
  BY DEF Typed, IsDaemon, IsBr, List
<1>2. S = 1 .. Len(list) /\ Len(list) \in Nat
  BY <1>1
<1> HIDE DEF S, list
<1>3. Adding!IsFiniteSet(S)
  <2>1. IsFiniteSet(S)
    BY <1>2, FS_Interval
  <2> QED
    BY <2>1 DEF IsFiniteSet, Adding!IsFiniteSet
<1>4. \A x \in SUBSET S : x # {} => Latest(x) \in x
  BY <1>2, LatestIs
<1>5. PICK f : Adding!Traces(list, out, base, S, f)
  BY <1>3, <1>4, Adding!FoldTrace
<1> DEFINE Closed(x) == \A n \in x : \A m \in S : m < n => m \in x
           T == {x \in SUBSET S : Closed(x) => Added(s, b, x, f[x])}
<1>6. {} \in T
  BY <1>5 DEF Adding!Traces
<1>7. ASSUME NEW x \in SUBSET S, x # {}
      PROVE  \E n \in x : Adding!Rest(x, n) \in T => x \in T
  <2> DEFINE n == Latest(x)
             y == Adding!Rest(x, n)
  <2>1. n \in x /\ f[x] = AddNth(list, out, n, f[y])
    BY <1>5, <1>7 DEF Adding!Traces
  <2>2. \A m \in x : m <= n
    BY <1>2, <1>7, LatestIs
  <2>3. \A m : m \in y <=> m \in x /\ m # n
    BY DEF Adding!Rest
  <2> HIDE DEF n, y
  <2> SUFFICES ASSUME y \in T, Closed(x)
               PROVE  Added(s, b, x, f[x])
    BY <2>1 DEF y
  <2>4. x \subseteq Nat /\ n \in Nat
    BY <1>2, <2>1
  <2>5. \A m \in S : m < n => m \in y
    BY <1>2, <2>1, <2>3, <2>4
  <2>6. Closed(y)
    <3> SUFFICES ASSUME NEW k \in y, NEW m \in S, m < k
                 PROVE  m \in y
      OBVIOUS
    <3>1. k <= n /\ k \in Nat /\ m \in Nat
      BY <1>2, <2>2, <2>3, <2>4
    <3>2. m < n
      BY <2>4, <3>1
    <3> QED
      BY <2>5, <3>2
  <2>7. Added(s, b, y, f[y])
    BY <2>6
  <2>8. \A m : m \in x <=> m \in y \/ m = n
    BY <2>1, <2>3
  <2>9. n \in S /\ y \subseteq S /\ n \notin y
    BY <2>1, <2>3
  <2> HIDE DEF T
  <2>10. Added(s, b, x, AddNth(list, out, n, f[y]))
    BY <2>5, <2>7, <2>8, <2>9, AddNthIs DEF list, S
  <2> QED
    BY <2>1, <2>10
<1>8. S \in T
  <2> HIDE DEF T
  <2> QED
    BY <1>3, <1>6, <1>7, Adding!SubsetInduction
<1>9. Added(s, b, S, f[S])
  BY <1>8
<1> QED
  BY <1>5, <1>9 DEF Adding!Traces, list, S

\* init_bridge_stp: all the ports of the bridge, each with its number and the
\* configuration kept for it, or none and no protocol.
LEMMA InitBridgeStpIs ==
  ASSUME NEW s, Typed(s), NEW b \in Bridge, Mastered(s, b),
         IsInjective(List(s, b)), LibOK(s, b), NEW out \in Outcome,
         NEW t, t = InitBridgeStp(s, b, out)
  PROVE  /\ Typed(t) /\ Only(s, t, b) /\ LibOK(t, b)
<1> DEFINE list == List(s, b)
           base == [s |-> InitRstplibInstance(s, b), failed |-> FALSE,
                    added |-> <<>>]
           end == Adding!Folded(list, out, base, DOMAIN list)
<1>1. t = IF Runs(s, b) THEN s
          ELSE IF end.failed
          THEN ClearRstplibInstance(RemovePortsStp(end.s, end.added, out), b)
          ELSE [end.s EXCEPT !.daemon.br[b].stp_up = TRUE]
  BY DEF InitBridgeStp, Runs, List, FoldLeft, MapThenFoldSet, Adding!Folded,
     AddNth, Latest
<1>2. CASE Runs(s, b)
  <2>1. t = s
    BY <1>1, <1>2
  <2>2. Only(s, s, b)
    BY DEF Only, SameView, SameKernel, SameBr, SameDev
  <2> QED
    BY <2>1, <2>2
<1>3. CASE ~Runs(s, b)
  <2> DEFINE r == base.s
             i == [cfg |-> s.daemon.br[b].cfg, port |-> <<>>]
  <2>1. r = [s EXCEPT !.daemon.stp[b] = i]
    BY DEF InitRstplibInstance, InitStpmCfg
  <2>2. IsInstance(i) /\ i.cfg = s.daemon.br[b].cfg
        /\ \A j : j \notin DOMAIN i.port
    BY DEF IsInstance
  <2>3. base.failed = FALSE /\ base.added = <<>>
    OBVIOUS
  <2> HIDE DEF i, base
  <2>4. /\ Typed(r) /\ Only(s, r, b)
        /\ Runs(r, b) = Runs(s, b) /\ r.daemon.stp[b] = i
        /\ \A d \in Device : Index(r, d) = Index(s, d)
    BY <2>1, <2>2, InstanceChange
  <2> HIDE DEF r
  <2>5. Mastered(r, b) /\ PortsOf(r, b) = PortsOf(s, b) /\ List(r, b) = list
    BY <2>4, MasteredKept DEF Only, SameView, SameBr, List
  <2>6. Added(r, b, {}, base)
    <3>1. Within(r, r, b)
      BY DEF Within, Only, SameView, SameKernel, SameBr, SameDev
    <3>2. base.added \in Seq(Device) /\ Range(base.added) = {}
      BY <2>3 DEF Range
    <3>3. \A j : j \notin DOMAIN Lib(r, b)
      BY <2>2, <2>4 DEF Lib
    <3> QED
      BY <2>3, <2>4, <3>1, <3>2, <3>3 DEF Added, r
  <2>7. Added(r, b, DOMAIN list, end)
    <3>1. end = Adding!Folded(List(r, b), out, base, DOMAIN List(r, b))
      BY <2>5
    <3>2. IsInjective(List(r, b))
      BY <2>5
    <3> HIDE DEF end, list
    <3> QED
      BY <2>4, <2>5, <2>6, <3>1, <3>2, AddAllIs
  <2> HIDE DEF end
  <2> DEFINE e == end.s
  <2>8. /\ Typed(e) /\ Within(r, e, b) /\ end.failed \in BOOLEAN
        /\ end.added \in Seq(Device) /\ Range(end.added) \subseteq PortsOf(r, b)
    BY <2>7 DEF Added
  <2>9. ~end.failed =>
          /\ \A j \in DOMAIN Lib(e, b) :
               \E n \in DOMAIN list : Index(e, list[n]) = j
          /\ \A n \in DOMAIN list :
               Lib(e, b)[Index(e, list[n])].cfg = r.daemon.dev[list[n]].cfg
    BY <2>5, <2>7 DEF Added
  <2> HIDE DEF e
  <2>10. Only(s, e, b) /\ Runs(e, b) = FALSE
    BY <1>3, <2>4, <2>8, OnlyTrans DEF Within, Runs, Typed, IsDaemon, IsBr
  <2>11. Mastered(e, b) /\ PortsOf(e, b) = PortsOf(s, b)
    BY <2>10, MasteredKept
  <2>12. CASE end.failed
    <3> DEFINE bare == RemovePortsStp(e, end.added, out)
    <3>1. t = [bare EXCEPT !.daemon.stp[b] = NoInstance]
      BY <1>1, <1>3, <2>12 DEF ClearRstplibInstance, e
    <3>2. Typed(bare) /\ Within(e, bare, b)
      <4>1. bare = RemovePortsStp(e, end.added, out)
        OBVIOUS
      <4> HIDE DEF bare
      <4> QED
        BY <2>5, <2>8, <2>11, <4>1, RemovePortsStpIs
    <3> HIDE DEF bare
    <3>3. IsInstance(NoInstance) /\ \A j : j \notin DOMAIN NoInstance.port
      BY DEF IsInstance, NoInstance
    <3>4. /\ Typed(t) /\ Only(bare, t, b) /\ Runs(t, b) = Runs(bare, b)
          /\ t.daemon.stp[b] = NoInstance
      BY <3>1, <3>2, <3>3, InstanceChange
    <3>5. Only(s, t, b) /\ ~Runs(t, b)
      BY <2>10, <3>2, <3>4, OnlyTrans DEF Within
    <3> QED
      BY <3>3, <3>4, <3>5 DEF LibOK, LibFits, CfgsKept, Lib
  <2>13. CASE ~end.failed
    <3>1. t = [e EXCEPT !.daemon.br[b].stp_up = TRUE]
      BY <1>1, <1>3, <2>13 DEF e
    <3>2. /\ Typed(t) /\ Only(e, t, b)
          /\ Runs(t, b) = TRUE /\ t.daemon.stp = e.daemon.stp
          /\ \A d \in Device : Index(t, d) = Index(e, d)
      <4>1. Typed(e)
        BY <2>8
      <4> QED
        BY <3>1, <4>1, StpUpChange
    <3>3. Only(s, t, b)
      BY <2>10, <3>2, OnlyTrans
    <3>4. PortsOf(t, b) = PortsOf(s, b) /\ Lib(t, b) = Lib(e, b)
      BY <3>2, <3>3, MasteredKept DEF Lib
    <3>5. list \in Seq(Device) /\ PortsOf(s, b) = Range(list)
      BY DEF Typed, IsDaemon, IsBr, List, PortsOf
    <3> HIDE DEF list
    <3>6. \A d \in PortsOf(s, b) :
            d \in Device /\ \E n \in DOMAIN list : list[n] = d
      BY <3>5 DEF Range
    <3>7. \A n \in DOMAIN list : list[n] \in Device /\ list[n] \in PortsOf(s, b)
      BY <3>5 DEF Range
    <3>8. \A j \in DOMAIN Lib(t, b) : \E d \in PortsOf(t, b) : Index(t, d) = j
      BY <2>9, <2>13, <3>2, <3>4, <3>7
    <3>9. \A d \in PortsOf(t, b) :
            t.daemon.dev[d].cfg = Lib(t, b)[Index(t, d)].cfg
      <4> SUFFICES ASSUME NEW d \in PortsOf(s, b)
                   PROVE  t.daemon.dev[d].cfg = Lib(t, b)[Index(t, d)].cfg
        BY <3>4
      <4>1. Lib(e, b)[Index(e, d)].cfg = r.daemon.dev[d].cfg
        BY <2>9, <2>13, <3>6
      <4>2. r.daemon.dev[d].cfg = s.daemon.dev[d].cfg
            /\ t.daemon.dev[d].cfg = s.daemon.dev[d].cfg
        BY <2>4, <3>3, <3>6 DEF Only, SameView, SameDev
      <4> QED
        BY <3>2, <3>4, <3>6, <4>1, <4>2
    <3>10. t.daemon.stp[b].cfg = t.daemon.br[b].cfg
      <4>1. t.daemon.stp[b].cfg = r.daemon.stp[b].cfg
        BY <2>8, <3>2 DEF Within
      <4>2. t.daemon.br[b].cfg = s.daemon.br[b].cfg
        BY <3>3 DEF Only, SameView, SameBr
      <4> QED
        BY <2>2, <2>4, <4>1, <4>2
    <3> QED
      BY <3>2, <3>3, <3>8, <3>9, <3>10 DEF LibOK, LibFits, CfgsKept
  <2> QED
    BY <2>8, <2>12, <2>13
<1> QED
  BY <1>2, <1>3

-----------------------------------------------------------------------------
(* The invariant, and what keeps it.                                       *)

\* A port that is known is on the list of its master, once, and on no other.
Lists(s) ==
  /\ \A b \in Bridge :
       /\ IsInjective(List(s, b))
       /\ b \notin s.daemon.known => PortsOf(s, b) = {} /\ ~Runs(s, b)
  /\ \A d \in Device :
       /\ d \in s.daemon.known => Master(s, d) \in Bridge
       /\ \A b \in Bridge :
            d \in PortsOf(s, b) <=> d \in s.daemon.known /\ Master(s, d) = b

\* Once a bridge has been told to run RSTP, the daemon may send.
Spoken(s) == \A b \in Bridge : s.daemon.br[b].do_stp => s.daemon.stp_up

Good(s) ==
  /\ Typed(s) /\ Lists(s)
  /\ \A b \in Bridge : LibOK(s, b)
  /\ Spoken(s)

\* The ports of two bridges are different devices.
LEMMA PortsApart ==
  ASSUME NEW s, Typed(s), Lists(s), NEW b \in Bridge
  PROVE  /\ Mastered(s, b) /\ IsInjective(List(s, b))
         /\ \A c \in Bridge : \A d \in PortsOf(s, c) :
              d \in Device /\ (c # b => d \notin PortsOf(s, b))
<1>1. \A c \in Bridge : PortsOf(s, c) \subseteq Device
  BY DEF Typed, IsDaemon, IsBr, PortsOf, List, Range
<1> QED
  BY <1>1 DEF Lists, Mastered

\* What concerns the library and one bridge leaves the others as they were.
LEMMA OthersKept ==
  ASSUME NEW s, Typed(s), Lists(s), NEW t, NEW b \in Bridge, Only(s, t, b),
         NEW c \in Bridge, c # b, LibOK(s, c)
  PROVE  LibOK(t, c)
<1>1. PortsOf(t, c) = PortsOf(s, c) /\ Runs(t, c) = Runs(s, c)
      /\ Lib(t, c) = Lib(s, c)
  BY DEF Only, SameView, SameBr, PortsOf, List, Lib
<1>2. \A d \in PortsOf(s, c) :
        /\ Index(t, d) = Index(s, d)
        /\ t.daemon.dev[d].cfg = s.daemon.dev[d].cfg
  BY PortsApart DEF Only, SameView, SameDev
<1>3. LibFits(t, c)
  BY <1>1, <1>2 DEF LibOK, LibFits
<1>4. CfgsKept(s, c) => CfgsKept(t, c)
  <2>1. t.daemon.stp[c].cfg = s.daemon.stp[c].cfg
        /\ t.daemon.br[c].cfg = s.daemon.br[c].cfg
    BY DEF Only, SameView, SameBr
  <2>2. \A d \in PortsOf(s, c) : Alone(t, c, d) <=> Alone(s, c, d)
    BY <1>1, <1>2 DEF Alone
  <2> QED
    BY <1>1, <1>2, <2>1, <2>2 DEF CfgsKept
<1> QED
  BY <1>3, <1>4 DEF LibOK

\* A call that touches only what the library has of one bridge keeps the
\* data good if that bridge still fits its instance.
LEMMA OnlyKeeps ==
  ASSUME NEW s, Good(s), NEW t, Typed(t), NEW b \in Bridge, Only(s, t, b),
         LibOK(t, b), Runs(t, b) => b \in s.daemon.known
  PROVE  Good(t)
<1>1. Lists(t)
  <2>1. \A c \in Bridge : List(t, c) = List(s, c) /\ PortsOf(t, c) = PortsOf(s, c)
    BY DEF Only, SameView, SameBr, PortsOf, List
  <2>2. \A d \in Device : Master(t, d) = Master(s, d)
    BY DEF Only, SameView, SameDev, Master
  <2>3. t.daemon.known = s.daemon.known
        /\ \A c \in Bridge : c # b => Runs(t, c) = Runs(s, c)
    BY DEF Only, SameView
  <2> QED
    BY <2>1, <2>2, <2>3 DEF Good, Lists
<1>2. \A c \in Bridge : LibOK(t, c)
  BY OthersKept DEF Good
<1>3. Spoken(t)
  BY DEF Good, Spoken, Only, SameView, SameBr
<1> QED
  BY <1>1, <1>2, <1>3 DEF Good

\* The library runs for a bridge: STP_IN_rx_bpdu, STP_IN_one_second.
LEMMA LibraryUpdateKeeps ==
  ASSUME NEW s, Good(s), NEW b \in Bridge, NEW out \in Outcome, NEW again,
         NEW t, t = LibraryUpdate(s, b, out, again)
  PROVE  Good(t) /\ OnlyLib(s, t, b)
<1>1. /\ Typed(t) /\ OnlyLib(s, t, b)
      /\ DOMAIN Lib(t, b) = DOMAIN Lib(s, b)
      /\ \A i \in DOMAIN Lib(s, b) : Lib(t, b)[i].cfg = Lib(s, b)[i].cfg
  BY LibraryUpdateIs DEF Good
<1>2. PortsOf(t, b) = PortsOf(s, b) /\ PortsOf(s, b) \subseteq Device
      /\ t.daemon.br[b].cfg = s.daemon.br[b].cfg
  BY <1>1 DEF OnlyLib, Only, SameView, SameBr, PortsOf, List, Good, Typed,
     IsDaemon, IsBr, Range
<1>3. \A d \in PortsOf(s, b) :
        /\ Index(t, d) = Index(s, d)
        /\ t.daemon.dev[d].cfg = s.daemon.dev[d].cfg
  BY <1>1, <1>2 DEF OnlyLib, Only, SameView, SameDev
<1>4. LibFits(t, b)
  BY <1>1, <1>2, <1>3 DEF Good, LibOK, LibFits, OnlyLib
<1>5. CfgsKept(s, b) => CfgsKept(t, b)
  <2>1. \A d \in PortsOf(s, b) : Alone(t, b, d) <=> Alone(s, b, d)
    BY <1>2, <1>3 DEF Alone
  <2> QED
    BY <1>1, <1>2, <1>3, <2>1 DEF CfgsKept, OnlyLib
<1>6. Runs(t, b) => b \in s.daemon.known
  BY <1>1 DEF Good, Lists, OnlyLib
<1>7. Only(s, t, b) /\ LibOK(t, b)
  BY <1>1, <1>4, <1>5 DEF Good, LibOK, OnlyLib
<1> QED
  BY <1>1, <1>6, <1>7, OnlyKeeps

\* init_bridge_stp of a bridge that is known.
LEMMA InitBridgeStpKeeps ==
  ASSUME NEW s, Good(s), NEW b \in Bridge, b \in s.daemon.known,
         NEW out \in Outcome, NEW t, t = InitBridgeStp(s, b, out)
  PROVE  Good(t) /\ Only(s, t, b)
<1>1. Typed(t) /\ Only(s, t, b) /\ LibOK(t, b)
  BY PortsApart, InitBridgeStpIs DEF Good
<1> QED
  BY <1>1, OnlyKeeps

\* clear_bridge_stp.
LEMMA ClearBridgeStpKeeps ==
  ASSUME NEW s, Good(s), NEW b \in Bridge,
         NEW out \in Outcome, NEW t, t = ClearBridgeStp(s, b, out)
  PROVE  Good(t) /\ Only(s, t, b) /\ ~Runs(t, b)
<1>1. /\ Typed(t) /\ Only(s, t, b)
      /\ ~Runs(t, b)
      /\ Runs(s, b) => t.daemon.stp[b] = NoInstance
      /\ ~Runs(s, b) => t = s
  BY PortsApart, ClearBridgeStpIs DEF Good
<1>2. \A i : i \notin DOMAIN NoInstance.port
  BY DEF NoInstance
<1>3. CASE Runs(s, b)
  <2>1. LibOK(t, b)
    BY <1>1, <1>2, <1>3 DEF LibOK, LibFits, CfgsKept, Lib
  <2> QED
    BY <1>1, <2>1, OnlyKeeps
<1>4. CASE ~Runs(s, b)
  BY <1>1, <1>4
<1> QED
  BY <1>3, <1>4

-----------------------------------------------------------------------------
(* create_if and delete_if.                                                *)

\* The first occurrence in a list without repetition is the only one.
LEMMA RemoveFirstIs ==
  ASSUME NEW S, NEW list \in Seq(S), IsInjective(list), NEW d \in Range(list)
  PROVE  LET rest == RemoveFirst(list, d) IN
         /\ rest \in Seq(S) /\ IsInjective(rest)
         /\ \A e : e \in Range(rest) <=> e \in Range(list) /\ e # d
<1> DEFINE I == {i \in 1 .. Len(list) : list[i] = d}
           n == SelectInSeq(list, LAMBDA v : v = d)
           rest == SubSeq(list, 1, n - 1) \o SubSeq(list, n + 1, Len(list))
<1>1. DOMAIN list = 1 .. Len(list) /\ Len(list) \in Nat
  OBVIOUS
<1>2. PICK k \in 1 .. Len(list) : list[k] = d
  BY <1>1 DEF Range
<1>3. n = IF I # {} THEN Min(I) ELSE 0
  BY DEF SelectInSeq
<1>4. RemoveFirst(list, d) = rest
  BY <1>2 DEF RemoveFirst, RemoveAt
<1> HIDE DEF n
<1>5. n \in 1 .. Len(list) /\ list[n] = d
  <2>1. I # {} /\ I \subseteq Nat
    BY <1>2
  <2> HIDE DEF I
  <2>2. n \in I
    BY <1>3, <2>1, MinIs
  <2> QED
    BY <2>2 DEF I
<1>6. /\ rest \in Seq(S) /\ Len(rest) = Len(list) - 1
      /\ \A i \in 1 .. Len(rest) :
           rest[i] = IF i < n THEN list[i] ELSE list[i + 1]
  <2> DEFINE a == SubSeq(list, 1, n - 1)
             c == SubSeq(list, n + 1, Len(list))
  <2>1. a \in Seq(S) /\ Len(a) = n - 1 /\ \A i \in 1 .. n - 1 : a[i] = list[i]
    BY <1>1, <1>5
  <2>2. c \in Seq(S) /\ Len(c) = Len(list) - n
        /\ \A i \in 1 .. Len(list) - n : c[i] = list[n + i]
    <3>1. n + 1 \in Int /\ Len(list) \in Int
          /\ \A i \in n + 1 .. Len(list) : list[i] \in S
      BY <1>1, <1>5
    <3>2. /\ c \in Seq(S)
          /\ Len(c) = IF n + 1 <= Len(list) THEN Len(list) - (n + 1) + 1 ELSE 0
          /\ \A i \in 1 .. Len(list) - (n + 1) + 1 : c[i] = list[(n + 1) + i - 1]
      BY <3>1, SubSeqProperties
    <3> HIDE DEF c
    <3>3. Len(list) - (n + 1) + 1 = Len(list) - n
      BY <1>1, <1>5
    <3>4. Len(c) = Len(list) - n
      <4>1. CASE n + 1 <= Len(list)
        BY <3>2, <3>3, <4>1
      <4>2. CASE ~(n + 1 <= Len(list))
        <5>1. Len(c) = 0
          BY <3>2, <4>2
        <5>2. n \in Int /\ Len(list) \in Int /\ n <= Len(list)
          BY <1>1, <1>5
        <5>3. Len(list) - n = 0
          BY <4>2, <5>2
        <5> QED
          BY <5>1, <5>3
      <4> QED
        BY <4>1, <4>2
    <3>5. ASSUME NEW i \in 1 .. Len(list) - n
          PROVE  c[i] = list[n + i]
      <4>1. (n + 1) + i - 1 = n + i
        BY <1>1, <1>5
      <4> QED
        BY <3>2, <3>3, <4>1
    <3> QED
      BY <3>2, <3>4, <3>5
  <2> HIDE DEF a, c
  <2>3. a \o c \in Seq(S) /\ Len(a \o c) = Len(a) + Len(c)
        /\ \A i \in 1 .. Len(a) + Len(c) :
             (a \o c)[i] = IF i <= Len(a) THEN a[i] ELSE c[i - Len(a)]
    BY <2>1, <2>2, ConcatProperties
  <2>4. Len(a) + Len(c) = Len(list) - 1
    BY <1>1, <1>5, <2>1, <2>2
  <2>5. rest = a \o c
    BY DEF a, c
  <2> HIDE DEF rest
  <2>6. ASSUME NEW i \in 1 .. Len(list) - 1
        PROVE  rest[i] = IF i < n THEN list[i] ELSE list[i + 1]
    <3>1. CASE i < n
      BY <1>1, <1>5, <2>1, <2>3, <2>4, <2>5, <3>1
    <3>2. CASE ~(i < n)
      <4>1. i - (n - 1) \in 1 .. Len(list) - n /\ n + (i - (n - 1)) = i + 1
        BY <1>1, <1>5, <3>2
      <4>2. rest[i] = c[i - (n - 1)]
        BY <1>1, <1>5, <2>1, <2>3, <2>4, <2>5, <3>2
      <4> QED
        BY <2>2, <3>2, <4>1, <4>2
    <3> QED
      BY <3>1, <3>2
  <2> QED
    BY <2>3, <2>4, <2>5, <2>6
<1>7. DOMAIN rest = 1 .. Len(rest) /\ Len(rest) = Len(list) - 1
  BY <1>6
<1> HIDE DEF rest
<1> DEFINE At(i) == IF i < n THEN i ELSE i + 1
<1>8. \A i \in DOMAIN rest :
        At(i) \in DOMAIN list /\ At(i) # n /\ rest[i] = list[At(i)]
  BY <1>1, <1>5, <1>6, <1>7
<1>9. \A i, j \in DOMAIN rest : At(i) = At(j) => i = j
  BY <1>5, <1>7
<1>10. \A j \in DOMAIN list : j # n => \E i \in DOMAIN rest : At(i) = j
  <2> SUFFICES ASSUME NEW j \in DOMAIN list, j # n
               PROVE  \E i \in DOMAIN rest : At(i) = j
    OBVIOUS
  <2>1. CASE j < n
    <3>1. j \in DOMAIN rest /\ At(j) = j
      BY <1>1, <1>5, <1>7, <2>1
    <3> QED
      BY <3>1
  <2>2. CASE j > n
    <3>1. j - 1 \in DOMAIN rest /\ At(j - 1) = j
      BY <1>1, <1>5, <1>7, <2>2
    <3> QED
      BY <3>1
  <2> QED
    BY <1>1, <1>5, <2>1, <2>2
<1> HIDE DEF At
<1>11. IsInjective(rest)
  BY <1>8, <1>9 DEF IsInjective
<1>12. \A e : e \in Range(rest) <=> e \in Range(list) /\ e # d
  <2>1. ASSUME NEW e \in Range(rest)
        PROVE  e \in Range(list) /\ e # d
    <3>1. PICK i \in DOMAIN rest : e = rest[i]
      BY DEF Range
    <3>2. At(i) \in DOMAIN list /\ At(i) # n /\ e = list[At(i)]
      BY <1>8, <3>1
    <3> QED
      BY <1>1, <1>5, <3>2 DEF Range, IsInjective
  <2>2. ASSUME NEW e \in Range(list), e # d
        PROVE  e \in Range(rest)
    <3>1. PICK j \in DOMAIN list : e = list[j]
      BY DEF Range
    <3>2. PICK i \in DOMAIN rest : At(i) = j
      BY <1>5, <1>10, <2>2, <3>1
    <3> QED
      BY <1>8, <3>1, <3>2 DEF Range
  <2> QED
    BY <2>1, <2>2
<1> QED
  BY <1>4, <1>6, <1>11, <1>12

\* A port is described anew, and so is the list of a bridge.
Placed(s, b, d, list, p, known) ==
  [s EXCEPT !.daemon.br[b].port_list = list,
            !.daemon.dev[d] = p, !.daemon.known = known]

\* A port comes to a list or leaves it, as far as types go.
LEMMA ListChange ==
  ASSUME NEW s, Typed(s), NEW b \in Bridge, NEW d \in Device,
         NEW list \in Seq(Device), NEW p, IsDev(p), NEW known \in SUBSET Interface,
         NEW t, t = Placed(s, b, d, list, p, known)
  PROVE  /\ Typed(t) /\ t.kernel = s.kernel
         /\ t.daemon.known = known /\ t.daemon.stp_up = s.daemon.stp_up
         /\ t.daemon.stp = s.daemon.stp
         /\ t.daemon.dev[d] = p
         /\ \A e \in Device : e # d => t.daemon.dev[e] = s.daemon.dev[e]
         /\ \A c \in Bridge :
              /\ c = b => List(t, c) = list
              /\ c # b => List(t, c) = List(s, c)
              /\ Runs(t, c) = Runs(s, c)
              /\ t.daemon.br[c].up = s.daemon.br[c].up
              /\ t.daemon.br[c].do_stp = s.daemon.br[c].do_stp
              /\ t.daemon.br[c].cfg = s.daemon.br[c].cfg
<1> DEFINE r == [s.daemon.br[b] EXCEPT !.port_list = list]
           m == [s.daemon EXCEPT !.br = [@ EXCEPT ![b] = r],
                                 !.dev = [@ EXCEPT ![d] = p],
                                 !.known = known]
           u == [s EXCEPT !.daemon = m]
<1>1. DOMAIN s = {"kernel", "daemon"}
      /\ DOMAIN s.daemon = {"known", "stp_up", "br", "dev", "stp"}
      /\ b \in DOMAIN s.daemon.br /\ d \in DOMAIN s.daemon.dev
      /\ IsBr(s.daemon.br[b])
  BY DEF Typed, IsDaemon
<1>2. u = t
  BY <1>1 DEF Placed
<1>3. /\ IsBr(r) /\ r.port_list = list /\ r.stp_up = s.daemon.br[b].stp_up
      /\ r.up = s.daemon.br[b].up /\ r.do_stp = s.daemon.br[b].do_stp
      /\ r.cfg = s.daemon.br[b].cfg
  BY <1>1 DEF IsBr
<1> HIDE DEF r
<1>4. /\ DOMAIN m = DOMAIN s.daemon
      /\ m.known = known /\ m.stp_up = s.daemon.stp_up
      /\ m.stp = s.daemon.stp
      /\ DOMAIN m.br = Bridge /\ m.br[b] = r
      /\ \A c \in Bridge : c # b => m.br[c] = s.daemon.br[c]
      /\ DOMAIN m.dev = Device /\ m.dev[d] = p
      /\ \A e \in Device : e # d => m.dev[e] = s.daemon.dev[e]
  BY <1>1 DEF Typed, IsDaemon
<1> HIDE DEF m
<1>5. IsDaemon(m)
  BY <1>3, <1>4 DEF Typed, IsDaemon
<1>6. t.kernel = s.kernel /\ t.daemon = m /\ DOMAIN t = {"kernel", "daemon"}
  BY <1>1, <1>2
<1> HIDE DEF u
<1>7. Typed(t)
  BY <1>5, <1>6 DEF Typed
<1>8. /\ t.daemon.br[b] = r
      /\ \A c \in Bridge : c # b => t.daemon.br[c] = s.daemon.br[c]
  BY <1>4, <1>6
<1>9. ASSUME NEW c \in Bridge
      PROVE  /\ c = b => List(t, c) = list
             /\ c # b => List(t, c) = List(s, c)
             /\ Runs(t, c) = Runs(s, c)
             /\ t.daemon.br[c].up = s.daemon.br[c].up
             /\ t.daemon.br[c].do_stp = s.daemon.br[c].do_stp
             /\ t.daemon.br[c].cfg = s.daemon.br[c].cfg
  <2>1. CASE c = b
    BY <1>3, <1>8, <2>1 DEF List, Runs
  <2>2. CASE c # b
    BY <1>8, <2>2 DEF List, Runs
  <2> QED
    BY <2>1, <2>2
<1> QED
  BY <1>4, <1>6, <1>7, <1>9

\* A port without a bridge, or as create_if makes it.
LEMMA NewPortIs ==
  ASSUME NEW b \in Bridge \cup {NoBridge}
  PROVE  /\ IsDev(NewPort(b)) /\ NewPort(b).master = b
         /\ NewPort(b).port_index = 0 /\ NewPort(b).cfg = DefaultPortCfg
<1>1. IsCfg(DefaultPortCfg)
  BY DEF IsCfg, DefaultPortCfg
<1> QED
  BY <1>1 DEF IsDev, NewPort

\* delete_if of a port.
LEMMA DeletePortKeeps ==
  ASSUME NEW s, Good(s), NEW d \in Device, d \in s.daemon.known,
         NEW out \in Outcome, NEW t, t = DeletePort(s, d, out)
  PROVE  /\ Good(t) /\ SameKernel(s, t)
         /\ \A x : x \in t.daemon.known <=> x \in s.daemon.known /\ x # d
         /\ \A e \in Device : e # d => Unmoved(s, t, e)
         /\ \A c \in Bridge :
              /\ Runs(t, c) = Runs(s, c)
              /\ \A e : e \in PortsOf(t, c) <=> e \in PortsOf(s, c) /\ e # d
<1> DEFINE b == Master(s, d)
           gone == IF Runs(s, b) THEN RemovePortStp(s, d, out) ELSE s
           list == List(gone, b)
           rest == RemoveFirst(list, d)
           known == gone.daemon.known \ {d}
           p == NewPort(NoBridge)
<1>1. b \in Bridge /\ d \in PortsOf(s, b)
  BY DEF Good, Lists
<1>2. t = [gone EXCEPT !.daemon.br[b].port_list = RemoveFirst(@, d),
                       !.daemon.dev[d] = NewPort(NoBridge),
                       !.daemon.known = @ \ {d}]
  BY DEF DeletePort, Runs, Master
<1> HIDE DEF b
<1>3. Mastered(s, b) /\ IsInjective(List(s, b))
      /\ \A c \in Bridge : \A e \in PortsOf(s, c) :
           e \in Device /\ (c # b => e \notin PortsOf(s, b))
  BY <1>1, PortsApart DEF Good
<1>4. /\ Typed(gone) /\ Within(s, gone, b)
      /\ \A e \in Device : e # d => Index(gone, e) = Index(s, e)
      /\ \A j : j \in DOMAIN Lib(gone, b) =>
                  j \in DOMAIN Lib(s, b) /\ (Runs(s, b) => j # Index(s, d))
      /\ \A j \in DOMAIN Lib(gone, b) : Lib(gone, b)[j].cfg = Lib(s, b)[j].cfg
  <2>1. CASE Runs(s, b)
    <3>1. gone = RemovePortStp(s, d, out)
      BY <2>1
    <3>2. Master(s, d) = b
      BY <1>1, <1>3 DEF Mastered
    <3>3. LET u == gone IN
          /\ Typed(u) /\ Within(s, u, b)
          /\ Index(u, d) = -1
          /\ \A e \in Device \ {d} : Index(u, e) = Index(s, e)
          /\ \A j : j \in DOMAIN Lib(u, b) <=>
                      j \in DOMAIN Lib(s, b) /\ j # Index(s, d)
          /\ \A j \in DOMAIN Lib(u, b) : Lib(u, b)[j].cfg = Lib(s, b)[j].cfg
      <4> HIDE DEF gone
      <4> QED
        BY <1>1, <3>1, <3>2, RemovePortStpIs DEF Good
    <3> HIDE DEF gone
    <3> QED
      BY <3>3
  <2>2. CASE ~Runs(s, b)
    <3>1. gone = s
      BY <2>2
    <3>2. Within(s, s, b)
      BY DEF Within, Only, SameView, SameKernel, SameBr, SameDev
    <3> QED
      BY <2>2, <3>1, <3>2 DEF Good
  <2> QED
    BY <2>1, <2>2
<1> HIDE DEF gone
<1>5. \A c \in Bridge : /\ List(gone, c) = List(s, c)
                        /\ PortsOf(gone, c) = PortsOf(s, c)
                        /\ Runs(gone, c) = Runs(s, c)
  BY <1>4 DEF Within, Only, SameView, SameBr, List, PortsOf
<1>6. list \in Seq(Device) /\ IsInjective(list) /\ d \in Range(list)
      /\ Range(list) = PortsOf(s, b)
  BY <1>1, <1>3, <1>4, <1>5 DEF Typed, IsDaemon, IsBr, List, PortsOf
<1> HIDE DEF list
<1>7. /\ rest \in Seq(Device) /\ IsInjective(rest)
      /\ \A e : e \in Range(rest) <=> e \in PortsOf(s, b) /\ e # d
  BY <1>6, RemoveFirstIs
<1>8. t = Placed(gone, b, d, rest, p, known)
  <2>1. DOMAIN gone = {"kernel", "daemon"}
        /\ DOMAIN gone.daemon = {"known", "stp_up", "br", "dev", "stp"}
        /\ DOMAIN gone.daemon.br = Bridge /\ DOMAIN gone.daemon.dev = Device
        /\ DOMAIN gone.daemon.br[b] = {"up", "do_stp", "stp_up", "port_list",
                                       "cfg"}
    BY <1>1, <1>4 DEF Typed, IsDaemon, IsBr
  <2> QED
    BY <1>1, <1>2, <2>1 DEF Placed, list, List
<1> HIDE DEF rest
<1>9. known \in SUBSET Interface /\ gone.daemon.known = s.daemon.known
      /\ \A x : x \in known <=> x \in s.daemon.known /\ x # d
  BY <1>4 DEF Within, Only, SameView, Typed, IsDaemon
<1>10. IsDev(p) /\ p.master = NoBridge
  BY NewPortIs
<1> HIDE DEF p, known
<1>11. /\ Typed(t) /\ t.kernel = gone.kernel
       /\ t.daemon.known = known /\ t.daemon.stp_up = gone.daemon.stp_up
       /\ t.daemon.stp = gone.daemon.stp
       /\ t.daemon.dev[d] = p
       /\ \A e \in Device : e # d => t.daemon.dev[e] = gone.daemon.dev[e]
       /\ \A c \in Bridge :
            /\ c = b => List(t, c) = rest
            /\ c # b => List(t, c) = List(gone, c)
            /\ Runs(t, c) = Runs(gone, c)
            /\ t.daemon.br[c].up = gone.daemon.br[c].up
            /\ t.daemon.br[c].do_stp = gone.daemon.br[c].do_stp
            /\ t.daemon.br[c].cfg = gone.daemon.br[c].cfg
  BY <1>1, <1>4, <1>7, <1>8, <1>9, <1>10, ListChange
<1>12. \A c \in Bridge :
         \A e : e \in PortsOf(t, c) <=> e \in PortsOf(s, c) /\ e # d
  <2> SUFFICES ASSUME NEW c \in Bridge, NEW e
               PROVE  e \in PortsOf(t, c) <=> e \in PortsOf(s, c) /\ e # d
    OBVIOUS
  <2>1. CASE c = b
    BY <1>7, <1>11, <2>1 DEF PortsOf
  <2>2. CASE c # b
    BY <1>1, <1>3, <1>5, <1>11, <2>2 DEF PortsOf
  <2> QED
    BY <2>1, <2>2
<1>13. Lists(t)
  <2>1. \A c \in Bridge : IsInjective(List(t, c))
    BY <1>5, <1>7, <1>11 DEF Good, Lists
  <2>2. \A c \in Bridge :
          c \notin t.daemon.known => PortsOf(t, c) = {} /\ ~Runs(t, c)
    <3> SUFFICES ASSUME NEW c \in Bridge, c \notin t.daemon.known
                 PROVE  PortsOf(t, c) = {} /\ ~Runs(t, c)
      OBVIOUS
    <3>1. c # d
      BY InterfaceAssumption
    <3>2. c \notin s.daemon.known
      BY <1>9, <1>11, <3>1
    <3>3. PortsOf(s, c) = {} /\ ~Runs(s, c)
      BY <3>2 DEF Good, Lists
    <3> QED
      BY <1>5, <1>11, <1>12, <3>3
  <2>3. ASSUME NEW e \in Device
        PROVE  /\ e \in t.daemon.known => Master(t, e) \in Bridge
               /\ \A c \in Bridge :
                    e \in PortsOf(t, c) <=>
                      e \in t.daemon.known /\ Master(t, e) = c
    <3>1. CASE e = d
      <4>1. d \notin t.daemon.known
        BY <1>9, <1>11
      <4> QED
        BY <1>12, <3>1, <4>1
    <3>2. CASE e # d
      <4>1. Master(t, e) = Master(s, e)
        BY <1>4, <1>11, <3>2 DEF Master, Within, Only, SameView, SameDev
      <4>2. e \in t.daemon.known <=> e \in s.daemon.known
        BY <1>9, <1>11, <3>2
      <4> QED
        BY <1>12, <3>2, <4>1, <4>2 DEF Good, Lists
    <3> QED
      BY <3>1, <3>2
  <2> QED
    BY <2>1, <2>2, <2>3 DEF Lists
<1>14. \A c \in Bridge : LibOK(gone, c) /\ c # b => LibOK(t, c)
  <2> SUFFICES ASSUME NEW c \in Bridge, LibOK(gone, c), c # b
               PROVE  LibOK(t, c)
    OBVIOUS
  <2>1. PortsOf(t, c) = PortsOf(gone, c)
    BY <1>11 DEF PortsOf
  <2>2. \A e \in PortsOf(gone, c) : t.daemon.dev[e] = gone.daemon.dev[e]
    BY <1>1, <1>3, <1>5, <1>11
  <2>3. Runs(t, c) = Runs(gone, c) /\ Lib(t, c) = Lib(gone, c)
        /\ t.daemon.stp[c] = gone.daemon.stp[c]
        /\ t.daemon.br[c].cfg = gone.daemon.br[c].cfg
    BY <1>11 DEF Lib
  <2>4. LibFits(t, c)
    BY <2>1, <2>2, <2>3 DEF LibOK, LibFits, Index
  <2>5. CfgsKept(gone, c) => CfgsKept(t, c)
    BY <2>1, <2>2, <2>3 DEF CfgsKept, Index, Alone
  <2> QED
    BY <2>4, <2>5 DEF LibOK
<1>15. \A c \in Bridge : c # b => LibOK(gone, c)
  BY <1>1, <1>4, OthersKept DEF Good, Within
<1>16. LibOK(t, b)
  <2>1. Lib(t, b) = Lib(gone, b) /\ Runs(t, b) = Runs(s, b)
    BY <1>1, <1>5, <1>11 DEF Lib
  <2>2. \A e \in PortsOf(t, b) :
          /\ e \in PortsOf(s, b) /\ e # d
          /\ Index(t, e) = Index(s, e)
          /\ t.daemon.dev[e].cfg = s.daemon.dev[e].cfg
    <3> SUFFICES ASSUME NEW e \in PortsOf(t, b)
                 PROVE  /\ e \in PortsOf(s, b) /\ e # d
                        /\ Index(t, e) = Index(s, e)
                        /\ t.daemon.dev[e].cfg = s.daemon.dev[e].cfg
      OBVIOUS
    <3>1. e \in PortsOf(s, b) /\ e # d /\ e \in Device
      BY <1>1, <1>3, <1>12
    <3>2. t.daemon.dev[e] = gone.daemon.dev[e]
      BY <1>11, <3>1
    <3> QED
      BY <1>4, <3>1, <3>2 DEF Index, Within, Only, SameView, SameDev
  <2>3. LibFits(t, b)
    <3>1. ~Runs(t, b) => \A i : i \notin DOMAIN Lib(t, b)
      BY <1>1, <1>4, <2>1 DEF Good, LibOK, LibFits
    <3>2. ASSUME NEW i \in DOMAIN Lib(t, b)
          PROVE  \E e \in PortsOf(t, b) : Index(t, e) = i
      <4>1. i \in DOMAIN Lib(s, b) /\ i # Index(s, d)
        BY <1>4, <2>1, <3>1
      <4>2. PICK e \in PortsOf(s, b) : Index(s, e) = i
        BY <1>1, <4>1 DEF Good, LibOK, LibFits
      <4>3. e \in PortsOf(t, b)
        BY <1>1, <1>12, <4>1, <4>2
      <4> QED
        BY <2>2, <4>2, <4>3
    <3> QED
      BY <3>1, <3>2 DEF LibFits
  <2>4. CfgsKept(s, b) => CfgsKept(t, b)
    <3> SUFFICES ASSUME CfgsKept(s, b), Runs(t, b)
                 PROVE  /\ t.daemon.stp[b].cfg = t.daemon.br[b].cfg
                        /\ \A e \in PortsOf(t, b) :
                             Index(t, e) \in DOMAIN Lib(t, b) /\ Alone(t, b, e) =>
                               t.daemon.dev[e].cfg = Lib(t, b)[Index(t, e)].cfg
      BY DEF CfgsKept
    <3>1. t.daemon.stp[b].cfg = t.daemon.br[b].cfg
      <4>1. t.daemon.stp[b].cfg = s.daemon.stp[b].cfg
        BY <1>4, <1>11 DEF Within
      <4>2. t.daemon.br[b].cfg = s.daemon.br[b].cfg
        BY <1>1, <1>4, <1>11 DEF Within, Only, SameView, SameBr
      <4> QED
        BY <2>1, <4>1, <4>2 DEF CfgsKept
    <3>2. ASSUME NEW e \in PortsOf(t, b),
                 Index(t, e) \in DOMAIN Lib(t, b), Alone(t, b, e)
          PROVE  t.daemon.dev[e].cfg = Lib(t, b)[Index(t, e)].cfg
      <4>1. Index(s, e) \in DOMAIN Lib(s, b) /\ Index(s, e) # Index(s, d)
            /\ Lib(t, b)[Index(t, e)].cfg = Lib(s, b)[Index(s, e)].cfg
        BY <1>4, <2>1, <2>2, <3>2
      <4>2. Alone(s, b, e)
        <5> SUFFICES ASSUME NEW f \in PortsOf(s, b), f # e
                     PROVE  Index(s, f) # Index(s, e)
          BY DEF Alone
        <5>1. CASE f = d
          BY <4>1, <5>1
        <5>2. CASE f # d
          <6>1. f \in PortsOf(t, b)
            BY <1>1, <1>12, <5>2
          <6> QED
            BY <2>2, <3>2, <6>1 DEF Alone
        <5> QED
          BY <5>1, <5>2
      <4> QED
        BY <2>1, <2>2, <4>1, <4>2 DEF CfgsKept
    <3> QED
      BY <3>1, <3>2
  <2> QED
    BY <1>1, <2>3, <2>4 DEF Good, LibOK
<1>17. Spoken(t)
  BY <1>4, <1>11 DEF Good, Spoken, Within, Only, SameView, SameBr
<1>18. SameKernel(s, t)
  BY <1>4, <1>11 DEF Within, Only, SameView, SameKernel
<1>19. \A c \in Bridge : LibOK(t, c)
  BY <1>14, <1>15, <1>16
<1>20. \A e \in Device : e # d => Unmoved(s, t, e)
  BY <1>4, <1>9, <1>11 DEF Within, Only, SameView, SameDev, Unmoved, Master, Up
<1> QED
  BY <1>5, <1>9, <1>11, <1>12, <1>13, <1>17, <1>18, <1>19, <1>20 DEF Good

\* A bridge without ports and without the protocol is described anew, and is
\* known from then on, or no more.
Reset(s, b, known) ==
  [s EXCEPT !.daemon.br[b] = NewBridge, !.daemon.known = known]

\* A bridge set back is good as long as it has no ports.
LEMMA ResetKeeps ==
  ASSUME NEW s, Good(s), NEW b \in Bridge, PortsOf(s, b) = {}, ~Runs(s, b),
         NEW known \in SUBSET Interface,
         \A x : x # b => (x \in known <=> x \in s.daemon.known),
         NEW t, t = Reset(s, b, known)
  PROVE  /\ Good(t) /\ t.kernel = s.kernel
         /\ t.daemon.known = known /\ t.daemon.dev = s.daemon.dev
         /\ t.daemon.br[b] = NewBridge
<1> DEFINE r == NewBridge
           u == Recorded(s, b, r)
<1>1. IsBr(r) /\ r.port_list = <<>> /\ ~r.stp_up /\ ~r.do_stp
  BY DEF IsBr, NewBridge
<1> HIDE DEF r
<1>2. Typed(s) /\ Lists(s)
  BY DEF Good
<1>3. /\ Typed(u)
      /\ u.kernel = s.kernel
      /\ u.daemon.known = s.daemon.known
      /\ u.daemon.stp_up = s.daemon.stp_up
      /\ u.daemon.dev = s.daemon.dev /\ u.daemon.stp = s.daemon.stp
      /\ u.daemon.br[b] = r
      /\ \A c \in Bridge \ {b} : u.daemon.br[c] = s.daemon.br[c]
  BY <1>1, <1>2, BridgeChanges
<1>4. t = [u EXCEPT !.daemon.known = known]
  <2>1. DOMAIN s = {"kernel", "daemon"}
        /\ DOMAIN s.daemon = {"known", "stp_up", "br", "dev", "stp"}
    BY <1>2 DEF Typed, IsDaemon
  <2> QED
    BY <2>1 DEF Reset, Recorded, r
<1> HIDE DEF u
<1>6. /\ t.kernel = s.kernel /\ DOMAIN t = {"kernel", "daemon"}
      /\ DOMAIN t.daemon = DOMAIN u.daemon
      /\ t.daemon.known = known
      /\ t.daemon.stp_up = s.daemon.stp_up
      /\ t.daemon.dev = s.daemon.dev /\ t.daemon.stp = s.daemon.stp
      /\ t.daemon.br = u.daemon.br
  BY <1>3, <1>4 DEF Typed, IsDaemon
<1>7. Typed(t)
  BY <1>3, <1>6 DEF Typed, IsDaemon
<1>8. t.daemon.br[b] = r /\ \A c \in Bridge : c # b => t.daemon.br[c] = s.daemon.br[c]
  BY <1>3, <1>6
<1>9. \A x : x # b => (x \in t.daemon.known <=> x \in s.daemon.known)
  BY <1>6
<1>11. PortsOf(t, b) = {} /\ ~Runs(t, b) /\ IsInjective(List(t, b))
  BY <1>1, <1>8 DEF PortsOf, List, Range, Runs, IsInjective
<1>12. \A c \in Bridge : c # b => List(t, c) = List(s, c) /\ Runs(t, c) = Runs(s, c)
                                 /\ PortsOf(t, c) = PortsOf(s, c)
  BY <1>8 DEF List, PortsOf, Runs
<1>13. Lists(t)
  <2>1. \A c \in Bridge :
          /\ IsInjective(List(t, c))
          /\ c \notin t.daemon.known => PortsOf(t, c) = {} /\ ~Runs(t, c)
    BY <1>2, <1>9, <1>11, <1>12 DEF Lists
  <2>2. ASSUME NEW e \in Device
        PROVE  /\ e \in t.daemon.known => Master(t, e) \in Bridge
               /\ \A c \in Bridge :
                    e \in PortsOf(t, c) <=>
                      e \in t.daemon.known /\ Master(t, e) = c
    <3>1. e # b
      BY InterfaceAssumption
    <3>2. Master(t, e) = Master(s, e)
          /\ (e \in t.daemon.known <=> e \in s.daemon.known)
      BY <1>6, <1>9, <3>1 DEF Master
    <3>3. \A c \in Bridge : PortsOf(t, c) = PortsOf(s, c)
      BY <1>11, <1>12
    <3> QED
      BY <1>2, <3>2, <3>3 DEF Lists
  <2> QED
    BY <2>1, <2>2 DEF Lists
<1>14. ASSUME NEW c \in Bridge
       PROVE  LibOK(t, c)
  <2>1. LibOK(s, c)
    BY DEF Good
  <2>2. Lib(t, c) = Lib(s, c) /\ \A e \in Device : Index(t, e) = Index(s, e)
    BY <1>6 DEF Lib, Index
  <2>3. CASE c = b
    BY <1>11, <2>1, <2>2, <2>3 DEF LibOK, LibFits, CfgsKept
  <2>4. CASE c # b
    <3>1. t.daemon.br[c] = s.daemon.br[c] /\ t.daemon.stp[c] = s.daemon.stp[c]
          /\ t.daemon.dev = s.daemon.dev
      BY <1>6, <1>8, <2>4
    <3>2. Runs(t, c) = Runs(s, c) /\ PortsOf(t, c) = PortsOf(s, c)
      BY <1>12, <2>4
    <3> QED
      BY <2>1, <3>1, <3>2 DEF LibOK, LibFits, CfgsKept, Lib, Index, Alone
  <2> QED
    BY <2>3, <2>4
<1>15. Spoken(t)
  BY <1>1, <1>6, <1>8 DEF Good, Spoken
<1> QED
  BY <1>6, <1>7, <1>8, <1>13, <1>14, <1>15 DEF Good, r

\* create_if of a bridge: it has no ports, and nothing in the library.
LEMMA CreateBridgeKeeps ==
  ASSUME NEW s, Good(s), NEW b \in Bridge, b \notin s.daemon.known,
         NEW t, t = CreateBridge(s, b)
  PROVE  /\ Good(t) /\ t.kernel = s.kernel
         /\ \A x : x \in t.daemon.known <=> x \in s.daemon.known \/ x = b
         /\ t.daemon.dev = s.daemon.dev
         /\ t.daemon.br[b] = NewBridge
<1> DEFINE known == s.daemon.known \cup {b}
<1>1. known \in SUBSET Interface
      /\ \A x : x \in known <=> x \in s.daemon.known \/ x = b
  BY DEF Good, Typed, IsDaemon, Interface
<1>2. t = Reset(s, b, known)
  BY DEF CreateBridge, Reset, Good, Typed, IsDaemon
<1>3. PortsOf(s, b) = {} /\ ~Runs(s, b)
  BY DEF Good, Lists
<1> HIDE DEF known
<1> QED
  BY <1>1, <1>2, <1>3, ResetKeeps

\* create_if of a port of a bridge that is known: it is put at the head of
\* the list, and joins the protocol if the bridge runs it.
LEMMA CreatePortKeeps ==
  ASSUME NEW s, Good(s), NEW d \in Device, d \notin s.daemon.known,
         NEW b \in Bridge, b \in s.daemon.known,
         NEW out \in Outcome, NEW t, t = CreatePort(s, d, b, out)
  PROVE  /\ Good(t) /\ SameKernel(s, t)
         /\ \A x : x \in t.daemon.known <=> x \in s.daemon.known \/ x = d
         /\ Master(t, d) = b
         /\ \A e \in Device : e # d => Unmoved(s, t, e)
<1> DEFINE list == <<d>> \o List(s, b)
           known == s.daemon.known \cup {d}
           p == NewPort(b)
           r == Placed(s, b, d, list, p, known)
<1>1. Typed(s) /\ Lists(s) /\ List(s, b) \in Seq(Device)
  BY DEF Good, Typed, IsDaemon, IsBr, List
<1>2. DOMAIN s = {"kernel", "daemon"}
      /\ DOMAIN s.daemon = {"known", "stp_up", "br", "dev", "stp"}
      /\ DOMAIN s.daemon.br = Bridge /\ DOMAIN s.daemon.dev = Device
      /\ DOMAIN s.daemon.br[b] = {"up", "do_stp", "stp_up", "port_list", "cfg"}
  BY <1>1 DEF Typed, IsDaemon, IsBr
<1>3. t = IF Runs(s, b) THEN AddPortStp(r, d, out) ELSE r
  BY <1>2 DEF CreatePort, Runs, Placed, List
<1>4. /\ list \in Seq(Device) /\ list[1] = d /\ 1 \in DOMAIN list
      /\ Range(list) = Range(List(s, b)) \cup {d}
      /\ \A n \in DOMAIN list : n = 1 \/ list[n] \in Range(List(s, b))
      /\ IsInjective(list)
  <2> DEFINE old == List(s, b)
  <2>1. old \in Seq(Device) /\ IsInjective(old) /\ d \notin Range(old)
    BY <1>1 DEF Lists, PortsOf
  <2> HIDE DEF old
  <2>2. <<d>> \in Seq(Device) /\ Len(<<d>>) = 1 /\ <<d>>[1] = d
    OBVIOUS
  <2> DEFINE new == <<d>> \o old
  <2>3. /\ new \in Seq(Device) /\ Len(new) = 1 + Len(old)
        /\ \A i \in 1 .. 1 + Len(old) :
             new[i] = IF i <= 1 THEN <<d>>[i] ELSE old[i - 1]
    BY <2>1, <2>2, ConcatProperties
  <2> HIDE DEF new
  <2>4. DOMAIN old = 1 .. Len(old) /\ DOMAIN new = 1 .. 1 + Len(old)
        /\ Len(old) \in Nat
    BY <2>1, <2>3
  <2>5. new[1] = d /\ 1 \in DOMAIN new
    BY <2>2, <2>3, <2>4
  <2>6. \A i \in DOMAIN new : i # 1 => i - 1 \in DOMAIN old /\ new[i] = old[i - 1]
    BY <2>3, <2>4
  <2>7. \A i \in DOMAIN old : i + 1 \in DOMAIN new /\ new[i + 1] = old[i]
    BY <2>3, <2>4
  <2>8. \A n \in DOMAIN new : n = 1 \/ new[n] \in Range(old)
    BY <2>6 DEF Range
  <2>9. Range(new) = Range(old) \cup {d}
    <3>1. \A e \in Range(new) : e \in Range(old) \/ e = d
      BY <2>5, <2>8 DEF Range
    <3>2. \A e \in Range(old) : e \in Range(new)
      BY <2>7 DEF Range
    <3>3. d \in Range(new)
      BY <2>5 DEF Range
    <3> QED
      BY <3>1, <3>2, <3>3
  <2>10. IsInjective(new)
    <3> SUFFICES ASSUME NEW i \in DOMAIN new, NEW j \in DOMAIN new,
                        new[i] = new[j]
                 PROVE  i = j
      BY DEF IsInjective
    <3>1. CASE i = 1 \/ j = 1
      BY <2>1, <2>5, <2>6, <3>1 DEF Range
    <3>2. CASE i # 1 /\ j # 1
      <4>1. i - 1 = j - 1
        BY <2>1, <2>6, <3>2 DEF IsInjective
      <4> QED
        BY <2>4, <4>1
    <3> QED
      BY <3>1, <3>2
  <2> QED
    BY <2>3, <2>5, <2>8, <2>9, <2>10 DEF new, old
<1> HIDE DEF list
<1>5. known \in SUBSET Interface
      /\ \A x : x \in known <=> x \in s.daemon.known \/ x = d
  BY <1>1 DEF Typed, IsDaemon, Interface
<1>6. IsDev(p) /\ p.master = b /\ p.port_index = 0 /\ p.cfg = DefaultPortCfg
  BY NewPortIs
<1> HIDE DEF p, known, r
<1>7. /\ Typed(r) /\ r.kernel = s.kernel
      /\ r.daemon.known = known /\ r.daemon.stp_up = s.daemon.stp_up
      /\ r.daemon.stp = s.daemon.stp
      /\ r.daemon.dev[d] = p
      /\ \A e \in Device : e # d => r.daemon.dev[e] = s.daemon.dev[e]
      /\ \A c \in Bridge :
           /\ c = b => List(r, c) = list
           /\ c # b => List(r, c) = List(s, c)
           /\ Runs(r, c) = Runs(s, c)
           /\ r.daemon.br[c].up = s.daemon.br[c].up
           /\ r.daemon.br[c].do_stp = s.daemon.br[c].do_stp
           /\ r.daemon.br[c].cfg = s.daemon.br[c].cfg
  BY <1>1, <1>4, <1>5, <1>6, ListChange DEF r
<1>8. \A c \in Bridge : \A e : e \in PortsOf(r, c) <=>
                          e \in PortsOf(s, c) \/ (e = d /\ c = b)
  <2> SUFFICES ASSUME NEW c \in Bridge, NEW e
               PROVE  e \in PortsOf(r, c) <=>
                        e \in PortsOf(s, c) \/ (e = d /\ c = b)
    OBVIOUS
  <2>1. CASE c = b
    BY <1>4, <1>7, <2>1 DEF PortsOf
  <2>2. CASE c # b
    BY <1>7, <2>2 DEF PortsOf
  <2> QED
    BY <2>1, <2>2
<1>9. Lists(r)
  <2>1. \A c \in Bridge : IsInjective(List(r, c))
    BY <1>1, <1>4, <1>7 DEF Lists
  <2>2. \A c \in Bridge :
          c \notin r.daemon.known => PortsOf(r, c) = {} /\ ~Runs(r, c)
    BY <1>1, <1>5, <1>7, <1>8 DEF Lists
  <2>3. ASSUME NEW e \in Device
        PROVE  /\ e \in r.daemon.known => Master(r, e) \in Bridge
               /\ \A c \in Bridge :
                    e \in PortsOf(r, c) <=>
                      e \in r.daemon.known /\ Master(r, e) = c
    <3>1. CASE e = d
      <4>1. Master(r, d) = b /\ d \in r.daemon.known
        BY <1>5, <1>6, <1>7 DEF Master
      <4>2. \A c \in Bridge : d \notin PortsOf(s, c)
        BY <1>1 DEF Lists
      <4> QED
        BY <1>8, <3>1, <4>1, <4>2
    <3>2. CASE e # d
      BY <1>1, <1>5, <1>7, <1>8, <3>2 DEF Lists, Master
    <3> QED
      BY <3>1, <3>2
  <2> QED
    BY <2>1, <2>2, <2>3 DEF Lists
<1>10. ASSUME NEW c \in Bridge, c # b
       PROVE  LibOK(r, c)
  <2>1. LibOK(s, c)
    BY DEF Good
  <2>2. /\ PortsOf(r, c) = PortsOf(s, c) /\ Runs(r, c) = Runs(s, c)
        /\ r.daemon.stp[c] = s.daemon.stp[c] /\ Lib(r, c) = Lib(s, c)
        /\ r.daemon.br[c].cfg = s.daemon.br[c].cfg
    BY <1>7, <1>10 DEF PortsOf, Lib
  <2>3. \A e \in PortsOf(s, c) : r.daemon.dev[e] = s.daemon.dev[e]
    <3>1. \A e \in PortsOf(s, c) : e \in Device /\ e # d
      BY <1>1, PortsApart DEF Lists
    <3> QED
      BY <1>7, <3>1
  <2>4. LibFits(r, c)
    BY <2>1, <2>2, <2>3 DEF LibOK, LibFits, Index
  <2>5. CfgsKept(s, c) => CfgsKept(r, c)
    BY <2>2, <2>3 DEF CfgsKept, Index, Alone
  <2> QED
    BY <2>1, <2>4, <2>5 DEF LibOK
<1>11. /\ Runs(r, b) = Runs(s, b) /\ Lib(r, b) = Lib(s, b)
       /\ r.daemon.stp[b].cfg = s.daemon.stp[b].cfg
       /\ r.daemon.br[b].cfg = s.daemon.br[b].cfg
       /\ \A e \in PortsOf(s, b) :
            /\ e # d /\ e \in Device /\ e \in PortsOf(r, b)
            /\ r.daemon.dev[e] = s.daemon.dev[e]
  <2>1. \A e \in PortsOf(s, b) : e \in Device /\ e # d
    BY <1>1, PortsApart DEF Lists
  <2> QED
    BY <1>7, <1>8, <2>1 DEF Lib
<1>12. Spoken(r)
  BY <1>7 DEF Good, Spoken
<1>13. LibOK(s, b)
  BY DEF Good
<1>14. CASE ~Runs(s, b)
  <2>1. t = r
    BY <1>3, <1>14
  <2>2. LibOK(r, b)
    BY <1>11, <1>13, <1>14 DEF LibOK, LibFits, CfgsKept
  <2>3. Good(r)
    BY <1>7, <1>9, <1>10, <1>12, <2>2 DEF Good
  <2> QED
    BY <1>5, <1>6, <1>7, <2>1, <2>3 DEF SameKernel, Unmoved, Master, Up
<1>15. CASE Runs(s, b)
  <2> DEFINE i == Index(t, d)
             can == CanAddPort(r, d)
  <2>1. d \in PortsOf(r, b) /\ Master(r, d) = b
    BY <1>6, <1>7, <1>8 DEF Master
  <2>2. List(r, b) = list
    BY <1>7
  <2>3. t = AddPortStp(r, d, out)
    BY <1>3, <1>15
  <2>4. /\ Typed(t) /\ Within(r, t, b)
        /\ \A e \in Device \ {d} : Index(t, e) = Index(r, e)
        /\ can =>
             /\ i \in PortNo /\ i \notin DOMAIN Lib(r, b)
             /\ \A j : j \in DOMAIN Lib(t, b) <=> j \in DOMAIN Lib(r, b) \/ j = i
             /\ \A j \in DOMAIN Lib(r, b) : Lib(t, b)[j].cfg = Lib(r, b)[j].cfg
             /\ \A n \in DOMAIN list :
                  (/\ list[n] = d
                   /\ \A m \in DOMAIN list :
                        m < n => list[m] # d /\ Index(r, list[m]) # i)
                  => Lib(t, b)[i].cfg = r.daemon.dev[d].cfg
        /\ ~can =>
             /\ Lib(t, b) = Lib(r, b)
             /\ i \notin PortNo \/ i \in DOMAIN Lib(r, b)
    BY <1>7, <2>1, <2>2, <2>3, AddPortStpIs
  <2> HIDE DEF can
  <2>5. /\ PortsOf(t, b) = PortsOf(r, b) /\ Runs(t, b) /\ Runs(r, b)
        /\ \A e \in Device : t.daemon.dev[e].cfg = r.daemon.dev[e].cfg
        /\ t.daemon.stp[b].cfg = r.daemon.stp[b].cfg
        /\ t.daemon.br[b].cfg = r.daemon.br[b].cfg
    BY <1>11, <1>15, <2>4 DEF Within, Only, SameView, SameDev, SameBr, PortsOf,
       List
  <2>6. \A e \in PortsOf(s, b) : Index(t, e) = Index(s, e)
                                 /\ t.daemon.dev[e].cfg = s.daemon.dev[e].cfg
    BY <1>11, <2>4, <2>5 DEF Index
  <2>7. can => Lib(t, b)[i].cfg = t.daemon.dev[d].cfg
    <3>1. \A m \in DOMAIN list : ~(m < 1)
      BY <1>4
    <3> QED
      BY <1>4, <2>4, <2>5, <3>1
  <2>8. LibFits(t, b)
    <3> SUFFICES ASSUME NEW j \in DOMAIN Lib(t, b)
                 PROVE  \E e \in PortsOf(t, b) : Index(t, e) = j
      BY <2>5 DEF LibFits
    <3>1. CASE j \in DOMAIN Lib(s, b)
      <4>1. PICK e \in PortsOf(s, b) : Index(s, e) = j
        BY <1>13, <3>1 DEF LibOK, LibFits
      <4> QED
        BY <1>11, <2>5, <2>6, <4>1
    <3>2. CASE j \notin DOMAIN Lib(s, b)
      <4>1. j = i
        BY <1>11, <2>4, <3>2
      <4> QED
        BY <2>1, <2>5, <4>1
    <3> QED
      BY <3>1, <3>2
  <2>9. CfgsKept(s, b) => CfgsKept(t, b)
    <3> SUFFICES ASSUME CfgsKept(s, b)
                 PROVE  CfgsKept(t, b)
      OBVIOUS
    <3>1. t.daemon.stp[b].cfg = t.daemon.br[b].cfg
      BY <1>11, <1>15, <2>5 DEF CfgsKept
    <3>2. ASSUME NEW e \in PortsOf(t, b),
                 Index(t, e) \in DOMAIN Lib(t, b), Alone(t, b, e)
          PROVE  t.daemon.dev[e].cfg = Lib(t, b)[Index(t, e)].cfg
      <4>1. CASE e = d
        <5>1. CASE can
          BY <2>7, <4>1, <5>1
        <5>2. CASE ~can
          <6>1. i \in DOMAIN Lib(s, b)
            BY <1>11, <2>4, <3>2, <4>1, <5>2
          <6>2. PICK f \in PortsOf(s, b) : Index(s, f) = i
            BY <1>13, <6>1 DEF LibOK, LibFits
          <6>3. f \in PortsOf(t, b) /\ f # e /\ Index(t, f) = Index(t, e)
            BY <1>11, <2>5, <2>6, <4>1, <6>2
          <6> QED
            BY <3>2, <6>3 DEF Alone
        <5> QED
          BY <5>1, <5>2
      <4>2. CASE e # d
        <5>1. e \in PortsOf(s, b)
          BY <1>8, <2>5, <4>2
        <5>2. Alone(s, b, e)
          BY <1>11, <2>5, <2>6, <3>2, <5>1 DEF Alone
        <5>3. Index(s, e) \in DOMAIN Lib(s, b)
              /\ Lib(t, b)[Index(s, e)].cfg = Lib(s, b)[Index(s, e)].cfg
          <6>1. CASE can
            <7>1. Index(t, e) # i
              BY <2>1, <2>5, <3>2, <4>2 DEF Alone
            <7> QED
              BY <1>11, <2>4, <2>6, <3>2, <5>1, <6>1, <7>1
          <6>2. CASE ~can
            BY <1>11, <2>4, <2>6, <3>2, <5>1, <6>2
          <6> QED
            BY <6>1, <6>2
        <5>4. s.daemon.dev[e].cfg = Lib(s, b)[Index(s, e)].cfg
          BY <1>15, <5>1, <5>2, <5>3 DEF CfgsKept
        <5> QED
          BY <2>6, <5>1, <5>3, <5>4
      <4> QED
        BY <4>1, <4>2
    <3> QED
      BY <3>1, <3>2 DEF CfgsKept
  <2>10. LibOK(t, b)
    BY <1>13, <2>8, <2>9 DEF LibOK
  <2>11. \A c \in Bridge : c # b => LibOK(t, c)
    BY <1>7, <1>9, <1>10, <2>4, OthersKept DEF Within
  <2>12. Lists(t)
    <3>1. \A c \in Bridge : List(t, c) = List(r, c) /\ PortsOf(t, c) = PortsOf(r, c)
                            /\ Runs(t, c) = Runs(r, c)
      BY <2>4 DEF Within, Only, SameView, SameBr, PortsOf, List
    <3>2. t.daemon.known = r.daemon.known
          /\ \A e \in Device : Master(t, e) = Master(r, e)
      BY <2>4 DEF Within, Only, SameView, SameDev, Master
    <3> QED
      BY <1>9, <3>1, <3>2 DEF Lists
  <2>13. Spoken(t)
    BY <1>12, <2>4 DEF Spoken, Within, Only, SameView, SameBr
  <2>14. Good(t)
    BY <2>4, <2>10, <2>11, <2>12, <2>13 DEF Good
  <2>15. SameKernel(s, t) /\ t.daemon.known = known
    BY <1>7, <2>4 DEF Within, Only, SameView, SameKernel
  <2>16. Master(t, d) = b
    BY <2>1, <2>4 DEF Within, Only, SameView, SameDev, Master
  <2>17. \A e \in Device : e # d => Unmoved(s, t, e)
    BY <1>5, <1>7, <2>4, <2>15
       DEF Within, Only, SameView, SameDev, Unmoved, Master, Up
  <2> QED
    BY <1>5, <2>14, <2>15, <2>16, <2>17
<1> QED
  BY <1>14, <1>15

\* delete_if of a bridge deletes the ports of its list, from the head.
DeleteNth(ports, out, n, s) == DeletePort(s, ports[n], out)
Deleting == INSTANCE Folding WITH Step <- DeleteNth, Pick <- Latest

\* The whole list is deleted.
LEMMA DeleteAllIs ==
  ASSUME NEW s, Good(s), NEW b \in Bridge, ~Runs(s, b), NEW out \in Outcome,
         NEW t, t = Deleting!Folded(List(s, b), out, s, DOMAIN List(s, b))
  PROVE  /\ Good(t) /\ SameKernel(s, t) /\ ~Runs(t, b) /\ PortsOf(t, b) = {}
         /\ \A c \in Bridge : c \in t.daemon.known <=> c \in s.daemon.known
         /\ \A e \in Device : e \notin PortsOf(s, b) => Unmoved(s, t, e)
<1> DEFINE list == List(s, b)
           S == DOMAIN list
<1>1. list \in Seq(Device) /\ IsInjective(list) /\ PortsOf(s, b) = Range(list)
  BY DEF Good, Lists, Typed, IsDaemon, IsBr, List, PortsOf
<1>2. t = Deleting!Folded(list, out, s, S)
  OBVIOUS
<1> HIDE DEF list
<1>3. S = 1 .. Len(list) /\ Len(list) \in Nat
  BY <1>1
<1>4. \A n \in S : list[n] \in Device
  BY <1>1
<1>5. \A m, n \in S : list[m] = list[n] => m = n
  BY <1>1 DEF IsInjective
<1>6. \A e : e \in PortsOf(s, b) <=> \E n \in S : list[n] = e
  BY <1>1 DEF Range
<1> HIDE DEF S
<1>7. Deleting!IsFiniteSet(S)
  <2>1. IsFiniteSet(S)
    BY <1>3, FS_Interval
  <2> QED
    BY <2>1 DEF IsFiniteSet, Deleting!IsFiniteSet
<1>8. \A x \in SUBSET S : x # {} => Latest(x) \in x
  BY <1>3, LatestIs
<1>9. PICK f : Deleting!Traces(list, out, s, S, f)
  BY <1>7, <1>8, Deleting!FoldTrace
<1> DEFINE Is(x, u) ==
             /\ Good(u) /\ SameKernel(s, u) /\ ~Runs(u, b)
             /\ \A c \in Bridge : c \in u.daemon.known <=> c \in s.daemon.known
             /\ \A e \in Device : e \notin PortsOf(s, b) => Unmoved(s, u, e)
             /\ \A e : e \in PortsOf(u, b) <=>
                         \E n \in S : list[n] = e /\ n \notin x
           T == {x \in SUBSET S : Is(x, f[x])}
<1>10. {} \in T
  <2>1. f[{}] = s
    BY <1>9 DEF Deleting!Traces
  <2>2. SameKernel(s, s) /\ \A e : Unmoved(s, s, e)
    BY DEF SameKernel, Unmoved
  <2> QED
    BY <1>6, <2>1, <2>2
<1>11. ASSUME NEW x \in SUBSET S, x # {}
       PROVE  \E n \in x : Deleting!Rest(x, n) \in T => x \in T
  <2> DEFINE n == Latest(x)
             y == Deleting!Rest(x, n)
             r == f[y]
             u == f[x]
  <2>1. n \in x /\ u = DeletePort(r, list[n], out)
    BY <1>9, <1>11 DEF DeleteNth, Deleting!Traces
  <2>2. \A m : m \in y <=> m \in x /\ m # n
    BY DEF Deleting!Rest
  <2> HIDE DEF n, y
  <2> SUFFICES ASSUME y \in T
               PROVE  Is(x, u)
    BY <2>1 DEF y
  <2>3. Is(y, r)
    OBVIOUS
  <2> HIDE DEF r, u
  <2>4. n \in S /\ list[n] \in Device /\ list[n] \in PortsOf(r, b)
    BY <1>4, <2>1, <2>2, <2>3
  <2>5. list[n] \in r.daemon.known
    BY <2>3, <2>4 DEF Good, Lists
  <2>6. /\ Good(u) /\ SameKernel(r, u)
        /\ Runs(u, b) = Runs(r, b)
        /\ \A z : z \in u.daemon.known <=> z \in r.daemon.known /\ z # list[n]
        /\ \A e \in Device : e # list[n] => Unmoved(r, u, e)
        /\ \A e : e \in PortsOf(u, b) <=> e \in PortsOf(r, b) /\ e # list[n]
    BY <2>1, <2>3, <2>4, <2>5, DeletePortKeeps
  <2>7. SameKernel(s, u)
    BY <2>3, <2>6 DEF SameKernel
  <2>8. \A e : e \in PortsOf(u, b) <=> \E m \in S : list[m] = e /\ m \notin x
    <3>1. \A e : e \in PortsOf(r, b) <=> \E m \in S : list[m] = e /\ m \notin y
      BY <2>3
    <3> HIDE DEF Is, T
    <3>2. ASSUME NEW e, e \in PortsOf(u, b)
          PROVE  \E m \in S : list[m] = e /\ m \notin x
      <4>1. e # list[n]
        BY <2>6, <3>2
      <4>2. PICK m \in S : list[m] = e /\ m \notin y
        BY <2>6, <3>1, <3>2
      <4> QED
        BY <2>2, <4>1, <4>2
    <3>3. ASSUME NEW m \in S, m \notin x
          PROVE  list[m] \in PortsOf(u, b)
      <4>1. m # n /\ m \notin y
        BY <2>1, <2>2, <3>3
      <4>2. list[m] # list[n]
        BY <1>5, <2>4, <4>1
      <4>3. list[m] \in PortsOf(r, b)
        BY <3>1, <4>1
      <4> QED
        BY <2>6, <4>2, <4>3
    <3> QED
      BY <3>2, <3>3
  <2>9. \A c \in Bridge : c \in u.daemon.known <=> c \in s.daemon.known
    <3>1. \A c \in Bridge : c # list[n]
      BY <2>4, InterfaceAssumption
    <3> QED
      BY <2>3, <2>6, <3>1
  <2>10. \A e \in Device : e \notin PortsOf(s, b) => Unmoved(s, u, e)
    <3>1. list[n] \in PortsOf(s, b)
      BY <1>6, <2>4
    <3>2. \A e \in Device : e \notin PortsOf(s, b) => Unmoved(s, r, e)
      BY <2>3
    <3> QED
      BY <2>6, <3>1, <3>2 DEF Unmoved
  <2> QED
    BY <2>3, <2>6, <2>7, <2>8, <2>9, <2>10
<1>12. S \in T
  <2> HIDE DEF T
  <2> QED
    BY <1>7, <1>10, <1>11, Deleting!SubsetInduction
<1>13. f[S] = t
  BY <1>2, <1>9 DEF Deleting!Traces
<1>14. Is(S, f[S])
  BY <1>12
<1> QED
  BY <1>13, <1>14

\* delete_if of a bridge.
LEMMA DeleteBridgeKeeps ==
  ASSUME NEW s, Good(s), NEW b \in Bridge, NEW out \in Outcome,
         NEW t, t = DeleteBridge(s, b, out)
  PROVE  /\ Good(t) /\ SameKernel(s, t)
         /\ \A c \in Bridge :
              c \in t.daemon.known <=> c \in s.daemon.known /\ c # b
         /\ \A e \in Device : e \notin PortsOf(s, b) => Unmoved(s, t, e)
<1> DEFINE r == ClearBridgeStp(s, b, out)
           bare == Deleting!Folded(List(r, b), out, r, DOMAIN List(r, b))
           known == bare.daemon.known \ {b}
<1>1. t = [bare EXCEPT !.daemon.br[b] = NewBridge, !.daemon.known = @ \ {b}]
  BY DEF DeleteBridge, List, FoldLeft, MapThenFoldSet, Deleting!Folded,
     DeleteNth, Latest
<1>2. Good(r) /\ Only(s, r, b) /\ ~Runs(r, b)
  <2>1. r = ClearBridgeStp(s, b, out)
    OBVIOUS
  <2> HIDE DEF r
  <2> QED
    BY <2>1, ClearBridgeStpKeeps
<1> HIDE DEF r
<1>3. /\ Good(bare) /\ SameKernel(r, bare) /\ ~Runs(bare, b)
      /\ PortsOf(bare, b) = {}
      /\ \A c \in Bridge : c \in bare.daemon.known <=> c \in r.daemon.known
      /\ \A e \in Device : e \notin PortsOf(r, b) => Unmoved(r, bare, e)
  <2>1. bare = Deleting!Folded(List(r, b), out, r, DOMAIN List(r, b))
    OBVIOUS
  <2> HIDE DEF bare
  <2> QED
    BY <1>2, <2>1, DeleteAllIs
<1> HIDE DEF bare
<1>4. t = Reset(bare, b, known)
  BY <1>1, <1>3 DEF Reset, Good, Typed, IsDaemon
<1>5. known \in SUBSET Interface /\ b \notin known
      /\ \A x : x # b => (x \in known <=> x \in bare.daemon.known)
  BY <1>3 DEF Good, Typed, IsDaemon
<1> HIDE DEF known
<1>6. /\ Good(t) /\ t.kernel = bare.kernel
      /\ t.daemon.known = known /\ t.daemon.dev = bare.daemon.dev
  BY <1>3, <1>4, <1>5, ResetKeeps
<1>7. SameKernel(s, t)
  BY <1>2, <1>3, <1>6 DEF SameKernel, Only, SameView
<1>8. r.daemon.known = s.daemon.known /\ PortsOf(r, b) = PortsOf(s, b)
      /\ \A e \in Device : Unmoved(s, r, e)
  BY <1>2 DEF Only, SameView, SameBr, SameDev, PortsOf, List, Unmoved, Master, Up
<1>9. \A c \in Bridge : c \in t.daemon.known <=> c \in s.daemon.known /\ c # b
  BY <1>3, <1>5, <1>6, <1>8
<1>10. ASSUME NEW e \in Device, e \notin PortsOf(s, b)
       PROVE  Unmoved(s, t, e)
  <2>1. e # b
    BY InterfaceAssumption
  <2>2. Unmoved(bare, t, e)
    BY <1>5, <1>6, <2>1 DEF Unmoved, Master, Up
  <2>3. Unmoved(r, bare, e) /\ Unmoved(s, r, e)
    BY <1>3, <1>8, <1>10
  <2> QED
    BY <2>2, <2>3 DEF Unmoved
<1> QED
  BY <1>6, <1>7, <1>9, <1>10

-----------------------------------------------------------------------------
(* Interfaces going up and down.                                           *)

\* What the daemon keeps of a bridge changes, and whether it may send.
Told(s, b, r, said) ==
  [s EXCEPT !.daemon.br[b] = r, !.daemon.stp_up = said]

\* A change of it that leaves the port list, the protocol and the
\* configuration of the bridge alone.
LEMMA TellKeeps ==
  ASSUME NEW s, Good(s), NEW b \in Bridge, NEW r, IsBr(r),
         r.port_list = List(s, b), r.stp_up = Runs(s, b),
         r.cfg = s.daemon.br[b].cfg,
         NEW said \in BOOLEAN, s.daemon.stp_up => said, r.do_stp => said,
         NEW t, t = Told(s, b, r, said)
  PROVE  /\ Good(t) /\ t.kernel = s.kernel
         /\ t.daemon.known = s.daemon.known
         /\ t.daemon.dev = s.daemon.dev
         /\ t.daemon.br[b] = r
<1> DEFINE u == Recorded(s, b, r)
<1>1. Typed(s) /\ Lists(s)
  BY DEF Good
<1>2. /\ Typed(u)
      /\ u.kernel = s.kernel
      /\ u.daemon.known = s.daemon.known
      /\ u.daemon.dev = s.daemon.dev /\ u.daemon.stp = s.daemon.stp
      /\ u.daemon.br[b] = r
      /\ \A c \in Bridge \ {b} : u.daemon.br[c] = s.daemon.br[c]
  BY <1>1, BridgeChanges
<1>3. t = [u EXCEPT !.daemon.stp_up = said]
  <2>1. DOMAIN s = {"kernel", "daemon"}
        /\ DOMAIN s.daemon = {"known", "stp_up", "br", "dev", "stp"}
    BY <1>1 DEF Typed, IsDaemon
  <2> QED
    BY <2>1 DEF Told, Recorded
<1> HIDE DEF u
<1>4. /\ t.kernel = s.kernel /\ DOMAIN t = {"kernel", "daemon"}
      /\ DOMAIN t.daemon = DOMAIN u.daemon
      /\ t.daemon.known = s.daemon.known
      /\ t.daemon.stp_up = said
      /\ t.daemon.dev = s.daemon.dev /\ t.daemon.stp = s.daemon.stp
      /\ t.daemon.br = u.daemon.br
  BY <1>2, <1>3 DEF Typed, IsDaemon
<1>5. Typed(t)
  BY <1>2, <1>4 DEF Typed, IsDaemon
<1>6. t.daemon.br[b] = r /\ \A c \in Bridge : c # b => t.daemon.br[c] = s.daemon.br[c]
  BY <1>2, <1>4
<1>7. \A c \in Bridge : /\ List(t, c) = List(s, c)
                        /\ Runs(t, c) = Runs(s, c)
                        /\ t.daemon.br[c].cfg = s.daemon.br[c].cfg
                        /\ t.daemon.br[c].do_stp => said
  <2>1. \A c \in Bridge : s.daemon.br[c].do_stp => said
    BY DEF Good, Spoken
  <2> QED
    BY <1>6, <2>1 DEF List, Runs
<1>8. Spoken(t)
  BY <1>4, <1>7 DEF Spoken
<1>9. \A c \in Bridge : PortsOf(t, c) = PortsOf(s, c)
  BY <1>7 DEF PortsOf
<1>10. Lists(t)
  BY <1>1, <1>4, <1>7, <1>9 DEF Lists, Master
<1>11. \A c \in Bridge : LibOK(t, c)
  <2> SUFFICES ASSUME NEW c \in Bridge
               PROVE  LibOK(t, c)
    OBVIOUS
  <2>1. LibOK(s, c)
    BY DEF Good
  <2>2. Runs(t, c) = Runs(s, c) /\ PortsOf(t, c) = PortsOf(s, c)
        /\ t.daemon.br[c].cfg = s.daemon.br[c].cfg
        /\ t.daemon.dev = s.daemon.dev /\ t.daemon.stp = s.daemon.stp
    BY <1>4, <1>7, <1>9
  <2>3. \A e : Index(t, e) = Index(s, e)
    BY <2>2 DEF Index
  <2>4. \A e : Alone(t, c, e) <=> Alone(s, c, e)
    BY <2>2, <2>3 DEF Alone
  <2>5. LibFits(t, c)
    BY <2>1, <2>2, <2>3 DEF LibOK, LibFits, Lib
  <2>6. OneField => CfgsKept(t, c)
    BY <2>1, <2>2, <2>3, <2>4 DEF LibOK, CfgsKept, Lib
  <2> QED
    BY <2>5, <2>6 DEF LibOK
<1> QED
  BY <1>4, <1>5, <1>6, <1>8, <1>10, <1>11 DEF Good

\* bridge_track.c, set_br_up.
LEMMA SetBrUpKeeps ==
  ASSUME NEW s, Good(s), NEW b \in Bridge, b \in s.daemon.known,
         NEW up \in BOOLEAN, NEW out \in Outcome,
         NEW t, t = SetBrUp(s, b, up, out)
  PROVE  /\ Good(t) /\ SameKernel(s, t)
         /\ t.daemon.known = s.daemon.known
         /\ \A e \in Device : Unmoved(s, t, e)
<1> DEFINE r == [s.daemon.br[b] EXCEPT !.up = up]
           u == [s EXCEPT !.daemon.br[b].up = up]
<1>1. Typed(s) /\ IsBr(s.daemon.br[b]) /\ s.daemon.stp_up \in BOOLEAN
      /\ (s.daemon.br[b].do_stp => s.daemon.stp_up)
  BY DEF Good, Typed, IsDaemon, Spoken
<1>2. /\ IsBr(r) /\ r.port_list = List(s, b) /\ r.stp_up = Runs(s, b)
      /\ r.cfg = s.daemon.br[b].cfg /\ r.do_stp = s.daemon.br[b].do_stp
  BY <1>1 DEF IsBr, List, Runs
<1>3. u = Told(s, b, r, s.daemon.stp_up)
  <2>1. DOMAIN s = {"kernel", "daemon"}
        /\ DOMAIN s.daemon = {"known", "stp_up", "br", "dev", "stp"}
        /\ DOMAIN s.daemon.br = Bridge
    BY <1>1 DEF Typed, IsDaemon
  <2> QED
    BY <2>1 DEF Told
<1>4. t = IF s.daemon.br[b].stp_up = StpEnabled(s, b) THEN u
          ELSE IF StpEnabled(s, b) THEN InitBridgeStp(u, b, out)
          ELSE ClearBridgeStp(u, b, out)
  BY DEF SetBrUp
<1> HIDE DEF r, u
<1>5. /\ Good(u) /\ u.kernel = s.kernel
      /\ u.daemon.known = s.daemon.known /\ u.daemon.dev = s.daemon.dev
  BY <1>1, <1>2, <1>3, TellKeeps
<1>6. SameKernel(s, u) /\ \A e \in Device : Unmoved(s, u, e)
  BY <1>5 DEF SameKernel, Unmoved, Master, Up
<1>7. CASE t = u
  BY <1>5, <1>6, <1>7
<1>8. CASE t = InitBridgeStp(u, b, out)
  <2>1. Good(t) /\ Only(u, t, b)
    BY <1>5, <1>8, InitBridgeStpKeeps
  <2> QED
    BY <1>5, <1>6, <2>1 DEF Only, SameView, SameDev, SameKernel, Unmoved,
       Master, Up
<1>9. CASE t = ClearBridgeStp(u, b, out)
  <2>1. Good(t) /\ Only(u, t, b)
    BY <1>5, <1>9, ClearBridgeStpKeeps
  <2> QED
    BY <1>5, <1>6, <2>1 DEF Only, SameView, SameDev, SameKernel, Unmoved,
       Master, Up
<1> QED
  BY <1>4, <1>7, <1>8, <1>9

\* What the daemon keeps of a port changes, as far as types go.
Kept(s, d, p) == [s EXCEPT !.daemon.dev[d] = p]

\* A new record for one port changes nothing else.
LEMMA DevChange ==
  ASSUME NEW s, Typed(s), NEW d \in Device, NEW p, IsDev(p),
         NEW t, t = Kept(s, d, p)
  PROVE  /\ Typed(t) /\ t.kernel = s.kernel
         /\ t.daemon.known = s.daemon.known /\ t.daemon.stp_up = s.daemon.stp_up
         /\ t.daemon.br = s.daemon.br /\ t.daemon.stp = s.daemon.stp
         /\ t.daemon.dev[d] = p
         /\ \A e \in Device : e # d => t.daemon.dev[e] = s.daemon.dev[e]
<1> DEFINE m == [s.daemon EXCEPT !.dev = [@ EXCEPT ![d] = p]]
<1>1. DOMAIN s = {"kernel", "daemon"} /\ "dev" \in DOMAIN s.daemon
      /\ d \in DOMAIN s.daemon.dev
  BY DEF Typed, IsDaemon
<1>2. t = [s EXCEPT !.daemon = m]
  BY <1>1 DEF Kept
<1>3. /\ DOMAIN m = DOMAIN s.daemon
      /\ m.known = s.daemon.known /\ m.stp_up = s.daemon.stp_up
      /\ m.br = s.daemon.br /\ m.stp = s.daemon.stp
      /\ DOMAIN m.dev = Device /\ m.dev[d] = p
      /\ \A e \in Device : e # d => m.dev[e] = s.daemon.dev[e]
  BY <1>1 DEF Typed, IsDaemon
<1> HIDE DEF m
<1>4. IsDaemon(m)
  BY <1>3 DEF Typed, IsDaemon
<1>5. t.kernel = s.kernel /\ t.daemon = m /\ DOMAIN t = {"kernel", "daemon"}
  BY <1>1, <1>2
<1> QED
  BY <1>3, <1>4, <1>5 DEF Typed

\* bridge_track.c, set_if_up of a port.
LEMMA SetIfUpKeeps ==
  ASSUME NEW s, Good(s), NEW d \in Device, NEW up \in BOOLEAN,
         NEW t, t = SetIfUp(s, d, up)
  PROVE  /\ Good(t) /\ SameKernel(s, t)
         /\ t.daemon.known = s.daemon.known
         /\ Master(t, d) = Master(s, d) /\ Up(t, d) = up
         /\ \A e \in Device : e # d => Unmoved(s, t, e)
<1> DEFINE p == [s.daemon.dev[d] EXCEPT !.up = up]
<1>1. Typed(s) /\ Lists(s) /\ IsDev(s.daemon.dev[d])
  BY DEF Good, Typed, IsDaemon
<1>2. /\ IsDev(p) /\ p.master = Master(s, d) /\ p.port_index = Index(s, d)
      /\ p.cfg = s.daemon.dev[d].cfg /\ p.up = up
  BY <1>1 DEF IsDev, Master, Index
<1>3. t = Kept(s, d, p)
  <2>1. DOMAIN s = {"kernel", "daemon"} /\ "dev" \in DOMAIN s.daemon
        /\ d \in DOMAIN s.daemon.dev
    BY <1>1 DEF Typed, IsDaemon
  <2> QED
    BY <2>1 DEF SetIfUp, Kept
<1> HIDE DEF p
<1>4. /\ Typed(t) /\ t.kernel = s.kernel
      /\ t.daemon.known = s.daemon.known /\ t.daemon.stp_up = s.daemon.stp_up
      /\ t.daemon.br = s.daemon.br /\ t.daemon.stp = s.daemon.stp
      /\ t.daemon.dev[d] = p
      /\ \A e \in Device : e # d => t.daemon.dev[e] = s.daemon.dev[e]
  BY <1>1, <1>2, <1>3, DevChange
<1>5. \A e \in Device : /\ Master(t, e) = Master(s, e)
                        /\ Index(t, e) = Index(s, e)
                        /\ t.daemon.dev[e].cfg = s.daemon.dev[e].cfg
  BY <1>2, <1>4 DEF Master, Index
<1>6. \A c \in Bridge : List(t, c) = List(s, c) /\ Runs(t, c) = Runs(s, c)
                        /\ PortsOf(t, c) = PortsOf(s, c)
  BY <1>4 DEF List, Runs, PortsOf
<1>7. Lists(t)
  BY <1>1, <1>4, <1>5, <1>6 DEF Lists
<1>8. \A c \in Bridge : LibOK(t, c)
  <2> SUFFICES ASSUME NEW c \in Bridge
               PROVE  LibOK(t, c)
    OBVIOUS
  <2>1. LibOK(s, c)
    BY DEF Good
  <2>2. \A e \in PortsOf(s, c) : e \in Device
    BY <1>1, PortsApart
  <2>3. Runs(t, c) = Runs(s, c) /\ PortsOf(t, c) = PortsOf(s, c)
        /\ t.daemon.br = s.daemon.br /\ t.daemon.stp = s.daemon.stp
    BY <1>4, <1>6
  <2>4. \A e \in PortsOf(s, c) : Alone(t, c, e) <=> Alone(s, c, e)
    BY <1>5, <2>2, <2>3 DEF Alone
  <2>5. LibFits(t, c)
    BY <1>5, <2>1, <2>2, <2>3 DEF LibOK, LibFits, Lib
  <2>6. OneField => CfgsKept(t, c)
    BY <1>5, <2>1, <2>2, <2>3, <2>4 DEF LibOK, CfgsKept, Lib
  <2> QED
    BY <2>5, <2>6 DEF LibOK
<1>9. Spoken(t)
  BY <1>4 DEF Good, Spoken
<1>10. Up(t, d) = up /\ \A e \in Device : e # d => Unmoved(s, t, e)
  BY <1>2, <1>4 DEF Up, Unmoved, Master
<1> QED
  BY <1>4, <1>5, <1>7, <1>8, <1>9, <1>10 DEF Good, SameKernel

-----------------------------------------------------------------------------
(* bridge_notify.                                                          *)

\* The bridge of a message is known, and up, afterwards.
LEMMA BridgeOfKeeps ==
  ASSUME NEW s, Good(s), NEW b \in Bridge, NEW out \in Outcome,
         NEW t, t = BridgeOf(s, b, out)
  PROVE  /\ Good(t) /\ SameKernel(s, t)
         /\ \A x : x \in t.daemon.known <=> x \in s.daemon.known \/ x = b
         /\ \A e \in Device : Unmoved(s, t, e)
<1> DEFINE u == IF b \in s.daemon.known THEN s ELSE CreateBridge(s, b)
<1>1. t = IF u.daemon.br[b].up THEN u ELSE SetBrUp(u, b, TRUE, out)
  BY DEF BridgeOf
<1>2. /\ Good(u) /\ SameKernel(s, u)
      /\ \A x : x \in u.daemon.known <=> x \in s.daemon.known \/ x = b
      /\ \A e \in Device : Unmoved(s, u, e)
  <2>1. CASE b \in s.daemon.known
    BY <2>1 DEF SameKernel, Unmoved
  <2>2. CASE b \notin s.daemon.known
    <3>1. u = CreateBridge(s, b)
      BY <2>2
    <3> HIDE DEF u
    <3>2. /\ Good(u) /\ u.kernel = s.kernel /\ u.daemon.dev = s.daemon.dev
          /\ \A x : x \in u.daemon.known <=> x \in s.daemon.known \/ x = b
      BY <2>2, <3>1, CreateBridgeKeeps
    <3>3. \A e \in Device : e # b
      BY InterfaceAssumption
    <3> QED
      BY <3>2, <3>3 DEF SameKernel, Unmoved, Master, Up
  <2> QED
    BY <2>1, <2>2
<1> HIDE DEF u
<1>3. CASE t = u
  BY <1>2, <1>3
<1>4. CASE t = SetBrUp(u, b, TRUE, out)
  <2> DEFINE up == TRUE
  <2>0. up \in BOOLEAN /\ t = SetBrUp(u, b, up, out)
    BY <1>4
  <2> HIDE DEF up
  <2>1. /\ Good(t) /\ SameKernel(u, t) /\ t.daemon.known = u.daemon.known
        /\ \A e \in Device : Unmoved(u, t, e)
    BY <1>2, <2>0, SetBrUpKeeps
  <2> QED
    BY <1>2, <2>1 DEF SameKernel, Unmoved
<1> QED
  BY <1>1, <1>3, <1>4

\* The port of a message is known afterwards.
LEMMA PortOfKeeps ==
  ASSUME NEW s, Good(s), NEW d \in Device, NEW b \in Bridge,
         b \in s.daemon.known, NEW out \in Outcome,
         NEW t, t = PortOf(s, d, b, out)
  PROVE  /\ Good(t) /\ SameKernel(s, t)
         /\ d \in t.daemon.known /\ Master(t, d) = b
         /\ \A c \in Bridge : c \in t.daemon.known <=> c \in s.daemon.known
         /\ \A e \in Device : e # d => Unmoved(s, t, e)
<1> DEFINE strayed == d \in s.daemon.known /\ s.daemon.dev[d].master # b
           u == IF strayed THEN DeletePort(s, d, out) ELSE s
<1>1. t = IF d \in u.daemon.known THEN u ELSE CreatePort(u, d, b, out)
  BY DEF PortOf
<1>0. \A c \in Bridge : c # d
  BY InterfaceAssumption
<1>2. /\ Good(u) /\ SameKernel(s, u)
      /\ d \in u.daemon.known => Master(u, d) = b
      /\ \A c \in Bridge : c \in u.daemon.known <=> c \in s.daemon.known
      /\ \A e \in Device : e # d => Unmoved(s, u, e)
  <2>1. CASE strayed
    <3>1. u = DeletePort(s, d, out) /\ d \in s.daemon.known
      BY <2>1
    <3> HIDE DEF u, strayed
    <3> QED
      BY <1>0, <3>1, DeletePortKeeps
  <2>2. CASE ~strayed
    BY <2>2 DEF SameKernel, Unmoved, Master
  <2> QED
    BY <2>1, <2>2
<1> HIDE DEF u
<1>3. CASE d \in u.daemon.known
  BY <1>1, <1>2, <1>3
<1>4. CASE d \notin u.daemon.known
  <2>1. t = CreatePort(u, d, b, out)
    BY <1>1, <1>4
  <2>2. /\ Good(t) /\ SameKernel(u, t)
        /\ \A x : x \in t.daemon.known <=> x \in u.daemon.known \/ x = d
        /\ Master(t, d) = b
        /\ \A e \in Device : e # d => Unmoved(u, t, e)
    BY <1>2, <1>4, <2>1, CreatePortKeeps
  <2>3. SameKernel(s, t)
    BY <1>2, <2>2 DEF SameKernel
  <2>4. \A e \in Device : e # d => Unmoved(s, t, e)
    BY <1>2, <2>2 DEF Unmoved
  <2> QED
    BY <1>0, <1>2, <2>2, <2>3, <2>4
<1> QED
  BY <1>3, <1>4

\* A message that has a master is about a port.
Addressed(m) == m \in Message /\ (m.master # NoBridge => m.if \in Device)

\* Message m says of a device what kernel k has of it: that it left, or is
\* of no bridge, or is of that bridge and has that link.
Reflects(k, m) ==
  IF k.member[m.if] = NoBridge THEN m.master = NoBridge <=> m.newlink
  ELSE m.master = k.member[m.if] /\ m.up = k.oper[m.if]

\* The daemon has device d as the kernel has it.
Agrees(s, d) ==
  /\ d \in s.daemon.known <=> s.kernel.member[d] # NoBridge
  /\ d \in s.daemon.known =>
       Master(s, d) = s.kernel.member[d] /\ Up(s, d) = s.kernel.oper[d]

\* The message takes leave of bridge b.
Ends(m, b) == m.if = b /\ ~m.newlink

\* What the daemon makes of a message: no bridge is known then that was not
\* before, unless the message names it or the kernel has it; of the other
\* devices only those of a bridge that ended are touched; and a message that
\* is up to date brings the daemon up to date.
Handled(s, m, t) ==
  /\ \A c \in Bridge : c \in t.daemon.known =>
       c \in s.daemon.known \/ c = m.master \/ c \in s.kernel.bridges
  /\ \A c \in Bridge : Ends(m, c) => c \notin t.daemon.known
  /\ \A e \in Device : e # m.if =>
       \/ Unmoved(s, t, e)
       \/ \E c \in Bridge : Ends(m, c) /\ e \in PortsOf(s, c)
  /\ m.if \in Device /\ Reflects(s.kernel, m) => Agrees(t, m.if)

\* A message about a port of a bridge.
LEMMA SlaveNotifiedKeeps ==
  ASSUME NEW s, Good(s), NEW m, Addressed(m), m.master # NoBridge,
         NEW out \in Outcome, NEW t, t = SlaveNotified(s, m, out)
  PROVE  Good(t) /\ SameKernel(s, t) /\ Handled(s, m, t)
<1> DEFINE b == m.master
           d == m.if
           up == m.up
           r == BridgeOf(s, b, out)
           u == PortOf(r, d, b, out)
           gone == ~m.newlink /\ ~IsBridgeSlave(u, b, d)
<1>1. b \in Bridge /\ d \in Device /\ up \in BOOLEAN
  BY DEF Addressed, Message
<1>2. t = IF gone THEN DeletePort(u, d, out) ELSE SetIfUp(u, d, up)
  BY DEF SlaveNotified
<1>3. /\ Good(r) /\ SameKernel(s, r)
      /\ \A x : x \in r.daemon.known <=> x \in s.daemon.known \/ x = b
      /\ \A e \in Device : Unmoved(s, r, e)
  <2>1. r = BridgeOf(s, b, out)
    OBVIOUS
  <2> HIDE DEF r, b
  <2> QED
    BY <1>1, <2>1, BridgeOfKeeps
<1> HIDE DEF r
<1>4. /\ Good(u) /\ SameKernel(r, u)
      /\ d \in u.daemon.known /\ Master(u, d) = b
      /\ \A c \in Bridge : c \in u.daemon.known <=> c \in r.daemon.known
      /\ \A e \in Device : e # d => Unmoved(r, u, e)
  <2>1. u = PortOf(r, d, b, out)
    OBVIOUS
  <2> HIDE DEF u, b, d
  <2> QED
    BY <1>1, <1>3, <2>1, PortOfKeeps
<1>5. /\ Reflects(s.kernel, m) /\ gone => s.kernel.member[d] = NoBridge
      /\ Reflects(s.kernel, m) /\ ~gone =>
           s.kernel.member[d] = b /\ s.kernel.oper[d] = up
  <2>1. u.kernel.member = s.kernel.member
    BY <1>3, <1>4 DEF SameKernel
  <2>2. gone <=> ~m.newlink /\ s.kernel.member[d] # b
    BY <2>1 DEF IsBridgeSlave
  <2>3. b # NoBridge
    OBVIOUS
  <2> QED
    BY <2>2, <2>3 DEF Reflects
<1>6. \A c \in Bridge : c # d
  BY <1>1, InterfaceAssumption
<1> HIDE DEF u, b, d, up, gone
<1>7. /\ Good(t) /\ SameKernel(u, t)
      /\ \A c \in Bridge : c \in t.daemon.known <=> c \in u.daemon.known
      /\ \A e \in Device : e # d => Unmoved(u, t, e)
      /\ gone => d \notin t.daemon.known
      /\ ~gone => d \in t.daemon.known /\ Master(t, d) = b /\ Up(t, d) = up
  <2>1. CASE gone
    <3>1. t = DeletePort(u, d, out)
      BY <1>2, <2>1
    <3>2. /\ Good(t) /\ SameKernel(u, t)
          /\ \A x : x \in t.daemon.known <=> x \in u.daemon.known /\ x # d
          /\ \A e \in Device : e # d => Unmoved(u, t, e)
      BY <1>1, <1>4, <3>1, DeletePortKeeps
    <3> QED
      BY <1>6, <2>1, <3>2
  <2>2. CASE ~gone
    <3>1. t = SetIfUp(u, d, up)
      BY <1>2, <2>2
    <3>2. /\ Good(t) /\ SameKernel(u, t)
          /\ t.daemon.known = u.daemon.known
          /\ Master(t, d) = Master(u, d) /\ Up(t, d) = up
          /\ \A e \in Device : e # d => Unmoved(u, t, e)
      BY <1>1, <1>4, <3>1, SetIfUpKeeps
    <3> QED
      BY <1>4, <2>2, <3>2
  <2> QED
    BY <2>1, <2>2
<1>8. SameKernel(s, t)
  BY <1>3, <1>4, <1>7 DEF SameKernel
<1>9. \A e \in Device : e # d => Unmoved(s, t, e)
  BY <1>3, <1>4, <1>7 DEF Unmoved
<1>10. \A c \in Bridge : c \in t.daemon.known => c \in s.daemon.known \/ c = b
  BY <1>3, <1>4, <1>7
<1>11. ASSUME Reflects(s.kernel, m)
       PROVE  Agrees(t, d)
  <2>1. t.kernel.member = s.kernel.member /\ t.kernel.oper = s.kernel.oper
    BY <1>8 DEF SameKernel
  <2>2. b # NoBridge
    BY DEF b
  <2>3. CASE gone
    BY <1>5, <1>7, <1>11, <2>1, <2>3 DEF Agrees
  <2>4. CASE ~gone
    BY <1>5, <1>7, <1>11, <2>1, <2>2, <2>4 DEF Agrees
  <2> QED
    BY <2>3, <2>4
<1>12. \A c \in Bridge : ~Ends(m, c)
  BY <1>6 DEF Ends, d
<1>13. Handled(s, m, t)
  BY <1>9, <1>10, <1>11, <1>12 DEF Handled, b, d
<1> QED
  BY <1>7, <1>8, <1>13

\* A NEWLINK that has no master.
LEMMA NewLinkNotifiedKeeps ==
  ASSUME NEW s, Good(s), NEW m, m \in Message, m.master = NoBridge, m.newlink,
         NEW out \in Outcome, NEW t, t = NewLinkNotified(s, m, out)
  PROVE  Good(t) /\ SameKernel(s, t) /\ Handled(s, m, t)
<1> DEFINE if == m.if
           up == m.up
           u == IF if \notin s.daemon.known /\ IsBridge(s, if)
                THEN CreateBridge(s, if) ELSE s
<1>1. if \in Bridge \cup Device /\ up \in BOOLEAN
  BY DEF Message, Interface
<1>2. \/ if \notin u.daemon.known /\ t = u
      \/ if \in Bridge /\ t = u
      \/ if \in Bridge /\ if \in u.daemon.known /\ t = SetBrUp(u, if, up, out)
      \/ if \notin Bridge /\ if \in u.daemon.known /\ t = DeletePort(u, if, out)
      \/ /\ if \notin Bridge /\ if \in u.daemon.known
         /\ IsBridgeSlave(u, Master(u, if), if) /\ t = SetIfUp(u, if, up)
  BY DEF NewLinkNotified, Master
<1>3. /\ Good(u) /\ SameKernel(s, u)
      /\ \A x : x \in u.daemon.known =>
           x \in s.daemon.known \/ x \in s.kernel.bridges
      /\ \A e \in Device : Unmoved(s, u, e)
  <2>1. CASE if \notin s.daemon.known /\ IsBridge(s, if)
    <3>1. if \in Bridge /\ if \in s.kernel.bridges
      BY <2>1 DEF Good, Typed, IsKernel, IsBridge
    <3>2. u = CreateBridge(s, if)
      BY <2>1
    <3>3. if \notin s.daemon.known /\ \A e \in Device : e # if
      BY <2>1, <3>1, InterfaceAssumption
    <3> HIDE DEF u, if
    <3>4. /\ Good(u) /\ u.kernel = s.kernel
          /\ \A x : x \in u.daemon.known <=> x \in s.daemon.known \/ x = if
          /\ u.daemon.dev = s.daemon.dev
      BY <3>1, <3>2, <3>3, CreateBridgeKeeps
    <3> QED
      BY <3>1, <3>3, <3>4 DEF SameKernel, Unmoved, Master, Up
  <2>2. CASE ~(if \notin s.daemon.known /\ IsBridge(s, if))
    BY <2>2 DEF SameKernel, Unmoved
  <2> QED
    BY <2>1, <2>2
<1>4. \A c \in Bridge : ~Ends(m, c)
  BY DEF Ends
<1>5. Reflects(s.kernel, m) => s.kernel.member[if] = NoBridge
  <2>1. if \in Device /\ s.kernel.member[if] # NoBridge =>
          s.kernel.member[if] \in Bridge
    BY DEF Good, Typed, IsKernel
  <2> QED
    BY <2>1 DEF Reflects
<1> HIDE DEF u, if, up
<1>6. /\ Good(t) /\ SameKernel(u, t)
      /\ \A c \in Bridge : c \in t.daemon.known => c \in u.daemon.known
      /\ \A e \in Device : e # if => Unmoved(u, t, e)
      /\ if \in Device /\ s.kernel.member[if] = NoBridge =>
           if \notin t.daemon.known
  <2>1. CASE if \notin u.daemon.known /\ t = u
    BY <1>3, <2>1 DEF SameKernel, Unmoved
  <2>2. CASE if \in Bridge /\ t = u
    BY <1>3, <2>2, InterfaceAssumption DEF SameKernel, Unmoved
  <2>3. CASE if \in Bridge /\ if \in u.daemon.known /\ t = SetBrUp(u, if, up, out)
    <3>1. /\ Good(t) /\ SameKernel(u, t) /\ t.daemon.known = u.daemon.known
          /\ \A e \in Device : Unmoved(u, t, e)
      BY <1>1, <1>3, <2>3, SetBrUpKeeps
    <3> QED
      BY <2>3, <3>1, InterfaceAssumption
  <2>4. CASE if \notin Bridge /\ if \in u.daemon.known /\ t = DeletePort(u, if, out)
    BY <1>1, <1>3, <2>4, DeletePortKeeps
  <2>5. CASE /\ if \notin Bridge /\ if \in u.daemon.known
             /\ IsBridgeSlave(u, Master(u, if), if) /\ t = SetIfUp(u, if, up)
    <3>1. /\ Good(t) /\ SameKernel(u, t) /\ t.daemon.known = u.daemon.known
          /\ \A e \in Device : e # if => Unmoved(u, t, e)
      BY <1>1, <1>3, <2>5, SetIfUpKeeps
    <3>2. Master(u, if) \in Bridge
      BY <1>1, <1>3, <2>5 DEF Good, Lists
    <3>3. s.kernel.member[if] = Master(u, if)
      BY <1>3, <2>5 DEF IsBridgeSlave, SameKernel
    <3>4. s.kernel.member[if] # NoBridge
      BY <3>2, <3>3, InterfaceAssumption
    <3> QED
      BY <3>1, <3>4
  <2> QED
    BY <1>2, <2>1, <2>2, <2>3, <2>4, <2>5
<1>7. SameKernel(s, t)
  BY <1>3, <1>6 DEF SameKernel
<1>8. \A e \in Device : e # if => Unmoved(s, t, e)
  BY <1>3, <1>6 DEF Unmoved
<1>9. if \in Device /\ Reflects(s.kernel, m) => Agrees(t, if)
  BY <1>5, <1>6, <1>7 DEF Agrees, SameKernel
<1>10. Handled(s, m, t)
  BY <1>3, <1>4, <1>6, <1>8, <1>9 DEF Handled, if
<1> QED
  BY <1>6, <1>7, <1>10

\* bridge_notify.
LEMMA BridgeNotifyKeeps ==
  ASSUME NEW s, Good(s), NEW m, Addressed(m), NEW out \in Outcome,
         NEW t, t = BridgeNotify(s, m, out)
  PROVE  Good(t) /\ SameKernel(s, t) /\ Handled(s, m, t)
<1>1. m \in Message /\ m.if \in Bridge \cup Device
  BY DEF Addressed, Message, Interface
<1>2. CASE m.master # NoBridge
  <2>1. t = SlaveNotified(s, m, out)
    BY <1>2 DEF BridgeNotify
  <2> QED
    BY <1>2, <2>1, SlaveNotifiedKeeps
<1>3. CASE m.master = NoBridge /\ m.newlink
  <2>1. t = NewLinkNotified(s, m, out)
    BY <1>3 DEF BridgeNotify
  <2> QED
    BY <1>1, <1>3, <2>1, NewLinkNotifiedKeeps
<1>4. CASE m.master = NoBridge /\ ~m.newlink
  <2> DEFINE if == m.if
  <2>1. \/ if \notin s.daemon.known /\ t = s
        \/ if \in Bridge /\ t = DeleteBridge(s, if, out)
        \/ if \notin Bridge /\ if \in s.daemon.known /\ t = DeletePort(s, if, out)
    BY <1>4 DEF BridgeNotify, DeleteIf
  <2>2. if \in Bridge \cup Device
    BY <1>1
  <2>3. if \in Device => ~Reflects(s.kernel, m)
    <3>1. if \in Device => s.kernel.member[if] \in Bridge \cup {NoBridge}
      BY DEF Good, Typed, IsKernel
    <3> QED
      BY <1>4, <3>1 DEF Reflects
  <2>4. \A c : Ends(m, c) <=> c = if
    BY <1>4 DEF Ends
  <2> HIDE DEF if
  <2>5. /\ Good(t) /\ SameKernel(s, t)
        /\ \A c \in Bridge : c \in t.daemon.known => c \in s.daemon.known /\ c # if
        /\ \A e \in Device : e # if =>
             Unmoved(s, t, e) \/ (if \in Bridge /\ e \in PortsOf(s, if))
    <3>1. CASE if \notin s.daemon.known /\ t = s
      BY <3>1 DEF SameKernel, Unmoved
    <3>2. CASE if \in Bridge /\ t = DeleteBridge(s, if, out)
      BY <3>2, DeleteBridgeKeeps
    <3>3. CASE if \notin Bridge /\ if \in s.daemon.known
               /\ t = DeletePort(s, if, out)
      BY <2>2, <3>3, DeletePortKeeps
    <3> QED
      BY <2>1, <3>1, <3>2, <3>3
  <2>6. Handled(s, m, t)
    BY <2>3, <2>4, <2>5 DEF Handled, if
  <2> QED
    BY <2>5, <2>6
<1> QED
  BY <1>2, <1>3, <1>4

-----------------------------------------------------------------------------
(* Commands of rstpctl.                                                    *)

\* CTL_enable_bridge_rstp of a bridge that is known.
Asked(s, b, enable) ==
  [s EXCEPT !.daemon.br[b].do_stp = enable, !.daemon.stp_up = TRUE]

\* It joins the protocol or leaves it, or notes only what was asked for.
LEMMA EnableKeeps ==
  ASSUME NEW s, Good(s), NEW b \in Bridge, b \in s.daemon.known,
         NEW enable \in BOOLEAN, NEW out \in Outcome,
         NEW u, u = Asked(s, b, enable),
         NEW t, \/ t = u
                \/ t = InitBridgeStp(u, b, out)
                \/ t = ClearBridgeStp(u, b, out)
  PROVE  /\ Good(t) /\ SameKernel(s, t)
         /\ t.daemon.known = s.daemon.known
         /\ \A e \in Device : Unmoved(s, t, e)
<1> DEFINE r == [s.daemon.br[b] EXCEPT !.do_stp = enable]
           said == TRUE
<1>1. Typed(s) /\ IsBr(s.daemon.br[b])
  BY DEF Good, Typed, IsDaemon
<1>2. /\ IsBr(r) /\ r.port_list = List(s, b) /\ r.stp_up = Runs(s, b)
      /\ r.cfg = s.daemon.br[b].cfg
  BY <1>1 DEF IsBr, List, Runs
<1>3. u = Told(s, b, r, said)
  <2>1. DOMAIN s = {"kernel", "daemon"}
        /\ DOMAIN s.daemon = {"known", "stp_up", "br", "dev", "stp"}
        /\ DOMAIN s.daemon.br = Bridge
    BY <1>1 DEF Typed, IsDaemon
  <2> QED
    BY <2>1 DEF Told, Asked
<1>4. /\ said \in BOOLEAN
      /\ s.daemon.stp_up => said
      /\ r.do_stp => said
  OBVIOUS
<1> HIDE DEF r, said
<1>5. /\ Good(u) /\ u.kernel = s.kernel
      /\ u.daemon.known = s.daemon.known /\ u.daemon.dev = s.daemon.dev
  BY <1>2, <1>3, <1>4, TellKeeps
<1>6. SameKernel(s, u) /\ \A e \in Device : Unmoved(s, u, e)
  BY <1>5 DEF SameKernel, Unmoved, Master, Up
<1>7. CASE t = u
  BY <1>5, <1>6, <1>7
<1>8. CASE t = InitBridgeStp(u, b, out)
  <2>1. Good(t) /\ Only(u, t, b)
    BY <1>5, <1>8, InitBridgeStpKeeps
  <2> QED
    BY <1>5, <1>6, <2>1 DEF Only, SameView, SameDev, SameKernel, Unmoved,
       Master, Up
<1>9. CASE t = ClearBridgeStp(u, b, out)
  <2>1. Good(t) /\ Only(u, t, b)
    BY <1>5, <1>9, ClearBridgeStpKeeps
  <2> QED
    BY <1>5, <1>6, <2>1 DEF Only, SameView, SameDev, SameKernel, Unmoved,
       Master, Up
<1> QED
  BY <1>7, <1>8, <1>9

\* CTL_set_bridge_config: the library and the daemon take the same fields.
Configured(s, b, c) ==
  [s EXCEPT !.daemon.stp[b].cfg = Updated(@, c),
            !.daemon.br[b].cfg = Updated(@, c)]

\* They have the same configuration afterwards if they had before.
LEMMA ConfiguredKeeps ==
  ASSUME NEW s, Good(s), NEW b \in Bridge, NEW c,
         NEW t, t = Configured(s, b, c)
  PROVE  Good(t) /\ SameKernel(s, t) /\ Steady(s, t)
<1> DEFINE i == [s.daemon.stp[b] EXCEPT !.cfg = Updated(@, c)]
           r == [s.daemon.br[b] EXCEPT !.cfg = Updated(@, c)]
           u == [s EXCEPT !.daemon.stp[b] = i]
<1>1. Typed(s) /\ Lists(s) /\ IsBr(s.daemon.br[b])
      /\ IsInstance(s.daemon.stp[b])
  BY DEF Good, Typed, IsDaemon
<1>2. /\ IsInstance(i) /\ i.port = Lib(s, b)
      /\ i.cfg = Updated(s.daemon.stp[b].cfg, c)
  BY <1>1 DEF IsInstance, Lib
<1>3. /\ IsBr(r) /\ r.port_list = List(s, b) /\ r.stp_up = Runs(s, b)
      /\ r.do_stp = s.daemon.br[b].do_stp
      /\ r.cfg = Updated(s.daemon.br[b].cfg, c)
  BY <1>1 DEF IsBr, List, Runs
<1>4. t = Recorded(u, b, r)
  <2>1. DOMAIN s = {"kernel", "daemon"}
        /\ DOMAIN s.daemon = {"known", "stp_up", "br", "dev", "stp"}
        /\ DOMAIN s.daemon.br = Bridge /\ DOMAIN s.daemon.stp = Bridge
    BY <1>1 DEF Typed, IsDaemon
  <2> QED
    BY <2>1 DEF Configured, Recorded
<1> HIDE DEF i, r
<1>5. /\ Typed(u) /\ Only(s, u, b)
      /\ Runs(u, b) = Runs(s, b) /\ u.daemon.stp[b] = i
      /\ \A d \in Device : Index(u, d) = Index(s, d)
      /\ u.kernel = s.kernel /\ u.daemon.dev = s.daemon.dev
      /\ u.daemon.br = s.daemon.br
  <2>1. u.kernel = s.kernel /\ u.daemon.dev = s.daemon.dev
        /\ u.daemon.br = s.daemon.br
    BY <1>1 DEF Typed, IsDaemon
  <2> QED
    BY <1>1, <1>2, <2>1, InstanceChange
<1> HIDE DEF u
<1>6. /\ Typed(t)
      /\ t.kernel = u.kernel
      /\ t.daemon.known = u.daemon.known
      /\ t.daemon.stp_up = u.daemon.stp_up
      /\ t.daemon.dev = u.daemon.dev /\ t.daemon.stp = u.daemon.stp
      /\ t.daemon.br[b] = r
      /\ \A a \in Bridge \ {b} : t.daemon.br[a] = u.daemon.br[a]
  BY <1>3, <1>4, <1>5, BridgeChanges
<1>7. /\ t.daemon.known = s.daemon.known /\ t.daemon.stp_up = s.daemon.stp_up
      /\ t.daemon.dev = s.daemon.dev /\ t.daemon.stp[b] = i
      /\ \A a \in Bridge : a # b => /\ t.daemon.br[a] = s.daemon.br[a]
                                    /\ t.daemon.stp[a] = s.daemon.stp[a]
  BY <1>5, <1>6 DEF Only, SameView
<1>8. \A a \in Bridge : /\ List(t, a) = List(s, a)
                        /\ PortsOf(t, a) = PortsOf(s, a)
                        /\ Runs(t, a) = Runs(s, a)
                        /\ t.daemon.br[a].do_stp = s.daemon.br[a].do_stp
                        /\ Lib(t, a) = Lib(s, a)
  <2> SUFFICES ASSUME NEW a \in Bridge
               PROVE  /\ List(t, a) = List(s, a)
                      /\ Runs(t, a) = Runs(s, a)
                      /\ t.daemon.br[a].do_stp = s.daemon.br[a].do_stp
                      /\ Lib(t, a) = Lib(s, a)
    BY DEF PortsOf
  <2>1. CASE a = b
    BY <1>2, <1>3, <1>6, <1>7, <2>1 DEF List, Runs, Lib
  <2>2. CASE a # b
    <3>1. t.daemon.br[a] = s.daemon.br[a] /\ t.daemon.stp[a] = s.daemon.stp[a]
      BY <1>7, <2>2
    <3> QED
      BY <3>1 DEF List, Runs, Lib
  <2> QED
    BY <2>1, <2>2
<1>9. Lists(t)
  BY <1>1, <1>7, <1>8 DEF Lists, Master
<1>10. \A a \in Bridge : LibOK(t, a)
  <2> SUFFICES ASSUME NEW a \in Bridge
               PROVE  LibOK(t, a)
    OBVIOUS
  <2>1. LibOK(s, a)
    BY DEF Good
  <2>2. \A e : Index(t, e) = Index(s, e)
    BY <1>7 DEF Index
  <2>3. \A e : Alone(t, a, e) <=> Alone(s, a, e)
    BY <1>8, <2>2 DEF Alone
  <2>4. LibFits(t, a)
    BY <1>8, <2>1, <2>2 DEF LibOK, LibFits
  <2>5. ASSUME Runs(s, a), s.daemon.stp[a].cfg = s.daemon.br[a].cfg
        PROVE  t.daemon.stp[a].cfg = t.daemon.br[a].cfg
    <3>1. CASE a = b
      BY <1>2, <1>3, <1>6, <1>7, <2>5, <3>1
    <3>2. CASE a # b
      BY <1>7, <2>5, <3>2
    <3> QED
      BY <3>1, <3>2
  <2>6. OneField => CfgsKept(t, a)
    BY <1>7, <1>8, <2>1, <2>2, <2>3, <2>5 DEF LibOK, CfgsKept
  <2> QED
    BY <2>4, <2>6 DEF LibOK
<1>11. Spoken(t)
  BY <1>7, <1>8 DEF Good, Spoken
<1>12. SameKernel(s, t)
  BY <1>5, <1>6 DEF SameKernel
<1>13. Steady(s, t)
  BY <1>7 DEF Steady, Unmoved, Master, Up
<1> QED
  BY <1>6, <1>9, <1>10, <1>11, <1>12, <1>13 DEF Good

\* The configuration the library has of port i of bridge b takes fields c.
LibConfigured(s, b, i, c) ==
  [s EXCEPT !.daemon.stp[b].port[i].cfg = Updated(@, c)]

\* Of the library, the configuration of one port changes.
LEMMA LibConfiguredIs ==
  ASSUME NEW s, Typed(s), NEW b \in Bridge, NEW i \in DOMAIN Lib(s, b), NEW c,
         NEW t, t = LibConfigured(s, b, i, c)
  PROVE  /\ Typed(t) /\ OnlyLib(s, t, b)
         /\ t.kernel = s.kernel
         /\ t.daemon.dev = s.daemon.dev /\ t.daemon.br = s.daemon.br
         /\ DOMAIN Lib(t, b) = DOMAIN Lib(s, b)
         /\ Lib(t, b)[i].cfg = Updated(Lib(s, b)[i].cfg, c)
         /\ \A j \in DOMAIN Lib(s, b) : j # i => Lib(t, b)[j] = Lib(s, b)[j]
<1> DEFINE old == Lib(s, b)
           port == [old EXCEPT ![i].cfg = Updated(@, c)]
<1>1. IsInstance(s.daemon.stp[b])
  BY DEF Typed, IsDaemon
<1>2. /\ DOMAIN port = DOMAIN old
      /\ port[i].cfg = Updated(old[i].cfg, c)
      /\ port[i].state = old[i].state
      /\ DOMAIN port[i] = DOMAIN old[i]
      /\ \A j \in DOMAIN old : j # i => port[j] = old[j]
  BY <1>1 DEF IsInstance, Lib
<1>3. t = [s EXCEPT !.daemon.stp[b].port = port]
  <2>1. DOMAIN s = {"kernel", "daemon"}
        /\ DOMAIN s.daemon = {"known", "stp_up", "br", "dev", "stp"}
        /\ DOMAIN s.daemon.stp = Bridge
        /\ DOMAIN s.daemon.stp[b] = {"cfg", "port"}
    BY <1>1 DEF Typed, IsDaemon, IsInstance
  <2> QED
    BY <2>1 DEF LibConfigured, Lib
<1> HIDE DEF port
<1>4. IsInstance([cfg |-> s.daemon.stp[b].cfg, port |-> port])
  <2>1. IsCfg(Updated(old[i].cfg, c))
    BY DEF IsCfg, Updated
  <2>2. ASSUME NEW n \in DOMAIN port
        PROVE  /\ DOMAIN port[n] = {"state", "cfg"}
               /\ port[n].state \in LibState
               /\ IsCfg(port[n].cfg)
    <3>1. CASE n = i
      BY <1>1, <1>2, <2>1, <3>1 DEF IsInstance, Lib
    <3>2. CASE n # i
      BY <1>1, <1>2, <2>2, <3>2 DEF IsInstance, Lib
    <3> QED
      BY <3>1, <3>2
  <2>3. DOMAIN port \subseteq PortNo
    BY <1>1, <1>2 DEF IsInstance, Lib
  <2> QED
    BY <2>2, <2>3 DEF IsInstance
<1>5. Typed(t) /\ OnlyLib(s, t, b) /\ Lib(t, b) = port
  BY <1>3, <1>4, PortsChange
<1>6. /\ t.kernel = s.kernel /\ t.daemon.dev = s.daemon.dev
      /\ t.daemon.br = s.daemon.br
  BY <1>3 DEF Typed, IsDaemon
<1> QED
  BY <1>2, <1>5, <1>6

\* A configuration of no fields changes nothing.
LEMMA NothingUpdated ==
  ASSUME NEW cfg, IsCfg(cfg), NEW c, \A f : f \notin DOMAIN c
  PROVE  Updated(cfg, c) = cfg
BY DEF IsCfg, Updated

\* CTL_set_port_config with a bad priority: what the library takes of it is
\* nothing, as long as a command has one field.
LEMMA RefusedKeeps ==
  ASSUME NEW s, Good(s), NEW b \in Bridge, NEW i \in DOMAIN Lib(s, b),
         NEW c, OneField => \A f : f \notin DOMAIN c,
         NEW t, t = LibConfigured(s, b, i, c)
  PROVE  Good(t) /\ SameKernel(s, t) /\ Steady(s, t)
<1>1. Typed(s) /\ LibOK(s, b)
  BY DEF Good
<1>2. /\ Typed(t) /\ OnlyLib(s, t, b)
      /\ t.kernel = s.kernel
      /\ t.daemon.dev = s.daemon.dev /\ t.daemon.br = s.daemon.br
      /\ DOMAIN Lib(t, b) = DOMAIN Lib(s, b)
      /\ Lib(t, b)[i].cfg = Updated(Lib(s, b)[i].cfg, c)
      /\ \A j \in DOMAIN Lib(s, b) : j # i => Lib(t, b)[j] = Lib(s, b)[j]
  BY <1>1, LibConfiguredIs
<1>3. /\ \A e : Index(t, e) = Index(s, e)
      /\ PortsOf(t, b) = PortsOf(s, b) /\ Runs(t, b) = Runs(s, b)
      /\ t.daemon.stp[b].cfg = s.daemon.stp[b].cfg
  BY <1>2 DEF Index, PortsOf, List, Runs, OnlyLib
<1>4. \A e : Alone(t, b, e) <=> Alone(s, b, e)
  BY <1>3 DEF Alone
<1>5. LibFits(t, b)
  BY <1>1, <1>2, <1>3 DEF LibOK, LibFits
<1>6. ASSUME OneField
      PROVE  CfgsKept(t, b)
  <2>1. IsCfg(Lib(s, b)[i].cfg)
    BY <1>1 DEF Typed, IsDaemon, IsInstance, Lib
  <2>2. Updated(Lib(s, b)[i].cfg, c) = Lib(s, b)[i].cfg
    BY <1>6, <2>1, NothingUpdated
  <2>3. \A j \in DOMAIN Lib(s, b) : Lib(t, b)[j].cfg = Lib(s, b)[j].cfg
    BY <1>2, <2>2
  <2> QED
    BY <1>1, <1>2, <1>3, <1>4, <1>6, <2>3 DEF LibOK, CfgsKept
<1>7. LibOK(t, b)
  BY <1>5, <1>6 DEF LibOK
<1>8. Only(s, t, b) /\ (Runs(t, b) => b \in s.daemon.known)
  BY <1>2, <1>3 DEF OnlyLib, Good, Lists
<1>9. Good(t)
  BY <1>2, <1>7, <1>8, OnlyKeeps
<1>10. Steady(s, t)
  BY <1>2 DEF OnlyLib, Only, SameView, Steady, Unmoved, Master, Up
<1> QED
  BY <1>2, <1>9, <1>10 DEF SameKernel

\* CTL_set_port_config that the library accepts: the daemon keeps the fields.
PortConfigured(s, b, d, i, c) ==
  [LibConfigured(s, b, i, c) EXCEPT !.daemon.dev[d].cfg = Updated(@, c)]

\* It is the port of d that takes them, unless another port has its number.
LEMMA PortConfiguredKeeps ==
  ASSUME NEW s, Good(s), NEW b \in Bridge, NEW d \in PortsOf(s, b),
         NEW i \in DOMAIN Lib(s, b), i = Index(s, d), NEW c,
         NEW t, t = PortConfigured(s, b, d, i, c)
  PROVE  Good(t) /\ SameKernel(s, t) /\ Steady(s, t)
<1> DEFINE r == LibConfigured(s, b, i, c)
           p == [r.daemon.dev[d] EXCEPT !.cfg = Updated(@, c)]
<1>1. Typed(s) /\ Lists(s) /\ LibOK(s, b) /\ d \in Device
  BY PortsApart DEF Good
<1>2. /\ Typed(r) /\ OnlyLib(s, r, b)
      /\ r.kernel = s.kernel
      /\ r.daemon.dev = s.daemon.dev /\ r.daemon.br = s.daemon.br
      /\ DOMAIN Lib(r, b) = DOMAIN Lib(s, b)
      /\ Lib(r, b)[i].cfg = Updated(Lib(s, b)[i].cfg, c)
      /\ \A j \in DOMAIN Lib(s, b) : j # i => Lib(r, b)[j] = Lib(s, b)[j]
  <2>1. r = LibConfigured(s, b, i, c)
    OBVIOUS
  <2> HIDE DEF r
  <2> QED
    BY <1>1, <2>1, LibConfiguredIs
<1>3. IsDev(s.daemon.dev[d])
  BY <1>1 DEF Typed, IsDaemon
<1>4. t = [r EXCEPT !.daemon.dev[d].cfg = Updated(@, c)]
  BY DEF PortConfigured
<1> HIDE DEF r
<1>5. t = Kept(r, d, p)
  <2>1. DOMAIN r = {"kernel", "daemon"} /\ "dev" \in DOMAIN r.daemon
        /\ d \in DOMAIN r.daemon.dev
    BY <1>1, <1>2 DEF Typed, IsDaemon
  <2> QED
    BY <1>4, <2>1 DEF Kept
<1>6. /\ IsDev(p) /\ p.master = Master(s, d) /\ p.port_index = Index(s, d)
      /\ p.up = s.daemon.dev[d].up
      /\ p.cfg = Updated(s.daemon.dev[d].cfg, c)
  <2>1. IsCfg(Updated(s.daemon.dev[d].cfg, c))
    BY DEF IsCfg, Updated
  <2> QED
    BY <1>2, <1>3, <2>1 DEF IsDev, Master, Index
<1> HIDE DEF p
<1>7. /\ Typed(t) /\ t.kernel = r.kernel
      /\ t.daemon.known = r.daemon.known /\ t.daemon.stp_up = r.daemon.stp_up
      /\ t.daemon.br = r.daemon.br /\ t.daemon.stp = r.daemon.stp
      /\ t.daemon.dev[d] = p
      /\ \A e \in Device : e # d => t.daemon.dev[e] = r.daemon.dev[e]
  BY <1>1, <1>2, <1>5, <1>6, DevChange
<1>8. /\ t.kernel = s.kernel /\ t.daemon.br = s.daemon.br
      /\ t.daemon.known = s.daemon.known /\ t.daemon.stp_up = s.daemon.stp_up
      /\ t.daemon.stp[b].cfg = s.daemon.stp[b].cfg
      /\ \A a \in Bridge : a # b => t.daemon.stp[a] = s.daemon.stp[a]
      /\ \A e \in Device : e # d => t.daemon.dev[e] = s.daemon.dev[e]
  BY <1>2, <1>7 DEF OnlyLib, Only, SameView
<1>9. \A e \in Device : Master(t, e) = Master(s, e) /\ Index(t, e) = Index(s, e)
  BY <1>6, <1>7, <1>8 DEF Master, Index
<1>10. \A a \in Bridge : List(t, a) = List(s, a) /\ Runs(t, a) = Runs(s, a)
                         /\ PortsOf(t, a) = PortsOf(s, a)
  BY <1>8 DEF List, Runs, PortsOf
<1>11. Lists(t)
  BY <1>1, <1>8, <1>9, <1>10 DEF Lists
<1>12. Spoken(t)
  BY <1>8 DEF Good, Spoken
<1>13. ASSUME NEW a \in Bridge
       PROVE  LibOK(t, a)
  <2>1. LibOK(s, a)
    BY DEF Good
  <2>2. \A e \in PortsOf(s, a) : e \in Device /\ (a # b => e # d)
    BY <1>1, PortsApart
  <2>3. \A e \in PortsOf(s, a) : Alone(t, a, e) <=> Alone(s, a, e)
    BY <1>9, <1>10, <2>2 DEF Alone
  <2>4. DOMAIN Lib(t, a) = DOMAIN Lib(s, a)
    <3>1. CASE a = b
      BY <1>2, <1>7, <3>1 DEF Lib
    <3>2. CASE a # b
      BY <1>8, <3>2 DEF Lib
    <3> QED
      BY <3>1, <3>2
  <2>5. LibFits(t, a)
    BY <1>9, <1>10, <2>1, <2>2, <2>4 DEF LibOK, LibFits
  <2>6. ASSUME OneField
        PROVE  CfgsKept(t, a)
    <3> SUFFICES ASSUME Runs(s, a)
                 PROVE  /\ t.daemon.stp[a].cfg = t.daemon.br[a].cfg
                        /\ \A e \in PortsOf(s, a) :
                             Index(s, e) \in DOMAIN Lib(s, a) /\ Alone(s, a, e)
                             => t.daemon.dev[e].cfg = Lib(t, a)[Index(s, e)].cfg
      BY <1>9, <1>10, <2>2, <2>3, <2>4 DEF CfgsKept
    <3>1. /\ s.daemon.stp[a].cfg = s.daemon.br[a].cfg
          /\ \A e \in PortsOf(s, a) :
               Index(s, e) \in DOMAIN Lib(s, a) /\ Alone(s, a, e)
               => s.daemon.dev[e].cfg = Lib(s, a)[Index(s, e)].cfg
      BY <2>1, <2>6 DEF LibOK, CfgsKept
    <3>2. t.daemon.stp[a].cfg = t.daemon.br[a].cfg
      BY <1>8, <3>1
    <3>3. ASSUME NEW e \in PortsOf(s, a), Index(s, e) \in DOMAIN Lib(s, a),
                 Alone(s, a, e)
          PROVE  t.daemon.dev[e].cfg = Lib(t, a)[Index(s, e)].cfg
      <4>1. s.daemon.dev[e].cfg = Lib(s, a)[Index(s, e)].cfg
        BY <3>1, <3>3
      <4>2. CASE e = d
        <5>1. a = b
          BY <2>2, <4>2
        <5>2. Lib(t, a)[i].cfg = Updated(Lib(s, a)[i].cfg, c)
          BY <1>2, <1>7, <5>1 DEF Lib
        <5>3. t.daemon.dev[e].cfg = Updated(s.daemon.dev[e].cfg, c)
          BY <1>6, <1>7, <4>2
        <5> QED
          BY <4>1, <4>2, <5>2, <5>3
      <4>3. CASE e # d
        <5>1. t.daemon.dev[e] = s.daemon.dev[e]
          BY <1>8, <2>2, <4>3
        <5>2. Lib(t, a)[Index(s, e)] = Lib(s, a)[Index(s, e)]
          <6>1. CASE a = b
            <7>1. Index(s, e) # i
              BY <3>3, <4>3, <6>1 DEF Alone
            <7>2. Lib(t, b) = Lib(r, b)
              BY <1>7 DEF Lib
            <7> QED
              BY <1>2, <3>3, <6>1, <7>1, <7>2
          <6>2. CASE a # b
            BY <1>8, <6>2 DEF Lib
          <6> QED
            BY <6>1, <6>2
        <5> QED
          BY <4>1, <5>1, <5>2
      <4> QED
        BY <4>2, <4>3
    <3> QED
      BY <3>2, <3>3
  <2> QED
    BY <2>5, <2>6 DEF LibOK
<1>14. \A e \in Device : Up(t, e) = Up(s, e)
  BY <1>6, <1>7, <1>8 DEF Up
<1>15. Steady(s, t)
  BY <1>8, <1>9, <1>14 DEF Steady, Unmoved
<1> QED
  BY <1>7, <1>8, <1>11, <1>12, <1>13, <1>15 DEF Good, SameKernel

\* bridge_one_second updates the instances one after the other.
UpdateOf(out, again, b, s) == LibraryUpdate(s, b, out, again)
Some(S) == CHOOSE x \in S : TRUE
Updating == INSTANCE Folding WITH Step <- UpdateOf, Pick <- Some

\* Whichever bridges it updates.
LEMMA UpdateAllKeeps ==
  ASSUME NEW s, Good(s), NEW S, S \subseteq Bridge, NEW out \in Outcome,
         NEW again, NEW t, t = Updating!Folded(out, again, s, S)
  PROVE  Good(t) /\ SameKernel(s, t) /\ Steady(s, t)
<1>1. IsFiniteSet(S)
  BY FS_Subset, InterfaceAssumption
<1>2. Updating!IsFiniteSet(S)
  BY <1>1 DEF IsFiniteSet, Updating!IsFiniteSet
<1>3. \A x \in SUBSET S : x # {} => Some(x) \in x
  BY DEF Some
<1>4. PICK f : Updating!Traces(out, again, s, S, f)
  BY <1>2, <1>3, Updating!FoldTrace
<1> DEFINE Is(u) == Good(u) /\ SameKernel(s, u) /\ Steady(s, u)
           T == {x \in SUBSET S : Is(f[x])}
<1>5. {} \in T
  <2>1. f[{}] = s
    BY <1>4 DEF Updating!Traces
  <2>2. SameKernel(s, s) /\ Steady(s, s)
    BY DEF SameKernel, Steady, Unmoved
  <2> QED
    BY <2>1, <2>2
<1>6. ASSUME NEW x \in SUBSET S, x # {}
      PROVE  \E b \in x : Updating!Rest(x, b) \in T => x \in T
  <2> DEFINE b == Some(x)
             y == Updating!Rest(x, b)
             r == f[y]
             u == f[x]
  <2>1. b \in x /\ u = LibraryUpdate(r, b, out, again)
    BY <1>4, <1>6 DEF UpdateOf, Updating!Traces
  <2> HIDE DEF b
  <2> SUFFICES ASSUME y \in T
               PROVE  Is(u)
    BY <2>1
  <2>2. Is(r)
    OBVIOUS
  <2> HIDE DEF y, r, u
  <2>3. b \in Bridge
    BY <2>1
  <2>4. Good(u) /\ OnlyLib(r, u, b)
    BY <2>1, <2>2, <2>3, LibraryUpdateKeeps
  <2>5. SameKernel(s, u)
    BY <2>2, <2>4 DEF SameKernel, OnlyLib, Only, SameView
  <2>6. Steady(r, u)
    BY <2>4 DEF OnlyLib, Only, SameView, SameDev, Steady, Unmoved, Master, Up
  <2>7. Steady(s, u)
    BY <2>2, <2>6 DEF Steady, Unmoved
  <2> QED
    BY <2>4, <2>5, <2>7
<1>7. S \in T
  <2> HIDE DEF T
  <2> QED
    BY <1>2, <1>5, <1>6, Updating!SubsetInduction
<1>8. f[S] = t
  BY <1>4 DEF Updating!Traces
<1> QED
  BY <1>7, <1>8

-----------------------------------------------------------------------------
(* The kernel and its messages.                                            *)

Room == Max({QueueLimit, Cardinality(Device)})
Mail == {m \in Message : Addressed(m)}

\* What waits in the socket.
Queued(q) == q \in Seq(Mail) /\ Len(q) <= Room

\* The socket's limit is within the bound, and so is a dump.
LEMMA RoomIs ==
  /\ Room \in Nat /\ QueueLimit <= Room /\ Cardinality(Device) <= Room
  /\ QueueLimit \in Nat /\ Cardinality(Device) \in Nat
<1> DEFINE m == QueueLimit
           n == Cardinality(Device)
           Greatest(x) == x \in {m, n} /\ \A y \in {m, n} : x >= y
<1>1. m \in Nat /\ n \in Nat
  BY BoundAssumption, InterfaceAssumption, FS_CardinalityType
<1>2. Room = CHOOSE x : Greatest(x)
  BY DEF Room, Max
<1> HIDE DEF m, n
<1>3. \E x : Greatest(x)
  <2>1. CASE m >= n
    BY <1>1, <2>1
  <2>2. CASE n >= m
    BY <1>1, <2>2
  <2> QED
    BY <1>1, <2>1, <2>2
<1>4. Greatest(Room)
  <2> HIDE DEF Greatest
  <2> QED
    BY <1>2, <1>3
<1>5. Room \in Nat /\ m <= Room /\ n <= Room
  BY <1>1, <1>4
<1> QED
  BY <1>1, <1>5 DEF m, n

\* A set put in order.
LEMMA SetToSeqIs ==
  ASSUME NEW S, IsFiniteSet(S), NEW list, list = SetToSeq(S)
  PROVE  /\ Cardinality(S) \in Nat
         /\ list \in [1 .. Cardinality(S) -> S]
         /\ list \in Seq(S) /\ Len(list) = Cardinality(S)
         /\ \A x \in S : \E i \in DOMAIN list : list[i] = x
<1> DEFINE n == Cardinality(S)
<1>1. n \in Nat /\ ExistsBijection(1 .. n, S)
  BY FS_CardinalityType
<1>2. IsFiniteSet(1 .. n) /\ Cardinality(1 .. n) = n
  <2>1. IsFiniteSet(1 .. n)
        /\ Cardinality(1 .. n) = IF 1 > n THEN 0 ELSE n - 1 + 1
    BY <1>1, FS_Interval
  <2>2. (IF 1 > n THEN 0 ELSE n - 1 + 1) = n
    BY <1>1
  <2> QED
    BY <2>1, <2>2
<1> HIDE DEF n
<1>3. PICK f \in [1 .. n -> S] : IsInjective(f)
  BY <1>1 DEF ExistsBijection, Bijection, Injection
<1>4. list \in [1 .. n -> S] /\ IsInjective(list)
  BY <1>3 DEF SetToSeq, n
<1>5. list \in Injection(1 .. n, S)
  BY <1>4 DEF Injection
<1>6. list \in Surjection(1 .. n, S)
  BY <1>2, <1>5, FS_Injection DEF n
<1>7. \A x \in S : \E i \in DOMAIN list : list[i] = x
  BY <1>4, <1>6 DEF Surjection
<1> QED
  BY <1>1, <1>4, <1>7 DEF n

\* dump_msg of a message of the kernel.
LEMMA SaysIs ==
  ASSUME NEW if \in Interface, NEW master \in Bridge \cup {NoBridge},
         NEW newlink \in BOOLEAN, NEW up \in BOOLEAN,
         master # NoBridge => if \in Device
  PROVE  Says(if, master, newlink, up) \in Mail
<1>1. (newlink /\ up) \in BOOLEAN
  OBVIOUS
<1> QED
  BY <1>1 DEF Says, Mail, Addressed, Message

\* The ports the kernel lists in answer to a dump request.
LEMMA DumpIs ==
  ASSUME IsKernel(kernel)
  PROVE  Queued(Dump)
<1> DEFINE S == {d \in Device : kernel.member[d] # NoBridge}
           ports == SetToSeq(S)
<1>1. IsFiniteSet(S) /\ Cardinality(S) <= Cardinality(Device)
  BY InterfaceAssumption, FS_Subset
<1>2. Dump = [n \in DOMAIN ports |->
                Says(ports[n], kernel.member[ports[n]], TRUE,
                     kernel.oper[ports[n]])]
  BY DEF Dump
<1>3. \A d \in S : /\ d \in Device /\ d \in Interface
                   /\ kernel.member[d] \in Bridge \cup {NoBridge}
                   /\ kernel.oper[d] \in BOOLEAN
  BY DEF IsKernel, Interface
<1>4. \A d \in S : Says(d, kernel.member[d], TRUE, kernel.oper[d]) \in Mail
  <2> SUFFICES ASSUME NEW d \in S
               PROVE  Says(d, kernel.member[d], TRUE, kernel.oper[d]) \in Mail
    OBVIOUS
  <2> DEFINE master == kernel.member[d]
             up == kernel.oper[d]
             newlink == TRUE
  <2>1. d \in Device /\ d \in Interface /\ master \in Bridge \cup {NoBridge}
        /\ newlink \in BOOLEAN /\ up \in BOOLEAN
    BY <1>3
  <2> HIDE DEF master, up, newlink
  <2>2. Says(d, master, newlink, up) \in Mail
    BY <2>1, SaysIs
  <2> QED
    BY <2>2 DEF master, up, newlink
<1> HIDE DEF S
<1>5. /\ ports \in [1 .. Cardinality(S) -> S]
      /\ Cardinality(S) \in Nat
  BY <1>1, SetToSeqIs
<1> HIDE DEF ports
<1>6. Dump \in [1 .. Cardinality(S) -> Mail]
  BY <1>2, <1>4, <1>5
<1>7. Dump \in Seq(Mail) /\ Len(Dump) = Cardinality(S)
  BY <1>5, <1>6
<1>8. Cardinality(S) <= Room
  BY <1>1, <1>5, RoomIs
<1> QED
  BY <1>7, <1>8 DEF Queued

\* The socket takes the messages of one change of the kernel, or fails.
LEMMA NotifyKeeps ==
  ASSUME Queued(queue), phase \in Phase, lost \in BOOLEAN,
         NEW messages \in Seq(Mail), Notify(messages)
  PROVE  Queued(queue') /\ phase' \in Phase /\ lost' \in BOOLEAN
<1>1. CASE UNCHANGED <<queue, lost, phase>>
  BY <1>1
<1>2. CASE lost' = TRUE /\ UNCHANGED <<queue, phase>>
  BY <1>2
<1>3. CASE phase' = "stopped" /\ queue' = <<>> /\ lost' = TRUE
  <2>1. Len(queue') = 0 /\ queue' \in Seq(Mail)
    BY <1>3
  <2> QED
    BY <1>3, <2>1, RoomIs DEF Queued, Phase
<1>4. CASE /\ ~(Len(queue) + Len(messages) > QueueLimit)
           /\ queue' = queue \o messages /\ UNCHANGED <<lost, phase>>
  <2>1. queue' \in Seq(Mail) /\ Len(queue') = Len(queue) + Len(messages)
    BY <1>4 DEF Queued
  <2>2. Len(queue) \in Nat /\ Len(messages) \in Nat
    BY DEF Queued
  <2> QED
    BY <1>4, <2>1, <2>2, RoomIs DEF Queued
<1> QED
  BY <1>1, <1>2, <1>3, <1>4 DEF Notify

\* A number is free for one more port of a bridge: there are as many numbers
\* as devices.
LEMMA NumberIs ==
  ASSUME IsKernel(kernel), NEW d \in Device, NEW b \in Bridge,
         kernel.member[d] # b
  PROVE  Min(PortNo \ {kernel.port_no[e] : e \in Members(b)}) \in PortNo
<1> DEFINE M == Members(b)
           I == {kernel.port_no[e] : e \in M}
           f == [e \in M |-> kernel.port_no[e]]
           n == Cardinality(Device)
<1>1. IsFiniteSet(Device) /\ n \in Nat
  BY InterfaceAssumption, FS_CardinalityType
<1>2. IsFiniteSet(Device \ {d}) /\ Cardinality(Device \ {d}) = n - 1
  BY <1>1, FS_RemoveElement
<1>3. M \subseteq Device \ {d}
  BY DEF Members
<1>4. IsFiniteSet(M) /\ Cardinality(M) <= n - 1
  BY <1>2, <1>3, FS_Subset
<1>5. f \in Surjection(M, I)
  <2>1. f \in [M -> I] /\ \A i \in I : \E e \in M : f[e] = i
    OBVIOUS
  <2> QED
    BY <2>1 DEF Surjection
<1> HIDE DEF M, I, f, n
<1>6. IsFiniteSet(I) /\ Cardinality(I) <= Cardinality(M)
  BY <1>4, <1>5, FS_Surjection
<1>7. IsFiniteSet(PortNo) /\ Cardinality(PortNo) = n
  <2>1. 1 \in Int /\ n \in Int
    BY <1>1
  <2>2. IsFiniteSet(1 .. n)
        /\ Cardinality(1 .. n) = IF 1 > n THEN 0 ELSE n - 1 + 1
    BY <2>1, FS_Interval
  <2>3. (IF 1 > n THEN 0 ELSE n - 1 + 1) = n
    BY <1>1, SMT
  <2> QED
    BY <2>2, <2>3 DEF PortNo, n
<1>8. ~(PortNo \subseteq I)
  <2> SUFFICES ASSUME PortNo \subseteq I
               PROVE  FALSE
    OBVIOUS
  <2>1. Cardinality(PortNo) <= Cardinality(I)
    BY <1>6, FS_Subset
  <2>2. Cardinality(M) \in Nat /\ Cardinality(I) \in Nat
    BY <1>4, <1>6, FS_CardinalityType
  <2> QED
    BY <1>1, <1>4, <1>6, <1>7, <2>1, <2>2, SMT
<1> DEFINE free == PortNo \ I
<1>9. free # {} /\ free \subseteq Nat
  BY <1>8 DEF PortNo
<1> HIDE DEF free
<1>10. Min(free) \in free
  BY <1>9, MinIs
<1>11. free = PortNo \ {kernel.port_no[e] : e \in Members(b)}
  BY DEF free, I, M
<1> QED
  BY <1>10, <1>11 DEF free

\* The kernel's changes leave it a kernel, and tell of it in messages that
\* bridge_notify is ready for.
LEMMA KernelKeeps ==
  ASSUME IsKernel(kernel), Queued(queue), phase \in Phase, lost \in BOOLEAN,
         Kernel
  PROVE  /\ IsKernel(kernel') /\ UNCHANGED <<daemon, seconds>>
         /\ Queued(queue') /\ phase' \in Phase /\ lost' \in BOOLEAN
<1> DEFINE States == {"disabled", "blocking", "learning", "forwarding"}
<1>1. /\ kernel = [bridges |-> kernel.bridges, member |-> kernel.member,
                   port_no |-> kernel.port_no, oper |-> kernel.oper,
                   stp_state |-> kernel.stp_state, state |-> kernel.state]
      /\ kernel.bridges \in SUBSET Bridge
      /\ kernel.member \in [Device -> Bridge \cup {NoBridge}]
      /\ kernel.port_no \in [Device -> PortNo \cup {0}]
      /\ kernel.oper \in [Interface -> BOOLEAN]
      /\ kernel.stp_state \in [Bridge -> 0 .. 2]
      /\ kernel.state \in [Device -> States]
      /\ \A d \in Device : kernel.member[d] # NoBridge =>
           kernel.member[d] \in kernel.bridges /\ kernel.port_no[d] \in PortNo
  BY DEF IsKernel
<1>2. ASSUME NEW m \in Mail, Notify(<<m>>)
      PROVE  Queued(queue') /\ phase' \in Phase /\ lost' \in BOOLEAN
  <2> DEFINE messages == <<m>>
  <2>1. messages \in Seq(Mail) /\ Notify(messages)
    BY <1>2
  <2> HIDE DEF messages
  <2> QED
    BY <2>1, NotifyKeeps
<1>3. Device \subseteq Interface /\ Bridge \subseteq Interface
  BY DEF Interface
<1>4. \A b : \A up \in BOOLEAN : FirstState(b, up) \in States
  BY DEF FirstState
<1>5. Bridge \cap {NoBridge} = {}
  BY InterfaceAssumption
<1>6. ASSUME KernelChange
      PROVE  UNCHANGED <<daemon, seconds>>
  BY <1>6 DEF KernelChange
<1>7. ASSUME NEW d \in Device, NEW b \in Bridge, AddInterface(d, b)
      PROVE  IsKernel(kernel') /\ KernelChange
             /\ Queued(queue') /\ phase' \in Phase /\ lost' \in BOOLEAN
  <2> DEFINE no == Min(PortNo \ {kernel.port_no[e] : e \in Members(b)})
             st == FirstState(b, kernel.oper[d])
             up == kernel.oper[d]
             newlink == TRUE
  <2>1. /\ KernelChange
        /\ kernel.member[d] = NoBridge /\ b \in kernel.bridges
        /\ kernel' = [kernel EXCEPT !.member[d] = b, !.port_no[d] = no,
                                    !.state[d] = st]
        /\ Notify(<<Says(d, b, newlink, up)>>)
    BY <1>7 DEF AddInterface
  <2>2. no \in PortNo
    BY <1>5, <2>1, NumberIs
  <2>3. st \in States /\ up \in BOOLEAN /\ newlink \in BOOLEAN
    BY <1>1, <1>3, <1>4
  <2> HIDE DEF no, st, up, newlink
  <2>4. IsKernel(kernel')
    BY <1>1, <2>1, <2>2, <2>3 DEF IsKernel
  <2>5. Says(d, b, newlink, up) \in Mail
    BY <1>3, <2>3, SaysIs
  <2> QED
    BY <1>2, <2>1, <2>4, <2>5
<1>8. ASSUME NEW d \in Device, DeleteInterface(d)
      PROVE  IsKernel(kernel') /\ KernelChange
             /\ Queued(queue') /\ phase' \in Phase /\ lost' \in BOOLEAN
  <2> DEFINE master == kernel.member[d]
             no == FALSE
  <2>1. /\ KernelChange
        /\ kernel' = [kernel EXCEPT !.member[d] = NoBridge, !.port_no[d] = 0,
                                    !.state[d] = "disabled"]
        /\ Notify(<<Says(d, master, no, no)>>)
    BY <1>8 DEF DeleteInterface
  <2>2. IsKernel(kernel')
    BY <1>1, <2>1 DEF IsKernel
  <2>3. master \in Bridge \cup {NoBridge} /\ no \in BOOLEAN
    BY <1>1
  <2> HIDE DEF master, no
  <2>4. Says(d, master, no, no) \in Mail
    BY <1>3, <2>3, SaysIs
  <2> QED
    BY <1>2, <2>1, <2>2, <2>4
<1>9. ASSUME NEW d \in Device, NEW newlink \in BOOLEAN, LinkChange(d, newlink)
      PROVE  IsKernel(kernel') /\ KernelChange
             /\ Queued(queue') /\ phase' \in Phase /\ lost' \in BOOLEAN
  <2> DEFINE master == kernel.member[d]
             up == ~kernel.oper[d]
             st == IF master = NoBridge THEN kernel.state[d]
                   ELSE FirstState(master, up)
  <2>1. /\ KernelChange
        /\ kernel' = [kernel EXCEPT !.oper[d] = up, !.state[d] = st]
        /\ Notify(<<Says(d, master, newlink, up)>>)
    BY <1>1, <1>9 DEF LinkChange
  <2>2. master \in Bridge \cup {NoBridge} /\ up \in BOOLEAN
    BY <1>1
  <2>3. st \in States
    <3> HIDE DEF up
    <3> QED
      BY <1>1, <1>4, <2>2
  <2> HIDE DEF master, up, st
  <2>4. IsKernel(kernel')
    BY <1>1, <1>3, <2>1, <2>2, <2>3 DEF IsKernel
  <2>5. Says(d, master, newlink, up) \in Mail
    BY <1>3, <2>2, SaysIs
  <2> QED
    BY <1>2, <2>1, <2>4, <2>5
<1>10. ASSUME NEW b \in Bridge, BridgeChange(b)
       PROVE  IsKernel(kernel') /\ KernelChange
              /\ Queued(queue') /\ phase' \in Phase /\ lost' \in BOOLEAN
  <2> DEFINE up == ~kernel.oper[b]
             newlink == TRUE
             master == NoBridge
  <2>1. /\ KernelChange
        /\ kernel' = [kernel EXCEPT !.oper[b] = up]
        /\ Notify(<<Says(b, master, newlink, up)>>)
    BY <1>1, <1>10 DEF BridgeChange
  <2>2. /\ master \in Bridge \cup {NoBridge} /\ master = NoBridge
        /\ up \in BOOLEAN /\ newlink \in BOOLEAN
    BY <1>1
  <2> HIDE DEF master, up, newlink
  <2>3. IsKernel(kernel')
    BY <1>1, <1>3, <2>1, <2>2 DEF IsKernel
  <2>4. Says(b, master, newlink, up) \in Mail
    BY <1>3, <2>2, SaysIs
  <2> QED
    BY <1>2, <2>1, <2>3, <2>4
<1>11. ASSUME NEW b \in Bridge, StpStateChange(b)
       PROVE  IsKernel(kernel') /\ KernelChange
              /\ Queued(queue') /\ phase' \in Phase /\ lost' \in BOOLEAN
  <2>1. /\ KernelChange /\ UNCHANGED <<queue, lost, phase>>
        /\ kernel' = [kernel EXCEPT !.stp_state[b] = IF @ = 0 THEN 2 ELSE 0]
    BY <1>11 DEF StpStateChange
  <2> DEFINE stp == IF kernel.stp_state[b] = 0 THEN 2 ELSE 0
  <2>2. stp \in 0 .. 2
        /\ kernel' = [kernel EXCEPT !.stp_state[b] = stp]
    BY <1>1, <2>1
  <2> HIDE DEF stp
  <2>3. IsKernel(kernel')
    BY <1>1, <2>2 DEF IsKernel
  <2> QED
    BY <2>1, <2>3
<1>12. ASSUME NEW b \in Bridge, RemoveBridge(b)
       PROVE  IsKernel(kernel') /\ KernelChange
              /\ Queued(queue') /\ phase' \in Phase /\ lost' \in BOOLEAN
  <2> DEFINE M == Members(b)
             mem == [d \in Device |-> IF kernel.member[d] = b THEN NoBridge
                                      ELSE kernel.member[d]]
             no == [d \in Device |-> IF d \in M THEN 0 ELSE kernel.port_no[d]]
             st == [d \in Device |-> IF d \in M THEN "disabled"
                                     ELSE kernel.state[d]]
             list == SetToSeq(M)
             ports == [n \in 1 .. Cardinality(M) |->
                         Says(list[n], b, FALSE, FALSE)]
             end == <<Says(b, NoBridge, FALSE, FALSE)>>
             messages == ports \o end
  <2>1. /\ KernelChange /\ b \in kernel.bridges
        /\ kernel' = [kernel EXCEPT !.bridges = @ \ {b}, !.member = mem,
                                    !.port_no = no, !.state = st,
                                    !.oper[b] = FALSE]
        /\ Notify(messages)
    BY <1>1, <1>12 DEF RemoveBridge
  <2>2. IsKernel(kernel')
    <3>1. \A d \in Device : d \in M <=> kernel.member[d] = b
      BY DEF Members
    <3> HIDE DEF M
    <3>2. /\ mem \in [Device -> Bridge \cup {NoBridge}]
          /\ no \in [Device -> PortNo \cup {0}]
          /\ st \in [Device -> States]
      BY <1>1
    <3>3. \A d \in Device : mem[d] # NoBridge =>
            mem[d] \in kernel.bridges /\ mem[d] # b /\ no[d] \in PortNo
      BY <1>1, <3>1
    <3> HIDE DEF mem, no, st
    <3> QED
      BY <1>1, <1>3, <2>1, <3>2, <3>3 DEF IsKernel
  <2>3. messages \in Seq(Mail)
    <3>1. M \subseteq Device /\ IsFiniteSet(M)
      BY InterfaceAssumption, FS_Subset DEF Members
    <3> HIDE DEF M
    <3>2. Cardinality(M) \in Nat /\ list \in [1 .. Cardinality(M) -> M]
      BY <3>1, SetToSeqIs
    <3> HIDE DEF list
    <3> DEFINE down == FALSE
               none == NoBridge
    <3>3. down \in BOOLEAN /\ none \in Bridge \cup {NoBridge}
          /\ none = NoBridge
      OBVIOUS
    <3>4. /\ ports = [n \in 1 .. Cardinality(M) |-> Says(list[n], b, down, down)]
          /\ end = <<Says(b, none, down, down)>>
      OBVIOUS
    <3> HIDE DEF down, none, ports, end
    <3>5. \A d \in M : Says(d, b, down, down) \in Mail
      <4> SUFFICES ASSUME NEW d \in M
                   PROVE  Says(d, b, down, down) \in Mail
        OBVIOUS
      <4>1. d \in Device /\ d \in Interface
        BY <1>3, <3>1
      <4> QED
        BY <3>3, <4>1, SaysIs
    <3>6. Says(b, none, down, down) \in Mail
      BY <1>3, <3>3, SaysIs
    <3>7. ports \in Seq(Mail)
      <4>1. ports \in [1 .. Cardinality(M) -> Mail]
        BY <3>2, <3>4, <3>5
      <4> QED
        BY <3>2, <4>1
    <3>8. end \in Seq(Mail)
      BY <3>4, <3>6
    <3> QED
      BY <3>7, <3>8
  <2> HIDE DEF messages
  <2> QED
    BY <2>1, <2>2, <2>3, NotifyKeeps
<1> QED
  BY <1>6, <1>7, <1>8, <1>9, <1>10, <1>11, <1>12 DEF Kernel

-----------------------------------------------------------------------------
(* The invariant.                                                          *)

Sound ==
  /\ Good(state)
  /\ Queued(queue)
  /\ lost \in BOOLEAN
  /\ phase \in Phase
  /\ seconds \in 0 .. DumpEvery - 1

\* Whatever the kernel becomes, the daemon's data fit as before.
LEMMA KernelApart ==
  ASSUME NEW s, Good(s), NEW t, DOMAIN t = {"kernel", "daemon"},
         t.daemon = s.daemon, IsKernel(t.kernel)
  PROVE  Good(t)
<1>1. Typed(t)
  BY DEF Good, Typed
<1>2. Lists(t) /\ Spoken(t)
  BY DEF Good, Lists, Spoken, List, PortsOf, Runs, Master
<1>3. \A b \in Bridge : LibOK(t, b)
  <2> SUFFICES ASSUME NEW b \in Bridge
               PROVE  LibOK(t, b)
    OBVIOUS
  <2>1. LibOK(s, b)
    BY DEF Good
  <2>2. /\ Runs(t, b) = Runs(s, b) /\ PortsOf(t, b) = PortsOf(s, b)
        /\ Lib(t, b) = Lib(s, b)
        /\ \A e : Index(t, e) = Index(s, e)
    BY DEF Runs, PortsOf, List, Lib, Index
  <2>3. \A e : Alone(t, b, e) <=> Alone(s, b, e)
    BY <2>2 DEF Alone
  <2>4. LibFits(t, b)
    BY <2>1, <2>2 DEF LibOK, LibFits
  <2>5. OneField => CfgsKept(t, b)
    BY <2>1, <2>2, <2>3 DEF LibOK, CfgsKept
  <2> QED
    BY <2>4, <2>5 DEF LibOK
<1> QED
  BY <1>1, <1>2, <1>3 DEF Good

\* An action that ends as a function of Tracking does.
LEMMA BecomesKeeps ==
  ASSUME NEW s, Good(s), Becomes(s)
  PROVE  Good(state')
<1>1. /\ DOMAIN state' = {"kernel", "daemon"}
      /\ (state').daemon = s.daemon /\ (state').kernel = s.kernel
  BY DEF state, Becomes
<1>2. IsKernel(s.kernel)
  BY DEF Good, Typed
<1> QED
  BY <1>1, <1>2, KernelApart

\* The daemon as it starts, whatever the kernel.
LEMMA NewDaemonIs ==
  ASSUME NEW s, DOMAIN s = {"kernel", "daemon"}, IsKernel(s.kernel),
         s.daemon = NewDaemon
  PROVE  Good(s)
<1>1. \A b : NewPort(b) = [up |-> FALSE, master |-> b, port_index |-> 0,
                           cfg |-> DefaultPortCfg]
  BY DEF NewPort
<1>2. /\ IsCfg(DefaultPortCfg) /\ IsBr(NewBridge) /\ IsInstance(NoInstance)
      /\ IsDev(NewPort(NoBridge))
  <2>1. IsCfg(DefaultPortCfg)
    BY DEF IsCfg, DefaultPortCfg
  <2>2. IsBr(NewBridge)
    BY DEF IsBr, NewBridge
  <2>3. IsInstance(NoInstance)
    BY DEF IsInstance, NoInstance
  <2>4. IsDev(NewPort(NoBridge))
    BY NewPortIs
  <2> QED
    BY <2>1, <2>2, <2>3, <2>4
<1>3. /\ DOMAIN s.daemon = {"known", "stp_up", "br", "dev", "stp"}
      /\ s.daemon.known = {} /\ s.daemon.stp_up = FALSE
      /\ DOMAIN s.daemon.br = Bridge /\ DOMAIN s.daemon.dev = Device
      /\ DOMAIN s.daemon.stp = Bridge
      /\ \A b \in Bridge : s.daemon.br[b] = NewBridge
                           /\ s.daemon.stp[b] = NoInstance
      /\ \A d \in Device : s.daemon.dev[d] = NewPort(NoBridge)
  BY DEF NewDaemon
<1>4. Typed(s)
  BY <1>2, <1>3 DEF Typed, IsDaemon
<1>5. NewBridge.port_list = <<>> /\ ~NewBridge.stp_up /\ ~NewBridge.do_stp
  BY DEF NewBridge
<1>6. \A b \in Bridge : /\ PortsOf(s, b) = {} /\ IsInjective(List(s, b))
                        /\ ~Runs(s, b) /\ ~s.daemon.br[b].do_stp
  BY <1>3, <1>5 DEF PortsOf, List, Range, IsInjective, Runs
<1>7. \A d : d \notin s.daemon.known
  BY <1>3
<1>8. Lists(s) /\ Spoken(s)
  BY <1>6, <1>7 DEF Lists, Spoken
<1>9. \A b \in Bridge : \A i : i \notin DOMAIN Lib(s, b)
  BY <1>3 DEF Lib, NoInstance
<1>10. \A b \in Bridge : LibOK(s, b)
  BY <1>6, <1>9 DEF LibOK, LibFits, CfgsKept
<1> QED
  BY <1>4, <1>8, <1>10 DEF Good

\* The first state is sound.
LEMMA InitSound ==
  ASSUME Init
  PROVE  Sound
<1>1. /\ DOMAIN state = {"kernel", "daemon"} /\ IsKernel(state.kernel)
      /\ state.daemon = NewDaemon
  BY BoundAssumption DEF Init, state
<1>2. Good(state)
  BY <1>1, NewDaemonIs
<1>3. Queued(queue)
  <2>1. queue \in Seq(Mail) /\ Len(queue) = 0
    BY DEF Init
  <2> QED
    BY <2>1, RoomIs DEF Queued
<1>4. seconds \in 0 .. DumpEvery - 1
  BY BoundAssumption DEF Init
<1> QED
  BY <1>2, <1>3, <1>4 DEF Sound, Init, Phase

\* A step of the kernel.
LEMMA KernelSound ==
  ASSUME Sound, Kernel
  PROVE  Sound'
<1>1. IsKernel(kernel)
  BY DEF Sound, Good, Typed, state
<1>2. /\ IsKernel(kernel') /\ UNCHANGED <<daemon, seconds>>
      /\ Queued(queue') /\ phase' \in Phase /\ lost' \in BOOLEAN
  BY <1>1, KernelKeeps DEF Sound
<1>3. /\ DOMAIN state' = {"kernel", "daemon"}
      /\ (state').daemon = state.daemon /\ IsKernel((state').kernel)
  BY <1>2 DEF state
<1>4. Good(state')
  BY <1>3, KernelApart DEF Sound
<1> QED
  BY <1>2, <1>4 DEF Sound

\* main starts the daemon.
LEMMA StartSound ==
  ASSUME Sound, Start
  PROVE  Sound'
<1>1. IsKernel(kernel)
  BY DEF Sound, Good, Typed, state
<1>2. /\ DOMAIN state' = {"kernel", "daemon"} /\ IsKernel((state').kernel)
      /\ (state').daemon = NewDaemon
  BY <1>1 DEF Start, state
<1>3. Good(state')
  BY <1>2, NewDaemonIs
<1>4. Queued(queue')
  BY <1>1, DumpIs DEF Start
<1>5. /\ lost' \in BOOLEAN /\ phase' \in Phase
      /\ seconds' \in 0 .. DumpEvery - 1
  <2>1. lost' = FALSE /\ seconds' = 0 /\ phase' \in {"idle", "dumping"}
    BY DEF Start
  <2>2. 0 \in 0 .. DumpEvery - 1
    BY BoundAssumption
  <2> QED
    BY <2>1, <2>2 DEF Phase
<1> QED
  BY <1>3, <1>4, <1>5 DEF Sound

\* A message is read.
LEMMA ReadMessageSound ==
  ASSUME Sound, ReadMessage
  PROVE  Sound'
<1>1. queue \in Seq(Mail) /\ queue # <<>> /\ Len(queue) <= Room
  BY DEF Sound, Queued, ReadMessage
<1>2. /\ Head(queue) \in Mail /\ Tail(queue) \in Seq(Mail)
      /\ Len(Tail(queue)) = Len(queue) - 1 /\ Len(queue) \in Nat
  BY <1>1
<1>3. Queued(queue')
  BY <1>1, <1>2, RoomIs DEF ReadMessage, Queued
<1>4. Good(state')
  <2>1. PICK out \in Outcome :
          Becomes(BridgeNotify(state, Head(queue), out))
    BY DEF ReadMessage
  <2> DEFINE m == Head(queue)
             t == BridgeNotify(state, m, out)
  <2>2. Addressed(m) /\ Becomes(t)
    BY <1>2, <2>1 DEF Mail
  <2>3. Good(t)
    <3>1. t = BridgeNotify(state, m, out)
      OBVIOUS
    <3> HIDE DEF m, t
    <3> QED
      BY <2>2, <3>1, BridgeNotifyKeeps DEF Sound
  <2> HIDE DEF t
  <2> QED
    BY <2>2, <2>3, BecomesKeeps
<1>5. phase' \in Phase /\ UNCHANGED <<lost, seconds>>
  BY DEF ReadMessage, Phase
<1> QED
  BY <1>3, <1>4, <1>5 DEF Sound

\* A BPDU is received.
LEMMA ReceiveBpduSound ==
  ASSUME Sound, NEW d \in Device, ReceiveBpdu(d)
  PROVE  Sound'
<1> DEFINE b == daemon.dev[d].master
<1>1. PICK out \in Outcome, again \in SUBSET PortNo :
        Becomes(LibraryUpdate(state, b, out, again))
  BY DEF ReceiveBpdu
<1>2. b \in Bridge
  <2>1. Lists(state) /\ d \in state.daemon.known
    BY DEF Sound, Good, ReceiveBpdu, state
  <2>2. Master(state, d) = b
    BY DEF Master, state
  <2> QED
    BY <2>1, <2>2 DEF Lists
<1> DEFINE t == LibraryUpdate(state, b, out, again)
<1>3. t = LibraryUpdate(state, b, out, again) /\ Becomes(t)
  BY <1>1
<1> HIDE DEF t, b
<1>4. Good(t)
  BY <1>2, <1>3, LibraryUpdateKeeps DEF Sound
<1>5. Good(state')
  BY <1>3, <1>4, BecomesKeeps
<1> QED
  BY <1>5 DEF Sound, ReceiveBpdu, Handler

\* A second has passed.
LEMMA OneSecondSound ==
  ASSUME Sound, OneSecond
  PROVE  Sound'
<1> DEFINE S == {b \in daemon.known \cap Bridge : daemon.br[b].stp_up}
<1>1. PICK out \in Outcome, again \in SUBSET PortNo :
        Becomes(FoldSet(LAMBDA b, s : LibraryUpdate(s, b, out, again), state, S))
  BY DEF OneSecond
<1> DEFINE t == Updating!Folded(out, again, state, S)
<1>2. t = Updating!Folded(out, again, state, S) /\ Becomes(t)
  BY <1>1 DEF FoldSet, MapThenFoldSet, Updating!Folded, UpdateOf, Some
<1>3. S \subseteq Bridge
  OBVIOUS
<1> HIDE DEF t, S
<1>4. Good(t)
  BY <1>2, <1>3, UpdateAllKeeps DEF Sound
<1>5. Good(state')
  BY <1>2, <1>4, BecomesKeeps
<1>6. Queued(queue')
  <2>1. CASE queue' = queue
    BY <2>1 DEF Sound
  <2>2. CASE Len(queue) + Len(Dump) <= QueueLimit /\ queue' = queue \o Dump
    <3>1. queue \in Seq(Mail) /\ Dump \in Seq(Mail)
      BY DumpIs DEF Sound, Good, Typed, state, Queued
    <3>2. queue' \in Seq(Mail) /\ Len(queue') = Len(queue) + Len(Dump)
          /\ Len(queue) \in Nat /\ Len(Dump) \in Nat
      BY <2>2, <3>1
    <3> QED
      BY <2>2, <3>2, RoomIs DEF Queued
  <2> QED
    BY <2>1, <2>2 DEF OneSecond
<1>7. seconds' \in 0 .. DumpEvery - 1
  <2>1. seconds + 1 \in Nat /\ DumpEvery \in Nat /\ DumpEvery # 0
    BY BoundAssumption DEF Sound
  <2>2. seconds' = (seconds + 1) % DumpEvery
    BY DEF OneSecond
  <2> QED
    BY <2>1, <2>2
<1> QED
  BY <1>5, <1>6, <1>7 DEF Sound, OneSecond, Handler

\* CTL_enable_bridge_rstp.
LEMMA EnableBridgeRstpSound ==
  ASSUME Sound, NEW b \in Bridge, NEW enable \in BOOLEAN,
         EnableBridgeRstp(b, enable)
  PROVE  Sound'
<1> DEFINE s == IF b \in daemon.known THEN state ELSE CreateBridge(state, b)
           u == Asked(s, b, enable)
<1>1. PICK out \in Outcome :
        \/ Becomes(u)
        \/ Becomes(InitBridgeStp(u, b, out))
        \/ Becomes(ClearBridgeStp(u, b, out))
  BY DEF EnableBridgeRstp, Asked
<1>2. Good(s) /\ b \in s.daemon.known
  <2>1. Good(state) /\ state.daemon = daemon
    BY DEF Sound, state
  <2>2. CASE b \in daemon.known
    BY <2>1, <2>2
  <2>3. CASE b \notin daemon.known
    <3>1. s = CreateBridge(state, b)
      BY <2>3
    <3> HIDE DEF s
    <3> QED
      BY <2>1, <2>3, <3>1, CreateBridgeKeeps
  <2> QED
    BY <2>2, <2>3
<1> HIDE DEF s
<1>3. PICK t \in {u, InitBridgeStp(u, b, out), ClearBridgeStp(u, b, out)} :
        Becomes(t)
  BY <1>1
<1>4. u = Asked(s, b, enable)
  OBVIOUS
<1> HIDE DEF u
<1>5. Good(t)
  BY <1>2, <1>3, <1>4, EnableKeeps
<1>6. Good(state')
  BY <1>3, <1>5, BecomesKeeps
<1> QED
  BY <1>6 DEF Sound, EnableBridgeRstp, Command, Handler

\* CTL_set_bridge_config.
LEMMA SetBridgeConfigSound ==
  ASSUME Sound, NEW b \in Bridge, NEW c, SetBridgeConfig(b, c)
  PROVE  Sound'
<1> DEFINE u == Configured(state, b, c)
<1>1. PICK out \in Outcome :
        \/ Becomes(state)
        \/ Becomes(LibraryUpdate(u, b, out, PortNo))
  BY DEF SetBridgeConfig, Configured, LibraryRestart
<1>2. Good(u)
  <2>1. u = Configured(state, b, c)
    OBVIOUS
  <2> HIDE DEF u
  <2> QED
    BY <2>1, ConfiguredKeeps DEF Sound
<1> HIDE DEF u
<1>3. Good(state')
  <2>1. CASE Becomes(state)
    BY <2>1, BecomesKeeps DEF Sound
  <2>2. CASE Becomes(LibraryUpdate(u, b, out, PortNo))
    <3> DEFINE t == LibraryUpdate(u, b, out, PortNo)
    <3>1. t = LibraryUpdate(u, b, out, PortNo) /\ Becomes(t)
      BY <2>2
    <3> HIDE DEF t
    <3>2. Good(t)
      BY <1>2, <3>1, LibraryUpdateKeeps
    <3> QED
      BY <3>1, <3>2, BecomesKeeps
  <2> QED
    BY <1>1, <2>1, <2>2
<1> QED
  BY <1>3 DEF Sound, SetBridgeConfig, Command, Handler

\* CTL_set_port_config.
LEMMA SetPortConfigSound ==
  ASSUME Sound, NEW b \in Bridge, NEW d \in Device, NEW c \in PortCfgs,
         SetPortConfig(b, d, c)
  PROVE  Sound'
<1> DEFINE i == daemon.dev[d].port_index
           rest == [f \in DOMAIN c \ {"prio"} |-> c[f]]
           r == LibConfigured(state, b, i, rest)
           u == PortConfigured(state, b, d, i, c)
<1>1. PICK out \in Outcome, again \in SUBSET PortNo :
        \/ BadPrio(c) /\ Becomes(r)
        \/ Becomes(LibraryUpdate(u, b, out, again))
  BY DEF SetPortConfig, LibConfigured, PortConfigured
<1>2. Good(state) /\ state.daemon = daemon
  BY DEF Sound, state
<1>3. d \in PortsOf(state, b)
  BY <1>2 DEF SetPortConfig, Good, Lists, Master
<1>4. i \in DOMAIN Lib(state, b) /\ i = Index(state, d)
  BY <1>2 DEF SetPortConfig, Lib, Index
<1> HIDE DEF i
<1>5. Good(state')
  <2>1. CASE BadPrio(c) /\ Becomes(r)
    <3>1. OneField => \A f : f \notin DOMAIN rest
      BY <2>1 DEF OneField
    <3>2. r = LibConfigured(state, b, i, rest)
      OBVIOUS
    <3> HIDE DEF r, rest
    <3>3. Good(r)
      BY <1>2, <1>4, <3>1, <3>2, RefusedKeeps
    <3> QED
      BY <2>1, <3>3, BecomesKeeps
  <2>2. CASE Becomes(LibraryUpdate(u, b, out, again))
    <3>1. u = PortConfigured(state, b, d, i, c)
      OBVIOUS
    <3> HIDE DEF u
    <3>2. Good(u)
      BY <1>2, <1>3, <1>4, <3>1, PortConfiguredKeeps
    <3> DEFINE t == LibraryUpdate(u, b, out, again)
    <3>3. t = LibraryUpdate(u, b, out, again) /\ Becomes(t)
      BY <2>2
    <3> HIDE DEF t
    <3>4. Good(t)
      BY <3>2, <3>3, LibraryUpdateKeeps
    <3> QED
      BY <3>3, <3>4, BecomesKeeps
  <2> QED
    BY <1>1, <2>1, <2>2
<1> QED
  BY <1>5 DEF Sound, SetPortConfig, Command, Handler

\* Every step of the kernel and of the daemon.
LEMMA NextSound ==
  ASSUME Sound, [Next]_vars
  PROVE  Sound'
<1>1. CASE UNCHANGED vars
  <2>1. state' = state
    BY <1>1 DEF vars, state
  <2> QED
    BY <1>1, <2>1 DEF Sound, vars
<1>2. CASE Kernel
  BY <1>2, KernelSound
<1>3. CASE Start
  BY <1>3, StartSound
<1>4. CASE ReadMessage
  BY <1>4, ReadMessageSound
<1>5. CASE \E d \in Device : ReceiveBpdu(d)
  BY <1>5, ReceiveBpduSound
<1>6. CASE OneSecond
  BY <1>6, OneSecondSound
<1>7. CASE Commands
  BY <1>7, EnableBridgeRstpSound, SetBridgeConfigSound, SetPortConfigSound
     DEF Commands
<1> QED
  BY <1>1, <1>2, <1>3, <1>4, <1>5, <1>6, <1>7 DEF Next

\* The invariant holds of the daemon, whatever the kernel, the messages, the
\* library and the commands do.
THEOREM DaemonSound == Spec => []Sound
<1>1. Init => Sound
  BY InitSound
<1>2. Sound /\ [Next]_vars => Sound'
  BY NextSound
<1> QED
  BY <1>1, <1>2, PTL DEF Spec

-----------------------------------------------------------------------------
(* What is expected of the daemon.                                         *)

\* The daemon's tables stay well-formed: what is on a port list is a device,
\* the library has ports of numbers a bridge gives, in states there are, and
\* the socket does not hold more than it may.
THEOREM AlwaysTyped == Spec => []TypeOK
<1>1. Sound => TypeOK
  <2> SUFFICES ASSUME Sound
               PROVE  TypeOK
    OBVIOUS
  <2>1. Typed(state) /\ state.kernel = kernel /\ state.daemon = daemon
    BY DEF Sound, Good, state
  <2>2. IsKernel(kernel) /\ IsDaemon(daemon)
    BY <2>1 DEF Typed
  <2>3. queue \in Seq(Message)
    <3>1. queue \in [1 .. Len(queue) -> Mail] /\ Len(queue) \in Nat
      BY DEF Sound, Queued
    <3>2. queue \in [1 .. Len(queue) -> Message]
      BY <3>1 DEF Mail
    <3> QED
      BY <3>1, <3>2
  <2>4. Len(queue) <= Max({QueueLimit, Cardinality(Device)})
    BY DEF Sound, Queued, Room
  <2>5. ASSUME NEW b \in Bridge
        PROVE  LET br == daemon.br[b] IN
               /\ {br.up, br.do_stp, br.stp_up} \subseteq BOOLEAN
               /\ br.port_list \in Seq(Device)
               /\ DOMAIN daemon.stp[b].port \subseteq PortNo
               /\ \A i \in DOMAIN daemon.stp[b].port :
                    daemon.stp[b].port[i].state \in LibState
    BY <2>2 DEF IsDaemon, IsBr, IsInstance
  <2>6. ASSUME NEW d \in Device
        PROVE  /\ daemon.dev[d].up \in BOOLEAN
               /\ daemon.dev[d].master \in Bridge \cup {NoBridge}
               /\ daemon.dev[d].port_index \in PortNo \cup {-1, 0}
    BY <2>2 DEF IsDaemon, IsDev
  <2>7. daemon.known \subseteq Interface /\ daemon.stp_up \in BOOLEAN
    BY <2>2 DEF IsDaemon
  <2> QED
    BY <2>2, <2>3, <2>4, <2>5, <2>6, <2>7 DEF Sound, TypeOK
<1> QED
  BY <1>1, DaemonSound, PTL

\* A port is on the list of its master, once, and on no other, whatever was
\* created, deleted or moved and in which order the messages came.
THEOREM AlwaysListed == Spec => []ListsAgree
<1>1. Sound => ListsAgree
  <2> SUFFICES ASSUME Sound
               PROVE  ListsAgree
    OBVIOUS
  <2>1. Lists(state) /\ state.daemon = daemon
    BY DEF Sound, Good, state
  <2>2. \A b : Ports(b) = PortsOf(state, b)
    BY <2>1 DEF Ports, PortsOf, List
  <2>3. \A b \in Bridge :
          /\ IsInjective(daemon.br[b].port_list)
          /\ b \notin daemon.known => Ports(b) = {}
    BY <2>1, <2>2 DEF Lists, List
  <2>4. \A d \in Device, b \in Bridge :
          d \in Ports(b) <=> d \in daemon.known /\ daemon.dev[d].master = b
    BY <2>1, <2>2 DEF Lists, Master
  <2> QED
    BY <2>3, <2>4 DEF ListsAgree
<1> QED
  BY <1>1, DaemonSound, PTL

\* The library never has a port that the daemon could not find for it, and
\* none while the bridge does not run the protocol.
THEOREM NeverOrphan == Spec => []NoOrphanPort
<1>1. Sound => NoOrphanPort
  <2> SUFFICES ASSUME Sound, NEW b \in Bridge,
                      NEW i \in DOMAIN daemon.stp[b].port
               PROVE  i \in IF daemon.br[b].stp_up
                            THEN {daemon.dev[d].port_index : d \in Ports(b)}
                            ELSE {}
    BY DEF NoOrphanPort
  <2>1. LibFits(state, b) /\ state.daemon = daemon
    BY DEF Sound, Good, LibOK, state
  <2>2. i \in DOMAIN Lib(state, b)
    BY <2>1 DEF Lib
  <2>3. Runs(state, b)
    BY <2>1, <2>2 DEF LibFits
  <2>4. PICK d \in PortsOf(state, b) : Index(state, d) = i
    BY <2>1, <2>2 DEF LibFits
  <2> QED
    BY <2>1, <2>3, <2>4 DEF Runs, PortsOf, List, Ports, Index
<1> QED
  BY <1>1, DaemonSound, PTL

\* What the library has of a bridge, and of a port alone in having its number,
\* is what the daemon keeps to give it again, as long as a command carries
\* one field, as those of rstpctl do.
THEOREM AlwaysConfigured ==
  ASSUME OneField
  PROVE  Spec => []ConfigKept
<1>1. Sound => ConfigKept
  <2> SUFFICES ASSUME Sound, NEW b \in Bridge, daemon.br[b].stp_up
               PROVE  /\ daemon.stp[b].cfg = daemon.br[b].cfg
                      /\ \A d \in Ports(b) :
                           LET i == daemon.dev[d].port_index IN
                           /\ i \in DOMAIN daemon.stp[b].port
                           /\ \A e \in Ports(b) \ {d} :
                                daemon.dev[e].port_index # i
                           => daemon.dev[d].cfg = daemon.stp[b].port[i].cfg
    BY DEF ConfigKept
  <2>1. CfgsKept(state, b) /\ state.daemon = daemon
    BY DEF Sound, Good, LibOK, state
  <2>2. Runs(state, b) /\ Ports(b) = PortsOf(state, b)
    BY <2>1 DEF Runs, Ports, PortsOf, List
  <2>3. daemon.stp[b].cfg = daemon.br[b].cfg
    BY <2>1, <2>2 DEF CfgsKept
  <2>4. ASSUME NEW d \in Ports(b),
               daemon.dev[d].port_index \in DOMAIN daemon.stp[b].port,
               \A e \in Ports(b) \ {d} :
                 daemon.dev[e].port_index # daemon.dev[d].port_index
        PROVE  daemon.dev[d].cfg
                 = daemon.stp[b].port[daemon.dev[d].port_index].cfg
    <3>1. Alone(state, b, d)
      BY <2>1, <2>2, <2>4 DEF Alone, Index
    <3>2. Index(state, d) \in DOMAIN Lib(state, b)
      BY <2>1, <2>4 DEF Index, Lib
    <3> QED
      BY <2>1, <2>2, <2>4, <3>1, <3>2 DEF CfgsKept, Index, Lib
  <2> QED
    BY <2>3, <2>4
<1> QED
  BY <1>1, DaemonSound, PTL

\* A bridge that was told to run RSTP, and runs it, sends the BPDUs of every
\* port of the library, whatever the other bridges are told.
THEOREM AlwaysSpeaks == Spec => []Speaks
<1>1. Sound => Speaks
  <2> SUFFICES ASSUME Sound, NEW b \in Bridge, CheckBridge(b),
                      NEW i \in DOMAIN daemon.stp[b].port
               PROVE  TxBpdu(state, b, i)
    BY DEF Speaks
  <2>1. /\ Typed(state) /\ Spoken(state) /\ LibFits(state, b)
        /\ state.daemon = daemon
    BY DEF Sound, Good, LibOK, state
  <2>2. state.daemon.stp_up
    BY <2>1 DEF Spoken, CheckBridge
  <2>3. PICK d \in PortsOf(state, b) : Index(state, d) = i
    BY <2>1 DEF LibFits, Lib
  <2>4. List(state, b) \in Seq(Device)
    BY <2>1 DEF Typed, IsDaemon, IsBr, List
  <2>5. PICK n \in DOMAIN List(state, b) : List(state, b)[n] = d
    BY <2>3 DEF PortsOf, Range
  <2>6. \E m \in DOMAIN List(state, b) :
          FindPort(state, b, i) = List(state, b)[m]
    BY <2>3, <2>4, <2>5, FindPortIs
  <2>7. FindPort(state, b, i) \in Device
    BY <2>4, <2>6
  <2>8. FindPort(state, b, i) # NoDevice
    BY <2>7, InterfaceAssumption
  <2> QED
    BY <2>2, <2>8 DEF TxBpdu
<1> QED
  BY <1>1, DaemonSound, PTL

-----------------------------------------------------------------------------
(* The daemon and the kernel agree about what no message is under way of.  *)

Newest(q, n) == \A m \in DOMAIN q : q[m].if = q[n].if => m <= n

\* A device of which no message is under way is to the daemon what it is to
\* the kernel; of the others, the newest message says what it is.
InStep(q, s) ==
  /\ \A d \in Device : (\A n \in DOMAIN q : q[n].if # d) => Agrees(s, d)
  /\ \A n \in DOMAIN q :
       q[n].if \in Device /\ Newest(q, n) => Reflects(s.kernel, q[n])

\* The end of a bridge that the kernel no longer has is under way as long as
\* the daemon knows the bridge, or has yet to hear of it.
Departed(q, s) ==
  /\ \A n \in DOMAIN q, b \in Bridge :
       Ends(q[n], b) => b \notin s.kernel.bridges
  /\ \A b \in Bridge : b \in s.daemon.known /\ b \notin s.kernel.bridges =>
       \E n \in DOMAIN q : Ends(q[n], b)
  /\ \A n \in DOMAIN q, b \in Bridge :
       q[n].master = b /\ b \notin s.kernel.bridges =>
         \E m \in DOMAIN q : m > n /\ Ends(q[m], b)

Following ==
  ~lost /\ phase # "stopped" => InStep(queue, state) /\ Departed(queue, state)

\* What messages r tell of a change of the kernel from k to l: every device
\* it touched, and every bridge it ended, after the bridge's last port.
Tells(k, l, r) ==
  /\ \A d \in Device : (\A n \in DOMAIN r : r[n].if # d) =>
       l.member[d] = k.member[d] /\ l.oper[d] = k.oper[d]
  /\ \A n \in DOMAIN r : r[n].if \in Device => Reflects(l, r[n])
  /\ \A b \in Bridge : b \in l.bridges => b \in k.bridges
  /\ \A n \in DOMAIN r, b \in Bridge : Ends(r[n], b) => b \notin l.bridges
  /\ \A b \in Bridge : b \in k.bridges /\ b \notin l.bridges =>
       \E n \in DOMAIN r : Ends(r[n], b)
  /\ \A n \in DOMAIN r, b \in Bridge : r[n].master = b /\ b \notin l.bridges =>
       \E m \in DOMAIN r : m > n /\ Ends(r[m], b)

\* One queue after another.
LEMMA JoinedIs ==
  ASSUME NEW q \in Seq(Mail), NEW r \in Seq(Mail)
  PROVE  /\ q \o r \in Seq(Mail)
         /\ Len(q) \in Nat
         /\ \A n \in DOMAIN q : n \in Nat /\ n <= Len(q) /\ n \in DOMAIN (q \o r)
                                /\ (q \o r)[n] = q[n]
         /\ \A n \in DOMAIN r :
              /\ n \in Nat /\ n > 0 /\ Len(q) + n \in DOMAIN (q \o r)
              /\ (q \o r)[Len(q) + n] = r[n]
         /\ \A n \in DOMAIN (q \o r) :
              n \in DOMAIN q \/ \E m \in DOMAIN r : n = Len(q) + m
<1>1. /\ q \o r \in Seq(Mail) /\ Len(q) \in Nat /\ Len(r) \in Nat
      /\ Len(q \o r) = Len(q) + Len(r)
      /\ DOMAIN q = 1 .. Len(q) /\ DOMAIN r = 1 .. Len(r)
      /\ DOMAIN (q \o r) = 1 .. Len(q) + Len(r)
  OBVIOUS
<1>2. \A n \in 1 .. Len(q) + Len(r) :
        (q \o r)[n] = IF n <= Len(q) THEN q[n] ELSE r[n - Len(q)]
  OBVIOUS
<1>3. ASSUME NEW n \in DOMAIN q
      PROVE  n \in Nat /\ n <= Len(q) /\ n \in DOMAIN (q \o r)
             /\ (q \o r)[n] = q[n]
  BY <1>1, <1>2
<1>4. ASSUME NEW n \in DOMAIN r
      PROVE  /\ n \in Nat /\ n > 0 /\ Len(q) + n \in DOMAIN (q \o r)
             /\ (q \o r)[Len(q) + n] = r[n]
  <2>1. n \in Nat /\ n > 0 /\ Len(q) + n \in 1 .. Len(q) + Len(r)
        /\ Len(q) + n - Len(q) = n /\ ~(Len(q) + n <= Len(q))
    BY <1>1
  <2> QED
    BY <1>1, <1>2, <2>1
<1>5. ASSUME NEW n \in DOMAIN (q \o r), n \notin DOMAIN q
      PROVE  \E m \in DOMAIN r : n = Len(q) + m
  <2>1. n - Len(q) \in 1 .. Len(r) /\ n = Len(q) + (n - Len(q))
    BY <1>1, <1>5
  <2> QED
    BY <1>1, <2>1
<1> QED
  BY <1>1, <1>3, <1>4, <1>5

\* The messages of a change are put after those that wait.
LEMMA ToldKeeps ==
  ASSUME NEW q \in Seq(Mail), NEW r \in Seq(Mail), NEW s, NEW t,
         InStep(q, s), Departed(q, s),
         Tells(s.kernel, t.kernel, r),
         Steady(s, t)
  PROVE  InStep(q \o r, t) /\ Departed(q \o r, t)
<1> DEFINE j == q \o r
           k == s.kernel
           l == t.kernel
           a == Len(q)
<1>1. /\ a \in Nat
      /\ \A n \in DOMAIN q : n \in Nat /\ n <= a /\ n \in DOMAIN j /\ j[n] = q[n]
      /\ \A n \in DOMAIN r : /\ n \in Nat /\ n > 0 /\ a + n \in DOMAIN j
                             /\ j[a + n] = r[n]
      /\ \A n \in DOMAIN j : n \in DOMAIN q \/ \E m \in DOMAIN r : n = a + m
  BY JoinedIs
<1> HIDE DEF j, a
<1>2. ASSUME NEW d \in Device, \A n \in DOMAIN j : j[n].if # d
      PROVE  Agrees(t, d)
  <2>1. \A n \in DOMAIN q : q[n].if # d
    BY <1>1, <1>2
  <2>2. \A n \in DOMAIN r : r[n].if # d
    BY <1>1, <1>2
  <2>3. Agrees(s, d) /\ l.member[d] = k.member[d] /\ l.oper[d] = k.oper[d]
    BY <2>1, <2>2 DEF InStep, Tells
  <2>4. Unmoved(s, t, d)
    BY DEF Steady
  <2> QED
    BY <2>3, <2>4 DEF Agrees, Unmoved
<1>3. ASSUME NEW n \in DOMAIN j, j[n].if \in Device, Newest(j, n)
      PROVE  Reflects(l, j[n])
  <2>1. CASE \E m \in DOMAIN r : n = a + m
    BY <1>1, <1>3, <2>1 DEF Tells
  <2>2. CASE n \in DOMAIN q
    <3>1. j[n] = q[n] /\ n \in Nat /\ n <= a
      BY <1>1, <2>2
    <3>2. \A m \in DOMAIN r : r[m].if # j[n].if
      <4> SUFFICES ASSUME NEW m \in DOMAIN r, r[m].if = j[n].if
                   PROVE  FALSE
        OBVIOUS
      <4>1. a + m <= n
        BY <1>1, <1>3 DEF Newest
      <4> QED
        BY <1>1, <3>1, <4>1
    <3>3. Newest(q, n)
      BY <1>1, <1>3, <2>2 DEF Newest
    <3>4. Reflects(k, q[n])
      BY <1>3, <2>2, <3>1, <3>3 DEF InStep
    <3>5. l.member[j[n].if] = k.member[j[n].if] /\ l.oper[j[n].if] = k.oper[j[n].if]
      BY <1>3, <3>2 DEF Tells
    <3> QED
      BY <3>1, <3>4, <3>5 DEF Reflects
  <2> QED
    BY <1>1, <2>1, <2>2
<1>4. ASSUME NEW n \in DOMAIN j, NEW b \in Bridge, Ends(j[n], b)
      PROVE  b \notin l.bridges
  <2>1. CASE \E m \in DOMAIN r : n = a + m
    BY <1>1, <1>4, <2>1 DEF Tells
  <2>2. CASE n \in DOMAIN q
    BY <1>1, <1>4, <2>2 DEF Departed, Tells
  <2> QED
    BY <1>1, <2>1, <2>2
<1>5. ASSUME NEW b \in Bridge, b \in k.bridges, b \notin l.bridges
      PROVE  \E n \in DOMAIN j : n > a /\ Ends(j[n], b)
  <2>1. PICK m \in DOMAIN r : Ends(r[m], b)
    BY <1>5 DEF Tells
  <2>2. a + m > a
    BY <1>1
  <2> QED
    BY <1>1, <2>1, <2>2
<1>6. ASSUME NEW b \in Bridge, b \in t.daemon.known, b \notin l.bridges
      PROVE  \E n \in DOMAIN j : Ends(j[n], b)
  <2>1. CASE b \in k.bridges
    BY <1>5, <1>6, <2>1
  <2>2. CASE b \notin k.bridges
    <3>1. b \in s.daemon.known
      BY <1>6 DEF Steady
    <3>2. PICK n \in DOMAIN q : Ends(q[n], b)
      BY <2>2, <3>1 DEF Departed
    <3> QED
      BY <1>1, <3>2
  <2> QED
    BY <2>1, <2>2
<1>7. ASSUME NEW n \in DOMAIN j, NEW b \in Bridge, j[n].master = b,
             b \notin l.bridges
      PROVE  \E m \in DOMAIN j : m > n /\ Ends(j[m], b)
  <2>1. CASE \E m \in DOMAIN r : n = a + m
    <3>1. PICK m \in DOMAIN r : n = a + m
      BY <2>1
    <3>2. r[m].master = b
      BY <1>1, <1>7, <3>1
    <3>3. PICK e \in DOMAIN r : e > m /\ Ends(r[e], b)
      BY <1>7, <3>2 DEF Tells
    <3>4. a + e > n
      BY <1>1, <3>1, <3>3
    <3> QED
      BY <1>1, <3>3, <3>4
  <2>2. CASE n \in DOMAIN q /\ b \in k.bridges
    <3>1. PICK m \in DOMAIN j : m > a /\ Ends(j[m], b)
      BY <1>5, <1>7, <2>2
    <3>2. m \in Nat /\ n \in Nat /\ n <= a
      <4>1. m \in DOMAIN q \/ \E e \in DOMAIN r : m = a + e
        BY <1>1
      <4> QED
        BY <1>1, <2>2, <4>1
    <3>3. m > n
      BY <1>1, <3>1, <3>2
    <3> QED
      BY <3>1, <3>3
  <2>3. CASE n \in DOMAIN q /\ b \notin k.bridges
    <3>1. q[n].master = b
      BY <1>1, <1>7, <2>3
    <3>2. PICK m \in DOMAIN q : m > n /\ Ends(q[m], b)
      BY <2>3, <3>1 DEF Departed
    <3> QED
      BY <1>1, <3>2
  <2> QED
    BY <1>1, <2>1, <2>2, <2>3
<1>8. InStep(j, t)
  BY <1>2, <1>3 DEF InStep
<1>9. Departed(j, t)
  BY <1>4, <1>6, <1>7 DEF Departed
<1> QED
  BY <1>8, <1>9 DEF j

\* What the daemon does apart from its messages leaves the agreement as it
\* is, if no bridge becomes known but one the kernel has.
LEMMA QuietKeeps ==
  ASSUME NEW q, NEW s, NEW t, InStep(q, s), Departed(q, s), SameKernel(s, t),
         \A e \in Device : Unmoved(s, t, e),
         \A b \in Bridge : b \in t.daemon.known =>
           b \in s.daemon.known \/ b \in s.kernel.bridges
  PROVE  InStep(q, t) /\ Departed(q, t)
<1>1. /\ t.kernel.member = s.kernel.member /\ t.kernel.oper = s.kernel.oper
      /\ t.kernel.bridges = s.kernel.bridges
  BY DEF SameKernel
<1>2. \A d \in Device : Agrees(s, d) => Agrees(t, d)
  BY <1>1 DEF Agrees, Unmoved
<1>3. \A m : Reflects(s.kernel, m) => Reflects(t.kernel, m)
  BY <1>1 DEF Reflects
<1>4. InStep(q, t)
  BY <1>2, <1>3 DEF InStep
<1>5. Departed(q, t)
  BY <1>1 DEF Departed
<1> QED
  BY <1>4, <1>5

\* A queue without its first message.
LEMMA TailIs ==
  ASSUME NEW q \in Seq(Mail), q # <<>>
  PROVE  /\ Head(q) = q[1] /\ 1 \in DOMAIN q /\ q[1] \in Mail
         /\ \A n \in DOMAIN q : n \in Nat /\ n >= 1
         /\ \A n \in DOMAIN Tail(q) :
              n \in Nat /\ n + 1 \in DOMAIN q /\ Tail(q)[n] = q[n + 1]
         /\ \A n \in DOMAIN q : n > 1 =>
              n - 1 \in DOMAIN Tail(q) /\ Tail(q)[n - 1] = q[n]
<1>1. /\ Len(q) \in Nat /\ Len(q) > 0 /\ DOMAIN q = 1 .. Len(q)
      /\ Tail(q) \in Seq(Mail) /\ Len(Tail(q)) = Len(q) - 1
      /\ DOMAIN Tail(q) = 1 .. Len(q) - 1
      /\ Head(q) = q[1]
  OBVIOUS
<1>2. \A n \in 1 .. Len(q) - 1 : Tail(q)[n] = q[n + 1]
  BY <1>1
<1>3. ASSUME NEW n \in DOMAIN q, n > 1
      PROVE  n - 1 \in DOMAIN Tail(q) /\ Tail(q)[n - 1] = q[n]
  <2>1. n - 1 \in 1 .. Len(q) - 1 /\ n - 1 + 1 = n
    BY <1>1, <1>3
  <2> QED
    BY <1>1, <1>2, <2>1
<1>4. 1 \in DOMAIN q /\ q[1] \in Mail
  BY <1>1
<1>5. \A n \in DOMAIN Tail(q) : n \in Nat /\ n + 1 \in DOMAIN q
  BY <1>1
<1>6. \A n \in DOMAIN q : n \in Nat /\ n >= 1
  BY <1>1
<1> QED
  BY <1>1, <1>2, <1>3, <1>4, <1>5, <1>6

\* A message is handled: of its device the daemon knows what the kernel has
\* by now, unless there is a newer one.
LEMMA HandledKeeps ==
  ASSUME NEW q \in Seq(Mail), q # <<>>, NEW s, Good(s), NEW t, SameKernel(s, t),
         Handled(s, Head(q), t), InStep(q, s), Departed(q, s)
  PROVE  InStep(Tail(q), t) /\ Departed(Tail(q), t)
<1> DEFINE r == Tail(q)
           m == Head(q)
           k == s.kernel
<1>1. /\ m = q[1] /\ 1 \in DOMAIN q
      /\ \A n \in DOMAIN q : n \in Nat /\ n >= 1
      /\ \A n \in DOMAIN r : n \in Nat /\ n + 1 \in DOMAIN q /\ r[n] = q[n + 1]
      /\ \A n \in DOMAIN q : n > 1 => n - 1 \in DOMAIN r /\ r[n - 1] = q[n]
  BY TailIs
<1>2. /\ t.kernel.member = k.member /\ t.kernel.oper = k.oper
      /\ t.kernel.bridges = k.bridges
  BY DEF SameKernel
<1>3. Handled(s, m, t)
  OBVIOUS
<1> HIDE DEF r, m
<1>4. ASSUME NEW d \in Device, \A n \in DOMAIN r : r[n].if # d
      PROVE  Agrees(t, d)
  <2>1. \A n \in DOMAIN q : n > 1 => q[n].if # d
    BY <1>1, <1>4
  <2>2. CASE m.if = d
    <3>1. Newest(q, 1)
      <4> SUFFICES ASSUME NEW n \in DOMAIN q, q[n].if = q[1].if
                   PROVE  n <= 1
        BY DEF Newest
      <4>1. ~(n > 1) /\ n \in Nat
        BY <1>1, <2>1, <2>2
      <4> QED
        BY <4>1
    <3>2. Reflects(k, m)
      BY <1>1, <2>2, <3>1 DEF InStep
    <3> QED
      BY <1>3, <2>2, <3>2 DEF Handled
  <2>3. CASE m.if # d
    <3>1. \A n \in DOMAIN q : q[n].if # d
      <4> SUFFICES ASSUME NEW n \in DOMAIN q, q[n].if = d
                   PROVE  FALSE
        OBVIOUS
      <4>1. ~(n > 1) /\ n \in Nat /\ n >= 1
        BY <1>1, <2>1
      <4>2. n = 1
        BY <4>1
      <4> QED
        BY <1>1, <2>3, <4>2
    <3>2. Agrees(s, d)
      BY <3>1 DEF InStep
    <3>3. ASSUME NEW c \in Bridge, Ends(m, c), d \in PortsOf(s, c)
          PROVE  FALSE
      <4>1. c \notin k.bridges
        BY <1>1, <3>3 DEF Departed
      <4>2. d \in s.daemon.known /\ Master(s, d) = c
        BY <3>3 DEF Good, Lists
      <4>3. k.member[d] = c /\ k.member[d] # NoBridge
        BY <3>2, <4>2 DEF Agrees
      <4>4. k.member[d] \in k.bridges
        BY <4>3 DEF Good, Typed, IsKernel
      <4> QED
        BY <4>1, <4>3, <4>4
    <3>4. Unmoved(s, t, d)
      BY <1>3, <2>3, <3>3 DEF Handled
    <3> QED
      BY <1>2, <3>2, <3>4 DEF Agrees, Unmoved
  <2> QED
    BY <2>2, <2>3
<1>5. ASSUME NEW n \in DOMAIN r, r[n].if \in Device, Newest(r, n)
      PROVE  Reflects(t.kernel, r[n])
  <2>1. n \in Nat /\ n + 1 \in DOMAIN q /\ r[n] = q[n + 1]
    BY <1>1
  <2>2. Newest(q, n + 1)
    <3> SUFFICES ASSUME NEW i \in DOMAIN q, q[i].if = r[n].if
                 PROVE  i <= n + 1
      BY <2>1 DEF Newest
    <3>1. i \in Nat
      BY <1>1
    <3>2. CASE i > 1
      <4>1. i - 1 \in DOMAIN r /\ r[i - 1].if = r[n].if
        BY <1>1, <3>2
      <4>2. i - 1 <= n
        BY <1>5, <4>1 DEF Newest
      <4> QED
        BY <2>1, <3>1, <4>2
    <3>3. CASE ~(i > 1)
      BY <2>1, <3>1, <3>3
    <3> QED
      BY <3>2, <3>3
  <2>3. Reflects(k, r[n])
    BY <1>5, <2>1, <2>2 DEF InStep
  <2> QED
    BY <1>2, <2>3 DEF Reflects
<1>6. ASSUME NEW n \in DOMAIN r, NEW b \in Bridge, Ends(r[n], b)
      PROVE  b \notin t.kernel.bridges
  <2>1. n + 1 \in DOMAIN q /\ Ends(q[n + 1], b)
    BY <1>1, <1>6
  <2> QED
    BY <1>2, <2>1 DEF Departed
<1>7. ASSUME NEW b \in Bridge, b \in t.daemon.known, b \notin k.bridges
      PROVE  \E n \in DOMAIN r : Ends(r[n], b)
  <2>1. ~Ends(m, b) /\ (b \in s.daemon.known \/ b = m.master)
    BY <1>3, <1>7 DEF Handled
  <2>2. PICK n \in DOMAIN q : Ends(q[n], b)
    <3>1. CASE b \in s.daemon.known
      BY <1>7, <3>1 DEF Departed
    <3>2. CASE b = m.master
      <4>1. q[1].master = b
        BY <1>1, <3>2
      <4> QED
        BY <1>1, <1>7, <4>1 DEF Departed
    <3> QED
      BY <2>1, <3>1, <3>2
  <2>3. n # 1 /\ n \in Nat /\ n >= 1
    BY <1>1, <2>1, <2>2
  <2>4. n > 1
    BY <2>3
  <2> QED
    BY <1>1, <2>2, <2>4
<1>8. ASSUME NEW n \in DOMAIN r, NEW b \in Bridge, r[n].master = b,
             b \notin k.bridges
      PROVE  \E i \in DOMAIN r : i > n /\ Ends(r[i], b)
  <2>1. n \in Nat /\ n + 1 \in DOMAIN q /\ q[n + 1].master = b
    BY <1>1, <1>8
  <2>2. PICK i \in DOMAIN q : i > n + 1 /\ Ends(q[i], b)
    BY <1>8, <2>1 DEF Departed
  <2>3. i \in Nat
    BY <1>1
  <2>4. i > 1 /\ i - 1 > n
    BY <2>1, <2>2, <2>3
  <2>5. i - 1 \in DOMAIN r /\ Ends(r[i - 1], b)
    BY <1>1, <2>2, <2>4
  <2> QED
    BY <2>4, <2>5
<1>9. InStep(r, t)
  BY <1>4, <1>5 DEF InStep
<1>10. Departed(r, t)
  BY <1>2, <1>6, <1>7, <1>8 DEF Departed
<1> QED
  BY <1>9, <1>10 DEF r

\* A change of the kernel of one message that ends no bridge.
LEMMA OneTold ==
  ASSUME NEW k, NEW l, NEW m \in Mail, l.bridges = k.bridges,
         \A d \in Device : d # m.if =>
           l.member[d] = k.member[d] /\ l.oper[d] = k.oper[d],
         m.if \in Device => Reflects(l, m),
         m.master # NoBridge => m.master \in l.bridges,
         m.if \in Bridge => m.newlink,
         NEW r, r = <<m>>
  PROVE  r \in Seq(Mail) /\ Tells(k, l, r)
<1>1. DOMAIN r = {1} /\ r[1] = m /\ r \in Seq(Mail)
  OBVIOUS
<1>2. \A b \in Bridge : ~Ends(m, b)
  BY DEF Ends
<1>3. \A b \in Bridge : m.master = b => b \in l.bridges
  BY InterfaceAssumption
<1> QED
  BY <1>1, <1>2, <1>3 DEF Tells

\* The socket is given the messages of a change of the kernel.
LEMMA NotifyFollows ==
  ASSUME Queued(queue), Following, NEW r \in Seq(Mail), Notify(r),
         Tells(kernel, kernel', r), daemon' = daemon
  PROVE  Following'
<1>1. CASE phase = "stopped" /\ UNCHANGED <<queue, lost, phase>>
  BY <1>1 DEF Following
<1>2. CASE lost' = TRUE
  BY <1>2 DEF Following
<1>3. CASE phase' = "stopped"
  BY <1>3 DEF Following
<1>4. CASE /\ phase # "stopped"
           /\ queue' = queue \o r /\ UNCHANGED <<lost, phase>>
  <2> SUFFICES ASSUME ~lost, phase # "stopped"
               PROVE  InStep(queue', state') /\ Departed(queue', state')
    BY <1>4 DEF Following
  <2>1. InStep(queue, state) /\ Departed(queue, state) /\ queue \in Seq(Mail)
    BY DEF Following, Queued
  <2>2. state.kernel = kernel /\ (state').kernel = kernel'
        /\ (state').daemon = state.daemon
    BY DEF state
  <2>3. Steady(state, state')
    BY <2>2 DEF Steady, Unmoved, Master, Up
  <2>4. InStep(queue \o r, state') /\ Departed(queue \o r, state')
    BY <2>1, <2>2, <2>3, ToldKeeps
  <2> QED
    BY <1>4, <2>4
<1> QED
  BY <1>1, <1>2, <1>3, <1>4 DEF Notify

\* brctl delbr tells of every port, and then of the bridge.
LEMMA RemovalTold ==
  ASSUME IsKernel(kernel), NEW b \in Bridge, RemoveBridge(b)
  PROVE  \E r \in Seq(Mail) : Notify(r) /\ Tells(kernel, kernel', r)
<1> DEFINE M == Members(b)
           N == Cardinality(M)
           list == SetToSeq(M)
           down == FALSE
           none == NoBridge
           ports == [n \in 1 .. N |-> Says(list[n], b, down, down)]
           end == Says(b, none, down, down)
           r == ports \o <<end>>
           mem == [d \in Device |-> IF kernel.member[d] = b THEN none
                                    ELSE kernel.member[d]]
<1>1. /\ (kernel').bridges = kernel.bridges \ {b}
      /\ (kernel').member = mem
      /\ (kernel').oper = [kernel.oper EXCEPT ![b] = FALSE]
      /\ Notify(r)
  BY DEF RemoveBridge, IsKernel
<1>2. /\ \A d \in Device : d \in M <=> kernel.member[d] = b
      /\ M \subseteq Device /\ IsFiniteSet(M)
  BY InterfaceAssumption, FS_Subset DEF Members
<1>3. b \in Interface /\ Device \subseteq Interface /\ b # NoBridge
      /\ \A d \in Device : d # b
  BY InterfaceAssumption DEF Interface
<1>4. down \in BOOLEAN /\ none \in Bridge \cup {NoBridge} /\ none = NoBridge
      /\ ~down
  OBVIOUS
<1>5. \A d \in Device :
        /\ (kernel').member[d] = IF d \in M THEN none ELSE kernel.member[d]
        /\ (kernel').oper[d] = kernel.oper[d]
  <2>1. \A d \in Device : (kernel').oper[d] = kernel.oper[d]
    BY <1>1, <1>3 DEF IsKernel
  <2> QED
    BY <1>1, <1>2, <2>1
<1> HIDE DEF M, mem
<1>6. N \in Nat /\ list \in [1 .. N -> M]
      /\ \A d \in M : \E n \in DOMAIN list : list[n] = d
  BY <1>2, SetToSeqIs
<1> HIDE DEF list, N, down, none
<1>7. end \in Mail /\ \A d \in M : Says(d, b, down, down) \in Mail
  <2>1. end \in Mail
    BY <1>3, <1>4, SaysIs
  <2>2. ASSUME NEW d \in M
        PROVE  Says(d, b, down, down) \in Mail
    BY <1>2, <1>3, <1>4, SaysIs
  <2> QED
    BY <2>1, <2>2
<1>8. ports \in Seq(Mail) /\ Len(ports) = N
  <2>1. ports \in [1 .. N -> Mail]
    BY <1>6, <1>7
  <2> QED
    BY <1>6, <2>1
<1>9. /\ end.if = b /\ ~end.newlink /\ end.master = NoBridge
      /\ \A n \in 1 .. N : /\ ports[n].if = list[n] /\ ports[n].if \in M
                           /\ ports[n].master = b
                           /\ ~ports[n].newlink
  BY <1>4, <1>6 DEF Says
<1> HIDE DEF ports, end
<1>10. /\ r \in Seq(Mail) /\ DOMAIN r = 1 .. N + 1 /\ r[N + 1] = end
       /\ \A n \in 1 .. N : r[n] = ports[n]
  BY <1>6, <1>7, <1>8
<1>11. /\ N + 1 \in DOMAIN r /\ N + 1 \notin 1 .. N
       /\ \A n \in DOMAIN r : n = N + 1 \/ (n \in 1 .. N /\ N + 1 > n)
       /\ \A n \in 1 .. N : n \in DOMAIN r
  BY <1>6, <1>10
<1> HIDE DEF r
<1>12. ASSUME NEW d \in Device, \A n \in DOMAIN r : r[n].if # d
       PROVE  /\ (kernel').member[d] = kernel.member[d]
              /\ (kernel').oper[d] = kernel.oper[d]
  <2>1. d \notin M
    <3> SUFFICES ASSUME d \in M
                 PROVE  FALSE
      OBVIOUS
    <3>1. PICK n \in 1 .. N : list[n] = d
      BY <1>6
    <3> QED
      BY <1>9, <1>10, <1>11, <1>12, <3>1
  <2> QED
    BY <1>5, <2>1
<1>13. ASSUME NEW n \in DOMAIN r, r[n].if \in Device
       PROVE  Reflects(kernel', r[n])
  <2>1. n \in 1 .. N
    BY <1>3, <1>9, <1>10, <1>11, <1>13
  <2>2. r[n].if \in M /\ r[n].master # NoBridge /\ ~r[n].newlink
    BY <1>3, <1>9, <1>10, <2>1
  <2>3. (kernel').member[r[n].if] = NoBridge
    BY <1>4, <1>5, <1>13, <2>2
  <2> QED
    BY <2>2, <2>3 DEF Reflects
<1>14. \A c \in Bridge : c \in (kernel').bridges <=> c \in kernel.bridges /\ c # b
  BY <1>1
<1>15. ASSUME NEW n \in DOMAIN r, NEW c \in Bridge, Ends(r[n], c)
       PROVE  c = b
  <2>1. CASE n = N + 1
    BY <1>9, <1>10, <1>15, <2>1 DEF Ends
  <2>2. CASE n \in 1 .. N
    BY <1>2, <1>9, <1>10, <1>15, <2>2, InterfaceAssumption DEF Ends
  <2> QED
    BY <1>11, <2>1, <2>2
<1>16. Ends(r[N + 1], b)
  BY <1>9, <1>10 DEF Ends
<1>17. ASSUME NEW n \in DOMAIN r, NEW c \in Bridge, r[n].master = c
       PROVE  c = b /\ N + 1 > n
  BY <1>9, <1>10, <1>11, <1>17, InterfaceAssumption
<1>18. Tells(kernel, kernel', r)
  BY <1>11, <1>12, <1>13, <1>14, <1>15, <1>16, <1>17 DEF Tells
<1> QED
  BY <1>1, <1>10, <1>18

\* Of every change of the kernel that a message tells of.
LEMMA KernelFollows ==
  ASSUME Sound, Following, Kernel
  PROVE  Following'
<1>1. IsKernel(kernel) /\ Queued(queue)
  BY DEF Sound, Good, Typed, state
<1>2. /\ kernel.member \in [Device -> Bridge \cup {NoBridge}]
      /\ kernel.oper \in [Interface -> BOOLEAN]
      /\ \A d \in Device : kernel.member[d] # NoBridge =>
           kernel.member[d] \in kernel.bridges /\ kernel.member[d] \in Bridge
      /\ DOMAIN kernel = {"bridges", "member", "port_no", "oper", "stp_state",
                          "state"}
  BY <1>1 DEF IsKernel
<1>3. Device \subseteq Interface /\ Bridge \subseteq Interface
      /\ \A d \in Device : d \notin Bridge
  BY InterfaceAssumption DEF Interface
<1>4. ASSUME NEW m \in Mail, Notify(<<m>>), daemon' = daemon,
             (kernel').bridges = kernel.bridges,
             \A d \in Device : d # m.if =>
               /\ (kernel').member[d] = kernel.member[d]
               /\ (kernel').oper[d] = kernel.oper[d],
             m.if \in Device => Reflects(kernel', m),
             m.master # NoBridge => m.master \in kernel.bridges,
             m.if \in Bridge => m.newlink
      PROVE  Following'
  <2> DEFINE r == <<m>>
  <2>1. r = <<m>> /\ Notify(r)
    BY <1>4
  <2> HIDE DEF r
  <2>2. m.master # NoBridge => m.master \in (kernel').bridges
    BY <1>4
  <2>3. r \in Seq(Mail) /\ Tells(kernel, kernel', r)
    BY <1>4, <2>1, <2>2, OneTold
  <2> QED
    BY <1>1, <1>4, <2>1, <2>3, NotifyFollows
<1>5. ASSUME NEW d \in Device, NEW b \in Bridge, AddInterface(d, b)
      PROVE  Following'
  <2> DEFINE up == kernel.oper[d]
             newlink == TRUE
             m == Says(d, b, newlink, up)
  <2>1. /\ daemon' = daemon /\ b \in kernel.bridges
        /\ (kernel').bridges = kernel.bridges
        /\ (kernel').member = [kernel.member EXCEPT ![d] = b]
        /\ (kernel').oper = kernel.oper
        /\ Notify(<<m>>)
    BY <1>2, <1>5 DEF AddInterface, KernelChange
  <2>2. up \in BOOLEAN /\ newlink \in BOOLEAN /\ newlink /\ b # NoBridge
    BY <1>2, <1>3, InterfaceAssumption
  <2> HIDE DEF newlink
  <2>3. m.if = d /\ m.master = b /\ m.newlink /\ m.up = up
    BY <2>2 DEF Says
  <2>4. m \in Mail
    <3> HIDE DEF up
    <3> QED
      BY <1>3, <2>2, SaysIs
  <2> HIDE DEF m
  <2>5. Reflects(kernel', m)
    BY <1>2, <2>1, <2>2, <2>3 DEF Reflects
  <2>6. \A e \in Device : e # d =>
          (kernel').member[e] = kernel.member[e] /\ (kernel').oper[e] = kernel.oper[e]
    BY <1>2, <2>1
  <2> QED
    BY <1>3, <1>4, <2>1, <2>3, <2>4, <2>5, <2>6
<1>6. ASSUME NEW d \in Device, DeleteInterface(d)
      PROVE  Following'
  <2> DEFINE b == kernel.member[d]
             down == FALSE
             m == Says(d, b, down, down)
  <2>1. /\ daemon' = daemon /\ b # NoBridge
        /\ (kernel').bridges = kernel.bridges
        /\ (kernel').member = [kernel.member EXCEPT ![d] = NoBridge]
        /\ (kernel').oper = kernel.oper
        /\ Notify(<<m>>)
    BY <1>2, <1>6 DEF DeleteInterface, KernelChange
  <2>2. down \in BOOLEAN /\ ~down /\ b \in Bridge /\ b \in kernel.bridges
    BY <1>2, <2>1
  <2> HIDE DEF down
  <2>3. m.if = d /\ m.master = b /\ ~m.newlink
    BY <2>2 DEF Says
  <2>4. m \in Mail
    <3> HIDE DEF b
    <3> QED
      BY <1>3, <2>2, SaysIs
  <2> HIDE DEF m
  <2>5. Reflects(kernel', m)
    BY <1>2, <2>1, <2>2, <2>3 DEF Reflects
  <2>6. \A e \in Device : e # d =>
          (kernel').member[e] = kernel.member[e] /\ (kernel').oper[e] = kernel.oper[e]
    BY <1>2, <2>1
  <2> QED
    BY <1>3, <1>4, <2>1, <2>2, <2>3, <2>4, <2>5, <2>6
<1>7. ASSUME NEW d \in Device, NEW newlink \in BOOLEAN, LinkChange(d, newlink)
      PROVE  Following'
  <2> DEFINE b == kernel.member[d]
             up == ~kernel.oper[d]
             m == Says(d, b, newlink, up)
  <2>1. /\ daemon' = daemon
        /\ newlink \/ (kernel.oper[d] /\ b # NoBridge)
        /\ (kernel').bridges = kernel.bridges
        /\ (kernel').member = kernel.member
        /\ (kernel').oper = [kernel.oper EXCEPT ![d] = ~@]
        /\ Notify(<<m>>)
    BY <1>2, <1>7 DEF LinkChange, KernelChange
  <2>2. up \in BOOLEAN /\ b \in Bridge \cup {NoBridge}
    BY <1>2, <1>3
  <2>3. (kernel').oper[d] = up /\ (kernel').member[d] = b
    BY <1>2, <1>3, <2>1
  <2>4. m.if = d /\ m.master = b /\ m.newlink = newlink
        /\ m.up = (newlink /\ up)
    BY DEF Says
  <2>5. m \in Mail
    <3> HIDE DEF b, up
    <3> QED
      BY <1>3, <2>2, SaysIs
  <2>6. \A e \in Device : e # d =>
          (kernel').member[e] = kernel.member[e] /\ (kernel').oper[e] = kernel.oper[e]
    BY <1>2, <1>3, <2>1
  <2>7. b # NoBridge => b \in kernel.bridges
    BY <1>2
  <2>8. newlink \/ (up = FALSE /\ b # NoBridge)
    BY <1>2, <1>3, <2>1
  <2> HIDE DEF m, b, up
  <2>9. Reflects(kernel', m)
    <3>1. CASE newlink
      BY <2>2, <2>3, <2>4, <3>1 DEF Reflects
    <3>2. CASE up = FALSE /\ b # NoBridge
      BY <2>3, <2>4, <3>2 DEF Reflects
    <3> QED
      BY <2>8, <3>1, <3>2
  <2> QED
    BY <1>3, <1>4, <2>1, <2>4, <2>5, <2>6, <2>7, <2>9
<1>8. ASSUME NEW b \in Bridge, BridgeChange(b)
      PROVE  Following'
  <2> DEFINE up == ~kernel.oper[b]
             none == NoBridge
             newlink == TRUE
             m == Says(b, none, newlink, up)
  <2>1. /\ daemon' = daemon
        /\ (kernel').bridges = kernel.bridges
        /\ (kernel').member = kernel.member
        /\ (kernel').oper = [kernel.oper EXCEPT ![b] = ~@]
        /\ Notify(<<m>>)
    BY <1>2, <1>8 DEF BridgeChange, KernelChange
  <2>2. /\ up \in BOOLEAN /\ newlink \in BOOLEAN /\ newlink
        /\ none = NoBridge /\ none \in Bridge \cup {NoBridge}
    BY <1>2, <1>3
  <2> HIDE DEF none, newlink
  <2>3. m.if = b /\ m.master = NoBridge /\ m.newlink
    BY <2>2 DEF Says
  <2>4. m \in Mail
    <3> HIDE DEF up
    <3> QED
      BY <1>3, <2>2, SaysIs
  <2> HIDE DEF m
  <2>5. \A e \in Device : e # b /\
          (kernel').member[e] = kernel.member[e] /\ (kernel').oper[e] = kernel.oper[e]
    BY <1>2, <1>3, <2>1
  <2> QED
    BY <1>3, <1>4, <2>1, <2>3, <2>4, <2>5
<1>9. ASSUME NEW b \in Bridge, StpStateChange(b)
      PROVE  Following'
  <2>1. /\ daemon' = daemon /\ UNCHANGED <<queue, lost, phase>>
        /\ (kernel').bridges = kernel.bridges
        /\ (kernel').member = kernel.member
        /\ (kernel').oper = kernel.oper
    BY <1>2, <1>9 DEF StpStateChange, KernelChange
  <2> SUFFICES ASSUME ~lost, phase # "stopped"
               PROVE  InStep(queue, state') /\ Departed(queue, state')
    BY <2>1 DEF Following
  <2>2. InStep(queue, state) /\ Departed(queue, state)
    BY DEF Following
  <2>3. /\ (state').daemon = state.daemon
        /\ (state').kernel.bridges = state.kernel.bridges
        /\ (state').kernel.member = state.kernel.member
        /\ (state').kernel.oper = state.kernel.oper
    BY <2>1 DEF state
  <2> QED
    BY <2>2, <2>3 DEF InStep, Departed, Agrees, Reflects, Master, Up
<1>10. ASSUME NEW b \in Bridge, RemoveBridge(b)
       PROVE  Following'
  <2>1. PICK r \in Seq(Mail) : Notify(r) /\ Tells(kernel, kernel', r)
    BY <1>1, <1>10, RemovalTold
  <2>2. daemon' = daemon
    BY <1>10 DEF RemoveBridge, KernelChange
  <2> QED
    BY <1>1, <2>1, <2>2, NotifyFollows
<1> QED
  BY <1>5, <1>6, <1>7, <1>8, <1>9, <1>10 DEF Kernel

\* A dump has the ports the kernel has, as it has them.
LEMMA DumpTold ==
  ASSUME IsKernel(kernel)
  PROVE  /\ \A d \in Device : kernel.member[d] # NoBridge =>
              \E n \in DOMAIN Dump : Dump[n].if = d
         /\ \A n \in DOMAIN Dump :
              /\ Dump[n].if \in Device
              /\ kernel.member[Dump[n].if] # NoBridge
              /\ Dump[n].master \in kernel.bridges
              /\ Dump[n].newlink
              /\ Reflects(kernel, Dump[n])
<1> DEFINE S == {d \in Device : kernel.member[d] # NoBridge}
           ports == SetToSeq(S)
           newlink == TRUE
<1>1. IsFiniteSet(S)
  BY InterfaceAssumption, FS_Subset
<1>2. Dump = [n \in DOMAIN ports |->
                Says(ports[n], kernel.member[ports[n]], newlink,
                     kernel.oper[ports[n]])]
  BY DEF Dump
<1>3. \A d \in S : /\ d \in Device /\ kernel.member[d] # NoBridge
                   /\ kernel.member[d] \in kernel.bridges
                   /\ kernel.oper[d] \in BOOLEAN
  BY DEF IsKernel, Interface
<1>4. \A d \in Device : kernel.member[d] # NoBridge => d \in S
  OBVIOUS
<1>5. newlink
  OBVIOUS
<1> HIDE DEF S, newlink
<1>6. /\ ports \in [1 .. Cardinality(S) -> S]
      /\ \A d \in S : \E n \in DOMAIN ports : ports[n] = d
  BY <1>1, SetToSeqIs
<1> HIDE DEF ports
<1>7. ASSUME NEW n \in DOMAIN ports
      PROVE  /\ Dump[n].if = ports[n] /\ ports[n] \in S
             /\ Dump[n].master = kernel.member[ports[n]]
             /\ Dump[n].newlink /\ (Dump[n].up <=> kernel.oper[ports[n]])
             /\ Dump[n].up \in BOOLEAN
  BY <1>2, <1>5, <1>6 DEF Says
<1>8. DOMAIN Dump = DOMAIN ports
  BY <1>2
<1>9. ASSUME NEW n \in DOMAIN Dump
      PROVE  /\ Dump[n].if \in Device
             /\ kernel.member[Dump[n].if] # NoBridge
             /\ Dump[n].master \in kernel.bridges
             /\ Dump[n].newlink
             /\ Reflects(kernel, Dump[n])
  BY <1>3, <1>7, <1>8 DEF Reflects
<1>10. ASSUME NEW d \in Device, kernel.member[d] # NoBridge
       PROVE  \E n \in DOMAIN Dump : Dump[n].if = d
  BY <1>4, <1>6, <1>7, <1>8, <1>10
<1> QED
  BY <1>9, <1>10

\* main starts the daemon, which knows nothing.
LEMMA StartFollows ==
  ASSUME Sound, Start
  PROVE  Following'
<1>1. IsKernel(kernel) /\ kernel.bridges \in SUBSET Bridge
  BY DEF Sound, Good, Typed, state, IsKernel
<1>2. /\ queue' = Dump /\ (state').kernel = kernel
      /\ \A x : x \notin (state').daemon.known
  BY DEF Start, state, NewDaemon
<1>3. ASSUME NEW d \in Device, \A n \in DOMAIN Dump : Dump[n].if # d
      PROVE  Agrees(state', d)
  BY <1>1, <1>2, <1>3, DumpTold DEF Agrees
<1>4. InStep(Dump, state')
  BY <1>1, <1>2, <1>3, DumpTold DEF InStep
<1>5. \A n \in DOMAIN Dump, b \in Bridge :
        /\ ~Ends(Dump[n], b)
        /\ Dump[n].master = b => b \in kernel.bridges
  BY <1>1, DumpTold DEF Ends
<1>6. Departed(Dump, state')
  BY <1>2, <1>5 DEF Departed
<1> QED
  BY <1>2, <1>4, <1>6 DEF Following

\* A message is read.
LEMMA ReadMessageFollows ==
  ASSUME Sound, Following, ReadMessage
  PROVE  Following'
<1> SUFFICES ASSUME ~lost
             PROVE  InStep(Tail(queue), state') /\ Departed(Tail(queue), state')
  BY DEF Following, ReadMessage
<1>1. /\ InStep(queue, state) /\ Departed(queue, state) /\ queue # <<>>
      /\ queue \in Seq(Mail) /\ Good(state)
  BY DEF Following, ReadMessage, Sound, Queued
<1>2. PICK out \in Outcome : Becomes(BridgeNotify(state, Head(queue), out))
  BY DEF ReadMessage
<1> DEFINE m == Head(queue)
           t == BridgeNotify(state, m, out)
<1>3. Addressed(m) /\ Becomes(t) /\ t = BridgeNotify(state, m, out)
  BY <1>1, <1>2, TailIs DEF Mail
<1>4. SameKernel(state, t) /\ Handled(state, m, t)
  <2> HIDE DEF m, t
  <2> QED
    BY <1>1, <1>3, BridgeNotifyKeeps
<1> HIDE DEF t
<1>5. (state').kernel = t.kernel /\ (state').daemon = t.daemon
  BY <1>3 DEF state, Becomes
<1>6. InStep(Tail(queue), t) /\ Departed(Tail(queue), t)
  BY <1>1, <1>4, HandledKeeps
<1> QED
  BY <1>5, <1>6 DEF InStep, Departed, Agrees, Master, Up

\* What the daemon does on its own account.
LEMMA BecomesFollows ==
  ASSUME Following, NEW t, Becomes(t), UNCHANGED <<queue, lost, phase>>,
         SameKernel(state, t), \A e \in Device : Unmoved(state, t, e),
         \A b \in Bridge : b \in t.daemon.known =>
           b \in state.daemon.known \/ b \in state.kernel.bridges
  PROVE  Following'
<1> SUFFICES ASSUME ~lost, phase # "stopped"
             PROVE  InStep(queue, state') /\ Departed(queue, state')
  BY DEF Following
<1>1. InStep(queue, state) /\ Departed(queue, state)
  BY DEF Following
<1>2. InStep(queue, t) /\ Departed(queue, t)
  BY <1>1, QuietKeeps
<1>3. (state').kernel = t.kernel /\ (state').daemon = t.daemon
  BY DEF state, Becomes
<1> QED
  BY <1>2, <1>3 DEF InStep, Departed, Agrees, Master, Up

\* The library ran, and moved no port from where it is.
LEMMA SteadyFollows ==
  ASSUME Following, NEW t, Becomes(t), UNCHANGED <<queue, lost, phase>>,
         SameKernel(state, t), Steady(state, t)
  PROVE  Following'
BY BecomesFollows DEF Steady

\* The library's part of an update.
LEMMA UpdateSteady ==
  ASSUME NEW s, NEW t, NEW b, OnlyLib(s, t, b)
  PROVE  SameKernel(s, t) /\ Steady(s, t)
<1>1. SameView(s, t)
  BY DEF OnlyLib, Only
<1> QED
  BY <1>1 DEF SameView, SameDev, Steady, Unmoved, Master, Up

\* A BPDU is received.
LEMMA ReceiveBpduFollows ==
  ASSUME Sound, Following, NEW d \in Device, ReceiveBpdu(d)
  PROVE  Following'
<1> DEFINE b == daemon.dev[d].master
<1>1. PICK out \in Outcome, again \in SUBSET PortNo :
        Becomes(LibraryUpdate(state, b, out, again))
  BY DEF ReceiveBpdu
<1>2. b \in Bridge
  <2>1. Lists(state) /\ d \in state.daemon.known
    BY DEF Sound, Good, ReceiveBpdu, state
  <2>2. Master(state, d) = b
    BY DEF Master, state
  <2> QED
    BY <2>1, <2>2 DEF Lists
<1> DEFINE t == LibraryUpdate(state, b, out, again)
<1>3. t = LibraryUpdate(state, b, out, again) /\ Becomes(t)
  BY <1>1
<1> HIDE DEF t, b
<1>4. SameKernel(state, t) /\ Steady(state, t)
  BY <1>2, <1>3, LibraryUpdateKeeps, UpdateSteady DEF Sound
<1>5. UNCHANGED <<queue, lost, phase>>
  BY DEF ReceiveBpdu, Handler
<1> QED
  BY <1>3, <1>4, <1>5, SteadyFollows

\* A second has passed; a dump may be asked for.
LEMMA OneSecondFollows ==
  ASSUME Sound, Following, OneSecond
  PROVE  Following'
<1> DEFINE S == {b \in daemon.known \cap Bridge : daemon.br[b].stp_up}
<1>1. PICK out \in Outcome, again \in SUBSET PortNo :
        Becomes(FoldSet(LAMBDA b, s : LibraryUpdate(s, b, out, again), state, S))
  BY DEF OneSecond
<1> DEFINE t == Updating!Folded(out, again, state, S)
<1>2. t = Updating!Folded(out, again, state, S) /\ Becomes(t)
  BY <1>1 DEF FoldSet, MapThenFoldSet, Updating!Folded, UpdateOf, Some
<1>3. S \subseteq Bridge
  OBVIOUS
<1> HIDE DEF t, S
<1>4. SameKernel(state, t) /\ Steady(state, t)
  BY <1>2, <1>3, UpdateAllKeeps DEF Sound
<1>5. UNCHANGED <<lost, phase>>
  BY DEF OneSecond, Handler
<1>6. CASE queue' = queue
  BY <1>2, <1>4, <1>5, <1>6, SteadyFollows
<1>7. CASE queue' = queue \o Dump
  <2> SUFFICES ASSUME ~lost, phase # "stopped"
               PROVE  InStep(queue \o Dump, state') /\ Departed(queue \o Dump, state')
    BY <1>5, <1>7 DEF Following
  <2>1. /\ InStep(queue, state) /\ Departed(queue, state)
        /\ queue \in Seq(Mail) /\ IsKernel(kernel)
    BY DEF Following, Sound, Queued, Good, Typed, state
  <2>2. Dump \in Seq(Mail)
    BY <2>1, DumpIs DEF Queued
  <2>3. /\ (state').kernel = t.kernel /\ (state').daemon = t.daemon
        /\ state.kernel = kernel
    BY <1>2 DEF state, Becomes
  <2>4. Steady(state, state')
    BY <1>4, <2>3 DEF Steady, Unmoved, Master, Up
  <2>5. /\ t.kernel.member = kernel.member /\ t.kernel.oper = kernel.oper
        /\ t.kernel.bridges = kernel.bridges
    BY <1>4, <2>3 DEF SameKernel
  <2>6. \A n \in DOMAIN Dump :
          /\ Reflects(t.kernel, Dump[n])
          /\ \A b \in Bridge : ~Ends(Dump[n], b)
          /\ Dump[n].master \in t.kernel.bridges
    BY <2>1, <2>5, DumpTold DEF Reflects, Ends
  <2>7. Tells(state.kernel, (state').kernel, Dump)
    BY <2>3, <2>5, <2>6 DEF Tells
  <2> QED
    BY <2>1, <2>2, <2>4, <2>7, ToldKeeps
<1> QED
  BY <1>6, <1>7 DEF OneSecond

\* CTL_enable_bridge_rstp.
LEMMA EnableBridgeRstpFollows ==
  ASSUME Sound, Following, NEW b \in Bridge, NEW enable \in BOOLEAN,
         EnableBridgeRstp(b, enable)
  PROVE  Following'
<1> DEFINE s == IF b \in daemon.known THEN state ELSE CreateBridge(state, b)
           u == Asked(s, b, enable)
<1>1. PICK out \in Outcome :
        \/ Becomes(u)
        \/ Becomes(InitBridgeStp(u, b, out))
        \/ Becomes(ClearBridgeStp(u, b, out))
  BY DEF EnableBridgeRstp, Asked
<1>2. /\ Good(s) /\ b \in s.daemon.known /\ SameKernel(state, s)
      /\ \A e \in Device : Unmoved(state, s, e)
      /\ \A c : c \in s.daemon.known =>
           c \in state.daemon.known \/ c \in state.kernel.bridges
  <2>1. Good(state) /\ state.daemon = daemon
    BY DEF Sound, state
  <2>2. CASE b \in daemon.known
    BY <2>1, <2>2 DEF SameKernel, Unmoved
  <2>3. CASE b \notin daemon.known
    <3>1. s = CreateBridge(state, b)
      BY <2>3
    <3>2. b \in state.kernel.bridges
      BY <2>3 DEF EnableBridgeRstp, IsBridge
    <3> HIDE DEF s
    <3>3. /\ Good(s) /\ s.kernel = state.kernel
          /\ \A x : x \in s.daemon.known <=> x \in state.daemon.known \/ x = b
          /\ s.daemon.dev = state.daemon.dev
      BY <2>1, <2>3, <3>1, CreateBridgeKeeps
    <3>4. \A e \in Device : e # b
      BY InterfaceAssumption
    <3> QED
      BY <3>2, <3>3, <3>4 DEF SameKernel, Unmoved, Master, Up
  <2> QED
    BY <2>2, <2>3
<1> HIDE DEF s
<1>3. PICK t \in {u, InitBridgeStp(u, b, out), ClearBridgeStp(u, b, out)} :
        Becomes(t)
  BY <1>1
<1>4. u = Asked(s, b, enable)
  OBVIOUS
<1> HIDE DEF u
<1>5. SameKernel(s, t) /\ t.daemon.known = s.daemon.known
      /\ \A e \in Device : Unmoved(s, t, e)
  BY <1>2, <1>3, <1>4, EnableKeeps
<1>6. SameKernel(state, t)
  BY <1>2, <1>5 DEF SameKernel
<1>7. \A e \in Device : Unmoved(state, t, e)
  BY <1>2, <1>5 DEF Unmoved
<1>8. UNCHANGED <<queue, lost, phase>>
  BY DEF EnableBridgeRstp, Command, Handler
<1> QED
  BY <1>2, <1>3, <1>5, <1>6, <1>7, <1>8, BecomesFollows

\* CTL_set_bridge_config.
LEMMA SetBridgeConfigFollows ==
  ASSUME Sound, Following, NEW b \in Bridge, NEW c, SetBridgeConfig(b, c)
  PROVE  Following'
<1> DEFINE u == Configured(state, b, c)
<1>1. PICK out \in Outcome :
        \/ Becomes(state)
        \/ Becomes(LibraryUpdate(u, b, out, PortNo))
  BY DEF SetBridgeConfig, Configured, LibraryRestart
<1>2. Good(u) /\ SameKernel(state, u) /\ Steady(state, u)
  <2>1. u = Configured(state, b, c)
    OBVIOUS
  <2> HIDE DEF u
  <2> QED
    BY <2>1, ConfiguredKeeps DEF Sound
<1> HIDE DEF u
<1>3. UNCHANGED <<queue, lost, phase>>
  BY DEF SetBridgeConfig, Command, Handler
<1>4. CASE Becomes(state)
  <2>1. SameKernel(state, state) /\ Steady(state, state)
    BY DEF SameKernel, Steady, Unmoved
  <2> QED
    BY <1>3, <1>4, <2>1, SteadyFollows
<1>5. CASE Becomes(LibraryUpdate(u, b, out, PortNo))
  <2> DEFINE t == LibraryUpdate(u, b, out, PortNo)
  <2>1. t = LibraryUpdate(u, b, out, PortNo) /\ Becomes(t)
    BY <1>5
  <2> HIDE DEF t
  <2>2. SameKernel(u, t) /\ Steady(u, t)
    BY <1>2, <2>1, LibraryUpdateKeeps, UpdateSteady
  <2>3. SameKernel(state, t) /\ Steady(state, t)
    BY <1>2, <2>2 DEF SameKernel, Steady, Unmoved
  <2> QED
    BY <1>3, <2>1, <2>3, SteadyFollows
<1> QED
  BY <1>1, <1>4, <1>5

\* CTL_set_port_config.
LEMMA SetPortConfigFollows ==
  ASSUME Sound, Following, NEW b \in Bridge, NEW d \in Device,
         NEW c \in PortCfgs, SetPortConfig(b, d, c)
  PROVE  Following'
<1> DEFINE i == daemon.dev[d].port_index
           rest == [f \in DOMAIN c \ {"prio"} |-> c[f]]
           r == LibConfigured(state, b, i, rest)
           u == PortConfigured(state, b, d, i, c)
<1>1. PICK out \in Outcome, again \in SUBSET PortNo :
        \/ BadPrio(c) /\ Becomes(r)
        \/ Becomes(LibraryUpdate(u, b, out, again))
  BY DEF SetPortConfig, LibConfigured, PortConfigured
<1>2. Good(state) /\ state.daemon = daemon
  BY DEF Sound, state
<1>3. d \in PortsOf(state, b)
  BY <1>2 DEF SetPortConfig, Good, Lists, Master
<1>4. i \in DOMAIN Lib(state, b) /\ i = Index(state, d)
  BY <1>2 DEF SetPortConfig, Lib, Index
<1>5. UNCHANGED <<queue, lost, phase>>
  BY DEF SetPortConfig, Command, Handler
<1> HIDE DEF i
<1>6. CASE BadPrio(c) /\ Becomes(r)
  <2>1. OneField => \A f : f \notin DOMAIN rest
    BY <1>6 DEF OneField
  <2>2. r = LibConfigured(state, b, i, rest)
    OBVIOUS
  <2> HIDE DEF r, rest
  <2>3. SameKernel(state, r) /\ Steady(state, r)
    BY <1>2, <1>4, <2>1, <2>2, RefusedKeeps
  <2> QED
    BY <1>5, <1>6, <2>3, SteadyFollows
<1>7. CASE Becomes(LibraryUpdate(u, b, out, again))
  <2>1. u = PortConfigured(state, b, d, i, c)
    OBVIOUS
  <2> HIDE DEF u
  <2>2. Good(u) /\ SameKernel(state, u) /\ Steady(state, u)
    BY <1>2, <1>3, <1>4, <2>1, PortConfiguredKeeps
  <2> DEFINE t == LibraryUpdate(u, b, out, again)
  <2>3. t = LibraryUpdate(u, b, out, again) /\ Becomes(t)
    BY <1>7
  <2> HIDE DEF t
  <2>4. SameKernel(u, t) /\ Steady(u, t)
    BY <2>2, <2>3, LibraryUpdateKeeps, UpdateSteady
  <2>5. SameKernel(state, t) /\ Steady(state, t)
    BY <2>2, <2>4 DEF SameKernel, Steady, Unmoved
  <2> QED
    BY <1>5, <2>3, <2>5, SteadyFollows
<1> QED
  BY <1>1, <1>6, <1>7

\* Every step of the kernel and of the daemon.
LEMMA NextFollows ==
  ASSUME Sound, Following, [Next]_vars
  PROVE  Following'
<1>1. CASE UNCHANGED vars
  <2>1. state' = state /\ UNCHANGED <<queue, lost, phase>>
    BY <1>1 DEF vars, state
  <2> QED
    BY <2>1 DEF Following
<1>2. CASE Kernel
  BY <1>2, KernelFollows
<1>3. CASE Start
  BY <1>3, StartFollows
<1>4. CASE ReadMessage
  BY <1>4, ReadMessageFollows
<1>5. CASE \E d \in Device : ReceiveBpdu(d)
  BY <1>5, ReceiveBpduFollows
<1>6. CASE OneSecond
  BY <1>6, OneSecondFollows
<1>7. CASE Commands
  BY <1>7, EnableBridgeRstpFollows, SetBridgeConfigFollows, SetPortConfigFollows
     DEF Commands
<1> QED
  BY <1>1, <1>2, <1>3, <1>4, <1>5, <1>6, <1>7 DEF Next

\* Until a message is lost, the newest message of each interface says what
\* the kernel is, though bridge_notify has yet to read it.
THEOREM DaemonFollows == Spec => []Following
<1>1. Init => Following
  BY DEF Init, Following
<1>2. Sound /\ Following /\ [Next]_vars => Following'
  BY NextFollows
<1> QED
  BY <1>1, <1>2, DaemonSound, PTL DEF Spec

\* When every message has been read, and none was lost, the daemon has the
\* kernel's ports, their bridges and their links, and no bridge that is gone,
\* however far the kernel was ahead of the messages that bridge_notify read.
THEOREM AlwaysTracked == Spec => []Tracked
<1>1. Following => Tracked
  <2> SUFFICES ASSUME Following, UpToDate
               PROVE  /\ daemon.known \cap Bridge \subseteq kernel.bridges
                      /\ \A d \in Device :
                           /\ d \in daemon.known <=> kernel.member[d] # NoBridge
                           /\ d \in daemon.known =>
                                /\ daemon.dev[d].master = kernel.member[d]
                                /\ daemon.dev[d].up = kernel.oper[d]
    BY DEF Tracked
  <2>1. InStep(queue, state) /\ Departed(queue, state)
    BY DEF Following, UpToDate
  <2>2. \A n : n \notin DOMAIN queue
    BY DEF UpToDate
  <2>3. \A d \in Device : Agrees(state, d)
    BY <2>1, <2>2 DEF InStep
  <2>4. \A b \in Bridge : b \in daemon.known => b \in kernel.bridges
    BY <2>1, <2>2 DEF Departed, state
  <2> QED
    BY <2>3, <2>4 DEF Agrees, Master, Up, state
<1> QED
  BY <1>1, DaemonFollows, PTL

=============================================================================
