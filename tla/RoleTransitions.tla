-------------------------- MODULE RoleTransitions --------------------------
(***************************************************************************)
(* The Port Role Transitions machine (rstplib/roletrns.c): gives the port  *)
(* the role that was selected for it and takes it, through the timers or   *)
(* through the proposal/agreement exchange, to learning and forwarding.    *)
(*                                                                         *)
(* RoletrnsHop(q, b, others, to): "others" is the set of records of the    *)
(* other ports of the bridge, which two of the guards look at.             *)
(* RoletrnsEnter is what a state does to the machine's own port, and       *)
(* RoletrnsBroadcast the flags it raises on every port of the bridge.      *)
(***************************************************************************)
EXTENDS PortState

\* compute_allsynced, compute_rerooted
AllSynced(others) == \A r \in others : "synced" \in r.on
ReRooted(others) == \A r \in others : r.timer["rrWhile"] = 0

\* compute_edgedelay
EdgeDelay(q, b) == IF "operPointToPointMac" \in q.on THEN MigrateTime
                   ELSE b.rootTimes.MaxAge

RootStates == {"ROOT_PROPOSED", "ROOT_AGREED", "REROOT", "REROOTED",
               "ROOT_LEARN", "ROOT_FORWARD"}
DesignatedStates ==
  {"DESIGNATED_PROPOSE", "DESIGNATED_SYNCED", "DESIGNATED_RETIRED",
   "DESIGNATED_DISCARD", "DESIGNATED_LEARN", "DESIGNATED_FORWARD"}

\* A newly selected role overrides the state the machine is in.
NewRole(q) == q.role # q.selectedRole /\ Settled(q)

\* a mutant: nobody blocks a backup port
RoleEntryButBackup(q, to) ==
  \/ q.selectedRole = "DisabledPort" /\ to = "DISABLE_PORT"
  \/ q.selectedRole = "AlternatePort" /\ to = "BLOCK_PORT"
  \/ q.selectedRole = "RootPort" /\ to = "ROOT_PORT"
  \/ q.selectedRole = "DesignatedPort" /\ to = "DESIGNATED_PORT"

RoleEntry(q, to) ==
  \/ q.selectedRole = "DisabledPort" /\ to = "DISABLE_PORT"
  \/ q.selectedRole \in {"AlternatePort", "BackupPort"} /\ to = "BLOCK_PORT"
  \/ q.selectedRole = "RootPort" /\ to = "ROOT_PORT"
  \/ q.selectedRole = "DesignatedPort" /\ to = "DESIGNATED_PORT"

(***************************************************************************)
(* The tests the C code makes, in its order, in the resting state of each  *)
(* role.  The first one that holds decides.                                *)
(***************************************************************************)
FromRootPort(q, b, others, to) ==
  LET learn == "learn" \in q.on
      forward == "forward" \in q.on
      agree == "agree" \in q.on
      proposed == "proposed" \in q.on
      reRoot == "reRoot" \in q.on
      mayForward == /\ \/ q.timer["fdWhile"] = 0
                       \/ ReRooted(others) /\ q.timer["rbWhile"] = 0
                    /\ b.rstpVersion
  IN
  IF ~forward /\ ~reRoot THEN to = "REROOT"
  ELSE IF (AllSynced(others) /\ ~agree) \/ (proposed /\ agree)
    THEN to = "ROOT_AGREED"
  ELSE IF proposed THEN to = "ROOT_PROPOSED"
  ELSE IF mayForward /\ learn /\ ~forward THEN to = "ROOT_FORWARD"
  ELSE IF mayForward /\ ~learn THEN to = "ROOT_LEARN"
  ELSE IF reRoot /\ forward THEN to = "REROOTED"
  ELSE q.timer["rrWhile"] # b.rootTimes.ForwardDelay /\ to = "ROOT_PORT"

Trusted(q) == q.on \cap {"agreed", "operEdge"} # {}
Retiring(q) == "reRoot" \in q.on /\ q.timer["rrWhile"] # 0

\* a mutant: a designated port that does not wait for its forward delay
MayForwardAtOnce(q) == ~Retiring(q) /\ "sync" \notin q.on

MayForward(q) ==
  /\ q.timer["fdWhile"] = 0 \/ Trusted(q)
  /\ ~Retiring(q)
  /\ "sync" \notin q.on

\* a mutant: a port that only learns is left to go on
MustDiscardForwarding(q) ==
  /\ ("sync" \in q.on /\ "synced" \notin q.on) \/ Retiring(q)
  /\ "operEdge" \notin q.on
  /\ "forward" \in q.on

MustDiscard(q) ==
  /\ ("sync" \in q.on /\ "synced" \notin q.on) \/ Retiring(q)
  /\ "operEdge" \notin q.on
  /\ q.on \cap {"learn", "forward"} # {}

FromDesignatedPort(q, to) ==
  LET learn == "learn" \in q.on
      forward == "forward" \in q.on
      synced == "synced" \in q.on
      sync == "sync" \in q.on
      active == q.on \cap {"learning", "forwarding"} # {}
  IN
  IF ~forward /\ ~Trusted(q) /\ "proposing" \notin q.on
    THEN to = "DESIGNATED_PROPOSE"
  ELSE IF (~synced /\ (~active \/ Trusted(q))) \/ (sync /\ synced)
    THEN to = "DESIGNATED_SYNCED"
  ELSE IF q.timer["rrWhile"] = 0 /\ "reRoot" \in q.on
    THEN to = "DESIGNATED_RETIRED"
  ELSE IF MayForward(q) /\ learn /\ ~forward THEN to = "DESIGNATED_FORWARD"
  ELSE IF MayForward(q) /\ ~learn THEN to = "DESIGNATED_LEARN"
  ELSE MustDiscard(q) /\ to = "DESIGNATED_DISCARD"

FromAlternatePort(q, b, others, to) ==
  LET agree == "agree" \in q.on
      proposed == "proposed" \in q.on
  IN
  IF (AllSynced(others) /\ ~agree) \/ (proposed /\ agree)
    THEN to = "ALTERNATE_AGREED"
  ELSE IF proposed THEN to = "ALTERNATE_PROPOSED"
  ELSE IF /\ q.timer["rbWhile"] # 2 * b.rootTimes.HelloTime
          /\ q.role = "BackupPort"
    THEN to = "BACKUP_PORT"
  ELSE /\ \/ q.timer["fdWhile"] # b.rootTimes.ForwardDelay
          \/ q.on \cap {"sync", "reRoot"} # {}
          \/ "synced" \notin q.on
       /\ to = "ALTERNATE_PORT"

\* a mutant: tests another value than the one DISABLED_PORT sets
FromDisabledPortUnmatched(q, b, to) ==
  /\ \/ q.timer["fdWhile"] # b.rootTimes.ForwardDelay
     \/ q.on \cap {"sync", "reRoot"} # {}
     \/ "synced" \notin q.on
  /\ to = "DISABLED_PORT"

FromDisabledPort(q, b, to) ==
  /\ \/ q.timer["fdWhile"] # b.rootTimes.MaxAge
     \/ q.on \cap {"sync", "reRoot"} # {}
     \/ "synced" \notin q.on
  /\ to = "DISABLED_PORT"

(***************************************************************************)
(* STP_roletrns_check_conditions.                                          *)
(***************************************************************************)
RoletrnsHop(q, b, others, to) ==
  LET discarding == q.on \cap {"learning", "forwarding"} = {} IN
  \/ q.roletrns = "BEGIN" /\ to = "INIT_PORT"
  \/ q.roletrns # "BEGIN" /\ NewRole(q) /\ RoleEntry(q, to)
  \/ /\ ~NewRole(q)
     /\ \/ q.roletrns = "INIT_PORT" /\ to = "DISABLE_PORT"
        \/ q.roletrns \in RootStates /\ to = "ROOT_PORT"
        \/ q.roletrns \in DesignatedStates /\ to = "DESIGNATED_PORT"
        \/ /\ q.roletrns \in {"ALTERNATE_PROPOSED", "ALTERNATE_AGREED",
                              "BACKUP_PORT"}
           /\ to = "ALTERNATE_PORT"
        \/ /\ Settled(q)
           /\ \/ /\ q.roletrns = "DISABLE_PORT" /\ discarding
                 /\ to = "DISABLED_PORT"
              \/ /\ q.roletrns = "BLOCK_PORT" /\ discarding
                 /\ to = "ALTERNATE_PORT"
              \/ q.roletrns = "DISABLED_PORT" /\ FromDisabledPort(q, b, to)
              \/ /\ q.roletrns = "ROOT_PORT"
                 /\ FromRootPort(q, b, others, to)
              \/ q.roletrns = "DESIGNATED_PORT" /\ FromDesignatedPort(q, to)
              \/ /\ q.roletrns = "ALTERNATE_PORT"
                 /\ FromAlternatePort(q, b, others, to)

(***************************************************************************)
(* STP_roletrns_enter_state, one operator per role.  "set" turns flags off *)
(* and then others on.                                                     *)
(***************************************************************************)
Moved(q, to, off, set) ==
  [q EXCEPT !.roletrns = to, !.on = (q.on \ off) \cup set]

Timed(q, timer, value) ==
  [q EXCEPT !.timer = [q.timer EXCEPT ![timer] = value]]

\* The timers and flags that rest with a port that is neither root nor
\* designated.
Retired(q, to, fdWhile) ==
  [q EXCEPT !.roletrns = to,
            !.on = (q.on \ {"sync", "reRoot"}) \cup {"synced"},
            !.timer = [q.timer EXCEPT !["fdWhile"] = fdWhile,
                                      !["rrWhile"] = 0]]

\* a mutant: learning is left on
TakeRoleLearning(q, to) ==
  [q EXCEPT !.roletrns = to, !.role = q.selectedRole,
            !.on = q.on \ {"forward"}]

\* DISABLE_PORT and BLOCK_PORT
TakeRole(q, to) ==
  [q EXCEPT !.roletrns = to, !.role = q.selectedRole,
            !.on = q.on \ {"learn", "forward"}]

InitPort(q, b, to) ==
  [q EXCEPT !.roletrns = to, !.role = "DisabledPort",
            !.on = q.on \ {"learn", "forward", "synced", "sync", "reRoot"},
            !.timer = [q.timer EXCEPT
                         !["rrWhile"] = b.rootTimes.ForwardDelay,
                         !["fdWhile"] = b.rootTimes.ForwardDelay,
                         !["rbWhile"] = 0]]

RoletrnsEnter(q, b, to) ==
  LET fwdDelay == b.rootTimes.ForwardDelay
      Go(off, set) == Moved(q, to, off, set)
  IN
  CASE to \in {"BEGIN", "INIT_PORT"} -> InitPort(q, b, to)
    [] to \in {"DISABLE_PORT", "BLOCK_PORT"} -> TakeRole(q, to)
    [] to = "DISABLED_PORT" -> Retired(q, to, b.rootTimes.MaxAge)
    [] to = "ALTERNATE_PORT" -> Retired(q, to, fwdDelay)
    [] to = "ROOT_PORT" -> [Timed(q, "rrWhile", fwdDelay)
                              EXCEPT !.roletrns = to, !.role = "RootPort"]
    [] to \in {"ROOT_PROPOSED", "ALTERNATE_PROPOSED"} ->
         Go({"proposed"}, {})
    [] to = "ROOT_FORWARD" -> Timed(Go({}, {"forward"}), "fdWhile", 0)
    [] to = "ROOT_AGREED" -> Go({"proposed", "sync"}, {"agree", "newInfo"})
    [] to = "ALTERNATE_AGREED" -> Go({"proposed"}, {"agree", "newInfo"})
    [] to \in {"ROOT_LEARN", "DESIGNATED_LEARN"} ->
         Timed(Go({}, {"learn"}), "fdWhile", fwdDelay)
    [] to = "REROOT" -> Go({}, {})
    [] to \in {"REROOTED", "DESIGNATED_RETIRED"} -> Go({"reRoot"}, {})
    [] to = "DESIGNATED_PORT" -> [q EXCEPT !.roletrns = to,
                                           !.role = "DesignatedPort"]
    [] to = "DESIGNATED_PROPOSE" ->
         Timed(Go({}, {"proposing", "newInfo"}),
               "edgeDelayWhile", EdgeDelay(q, b))
    [] to = "DESIGNATED_FORWARD" ->
         Timed(Go({"agreed"}, {"forward"} \cup
                              Given("sendRSTP" \in q.on, {"agreed"})),
               "fdWhile", 0)
    [] to = "DESIGNATED_SYNCED" ->
         Timed(Go({"sync"}, {"synced"}), "rrWhile", 0)
    [] to = "DESIGNATED_DISCARD" ->
         Timed(Go({"learn", "forward"}, {}), "fdWhile", fwdDelay)
    [] to = "BACKUP_PORT" ->
         Timed(Go({}, {}), "rbWhile", 2 * b.rootTimes.HelloTime)

\* setSyncTree and setReRootTree: raised on every port, this one included
RoletrnsBroadcast(to) ==
  CASE to \in {"ROOT_PROPOSED", "ALTERNATE_PROPOSED"} -> {"sync"}
    [] to = "REROOT" -> {"reRoot"}
    [] OTHER -> {}

=============================================================================
