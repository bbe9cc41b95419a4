------------------------------ MODULE AutoTrack ------------------------------
(***************************************************************************)
(* Goto with automatic tracking: SlewToCoordinates() of the gRPC service   *)
(* starts a slew and, once the controller has accepted it, schedules a     *)
(* watcher thread that waits for the slew to settle and then calls         *)
(* startTracking() on the target of the Goto. The watcher is one more      *)
(* client of the controller: this module composes it with MountLifecycle.  *)
(***************************************************************************)
EXTENDS MountLifecycle

CONSTANTS
  Watcher,     \* the client the watcher thread is when it calls startTracking()
  Targets,     \* the objects a Goto may name
  NoTarget,    \* nothing asked for yet
  Serialised   \* TRUE: the watcher reads the status and starts tracking while no
               \*   call of a user is between its start and the cancellation

Users == Clients \ {Watcher}

ASSUME WatcherAssumption == Watcher \in Clients /\ Ops[Watcher] = {"track"}
ASSUME TargetsAssumption == NoTarget \notin Targets
ASSUME SerialisedAssumption == Serialised \in BOOLEAN

VARIABLES
  scheduling,         \* scheduling[c]: where user c is in scheduleAutoTrackAfterSlew()
  target,             \* target[c]: the object named by the call of user c
  auto_track_mutex_,  \* the user holding auto_track_mutex_, or NoClient
  auto_track_cancel_, \* the flag the current watcher polls
  auto_track_thread_, \* the watcher: "none" (not joinable), how it ended, or where it is
  watched,            \* the target the watcher was created with
  aimed,              \* the object the controller last claimed the mount for
  goal,               \* the object of the last move of a user that returned true;
                      \*   NoTarget once a stop() has returned
  lost                \* an unfinished or unjoined watcher was overwritten

autoVars == <<auto_track_mutex_, auto_track_cancel_, auto_track_thread_, watched, lost>>
allVars  == <<vars, scheduling, target, autoVars, aimed, goal>>

WatchEnds  == {"tracked", "refused", "error", "left", "cancelled", "timedOut"}
WatchSteps == {"check", "poll", "decide", "call"}

AutoTypeOK ==
  /\ TypeOK
  /\ scheduling \in [Users -> {"no", "lock", "join", "create"}]
  /\ target \in [Users -> Targets \cup {NoTarget}]
  /\ auto_track_mutex_ \in Users \cup {NoClient}
  /\ auto_track_cancel_ \in BOOLEAN
  /\ auto_track_thread_ \in {"none"} \cup WatchEnds \cup WatchSteps
  /\ {watched, aimed, goal} \subseteq Targets \cup {NoTarget}
  /\ lost \in BOOLEAN

AutoInit ==
  /\ Init
  /\ scheduling = [c \in Users |-> "no"]
  /\ target = [c \in Users |-> NoTarget]
  /\ auto_track_mutex_ = NoClient
  /\ auto_track_cancel_ = FALSE
  /\ auto_track_thread_ = "none"
  /\ watched = NoTarget
  /\ aimed = NoTarget
  /\ goal = NoTarget
  /\ lost = FALSE

-----------------------------------------------------------------------------
(* The calls of the users.                                                  *)

InCall(c) == pc[c] # "ready" \/ (c \in Users /\ scheduling[c] # "no")

MayCall  == Serialised => auto_track_thread_ \notin {"decide", "call"}
MayTrack == Serialised => \A c \in Users : pc[c] = "ready" /\ scheduling[c] # "lock"

Accepts(c, o) == op[c] = o /\ pc[c] = "claim" /\ pc'[c] \notin {"claim", "ready"}

\* A request names its target; the controller keeps the target of the move it accepts.
UserCall(c) ==
  /\ scheduling[c] = "no"
  /\ pc[c] = "ready" => MayCall
  /\ ClientStep(c)
  /\ IF pc[c] = "ready" /\ pc'[c] # "ready" /\ op'[c] \in {"slew", "track"}
       THEN \E t \in Targets : target' = [target EXCEPT ![c] = t]
       ELSE UNCHANGED target
  /\ aimed' = IF Accepts(c, "slew") \/ Accepts(c, "track") THEN target[c] ELSE aimed
  /\ goal' = CASE op[c] \in {"slew", "track"} /\ pc[c] = "spawn" /\ pc'[c] = "ready"
                 -> target[c]
               [] op[c] = "stop" /\ pc[c] = "stopMotors" -> NoTarget
               [] OTHER -> goal
  /\ scheduling' =
       [scheduling EXCEPT ![c] = IF op[c] = "slew" /\ pc[c] = "spawn" THEN "lock" ELSE "no"]
  /\ UNCHANGED autoVars

\* Bug: a new Goto does not cancel the watcher of the previous one.
ScheduleLockUncancelled(c) ==
  /\ scheduling[c] = "lock"
  /\ auto_track_mutex_ = NoClient
  /\ auto_track_mutex_' = c
  /\ scheduling' = [scheduling EXCEPT ![c] = "join"]
  /\ UNCHANGED <<vars, target, auto_track_cancel_, auto_track_thread_, watched, aimed, goal,
                 lost>>

ScheduleLock(c) ==
  /\ scheduling[c] = "lock"
  /\ auto_track_mutex_ = NoClient
  /\ auto_track_mutex_' = c
  /\ auto_track_cancel_' = TRUE
  /\ scheduling' = [scheduling EXCEPT ![c] = "join"]
  /\ UNCHANGED <<vars, target, auto_track_thread_, watched, aimed, goal, lost>>

\* Bug: the watcher of the previous Goto is told to leave but not waited for.
ScheduleJoinSkipped(c) ==
  /\ scheduling[c] = "join"
  /\ scheduling' = [scheduling EXCEPT ![c] = "create"]
  /\ UNCHANGED <<vars, target, autoVars, aimed, goal>>

ScheduleJoin(c) ==
  /\ scheduling[c] = "join"
  /\ auto_track_thread_ \in {"none"} \cup WatchEnds
  /\ auto_track_thread_' = "none"
  /\ scheduling' = [scheduling EXCEPT ![c] = "create"]
  /\ UNCHANGED <<vars, target, auto_track_mutex_, auto_track_cancel_, watched, aimed, goal,
                 lost>>

\* Bug: the new watcher is given the flag its predecessor was cancelled with.
ScheduleCreateCancelled(c) ==
  /\ scheduling[c] = "create"
  /\ lost' = (auto_track_thread_ # "none")
  /\ auto_track_thread_' = "check"
  /\ watched' = target[c]
  /\ auto_track_mutex_' = NoClient
  /\ scheduling' = [scheduling EXCEPT ![c] = "no"]
  /\ UNCHANGED <<vars, target, auto_track_cancel_, aimed, goal>>

ScheduleCreate(c) ==
  /\ scheduling[c] = "create"
  /\ lost' = (auto_track_thread_ # "none")
  /\ auto_track_cancel_' = FALSE
  /\ auto_track_thread_' = "check"
  /\ watched' = target[c]
  /\ auto_track_mutex_' = NoClient
  /\ scheduling' = [scheduling EXCEPT ![c] = "no"]
  /\ UNCHANGED <<vars, target, aimed, goal>>

UserStep(c) == UserCall(c) \/ ScheduleLock(c) \/ ScheduleJoin(c) \/ ScheduleCreate(c)

-----------------------------------------------------------------------------
(* autoTrackWatcher().                                                      *)

Watches(from, to) ==
  /\ auto_track_thread_ = from
  /\ auto_track_thread_' = to
  /\ UNCHANGED <<scheduling, target, auto_track_mutex_, auto_track_cancel_, watched, goal,
                 lost>>

WatchCheck ==
  /\ Watches("check", IF auto_track_cancel_ THEN "cancelled" ELSE "poll")
  /\ UNCHANGED <<vars, aimed>>

WatchTimeout ==
  /\ Watches("poll", "timedOut")
  /\ "slewStall" \in Env
  /\ UNCHANGED <<vars, aimed>>

\* Bug: the watcher waits only while the mount slews and then tracks whatever it finds.
WatchPollAnyEnd ==
  /\ Watches("poll", IF state_ \in {"SLEWING", "UNINITIALIZED"} THEN "check" ELSE "decide")
  /\ UNCHANGED <<vars, aimed>>

\* getStatus(): the state is acted upon after state_mutex_ has been released.
WatchPoll ==
  /\ state_ = "IDLE" => MayTrack
  /\ Watches("poll", CASE state_ = "ERROR" -> "error"
                       [] state_ \in {"SLEWING", "UNINITIALIZED"} -> "check"
                       [] state_ = "IDLE" -> "decide"
                       [] OTHER -> "left")
  /\ UNCHANGED <<vars, aimed>>

WatchDecide ==
  \/ /\ auto_track_cancel_
     /\ Watches("decide", "left")
     /\ UNCHANGED <<vars, aimed>>
  \/ /\ ~auto_track_cancel_
     /\ MayTrack
     /\ Watches("decide", "call")
     /\ CallTrack(Watcher)
     /\ UNCHANGED aimed

\* startTracking(), step by step.
WatchTrack ==
  /\ pc[Watcher] # "ready"
  /\ ClientStep(Watcher)
  /\ aimed' = IF Accepts(Watcher, "track") THEN watched ELSE aimed
  /\ Watches("call", IF pc'[Watcher] # "ready" THEN "call"
                     ELSE IF pc[Watcher] = "spawn" THEN "tracked" ELSE "refused")

Watch == WatchCheck \/ WatchTimeout \/ WatchPoll \/ WatchDecide \/ WatchTrack

-----------------------------------------------------------------------------
\* The threads and the drives go on as in MountLifecycle.
Background ==
  /\ Work \/ Writer \/ \E a \in Axes : DriveStarts(a) \/ DriveArrives(a)
  /\ UNCHANGED <<scheduling, target, autoVars, aimed, goal>>

AutoNext ==
  /\ ~terminated
  /\ \/ \E c \in Users : UserStep(c)
     \/ Watch
     \/ Background

AutoSpec == AutoInit /\ [][AutoNext]_allVars

-----------------------------------------------------------------------------
(* Safety.                                                                  *)

\* No user's call is in progress and the watcher is not starting to track.
Quiet == (\A c \in Users : ~InCall(c)) /\ auto_track_thread_ # "call"

\* A watcher is never overwritten while it runs or waits to be joined.
WatcherKept == ~lost

\* "A new Goto supersedes any pending auto-track for the previous target": once the
\* calls have returned, the mount moves to, or tracks, the object asked for last.
FollowsGoto ==
  (Quiet /\ goal # NoTarget /\ state_ \in {"SLEWING", "TRACKING", "MERIDIAN_FLIP"})
    => aimed = goal

\* stop() is the "universal halt": once it has returned, and until the users ask for a
\* new move, the mount does not start tracking by itself.
StopHolds == (Quiet /\ goal = NoTarget) => state_ \notin {"TRACKING", "MERIDIAN_FLIP"}

\* The watcher never takes a parking or parked mount away.
ParkHolds ==
  [][Accepts(Watcher, "track") => state_ \notin {"PARKING", "PARKED"}]_allVars

-----------------------------------------------------------------------------
(* Liveness: the fairness of MountLifecycle, a mutex that is eventually     *)
(* acquired and a watcher that is scheduled.                                *)

AutoFairness ==
  /\ \A c \in Users : /\ SF_allVars(~terminated /\ pc[c] # "ready" /\ UserCall(c))
                      /\ SF_allVars(~terminated /\ ScheduleLock(c))
                      /\ WF_allVars(~terminated /\ ScheduleJoin(c))
                      /\ WF_allVars(~terminated /\ ScheduleCreate(c))
  /\ SF_allVars(~terminated /\ Watch)
  /\ WF_allVars(~terminated /\ Work /\ Background)
  /\ WF_allVars(~terminated /\ Writer /\ Background)
  /\ SF_allVars(~terminated /\ SlewPollReached /\ Background)
  /\ SF_allVars(~terminated /\ ParkPollReached /\ Background)
  /\ \A a \in Axes :
       WF_allVars(~terminated /\ (DriveStarts(a) \/ DriveArrives(a)) /\ Background)

AutoFairSpec == AutoSpec /\ AutoFairness

\* A Goto whose caller then leaves the mount alone ends in tracking its object, unless
\* the mount faults, startTracking() refuses or the watcher times out: the flag that
\* cancelled an earlier watcher never silences the one that replaced it.
GotoTracks ==
  (auto_track_thread_ \in WatchSteps /\ state_ = "SLEWING" /\ Quiet)
    ~> \/ state_ = "TRACKING" /\ aimed = goal
       \/ \E c \in Users : InCall(c)
       \/ state_ = "ERROR"
       \/ auto_track_thread_ \in {"refused", "timedOut"}

=============================================================================
