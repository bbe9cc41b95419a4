--------------------------- MODULE AutoTrack_proofs ---------------------------
(***************************************************************************)
(* The watcher thread of AutoTrack is never overwritten, and what the Gotos  *)
(* and their watcher do to the mount is what clients of MountLifecycle may   *)
(* do, for any number of users and targets, whether or not their calls       *)
(* overlap its own. When they do not, users and watcher take turns: no live  *)
(* thread is overwritten, a parked mount stays parked, and the mount follows *)
(* the last Goto.                                                           *)
(***************************************************************************)
EXTENDS AutoTrack, MountLifecycle_proofs

\* The inductive invariant: auto_track_mutex_ is held across the join and the creation,
\* so that a user who is about to create a watcher knows that there is none.
WatcherInv ==
  /\ scheduling \in [Users -> {"no", "lock", "join", "create"}]
  /\ \A c \in Users : scheduling[c] \in {"join", "create"} => auto_track_mutex_ = c
  /\ \A c \in Users : scheduling[c] = "create" => auto_track_thread_ = "none"
  /\ ~lost

\* No user is NoClient.
LEMMA UsersAreClients == \A c \in Users : c # NoClient
  BY NoClientAssumption DEF Users

\* No watcher and no scheduling exists at first.
LEMMA WatcherInit == AutoInit => WatcherInv
  BY DEF AutoInit, WatcherInv

\* A step of a user's call or scheduling preserves the invariant.
LEMMA UserKeepsWatcher ==
  ASSUME WatcherInv, NEW c \in Users, UserStep(c)
  PROVE  WatcherInv'
<1> USE UsersAreClients DEF WatcherInv
<1>1. CASE UserCall(c)
  BY <1>1 DEF UserCall, autoVars
<1>2. CASE ScheduleLock(c)
  BY <1>2 DEF ScheduleLock
<1>3. CASE ScheduleJoin(c)
  BY <1>3 DEF ScheduleJoin
<1>4. CASE ScheduleCreate(c)
  <2>1. \A d \in Users \ {c} : scheduling[d] \notin {"join", "create"}
    BY <1>4 DEF ScheduleCreate
  <2> QED BY <1>4, <2>1 DEF ScheduleCreate
<1> QED BY <1>1, <1>2, <1>3, <1>4 DEF UserStep

\* The watcher's own steps need a watcher, and leave the mutex and the users alone.
LEMMA WatchKeepsWatcher == WatcherInv /\ Watch => WatcherInv'
<1>1. Watch => /\ auto_track_thread_ # "none"
               /\ UNCHANGED <<scheduling, auto_track_mutex_, lost>>
  BY DEF Watch, WatchCheck, WatchTimeout, WatchPoll, WatchDecide, WatchTrack, Watches
<1> QED BY <1>1 DEF WatcherInv

\* scheduleAutoTrackAfterSlew() never assigns to an std::thread that is running or
\* waits to be joined, however many Gotos are scheduled at the same time.
THEOREM WatcherAlwaysKept == AutoSpec => []WatcherKept
<1>1. WatcherInv /\ [AutoNext]_allVars => WatcherInv'
  <2> SUFFICES ASSUME WatcherInv, [AutoNext]_allVars PROVE WatcherInv'
    OBVIOUS
  <2>1. CASE Background
    BY <2>1 DEF Background, WatcherInv, autoVars
  <2>2. CASE UNCHANGED allVars
    BY <2>2 DEF allVars, WatcherInv, autoVars
  <2> QED BY <2>1, <2>2, UserKeepsWatcher, WatchKeepsWatcher DEF AutoNext
<1>2. WatcherInv => WatcherKept
  BY DEF WatcherInv, WatcherKept
<1> QED BY WatcherInit, <1>1, <1>2, PTL DEF AutoSpec

-----------------------------------------------------------------------------
(* The composition.                                                         *)

\* A step of a user, of the watcher or of the threads is a step of the lifecycle.
LEMMA AutoStepIsStep == [AutoNext]_allVars => [Next]_vars
<1> SUFFICES ASSUME [AutoNext]_allVars PROVE [Next]_vars
  OBVIOUS
<1>1. ASSUME NEW c \in Users, UserStep(c), ~terminated PROVE [Next]_vars
  <2>1. CASE UserCall(c)
    BY <1>1, <2>1 DEF UserCall, Users, Next
  <2>2. CASE ScheduleLock(c) \/ ScheduleJoin(c) \/ ScheduleCreate(c)
    BY <2>2 DEF ScheduleLock, ScheduleJoin, ScheduleCreate
  <2> QED BY <1>1, <2>1, <2>2 DEF UserStep
<1>2. CASE Watch /\ ~terminated
  <2>1. CASE WatchCheck \/ WatchTimeout \/ WatchPoll
    BY <2>1 DEF WatchCheck, WatchTimeout, WatchPoll
  <2>2. CASE WatchDecide
    <3>1. UNCHANGED vars \/ CallTrack(Watcher)
      BY <2>2 DEF WatchDecide
    <3>2. CallTrack(Watcher) => ClientStep(Watcher)
      BY DEF ClientStep, TrackCallSteps
    <3> QED BY <1>2, <3>1, <3>2, WatcherAssumption DEF Next
  <2>3. CASE WatchTrack
    BY <1>2, <2>3, WatcherAssumption DEF WatchTrack, Next
  <2> QED BY <1>2, <2>1, <2>2, <2>3 DEF Watch
<1>3. CASE Background /\ ~terminated
  BY <1>3 DEF Background, Next
<1>4. CASE UNCHANGED allVars
  BY <1>4 DEF allVars
<1> QED BY <1>1, <1>2, <1>3, <1>4 DEF AutoNext

\* AutoTrack implements MountLifecycle: its theorems hold of the composition, with the
\* watcher as one of the clients.
THEOREM AutoImplementsLifecycle == AutoSpec => Spec
<1>1. AutoInit => Init
  BY DEF AutoInit
<1> QED BY <1>1, AutoStepIsStep, PTL DEF AutoSpec, Spec

\* The part of the type invariant that AutoTrack adds.
AutoTypes ==
  /\ scheduling \in [Users -> {"no", "lock", "join", "create"}]
  /\ target \in [Users -> Targets \cup {NoTarget}]
  /\ auto_track_mutex_ \in Users \cup {NoClient}
  /\ auto_track_cancel_ \in BOOLEAN
  /\ auto_track_thread_ \in {"none"} \cup WatchEnds \cup WatchSteps
  /\ watched \in Targets \cup {NoTarget} /\ aimed \in Targets \cup {NoTarget}
  /\ goal \in Targets \cup {NoTarget}
  /\ lost \in BOOLEAN

\* A user's step keeps the types.
LEMMA UserKeepsTypes == ASSUME AutoTypes, NEW c \in Users, UserStep(c) PROVE AutoTypes'
<1> USE DEF AutoTypes
<1>1. CASE UserCall(c)
  <2>1. UNCHANGED autoVars
    BY <1>1 DEF UserCall
  <2>2. target' \in [Users -> Targets \cup {NoTarget}]
    BY <1>1 DEF UserCall
  <2>3. scheduling' \in [Users -> {"no", "lock", "join", "create"}]
    BY <1>1 DEF UserCall
  <2>4. aimed' \in {target[c], aimed} /\ goal' \in {target[c], NoTarget, goal}
    BY <1>1 DEF UserCall
  <2> QED BY <2>1, <2>2, <2>3, <2>4 DEF autoVars
<1>2. CASE ScheduleLock(c)
  BY <1>2 DEF ScheduleLock
<1>3. CASE ScheduleJoin(c)
  BY <1>3 DEF ScheduleJoin
<1>4. CASE ScheduleCreate(c)
  <2>1. lost' \in BOOLEAN
    BY <1>4 DEF ScheduleCreate
  <2>2. watched' \in Targets \cup {NoTarget}
    BY <1>4 DEF ScheduleCreate
  <2> QED BY <1>4, <2>1, <2>2 DEF ScheduleCreate, WatchSteps
<1> QED BY <1>1, <1>2, <1>3, <1>4 DEF UserStep

\* A step of the watcher keeps the types.
LEMMA WatchKeepsTypes == AutoTypes /\ Watch => AutoTypes'
<1> SUFFICES ASSUME AutoTypes, Watch PROVE AutoTypes'
  OBVIOUS
<1>1. /\ UNCHANGED <<scheduling, target, auto_track_mutex_, auto_track_cancel_, watched,
                     goal, lost>>
      /\ aimed' \in {aimed, watched}
      /\ auto_track_thread_' \in WatchEnds \cup WatchSteps
  <2>1. CASE WatchCheck \/ WatchTimeout \/ WatchPoll
    BY <2>1 DEF WatchCheck, WatchTimeout, WatchPoll, Watches, WatchEnds, WatchSteps
  <2>2. CASE WatchDecide
    BY <2>2 DEF WatchDecide, Watches, WatchEnds, WatchSteps
  <2>3. CASE WatchTrack
    BY <2>3 DEF WatchTrack, Watches, WatchEnds, WatchSteps
  <2> QED BY <2>1, <2>2, <2>3 DEF Watch
<1> QED BY <1>1 DEF AutoTypes

\* The variables of the composition keep their types.
THEOREM AutoTypeCorrect == AutoSpec => []AutoTypeOK
<1>1. AutoInit => AutoTypes
  BY DEF AutoInit, AutoTypes
<1>2. AutoTypes /\ [AutoNext]_allVars => AutoTypes'
  <2> SUFFICES ASSUME AutoTypes, [AutoNext]_allVars PROVE AutoTypes'
    OBVIOUS
  <2>1. CASE Background
    BY <2>1 DEF Background, AutoTypes, autoVars
  <2>2. CASE UNCHANGED allVars
    BY <2>2 DEF allVars, AutoTypes, autoVars
  <2> QED BY <2>1, <2>2, UserKeepsTypes, WatchKeepsTypes DEF AutoNext
<1>3. TypeOK /\ AutoTypes => AutoTypeOK
  BY DEF AutoTypes, AutoTypeOK
<1> QED BY <1>1, <1>2, <1>3, AutoImplementsLifecycle, TypeCorrect, PTL DEF AutoSpec


-----------------------------------------------------------------------------
(* The watcher and the calls of the users take turns when they are          *)
(* serialised: nobody is in a call from the moment the watcher decides.     *)

SerialInv ==
  /\ pc[Watcher] # "ready" <=> auto_track_thread_ = "call"
  /\ auto_track_thread_ \in {"decide", "call"} =>
       \A c \in Users : pc[c] = "ready" /\ scheduling[c] # "lock"

\* The user's threads and drives leave the calls of a user where they are.
LEMMA BackgroundLeavesCalls ==
  ASSUME Background
  PROVE  UNCHANGED <<op, pc, scheduling, target, autoVars, aimed, goal>>
  BY ThreadsLeaveCalls DEF Background

\* While the watcher starts to track, no user calls or goes on with a call.
LEMMA UsersWait ==
  ASSUME Serialised, SerialInv, auto_track_thread_ \in {"decide", "call"},
         NEW c \in Users, UserCall(c)
  PROVE  FALSE
<1>1. pc[c] = "ready"
  BY DEF SerialInv
<1>2. MayCall
  BY <1>1 DEF UserCall
<1> QED BY <1>2 DEF MayCall

\* A user's step is no step of the watcher.
LEMMA UserIsNotWatcher ==
  ASSUME TypeOK, NEW c \in Users, UserCall(c)
  PROVE  \A d \in Clients : d # c => pc'[d] = pc[d] /\ op'[d] = op[d]
<1>1. c \in Clients /\ ClientStep(c)
  BY DEF Users, UserCall
<1> QED BY <1>1, ClientsKeepToThemselves

LEMMA UserKeepsTurns ==
  ASSUME TypeOK, Serialised, WatcherInv, SerialInv, NEW c \in Users, UserStep(c)
  PROVE  SerialInv'
<1> USE UsersAreClients
<1>1. CASE UserCall(c)
  <2>1. auto_track_thread_ \notin {"decide", "call"}
    BY <1>1, UsersWait
  <2>2. UNCHANGED auto_track_thread_
    BY <1>1 DEF UserCall, autoVars
  <2>3. pc'[Watcher] = pc[Watcher]
    BY <1>1, UserIsNotWatcher, WatcherAssumption DEF Users
  <2> QED BY <2>1, <2>2, <2>3 DEF SerialInv
<1>2. CASE ScheduleLock(c)
  BY <1>2 DEF ScheduleLock, SerialInv, vars, clientVars, WatcherInv
<1>3. CASE ScheduleJoin(c)
  BY <1>3 DEF ScheduleJoin, SerialInv, vars, clientVars, WatchEnds
<1>4. CASE ScheduleCreate(c)
  BY <1>4 DEF ScheduleCreate, SerialInv, vars, clientVars, WatcherInv
<1> QED BY <1>1, <1>2, <1>3, <1>4 DEF UserStep

LEMMA WatchKeepsTurns ==
  ASSUME TypeOK, Serialised, SerialInv, Watch
  PROVE  SerialInv'
<1> USE DEF Watches, SerialInv
<1>1. CASE WatchCheck \/ WatchTimeout
  BY <1>1 DEF WatchCheck, WatchTimeout, vars, clientVars
<1>2. CASE WatchPoll
  BY <1>2 DEF WatchPoll, MayTrack, vars, clientVars
<1>3. CASE WatchDecide
  <2>1. CASE UNCHANGED vars /\ Watches("decide", "left")
    BY <2>1 DEF vars, clientVars
  <2>2. CASE MayTrack /\ Watches("decide", "call") /\ CallTrack(Watcher)
    <3>1. pc'[Watcher] = "trackCheck" /\ \A c \in Users : pc'[c] = pc[c]
      BY <2>2, WatcherAssumption DEF CallTrack, Call, TypeOK, Users
    <3> QED BY <2>2, <3>1 DEF MayTrack
  <2> QED BY <1>3, <2>1, <2>2 DEF WatchDecide
<1>4. CASE WatchTrack
  <2>1. \A c \in Users : pc'[c] = pc[c]
    BY <1>4, ClientsKeepToThemselves, WatcherAssumption DEF WatchTrack, Users
  <2>2. UNCHANGED scheduling /\ \A c \in Users : pc[c] = "ready" /\ scheduling[c] # "lock"
    BY <1>4 DEF WatchTrack
  <2>3. CASE pc'[Watcher] # "ready"
    <3>1. auto_track_thread_' = "call"
      BY <1>4, <2>3 DEF WatchTrack
    <3> QED BY <2>1, <2>2, <2>3, <3>1
  <2>4. CASE pc'[Watcher] = "ready"
    <3>1. auto_track_thread_' \in {"tracked", "refused"}
      BY <1>4, <2>4 DEF WatchTrack
    <3> QED BY <2>4, <3>1
  <2> QED BY <2>3, <2>4
<1> QED BY <1>1, <1>2, <1>3, <1>4 DEF Watch

\* Serialised, the watcher and the users take turns.
THEOREM TurnsCorrect ==
  ASSUME Serialised
  PROVE  AutoSpec => [](WatcherInv /\ SerialInv)
<1>1. AutoInit => WatcherInv /\ SerialInv
  BY WatcherInit, WatcherAssumption DEF AutoInit, Init, SerialInv
<1>2. TypeOK /\ WatcherInv /\ SerialInv /\ [AutoNext]_allVars => (WatcherInv /\ SerialInv)'
  <2> SUFFICES ASSUME TypeOK, WatcherInv, SerialInv, [AutoNext]_allVars
               PROVE  WatcherInv' /\ SerialInv'
    OBVIOUS
  <2>1. CASE Background
    BY <2>1, BackgroundLeavesCalls DEF WatcherInv, SerialInv, autoVars
  <2>2. CASE UNCHANGED allVars
    BY <2>2 DEF allVars, vars, clientVars, WatcherInv, SerialInv, autoVars
  <2> QED
    BY <2>1, <2>2, UserKeepsWatcher, WatchKeepsWatcher, UserKeepsTurns, WatchKeepsTurns
       DEF AutoNext
<1> QED BY <1>1, <1>2, TypeCorrect, AutoImplementsLifecycle, PTL DEF AutoSpec


\* Among the users alone, at most one moves the mount if it tracks.
UsersSoleMover ==
  \A c, d \in Users : c # d /\ "track" \in Ops[c] => Ops[d] \cap Movers = {}

\* A watcher that takes turns with the users is alone past its joins.
THEOREM TurnsExclude ==
  ASSUME Serialised, UsersSoleMover
  PROVE  AutoSpec => []Exclusive
<1>1. CallsInv /\ SerialInv => Exclusive
  <2> SUFFICES ASSUME CallsInv, SerialInv, NEW c \in Clients, NEW d \in Clients, c # d,
                      op[c] = "track", Committed(c), Committed(d)
               PROVE  FALSE
    BY DEF Exclusive
  <2>1. pc[c] # "ready" /\ pc[d] # "ready"
    BY DEF Committed
  <2>2. CASE c = Watcher \/ d = Watcher
    BY <2>1, <2>2 DEF SerialInv, Users
  <2>3. CASE c \in Users /\ d \in Users
    <3>1. "track" \in Ops[c] /\ op[d] \in Ops[d] \cap Movers
      BY DEF CallsInv, CallOK, Committed, Movers
    <3> QED BY <2>3, <3>1 DEF UsersSoleMover
  <2> QED BY <2>2, <2>3 DEF Users
<1> QED BY <1>1, AutoImplementsLifecycle, CallsCorrect, TurnsCorrect, PTL

\* With its watcher serialised, a Goto never makes the controller assign over a live
\* std::thread, leaves no moving state unsupervised and no ERROR with moving drives.
THEOREM AutoLifecycleHolds ==
  ASSUME Serialised, UsersSoleMover
  PROVE  AutoSpec => [](NoTerminate /\ Supervised /\ ErrorHalts)
BY AutoImplementsLifecycle, TurnsExclude, NoTerminateCorrect, LeavingCorrect,
   ErrorHaltsCorrect, PTL

-----------------------------------------------------------------------------
(* A parking or parked mount is left to park().                             *)

\* Once the watcher has seen IDLE, the mount is not parked, and no thread parks it.
UnparkedInv ==
  auto_track_thread_ \in {"decide", "call"} =>
    state_ \notin {"PARKING", "PARKED"} /\ work_thread_ \notin ParkSteps

\* Only park() and its thread lead to PARKING or PARKED.
LEMMA OnlyParkingParks ==
  ASSUME Work \/ Writer \/ \E a \in Axes : DriveStarts(a) \/ DriveArrives(a),
         state_ \notin {"PARKING", "PARKED"}, work_thread_ \notin ParkSteps
  PROVE  state_' \notin {"PARKING", "PARKED"} /\ work_thread_' \notin ParkSteps
<1> USE DEF WorkGoes, ParkSteps
<1>1. CASE SlewMonitor
  BY <1>1 DEF SlewMonitor, SlewCheck, SlewPollAgain, SlewPollTimeout, SlewPollReached,
     SlewReissue, SlewTimedOut, SlewHalt, SlewReached
<1>2. CASE TrackLoop
  BY <1>2 DEF TrackLoop, TrackWhile, TrackLeave, TrackError, TrackIterate, TrackFault,
     TrackPublish, TrackDesync, TrackDesyncError, TrackExit, TrackHalt, TrackFinal
<1>3. CASE ParkMonitor
  BY <1>3 DEF ParkMonitor, ParkStart, ParkFail, ParkCheck, ParkPollAgain, ParkPollReached,
     ParkReached, ParkTimedOut
<1>4. CASE Writer
  BY <1>4 DEF Writer, WriterStop, WriterRead, WriterCheck, WriterEmit, workVars
<1>5. CASE \E a \in Axes : DriveStarts(a) \/ DriveArrives(a)
  BY <1>5 DEF DriveStarts, DriveArrives, workVars
<1> QED BY <1>1, <1>2, <1>3, <1>4, <1>5 DEF Work

\* No step of startTracking() parks the mount.
LEMMA TrackingDoesNotPark ==
  ASSUME NEW c \in Clients, ClientStep(c), op[c] = "track", pc[c] # "ready",
         state_ \notin {"PARKING", "PARKED"}, work_thread_ \notin ParkSteps
  PROVE  state_' \notin {"PARKING", "PARKED"} /\ work_thread_' \notin ParkSteps
<1> USE DEF ParkSteps, workVars
<1>1. CASE LockSteps(c)
  BY <1>1 DEF LockSteps, AcquireThreadMutex, JoinThreads
<1>2. CASE StopSteps(c)
  BY <1>2 DEF StopSteps, CallStop, StopFlags, StopState, StopMotors
<1>3. CASE SlewCallSteps(c)
  BY <1>3 DEF SlewCallSteps, CallSlew, SlewReject, SlewOutOfLimits, SlewClaim, SlewCommand,
     SlewRevert, SlewSpawn
<1>4. CASE TrackCallSteps(c)
  BY <1>4 DEF TrackCallSteps, CallTrack, TrackCheck, TrackReject, TrackClaim, TrackSpawn
<1>5. CASE ParkCallSteps(c)
  BY <1>5 DEF ParkCallSteps, CallPark, ParkNothingToDo, ParkClaim, ParkSpawn, Unpark, Call
<1>6. CASE RecoverySteps(c)
  BY <1>6 DEF RecoverySteps, CallClearErrors, ClearDrives, ClearState, Home, EmergencyStop,
     HaltDrives, ExecuteMeridianFlip, Call
<1> QED BY <1>1, <1>2, <1>3, <1>4, <1>5, <1>6 DEF ClientStep


\* No user's step disturbs a watcher that has seen an unparked mount.
LEMMA UserKeepsUnparked ==
  ASSUME Serialised, SerialInv, UnparkedInv, NEW c \in Users, UserStep(c)
  PROVE  UnparkedInv'
<1> USE DEF UnparkedInv, vars, workVars
<1>1. CASE UserCall(c)
  <2>1. auto_track_thread_ \notin {"decide", "call"}
    BY <1>1, UsersWait
  <2> QED BY <1>1, <2>1 DEF UserCall, autoVars
<1>2. CASE ScheduleLock(c)
  BY <1>2 DEF ScheduleLock
<1>3. CASE ScheduleJoin(c)
  BY <1>3 DEF ScheduleJoin
<1>4. CASE ScheduleCreate(c)
  BY <1>4 DEF ScheduleCreate
<1> QED BY <1>1, <1>2, <1>3, <1>4 DEF UserStep

\* The watcher decides to track an IDLE mount when no call is in progress: a park whose
\* state had been taken away would have a stop() waiting for its thread.
LEMMA WatchKeepsUnparked ==
  ASSUME TypeOK, CallsInv, MonitorLostInv, Serialised, SerialInv, UnparkedInv, Watch
  PROVE  UnparkedInv'
<1> USE DEF UnparkedInv, Watches
<1>1. CASE WatchCheck \/ WatchTimeout
  BY <1>1 DEF WatchCheck, WatchTimeout
<1>2. CASE WatchPoll
  <2>1. CASE state_ = "IDLE"
    <3>1. \A c \in Clients : pc[c] = "ready"
      BY <1>2, <2>1 DEF WatchPoll, MayTrack, SerialInv, Users
    <3>2. work_thread_ \notin ParkSteps
      BY <2>1, <3>1 DEF MonitorLostInv, ParkLostInv, Joining
    <3> QED BY <1>2, <2>1, <3>2 DEF WatchPoll, vars, workVars
  <2>2. CASE state_ # "IDLE"
    BY <1>2, <2>2 DEF WatchPoll
  <2> QED BY <2>1, <2>2
<1>3. CASE WatchDecide
  BY <1>3 DEF WatchDecide, CallTrack, vars, workVars
<1>4. CASE WatchTrack
  <2>1. op[Watcher] = "track"
    BY <1>4, WatcherAssumption DEF WatchTrack, CallsInv, CallOK
  <2>2. auto_track_thread_ = "call" /\ pc[Watcher] # "ready" /\ ClientStep(Watcher)
    BY <1>4 DEF WatchTrack
  <2> QED BY <2>1, <2>2, TrackingDoesNotPark, WatcherAssumption
<1> QED BY <1>1, <1>2, <1>3, <1>4 DEF Watch

\* Serialised, the watcher meets no parked mount between its status and its session.
THEOREM UnparkedCorrect ==
  ASSUME Serialised, UsersSoleMover
  PROVE  AutoSpec => []UnparkedInv
<1>1. AutoInit => UnparkedInv
  BY DEF AutoInit, UnparkedInv
<1>2. TypeOK /\ CallsInv /\ MonitorLostInv /\ SerialInv /\ UnparkedInv /\ [AutoNext]_allVars
        => UnparkedInv'
  <2> SUFFICES ASSUME TypeOK, CallsInv, MonitorLostInv, SerialInv, UnparkedInv,
                      [AutoNext]_allVars
               PROVE  UnparkedInv'
    OBVIOUS
  <2>1. CASE Background
    <3>1. UNCHANGED auto_track_thread_
      BY <2>1 DEF Background, autoVars
    <3> QED BY <2>1, <3>1, OnlyParkingParks DEF Background, UnparkedInv
  <2>2. CASE UNCHANGED allVars
    BY <2>2 DEF allVars, vars, workVars, autoVars, UnparkedInv
  <2> QED BY <2>1, <2>2, UserKeepsUnparked, WatchKeepsUnparked DEF AutoNext
<1> QED
  BY <1>1, <1>2, AutoImplementsLifecycle, TypeCorrect, CallsCorrect, TurnsExclude,
     MonitorLostCorrect, TurnsCorrect, PTL DEF AutoSpec

\* A watcher that takes turns with the users never takes a parking or parked mount away.
THEOREM ParkAlwaysHolds ==
  ASSUME Serialised, UsersSoleMover
  PROVE  AutoSpec => ParkHolds
<1>1. SerialInv /\ UnparkedInv =>
        (Accepts(Watcher, "track") => state_ \notin {"PARKING", "PARKED"})
  BY DEF Accepts, SerialInv, UnparkedInv
<1> QED BY <1>1, TurnsCorrect, UnparkedCorrect, PTL DEF ParkHolds


-----------------------------------------------------------------------------
(* The mount follows the last Goto, when one user asks for all of them and  *)
(* no user calls startTracking().                                           *)

SoleGoer ==
  /\ \A c \in Users : "track" \notin Ops[c]
  /\ \A c, d \in Users : c # d /\ "slew" \in Ops[c] => "slew" \notin Ops[d]

Following == state_ \in {"SLEWING", "TRACKING", "MERIDIAN_FLIP"}

\* The user has claimed the mount for a slew that has not returned yet.
Going(c) == op[c] = "slew" /\ pc[c] \in {"command", "revert", "spawn"}

\* A user that schedules a watcher does it for the object it asked for last, a watcher
\* that has not been superseded waits for that object, and the mount is claimed for it.
ScheduleInv ==
  \A c \in Users : scheduling[c] \in {"lock", "join", "create"} =>
    "slew" \in Ops[c] /\ goal \in {NoTarget, target[c]}

GoingInv == \A c \in Users : Going(c) => aimed = target[c]

WatchedInv ==
  /\ auto_track_thread_ = "call" => ~auto_track_cancel_
  /\ ( /\ auto_track_thread_ \in WatchSteps /\ ~auto_track_cancel_
       /\ \A c \in Users : scheduling[c] # "lock" )
     => goal \in {NoTarget, watched}

AimedInv ==
  goal # NoTarget /\ Following /\ (\A c \in Users : ~Going(c)) => aimed = goal

GotoInv == ScheduleInv /\ GoingInv /\ WatchedInv /\ AimedInv

\* Of the handlers' steps, only the claims of slewToEquatorial() and startTracking() set
\* the mount in motion after an object.
LEMMA OnlyClaimsFollow ==
  ASSUME TypeOK, NEW c \in Clients, ClientStep(c), Following', ~Following
  PROVE  SlewClaim(c) \/ (TrackClaim(c) /\ pc'[c] = "spawn")
<1> USE DEF Following
<1>1. SlewClaim(c) \/ TrackClaim(c)
  BY DEF ClientStep, LockSteps, StopSteps, SlewCallSteps, TrackCallSteps,
     ParkCallSteps, RecoverySteps, AcquireThreadMutex, JoinThreads, CallStop, StopFlags,
     StopState, StopMotors, CallSlew, SlewReject, SlewOutOfLimits, SlewCommand,
     SlewRevert, SlewSpawn, CallTrack, TrackCheck, TrackReject, TrackSpawn, CallPark,
     ParkNothingToDo, ParkClaim, ParkSpawn, Unpark, CallClearErrors, ClearDrives,
     ClearState, Home, EmergencyStop, HaltDrives, ExecuteMeridianFlip
<1>2. CASE TrackClaim(c)
  <2>1. Goes(c, "claim", "spawn")
    BY <1>2 DEF TrackClaim
  <2> QED BY <1>2, <2>1 DEF Goes, TypeOK
<1> QED BY <1>1, <1>2

\* No thread does.
LEMMA ThreadsDoNotFollow ==
  ASSUME Work \/ Writer \/ \E a \in Axes : DriveStarts(a) \/ DriveArrives(a), Following'
  PROVE  Following
<1> USE DEF Following
<1>1. CASE SlewMonitor
  BY <1>1 DEF SlewMonitor, SlewCheck, SlewPollAgain, SlewPollTimeout, SlewPollReached,
     SlewReissue, SlewTimedOut, SlewHalt, SlewReached
<1>2. CASE TrackLoop
  BY <1>2 DEF TrackLoop, TrackWhile, TrackLeave, TrackError, TrackIterate, TrackFault,
     TrackPublish, TrackDesync, TrackDesyncError, TrackExit, TrackHalt, TrackFinal, Trackable
<1>3. CASE ParkMonitor
  BY <1>3 DEF ParkMonitor, ParkStart, ParkFail, ParkCheck, ParkPollAgain, ParkPollReached,
     ParkReached, ParkTimedOut
<1>4. CASE Writer \/ \E a \in Axes : DriveStarts(a) \/ DriveArrives(a)
  BY <1>4 DEF Writer, WriterStop, WriterRead, WriterCheck, WriterEmit, DriveStarts,
     DriveArrives
<1> QED BY <1>1, <1>2, <1>3, <1>4 DEF Work

\* How a handler's step begins, continues or ends its claim for a slew.
LEMMA GoingChanges ==
  ASSUME TypeOK, CallsInv, NEW c \in Clients, ClientStep(c)
  PROVE  \/ SlewClaim(c) \/ SlewCommand(c) \/ SlewRevert(c) \/ SlewSpawn(c)
         \/ /\ ~Going(c) /\ ~Going(c)'
            /\ op[c] = "slew" /\ pc[c] = "claim" => pc'[c] = "ready"
<1> USE DEF Going, TypeOK
<1>1. CASE LockSteps(c)
  BY <1>1 DEF LockSteps, AcquireThreadMutex, JoinThreads, AfterJoin, Goes
<1>2. CASE StopSteps(c)
  BY <1>2 DEF StopSteps, CallStop, StopFlags, StopState, StopMotors, Call, Goes
<1>3. CASE SlewCallSteps(c)
  BY <1>3 DEF SlewCallSteps, CallSlew, SlewReject, SlewOutOfLimits, Call, Goes,
     ReturnUnlocked
<1>4. CASE TrackCallSteps(c)
  BY <1>4 DEF TrackCallSteps, CallTrack, TrackCheck, TrackReject, TrackClaim, TrackSpawn,
     Call, Goes
<1>5. CASE ParkCallSteps(c)
  BY <1>5 DEF ParkCallSteps, CallPark, ParkNothingToDo, ParkClaim, ParkSpawn, Unpark, Call,
     Goes, ReturnUnlocked
<1>6. CASE RecoverySteps(c)
  BY <1>6 DEF RecoverySteps, CallClearErrors, ClearDrives, ClearState, Home, EmergencyStop,
     HaltDrives, ExecuteMeridianFlip, Call, Goes
<1> QED BY <1>1, <1>2, <1>3, <1>4, <1>5, <1>6 DEF ClientStep


\* One user goes: what another user does is no part of a slew.
LEMMA OneGoer ==
  ASSUME SoleGoer, CallsInv, NEW c \in Users, NEW d \in Users, c # d, Going(c)
  PROVE  "slew" \notin Ops[d] /\ ~Going(d)
<1>1. c \in Clients /\ d \in Clients
  BY DEF Users
<1>2. "slew" \in Ops[c]
  BY <1>1 DEF CallsInv, CallOK, Going
<1>3. "slew" \notin Ops[d]
  BY <1>2 DEF SoleGoer
<1> QED BY <1>1, <1>3 DEF CallsInv, CallOK, Going

\* A step of a user's call keeps the mount, the watcher and the goal together.
LEMMA UserCallKeepsGoto ==
  ASSUME TypeOK, AutoTypes, CallsInv, SoleGoer, GotoInv, NEW c \in Users, UserCall(c)
  PROVE  GotoInv'
<1>1. c \in Clients /\ ClientStep(c) /\ scheduling[c] = "no"
  BY DEF Users, UserCall
<1>2. op[c] # "track" \/ pc[c] = "ready"
  BY <1>1 DEF CallsInv, CallOK, SoleGoer
<1>3. \A d \in Users : d # c => /\ Going(d)' <=> Going(d)
                                /\ target'[d] = target[d]
                                /\ scheduling'[d] = scheduling[d]
  <2> SUFFICES ASSUME NEW d \in Users, d # c
               PROVE  /\ Going(d)' <=> Going(d)
                      /\ target'[d] = target[d]
                      /\ scheduling'[d] = scheduling[d]
    OBVIOUS
  <2>1. pc'[d] = pc[d] /\ op'[d] = op[d]
    BY UserIsNotWatcher DEF Users
  <2>2. target'[d] = target[d] /\ scheduling'[d] = scheduling[d]
    BY DEF UserCall, AutoTypes
  <2> QED BY <2>1, <2>2 DEF Going
<1>4. UNCHANGED <<auto_track_cancel_, auto_track_thread_, watched>>
  BY DEF UserCall, autoVars
<1>5. CASE SlewClaim(c)
  <2>1. op[c] = "slew" /\ pc[c] = "claim" /\ pc'[c] = "command" /\ op'[c] = op[c]
    BY <1>1, <1>5 DEF SlewClaim, Goes, TypeOK
  <2>2. aimed' = target[c] /\ target'[c] = target[c] /\ goal' = goal /\ scheduling'[c] = "no"
    BY <2>1 DEF UserCall, Accepts, AutoTypes
  <2>3. Going(c)'
    BY <2>1 DEF Going
  <2>4. \A d \in Users : d # c => ~Going(d)
    <3>1. "slew" \in Ops[c]
      BY <1>1, <2>1 DEF CallsInv, CallOK
    <3> QED BY <3>1, OneGoer
  <2> QED
    BY <1>1, <1>3, <1>4, <2>2, <2>3, <2>4
       DEF GotoInv, ScheduleInv, GoingInv, WatchedInv, AimedInv
<1>6. CASE SlewCommand(c)
  <2>1. op[c] = "slew" /\ pc[c] = "command" /\ pc'[c] \in {"spawn", "revert"}
        /\ op'[c] = op[c]
    BY <1>1, <1>6 DEF SlewCommand, Goes, TypeOK
  <2>2. aimed' = aimed /\ target'[c] = target[c] /\ goal' = goal /\ scheduling'[c] = "no"
    BY <2>1 DEF UserCall, Accepts, AutoTypes
  <2>3. Going(c) /\ Going(c)'
    BY <2>1 DEF Going
  <2> QED
    BY <1>1, <1>3, <1>4, <2>2, <2>3
       DEF GotoInv, ScheduleInv, GoingInv, WatchedInv, AimedInv
<1>7. CASE SlewRevert(c)
  <2>1. op[c] = "slew" /\ pc[c] = "revert" /\ pc'[c] = "ready" /\ state_' = "IDLE"
    BY <1>1, <1>7 DEF SlewRevert, ReturnUnlocked, Goes, TypeOK, CallsInv, CallOK
  <2>2. aimed' = aimed /\ target'[c] = target[c] /\ goal' = goal /\ scheduling'[c] = "no"
    BY <2>1 DEF UserCall, Accepts, AutoTypes
  <2>3. ~Going(c)' /\ ~Following'
    BY <2>1 DEF Going, Following
  <2> QED
    BY <1>1, <1>3, <1>4, <2>2, <2>3
       DEF GotoInv, ScheduleInv, GoingInv, WatchedInv, AimedInv
<1>8. CASE SlewSpawn(c)
  <2>1. op[c] = "slew" /\ pc[c] = "spawn" /\ pc'[c] = "ready"
    BY <1>1, <1>8 DEF SlewSpawn, ReturnUnlocked, Goes, TypeOK
  <2>2. /\ aimed' = aimed /\ target'[c] = target[c] /\ goal' = target[c]
        /\ scheduling'[c] = "lock"
    BY <2>1 DEF UserCall, Accepts, AutoTypes
  <2>3. Going(c) /\ ~Going(c)' /\ "slew" \in Ops[c]
    BY <1>1, <2>1 DEF Going, CallsInv, CallOK
  <2>4. aimed = target[c]
    BY <2>3 DEF GotoInv, GoingInv
  <2>5. \A d \in Users : d # c => "slew" \notin Ops[d]
    BY <2>3, OneGoer
  <2> QED
    BY <1>3, <1>4, <2>2, <2>3, <2>4, <2>5
       DEF GotoInv, ScheduleInv, GoingInv, WatchedInv, AimedInv
<1>9. CASE /\ ~Going(c) /\ ~Going(c)'
           /\ op[c] = "slew" /\ pc[c] = "claim" => pc'[c] = "ready"
  <2>1. aimed' = aimed
    BY <1>2, <1>9 DEF UserCall, Accepts
  <2>2. goal' \in {goal, NoTarget}
    BY <1>2, <1>9 DEF UserCall, Going
  <2>3. scheduling'[c] = "no"
    BY <1>9 DEF UserCall, Going, AutoTypes
  <2>4. Following' => Following
    <3>1. ~SlewClaim(c)
      BY <1>1, <1>9 DEF SlewClaim, Goes, TypeOK
    <3>2. ~TrackClaim(c)
      BY <1>2 DEF TrackClaim, Goes
    <3> QED BY <1>1, <3>1, <3>2, OnlyClaimsFollow
  <2> QED
    BY <1>1, <1>3, <1>4, <1>9, <2>1, <2>2, <2>3, <2>4
       DEF GotoInv, ScheduleInv, GoingInv, WatchedInv, AimedInv
<1> QED BY <1>1, <1>5, <1>6, <1>7, <1>8, <1>9, GoingChanges

\* So does scheduling a watcher: one that is created waits for the last object.
LEMMA ScheduleKeepsGoto ==
  ASSUME AutoTypes, WatcherInv, SerialInv, GotoInv, NEW c \in Users,
         ScheduleLock(c) \/ ScheduleJoin(c) \/ ScheduleCreate(c)
  PROVE  GotoInv'
<1>1. UNCHANGED <<vars, target, aimed, goal>>
  BY DEF ScheduleLock, ScheduleJoin, ScheduleCreate
<1>2. GoingInv' /\ AimedInv'
  BY <1>1 DEF GotoInv, GoingInv, AimedInv, Going, Following, vars, clientVars
<1>3. ScheduleInv'
  BY <1>1 DEF ScheduleLock, ScheduleJoin, ScheduleCreate, GotoInv, ScheduleInv, AutoTypes
<1>4. WatchedInv'
  <2> USE DEF GotoInv, WatchedInv
  <2>1. CASE ScheduleLock(c)
    BY <2>1 DEF ScheduleLock, SerialInv
  <2>2. CASE ScheduleJoin(c)
    BY <2>2 DEF ScheduleJoin, WatchSteps
  <2>3. CASE ScheduleCreate(c)
    BY <2>3 DEF ScheduleCreate, ScheduleInv
  <2> QED BY <2>1, <2>2, <2>3
<1> QED BY <1>2, <1>3, <1>4 DEF GotoInv


\* And so does the watcher, whose call moves the mount after the last object or not at all.
LEMMA WatchKeepsGoto ==
  ASSUME TypeOK, CallsInv, SerialInv, GotoInv, Watch
  PROVE  GotoInv'
<1>1. UNCHANGED <<scheduling, target, auto_track_cancel_, watched, goal>>
  BY DEF Watch, WatchCheck, WatchTimeout, WatchPoll, WatchDecide, WatchTrack, Watches
<1>2. ScheduleInv'
  BY <1>1 DEF GotoInv, ScheduleInv
<1>3. WatchedInv'
  <2>1. auto_track_thread_ \in WatchSteps
    BY DEF Watch, WatchCheck, WatchTimeout, WatchPoll, WatchDecide, WatchTrack, Watches,
       WatchSteps
  <2>2. auto_track_thread_' = "call" => ~auto_track_cancel_
    BY DEF Watch, WatchCheck, WatchTimeout, WatchPoll, WatchDecide, WatchTrack, Watches,
       GotoInv, WatchedInv
  <2> QED BY <1>1, <2>1, <2>2 DEF GotoInv, WatchedInv
<1>4. GoingInv' /\ AimedInv'
  <2>1. CASE WatchCheck \/ WatchTimeout \/ WatchPoll
    <3>1. UNCHANGED <<vars, aimed>>
      BY <2>1 DEF WatchCheck, WatchTimeout, WatchPoll
    <3> QED BY <1>1, <3>1 DEF GotoInv, GoingInv, AimedInv, Going, Following, vars, clientVars
  <2>2. CASE WatchDecide \/ WatchTrack
    <3>1. \A d \in Users : pc[d] = "ready" /\ scheduling[d] # "lock"
      BY <2>2 DEF WatchDecide, WatchTrack, Watches, SerialInv
    <3>2. CASE UNCHANGED <<vars, aimed>>
      BY <1>1, <3>2 DEF GotoInv, GoingInv, AimedInv, Going, Following, vars, clientVars
    <3>3. CASE ClientStep(Watcher)
      <4>1. \A d \in Users : pc'[d] = "ready"
        BY <3>1, <3>3, ClientsKeepToThemselves, WatcherAssumption DEF Users
      <4>2. GoingInv'
        BY <4>1 DEF GoingInv, Going
      <4>3. \A d \in Users : ~Going(d)
        BY <3>1 DEF Going
      <4>4. CASE WatchDecide
        <5>1. UNCHANGED <<state_, aimed>>
          BY <4>4 DEF WatchDecide, CallTrack, vars
        <5> QED BY <1>1, <4>2, <4>3, <5>1 DEF GotoInv, AimedInv, Following
      <4>5. CASE WatchTrack /\ Accepts(Watcher, "track")
        <5>1. aimed' = watched /\ goal \in {NoTarget, watched}
          BY <3>1, <4>5 DEF WatchTrack, Watches, GotoInv, WatchedInv, WatchSteps
        <5> QED BY <1>1, <4>2, <5>1 DEF AimedInv
      <4>6. CASE WatchTrack /\ ~Accepts(Watcher, "track")
        <5>1. aimed' = aimed
          BY <4>6 DEF WatchTrack
        <5>2. op[Watcher] = "track"
          BY <4>6, WatcherAssumption DEF WatchTrack, CallsInv, CallOK
        <5>3. Following' => Following
          <6>1. ~SlewClaim(Watcher)
            BY <5>2 DEF SlewClaim
          <6>2. ~(TrackClaim(Watcher) /\ pc'[Watcher] = "spawn")
            BY <4>6 DEF TrackClaim, Goes, Accepts
          <6> QED BY <3>3, <6>1, <6>2, OnlyClaimsFollow, WatcherAssumption
        <5> QED BY <1>1, <4>2, <4>3, <5>1, <5>3 DEF GotoInv, AimedInv
      <4> QED BY <2>2, <4>4, <4>5, <4>6
    <3>4. CallTrack(Watcher) => ClientStep(Watcher)
      BY DEF ClientStep, TrackCallSteps
    <3> QED BY <2>2, <3>2, <3>3, <3>4 DEF WatchDecide, WatchTrack
  <2> QED BY <2>1, <2>2 DEF Watch
<1> QED BY <1>2, <1>3, <1>4 DEF GotoInv

\* The threads and the drives never set the mount in motion after another object.
LEMMA BackgroundKeepsGoto == GotoInv /\ Background => GotoInv'
<1> SUFFICES ASSUME GotoInv, Background PROVE GotoInv'
  OBVIOUS
<1>1. UNCHANGED <<op, pc, scheduling, target, autoVars, aimed, goal>>
  BY BackgroundLeavesCalls
<1>2. Following' => Following
  BY ThreadsDoNotFollow DEF Background
<1> QED
  BY <1>1, <1>2
     DEF GotoInv, ScheduleInv, GoingInv, WatchedInv, AimedInv, Going, autoVars

\* What the mount is claimed for, what its watcher waits for and what was asked for last
\* agree throughout.
THEOREM GotoCorrect ==
  ASSUME Serialised, SoleGoer
  PROVE  AutoSpec => []GotoInv
<1>1. AutoInit => GotoInv
  BY DEF AutoInit, Init, GotoInv, ScheduleInv, GoingInv, WatchedInv, AimedInv, Going,
     WatchSteps
<1>2. TypeOK /\ AutoTypes /\ CallsInv /\ WatcherInv /\ SerialInv /\ GotoInv
      /\ [AutoNext]_allVars => GotoInv'
  <2> SUFFICES ASSUME TypeOK, AutoTypes, CallsInv, WatcherInv, SerialInv, GotoInv,
                      [AutoNext]_allVars
               PROVE  GotoInv'
    OBVIOUS
  <2>1. CASE UNCHANGED allVars
    BY <2>1 DEF allVars, vars, clientVars, autoVars, GotoInv, ScheduleInv, GoingInv,
       WatchedInv, AimedInv, Going, Following
  <2>2. CASE Background
    BY <2>2, BackgroundKeepsGoto
  <2>3. CASE Watch
    BY <2>3, WatchKeepsGoto
  <2>4. ASSUME NEW c \in Users, UserStep(c) PROVE GotoInv'
    BY <2>4, UserCallKeepsGoto, ScheduleKeepsGoto DEF UserStep
  <2> QED BY <2>1, <2>2, <2>3, <2>4 DEF AutoNext
<1>3. AutoTypeOK => AutoTypes
  BY DEF AutoTypeOK, AutoTypes
<1> QED
  BY <1>1, <1>2, <1>3, AutoImplementsLifecycle, TypeCorrect, AutoTypeCorrect, CallsCorrect,
     TurnsCorrect, PTL DEF AutoSpec

\* A Goto supersedes the ones before it: with the calls returned, the mount moves to or
\* tracks the object asked for last, however many users park, stop or recover it.
THEOREM AlwaysFollowsGoto ==
  ASSUME Serialised, SoleGoer
  PROVE  AutoSpec => []FollowsGoto
<1>1. GotoInv => FollowsGoto
  <2> SUFFICES ASSUME GotoInv, Quiet, goal # NoTarget,
                      state_ \in {"SLEWING", "TRACKING", "MERIDIAN_FLIP"}
               PROVE  aimed = goal
    BY DEF FollowsGoto
  <2>1. \A c \in Users : ~Going(c)
    BY DEF Quiet, InCall, Going
  <2> QED BY <2>1 DEF GotoInv, AimedInv, Following
<1> QED BY <1>1, GotoCorrect, PTL

=============================================================================
