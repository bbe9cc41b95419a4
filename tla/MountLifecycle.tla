--------------------------- MODULE MountLifecycle ---------------------------
(***************************************************************************)
(* The life of one MountController: the gRPC handler threads that call its *)
(* operations, the one background thread (work_thread_) that supervises a  *)
(* slew, a tracking session or a park, the io writer thread of a split     *)
(* tracking session, and the two drives they all command.                  *)
(*                                                                         *)
(* Handlers are not serialised by the gRPC layer: what orders them is      *)
(* state_mutex_ (held for one critical section: one action here),          *)
(* thread_mutex_ (held across a join: a variable here) and two atomic      *)
(* flags that the threads poll.                                            *)
(***************************************************************************)
EXTENDS Naturals

CONSTANTS
  Clients,           \* handler threads of the gRPC server
  Ops,               \* Ops[c]: the operations client c may call
  Env,               \* what the drives, the sky and the requests may do
  SplitLoop,         \* tracking_config.split_tracking_loop
  MaxVerifyRetries,  \* MAX_VERIFY_RETRIES of the slew monitor
  NoClient           \* thread_mutex_ is free

OpNames == {"slew", "track", "stop", "park", "unpark", "clearErrors",
            "home", "emergencyStop", "flip"}

(* axisFailure : a drive may refuse a motion command                        *)
(* outOfLimits : a requested target may lie beyond the soft limits          *)
(* slewStall   : a drive may fail to arrive before the slew watchdog        *)
(* parkStall   : a drive may fail to arrive before the park timeout         *)
(* shortStop   : a drive may stop away from the slew target                 *)
(* earlyReached: a drive reports target reached before it starts to move    *)
(* loopError   : a tracking iteration may end in ERROR                      *)
(* safetyTrip  : the safety monitor may report a fault while tracking       *)
(* autoFlip    : the tracked object may cross the meridian                  *)
EnvNames == {"axisFailure", "outOfLimits", "slewStall", "parkStall",
             "shortStop", "earlyReached", "loopError", "safetyTrip", "autoFlip"}

ASSUME OpsAssumption == Ops \in [Clients -> SUBSET OpNames]
ASSUME EnvAssumption == Env \subseteq EnvNames
ASSUME SplitAssumption == SplitLoop \in BOOLEAN
ASSUME RetriesAssumption == MaxVerifyRetries \in Nat
ASSUME NoClientAssumption == NoClient \notin Clients

VARIABLES
  state_,            \* MountStatus::State, guarded by state_mutex_
  tracking_active_,  \* atomic: the calc loop runs while it is set
  io_active_,        \* atomic: the io threads run while it is set
  stop_motors_,      \* tracking_command_.stop_motors, the latched stop
  published_,        \* tracking_command_ holds a motion command
  thread_mutex_,     \* the client holding thread_mutex_, or NoClient
  work_thread_,      \* the background thread: "none" (not joinable), "done"
                     \*   (finished, joinable) or where it is
  verify_retries,    \* the slew monitor's local counter
  io_writer_thread_, \* the io writer: "none", "done" or where it is
  stop_latched,      \* the io writer's local flag
  op, pc,            \* op[c], pc[c]: what client c calls and where it is
  drive,             \* drive[a]: what axis a's drive is doing
  terminated         \* std::terminate has been called

clientVars == <<op, pc>>
flagVars   == <<tracking_active_, io_active_>>
cmdVars    == <<stop_motors_, published_>>
workVars   == <<work_thread_, verify_retries>>
writerVars == <<io_writer_thread_, stop_latched>>
vars == <<state_, flagVars, cmdVars, thread_mutex_, workVars, writerVars,
          clientVars, drive, terminated>>

Axes == {1, 2}

States == {"UNINITIALIZED", "IDLE", "SLEWING", "TRACKING", "MERIDIAN_FLIP",
           "PARKING", "PARKED", "ERROR"}

\* "starting": a goto accepted, the motor not yet turning.
DriveStates == {"off", "still", "starting", "goto", "rate"}

SlewSteps  == {"slewCheck", "slewPoll", "slewTimedOut", "slewHalt", "slewReached"}
TrackSteps == {"trackWhile", "trackLocked", "trackUnsafe", "trackFault",
               "trackPublish", "trackDesync", "trackExit", "trackHalt", "trackFinal"}
ParkSteps  == {"parkStart", "parkFail", "parkCheck", "parkPoll", "parkReached",
               "parkTimedOut"}
WorkSteps  == {"none", "done"} \cup SlewSteps \cup TrackSteps \cup ParkSteps
WriterSteps == {"none", "done", "tick", "check", "emit"}

ClientSteps == {"ready", "trackCheck", "stopFlags", "stopState", "acquire", "join",
                "stopMotors", "reacquire", "rejoin", "claim", "command", "revert",
                "spawn", "clearDrives", "clearState", "haltDrives"}

TypeOK ==
  /\ state_ \in States
  /\ tracking_active_ \in BOOLEAN
  /\ io_active_ \in BOOLEAN
  /\ stop_motors_ \in BOOLEAN
  /\ published_ \in BOOLEAN
  /\ thread_mutex_ \in Clients \cup {NoClient}
  /\ work_thread_ \in WorkSteps
  /\ verify_retries \in 0 .. MaxVerifyRetries
  /\ io_writer_thread_ \in WriterSteps
  /\ stop_latched \in BOOLEAN
  /\ op \in [Clients -> OpNames]
  /\ pc \in [Clients -> ClientSteps]
  /\ drive \in [Axes -> DriveStates]
  /\ terminated \in BOOLEAN

\* initialize() has run: the HAL exists, the drives are enabled, the mount is homed.
Init ==
  /\ state_ = "IDLE"
  /\ tracking_active_ = FALSE
  /\ io_active_ = FALSE
  /\ stop_motors_ = FALSE
  /\ published_ = FALSE
  /\ thread_mutex_ = NoClient
  /\ work_thread_ = "none"
  /\ verify_retries = 0
  /\ io_writer_thread_ = "none"
  /\ stop_latched = FALSE
  /\ op = [c \in Clients |-> "stop"]
  /\ pc = [c \in Clients |-> "ready"]
  /\ drive = [a \in Axes |-> "still"]
  /\ terminated = FALSE

-----------------------------------------------------------------------------
(* The drives (external): a disabled drive ignores motion commands.         *)

Moving(a) == drive[a] \in {"starting", "goto", "rate"}
AllStill  == \A a \in Axes : ~Moving(a)

Halted   == [a \in Axes |-> IF drive[a] = "off" THEN "off" ELSE "still"]
Disabled == [a \in Axes |-> "off"]
Enabled  == [a \in Axes |-> IF drive[a] = "off" THEN "still" ELSE drive[a]]

\* The drives of the axes in acc execute motion m; the others keep doing what they did.
Driven(d, acc, m) == [a \in Axes |-> IF a \in acc /\ d[a] # "off" THEN m ELSE d[a]]

\* The sets of axes whose command may return true: a healthy, enabled drive accepts.
Accepting(d) ==
  {acc \in SUBSET Axes :
     \A a \in Axes \ acc : "axisFailure" \in Env \/ d[a] = "off"}

DriveStarts(a) ==
  /\ drive[a] = "starting"
  /\ drive' = [drive EXCEPT ![a] = "goto"]
  /\ UNCHANGED <<state_, flagVars, cmdVars, thread_mutex_, workVars, writerVars,
                 clientVars, terminated>>

DriveArrives(a) ==
  /\ drive[a] = "goto"
  /\ drive' = [drive EXCEPT ![a] = "still"]
  /\ UNCHANGED <<state_, flagVars, cmdVars, thread_mutex_, workVars, writerVars,
                 clientVars, terminated>>

TargetReached(a) ==
  \/ ~Moving(a)
  \/ (drive[a] = "starting" /\ "earlyReached" \in Env)

-----------------------------------------------------------------------------
(* The steps the operations share.                                          *)

\* Client c, executing its call, goes from one of its steps to another.
Goes(c, from, to) ==
  /\ pc[c] = from
  /\ pc' = [pc EXCEPT ![c] = to]
  /\ UNCHANGED op

\* A handler thread picks up a request for operation o.
Call(c, o, first) ==
  /\ o \in Ops[c]
  /\ pc[c] = "ready"
  /\ op' = [op EXCEPT ![c] = o]
  /\ pc' = [pc EXCEPT ![c] = first]

\* Bug: slew and park wait for a calc loop that nothing has told to leave.
AcquireThreadMutexOnly(c, from, to) ==
  /\ Goes(c, from, to)
  /\ thread_mutex_ = NoClient
  /\ thread_mutex_' = c
  /\ io_active_' = FALSE
  /\ UNCHANGED <<state_, tracking_active_, cmdVars, workVars, writerVars, drive, terminated>>

\* joinWorkThreadLocked() clears io_active_; slew and park, which hold
\* thread_mutex_ from here to the end of the call, first clear tracking_active_.
AcquireThreadMutex(c, from, to) ==
  /\ Goes(c, from, to)
  /\ thread_mutex_ = NoClient
  /\ thread_mutex_' = c
  /\ io_active_' = FALSE
  /\ tracking_active_' = (tracking_active_ /\ op[c] \notin {"slew", "park"})
  /\ UNCHANGED <<state_, cmdVars, workVars, writerVars, drive, terminated>>

ThreadsFinished ==
  /\ work_thread_ \in {"none", "done"}
  /\ io_writer_thread_ \in {"none", "done"}

\* Bug: the joins wait for the threads but leave the members joinable.
JoinThreadsKept(c, from, to) ==
  /\ Goes(c, from, to)
  /\ ThreadsFinished
  /\ thread_mutex_' = IF to = "claim" /\ op[c] # "track" THEN c ELSE NoClient
  /\ UNCHANGED <<state_, flagVars, cmdVars, workVars, writerVars, drive, terminated>>

\* The joins return: the std::thread members are no longer joinable.
JoinThreads(c, from, to) ==
  /\ Goes(c, from, to)
  /\ ThreadsFinished
  /\ work_thread_' = "none"
  /\ io_writer_thread_' = "none"
  /\ thread_mutex_' = IF to = "claim" /\ op[c] # "track" THEN c ELSE NoClient
  /\ UNCHANGED <<state_, flagVars, cmdVars, verify_retries, stop_latched, drive, terminated>>

-----------------------------------------------------------------------------
(* stop(): also the first half of startTracking().                          *)

CallStop(c) ==
  /\ Call(c, "stop", "stopFlags")
  /\ UNCHANGED <<state_, flagVars, cmdVars, thread_mutex_, workVars, writerVars,
                 drive, terminated>>

StopFlags(c) ==
  /\ Goes(c, "stopFlags", "stopState")
  /\ tracking_active_' = FALSE
  /\ io_active_' = FALSE
  /\ UNCHANGED <<state_, cmdVars, thread_mutex_, workVars, writerVars, drive, terminated>>

StopState(c) ==
  /\ Goes(c, "stopState", "acquire")
  /\ state_' = IF state_ \in {"SLEWING", "TRACKING", "MERIDIAN_FLIP", "PARKING", "ERROR"}
               THEN "IDLE" ELSE state_
  /\ UNCHANGED <<flagVars, cmdVars, thread_mutex_, workVars, writerVars, drive, terminated>>

\* Bug: stop() trusts the thread it joined to have stopped the drives.
StopMotorsNever(c) ==
  /\ Goes(c, "stopMotors", IF op[c] = "track" THEN "reacquire" ELSE "ready")
  /\ UNCHANGED <<state_, flagVars, cmdVars, thread_mutex_, workVars, writerVars, drive,
                 terminated>>

StopMotors(c) ==
  /\ Goes(c, "stopMotors", IF op[c] = "track" THEN "reacquire" ELSE "ready")
  /\ drive' = Halted
  /\ UNCHANGED <<state_, flagVars, cmdVars, thread_mutex_, workVars, writerVars,
                 terminated>>

StopSteps(c) == CallStop(c) \/ StopFlags(c) \/ StopState(c) \/ StopMotors(c)

-----------------------------------------------------------------------------
(* slewToEquatorial() and slewToHorizontal().                               *)

CallSlew(c) ==
  /\ Call(c, "slew", "acquire")
  /\ UNCHANGED <<state_, flagVars, cmdVars, thread_mutex_, workVars, writerVars,
                 drive, terminated>>

ReturnUnlocked(c) ==
  /\ Goes(c, pc[c], "ready")
  /\ thread_mutex_' = NoClient

SlewReject(c) ==
  /\ op[c] = "slew" /\ pc[c] = "claim"
  /\ state_ \in {"UNINITIALIZED", "ERROR"}
  /\ ReturnUnlocked(c)
  /\ UNCHANGED <<state_, flagVars, cmdVars, workVars, writerVars, drive, terminated>>

SlewOutOfLimits(c) ==
  /\ op[c] = "slew" /\ pc[c] = "claim"
  /\ "outOfLimits" \in Env
  /\ state_ \notin {"UNINITIALIZED", "ERROR"}
  /\ state_' = "IDLE"
  /\ ReturnUnlocked(c)
  /\ UNCHANGED <<flagVars, cmdVars, workVars, writerVars, drive, terminated>>

SlewClaim(c) ==
  /\ op[c] = "slew"
  /\ Goes(c, "claim", "command")
  /\ state_ \notin {"UNINITIALIZED", "ERROR"}
  /\ state_' = "SLEWING"
  /\ UNCHANGED <<flagVars, cmdVars, thread_mutex_, workVars, writerVars, drive, terminated>>

SlewCommand(c) ==
  /\ op[c] = "slew"
  /\ \E acc \in Accepting(drive) :
       /\ drive' = Driven(drive, acc, "starting")
       /\ Goes(c, "command", IF acc = Axes THEN "spawn" ELSE "revert")
  /\ UNCHANGED <<state_, flagVars, cmdVars, thread_mutex_, workVars, writerVars,
                 terminated>>

\* Bug: a refused motion command leaves the mount SLEWING.
SlewRevertForgets(c) ==
  /\ pc[c] = "revert"
  /\ UNCHANGED state_
  /\ ReturnUnlocked(c)
  /\ UNCHANGED <<flagVars, cmdVars, workVars, writerVars, drive, terminated>>

SlewRevert(c) ==
  /\ pc[c] = "revert"
  /\ state_' = "IDLE"
  /\ ReturnUnlocked(c)
  /\ UNCHANGED <<flagVars, cmdVars, workVars, writerVars, drive, terminated>>

SlewSpawn(c) ==
  /\ op[c] = "slew" /\ pc[c] = "spawn"
  /\ work_thread_' = "slewCheck"
  /\ verify_retries' = 0
  /\ ReturnUnlocked(c)
  /\ UNCHANGED <<state_, flagVars, cmdVars, writerVars, drive, terminated>>

SlewCallSteps(c) ==
  \/ CallSlew(c) \/ SlewReject(c) \/ SlewOutOfLimits(c) \/ SlewClaim(c)
  \/ SlewCommand(c) \/ SlewRevert(c) \/ SlewSpawn(c)

-----------------------------------------------------------------------------
(* startTracking(): a quick check, stop(), a second join, then the claim    *)
(* under state_mutex_ and, with no lock held in between, the spawn.         *)

CallTrack(c) ==
  /\ Call(c, "track", "trackCheck")
  /\ UNCHANGED <<state_, flagVars, cmdVars, thread_mutex_, workVars, writerVars,
                 drive, terminated>>

NotTrackable == {"SLEWING", "PARKING", "UNINITIALIZED", "ERROR"}

TrackCheck(c) ==
  /\ Goes(c, "trackCheck", IF state_ \in NotTrackable THEN "ready" ELSE "stopFlags")
  /\ UNCHANGED <<state_, flagVars, cmdVars, thread_mutex_, workVars, writerVars,
                 drive, terminated>>

TrackReject(c) ==
  /\ op[c] = "track"
  /\ Goes(c, "claim", "ready")
  /\ state_ \in NotTrackable \/ "outOfLimits" \in Env
  /\ UNCHANGED <<state_, flagVars, cmdVars, thread_mutex_, workVars, writerVars,
                 drive, terminated>>

TrackClaim(c) ==
  /\ op[c] = "track"
  /\ state_ \notin NotTrackable
  /\ \E acc \in Accepting(drive) :
       /\ drive' = Driven(drive, acc, "rate")
       /\ \/ /\ acc = Axes
             /\ Goes(c, "claim", "spawn")
             /\ state_' = "TRACKING"
             /\ tracking_active_' = TRUE
             /\ stop_motors_' = FALSE /\ published_' = FALSE
          \/ /\ acc # Axes
             /\ Goes(c, "claim", "ready")
             /\ state_' = "IDLE"
             /\ UNCHANGED <<tracking_active_, cmdVars>>
  /\ UNCHANGED <<io_active_, thread_mutex_, workVars, writerVars, terminated>>

\* Assigning to a joinable std::thread calls std::terminate.
TrackSpawn(c) ==
  /\ op[c] = "track"
  /\ Goes(c, "spawn", "ready")
  /\ thread_mutex_ = NoClient
  /\ terminated' = (work_thread_ # "none" \/ (SplitLoop /\ io_writer_thread_ # "none"))
  /\ work_thread_' = "trackWhile"
  /\ io_active_' = (io_active_ \/ SplitLoop)
  /\ io_writer_thread_' = IF SplitLoop THEN "tick" ELSE io_writer_thread_
  /\ stop_latched' = FALSE
  /\ UNCHANGED <<state_, tracking_active_, cmdVars, thread_mutex_, verify_retries, drive>>

TrackCallSteps(c) ==
  CallTrack(c) \/ TrackCheck(c) \/ TrackReject(c) \/ TrackClaim(c) \/ TrackSpawn(c)

-----------------------------------------------------------------------------
(* park() and unpark().                                                     *)

CallPark(c) ==
  /\ Call(c, "park", "acquire")
  /\ UNCHANGED <<state_, flagVars, cmdVars, thread_mutex_, workVars, writerVars,
                 drive, terminated>>

ParkNothingToDo(c) ==
  /\ op[c] = "park" /\ pc[c] = "claim"
  /\ state_ \in {"PARKED", "PARKING"}
  /\ ReturnUnlocked(c)
  /\ UNCHANGED <<state_, flagVars, cmdVars, workVars, writerVars, drive, terminated>>

ParkClaim(c) ==
  /\ op[c] = "park"
  /\ Goes(c, "claim", "spawn")
  /\ state_ \notin {"PARKED", "PARKING"}
  /\ state_' = "PARKING"
  /\ drive' = Halted
  /\ tracking_active_' = FALSE
  /\ UNCHANGED <<io_active_, cmdVars, thread_mutex_, workVars, writerVars, terminated>>

ParkSpawn(c) ==
  /\ op[c] = "park" /\ pc[c] = "spawn"
  /\ work_thread_' = "parkStart"
  /\ ReturnUnlocked(c)
  /\ UNCHANGED <<state_, flagVars, cmdVars, verify_retries, writerVars, drive, terminated>>

Unpark(c) ==
  /\ Call(c, "unpark", "ready")
  /\ state_' = IF state_ = "PARKED" THEN "IDLE" ELSE state_
  /\ UNCHANGED <<flagVars, cmdVars, thread_mutex_, workVars, writerVars, drive, terminated>>

ParkCallSteps(c) ==
  CallPark(c) \/ ParkNothingToDo(c) \/ ParkClaim(c) \/ ParkSpawn(c) \/ Unpark(c)

-----------------------------------------------------------------------------
(* clearErrors(), home(), emergencyStop(-1, reset) and executeMeridianFlip(). *)

CallClearErrors(c) ==
  /\ Call(c, "clearErrors", "acquire")
  /\ UNCHANGED <<state_, flagVars, cmdVars, thread_mutex_, workVars, writerVars,
                 drive, terminated>>

ClearDrives(c) ==
  /\ Goes(c, "clearDrives", "clearState")
  /\ drive' = Enabled
  /\ UNCHANGED <<state_, flagVars, cmdVars, thread_mutex_, workVars, writerVars,
                 terminated>>

ClearState(c) ==
  /\ Goes(c, "clearState", "ready")
  /\ IF state_ = "ERROR"
       THEN state_' = "IDLE" /\ tracking_active_' = FALSE
       ELSE UNCHANGED <<state_, tracking_active_>>
  /\ UNCHANGED <<io_active_, cmdVars, thread_mutex_, workVars, writerVars, drive,
                 terminated>>

\* The position read may fail after tracking_active_ was cleared.
Home(c) ==
  /\ Call(c, "home", "ready")
  /\ state_ \in {"IDLE", "ERROR"}
  /\ tracking_active_' = FALSE
  /\ state_' \in {state_, "IDLE"}
  /\ UNCHANGED <<io_active_, cmdVars, thread_mutex_, workVars, writerVars, drive,
                 terminated>>

\* publishStop(), then the drives are disabled: two steps.
EmergencyStop(c) ==
  /\ Call(c, "emergencyStop", "haltDrives")
  /\ stop_motors_' = TRUE
  /\ UNCHANGED <<state_, flagVars, published_, thread_mutex_, workVars, writerVars,
                 drive, terminated>>

HaltDrives(c) ==
  /\ Goes(c, "haltDrives", "ready")
  /\ drive' = Disabled
  /\ UNCHANGED <<state_, flagVars, cmdVars, thread_mutex_, workVars, writerVars,
                 terminated>>

ExecuteMeridianFlip(c) ==
  /\ Call(c, "flip", "ready")
  /\ state_ = "TRACKING"
  /\ state_' = "MERIDIAN_FLIP"
  /\ UNCHANGED <<flagVars, cmdVars, thread_mutex_, workVars, writerVars, drive, terminated>>

RecoverySteps(c) ==
  \/ CallClearErrors(c) \/ ClearDrives(c) \/ ClearState(c) \/ Home(c)
  \/ EmergencyStop(c) \/ HaltDrives(c) \/ ExecuteMeridianFlip(c)

AfterJoin(c) ==
  CASE op[c] \in {"slew", "park"} -> "claim"
    [] op[c] \in {"stop", "track"} -> "stopMotors"
    [] OTHER -> "clearDrives"

LockSteps(c) ==
  \/ AcquireThreadMutex(c, "acquire", "join")
  \/ JoinThreads(c, "join", AfterJoin(c))
  \/ AcquireThreadMutex(c, "reacquire", "rejoin")
  \/ JoinThreads(c, "rejoin", "claim")

ClientStep(c) ==
  \/ LockSteps(c) \/ StopSteps(c) \/ SlewCallSteps(c) \/ TrackCallSteps(c)
  \/ ParkCallSteps(c) \/ RecoverySteps(c)

-----------------------------------------------------------------------------
(* The background thread.                                                   *)

WorkGoes(from, to) ==
  /\ work_thread_ = from
  /\ work_thread_' = to

(* runSlewMonitor(). Its settle counters are abstracted: it calls a slew    *)
(* reached when the drives are no longer about to move or moving.           *)

SlewCheck ==
  /\ WorkGoes("slewCheck", IF state_ = "SLEWING" THEN "slewPoll" ELSE "done")
  /\ UNCHANGED <<state_, flagVars, cmdVars, thread_mutex_, verify_retries, writerVars,
                 clientVars, drive, terminated>>

SlewPollAgain ==
  /\ WorkGoes("slewPoll", "slewCheck")
  /\ ~AllStill
  /\ UNCHANGED <<state_, flagVars, cmdVars, thread_mutex_, verify_retries, writerVars,
                 clientVars, drive, terminated>>

SlewPollTimeout ==
  /\ WorkGoes("slewPoll", "slewTimedOut")
  /\ "slewStall" \in Env
  /\ ~AllStill
  /\ UNCHANGED <<state_, flagVars, cmdVars, thread_mutex_, verify_retries, writerVars,
                 clientVars, drive, terminated>>

SlewPollReached ==
  /\ WorkGoes("slewPoll", "slewReached")
  /\ AllStill
  /\ UNCHANGED <<state_, flagVars, cmdVars, thread_mutex_, verify_retries, writerVars,
                 clientVars, drive, terminated>>

\* Some axis stopped away from its target: command it again.
MayRetryTooOften == verify_retries <= MaxVerifyRetries

MayRetry == verify_retries < MaxVerifyRetries

SlewReissue ==
  /\ WorkGoes("slewPoll", "slewCheck")
  /\ AllStill
  /\ "shortStop" \in Env
  /\ MayRetry
  /\ verify_retries' = verify_retries + 1
  /\ \E short \in SUBSET Axes \ {{}} : \E acc \in Accepting(drive) :
       drive' = Driven(drive, short \cap acc, "starting")
  /\ UNCHANGED <<state_, flagVars, cmdVars, thread_mutex_, writerVars, clientVars,
                 terminated>>

SlewTimedOut ==
  /\ WorkGoes("slewTimedOut", "slewHalt")
  /\ state_' = "ERROR"
  /\ UNCHANGED <<flagVars, cmdVars, thread_mutex_, verify_retries, writerVars, clientVars,
                 drive, terminated>>

SlewHalt ==
  /\ WorkGoes("slewHalt", "done")
  /\ drive' = Halted
  /\ UNCHANGED <<state_, flagVars, cmdVars, thread_mutex_, verify_retries, writerVars,
                 clientVars, terminated>>

SlewReached ==
  /\ WorkGoes("slewReached", "done")
  /\ state_' = IF state_ = "SLEWING" THEN "IDLE" ELSE state_
  /\ UNCHANGED <<flagVars, cmdVars, thread_mutex_, verify_retries, writerVars, clientVars,
                 drive, terminated>>

SlewMonitor ==
  \/ SlewCheck \/ SlewPollAgain \/ SlewPollTimeout \/ SlewPollReached \/ SlewReissue
  \/ SlewTimedOut \/ SlewHalt \/ SlewReached

-----------------------------------------------------------------------------
(* The calc loop of startTracking(): the safety status is read before       *)
(* state_mutex_ is taken and acted upon after it is released.               *)

TrackWhile ==
  /\ \/ ~tracking_active_ /\ WorkGoes("trackWhile", "trackExit")
     \/ tracking_active_ /\ WorkGoes("trackWhile", "trackLocked")
     \/ /\ tracking_active_ /\ "safetyTrip" \in Env
        /\ WorkGoes("trackWhile", "trackUnsafe")
  /\ UNCHANGED <<state_, flagVars, cmdVars, thread_mutex_, verify_retries, writerVars,
                 clientVars, drive, terminated>>

Trackable == tracking_active_ /\ state_ \in {"TRACKING", "MERIDIAN_FLIP"}

TrackLeave ==
  /\ work_thread_ \in {"trackLocked", "trackUnsafe"}
  /\ ~Trackable
  /\ WorkGoes(work_thread_, "trackExit")
  /\ UNCHANGED <<state_, flagVars, cmdVars, thread_mutex_, verify_retries, writerVars,
                 clientVars, drive, terminated>>

TrackError ==
  /\ work_thread_ \in {"trackLocked", "trackUnsafe"}
  /\ Trackable
  /\ "loopError" \in Env
  /\ state_' = "ERROR"
  /\ WorkGoes(work_thread_, "trackExit")
  /\ UNCHANGED <<flagVars, cmdVars, thread_mutex_, verify_retries, writerVars, clientVars,
                 drive, terminated>>

\* One iteration under the lock, with the meridian flip it may start or complete.
TrackIterate ==
  /\ work_thread_ \in {"trackLocked", "trackUnsafe"}
  /\ Trackable
  /\ \/ UNCHANGED state_
     \/ state_ = "TRACKING" /\ "autoFlip" \in Env /\ state_' = "MERIDIAN_FLIP"
     \/ state_ = "MERIDIAN_FLIP" /\ state_' = "TRACKING"
  /\ WorkGoes(work_thread_,
              IF work_thread_ = "trackUnsafe" THEN "trackFault" ELSE "trackPublish")
  /\ UNCHANGED <<flagVars, cmdVars, thread_mutex_, verify_retries, writerVars, clientVars,
                 drive, terminated>>

TrackFault ==
  /\ WorkGoes("trackFault", "trackExit")
  /\ state_' = "ERROR"
  /\ UNCHANGED <<flagVars, cmdVars, thread_mutex_, verify_retries, writerVars, clientVars,
                 drive, terminated>>

\* Publish a command for the io writer, or command the drives directly.
TrackPublish ==
  /\ WorkGoes("trackPublish", "trackWhile")
  /\ IF SplitLoop
       THEN published_' = TRUE /\ UNCHANGED drive
       ELSE /\ \E acc \in Accepting(drive) : drive' = Driven(drive, acc, "rate")
            /\ UNCHANGED published_
  /\ UNCHANGED <<state_, flagVars, stop_motors_, thread_mutex_, verify_retries, writerVars,
                 clientVars, terminated>>

\* Dec-axis desync: latch the stop, then enter ERROR if still tracking.
TrackDesync ==
  /\ WorkGoes("trackPublish", "trackDesync")
  /\ "loopError" \in Env
  /\ stop_motors_' = TRUE
  /\ UNCHANGED <<state_, flagVars, published_, thread_mutex_, verify_retries, writerVars,
                 clientVars, drive, terminated>>

TrackDesyncError ==
  /\ WorkGoes("trackDesync", "trackExit")
  /\ state_' = IF state_ \in {"TRACKING", "MERIDIAN_FLIP"} THEN "ERROR" ELSE state_
  /\ tracking_active_' = FALSE
  /\ UNCHANGED <<io_active_, cmdVars, thread_mutex_, verify_retries, writerVars, clientVars,
                 drive, terminated>>

TrackExit ==
  /\ WorkGoes("trackExit", IF state_ = "ERROR" THEN "trackHalt" ELSE "trackFinal")
  /\ UNCHANGED <<state_, flagVars, cmdVars, thread_mutex_, verify_retries, writerVars,
                 clientVars, drive, terminated>>

\* Bug: an ERROR exit halts the drives but latches no stop for the io writer.
TrackHaltUnlatched ==
  /\ WorkGoes("trackHalt", "trackFinal")
  /\ drive' = Halted
  /\ UNCHANGED <<state_, flagVars, cmdVars, thread_mutex_, verify_retries, writerVars,
                 clientVars, terminated>>

TrackHalt ==
  /\ WorkGoes("trackHalt", "trackFinal")
  /\ stop_motors_' = TRUE
  /\ drive' = Halted
  /\ UNCHANGED <<state_, flagVars, published_, thread_mutex_, verify_retries, writerVars,
                 clientVars, terminated>>

TrackFinal ==
  /\ WorkGoes("trackFinal", "done")
  /\ tracking_active_' = FALSE
  /\ io_active_' = FALSE
  /\ UNCHANGED <<state_, cmdVars, thread_mutex_, verify_retries, writerVars, clientVars,
                 drive, terminated>>

TrackLoop ==
  \/ TrackWhile \/ TrackLeave \/ TrackError \/ TrackIterate \/ TrackFault \/ TrackPublish
  \/ TrackDesync \/ TrackDesyncError \/ TrackExit \/ TrackHalt \/ TrackFinal

-----------------------------------------------------------------------------
(* The park thread.                                                         *)

ParkStart ==
  /\ work_thread_ = "parkStart"
  /\ \E acc \in Accepting(Enabled) :
       /\ drive' = Driven(Enabled, acc, "starting")
       /\ WorkGoes("parkStart", IF acc = Axes THEN "parkCheck" ELSE "parkFail")
  /\ UNCHANGED <<state_, flagVars, cmdVars, thread_mutex_, verify_retries, writerVars,
                 clientVars, terminated>>

ParkFail ==
  /\ WorkGoes("parkFail", "done")
  /\ state_' = "IDLE"
  /\ UNCHANGED <<flagVars, cmdVars, thread_mutex_, verify_retries, writerVars, clientVars,
                 drive, terminated>>

ParkCheck ==
  /\ WorkGoes("parkCheck", IF state_ = "PARKING" THEN "parkPoll" ELSE "done")
  /\ UNCHANGED <<state_, flagVars, cmdVars, thread_mutex_, verify_retries, writerVars,
                 clientVars, drive, terminated>>

ParkPollAgain ==
  /\ \E a \in Axes : ~TargetReached(a)
  /\ \/ WorkGoes("parkPoll", "parkCheck")
     \/ "parkStall" \in Env /\ WorkGoes("parkPoll", "parkTimedOut")
  /\ UNCHANGED <<state_, flagVars, cmdVars, thread_mutex_, verify_retries, writerVars,
                 clientVars, drive, terminated>>

ParkPollReached ==
  /\ WorkGoes("parkPoll", "parkReached")
  /\ \A a \in Axes : TargetReached(a)
  /\ UNCHANGED <<state_, flagVars, cmdVars, thread_mutex_, verify_retries, writerVars,
                 clientVars, drive, terminated>>

\* Bug: the drives stay enabled, as if a reported target were an axis at rest.
ParkReachedEnabled ==
  /\ WorkGoes("parkReached", "done")
  /\ state_' = "PARKED"
  /\ UNCHANGED <<flagVars, cmdVars, thread_mutex_, verify_retries, writerVars, clientVars,
                 drive, terminated>>

ParkReached ==
  /\ WorkGoes("parkReached", "done")
  /\ state_' = "PARKED"
  /\ drive' = Disabled
  /\ UNCHANGED <<flagVars, cmdVars, thread_mutex_, verify_retries, writerVars, clientVars,
                 terminated>>

\* Bug: the park thread gives up without leaving PARKING.
ParkTimedOutForgets ==
  /\ WorkGoes("parkTimedOut", "done")
  /\ UNCHANGED <<state_, flagVars, cmdVars, thread_mutex_, verify_retries, writerVars,
                 clientVars, drive, terminated>>

ParkTimedOut ==
  /\ WorkGoes("parkTimedOut", "done")
  /\ state_' = IF state_ = "PARKING" THEN "IDLE" ELSE state_
  /\ UNCHANGED <<flagVars, cmdVars, thread_mutex_, verify_retries, writerVars, clientVars,
                 drive, terminated>>

ParkMonitor ==
  \/ ParkStart \/ ParkFail \/ ParkCheck \/ ParkPollAgain \/ ParkPollReached
  \/ ParkReached \/ ParkTimedOut

-----------------------------------------------------------------------------
(* trackingIoWriterLoop(): the snapshot is copied under command_mutex_, the  *)
(* flags are looked at and the copy is emitted after it is released.         *)

IoRuns == io_active_ /\ tracking_active_

\* A latched stop is honoured even by the tick that then leaves the loop.
WriterStop ==
  /\ io_writer_thread_ = "tick"
  /\ stop_motors_
  /\ drive' = IF stop_latched THEN drive ELSE Halted
  /\ stop_latched' = TRUE
  /\ io_writer_thread_' = IF IoRuns THEN "tick" ELSE "done"
  /\ UNCHANGED <<state_, flagVars, cmdVars, thread_mutex_, workVars, clientVars,
                 terminated>>

WriterRead ==
  /\ io_writer_thread_ = "tick"
  /\ ~stop_motors_
  /\ io_writer_thread_' = "check"
  /\ UNCHANGED <<state_, flagVars, cmdVars, thread_mutex_, workVars, stop_latched,
                 clientVars, drive, terminated>>

\* A copy taken before the first publication, or of a position already sent, is not emitted.
WriterCheck ==
  /\ io_writer_thread_ = "check"
  /\ io_writer_thread_' \in IF ~IoRuns THEN {"done"}
                            ELSE IF published_ THEN {"emit", "tick"} ELSE {"tick"}
  /\ UNCHANGED <<state_, flagVars, cmdVars, thread_mutex_, workVars, stop_latched,
                 clientVars, drive, terminated>>

WriterEmit ==
  /\ io_writer_thread_ = "emit"
  /\ \E acc \in Accepting(drive) : drive' = Driven(drive, acc, "rate")
  /\ io_writer_thread_' = "tick"
  /\ UNCHANGED <<state_, flagVars, cmdVars, thread_mutex_, workVars, stop_latched,
                 clientVars, terminated>>

Writer == WriterStop \/ WriterRead \/ WriterCheck \/ WriterEmit

-----------------------------------------------------------------------------
Work == SlewMonitor \/ TrackLoop \/ ParkMonitor

Next ==
  /\ ~terminated
  /\ \/ \E c \in Clients : ClientStep(c)
     \/ Work
     \/ Writer
     \/ \E a \in Axes : DriveStarts(a) \/ DriveArrives(a)

Spec == Init /\ [][Next]_vars

-----------------------------------------------------------------------------
(* Safety.                                                                  *)

\* No live std::thread is overwritten: startTracking(), which assigns work_thread_
\* without joining it under the same lock, never finds it joinable.
NoTerminate == ~terminated

WorkFinished == work_thread_ \in {"none", "done"}
WriterFinished == io_writer_thread_ \in {"none", "done"}

\* A handler is between taking the mount over and handing it to its thread.
Claiming(c, o) == op[c] = o /\ pc[c] \in {"command", "revert", "spawn"}

\* A handler has told the tracking loop to leave and has not yet settled the state.
Stopping(c) ==
  \/ pc[c] = "stopState"
  \/ op[c] \in {"slew", "park"} /\ pc[c] \in {"join", "claim"}

\* Every moving state is somebody's: its own supervising thread runs, or a handler
\* is about to start that thread or to leave the state. Otherwise the controller would
\* report SLEWING, PARKING or TRACKING for ever with no one to end it.
Supervised ==
  /\ state_ = "SLEWING" =>
       \/ work_thread_ \in SlewSteps
       \/ \E c \in Clients : Claiming(c, "slew")
  /\ state_ = "PARKING" =>
       \/ work_thread_ \in ParkSteps
       \/ \E c \in Clients : Claiming(c, "park")
  /\ state_ \in {"TRACKING", "MERIDIAN_FLIP"} =>
       \/ work_thread_ \in TrackSteps
       \/ \E c \in Clients : Claiming(c, "track") \/ Stopping(c)

Quiescent ==
  /\ \A c \in Clients : pc[c] = "ready"
  /\ WorkFinished /\ WriterFinished

\* When no call is in progress and no thread runs, no drive moves: whatever ended the
\* last slew, session or park also ended its motion.
QuiescentStill == Quiescent => AllStill

\* A thread that ends in ERROR has stopped the drives: "without an explicit stop, the
\* motors continue running at the last commanded velocity indefinitely".
ErrorHalts == (state_ = "ERROR" /\ WorkFinished /\ WriterFinished) => AllStill

\* While the calc loop of a split session iterates, its commands reach the drives: the
\* io writer runs until a handler or the loop itself ends the session.
SessionIsEmitted ==
  ( /\ SplitLoop
    /\ tracking_active_
    /\ state_ \in {"TRACKING", "MERIDIAN_FLIP"}
    /\ work_thread_ \in TrackSteps )
  => ~WriterFinished

\* "both axes at (0,0)" when the mount is declared parked: no axis is still to move.
ParkedAtRest == [][(state_ # "PARKED" /\ state_' = "PARKED") => AllStill]_vars

\* A parked mount does not move, although its drives may have reported their targets
\* before they moved and calls, threads and refused commands of before may be under way.
ParkedStill == state_ = "PARKED" => AllStill

-----------------------------------------------------------------------------
(* Liveness. The operating system schedules every thread, a drive that is   *)
(* commanded moves and arrives (or, under slewStall and parkStall, the      *)
(* watchdogs fire), and std::shared_mutex is eventually acquired.           *)

CallSteps(c) ==
  \/ LockSteps(c) \/ StopFlags(c) \/ StopState(c) \/ StopMotors(c)
  \/ SlewReject(c) \/ SlewOutOfLimits(c) \/ SlewClaim(c) \/ SlewCommand(c)
  \/ SlewRevert(c) \/ SlewSpawn(c)
  \/ TrackCheck(c) \/ TrackReject(c) \/ TrackClaim(c) \/ TrackSpawn(c)
  \/ ParkNothingToDo(c) \/ ParkClaim(c) \/ ParkSpawn(c)
  \/ ClearDrives(c) \/ ClearState(c) \/ HaltDrives(c)

Fairness ==
  /\ \A c \in Clients : SF_vars(~terminated /\ CallSteps(c))
  /\ WF_vars(~terminated /\ Work)
  /\ WF_vars(~terminated /\ Writer)
  /\ SF_vars(~terminated /\ SlewPollReached)
  /\ SF_vars(~terminated /\ ParkPollReached)
  /\ \A a \in Axes : WF_vars(~terminated /\ (DriveStarts(a) \/ DriveArrives(a)))

FairSpec == Spec /\ Fairness

\* Every call returns.
CallsReturn == \A c \in Clients : pc[c] # "ready" ~> pc[c] = "ready"

\* A move ends: the mount does not stay in SLEWING or PARKING for ever.
MovesEnd == state_ \in {"SLEWING", "PARKING"} ~> state_ \notin {"SLEWING", "PARKING"}

=============================================================================
