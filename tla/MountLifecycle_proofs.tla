----------------------- MODULE MountLifecycle_proofs -----------------------
(***************************************************************************)
(* Proofs about MountLifecycle, for any number of clients: types, mutual    *)
(* exclusion on thread_mutex_, no live std::thread overwritten, every       *)
(* moving state supervised, and drives at rest after an ERROR, in PARKED and *)
(* once everything has ended.                                               *)
(***************************************************************************)
EXTENDS MountLifecycle, TLAPS

USE DEF vars, clientVars, flagVars, cmdVars, workVars, writerVars

-----------------------------------------------------------------------------
(* Types. One lemma per group of steps, one step per action.                *)

\* Acquiring thread_mutex_ and joining the threads keep the types.
LEMMA LockStepsTypes ==
  ASSUME TypeOK, NEW c \in Clients, LockSteps(c)
  PROVE  TypeOK'
<1> USE DEF TypeOK, ClientSteps, OpNames
<1>1. CASE AcquireThreadMutex(c, "acquire", "join")
  BY <1>1 DEF AcquireThreadMutex, Goes
<1>2. CASE JoinThreads(c, "join", AfterJoin(c))
  BY <1>2 DEF JoinThreads, AfterJoin, Goes, WorkSteps, WriterSteps
<1>3. CASE AcquireThreadMutex(c, "reacquire", "rejoin")
  BY <1>3 DEF AcquireThreadMutex, Goes
<1>4. CASE JoinThreads(c, "rejoin", "claim")
  BY <1>4 DEF JoinThreads, Goes, WorkSteps, WriterSteps
<1>5. QED
  BY <1>1, <1>2, <1>3, <1>4 DEF LockSteps

\* The steps of stop() keep the types.
LEMMA StopStepsTypes ==
  ASSUME TypeOK, NEW c \in Clients, StopSteps(c)
  PROVE  TypeOK'
<1> USE DEF TypeOK, ClientSteps, OpNames
<1>1. CASE CallStop(c)
  BY <1>1 DEF CallStop, Call
<1>2. CASE StopFlags(c)
  BY <1>2 DEF StopFlags, Goes
<1>3. CASE StopState(c)
  BY <1>3 DEF StopState, Goes, States
<1>4. CASE StopMotors(c)
  BY <1>4 DEF StopMotors, Goes, Halted, DriveStates
<1>5. QED
  BY <1>1, <1>2, <1>3, <1>4 DEF StopSteps

\* The steps of slewToEquatorial() keep the types.
LEMMA SlewCallStepsTypes ==
  ASSUME TypeOK, NEW c \in Clients, SlewCallSteps(c)
  PROVE  TypeOK'
<1> USE DEF TypeOK, ClientSteps, OpNames
<1>1. CASE CallSlew(c)
  BY <1>1 DEF CallSlew, Call
<1>2. CASE SlewReject(c)
  BY <1>2 DEF SlewReject, ReturnUnlocked, Goes
<1>3. CASE SlewOutOfLimits(c)
  BY <1>3 DEF SlewOutOfLimits, ReturnUnlocked, Goes, States
<1>4. CASE SlewClaim(c)
  BY <1>4 DEF SlewClaim, Goes, States
<1>5. CASE SlewCommand(c)
  BY <1>5 DEF SlewCommand, Goes, Driven, Accepting, DriveStates
<1>6. CASE SlewRevert(c)
  BY <1>6 DEF SlewRevert, ReturnUnlocked, Goes, States
<1>7. CASE SlewSpawn(c)
  BY RetriesAssumption, <1>7 DEF SlewSpawn, ReturnUnlocked, Goes, WorkSteps, SlewSteps
<1>8. QED
  BY <1>1, <1>2, <1>3, <1>4, <1>5, <1>6, <1>7 DEF SlewCallSteps

\* The steps of startTracking() keep the types.
LEMMA TrackCallStepsTypes ==
  ASSUME TypeOK, NEW c \in Clients, TrackCallSteps(c)
  PROVE  TypeOK'
<1> USE DEF TypeOK, ClientSteps, OpNames
<1>1. CASE CallTrack(c)
  BY <1>1 DEF CallTrack, Call
<1>2. CASE TrackCheck(c)
  BY <1>2 DEF TrackCheck, Goes
<1>3. CASE TrackReject(c)
  BY <1>3 DEF TrackReject, Goes
<1>4. CASE TrackClaim(c)
  BY <1>4 DEF TrackClaim, Goes, Driven, Accepting, DriveStates, States
<1>5. CASE TrackSpawn(c)
  BY <1>5 DEF TrackSpawn, Goes, WorkSteps, TrackSteps, WriterSteps
<1>6. QED
  BY <1>1, <1>2, <1>3, <1>4, <1>5 DEF TrackCallSteps

\* The steps of park() and unpark() keep the types.
LEMMA ParkCallStepsTypes ==
  ASSUME TypeOK, NEW c \in Clients, ParkCallSteps(c)
  PROVE  TypeOK'
<1> USE DEF TypeOK, ClientSteps, OpNames
<1>1. CASE CallPark(c)
  BY <1>1 DEF CallPark, Call
<1>2. CASE ParkNothingToDo(c)
  BY <1>2 DEF ParkNothingToDo, ReturnUnlocked, Goes
<1>3. CASE ParkClaim(c)
  BY <1>3 DEF ParkClaim, Goes, Halted, DriveStates, States
<1>4. CASE ParkSpawn(c)
  BY <1>4 DEF ParkSpawn, ReturnUnlocked, Goes, WorkSteps, ParkSteps
<1>5. CASE Unpark(c)
  BY <1>5 DEF Unpark, Call, States
<1>6. QED
  BY <1>1, <1>2, <1>3, <1>4, <1>5 DEF ParkCallSteps

\* The steps of clearErrors(), home(), emergencyStop() and of the flip request keep the
\* types.
LEMMA RecoveryStepsTypes ==
  ASSUME TypeOK, NEW c \in Clients, RecoverySteps(c)
  PROVE  TypeOK'
<1> USE DEF TypeOK, ClientSteps, OpNames
<1>1. CASE CallClearErrors(c)
  BY <1>1 DEF CallClearErrors, Call
<1>2. CASE ClearDrives(c)
  BY <1>2 DEF ClearDrives, Goes, Enabled, DriveStates
<1>3. CASE ClearState(c)
  BY <1>3 DEF ClearState, Goes, States
<1>4. CASE Home(c)
  BY <1>4 DEF Home, Call, States
<1>5. CASE EmergencyStop(c)
  BY <1>5 DEF EmergencyStop, Call
<1>6. CASE HaltDrives(c)
  BY <1>6 DEF HaltDrives, Goes, Disabled, DriveStates
<1>7. CASE ExecuteMeridianFlip(c)
  BY <1>7 DEF ExecuteMeridianFlip, Call, States
<1>8. QED
  BY <1>1, <1>2, <1>3, <1>4, <1>5, <1>6, <1>7 DEF RecoverySteps

\* The steps of runSlewMonitor() keep the types, its retry counter included.
LEMMA SlewMonitorTypes ==
  ASSUME TypeOK, SlewMonitor
  PROVE  TypeOK'
<1> USE DEF TypeOK, WorkGoes, WorkSteps, SlewSteps
<1>1. CASE SlewCheck
  BY <1>1 DEF SlewCheck
<1>2. CASE SlewPollAgain
  BY <1>2 DEF SlewPollAgain
<1>3. CASE SlewPollTimeout
  BY <1>3 DEF SlewPollTimeout
<1>4. CASE SlewPollReached
  BY <1>4 DEF SlewPollReached
<1>5. CASE SlewReissue
  BY RetriesAssumption, <1>5 DEF SlewReissue, MayRetry, Driven, Accepting, DriveStates
<1>6. CASE SlewTimedOut
  BY <1>6 DEF SlewTimedOut, States
<1>7. CASE SlewHalt
  BY <1>7 DEF SlewHalt, Halted, DriveStates
<1>8. CASE SlewReached
  BY <1>8 DEF SlewReached, States
<1>9. QED
  BY <1>1, <1>2, <1>3, <1>4, <1>5, <1>6, <1>7, <1>8 DEF SlewMonitor

\* The steps of the calc loop keep the types.
LEMMA TrackLoopTypes ==
  ASSUME TypeOK, TrackLoop
  PROVE  TypeOK'
<1> USE DEF TypeOK, WorkGoes, WorkSteps, TrackSteps
<1>1. CASE TrackWhile
  BY <1>1 DEF TrackWhile
<1>2. CASE TrackLeave
  BY <1>2 DEF TrackLeave
<1>3. CASE TrackError
  BY <1>3 DEF TrackError, States
<1>4. CASE TrackIterate
  BY <1>4 DEF TrackIterate, States
<1>5. CASE TrackFault
  BY <1>5 DEF TrackFault, States
<1>6. CASE TrackPublish
  BY <1>6 DEF TrackPublish, Driven, Accepting, DriveStates
<1>7. CASE TrackDesync
  BY <1>7 DEF TrackDesync
<1>8. CASE TrackDesyncError
  BY <1>8 DEF TrackDesyncError, States
<1>9. CASE TrackExit
  BY <1>9 DEF TrackExit
<1>10. CASE TrackHalt
  BY <1>10 DEF TrackHalt, Halted, DriveStates
<1>11. CASE TrackFinal
  BY <1>11 DEF TrackFinal
<1>12. QED
  BY <1>1, <1>2, <1>3, <1>4, <1>5, <1>6, <1>7, <1>8, <1>9, <1>10, <1>11 DEF TrackLoop

\* The steps of the park thread keep the types.
LEMMA ParkMonitorTypes ==
  ASSUME TypeOK, ParkMonitor
  PROVE  TypeOK'
<1> USE DEF TypeOK, WorkGoes, WorkSteps, ParkSteps
<1>1. CASE ParkStart
  BY <1>1 DEF ParkStart, Enabled, Driven, Accepting, DriveStates
<1>2. CASE ParkFail
  BY <1>2 DEF ParkFail, States
<1>3. CASE ParkCheck
  BY <1>3 DEF ParkCheck
<1>4. CASE ParkPollAgain
  BY <1>4 DEF ParkPollAgain
<1>5. CASE ParkPollReached
  BY <1>5 DEF ParkPollReached
<1>6. CASE ParkReached
  BY <1>6 DEF ParkReached, Disabled, DriveStates, States
<1>7. CASE ParkTimedOut
  BY <1>7 DEF ParkTimedOut, States
<1>8. QED
  BY <1>1, <1>2, <1>3, <1>4, <1>5, <1>6, <1>7 DEF ParkMonitor

\* The steps of the io writer keep the types.
LEMMA WriterTypes ==
  ASSUME TypeOK, Writer
  PROVE  TypeOK'
<1> USE DEF TypeOK, WriterSteps
<1>1. CASE WriterStop
  BY <1>1 DEF WriterStop, Halted, DriveStates
<1>2. CASE WriterRead \/ WriterCheck
  BY <1>2 DEF WriterRead, WriterCheck
<1>3. CASE WriterEmit
  BY <1>3 DEF WriterEmit, Driven, Accepting, DriveStates
<1>4. QED
  BY <1>1, <1>2, <1>3 DEF Writer

\* The drives keep their types.
LEMMA DriveTypes ==
  ASSUME TypeOK, NEW a \in Axes, DriveStarts(a) \/ DriveArrives(a)
  PROVE  TypeOK'
  BY DEF TypeOK, DriveStarts, DriveArrives, DriveStates

\* Every variable keeps its type, whoever calls what and whatever the drives do.
THEOREM TypeCorrect == Spec => []TypeOK
<1>1. Init => TypeOK
  <2> SUFFICES ASSUME Init PROVE TypeOK
    OBVIOUS
  <2> USE DEF Init
  <2>1. /\ op \in [Clients -> OpNames]
        /\ pc \in [Clients -> ClientSteps]
        /\ drive \in [Axes -> DriveStates]
    BY DEF OpNames, ClientSteps, DriveStates
  <2>2. verify_retries \in 0 .. MaxVerifyRetries
    BY RetriesAssumption
  <2>3. state_ \in States /\ work_thread_ \in WorkSteps /\ io_writer_thread_ \in WriterSteps
    BY DEF States, WorkSteps, WriterSteps
  <2>4. QED
    BY <2>1, <2>2, <2>3 DEF TypeOK
<1>2. TypeOK /\ [Next]_vars => TypeOK'
  <2> SUFFICES ASSUME TypeOK, [Next]_vars PROVE TypeOK'
    OBVIOUS
  <2>1. CASE UNCHANGED vars
    BY <2>1 DEF TypeOK
  <2>2. ASSUME NEW c \in Clients, ClientStep(c) PROVE TypeOK'
    BY <2>2, LockStepsTypes, StopStepsTypes, SlewCallStepsTypes, TrackCallStepsTypes,
       ParkCallStepsTypes, RecoveryStepsTypes DEF ClientStep
  <2>3. CASE Work
    BY <2>3, SlewMonitorTypes, TrackLoopTypes, ParkMonitorTypes DEF Work
  <2>4. QED
    BY <2>1, <2>2, <2>3, WriterTypes, DriveTypes DEF Next
<1>3. QED
  BY <1>1, <1>2, PTL DEF Spec

-----------------------------------------------------------------------------
(* The inductive invariants, each resting on those before it.               *)

Movers == {"slew", "track", "park"}

\* At most one client, if it tracks, moves the mount: startTracking() hands its session
\* over without having held thread_mutex_ since its join.
SoleMover ==
  \A c, d \in Clients : c # d /\ "track" \in Ops[c] => Ops[d] \cap Movers = {}

\* The client executes an operation it may call, at a step of that operation.
CallOK(c) ==
  /\ pc[c] # "ready" => op[c] \in Ops[c]
  /\ pc[c] \in {"trackCheck", "reacquire", "rejoin"} => op[c] = "track"
  /\ pc[c] \in {"stopFlags", "stopState", "stopMotors"} => op[c] \in {"stop", "track"}
  /\ pc[c] \in {"claim", "spawn"} => op[c] \in Movers
  /\ pc[c] \in {"command", "revert"} => op[c] = "slew"
  /\ pc[c] \in {"acquire", "join"} => op[c] \in Movers \cup {"stop", "clearErrors"}
  /\ pc[c] \in {"clearDrives", "clearState"} => op[c] = "clearErrors"

CallsInv == \A c \in Clients : CallOK(c)

\* The client is past its last join, which found no thread, and has not yet returned.
Committed(c) == pc[c] \in {"claim", "command", "revert", "spawn"}

\* While one client is between the last join and the spawn of startTracking(), where it
\* does not hold thread_mutex_, no other client is about to start a thread.
Exclusive ==
  \A c, d \in Clients : c # d /\ op[c] = "track" /\ Committed(c) => ~Committed(d)

\* The steps at which a client holds thread_mutex_.
Holding(c) ==
  \/ pc[c] \in {"join", "rejoin"}
  \/ op[c] \in {"slew", "park"} /\ Committed(c)

LockInv == \A c \in Clients : Holding(c) => thread_mutex_ = c

ThreadsInv ==
  /\ \A c \in Clients : Committed(c) => work_thread_ = "none" /\ io_writer_thread_ = "none"
  /\ work_thread_ \in SlewSteps \cup ParkSteps => io_writer_thread_ = "none"

Tracking == state_ \in {"TRACKING", "MERIDIAN_FLIP"}

\* A tracking state outlives its loop only while a handler is stopping it.
LeavingInv ==
  /\ ( /\ Tracking
       /\ ~tracking_active_ \/ work_thread_ \in {"trackExit", "trackHalt", "trackFinal"} )
     => \E c \in Clients : Stopping(c)
  /\ work_thread_ = "slewHalt" => state_ # "SLEWING"

\* The writer that latched a stop never emits again.
LatchInv ==
  io_writer_thread_ \in {"tick", "check", "emit"} /\ stop_latched
    => stop_motors_ /\ io_writer_thread_ = "tick"

\* ERROR is entered only by a thread, which then halts the drives, or leaves a latched
\* stop to a writer that is about to command them once more.
ErrorInv ==
  state_ = "ERROR" =>
    /\ work_thread_ \in {"slewHalt", "trackExit", "trackHalt", "trackFinal", "done", "none"}
    /\ \A c \in Clients : pc[c] \notin {"command", "revert", "spawn"}
    /\ work_thread_ \in {"trackFinal", "done", "none"} =>
         /\ io_writer_thread_ \in {"tick", "check", "emit"} => stop_motors_
         /\ \/ AllStill /\ io_writer_thread_ # "emit"
            \/ io_writer_thread_ \in {"tick", "emit"} /\ ~stop_latched

-----------------------------------------------------------------------------
(* Calls and the lock.                                                      *)


\* The threads and the drives leave the handlers and their lock alone.
LEMMA ThreadsLeaveCalls ==
  ASSUME Work \/ Writer \/ \E a \in Axes : DriveStarts(a) \/ DriveArrives(a)
  PROVE  UNCHANGED <<op, pc, thread_mutex_>>
<1>1. CASE SlewMonitor
  BY <1>1 DEF SlewMonitor, SlewCheck, SlewPollAgain, SlewPollTimeout, SlewPollReached,
     SlewReissue, SlewTimedOut, SlewHalt, SlewReached, WorkGoes
<1>2. CASE TrackLoop
  BY <1>2 DEF TrackLoop, TrackWhile, TrackLeave, TrackError, TrackIterate, TrackFault,
     TrackPublish, TrackDesync, TrackDesyncError, TrackExit, TrackHalt, TrackFinal, WorkGoes
<1>3. CASE ParkMonitor
  BY <1>3 DEF ParkMonitor, ParkStart, ParkFail, ParkCheck, ParkPollAgain, ParkPollReached,
     ParkReached, ParkTimedOut, WorkGoes
<1>4. CASE Writer
  BY <1>4 DEF Writer, WriterStop, WriterRead, WriterCheck, WriterEmit
<1>5. CASE \E a \in Axes : DriveStarts(a) \/ DriveArrives(a)
  BY <1>5 DEF DriveStarts, DriveArrives
<1>6. QED
  BY <1>1, <1>2, <1>3, <1>4, <1>5 DEF Work

\* A step of one client keeps every client inside its own operation.
LEMMA CallOKStep ==
  ASSUME TypeOK, CallsInv, NEW c \in Clients, ClientStep(c), NEW d \in Clients
  PROVE  CallOK(d)'
<1> USE DEF TypeOK, CallsInv, CallOK, Movers
<1>1. CASE AcquireThreadMutex(c, "acquire", "join")
  BY <1>1 DEF AcquireThreadMutex, Goes
<1>2. CASE JoinThreads(c, "join", AfterJoin(c))
  BY <1>2 DEF JoinThreads, AfterJoin, Goes
<1>3. CASE AcquireThreadMutex(c, "reacquire", "rejoin")
  BY <1>3 DEF AcquireThreadMutex, Goes
<1>4. CASE JoinThreads(c, "rejoin", "claim")
  BY <1>4 DEF JoinThreads, Goes
<1>5. CASE CallStop(c)
  BY <1>5 DEF CallStop, Call
<1>6. CASE StopFlags(c)
  BY <1>6 DEF StopFlags, Goes
<1>7. CASE StopState(c)
  BY <1>7 DEF StopState, Goes
<1>8. CASE StopMotors(c)
  BY <1>8 DEF StopMotors, Goes
<1>9. CASE CallSlew(c)
  BY <1>9 DEF CallSlew, Call
<1>10. CASE SlewReject(c)
  BY <1>10 DEF SlewReject, ReturnUnlocked, Goes
<1>11. CASE SlewOutOfLimits(c)
  BY <1>11 DEF SlewOutOfLimits, ReturnUnlocked, Goes
<1>12. CASE SlewClaim(c)
  BY <1>12 DEF SlewClaim, Goes
<1>13. CASE SlewCommand(c)
  BY <1>13 DEF SlewCommand, Goes
<1>14. CASE SlewRevert(c)
  BY <1>14 DEF SlewRevert, ReturnUnlocked, Goes
<1>15. CASE SlewSpawn(c)
  BY <1>15 DEF SlewSpawn, ReturnUnlocked, Goes
<1>16. CASE CallTrack(c)
  BY <1>16 DEF CallTrack, Call
<1>17. CASE TrackCheck(c)
  BY <1>17 DEF TrackCheck, Goes
<1>18. CASE TrackReject(c)
  BY <1>18 DEF TrackReject, Goes
<1>19. CASE TrackClaim(c)
  BY <1>19 DEF TrackClaim, Goes
<1>20. CASE TrackSpawn(c)
  BY <1>20 DEF TrackSpawn, Goes
<1>21. CASE CallPark(c)
  BY <1>21 DEF CallPark, Call
<1>22. CASE ParkNothingToDo(c)
  BY <1>22 DEF ParkNothingToDo, ReturnUnlocked, Goes
<1>23. CASE ParkClaim(c)
  BY <1>23 DEF ParkClaim, Goes
<1>24. CASE ParkSpawn(c)
  BY <1>24 DEF ParkSpawn, ReturnUnlocked, Goes
<1>25. CASE Unpark(c)
  BY <1>25 DEF Unpark, Call
<1>26. CASE CallClearErrors(c)
  BY <1>26 DEF CallClearErrors, Call
<1>27. CASE ClearDrives(c)
  BY <1>27 DEF ClearDrives, Goes
<1>28. CASE ClearState(c)
  BY <1>28 DEF ClearState, Goes
<1>29. CASE Home(c)
  BY <1>29 DEF Home, Call
<1>30. CASE EmergencyStop(c)
  BY <1>30 DEF EmergencyStop, Call
<1>31. CASE HaltDrives(c)
  BY <1>31 DEF HaltDrives, Goes
<1>32. CASE ExecuteMeridianFlip(c)
  BY <1>32 DEF ExecuteMeridianFlip, Call
<1>33. QED
  BY <1>1, <1>2, <1>3, <1>4, <1>5, <1>6, <1>7, <1>8, <1>9, <1>10, <1>11, <1>12, <1>13,
     <1>14, <1>15, <1>16, <1>17, <1>18, <1>19, <1>20, <1>21, <1>22, <1>23, <1>24, <1>25,
     <1>26, <1>27, <1>28, <1>29, <1>30, <1>31, <1>32
     DEF ClientStep, LockSteps, StopSteps, SlewCallSteps,
         TrackCallSteps, ParkCallSteps, RecoverySteps

\* Every handler is at a step of the operation it was called for.
THEOREM CallsCorrect == Spec => []CallsInv
<1>1. Init => CallsInv
  BY DEF Init, CallsInv, CallOK
<1>2. TypeOK /\ CallsInv /\ [Next]_vars => CallsInv'
  <2> SUFFICES ASSUME TypeOK, CallsInv, [Next]_vars, NEW d \in Clients PROVE CallOK(d)'
    BY DEF CallsInv
  <2>1. CASE UNCHANGED <<op, pc>>
    BY <2>1 DEF CallsInv, CallOK
  <2>2. CASE \E c \in Clients : ClientStep(c)
    BY <2>2, CallOKStep
  <2>3. QED
    BY <2>1, <2>2, ThreadsLeaveCalls DEF Next
<1>3. QED
  BY <1>1, <1>2, TypeCorrect, PTL DEF Spec

\* A step of one client leaves thread_mutex_ with whoever is joining or moving the mount.
LEMMA LockInvStep ==
  ASSUME TypeOK, CallsInv, LockInv, NEW c \in Clients, ClientStep(c), NEW d \in Clients
  PROVE  (Holding(d) => thread_mutex_ = d)'
<1> USE DEF TypeOK, CallsInv, CallOK, LockInv, Holding, Committed, Movers
<1>1. CASE AcquireThreadMutex(c, "acquire", "join")
  BY NoClientAssumption, <1>1 DEF AcquireThreadMutex, Goes
<1>2. CASE JoinThreads(c, "join", AfterJoin(c))
  BY <1>2 DEF JoinThreads, AfterJoin, Goes
<1>3. CASE AcquireThreadMutex(c, "reacquire", "rejoin")
  BY NoClientAssumption, <1>3 DEF AcquireThreadMutex, Goes
<1>4. CASE JoinThreads(c, "rejoin", "claim")
  BY <1>4 DEF JoinThreads, Goes
<1>5. CASE CallStop(c)
  BY <1>5 DEF CallStop, Call
<1>6. CASE StopFlags(c)
  BY <1>6 DEF StopFlags, Goes
<1>7. CASE StopState(c)
  BY <1>7 DEF StopState, Goes
<1>8. CASE StopMotors(c)
  BY <1>8 DEF StopMotors, Goes
<1>9. CASE CallSlew(c)
  BY <1>9 DEF CallSlew, Call
<1>10. CASE SlewReject(c)
  BY <1>10 DEF SlewReject, ReturnUnlocked, Goes
<1>11. CASE SlewOutOfLimits(c)
  BY <1>11 DEF SlewOutOfLimits, ReturnUnlocked, Goes
<1>12. CASE SlewClaim(c)
  BY <1>12 DEF SlewClaim, Goes
<1>13. CASE SlewCommand(c)
  BY <1>13 DEF SlewCommand, Goes
<1>14. CASE SlewRevert(c)
  BY <1>14 DEF SlewRevert, ReturnUnlocked, Goes
<1>15. CASE SlewSpawn(c)
  BY <1>15 DEF SlewSpawn, ReturnUnlocked, Goes
<1>16. CASE CallTrack(c)
  BY <1>16 DEF CallTrack, Call
<1>17. CASE TrackCheck(c)
  BY <1>17 DEF TrackCheck, Goes
<1>18. CASE TrackReject(c)
  BY <1>18 DEF TrackReject, Goes
<1>19. CASE TrackClaim(c)
  BY <1>19 DEF TrackClaim, Goes
<1>20. CASE TrackSpawn(c)
  BY NoClientAssumption, <1>20 DEF TrackSpawn, Goes
<1>21. CASE CallPark(c)
  BY <1>21 DEF CallPark, Call
<1>22. CASE ParkNothingToDo(c)
  BY <1>22 DEF ParkNothingToDo, ReturnUnlocked, Goes
<1>23. CASE ParkClaim(c)
  BY <1>23 DEF ParkClaim, Goes
<1>24. CASE ParkSpawn(c)
  BY <1>24 DEF ParkSpawn, ReturnUnlocked, Goes
<1>25. CASE Unpark(c)
  BY <1>25 DEF Unpark, Call
<1>26. CASE CallClearErrors(c)
  BY <1>26 DEF CallClearErrors, Call
<1>27. CASE ClearDrives(c)
  BY <1>27 DEF ClearDrives, Goes
<1>28. CASE ClearState(c)
  BY <1>28 DEF ClearState, Goes
<1>29. CASE Home(c)
  BY <1>29 DEF Home, Call
<1>30. CASE EmergencyStop(c)
  BY <1>30 DEF EmergencyStop, Call
<1>31. CASE HaltDrives(c)
  BY <1>31 DEF HaltDrives, Goes
<1>32. CASE ExecuteMeridianFlip(c)
  BY <1>32 DEF ExecuteMeridianFlip, Call
<1>33. QED
  BY <1>1, <1>2, <1>3, <1>4, <1>5, <1>6, <1>7, <1>8, <1>9, <1>10, <1>11, <1>12, <1>13,
     <1>14, <1>15, <1>16, <1>17, <1>18, <1>19, <1>20, <1>21, <1>22, <1>23, <1>24, <1>25,
     <1>26, <1>27, <1>28, <1>29, <1>30, <1>31, <1>32
     DEF ClientStep, LockSteps, StopSteps, SlewCallSteps,
         TrackCallSteps, ParkCallSteps, RecoverySteps

\* thread_mutex_ excludes: two handlers are never both joining, claiming or spawning.
THEOREM LockCorrect == Spec => []LockInv
<1>1. Init => LockInv
  BY DEF Init, LockInv, Holding, Committed
<1>2. TypeOK /\ CallsInv /\ LockInv /\ [Next]_vars => LockInv'
  <2> SUFFICES ASSUME TypeOK, CallsInv, LockInv, [Next]_vars, NEW d \in Clients
               PROVE  (Holding(d) => thread_mutex_ = d)'
    BY DEF LockInv
  <2>1. CASE UNCHANGED <<op, pc, thread_mutex_>>
    BY <2>1 DEF LockInv, Holding, Committed
  <2>2. CASE \E c \in Clients : ClientStep(c)
    BY <2>2, LockInvStep
  <2>3. QED
    BY <2>1, <2>2, ThreadsLeaveCalls DEF Next
<1>3. QED
  BY <1>1, <1>2, TypeCorrect, CallsCorrect, PTL DEF Spec

-----------------------------------------------------------------------------
(* Threads: between a handler's last join and its spawn no thread appears.  *)

\* A handler's step preserves ThreadsInv: the joins found no thread, and only one handler
\* at a time spawns.
LEMMA ThreadsClientStep ==
  ASSUME TypeOK, CallsInv, LockInv, ThreadsInv, Exclusive, NEW c \in Clients, ClientStep(c)
  PROVE  ThreadsInv'
<1> USE DEF TypeOK, CallsInv, CallOK, LockInv, Holding, ThreadsInv, Committed, Exclusive,
   Movers, SlewSteps, ParkSteps
<1>1. CASE AcquireThreadMutex(c, "acquire", "join")
  BY <1>1 DEF AcquireThreadMutex, Goes
<1>2. CASE JoinThreads(c, "join", AfterJoin(c))
  BY <1>2 DEF JoinThreads, AfterJoin, Goes, ThreadsFinished
<1>3. CASE AcquireThreadMutex(c, "reacquire", "rejoin")
  BY <1>3 DEF AcquireThreadMutex, Goes
<1>4. CASE JoinThreads(c, "rejoin", "claim")
  BY <1>4 DEF JoinThreads, Goes, ThreadsFinished
<1>5. CASE CallStop(c)
  BY <1>5 DEF CallStop, Call
<1>6. CASE StopFlags(c)
  BY <1>6 DEF StopFlags, Goes
<1>7. CASE StopState(c)
  BY <1>7 DEF StopState, Goes
<1>8. CASE StopMotors(c)
  BY <1>8 DEF StopMotors, Goes
<1>9. CASE CallSlew(c)
  BY <1>9 DEF CallSlew, Call
<1>10. CASE SlewReject(c)
  BY <1>10 DEF SlewReject, ReturnUnlocked, Goes
<1>11. CASE SlewOutOfLimits(c)
  BY <1>11 DEF SlewOutOfLimits, ReturnUnlocked, Goes
<1>12. CASE SlewClaim(c)
  BY <1>12 DEF SlewClaim, Goes
<1>13. CASE SlewCommand(c)
  BY <1>13 DEF SlewCommand, Goes
<1>14. CASE SlewRevert(c)
  BY <1>14 DEF SlewRevert, ReturnUnlocked, Goes
<1>15. CASE SlewSpawn(c)
  BY NoClientAssumption, <1>15 DEF SlewSpawn, ReturnUnlocked, Goes
<1>16. CASE CallTrack(c)
  BY <1>16 DEF CallTrack, Call
<1>17. CASE TrackCheck(c)
  BY <1>17 DEF TrackCheck, Goes
<1>18. CASE TrackReject(c)
  BY <1>18 DEF TrackReject, Goes
<1>19. CASE TrackClaim(c)
  BY <1>19 DEF TrackClaim, Goes
<1>20. CASE TrackSpawn(c)
  BY NoClientAssumption, <1>20 DEF TrackSpawn, Goes
<1>21. CASE CallPark(c)
  BY <1>21 DEF CallPark, Call
<1>22. CASE ParkNothingToDo(c)
  BY <1>22 DEF ParkNothingToDo, ReturnUnlocked, Goes
<1>23. CASE ParkClaim(c)
  BY <1>23 DEF ParkClaim, Goes
<1>24. CASE ParkSpawn(c)
  BY NoClientAssumption, <1>24 DEF ParkSpawn, ReturnUnlocked, Goes
<1>25. CASE Unpark(c)
  BY <1>25 DEF Unpark, Call
<1>26. CASE CallClearErrors(c)
  BY <1>26 DEF CallClearErrors, Call
<1>27. CASE ClearDrives(c)
  BY <1>27 DEF ClearDrives, Goes
<1>28. CASE ClearState(c)
  BY <1>28 DEF ClearState, Goes
<1>29. CASE Home(c)
  BY <1>29 DEF Home, Call
<1>30. CASE EmergencyStop(c)
  BY <1>30 DEF EmergencyStop, Call
<1>31. CASE HaltDrives(c)
  BY <1>31 DEF HaltDrives, Goes
<1>32. CASE ExecuteMeridianFlip(c)
  BY <1>32 DEF ExecuteMeridianFlip, Call
<1>33. QED
  BY <1>1, <1>2, <1>3, <1>4, <1>5, <1>6, <1>7, <1>8, <1>9, <1>10, <1>11, <1>12, <1>13,
     <1>14, <1>15, <1>16, <1>17, <1>18, <1>19, <1>20, <1>21, <1>22, <1>23, <1>24, <1>25,
     <1>26, <1>27, <1>28, <1>29, <1>30, <1>31, <1>32
     DEF ClientStep, LockSteps, StopSteps, SlewCallSteps,
         TrackCallSteps, ParkCallSteps, RecoverySteps

\* The threads themselves preserve ThreadsInv: none of them starts another.
LEMMA ThreadsThreadStep ==
  ASSUME TypeOK, ThreadsInv,
         Work \/ Writer \/ \E a \in Axes : DriveStarts(a) \/ DriveArrives(a)
  PROVE  ThreadsInv'
<1> USE DEF TypeOK, ThreadsInv, Committed, SlewSteps, ParkSteps
<1>1. CASE SlewCheck
  BY <1>1 DEF SlewCheck, WorkGoes
<1>2. CASE SlewPollAgain
  BY <1>2 DEF SlewPollAgain, WorkGoes
<1>3. CASE SlewPollTimeout
  BY <1>3 DEF SlewPollTimeout, WorkGoes
<1>4. CASE SlewPollReached
  BY <1>4 DEF SlewPollReached, WorkGoes
<1>5. CASE SlewReissue
  BY <1>5 DEF SlewReissue, WorkGoes
<1>6. CASE SlewTimedOut
  BY <1>6 DEF SlewTimedOut, WorkGoes
<1>7. CASE SlewHalt
  BY <1>7 DEF SlewHalt, WorkGoes
<1>8. CASE SlewReached
  BY <1>8 DEF SlewReached, WorkGoes
<1>9. CASE TrackWhile
  BY <1>9 DEF TrackWhile, WorkGoes
<1>10. CASE TrackLeave
  BY <1>10 DEF TrackLeave, WorkGoes
<1>11. CASE TrackError
  BY <1>11 DEF TrackError, WorkGoes
<1>12. CASE TrackIterate
  BY <1>12 DEF TrackIterate, WorkGoes
<1>13. CASE TrackFault
  BY <1>13 DEF TrackFault, WorkGoes
<1>14. CASE TrackPublish
  BY <1>14 DEF TrackPublish, WorkGoes
<1>15. CASE TrackDesync
  BY <1>15 DEF TrackDesync, WorkGoes
<1>16. CASE TrackDesyncError
  BY <1>16 DEF TrackDesyncError, WorkGoes
<1>17. CASE TrackExit
  BY <1>17 DEF TrackExit, WorkGoes
<1>18. CASE TrackHalt
  BY <1>18 DEF TrackHalt, WorkGoes
<1>19. CASE TrackFinal
  BY <1>19 DEF TrackFinal, WorkGoes
<1>20. CASE ParkStart
  BY <1>20 DEF ParkStart, WorkGoes
<1>21. CASE ParkFail
  BY <1>21 DEF ParkFail, WorkGoes
<1>22. CASE ParkCheck
  BY <1>22 DEF ParkCheck, WorkGoes
<1>23. CASE ParkPollAgain
  BY <1>23 DEF ParkPollAgain, WorkGoes
<1>24. CASE ParkPollReached
  BY <1>24 DEF ParkPollReached, WorkGoes
<1>25. CASE ParkReached
  BY <1>25 DEF ParkReached, WorkGoes
<1>26. CASE ParkTimedOut
  BY <1>26 DEF ParkTimedOut, WorkGoes
<1>27. CASE WriterStop
  BY <1>27 DEF WriterStop
<1>28. CASE WriterRead \/ WriterCheck
  BY <1>28 DEF WriterRead, WriterCheck
<1>29. CASE WriterEmit
  BY <1>29 DEF WriterEmit
<1>30. CASE \E a \in Axes : DriveStarts(a) \/ DriveArrives(a)
  BY <1>30 DEF DriveStarts, DriveArrives
<1>31. QED
  BY <1>1, <1>2, <1>3, <1>4, <1>5, <1>6, <1>7, <1>8, <1>9, <1>10, <1>11, <1>12, <1>13,
     <1>14, <1>15, <1>16, <1>17, <1>18, <1>19, <1>20, <1>21, <1>22, <1>23, <1>24, <1>25,
     <1>26, <1>27, <1>28, <1>29, <1>30
     DEF Work, Writer, SlewMonitor, TrackLoop, ParkMonitor

\* A handler that is about to spawn its thread finds none running, and none appears
\* meanwhile.
THEOREM ThreadsCorrect == Spec /\ []Exclusive => []ThreadsInv
<1>1. Init => ThreadsInv
  BY DEF Init, ThreadsInv, Committed, SlewSteps, ParkSteps
<1>2. TypeOK /\ CallsInv /\ LockInv /\ Exclusive /\ ThreadsInv /\ [Next]_vars => ThreadsInv'
  <2> SUFFICES ASSUME TypeOK, CallsInv, LockInv, Exclusive, ThreadsInv, [Next]_vars
               PROVE  ThreadsInv'
    OBVIOUS
  <2>1. CASE UNCHANGED vars
    BY <2>1 DEF ThreadsInv, Committed
  <2>2. CASE \E c \in Clients : ClientStep(c)
    BY <2>2, ThreadsClientStep
  <2>3. CASE Work \/ Writer \/ \E a \in Axes : DriveStarts(a) \/ DriveArrives(a)
    BY <2>3, ThreadsThreadStep
  <2>4. QED
    BY <2>1, <2>2, <2>3 DEF Next
<1>3. QED
  BY <1>1, <1>2, TypeCorrect, CallsCorrect, LockCorrect, PTL DEF Spec

\* A sole mover is alone past its joins.
LEMMA SoleMoverExcludes ==
  ASSUME SoleMover
  PROVE  Spec => []Exclusive
<1>1. CallsInv => Exclusive
  <2> SUFFICES ASSUME CallsInv, NEW c \in Clients, NEW d \in Clients, c # d,
                      op[c] = "track", Committed(c), Committed(d)
               PROVE  FALSE
    BY DEF Exclusive
  <2>1. "track" \in Ops[c] /\ op[d] \in Ops[d] \cap Movers
    BY DEF CallsInv, CallOK, Committed, Movers
  <2>2. QED
    BY <2>1 DEF SoleMover
<1>2. QED
  BY <1>1, CallsCorrect, PTL

\* Only the spawn of startTracking() assigns a std::thread that it has not joined.
LEMMA OnlyTrackSpawnTerminates ==
  ASSUME [Next]_vars
  PROVE  UNCHANGED terminated \/ \E c \in Clients : TrackSpawn(c)
<1>1. ASSUME NEW c \in Clients, ClientStep(c)
      PROVE  UNCHANGED terminated \/ TrackSpawn(c)
  BY <1>1 DEF ClientStep, LockSteps, StopSteps, SlewCallSteps, TrackCallSteps,
     ParkCallSteps, RecoverySteps, AcquireThreadMutex, CallClearErrors, CallPark, CallSlew,
     CallStop, CallTrack, ClearDrives, ClearState, EmergencyStop, ExecuteMeridianFlip,
     HaltDrives, Home, JoinThreads, ParkClaim, ParkNothingToDo, ParkSpawn, SlewClaim,
     SlewCommand, SlewOutOfLimits, SlewReject, SlewRevert, SlewSpawn, StopFlags, StopMotors,
     StopState, TrackCheck, TrackClaim, TrackReject, Unpark
<1>2. CASE Work
  BY <1>2 DEF Work, SlewMonitor, TrackLoop, ParkMonitor, SlewCheck, SlewPollAgain,
     SlewPollTimeout, SlewPollReached, SlewReissue, SlewTimedOut, SlewHalt, SlewReached,
     TrackWhile, TrackLeave, TrackError, TrackIterate, TrackFault, TrackPublish,
     TrackDesync, TrackDesyncError, TrackExit, TrackHalt, TrackFinal, ParkStart, ParkFail,
     ParkCheck, ParkPollAgain, ParkPollReached, ParkReached, ParkTimedOut
<1>3. CASE Writer \/ \E a \in Axes : DriveStarts(a) \/ DriveArrives(a)
  BY <1>3 DEF Writer, WriterStop, WriterRead, WriterCheck, WriterEmit, DriveStarts,
     DriveArrives
<1>4. QED
  BY <1>1, <1>2, <1>3 DEF Next

\* Nobody assigns over a thread when the calls exclude each other past their joins.
LEMMA NoTerminateCorrect == Spec /\ []Exclusive => []NoTerminate
<1>1. Init => NoTerminate
  BY DEF Init, NoTerminate
<1>2. TypeOK /\ CallsInv /\ ThreadsInv /\ NoTerminate /\ [Next]_vars => NoTerminate'
  <2> SUFFICES ASSUME TypeOK, CallsInv, ThreadsInv, NoTerminate, [Next]_vars
               PROVE  NoTerminate'
    OBVIOUS
  <2>1. CASE UNCHANGED terminated
    BY <2>1 DEF NoTerminate
  <2>2. ASSUME NEW c \in Clients, TrackSpawn(c) PROVE NoTerminate'
    BY <2>2 DEF TrackSpawn, Goes, NoTerminate, ThreadsInv, Committed
  <2>3. QED
    BY <2>1, <2>2, OnlyTrackSpawnTerminates
<1>3. QED
  BY <1>1, <1>2, TypeCorrect, CallsCorrect, ThreadsCorrect, PTL DEF Spec

\* startTracking() never assigns over a live std::thread, when one client moves the mount.
THEOREM NeverTerminates ==
  ASSUME SoleMover
  PROVE  Spec => []NoTerminate
BY SoleMoverExcludes, NoTerminateCorrect, PTL

-----------------------------------------------------------------------------
(* Supervision: a moving state has its thread, or a handler that starts it  *)
(* or leaves the state.                                                     *)

\* A handler's step leaves no moving state without its thread or a handler in charge.
LEMMA SupervisedClientStep ==
  ASSUME TypeOK, CallsInv, LockInv, ThreadsInv, LeavingInv, Supervised, NEW c \in Clients,
         ClientStep(c)
  PROVE  Supervised' /\ LeavingInv'
<1> USE DEF TypeOK, CallsInv, CallOK, ThreadsInv, Committed, Movers, SlewSteps, ParkSteps,
   TrackSteps, Supervised, LeavingInv, Tracking, Claiming, Stopping
<1>1. CASE AcquireThreadMutex(c, "acquire", "join")
  BY <1>1 DEF AcquireThreadMutex, Goes
<1>2. CASE JoinThreads(c, "join", AfterJoin(c))
  BY <1>2 DEF JoinThreads, AfterJoin, Goes, ThreadsFinished
<1>3. CASE AcquireThreadMutex(c, "reacquire", "rejoin")
  BY <1>3 DEF AcquireThreadMutex, Goes
<1>4. CASE JoinThreads(c, "rejoin", "claim")
  BY <1>4 DEF JoinThreads, Goes, ThreadsFinished
<1>5. CASE CallStop(c)
  BY <1>5 DEF CallStop, Call
<1>6. CASE StopFlags(c)
  BY <1>6 DEF StopFlags, Goes
<1>7. CASE StopState(c)
  BY <1>7 DEF StopState, Goes
<1>8. CASE StopMotors(c)
  BY <1>8 DEF StopMotors, Goes
<1>9. CASE CallSlew(c)
  BY <1>9 DEF CallSlew, Call
<1>10. CASE SlewReject(c)
  BY <1>10 DEF SlewReject, ReturnUnlocked, Goes
<1>11. CASE SlewOutOfLimits(c)
  BY <1>11 DEF SlewOutOfLimits, ReturnUnlocked, Goes
<1>12. CASE SlewClaim(c)
  BY <1>12 DEF SlewClaim, Goes
<1>13. CASE SlewCommand(c)
  BY <1>13 DEF SlewCommand, Goes
<1>14. CASE SlewRevert(c)
  BY <1>14 DEF SlewRevert, ReturnUnlocked, Goes
<1>15. CASE SlewSpawn(c)
  BY <1>15 DEF SlewSpawn, ReturnUnlocked, Goes
<1>16. CASE CallTrack(c)
  BY <1>16 DEF CallTrack, Call
<1>17. CASE TrackCheck(c)
  BY <1>17 DEF TrackCheck, Goes, NotTrackable
<1>18. CASE TrackReject(c)
  BY <1>18 DEF TrackReject, Goes
<1>19. CASE TrackClaim(c)
  BY <1>19 DEF TrackClaim, Goes, NotTrackable
<1>20. CASE TrackSpawn(c)
  BY <1>20 DEF TrackSpawn, Goes
<1>21. CASE CallPark(c)
  BY <1>21 DEF CallPark, Call
<1>22. CASE ParkNothingToDo(c)
  BY <1>22 DEF ParkNothingToDo, ReturnUnlocked, Goes
<1>23. CASE ParkClaim(c)
  BY <1>23 DEF ParkClaim, Goes
<1>24. CASE ParkSpawn(c)
  BY <1>24 DEF ParkSpawn, ReturnUnlocked, Goes
<1>25. CASE Unpark(c)
  BY <1>25 DEF Unpark, Call
<1>26. CASE CallClearErrors(c)
  BY <1>26 DEF CallClearErrors, Call
<1>27. CASE ClearDrives(c)
  BY <1>27 DEF ClearDrives, Goes
<1>28. CASE ClearState(c)
  BY <1>28 DEF ClearState, Goes
<1>29. CASE Home(c)
  BY <1>29 DEF Home, Call
<1>30. CASE EmergencyStop(c)
  BY <1>30 DEF EmergencyStop, Call
<1>31. CASE HaltDrives(c)
  BY <1>31 DEF HaltDrives, Goes
<1>32. CASE ExecuteMeridianFlip(c)
  BY <1>32 DEF ExecuteMeridianFlip, Call
<1>33. QED
  BY <1>1, <1>2, <1>3, <1>4, <1>5, <1>6, <1>7, <1>8, <1>9, <1>10, <1>11, <1>12, <1>13,
     <1>14, <1>15, <1>16, <1>17, <1>18, <1>19, <1>20, <1>21, <1>22, <1>23, <1>24, <1>25,
     <1>26, <1>27, <1>28, <1>29, <1>30, <1>31, <1>32
     DEF ClientStep, LockSteps, StopSteps, SlewCallSteps,
         TrackCallSteps, ParkCallSteps, RecoverySteps

\* A thread leaves its moving state before it ends, or after a handler has taken charge.
LEMMA SupervisedThreadStep ==
  ASSUME TypeOK, ThreadsInv, LeavingInv, Supervised,
         Work \/ Writer \/ \E a \in Axes : DriveStarts(a) \/ DriveArrives(a)
  PROVE  Supervised' /\ LeavingInv'
<1> USE DEF TypeOK, ThreadsInv, Committed, SlewSteps, ParkSteps, TrackSteps, Supervised,
   LeavingInv, Tracking, Claiming, Stopping
<1>1. CASE SlewCheck
  BY <1>1 DEF SlewCheck, WorkGoes
<1>2. CASE SlewPollAgain
  BY <1>2 DEF SlewPollAgain, WorkGoes
<1>3. CASE SlewPollTimeout
  BY <1>3 DEF SlewPollTimeout, WorkGoes
<1>4. CASE SlewPollReached
  BY <1>4 DEF SlewPollReached, WorkGoes
<1>5. CASE SlewReissue
  BY <1>5 DEF SlewReissue, WorkGoes
<1>6. CASE SlewTimedOut
  BY <1>6 DEF SlewTimedOut, WorkGoes
<1>7. CASE SlewHalt
  BY <1>7 DEF SlewHalt, WorkGoes
<1>8. CASE SlewReached
  BY <1>8 DEF SlewReached, WorkGoes
<1>9. CASE TrackWhile
  BY <1>9 DEF TrackWhile, WorkGoes
<1>10. CASE TrackLeave
  BY <1>10 DEF TrackLeave, WorkGoes, Trackable
<1>11. CASE TrackError
  BY <1>11 DEF TrackError, WorkGoes, Trackable
<1>12. CASE TrackIterate
  BY <1>12 DEF TrackIterate, WorkGoes, Trackable
<1>13. CASE TrackFault
  BY <1>13 DEF TrackFault, WorkGoes
<1>14. CASE TrackPublish
  BY <1>14 DEF TrackPublish, WorkGoes
<1>15. CASE TrackDesync
  BY <1>15 DEF TrackDesync, WorkGoes
<1>16. CASE TrackDesyncError
  BY <1>16 DEF TrackDesyncError, WorkGoes
<1>17. CASE TrackExit
  BY <1>17 DEF TrackExit, WorkGoes
<1>18. CASE TrackHalt
  BY <1>18 DEF TrackHalt, WorkGoes
<1>19. CASE TrackFinal
  BY <1>19 DEF TrackFinal, WorkGoes
<1>20. CASE ParkStart
  BY <1>20 DEF ParkStart, WorkGoes
<1>21. CASE ParkFail
  BY <1>21 DEF ParkFail, WorkGoes
<1>22. CASE ParkCheck
  BY <1>22 DEF ParkCheck, WorkGoes
<1>23. CASE ParkPollAgain
  BY <1>23 DEF ParkPollAgain, WorkGoes
<1>24. CASE ParkPollReached
  BY <1>24 DEF ParkPollReached, WorkGoes
<1>25. CASE ParkReached
  BY <1>25 DEF ParkReached, WorkGoes
<1>26. CASE ParkTimedOut
  BY <1>26 DEF ParkTimedOut, WorkGoes
<1>27. CASE WriterStop
  BY <1>27 DEF WriterStop
<1>28. CASE WriterRead \/ WriterCheck
  BY <1>28 DEF WriterRead, WriterCheck
<1>29. CASE WriterEmit
  BY <1>29 DEF WriterEmit
<1>30. CASE \E a \in Axes : DriveStarts(a) \/ DriveArrives(a)
  BY <1>30 DEF DriveStarts, DriveArrives
<1>31. QED
  BY <1>1, <1>2, <1>3, <1>4, <1>5, <1>6, <1>7, <1>8, <1>9, <1>10, <1>11, <1>12, <1>13,
     <1>14, <1>15, <1>16, <1>17, <1>18, <1>19, <1>20, <1>21, <1>22, <1>23, <1>24, <1>25,
     <1>26, <1>27, <1>28, <1>29, <1>30
     DEF Work, Writer, SlewMonitor, TrackLoop, ParkMonitor

\* A moving state is supervised, and one whose session is ending is being left.
LEMMA LeavingCorrect == Spec /\ []Exclusive => [](Supervised /\ LeavingInv)
<1>1. Init => Supervised /\ LeavingInv
  BY DEF Init, Supervised, LeavingInv, Tracking
<1>2. TypeOK /\ CallsInv /\ LockInv /\ ThreadsInv /\ (Supervised /\ LeavingInv) /\ [Next]_vars
        => (Supervised /\ LeavingInv)'
  <2> SUFFICES ASSUME TypeOK, CallsInv, LockInv, ThreadsInv, Supervised, LeavingInv,
                      [Next]_vars
               PROVE  Supervised' /\ LeavingInv'
    OBVIOUS
  <2>1. CASE UNCHANGED vars
    BY <2>1 DEF Supervised, LeavingInv, Tracking, Claiming, Stopping
  <2>2. CASE \E c \in Clients : ClientStep(c)
    BY <2>2, SupervisedClientStep
  <2>3. CASE Work \/ Writer \/ \E a \in Axes : DriveStarts(a) \/ DriveArrives(a)
    BY <2>3, SupervisedThreadStep
  <2>4. QED
    BY <2>1, <2>2, <2>3 DEF Next
<1>3. QED
  BY <1>1, <1>2, TypeCorrect, CallsCorrect, LockCorrect, ThreadsCorrect, PTL DEF Spec

\* Every moving state is supervised: SLEWING, PARKING and TRACKING are never left
\* to themselves, when one client moves the mount.
THEOREM AlwaysSupervised ==
  ASSUME SoleMover
  PROVE  Spec => []Supervised
BY SoleMoverExcludes, LeavingCorrect, PTL

-----------------------------------------------------------------------------
(* ERROR: the thread that enters it stops the drives before it ends.        *)

\* What the handlers do to the writer and its command.
LEMMA ClientsAndWriter ==
  ASSUME NEW c \in Clients, ClientStep(c)
  PROVE  \/ UNCHANGED <<cmdVars, writerVars>>
         \/ \E from, to \in ClientSteps : JoinThreads(c, from, to)
         \/ TrackClaim(c) \/ TrackSpawn(c) \/ EmergencyStop(c)
<1>1. CASE LockSteps(c)
  <2>1. AfterJoin(c) \in ClientSteps
    BY DEF AfterJoin, ClientSteps
  <2>2. QED
    BY <1>1, <2>1 DEF LockSteps, AcquireThreadMutex, ClientSteps
<1>2. CASE StopSteps(c)
  BY <1>2 DEF StopSteps, CallStop, StopFlags, StopState, StopMotors
<1>3. CASE SlewCallSteps(c)
  BY <1>3 DEF SlewCallSteps, CallSlew, SlewReject, SlewOutOfLimits, SlewClaim, SlewCommand,
     SlewRevert, SlewSpawn
<1>4. CASE TrackCallSteps(c)
  BY <1>4 DEF TrackCallSteps, CallTrack, TrackCheck, TrackReject
<1>5. CASE ParkCallSteps(c)
  BY <1>5 DEF ParkCallSteps, CallPark, ParkNothingToDo, ParkClaim, ParkSpawn, Unpark
<1>6. CASE RecoverySteps(c)
  BY <1>6 DEF RecoverySteps, CallClearErrors, ClearDrives, ClearState, Home, HaltDrives,
     ExecuteMeridianFlip
<1>7. QED
  BY <1>1, <1>2, <1>3, <1>4, <1>5, <1>6 DEF ClientStep

\* A handler's step leaves the latch alone, or comes when the writer has ended.
LEMMA LatchClientStep ==
  ASSUME TypeOK, CallsInv, ThreadsInv, LatchInv, NEW c \in Clients, ClientStep(c)
  PROVE  LatchInv'
<1> USE DEF LatchInv, TypeOK
<1>1. CASE UNCHANGED <<cmdVars, writerVars>>
  BY <1>1
<1>2. ASSUME NEW from, NEW to, JoinThreads(c, from, to) PROVE LatchInv'
  BY <1>2 DEF JoinThreads
<1>3. CASE TrackClaim(c)
  BY <1>3 DEF TrackClaim, Goes, ThreadsInv, Committed
<1>4. CASE TrackSpawn(c)
  BY <1>4 DEF TrackSpawn
<1>5. CASE EmergencyStop(c)
  BY <1>5 DEF EmergencyStop
<1>6. QED
  BY <1>1, <1>2, <1>3, <1>4, <1>5, ClientsAndWriter

\* The background thread never withdraws a latched stop.
LEMMA LatchThreadStep ==
  ASSUME TypeOK, LatchInv,
         Work \/ Writer \/ \E a \in Axes : DriveStarts(a) \/ DriveArrives(a)
  PROVE  LatchInv'
<1> USE DEF LatchInv, TypeOK
<1>1. CASE SlewMonitor
  BY <1>1 DEF SlewMonitor, SlewCheck, SlewPollAgain, SlewPollTimeout, SlewPollReached,
     SlewReissue, SlewTimedOut, SlewHalt, SlewReached
<1>2. CASE TrackLoop
  BY <1>2 DEF TrackLoop, TrackWhile, TrackLeave, TrackError, TrackIterate, TrackFault,
     TrackPublish, TrackDesync, TrackDesyncError, TrackExit, TrackHalt, TrackFinal
<1>3. CASE ParkMonitor
  BY <1>3 DEF ParkMonitor, ParkStart, ParkFail, ParkCheck, ParkPollAgain, ParkPollReached,
     ParkReached, ParkTimedOut
<1>4. CASE WriterStop
  BY <1>4 DEF WriterStop, IoRuns
<1>5. CASE WriterRead \/ WriterCheck
  BY <1>5 DEF WriterRead, WriterCheck
<1>6. CASE WriterEmit
  BY <1>6 DEF WriterEmit
<1>7. ASSUME NEW a \in Axes, DriveStarts(a) \/ DriveArrives(a) PROVE LatchInv'
  BY <1>7 DEF DriveStarts, DriveArrives
<1>8. QED
  BY <1>1, <1>2, <1>3, <1>4, <1>5, <1>6, <1>7 DEF Work, Writer

\* A writer that has seen the latched stop emits nothing more in its session.
THEOREM LatchCorrect == Spec /\ []Exclusive => []LatchInv
<1>1. Init => LatchInv
  BY DEF Init, LatchInv
<1>2. TypeOK /\ CallsInv /\ ThreadsInv /\ LatchInv /\ [Next]_vars => LatchInv'
  <2> SUFFICES ASSUME TypeOK, CallsInv, ThreadsInv, LatchInv, [Next]_vars PROVE LatchInv'
    OBVIOUS
  <2>1. CASE UNCHANGED vars
    BY <2>1 DEF LatchInv
  <2>2. CASE \E c \in Clients : ClientStep(c)
    BY <2>2, LatchClientStep
  <2>3. CASE Work \/ Writer \/ \E a \in Axes : DriveStarts(a) \/ DriveArrives(a)
    BY <2>3, LatchThreadStep
  <2>4. QED
    BY <2>1, <2>2, <2>3 DEF Next
<1>3. QED
  BY <1>1, <1>2, TypeCorrect, CallsCorrect, ThreadsCorrect, PTL DEF Spec

\* A handler's step preserves ErrorInv: it halts, disables or recovers.
LEMMA ErrorClientStep ==
  ASSUME TypeOK, CallsInv, LockInv, ThreadsInv, ErrorInv, NEW c \in Clients, ClientStep(c)
  PROVE  ErrorInv'
<1> USE DEF TypeOK, CallsInv, CallOK, Movers, ThreadsInv, Committed, ErrorInv, AllStill,
   Moving
<1>1. CASE AcquireThreadMutex(c, "acquire", "join")
  BY <1>1 DEF AcquireThreadMutex, Goes
<1>2. CASE JoinThreads(c, "join", AfterJoin(c))
  BY <1>2 DEF JoinThreads, AfterJoin, Goes, ThreadsFinished
<1>3. CASE AcquireThreadMutex(c, "reacquire", "rejoin")
  BY <1>3 DEF AcquireThreadMutex, Goes
<1>4. CASE JoinThreads(c, "rejoin", "claim")
  BY <1>4 DEF JoinThreads, Goes, ThreadsFinished
<1>5. CASE CallStop(c)
  BY <1>5 DEF CallStop, Call
<1>6. CASE StopFlags(c)
  BY <1>6 DEF StopFlags, Goes
<1>7. CASE StopState(c)
  BY <1>7 DEF StopState, Goes
<1>8. CASE StopMotors(c)
  BY <1>8 DEF StopMotors, Goes, Halted
<1>9. CASE CallSlew(c)
  BY <1>9 DEF CallSlew, Call
<1>10. CASE SlewReject(c)
  BY <1>10 DEF SlewReject, ReturnUnlocked, Goes
<1>11. CASE SlewOutOfLimits(c)
  BY <1>11 DEF SlewOutOfLimits, ReturnUnlocked, Goes
<1>12. CASE SlewClaim(c)
  BY <1>12 DEF SlewClaim, Goes
<1>13. CASE SlewCommand(c)
  BY <1>13 DEF SlewCommand, Goes
<1>14. CASE SlewRevert(c)
  BY <1>14 DEF SlewRevert, ReturnUnlocked, Goes
<1>15. CASE SlewSpawn(c)
  BY <1>15 DEF SlewSpawn, ReturnUnlocked, Goes
<1>16. CASE CallTrack(c)
  BY <1>16 DEF CallTrack, Call
<1>17. CASE TrackCheck(c)
  BY <1>17 DEF TrackCheck, Goes, NotTrackable
<1>18. CASE TrackReject(c)
  BY <1>18 DEF TrackReject, Goes
<1>19. CASE TrackClaim(c)
  BY <1>19 DEF TrackClaim, Goes, NotTrackable
<1>20. CASE TrackSpawn(c)
  BY <1>20 DEF TrackSpawn, Goes
<1>21. CASE CallPark(c)
  BY <1>21 DEF CallPark, Call
<1>22. CASE ParkNothingToDo(c)
  BY <1>22 DEF ParkNothingToDo, ReturnUnlocked, Goes
<1>23. CASE ParkClaim(c)
  BY <1>23 DEF ParkClaim, Goes
<1>24. CASE ParkSpawn(c)
  BY <1>24 DEF ParkSpawn, ReturnUnlocked, Goes
<1>25. CASE Unpark(c)
  BY <1>25 DEF Unpark, Call
<1>26. CASE CallClearErrors(c)
  BY <1>26 DEF CallClearErrors, Call
<1>27. CASE ClearDrives(c)
  BY <1>27 DEF ClearDrives, Goes, Enabled
<1>28. CASE ClearState(c)
  BY <1>28 DEF ClearState, Goes
<1>29. CASE Home(c)
  BY <1>29 DEF Home, Call
<1>30. CASE EmergencyStop(c)
  BY <1>30 DEF EmergencyStop, Call
<1>31. CASE HaltDrives(c)
  BY <1>31 DEF HaltDrives, Goes, Disabled
<1>32. CASE ExecuteMeridianFlip(c)
  BY <1>32 DEF ExecuteMeridianFlip, Call
<1>33. QED
  BY <1>1, <1>2, <1>3, <1>4, <1>5, <1>6, <1>7, <1>8, <1>9, <1>10, <1>11, <1>12, <1>13,
     <1>14, <1>15, <1>16, <1>17, <1>18, <1>19, <1>20, <1>21, <1>22, <1>23, <1>24, <1>25,
     <1>26, <1>27, <1>28, <1>29, <1>30, <1>31, <1>32
     DEF ClientStep, LockSteps, StopSteps, SlewCallSteps,
         TrackCallSteps, ParkCallSteps, RecoverySteps

\* A thread that enters ERROR goes on to latch the stop and halt the drives.
LEMMA ErrorThreadStep ==
  ASSUME TypeOK, ThreadsInv, LatchInv, ErrorInv,
         Work \/ Writer \/ \E a \in Axes : DriveStarts(a) \/ DriveArrives(a)
  PROVE  ErrorInv'
<1> USE DEF TypeOK, ThreadsInv, Committed, LatchInv, ErrorInv, AllStill, Moving, SlewSteps,
   ParkSteps
<1>1. CASE SlewCheck
  BY <1>1 DEF SlewCheck, WorkGoes
<1>2. CASE SlewPollAgain
  BY <1>2 DEF SlewPollAgain, WorkGoes
<1>3. CASE SlewPollTimeout
  BY <1>3 DEF SlewPollTimeout, WorkGoes
<1>4. CASE SlewPollReached
  BY <1>4 DEF SlewPollReached, WorkGoes
<1>5. CASE SlewReissue
  BY <1>5 DEF SlewReissue, WorkGoes
<1>6. CASE SlewTimedOut
  BY <1>6 DEF SlewTimedOut, WorkGoes
<1>7. CASE SlewHalt
  BY <1>7 DEF SlewHalt, WorkGoes, Halted
<1>8. CASE SlewReached
  BY <1>8 DEF SlewReached, WorkGoes
<1>9. CASE TrackWhile
  BY <1>9 DEF TrackWhile, WorkGoes
<1>10. CASE TrackLeave
  BY <1>10 DEF TrackLeave, WorkGoes
<1>11. CASE TrackError
  BY <1>11 DEF TrackError, WorkGoes
<1>12. CASE TrackIterate
  BY <1>12 DEF TrackIterate, WorkGoes
<1>13. CASE TrackFault
  BY <1>13 DEF TrackFault, WorkGoes
<1>14. CASE TrackPublish
  BY <1>14 DEF TrackPublish, WorkGoes
<1>15. CASE TrackDesync
  BY <1>15 DEF TrackDesync, WorkGoes
<1>16. CASE TrackDesyncError
  BY <1>16 DEF TrackDesyncError, WorkGoes
<1>17. CASE TrackExit
  BY <1>17 DEF TrackExit, WorkGoes
<1>18. CASE TrackHalt
  BY <1>18 DEF TrackHalt, WorkGoes, Halted
<1>19. CASE TrackFinal
  BY <1>19 DEF TrackFinal, WorkGoes
<1>20. CASE ParkStart
  BY <1>20 DEF ParkStart, WorkGoes
<1>21. CASE ParkFail
  BY <1>21 DEF ParkFail, WorkGoes
<1>22. CASE ParkCheck
  BY <1>22 DEF ParkCheck, WorkGoes
<1>23. CASE ParkPollAgain
  BY <1>23 DEF ParkPollAgain, WorkGoes
<1>24. CASE ParkPollReached
  BY <1>24 DEF ParkPollReached, WorkGoes
<1>25. CASE ParkReached
  BY <1>25 DEF ParkReached, WorkGoes
<1>26. CASE ParkTimedOut
  BY <1>26 DEF ParkTimedOut, WorkGoes
<1>27. CASE WriterStop
  BY <1>27 DEF WriterStop, Halted, IoRuns
<1>28. CASE WriterRead \/ WriterCheck
  BY <1>28 DEF WriterRead, WriterCheck
<1>29. CASE WriterEmit
  BY <1>29 DEF WriterEmit
<1>30. CASE \E a \in Axes : DriveStarts(a) \/ DriveArrives(a)
  BY <1>30 DEF DriveStarts, DriveArrives
<1>31. QED
  BY <1>1, <1>2, <1>3, <1>4, <1>5, <1>6, <1>7, <1>8, <1>9, <1>10, <1>11, <1>12, <1>13,
     <1>14, <1>15, <1>16, <1>17, <1>18, <1>19, <1>20, <1>21, <1>22, <1>23, <1>24, <1>25,
     <1>26, <1>27, <1>28, <1>29, <1>30
     DEF Work, Writer, SlewMonitor, TrackLoop, ParkMonitor

\* Whoever enters ERROR halts the drives, or leaves the latched stop to a live writer.
THEOREM ErrorCorrect == Spec /\ []Exclusive => []ErrorInv
<1>1. Init => ErrorInv
  BY DEF Init, ErrorInv
<1>2. TypeOK /\ CallsInv /\ LockInv /\ ThreadsInv /\ LatchInv /\ ErrorInv /\ [Next]_vars
       => ErrorInv'
  <2> SUFFICES ASSUME TypeOK, CallsInv, LockInv, ThreadsInv, LatchInv, ErrorInv, [Next]_vars
               PROVE  ErrorInv'
    OBVIOUS
  <2>1. CASE UNCHANGED vars
    BY <2>1 DEF ErrorInv, AllStill, Moving
  <2>2. CASE \E c \in Clients : ClientStep(c)
    BY <2>2, ErrorClientStep
  <2>3. CASE Work \/ Writer \/ \E a \in Axes : DriveStarts(a) \/ DriveArrives(a)
    BY <2>3, ErrorThreadStep
  <2>4. QED
    BY <2>1, <2>2, <2>3 DEF Next
<1>3. QED
  BY <1>1, <1>2, TypeCorrect, CallsCorrect, LockCorrect, ThreadsCorrect, LatchCorrect, PTL
     DEF Spec

\* A controller in ERROR with no thread left moves no drive.
LEMMA ErrorHaltsCorrect == Spec /\ []Exclusive => []ErrorHalts
<1>1. ErrorInv => ErrorHalts
  BY DEF ErrorInv, ErrorHalts, WorkFinished, WriterFinished
<1>2. QED
  BY <1>1, ErrorCorrect, PTL

\* A controller in ERROR with no thread left moves no drive, when one client moves the mount.
THEOREM ErrorAlwaysHalts ==
  ASSUME SoleMover
  PROVE  Spec => []ErrorHalts
BY SoleMoverExcludes, ErrorHaltsCorrect, PTL

-----------------------------------------------------------------------------
(* Rest: with no call in progress and no thread, no drive moves. Nobody but  *)
(* the client that moves the mount clears its errors, and the drives refuse  *)
(* no command; they may report a target that they have not reached.          *)

SoleOperator ==
  \A c, d \in Clients :
    c # d /\ Ops[c] \cap Movers # {} => Ops[d] \cap (Movers \cup {"clearErrors"}) = {}

NeverHome == \A c \in Clients : "home" \notin Ops[c]

CalmEnv == Env \cap {"axisFailure", "outOfLimits", "parkStall"} = {}

\* Both drives are disabled, or neither is: a healthy pair refuses no command.
PairInv == drive[1] = "off" <=> drive[2] = "off"

\* clearErrors() touches the drives and the state when no thread runs.
RecoverInv ==
  \A c \in Clients : pc[c] \in {"clearDrives", "clearState"} => WorkFinished /\ WriterFinished

\* A slew monitor that has seen the target reached is still right when it acts upon it.
ArrivedInv == work_thread_ = "slewReached" => AllStill

\* A parked mount has no thread, and nobody is about to start one or to command its drives.
ParkedInv ==
  state_ = "PARKED" =>
    /\ AllStill
    /\ WorkFinished /\ WriterFinished
    /\ \A c \in Clients : pc[c] \notin {"command", "spawn"}

\* A park neither fails nor times out.
ParkInv == work_thread_ \notin {"parkFail", "parkTimedOut"}

\* Client c is about to join the threads of a stop(), and to halt the drives after that.
Joining(c) == op[c] \in {"stop", "track"} /\ pc[c] \in {"acquire", "join"}

Halting(c) == Joining(c) \/ pc[c] \in {"stopFlags", "stopState", "stopMotors"}

SoonStill == AllStill \/ \E c \in Clients : pc[c] = "stopMotors"

\* A slew, or a park, whose state was taken away has a client waiting to join its thread.
SlewLostInv ==
  /\ work_thread_ \in SlewSteps \ {"slewHalt"} \/ \E c \in Clients : Claiming(c, "slew")
  /\ state_ # "SLEWING"
  => \E c \in Clients : Joining(c)

ParkLostInv ==
  /\ work_thread_ \in ParkSteps \/ \E c \in Clients : Claiming(c, "park")
  /\ state_ # "PARKING"
  => \E c \in Clients : Joining(c)

MonitorLostInv == SlewLostInv /\ ParkLostInv

\* So has a tracking session, unless its state was gone before its loop was started: then
\* its drives are stopped, and there is nothing for its writer to send.
SpawnInv ==
  \A c \in Clients :
    op[c] = "track" /\ pc[c] = "spawn" =>
      /\ ~published_
      /\ Tracking \/ SoonStill \/ \E d \in Clients : Joining(d)

Doomed ==
  /\ SoonStill
  /\ ~published_ /\ io_writer_thread_ # "emit"
  /\ work_thread_ \in {"trackWhile", "trackLocked", "trackUnsafe", "trackExit", "trackFinal",
                       "done"}

TrackLostInv ==
  (work_thread_ \in TrackSteps \/ ~WriterFinished) /\ ~Tracking /\ state_ # "ERROR" =>
    Doomed \/ \E c \in Clients : Joining(c)

SessionLostInv == SpawnInv /\ TrackLostInv

\* A client that will halt the drives, hand them to a thread or, moving the mount out of
\* a tracking state, command them anew.
Settling(c) ==
  \/ Halting(c)
  \/ pc[c] \in {"command", "spawn"}
  \/ op[c] \in {"slew", "park"} /\ pc[c] \in {"join", "claim"} /\ Tracking

RestInv ==
  WorkFinished /\ WriterFinished => AllStill \/ \E c \in Clients : Settling(c)

\* A sole operator is a sole mover.
LEMMA OperatorMoves == SoleOperator => SoleMover
<1> SUFFICES ASSUME SoleOperator, NEW c \in Clients, NEW d \in Clients, c # d,
                    "track" \in Ops[c]
             PROVE  Ops[d] \cap Movers = {}
  BY DEF SoleMover
<1>1. Ops[c] \cap Movers # {}
  BY DEF Movers
<1>2. Ops[d] \cap (Movers \cup {"clearErrors"}) = {}
  BY <1>1 DEF SoleOperator
<1>3. QED
  BY <1>2

\* What the handlers do to the drives.
LEMMA ClientsAndDrives ==
  ASSUME NEW c \in Clients, ClientStep(c)
  PROVE  \/ drive' \in {drive, Halted, Disabled, Enabled}
         \/ SlewCommand(c) \/ TrackClaim(c)
<1>1. CASE StopMotors(c) \/ ParkClaim(c) \/ ClearDrives(c) \/ HaltDrives(c)
  BY <1>1 DEF StopMotors, ParkClaim, ClearDrives, HaltDrives
<1>2. UNCHANGED drive \/ SlewCommand(c) \/ TrackClaim(c) \/ StopMotors(c) \/ ParkClaim(c)
        \/ ClearDrives(c) \/ HaltDrives(c)
  BY DEF ClientStep, LockSteps, StopSteps, SlewCallSteps, TrackCallSteps,
     ParkCallSteps, RecoverySteps, AcquireThreadMutex, CallClearErrors, CallPark, CallSlew,
     CallStop, CallTrack, ClearState, EmergencyStop, ExecuteMeridianFlip, Home,
     JoinThreads, ParkNothingToDo, ParkSpawn, SlewClaim, SlewOutOfLimits, SlewReject,
     SlewRevert, SlewSpawn, StopFlags, StopState, TrackCheck, TrackReject, TrackSpawn,
     Unpark
<1>3. QED
  BY <1>1, <1>2

\* Every step halts, disables or enables the drives, commands some of them, or lets one
\* of them move on.
LEMMA DriveChanges ==
  ASSUME [Next]_vars
  PROVE  \/ drive' \in {drive, Halted, Disabled, Enabled}
         \/ \E d \in {drive, Enabled} : \E acc \in SUBSET Axes : \E m \in {"starting", "rate"} :
              drive' = Driven(d, acc, m)
         \/ \E a \in Axes : DriveStarts(a) \/ DriveArrives(a)
<1> USE DEF Accepting
<1>1. ASSUME NEW c \in Clients, ClientStep(c)
      PROVE  \/ drive' \in {drive, Halted, Disabled, Enabled}
             \/ \E acc \in SUBSET Axes : \E m \in {"starting", "rate"} :
                  drive' = Driven(drive, acc, m)
  <2>1. CASE SlewCommand(c) \/ TrackClaim(c)
    BY <2>1 DEF SlewCommand, TrackClaim
  <2>2. QED
    BY <1>1, <2>1, ClientsAndDrives
<1>2. CASE SlewMonitor
  <2>1. CASE SlewReissue
    BY <2>1 DEF SlewReissue
  <2>2. QED
    BY <1>2, <2>1 DEF SlewMonitor, SlewCheck, SlewPollAgain, SlewPollTimeout,
       SlewPollReached, SlewTimedOut, SlewHalt, SlewReached
<1>3. CASE TrackLoop
  <2>1. CASE TrackPublish
    BY <2>1 DEF TrackPublish
  <2>2. QED
    BY <1>3, <2>1 DEF TrackLoop, TrackWhile, TrackLeave, TrackError, TrackIterate,
       TrackFault, TrackDesync, TrackDesyncError, TrackExit, TrackHalt, TrackFinal
<1>4. CASE ParkMonitor
  <2>1. CASE ParkStart
    BY <2>1 DEF ParkStart
  <2>2. QED
    BY <1>4, <2>1 DEF ParkMonitor, ParkFail, ParkCheck, ParkPollAgain, ParkPollReached,
       ParkReached, ParkTimedOut
<1>5. CASE Writer
  BY <1>5 DEF Writer, WriterStop, WriterRead, WriterCheck, WriterEmit
<1>6. QED
  BY <1>1, <1>2, <1>3, <1>4, <1>5 DEF Next, Work

\* The drives are enabled and disabled together, whoever calls what.
LEMMA PairCorrect == Spec => []PairInv
<1>1. Init => PairInv
  BY DEF Init, PairInv, Axes
<1>2. TypeOK /\ PairInv /\ [Next]_vars => PairInv'
  <2> SUFFICES ASSUME TypeOK, PairInv, [Next]_vars PROVE PairInv'
    OBVIOUS
  <2> USE DEF PairInv, Axes, TypeOK
  <2>1. CASE drive' \in {drive, Halted, Disabled, Enabled}
    BY <2>1 DEF Halted, Disabled, Enabled
  <2>2. ASSUME NEW d \in {drive, Enabled}, NEW acc \in SUBSET Axes,
               NEW m \in {"starting", "rate"}, drive' = Driven(d, acc, m)
        PROVE  PairInv'
    BY <2>2 DEF Driven, Enabled
  <2>3. ASSUME NEW a \in Axes, DriveStarts(a) \/ DriveArrives(a) PROVE PairInv'
    BY <2>3 DEF DriveStarts, DriveArrives
  <2>4. QED
    BY <2>1, <2>2, <2>3, DriveChanges
<1>3. QED
  BY <1>1, <1>2, TypeCorrect, PTL DEF Spec

\* A client's call starts and joins threads only in its joins and its spawns.
LEMMA ClientsAndThreads ==
  ASSUME NEW c \in Clients, ClientStep(c)
  PROVE  \/ UNCHANGED <<work_thread_, io_writer_thread_>>
         \/ \E from, to \in ClientSteps : JoinThreads(c, from, to)
         \/ SlewSpawn(c) \/ TrackSpawn(c) \/ ParkSpawn(c)
<1>1. CASE LockSteps(c)
  <2>1. AfterJoin(c) \in ClientSteps
    BY DEF AfterJoin, ClientSteps
  <2>2. QED
    BY <1>1, <2>1 DEF LockSteps, AcquireThreadMutex, ClientSteps
<1>2. CASE StopSteps(c)
  BY <1>2 DEF StopSteps, CallStop, StopFlags, StopState, StopMotors
<1>3. CASE SlewCallSteps(c)
  BY <1>3 DEF SlewCallSteps, CallSlew, SlewReject, SlewOutOfLimits, SlewClaim, SlewCommand,
     SlewRevert
<1>4. CASE TrackCallSteps(c)
  BY <1>4 DEF TrackCallSteps, CallTrack, TrackCheck, TrackReject, TrackClaim
<1>5. CASE ParkCallSteps(c)
  BY <1>5 DEF ParkCallSteps, CallPark, ParkNothingToDo, ParkClaim, Unpark
<1>6. CASE RecoverySteps(c)
  BY <1>6 DEF RecoverySteps, CallClearErrors, ClearDrives, ClearState, Home, EmergencyStop,
     HaltDrives, ExecuteMeridianFlip
<1>7. QED
  BY <1>1, <1>2, <1>3, <1>4, <1>5, <1>6 DEF ClientStep

\* A step of a client is a step of that client's program counter only.
LEMMA ClientsKeepToThemselves ==
  ASSUME TypeOK, NEW c \in Clients, ClientStep(c), NEW d \in Clients, c # d
  PROVE  pc'[d] = pc[d] /\ op'[d] = op[d]
<1> USE DEF TypeOK
<1>1. CASE LockSteps(c)
  BY <1>1 DEF LockSteps, AcquireThreadMutex, JoinThreads, Goes
<1>2. CASE StopSteps(c)
  BY <1>2 DEF StopSteps, CallStop, StopFlags, StopState, StopMotors, Call, Goes
<1>3. CASE SlewCallSteps(c)
  BY <1>3 DEF SlewCallSteps, CallSlew, SlewReject, SlewOutOfLimits, SlewClaim, SlewCommand,
     SlewRevert, SlewSpawn, Call, Goes, ReturnUnlocked
<1>4. CASE TrackCallSteps(c)
  BY <1>4 DEF TrackCallSteps, CallTrack, TrackCheck, TrackReject, TrackClaim, TrackSpawn,
     Call, Goes
<1>5. CASE ParkCallSteps(c)
  BY <1>5 DEF ParkCallSteps, CallPark, ParkNothingToDo, ParkClaim, ParkSpawn, Unpark, Call,
     Goes, ReturnUnlocked
<1>6. CASE RecoverySteps(c)
  BY <1>6 DEF RecoverySteps, CallClearErrors, ClearDrives, ClearState, Home, EmergencyStop,
     HaltDrives, ExecuteMeridianFlip, Call, Goes
<1>7. QED
  BY <1>1, <1>2, <1>3, <1>4, <1>5, <1>6 DEF ClientStep

\* A client that is past the join of clearErrors() joined the threads or was there before.
LEMMA OnlyJoinsReachRecovery ==
  ASSUME TypeOK, NEW c \in Clients, ClientStep(c), pc'[c] \in {"clearDrives", "clearState"}
  PROVE  \/ JoinThreads(c, "join", AfterJoin(c))
         \/ pc[c] = "clearDrives" /\ UNCHANGED <<work_thread_, io_writer_thread_>>
<1> USE DEF TypeOK
<1>1. CASE LockSteps(c)
  BY <1>1 DEF LockSteps, AcquireThreadMutex, JoinThreads, Goes
<1>2. CASE StopSteps(c)
  BY <1>2 DEF StopSteps, CallStop, StopFlags, StopState, StopMotors, Call, Goes
<1>3. CASE SlewCallSteps(c)
  BY <1>3 DEF SlewCallSteps, CallSlew, SlewReject, SlewOutOfLimits, SlewClaim, SlewCommand,
     SlewRevert, SlewSpawn, Call, Goes, ReturnUnlocked
<1>4. CASE TrackCallSteps(c)
  BY <1>4 DEF TrackCallSteps, CallTrack, TrackCheck, TrackReject, TrackClaim, TrackSpawn,
     Call, Goes
<1>5. CASE ParkCallSteps(c)
  BY <1>5 DEF ParkCallSteps, CallPark, ParkNothingToDo, ParkClaim, ParkSpawn, Unpark, Call,
     Goes, ReturnUnlocked
<1>6. CASE RecoverySteps(c)
  BY <1>6 DEF RecoverySteps, CallClearErrors, ClearDrives, ClearState, Home, EmergencyStop,
     HaltDrives, ExecuteMeridianFlip, Call, Goes
<1>7. QED
  BY <1>1, <1>2, <1>3, <1>4, <1>5, <1>6 DEF ClientStep

\* A thread that takes a step has not finished.
LEMMA FinishedThreadsRest == (Work => ~WorkFinished) /\ (Writer => ~WriterFinished)
<1>1. ASSUME Work PROVE ~WorkFinished
  BY <1>1 DEF Work, WorkFinished, WorkGoes, SlewMonitor, TrackLoop, ParkMonitor, SlewCheck,
     SlewPollAgain, SlewPollTimeout, SlewPollReached, SlewReissue, SlewTimedOut, SlewHalt,
     SlewReached, TrackWhile, TrackLeave, TrackError, TrackIterate, TrackFault,
     TrackPublish, TrackDesync, TrackDesyncError, TrackExit, TrackHalt, TrackFinal,
     ParkStart, ParkFail, ParkCheck, ParkPollAgain, ParkPollReached, ParkReached,
     ParkTimedOut
<1>2. ASSUME Writer PROVE ~WriterFinished
  BY <1>2 DEF Writer, WriterFinished, WriterStop, WriterRead, WriterCheck, WriterEmit
<1>3. QED
  BY <1>1, <1>2

\* Nobody starts a thread between the join of clearErrors() and its end.
LEMMA RecoverCorrect ==
  ASSUME SoleOperator
  PROVE  Spec => []RecoverInv
<1>1. Init => RecoverInv
  BY DEF Init, RecoverInv
<1>2. TypeOK /\ CallsInv /\ RecoverInv /\ [Next]_vars => RecoverInv'
  <2> SUFFICES ASSUME TypeOK, CallsInv, RecoverInv, [Next]_vars PROVE RecoverInv'
    OBVIOUS
  <2> USE DEF RecoverInv, WorkFinished, WriterFinished
  <2>1. CASE UNCHANGED vars
    BY <2>1
  <2>2. ASSUME NEW c \in Clients, ClientStep(c), NEW d \in Clients,
               pc'[d] \in {"clearDrives", "clearState"}
        PROVE  (WorkFinished /\ WriterFinished)'
    <3>1. CASE c = d
      <4>1. CASE JoinThreads(c, "join", AfterJoin(c))
        BY <4>1 DEF JoinThreads
      <4>2. CASE pc[c] = "clearDrives" /\ UNCHANGED <<work_thread_, io_writer_thread_>>
        BY <4>2
      <4>3. QED
        BY <2>2, <3>1, <4>1, <4>2, OnlyJoinsReachRecovery
    <3>2. CASE c # d
      <4>1. pc[d] \in {"clearDrives", "clearState"}
        BY <2>2, <3>2, ClientsKeepToThemselves
      <4>2. WorkFinished /\ WriterFinished
        BY <4>1
      <4>3. "clearErrors" \in Ops[d]
        BY <4>1 DEF CallsInv, CallOK
      <4>4. Ops[c] \cap Movers = {}
        BY <3>2, <4>3 DEF SoleOperator
      <4>5. pc[c] # "spawn"
        BY <4>4 DEF CallsInv, CallOK
      <4>6. UNCHANGED <<work_thread_, io_writer_thread_>>
              \/ \E from, to \in ClientSteps : JoinThreads(c, from, to)
        BY <2>2, <4>5, ClientsAndThreads DEF SlewSpawn, TrackSpawn, ParkSpawn, Goes
      <4>7. QED
        BY <4>2, <4>6 DEF JoinThreads
    <3>3. QED
      BY <3>1, <3>2
  <2>3. CASE Work \/ Writer
    <3>1. UNCHANGED pc
      BY <2>3, ThreadsLeaveCalls
    <3>2. QED
      BY <2>3, <3>1, FinishedThreadsRest
  <2>4. CASE \E a \in Axes : DriveStarts(a) \/ DriveArrives(a)
    BY <2>4 DEF DriveStarts, DriveArrives
  <2>5. QED
    BY <2>1, <2>2, <2>3, <2>4 DEF Next
<1>3. QED
  BY <1>1, <1>2, TypeCorrect, CallsCorrect, PTL DEF Spec

\* Drives at rest stay at rest when they are halted, disabled or enabled.
LEMMA RestIsKept ==
  ASSUME TypeOK, AllStill, drive' \in {drive, Halted, Disabled, Enabled}
  PROVE  AllStill'
BY DEF TypeOK, AllStill, Moving, Halted, Disabled, Enabled

\* Halted and disabled drives are at rest.
LEMMA RestIsReached ==
  ASSUME TypeOK, drive' \in {Halted, Disabled}
  PROVE  AllStill'
BY DEF TypeOK, AllStill, Moving, Halted, Disabled

\* Enabled, healthy drives accept every command.
LEMMA EnabledAccept == CalmEnv /\ TypeOK => Accepting(Enabled) = {Axes}
BY DEF CalmEnv, TypeOK, Accepting, Enabled, Axes

\* So do drives that are enabled and disabled together, unless they are disabled.
LEMMA PairAccepts ==
  ASSUME CalmEnv, TypeOK, PairInv, NEW acc \in Accepting(drive), acc # Axes
  PROVE  AllStill /\ \A m : Driven(drive, acc, m) = drive
<1>1. drive[1] = "off" /\ drive[2] = "off"
  BY DEF CalmEnv, PairInv, Accepting, Axes
<1>2. QED
  BY <1>1 DEF TypeOK, AllStill, Moving, Driven, Axes

\* Drives at rest neither start nor arrive.
LEMMA RestIsStable ==
  ASSUME AllStill, NEW a \in Axes, DriveStarts(a) \/ DriveArrives(a)
  PROVE  FALSE
BY DEF AllStill, Moving, DriveStarts, DriveArrives

\* While a slew monitor acts upon a target reached, no drive is commanded.
LEMMA ArrivedCorrect == Spec /\ []Exclusive => []ArrivedInv
<1>1. Init => ArrivedInv
  BY DEF Init, ArrivedInv
<1>2. TypeOK /\ ThreadsInv /\ ArrivedInv /\ [Next]_vars => ArrivedInv'
  <2> SUFFICES ASSUME TypeOK, ThreadsInv, ArrivedInv, [Next]_vars PROVE ArrivedInv'
    OBVIOUS
  <2> USE DEF ArrivedInv
  <2>1. CASE UNCHANGED vars
    BY <2>1 DEF AllStill, Moving
  <2>2. ASSUME NEW c \in Clients, ClientStep(c) PROVE ArrivedInv'
    <3>1. CASE UNCHANGED <<work_thread_, io_writer_thread_>>
      <4>1. CASE work_thread_ = "slewReached"
        <5>1. ~Committed(c)
          BY <4>1 DEF ThreadsInv
        <5>2. ~SlewCommand(c) /\ ~TrackClaim(c)
          BY <5>1 DEF Committed, SlewCommand, TrackClaim, Goes
        <5>3. AllStill'
          BY <2>2, <4>1, <5>2, ClientsAndDrives, RestIsKept
        <5>4. QED
          BY <3>1, <5>3
      <4>2. QED
        BY <3>1, <4>1
    <3>2. ASSUME NEW from, NEW to, JoinThreads(c, from, to) PROVE ArrivedInv'
      BY <3>2 DEF JoinThreads
    <3>3. CASE SlewSpawn(c) \/ TrackSpawn(c) \/ ParkSpawn(c)
      BY <3>3 DEF SlewSpawn, TrackSpawn, ParkSpawn
    <3>4. QED
      BY <2>2, <3>1, <3>2, <3>3, ClientsAndThreads
  <2>3. CASE SlewMonitor
    BY <2>3 DEF SlewMonitor, SlewCheck, SlewPollAgain, SlewPollTimeout, SlewPollReached,
       SlewReissue, SlewTimedOut, SlewHalt, SlewReached, WorkGoes, AllStill, Moving
  <2>4. CASE TrackLoop
    BY <2>4 DEF TrackLoop, TrackWhile, TrackLeave, TrackError, TrackIterate, TrackFault,
       TrackPublish, TrackDesync, TrackDesyncError, TrackExit, TrackHalt, TrackFinal,
       WorkGoes
  <2>5. CASE ParkMonitor
    BY <2>5 DEF ParkMonitor, ParkStart, ParkFail, ParkCheck, ParkPollAgain,
       ParkPollReached, ParkReached, ParkTimedOut, WorkGoes
  <2>6. CASE Writer
    <3>1. work_thread_ # "slewReached"
      BY <2>6, FinishedThreadsRest DEF ThreadsInv, WriterFinished, SlewSteps
    <3>2. QED
      BY <2>6, <3>1 DEF Writer, WriterStop, WriterRead, WriterCheck, WriterEmit
  <2>7. ASSUME NEW a \in Axes, DriveStarts(a) \/ DriveArrives(a) PROVE ArrivedInv'
    BY <2>7, RestIsStable DEF DriveStarts, DriveArrives
  <2>8. QED
    BY <2>1, <2>2, <2>3, <2>4, <2>5, <2>6, <2>7 DEF Next, Work
<1>3. QED
  BY <1>1, <1>2, TypeCorrect, ThreadsCorrect, PTL DEF Spec

\* A call that leaves the mount parked found it parked, and neither takes it over nor
\* commands a drive.
LEMMA ParkedCalls ==
  ASSUME TypeOK, NEW c \in Clients, ClientStep(c), state_' = "PARKED"
  PROVE  /\ state_ = "PARKED"
         /\ ~TrackClaim(c)
         /\ pc'[c] \in {"command", "spawn"} => pc[c] = "command"
<1> USE DEF TypeOK
<1>1. CASE LockSteps(c)
  BY <1>1 DEF LockSteps, AcquireThreadMutex, JoinThreads, AfterJoin, TrackClaim, Goes
<1>2. CASE StopSteps(c)
  BY <1>2 DEF StopSteps, CallStop, StopFlags, StopState, StopMotors, TrackClaim, Call, Goes
<1>3. CASE SlewCallSteps(c)
  BY <1>3 DEF SlewCallSteps, CallSlew, SlewReject, SlewOutOfLimits, SlewClaim, SlewCommand,
     SlewRevert, SlewSpawn, TrackClaim, Call, Goes, ReturnUnlocked
<1>4. CASE TrackCallSteps(c)
  BY <1>4 DEF TrackCallSteps, CallTrack, TrackCheck, TrackReject, TrackClaim, TrackSpawn,
     Call, Goes
<1>5. CASE ParkCallSteps(c)
  BY <1>5 DEF ParkCallSteps, CallPark, ParkNothingToDo, ParkClaim, ParkSpawn, Unpark,
     TrackClaim, Call, Goes, ReturnUnlocked
<1>6. CASE RecoverySteps(c)
  BY <1>6 DEF RecoverySteps, CallClearErrors, ClearDrives, ClearState, Home, EmergencyStop,
     HaltDrives, ExecuteMeridianFlip, TrackClaim, Call, Goes
<1>7. QED
  BY <1>1, <1>2, <1>3, <1>4, <1>5, <1>6 DEF ClientStep

\* Only the park thread, which disables the drives and ends, declares the mount parked.
LEMMA ParkedWork ==
  ASSUME Work, state_' = "PARKED"
  PROVE  ParkReached \/ state_ = "PARKED"
BY DEF Work, SlewMonitor, SlewCheck, SlewPollAgain, SlewPollTimeout, SlewPollReached,
   SlewReissue, SlewTimedOut, SlewHalt, SlewReached, TrackLoop, TrackWhile, TrackLeave,
   TrackError, TrackIterate, TrackFault, TrackPublish, TrackDesync, TrackDesyncError,
   TrackExit, TrackHalt, TrackFinal, ParkMonitor, ParkStart, ParkFail, ParkCheck,
   ParkPollAgain, ParkPollReached, ParkTimedOut

\* Whoever commanded the drives before the park has been joined by the time it ends.
LEMMA ParkedCorrect == Spec /\ []Exclusive => []ParkedInv
<1>1. Init => ParkedInv
  BY DEF Init, ParkedInv
<1>2. TypeOK /\ ThreadsInv /\ ParkedInv /\ [Next]_vars => ParkedInv'
  <2> SUFFICES ASSUME TypeOK, ThreadsInv, ParkedInv, [Next]_vars, state_' = "PARKED"
               PROVE  /\ AllStill'
                      /\ WorkFinished' /\ WriterFinished'
                      /\ \A c \in Clients : pc'[c] \notin {"command", "spawn"}
    BY DEF ParkedInv
  <2> USE DEF ParkedInv, WorkFinished, WriterFinished
  <2>1. CASE UNCHANGED vars
    BY <2>1 DEF AllStill, Moving
  <2>2. ASSUME NEW c \in Clients, ClientStep(c)
        PROVE  /\ AllStill'
               /\ WorkFinished' /\ WriterFinished'
               /\ \A d \in Clients : pc'[d] \notin {"command", "spawn"}
    <3>1. /\ state_ = "PARKED"
          /\ ~TrackClaim(c)
          /\ pc'[c] \notin {"command", "spawn"}
      BY <2>2, ParkedCalls
    <3>2. ~SlewCommand(c) /\ ~SlewSpawn(c) /\ ~TrackSpawn(c) /\ ~ParkSpawn(c)
      BY <3>1 DEF SlewCommand, SlewSpawn, TrackSpawn, ParkSpawn, Goes
    <3>3. AllStill'
      BY <2>2, <3>1, <3>2, ClientsAndDrives, RestIsKept
    <3>4. WorkFinished' /\ WriterFinished'
      BY <2>2, <3>1, <3>2, ClientsAndThreads DEF JoinThreads
    <3>5. \A d \in Clients : pc'[d] \notin {"command", "spawn"}
      BY <2>2, <3>1, ClientsKeepToThemselves
    <3>6. QED
      BY <3>3, <3>4, <3>5
  <2>3. CASE Work
    <3>1. ParkReached
      BY <2>3, ParkedWork, FinishedThreadsRest
    <3>2. AllStill'
      BY <3>1, RestIsReached DEF ParkReached
    <3>3. io_writer_thread_ = "none" /\ \A c \in Clients : ~Committed(c)
      BY <3>1 DEF ParkReached, WorkGoes, ThreadsInv, ParkSteps
    <3>4. QED
      BY <3>1, <3>2, <3>3 DEF ParkReached, WorkGoes, Committed
  <2>4. CASE Writer
    BY <2>4, FinishedThreadsRest DEF Writer, WriterStop, WriterRead, WriterCheck, WriterEmit
  <2>5. ASSUME NEW a \in Axes, DriveStarts(a) \/ DriveArrives(a) PROVE FALSE
    BY <2>5, RestIsStable DEF DriveStarts, DriveArrives
  <2>6. QED
    BY <2>1, <2>2, <2>3, <2>4, <2>5 DEF Next
<1>3. QED
  BY <1>1, <1>2, TypeCorrect, ThreadsCorrect, PTL DEF Spec

\* ParkedStill: a parked mount does not move, whatever its drives reported and refused on
\* the way there and whatever is called then, when one client moves the mount.
THEOREM ParkedStaysStill ==
  ASSUME SoleMover
  PROVE  Spec => []ParkedStill
<1>1. ParkedInv => ParkedStill
  BY DEF ParkedInv, ParkedStill
<1>2. QED
  BY <1>1, SoleMoverExcludes, ParkedCorrect, PTL

\* Healthy drives accept the park command, and the sky lets them arrive in time.
LEMMA ParkCorrect ==
  ASSUME CalmEnv
  PROVE  Spec => []ParkInv
<1>1. Init => ParkInv
  BY DEF Init, ParkInv
<1>2. TypeOK /\ ParkInv /\ [Next]_vars => ParkInv'
  <2> SUFFICES ASSUME TypeOK, ParkInv, [Next]_vars PROVE ParkInv'
    OBVIOUS
  <2> USE DEF ParkInv
  <2>1. CASE UNCHANGED vars
    BY <2>1
  <2>2. ASSUME NEW c \in Clients, ClientStep(c) PROVE ParkInv'
    BY <2>2, ClientsAndThreads DEF JoinThreads, SlewSpawn, TrackSpawn, ParkSpawn
  <2>3. CASE SlewMonitor \/ TrackLoop
    BY <2>3 DEF SlewMonitor, SlewCheck, SlewPollAgain, SlewPollTimeout, SlewPollReached,
       SlewReissue, SlewTimedOut, SlewHalt, SlewReached, TrackLoop, TrackWhile, TrackLeave,
       TrackError, TrackIterate, TrackFault, TrackPublish, TrackDesync, TrackDesyncError,
       TrackExit, TrackHalt, TrackFinal, WorkGoes
  <2>4. CASE ParkMonitor
    <3>1. CASE ParkStart
      BY <3>1, EnabledAccept DEF ParkStart, WorkGoes
    <3>2. QED
      BY <2>4, <3>1 DEF CalmEnv, ParkMonitor, ParkFail, ParkCheck, ParkPollAgain,
         ParkPollReached, ParkReached, ParkTimedOut, WorkGoes
  <2>5. CASE Writer \/ \E a \in Axes : DriveStarts(a) \/ DriveArrives(a)
    BY <2>5 DEF Writer, WriterStop, WriterRead, WriterCheck, WriterEmit, DriveStarts,
       DriveArrives
  <2>6. QED
    BY <2>1, <2>2, <2>3, <2>4, <2>5 DEF Next, Work
<1>3. QED
  BY <1>1, <1>2, TypeCorrect, PTL DEF Spec

\* A client that takes the state away from a monitor goes on to join it.
LEMMA MonitorLostClientStep ==
  ASSUME TypeOK, CallsInv, LockInv, ThreadsInv, Exclusive, MonitorLostInv, NEW c \in Clients,
         ClientStep(c)
  PROVE  MonitorLostInv'
<1> USE DEF TypeOK, CallsInv, CallOK, Movers, LockInv, Holding, ThreadsInv, Committed,
   Exclusive, MonitorLostInv, SlewLostInv, ParkLostInv, Claiming, Joining, SlewSteps, ParkSteps
<1>1. CASE AcquireThreadMutex(c, "acquire", "join")
  BY <1>1 DEF AcquireThreadMutex, Goes
<1>2. CASE JoinThreads(c, "join", AfterJoin(c))
  BY <1>2 DEF JoinThreads, AfterJoin, Goes, ThreadsFinished
<1>3. CASE AcquireThreadMutex(c, "reacquire", "rejoin")
  BY <1>3 DEF AcquireThreadMutex, Goes
<1>4. CASE JoinThreads(c, "rejoin", "claim")
  BY <1>4 DEF JoinThreads, Goes, ThreadsFinished
<1>5. CASE CallStop(c)
  BY <1>5 DEF CallStop, Call
<1>6. CASE StopFlags(c)
  BY <1>6 DEF StopFlags, Goes
<1>7. CASE StopState(c)
  BY <1>7 DEF StopState, Goes
<1>8. CASE StopMotors(c)
  BY <1>8 DEF StopMotors, Goes, Halted
<1>9. CASE CallSlew(c)
  BY <1>9 DEF CallSlew, Call
<1>10. CASE SlewReject(c)
  BY <1>10 DEF SlewReject, ReturnUnlocked, Goes
<1>11. CASE SlewOutOfLimits(c)
  BY <1>11 DEF SlewOutOfLimits, ReturnUnlocked, Goes
<1>12. CASE SlewClaim(c)
  BY <1>12 DEF SlewClaim, Goes
<1>13. CASE SlewCommand(c)
  BY <1>13 DEF SlewCommand, Goes
<1>14. CASE SlewRevert(c)
  BY <1>14 DEF SlewRevert, ReturnUnlocked, Goes
<1>15. CASE SlewSpawn(c)
  BY <1>15 DEF SlewSpawn, ReturnUnlocked, Goes
<1>16. CASE CallTrack(c)
  BY <1>16 DEF CallTrack, Call
<1>17. CASE TrackCheck(c)
  BY <1>17 DEF TrackCheck, Goes, NotTrackable
<1>18. CASE TrackReject(c)
  BY <1>18 DEF TrackReject, Goes
<1>19. CASE TrackClaim(c)
  BY <1>19 DEF TrackClaim, Goes, NotTrackable
<1>20. CASE TrackSpawn(c)
  BY <1>20 DEF TrackSpawn, Goes
<1>21. CASE CallPark(c)
  BY <1>21 DEF CallPark, Call
<1>22. CASE ParkNothingToDo(c)
  BY <1>22 DEF ParkNothingToDo, ReturnUnlocked, Goes
<1>23. CASE ParkClaim(c)
  BY <1>23 DEF ParkClaim, Goes
<1>24. CASE ParkSpawn(c)
  BY <1>24 DEF ParkSpawn, ReturnUnlocked, Goes
<1>25. CASE Unpark(c)
  BY <1>25 DEF Unpark, Call
<1>26. CASE CallClearErrors(c)
  BY <1>26 DEF CallClearErrors, Call
<1>27. CASE ClearDrives(c)
  BY <1>27 DEF ClearDrives, Goes, Enabled
<1>28. CASE ClearState(c)
  BY <1>28 DEF ClearState, Goes
<1>29. CASE Home(c)
  BY <1>29 DEF Home, Call
<1>30. CASE EmergencyStop(c)
  BY <1>30 DEF EmergencyStop, Call
<1>31. CASE HaltDrives(c)
  BY <1>31 DEF HaltDrives, Goes, Disabled
<1>32. CASE ExecuteMeridianFlip(c)
  BY <1>32 DEF ExecuteMeridianFlip, Call
<1>33. QED
  BY <1>1, <1>2, <1>3, <1>4, <1>5, <1>6, <1>7, <1>8, <1>9, <1>10, <1>11, <1>12, <1>13,
     <1>14, <1>15, <1>16, <1>17, <1>18, <1>19, <1>20, <1>21, <1>22, <1>23, <1>24, <1>25,
     <1>26, <1>27, <1>28, <1>29, <1>30, <1>31, <1>32
     DEF ClientStep, LockSteps, StopSteps, SlewCallSteps,
         TrackCallSteps, ParkCallSteps, RecoverySteps

\* A monitor that loses its state is waited for until it has ended.
LEMMA MonitorLostThreadStep ==
  ASSUME TypeOK, ThreadsInv, MonitorLostInv,
         Work \/ Writer \/ \E a \in Axes : DriveStarts(a) \/ DriveArrives(a)
  PROVE  MonitorLostInv'
<1> USE DEF TypeOK, ThreadsInv, Committed, MonitorLostInv, SlewLostInv, ParkLostInv, Claiming,
   Joining, SlewSteps, ParkSteps
<1>1. CASE SlewCheck
  BY <1>1 DEF SlewCheck, WorkGoes
<1>2. CASE SlewPollAgain
  BY <1>2 DEF SlewPollAgain, WorkGoes
<1>3. CASE SlewPollTimeout
  BY <1>3 DEF SlewPollTimeout, WorkGoes
<1>4. CASE SlewPollReached
  BY <1>4 DEF SlewPollReached, WorkGoes
<1>5. CASE SlewReissue
  BY <1>5 DEF SlewReissue, WorkGoes
<1>6. CASE SlewTimedOut
  BY <1>6 DEF SlewTimedOut, WorkGoes
<1>7. CASE SlewHalt
  BY <1>7 DEF SlewHalt, WorkGoes, Halted
<1>8. CASE SlewReached
  BY <1>8 DEF SlewReached, WorkGoes
<1>9. CASE TrackWhile
  BY <1>9 DEF TrackWhile, WorkGoes
<1>10. CASE TrackLeave
  BY <1>10 DEF TrackLeave, WorkGoes
<1>11. CASE TrackError
  BY <1>11 DEF TrackError, WorkGoes
<1>12. CASE TrackIterate
  BY <1>12 DEF TrackIterate, WorkGoes
<1>13. CASE TrackFault
  BY <1>13 DEF TrackFault, WorkGoes
<1>14. CASE TrackPublish
  BY <1>14 DEF TrackPublish, WorkGoes
<1>15. CASE TrackDesync
  BY <1>15 DEF TrackDesync, WorkGoes
<1>16. CASE TrackDesyncError
  BY <1>16 DEF TrackDesyncError, WorkGoes
<1>17. CASE TrackExit
  BY <1>17 DEF TrackExit, WorkGoes
<1>18. CASE TrackHalt
  BY <1>18 DEF TrackHalt, WorkGoes, Halted
<1>19. CASE TrackFinal
  BY <1>19 DEF TrackFinal, WorkGoes
<1>20. CASE ParkStart
  BY <1>20 DEF ParkStart, WorkGoes
<1>21. CASE ParkFail
  BY <1>21 DEF ParkFail, WorkGoes
<1>22. CASE ParkCheck
  BY <1>22 DEF ParkCheck, WorkGoes
<1>23. CASE ParkPollAgain
  BY <1>23 DEF ParkPollAgain, WorkGoes
<1>24. CASE ParkPollReached
  BY <1>24 DEF ParkPollReached, WorkGoes
<1>25. CASE ParkReached
  BY <1>25 DEF ParkReached, WorkGoes
<1>26. CASE ParkTimedOut
  BY <1>26 DEF ParkTimedOut, WorkGoes
<1>27. CASE WriterStop
  BY <1>27 DEF WriterStop, Halted, IoRuns
<1>28. CASE WriterRead \/ WriterCheck
  BY <1>28 DEF WriterRead, WriterCheck
<1>29. CASE WriterEmit
  BY <1>29 DEF WriterEmit
<1>30. CASE \E a \in Axes : DriveStarts(a) \/ DriveArrives(a)
  BY <1>30 DEF DriveStarts, DriveArrives
<1>31. QED
  BY <1>1, <1>2, <1>3, <1>4, <1>5, <1>6, <1>7, <1>8, <1>9, <1>10, <1>11, <1>12, <1>13,
     <1>14, <1>15, <1>16, <1>17, <1>18, <1>19, <1>20, <1>21, <1>22, <1>23, <1>24, <1>25,
     <1>26, <1>27, <1>28, <1>29, <1>30
     DEF Work, Writer, SlewMonitor, TrackLoop, ParkMonitor

\* A monitor whose state was taken away is waited for, whoever calls what, as long as the
\* calls exclude each other past their joins.
THEOREM MonitorLostCorrect == Spec /\ []Exclusive => []MonitorLostInv
<1>1. Init => MonitorLostInv
  BY DEF Init, MonitorLostInv, SlewLostInv, ParkLostInv, Claiming, SlewSteps, ParkSteps
<1>2. TypeOK /\ CallsInv /\ LockInv /\ ThreadsInv /\ Exclusive /\ MonitorLostInv /\ [Next]_vars
      => MonitorLostInv'
  <2> SUFFICES ASSUME TypeOK, CallsInv, LockInv, ThreadsInv, Exclusive, MonitorLostInv,
                      [Next]_vars
               PROVE  MonitorLostInv'
    OBVIOUS
  <2>1. CASE UNCHANGED vars
    BY <2>1 DEF MonitorLostInv, SlewLostInv, ParkLostInv, Claiming, Joining
  <2>2. CASE \E c \in Clients : ClientStep(c)
    BY <2>2, MonitorLostClientStep
  <2>3. CASE Work \/ Writer \/ \E a \in Axes : DriveStarts(a) \/ DriveArrives(a)
    BY <2>3, MonitorLostThreadStep
  <2>4. QED
    BY <2>1, <2>2, <2>3 DEF Next
<1>3. QED
  BY <1>1, <1>2, TypeCorrect, CallsCorrect, LockCorrect, ThreadsCorrect, PTL DEF Spec

\* What the steps that neither touch a thread, nor take the mount over, nor settle its
\* state leave as it was.
LEMMA SessionLostKept ==
  ASSUME SessionLostInv, UNCHANGED <<published_, work_thread_, io_writer_thread_>>,
         state_' = state_ \/ (state_ = "PARKED" /\ state_' = "IDLE"),
         AllStill => AllStill',
         \A d \in Clients : Joining(d) => Joining(d)',
         \A d \in Clients : pc[d] = "stopMotors" => pc'[d] = "stopMotors" \/ AllStill',
         \A d \in Clients : pc'[d] \in {"command", "revert", "spawn"} =>
                              pc'[d] = pc[d] /\ op'[d] = op[d]
  PROVE  SessionLostInv'
<1> USE DEF SessionLostInv, Claiming, Tracking
<1>1. SoonStill => SoonStill'
  BY DEF SoonStill
<1>2. SpawnInv'
  BY <1>1 DEF SpawnInv
<1>3. TrackLostInv'
  BY <1>1 DEF TrackLostInv, Doomed, WriterFinished
<1>4. QED
  BY <1>2, <1>3

\* The steps of a call that neither take the mount over nor give it up.
LEMMA SessionLostCallStep ==
  ASSUME TypeOK, CallsInv, SessionLostInv, NEW c \in Clients,
         \/ AcquireThreadMutex(c, "acquire", "join")
         \/ AcquireThreadMutex(c, "reacquire", "rejoin") \/ CallStop(c) \/ StopFlags(c)
         \/ StopMotors(c) \/ CallSlew(c) \/ CallTrack(c) \/ TrackCheck(c) \/ CallPark(c)
         \/ Unpark(c) \/ CallClearErrors(c) \/ EmergencyStop(c) \/ HaltDrives(c)
  PROVE  SessionLostInv'
<1> USE SessionLostKept, RestIsReached DEF TypeOK, CallsInv, CallOK, Movers, Joining, AllStill,
   Moving
<1>1. CASE AcquireThreadMutex(c, "acquire", "join")
  BY <1>1 DEF AcquireThreadMutex, Goes
<1>2. CASE AcquireThreadMutex(c, "reacquire", "rejoin")
  BY <1>2 DEF AcquireThreadMutex, Goes
<1>3. CASE CallStop(c)
  BY <1>3 DEF CallStop, Call
<1>4. CASE StopFlags(c)
  BY <1>4 DEF StopFlags, Goes
<1>5. CASE StopMotors(c)
  BY <1>5 DEF StopMotors, Goes, Halted
<1>6. CASE CallSlew(c)
  BY <1>6 DEF CallSlew, Call
<1>7. CASE CallTrack(c)
  BY <1>7 DEF CallTrack, Call
<1>8. CASE TrackCheck(c)
  BY <1>8 DEF TrackCheck, Goes, NotTrackable
<1>9. CASE CallPark(c)
  BY <1>9 DEF CallPark, Call
<1>10. CASE Unpark(c)
  BY <1>10 DEF Unpark, Call
<1>11. CASE CallClearErrors(c)
  BY <1>11 DEF CallClearErrors, Call
<1>12. CASE EmergencyStop(c)
  BY <1>12 DEF EmergencyStop, Call
<1>13. CASE HaltDrives(c)
  BY <1>13 DEF HaltDrives, Goes, Disabled
<1>14. QED
  BY <1>1, <1>2, <1>3, <1>4, <1>5, <1>6, <1>7, <1>8, <1>9, <1>10, <1>11, <1>12, <1>13

\* A client that takes the state away from a thread goes on to join it.
LEMMA SessionLostClientStep ==
  ASSUME SoleOperator, NeverHome, CalmEnv, TypeOK, CallsInv, LockInv, ThreadsInv,
         RecoverInv, ErrorInv, SessionLostInv, NEW c \in Clients, ClientStep(c)
  PROVE  SessionLostInv'
<1>1. CASE \/ AcquireThreadMutex(c, "acquire", "join")
           \/ AcquireThreadMutex(c, "reacquire", "rejoin") \/ CallStop(c) \/ StopFlags(c)
           \/ StopMotors(c) \/ CallSlew(c) \/ CallTrack(c) \/ TrackCheck(c) \/ CallPark(c)
           \/ Unpark(c) \/ CallClearErrors(c) \/ EmergencyStop(c) \/ HaltDrives(c)
  BY <1>1, SessionLostCallStep
<1> USE DEF TypeOK, CallsInv, CallOK, Movers, LockInv, Holding, ThreadsInv, Committed,
   RecoverInv, Tracking, Joining, AllStill, Moving, SessionLostInv,
   SpawnInv, Doomed, TrackLostInv, SoonStill, Claiming, SlewSteps, ParkSteps, TrackSteps,
   WorkFinished, WriterFinished, SoleOperator, NeverHome
<1>2. CASE JoinThreads(c, "join", AfterJoin(c))
  BY <1>2 DEF JoinThreads, AfterJoin, Goes, ThreadsFinished
<1>3. CASE JoinThreads(c, "rejoin", "claim")
  BY <1>3 DEF JoinThreads, Goes, ThreadsFinished
<1>4. CASE StopState(c)
  BY <1>4 DEF StopState, Goes
<1>5. CASE SlewReject(c)
  BY <1>5 DEF SlewReject, ReturnUnlocked, Goes
<1>6. CASE SlewOutOfLimits(c)
  BY <1>6 DEF SlewOutOfLimits, ReturnUnlocked, Goes
<1>7. CASE SlewClaim(c)
  BY <1>7 DEF SlewClaim, Goes
<1>8. CASE SlewCommand(c)
  BY <1>8 DEF SlewCommand, Goes
<1>9. CASE SlewRevert(c)
  BY <1>9 DEF SlewRevert, ReturnUnlocked, Goes
<1>10. CASE SlewSpawn(c)
  BY <1>10 DEF SlewSpawn, ReturnUnlocked, Goes
<1>11. CASE TrackReject(c)
  BY <1>11 DEF TrackReject, Goes
<1>12. CASE TrackClaim(c)
  BY <1>12 DEF TrackClaim, Goes, NotTrackable
<1>13. CASE TrackSpawn(c)
  BY <1>13 DEF TrackSpawn, Goes
<1>14. CASE ParkNothingToDo(c)
  BY <1>14 DEF ParkNothingToDo, ReturnUnlocked, Goes
<1>15. CASE ParkClaim(c)
  BY <1>15 DEF ParkClaim, Goes
<1>16. CASE ParkSpawn(c)
  BY <1>16 DEF ParkSpawn, ReturnUnlocked, Goes
<1>17. CASE ClearDrives(c)
  BY <1>17 DEF ClearDrives, Goes, Enabled
<1>18. CASE ClearState(c)
  BY <1>18 DEF ClearState, Goes
<1>19. CASE Home(c)
  BY <1>19 DEF Home, Call
<1>20. CASE ExecuteMeridianFlip(c)
  BY <1>20 DEF ExecuteMeridianFlip, Call
<1>21. QED
  BY <1>1, <1>2, <1>3, <1>4, <1>5, <1>6, <1>7, <1>8, <1>9, <1>10, <1>11, <1>12, <1>13, <1>14,
     <1>15, <1>16, <1>17, <1>18, <1>19, <1>20
     DEF ClientStep, LockSteps, StopSteps, SlewCallSteps, TrackCallSteps, ParkCallSteps,
         RecoverySteps

\* A thread that loses its state is waited for; a loop that starts without it does nothing.
LEMMA SessionLostThreadStep ==
  ASSUME SoleOperator, CalmEnv, TypeOK, CallsInv, LockInv, ThreadsInv, ParkInv, ErrorInv,
         SessionLostInv,
         Work \/ Writer \/ \E a \in Axes : DriveStarts(a) \/ DriveArrives(a)
  PROVE  SessionLostInv'
<1> USE DEF TypeOK, ThreadsInv, Committed, SessionLostInv, SpawnInv, Doomed,
   TrackLostInv, SoonStill, Claiming, SlewSteps, ParkSteps, TrackSteps, WriterFinished,
   Tracking, Joining, AllStill, Moving, ParkInv
<1>1. CASE SlewCheck
  BY <1>1 DEF SlewCheck, WorkGoes
<1>2. CASE SlewPollAgain
  BY <1>2 DEF SlewPollAgain, WorkGoes
<1>3. CASE SlewPollTimeout
  BY <1>3 DEF SlewPollTimeout, WorkGoes
<1>4. CASE SlewPollReached
  BY <1>4 DEF SlewPollReached, WorkGoes
<1>5. CASE SlewReissue
  BY <1>5 DEF SlewReissue, WorkGoes
<1>6. CASE SlewTimedOut
  BY <1>6 DEF SlewTimedOut, WorkGoes
<1>7. CASE SlewHalt
  BY <1>7 DEF SlewHalt, WorkGoes, Halted
<1>8. CASE SlewReached
  BY <1>8 DEF SlewReached, WorkGoes
<1>9. CASE TrackWhile
  BY <1>9 DEF TrackWhile, WorkGoes
<1>10. CASE TrackLeave
  BY <1>10 DEF TrackLeave, WorkGoes
<1>11. CASE TrackError
  BY <1>11 DEF TrackError, WorkGoes
<1>12. CASE TrackIterate
  BY <1>12 DEF TrackIterate, Trackable, WorkGoes
<1>13. CASE TrackFault
  BY <1>13 DEF TrackFault, WorkGoes
<1>14. CASE TrackPublish
  BY <1>14 DEF TrackPublish, WorkGoes
<1>15. CASE TrackDesync
  BY <1>15 DEF TrackDesync, WorkGoes
<1>16. CASE TrackDesyncError
  BY <1>16 DEF TrackDesyncError, WorkGoes
<1>17. CASE TrackExit
  BY <1>17 DEF TrackExit, WorkGoes
<1>18. CASE TrackHalt
  BY <1>18 DEF TrackHalt, WorkGoes, Halted
<1>19. CASE TrackFinal
  BY <1>19 DEF TrackFinal, WorkGoes
<1>20. CASE ParkStart
  BY <1>20 DEF ParkStart, WorkGoes
<1>21. CASE ParkFail
  BY <1>21 DEF ParkFail, WorkGoes
<1>22. CASE ParkCheck
  BY <1>22 DEF ParkCheck, WorkGoes
<1>23. CASE ParkPollAgain
  BY <1>23 DEF ParkPollAgain, WorkGoes
<1>24. CASE ParkPollReached
  BY <1>24 DEF ParkPollReached, WorkGoes
<1>25. CASE ParkReached
  BY <1>25 DEF ParkReached, WorkGoes
<1>26. CASE ParkTimedOut
  BY <1>26 DEF ParkTimedOut, WorkGoes
<1>27. CASE WriterStop
  BY <1>27 DEF WriterStop, Halted, IoRuns
<1>28. CASE WriterRead \/ WriterCheck
  BY <1>28 DEF WriterRead, WriterCheck
<1>29. CASE WriterEmit
  BY <1>29 DEF WriterEmit
<1>30. CASE \E a \in Axes : DriveStarts(a) \/ DriveArrives(a)
  BY <1>30 DEF DriveStarts, DriveArrives
<1>31. QED
  BY <1>1, <1>2, <1>3, <1>4, <1>5, <1>6, <1>7, <1>8, <1>9, <1>10, <1>11, <1>12, <1>13,
     <1>14, <1>15, <1>16, <1>17, <1>18, <1>19, <1>20, <1>21, <1>22, <1>23, <1>24, <1>25,
     <1>26, <1>27, <1>28, <1>29, <1>30
     DEF Work, Writer, SlewMonitor, TrackLoop, ParkMonitor

\* A session whose state was taken away is waited for, or its loop has nothing to do.
LEMMA SessionLostCorrect ==
  ASSUME SoleOperator, NeverHome, CalmEnv
  PROVE  Spec => []SessionLostInv
<1>1. Init => SessionLostInv
  BY DEF Init, SessionLostInv, SpawnInv, TrackLostInv, Claiming, SlewSteps,
     ParkSteps, TrackSteps, WriterFinished
<1>2. TypeOK /\ CallsInv /\ LockInv /\ ThreadsInv /\ RecoverInv /\ PairInv /\ ParkInv
        /\ ErrorInv /\ SessionLostInv /\ [Next]_vars
      => SessionLostInv'
  <2> SUFFICES ASSUME TypeOK, CallsInv, LockInv, ThreadsInv, RecoverInv, PairInv, ParkInv,
                      ErrorInv, SessionLostInv, [Next]_vars
               PROVE  SessionLostInv'
    OBVIOUS
  <2>1. CASE UNCHANGED vars
    BY <2>1, SessionLostKept DEF Joining, AllStill, Moving
  <2>2. CASE \E c \in Clients : ClientStep(c)
    BY <2>2, SessionLostClientStep
  <2>3. CASE Work \/ Writer \/ \E a \in Axes : DriveStarts(a) \/ DriveArrives(a)
    BY <2>3, SessionLostThreadStep
  <2>4. QED
    BY <2>1, <2>2, <2>3 DEF Next
<1>3. QED
  BY <1>1, <1>2, OperatorMoves, SoleMoverExcludes, TypeCorrect, CallsCorrect, LockCorrect,
     ThreadsCorrect, RecoverCorrect, PairCorrect, ParkCorrect, ErrorCorrect, PTL DEF Spec

\* A client that ends its call leaves the drives at rest or to a thread.
LEMMA RestClientStep ==
  ASSUME NeverHome, CalmEnv, TypeOK, CallsInv, LockInv, ThreadsInv, RecoverInv, PairInv,
         ErrorInv, RestInv, NEW c \in Clients, ClientStep(c)
  PROVE  RestInv'
<1> USE DEF TypeOK, CallsInv, CallOK, Movers, ThreadsInv, Committed, RecoverInv, RestInv,
   Settling, Halting, Joining, Tracking,
   AllStill, Moving, WorkFinished, WriterFinished, NeverHome
<1>1. CASE AcquireThreadMutex(c, "acquire", "join")
  BY <1>1 DEF AcquireThreadMutex, Goes
<1>2. CASE JoinThreads(c, "join", AfterJoin(c))
  BY <1>2 DEF JoinThreads, AfterJoin, Goes, ThreadsFinished
<1>3. CASE AcquireThreadMutex(c, "reacquire", "rejoin")
  BY <1>3 DEF AcquireThreadMutex, Goes
<1>4. CASE JoinThreads(c, "rejoin", "claim")
  BY <1>4 DEF JoinThreads, Goes, ThreadsFinished
<1>5. CASE CallStop(c)
  BY <1>5 DEF CallStop, Call
<1>6. CASE StopFlags(c)
  BY <1>6 DEF StopFlags, Goes
<1>7. CASE StopState(c)
  BY <1>7 DEF StopState, Goes
<1>8. CASE StopMotors(c)
  BY <1>8 DEF StopMotors, Goes, Halted
<1>9. CASE CallSlew(c)
  BY <1>9 DEF CallSlew, Call
<1>10. CASE SlewReject(c)
  BY <1>10 DEF SlewReject, ReturnUnlocked, Goes
<1>11. CASE SlewOutOfLimits(c)
  BY <1>11 DEF SlewOutOfLimits, CalmEnv
<1>12. CASE SlewClaim(c)
  BY <1>12 DEF SlewClaim, Goes
<1>13. CASE SlewCommand(c)
  BY <1>13, PairAccepts DEF SlewCommand, Goes
<1>14. CASE SlewRevert(c)
  BY <1>14 DEF SlewRevert, ReturnUnlocked, Goes, LockInv, Holding
<1>15. CASE SlewSpawn(c)
  BY <1>15 DEF SlewSpawn, ReturnUnlocked, Goes
<1>16. CASE CallTrack(c)
  BY <1>16 DEF CallTrack, Call
<1>17. CASE TrackCheck(c)
  BY <1>17 DEF TrackCheck, Goes, NotTrackable
<1>18. CASE TrackReject(c)
  BY <1>18 DEF TrackReject, Goes
<1>19. CASE TrackClaim(c)
  BY <1>19, PairAccepts DEF TrackClaim, Goes
<1>20. CASE TrackSpawn(c)
  BY <1>20 DEF TrackSpawn, Goes
<1>21. CASE CallPark(c)
  BY <1>21 DEF CallPark, Call
<1>22. CASE ParkNothingToDo(c)
  BY <1>22 DEF ParkNothingToDo, ReturnUnlocked, Goes
<1>23. CASE ParkClaim(c)
  BY <1>23 DEF ParkClaim, Goes
<1>24. CASE ParkSpawn(c)
  BY <1>24 DEF ParkSpawn, ReturnUnlocked, Goes
<1>25. CASE Unpark(c)
  BY <1>25 DEF Unpark, Call
<1>26. CASE CallClearErrors(c)
  BY <1>26 DEF CallClearErrors, Call
<1>27. CASE ClearDrives(c)
  BY <1>27 DEF ClearDrives, Goes, Enabled
<1>28. CASE ClearState(c)
  BY <1>28 DEF ClearState, Goes
<1>29. CASE Home(c)
  BY <1>29 DEF Home, Call
<1>30. CASE EmergencyStop(c)
  BY <1>30 DEF EmergencyStop, Call
<1>31. CASE HaltDrives(c)
  BY <1>31 DEF HaltDrives, Goes, Disabled
<1>32. CASE ExecuteMeridianFlip(c)
  BY <1>32 DEF ExecuteMeridianFlip, Call
<1>33. QED
  BY <1>1, <1>2, <1>3, <1>4, <1>5, <1>6, <1>7, <1>8, <1>9, <1>10, <1>11, <1>12, <1>13,
     <1>14, <1>15, <1>16, <1>17, <1>18, <1>19, <1>20, <1>21, <1>22, <1>23, <1>24, <1>25,
     <1>26, <1>27, <1>28, <1>29, <1>30, <1>31, <1>32
     DEF ClientStep, LockSteps, StopSteps, SlewCallSteps,
         TrackCallSteps, ParkCallSteps, RecoverySteps

\* A thread that ends has halted the drives or is waited for by a client that will.
LEMMA RestThreadStep ==
  ASSUME CalmEnv, TypeOK, CallsInv, ThreadsInv, LatchInv, ArrivedInv, ParkInv, ErrorInv,
         LeavingInv, Supervised, MonitorLostInv, SessionLostInv, RestInv,
         Work \/ Writer \/ \E a \in Axes : DriveStarts(a) \/ DriveArrives(a)
  PROVE  RestInv'
<1> USE DEF TypeOK, ThreadsInv, Committed, MonitorLostInv, SessionLostInv, SlewLostInv,
   ParkLostInv, Doomed, TrackLostInv, SoonStill, Settling, Halting, Claiming, SlewSteps,
   ParkSteps, TrackSteps,
   WorkFinished, WriterFinished, Tracking, Joining, AllStill, Moving, ParkInv, RestInv,
   ErrorInv, ArrivedInv, Supervised, LeavingInv, Stopping
<1>1. CASE SlewCheck
  BY <1>1 DEF SlewCheck, WorkGoes
<1>2. CASE SlewPollAgain
  BY <1>2 DEF SlewPollAgain, WorkGoes
<1>3. CASE SlewPollTimeout
  BY <1>3 DEF SlewPollTimeout, WorkGoes
<1>4. CASE SlewPollReached
  BY <1>4 DEF SlewPollReached, WorkGoes
<1>5. CASE SlewReissue
  BY <1>5 DEF SlewReissue, WorkGoes
<1>6. CASE SlewTimedOut
  BY <1>6 DEF SlewTimedOut, WorkGoes
<1>7. CASE SlewHalt
  BY <1>7 DEF SlewHalt, WorkGoes, Halted
<1>8. CASE SlewReached
  BY <1>8 DEF SlewReached, WorkGoes
<1>9. CASE TrackWhile
  BY <1>9 DEF TrackWhile, WorkGoes
<1>10. CASE TrackLeave
  BY <1>10 DEF TrackLeave, WorkGoes
<1>11. CASE TrackError
  BY <1>11 DEF TrackError, WorkGoes
<1>12. CASE TrackIterate
  BY <1>12 DEF TrackIterate, WorkGoes
<1>13. CASE TrackFault
  BY <1>13 DEF TrackFault, WorkGoes
<1>14. CASE TrackPublish
  BY <1>14 DEF TrackPublish, WorkGoes
<1>15. CASE TrackDesync
  BY <1>15 DEF TrackDesync, WorkGoes
<1>16. CASE TrackDesyncError
  BY <1>16 DEF TrackDesyncError, WorkGoes
<1>17. CASE TrackExit
  BY <1>17 DEF TrackExit, WorkGoes
<1>18. CASE TrackHalt
  BY <1>18 DEF TrackHalt, WorkGoes, Halted
<1>19. CASE TrackFinal
  BY <1>19 DEF TrackFinal, WorkGoes
<1>20. CASE ParkStart
  BY <1>20 DEF ParkStart, WorkGoes
<1>21. CASE ParkFail
  BY <1>21 DEF ParkFail, WorkGoes
<1>22. CASE ParkCheck
  BY <1>22 DEF ParkCheck, WorkGoes
<1>23. CASE ParkPollAgain
  BY <1>23 DEF ParkPollAgain, WorkGoes
<1>24. CASE ParkPollReached
  BY <1>24 DEF ParkPollReached, WorkGoes
<1>25. CASE ParkReached
  BY <1>25 DEF ParkReached, Disabled
<1>26. CASE ParkTimedOut
  BY <1>26 DEF ParkTimedOut, WorkGoes
<1>27. CASE WriterStop
  BY <1>27 DEF WriterStop, Halted, IoRuns
<1>28. CASE WriterRead \/ WriterCheck
  BY <1>28 DEF WriterRead, WriterCheck
<1>29. CASE WriterEmit
  BY <1>29 DEF WriterEmit
<1>30. CASE \E a \in Axes : DriveStarts(a) \/ DriveArrives(a)
  BY <1>30 DEF DriveStarts, DriveArrives
<1>31. QED
  BY <1>1, <1>2, <1>3, <1>4, <1>5, <1>6, <1>7, <1>8, <1>9, <1>10, <1>11, <1>12, <1>13,
     <1>14, <1>15, <1>16, <1>17, <1>18, <1>19, <1>20, <1>21, <1>22, <1>23, <1>24, <1>25,
     <1>26, <1>27, <1>28, <1>29, <1>30
     DEF Work, Writer, SlewMonitor, TrackLoop, ParkMonitor

\* Once the threads have ended, the drives are at rest or a client is about to see to them.
THEOREM RestCorrect ==
  ASSUME SoleOperator, NeverHome, CalmEnv
  PROVE  Spec => []RestInv
<1>1. Init => RestInv
  BY DEF Init, RestInv, AllStill, Moving
<1>2. TypeOK /\ CallsInv /\ LockInv /\ ThreadsInv /\ LatchInv /\ RecoverInv /\ PairInv
        /\ ArrivedInv /\ ParkInv /\ ErrorInv /\ LeavingInv /\ Supervised /\ MonitorLostInv
        /\ SessionLostInv /\ RestInv /\ [Next]_vars
      => RestInv'
  <2> SUFFICES ASSUME TypeOK, CallsInv, LockInv, ThreadsInv, LatchInv, RecoverInv, PairInv,
                      ArrivedInv, ParkInv, ErrorInv, LeavingInv, Supervised, MonitorLostInv,
                      SessionLostInv, RestInv, [Next]_vars
               PROVE  RestInv'
    OBVIOUS
  <2>1. CASE UNCHANGED vars
    BY <2>1 DEF RestInv, WorkFinished, WriterFinished, AllStill, Moving, Settling, Halting,
       Joining, Tracking
  <2>2. CASE \E c \in Clients : ClientStep(c)
    BY <2>2, RestClientStep
  <2>3. CASE Work \/ Writer \/ \E a \in Axes : DriveStarts(a) \/ DriveArrives(a)
    BY <2>3, RestThreadStep
  <2>4. QED
    BY <2>1, <2>2, <2>3 DEF Next
<1>3. QED
  BY <1>1, <1>2, OperatorMoves, SoleMoverExcludes, TypeCorrect, CallsCorrect, LockCorrect,
     ThreadsCorrect, LatchCorrect, RecoverCorrect, PairCorrect, ArrivedCorrect, ParkCorrect,
     ErrorCorrect, LeavingCorrect, MonitorLostCorrect, SessionLostCorrect, PTL DEF Spec

\* QuiescentStill: when no call is in progress and no thread runs, no drive moves, if one
\* client moves the mount and clears its errors, the others stop it as they please, and the
\* drives accept their commands and arrive in time, however early they report it.
THEOREM AlwaysComesToRest ==
  ASSUME SoleOperator, NeverHome, CalmEnv
  PROVE  Spec => []QuiescentStill
<1>1. RestInv => QuiescentStill
  BY DEF RestInv, QuiescentStill, Quiescent, Settling, Halting, Joining
<1>2. QED
  BY <1>1, RestCorrect, PTL

=============================================================================
