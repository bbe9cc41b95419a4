---------------------------- MODULE Services_proofs ----------------------------
(***************************************************************************)
(* After stopGamepad() no axis turns by the pad; a guider that was left off  *)
(* stays off; a completed PID calibration has measured everything; a flip    *)
(* suspends the soft limits while it lasts. And the components that run side *)
(* by side keep what each of them keeps alone.                              *)
(***************************************************************************)
EXTENDS MCServices, ObservationSequencer_proofs, NotificationEngine_proofs,
        WeatherWatch_proofs, Mf7025_proofs, TLAPS

\* The thread that has ended left the axis at rest; stop() returns after it has ended,
\* and no thread is started while stop() waits.
EndedInv ==
  /\ pad_at = "off" => axis # "pad"
  /\ pad_stop = "done" => pad_at = "off"

\* The inductive invariant.
PadInv == PadTypeOK /\ EndedInv

\* No thread runs at first.
LEMMA PadInitInv == PadInit => PadInv
<1> SUFFICES ASSUME PadInit PROVE PadInv
  OBVIOUS
<1>1. pad \in [connected: BOOLEAN, use: Uses]
  BY DEF PadInit, Uses, Sticks
<1>2. PadTypeOK
  BY <1>1 DEF PadInit, PadTypeOK, Uses, Sticks
<1> QED BY <1>2 DEF PadInit, PadInv, EndedInv

\* A step of the user, the mount or an RPC preserves the invariant.
LEMMA CallKeepsPadInv ==
  ASSUME PadInv, UsePad \/ MountActs \/ StartGamepad \/ SetMode \/ StopGamepad \/ HoldTime
  PROVE  PadInv'
<1> USE DEF PadInv, ctrlVars, mountVars
<1>1. CASE UsePad
  <2>1. pad' \in [connected: BOOLEAN, use: Uses]
    BY <1>1 DEF UsePad, PadTypeOK
  <2> QED BY <1>1, <2>1 DEF UsePad, PadTypeOK, EndedInv
<1>2. CASE SetMode
  <2>1. raw_mode' \in BOOLEAN
    BY <1>2 DEF SetMode
  <2> QED BY <1>2, <2>1 DEF SetMode, PadTypeOK, EndedInv
<1>3. CASE MountActs \/ StartGamepad \/ StopGamepad \/ HoldTime
  <2>1. PadTypeOK'
    <3>1. CASE MountActs
      BY <3>1 DEF MountActs, PadTypeOK
    <3>2. CASE StartGamepad
      BY <3>2 DEF StartGamepad, PadTypeOK
    <3>3. CASE StopGamepad
      BY <3>3 DEF StopGamepad, PadTypeOK
    <3>4. CASE HoldTime
      BY <3>4 DEF HoldTime, PadTypeOK
    <3> QED BY <1>3, <3>1, <3>2, <3>3, <3>4
  <2>2. EndedInv'
    BY <1>3 DEF MountActs, StartGamepad, StopGamepad, HoldTime, EndedInv
  <2> QED BY <2>1, <2>2
<1> QED BY <1>1, <1>2, <1>3

\* A step of the thread preserves the invariant.
LEMMA ThreadKeepsPadInv == PadInv /\ PadStep => PadInv'
<1> SUFFICES ASSUME PadInv, PadStep PROVE PadInv'
  OBVIOUS
<1> USE DEF PadInv, PadGoes, PadEnds, mountVars, Uses, Buttons, Sticks
<1>1. CASE Poll
  BY <1>1 DEF Poll, PadTypeOK, EndedInv
<1>2. CASE ActEmergency
  BY <1>2 DEF ActEmergency, PadTypeOK, EndedInv
<1>3. CASE ActButton
  <2>1. raw_mode' \in BOOLEAN
    BY <1>3 DEF ActButton, PadTypeOK
  <2>2. axis' \in {"still", "pad", "mount", "off"} /\ mount_state' \in {"IDLE", "BUSY", "ERROR"}
    BY <1>3 DEF ActButton, PadTypeOK
  <2> QED BY <1>3, <2>1, <2>2 DEF ActButton, PadTypeOK, EndedInv
<1>4. CASE ActStick
  BY <1>4 DEF ActStick, PadTypeOK, EndedInv
<1>5. CASE Steer
  <2>1. axis_active' \in BOOLEAN
    BY <1>5 DEF Steer, Deflected
  <2>2. axis' \in {"still", "pad", "mount", "off"}
    BY <1>5 DEF Steer, Turned, PadTypeOK
  <2> QED BY <1>5, <2>1, <2>2 DEF Steer, PadTypeOK, EndedInv
<1>6. CASE Exit
  BY <1>6 DEF Exit, PadTypeOK, EndedInv
<1> QED BY <1>1, <1>2, <1>3, <1>4, <1>5, <1>6 DEF PadStep

\* Every step preserves the invariant.
LEMMA PadStepInv == PadInv /\ [PadNext]_padVars => PadInv'
<1>1. PadInv /\ UNCHANGED padVars => PadInv'
  BY DEF padVars, ctrlVars, mountVars, PadInv, PadTypeOK, EndedInv
<1> QED BY <1>1, CallKeepsPadInv, ThreadKeepsPadInv DEF PadNext

\* No axis turns by the pad after stopGamepad().
THEOREM PadAlwaysHalts == PadSpec => []PadExitHalts
<1>1. PadInv => PadExitHalts
  BY DEF PadInv, EndedInv, PadExitHalts
<1> QED BY PadInitInv, PadStepInv, <1>1, PTL DEF PadSpec

-----------------------------------------------------------------------------
(* The guider.                                                              *)

\* A call that has joined the reader finds no thread, pulse or socket until it starts one,
\* and none is left when it ends with the guider off.
GuiderInv ==
  /\ St4TypeOK
  /\ pulsing => phd2_reader = "pulse"
  /\ guide_call \in {"join", "undo_join", "connect", "off"} => phd2_fd_ = "none"
  /\ guide_call \in {"connect", "off"} => phd2_reader = "none"
  /\ OffIsOff

\* The guider starts switched off, without a connection.
LEMMA GuiderInitInv == St4Init => GuiderInv
BY DEF St4Init, GuiderInv, St4TypeOK, OffIsOff

\* A step of an RPC preserves the invariant.
LEMMA CallKeepsGuiderInv ==
  ASSUME GuiderInv, StartGuiding \/ StopGuiding \/ GuideCallStep
  PROVE  GuiderInv'
<1> USE DEF GuiderInv, St4TypeOK, OffIsOff, CallGoes, socketVars, readerVars
<1>1. CASE StartGuiding
  BY <1>1 DEF StartGuiding
<1>2. CASE StopGuiding
  BY <1>2 DEF StopGuiding
<1>3. CASE ReleaseSocket
  BY <1>3 DEF ReleaseSocket
<1>4. CASE JoinReader
  BY <1>4 DEF JoinReader
<1>5. CASE ConnectPhd2
  <2>1. CASE guide_call' = "send"
    <3>1. guide_active' \in BOOLEAN /\ guiding_' \in BOOLEAN /\ ~pulsing' /\ phd2_connected_'
      BY <1>5, <2>1 DEF ConnectPhd2
    <3> QED BY <1>5, <2>1, <3>1 DEF ConnectPhd2
  <2>2. CASE guide_call' = "off"
    BY <1>5, <2>2 DEF ConnectPhd2
  <2> QED BY <1>5, <2>1, <2>2 DEF ConnectPhd2
<1>6. CASE SendStartGuiding
  <2>1. guide_active' \in BOOLEAN /\ guiding_' \in BOOLEAN
    BY <1>6 DEF SendStartGuiding
  <2>2. guide_call' = "no" => guide_active'
    BY <1>6 DEF SendStartGuiding
  <2> QED BY <1>6, <2>1, <2>2 DEF SendStartGuiding
<1>7. CASE SwitchOff
  BY <1>7 DEF SwitchOff
<1> QED BY <1>1, <1>2, <1>3, <1>4, <1>5, <1>6, <1>7 DEF GuideCallStep

\* A step of the reader, or PHD2's departure, preserves the invariant.
LEMMA ReaderKeepsGuiderInv ==
  ASSUME GuiderInv, Phd2ReaderStep \/ Phd2Leaves
  PROVE  GuiderInv'
<1> USE DEF GuiderInv, St4TypeOK, OffIsOff, Phd2Goes, guideVars, socketVars, readerVars
<1>1. CASE CheckLink
  BY <1>1 DEF CheckLink
<1>2. CASE Receive
  <2>1. phd2_connected_' \in BOOLEAN
    BY <1>2 DEF Receive
  <2> QED BY <1>2, <2>1 DEF Receive
<1>3. CASE HandleEvent
  <2>1. guiding_' \in BOOLEAN /\ pulsing' \in BOOLEAN
    BY <1>3 DEF HandleEvent
  <2>2. pulsing' => phd2_reader' = "pulse"
    BY <1>3 DEF HandleEvent
  <2>3. guide_call = "no" => guide_active
    BY <1>3 DEF HandleEvent
  <2> QED BY <1>3, <2>1, <2>2, <2>3 DEF HandleEvent
<1>4. CASE EndPulse
  <2>1. pulsing' \in BOOLEAN /\ ~pulsing'
    BY <1>4 DEF EndPulse
  <2> QED BY <1>4, <2>1 DEF EndPulse
<1>5. CASE Phd2Leaves
  BY <1>5 DEF Phd2Leaves
<1> QED BY <1>1, <1>2, <1>3, <1>4, <1>5 DEF Phd2ReaderStep

\* Every step preserves the invariant.
LEMMA GuiderStepInv == GuiderInv /\ [St4Next]_guiderVars => GuiderInv'
<1>1. GuiderInv /\ UNCHANGED guiderVars => GuiderInv'
  BY DEF guiderVars, guideVars, socketVars, readerVars, GuiderInv, St4TypeOK, OffIsOff
<1> QED BY <1>1, CallKeepsGuiderInv, ReaderKeepsGuiderInv DEF St4Next

\* A guider that StopGuiding() or a failed StartGuiding() has left off stays off.
THEOREM OffStaysOff == St4Spec => []OffIsOff
<1>1. GuiderInv => OffIsOff
  BY DEF GuiderInv
<1> QED BY GuiderInitInv, GuiderStepInv, <1>1, PTL DEF St4Spec

-----------------------------------------------------------------------------
(* The PID calibration.                                                     *)

\* The request to stop outlives the calibration that it is made of: while it has not been
\* made no measurement was cut, and the worker finishes only when nothing is left to test.
PidInv ==
  /\ PidTypeOK
  /\ pid_running <=> pid_worker # "off"
  /\ pid_running /\ ~stop_requested_ => ~pid_cut
  /\ pid_worker = "measure" => pid_tested < Combinations
  /\ pid_worker = "finish" /\ ~stop_requested_ => pid_tested = Combinations
  /\ pid_worker \in {"next", "measure", "rest", "finish"} => pid_state = "RUNNING"
  /\ CompletedMeansAll

\* The service starts idle.
LEMMA PidInitInv == PidInit => PidInv
<1> SUFFICES ASSUME PidInit PROVE PidInv
  OBVIOUS
<1>1. PidTypeOK
  <2>1. /\ pid_running \in BOOLEAN /\ stop_requested_ \in BOOLEAN /\ pid_cut \in BOOLEAN
        /\ pid_handle \in BOOLEAN /\ pid_crashed \in BOOLEAN
    BY DEF PidInit
  <2> QED BY <2>1, PidAssumption DEF PidInit, PidTypeOK
<1>2. ~pid_running
  BY DEF PidInit
<1> QED BY <1>1, <1>2 DEF PidInit, PidInv, CompletedMeansAll

\* A step of an RPC, or the axis coming to rest, preserves the invariant.
LEMMA CallKeepsPidInv ==
  ASSUME PidInv, StartCalibration \/ AssignWorker \/ StopCalibration \/ AxisRests
  PROVE  PidInv'
<1> USE PidAssumption
    DEF PidInv, PidTypeOK, CompletedMeansAll, resultVars, handleVars, pidFlags
<1>1. CASE StartCalibration
  <2>1. pid_running' \in BOOLEAN /\ stop_requested_' \in BOOLEAN /\ pid_cut' \in BOOLEAN
        /\ pid_handle' \in BOOLEAN
    BY <1>1 DEF StartCalibration
  <2>2. pid_running' /\ ~pid_cut'
    BY <1>1 DEF StartCalibration
  <2> QED BY <1>1, <2>1, <2>2 DEF StartCalibration
<1>2. CASE AssignWorker
  <2>1. pid_crashed' \in BOOLEAN
    BY <1>2 DEF AssignWorker
  <2> QED BY <1>2, <2>1 DEF AssignWorker
<1>3. CASE StopCalibration
  <2>1. stop_requested_' \in BOOLEAN /\ stop_requested_'
    BY <1>3 DEF StopCalibration
  <2> QED BY <1>3, <2>1 DEF StopCalibration
<1>4. CASE AxisRests
  BY <1>4 DEF AxisRests
<1> QED BY <1>1, <1>2, <1>3, <1>4

\* A step of the worker preserves the invariant.
LEMMA WorkerKeepsPidInv ==
  ASSUME PidInv, CalibrationStep
  PROVE  PidInv'
<1> USE PidAssumption
    DEF PidInv, PidTypeOK, CompletedMeansAll, WorkerGoes, resultVars, handleVars, pidFlags
<1>1. CASE TryNext
  <2>1. pid_axis' \in {"still", "driven", "stopping"}
    BY <1>1 DEF TryNext
  <2> QED BY <1>1, <2>1 DEF TryNext
<1>2. CASE Measure
  <2>1. pid_cut' \in BOOLEAN /\ (pid_running /\ ~stop_requested_ => ~pid_cut')
    BY <1>2 DEF Measure
  <2> QED BY <1>2, <2>1 DEF Measure
<1>3. CASE WaitForAxisStop
  BY <1>3 DEF WaitForAxisStop
<1>4. CASE FinishCalibration
  BY <1>4 DEF FinishCalibration
<1>5. CASE Leave
  BY <1>5 DEF Leave
<1> QED BY <1>1, <1>2, <1>3, <1>4, <1>5 DEF CalibrationStep

\* Every step preserves the invariant.
LEMMA PidStepInv == PidInv /\ [PidNext]_pidVars => PidInv'
<1>1. PidInv /\ UNCHANGED pidVars => PidInv'
  BY DEF pidVars, resultVars, handleVars, pidFlags, PidInv, PidTypeOK, CompletedMeansAll
<1> QED BY <1>1, CallKeepsPidInv, WorkerKeepsPidInv DEF PidNext

\* A calibration reported as completed has tested every combination for its whole time.
THEOREM CompletedIsComplete == PidSpec => []CompletedMeansAll
<1>1. PidInv => CompletedMeansAll
  BY DEF PidInv
<1> QED BY PidInitInv, PidStepInv, <1>1, PTL DEF PidSpec


-----------------------------------------------------------------------------
(* The meridian flip.                                                       *)

\* The loop is in MERIDIAN_FLIP while a flip is in progress only, and a flip that is "in
\* progress" in another state has failed or was left by a stop(), a Goto or a park().
FlipInv ==
  /\ FlipTypeOK
  /\ flip.state = "MERIDIAN_FLIP" => flip.in_progress
  /\ flip.in_progress => flip.state \in {"MERIDIAN_FLIP", "ERROR"} \/ left_in_flip

\* What FlipInv asks of the flip's fields.
FlipOK(f, left) ==
  /\ f \in FlipRecords
  /\ f.state = "MERIDIAN_FLIP" => f.in_progress
  /\ f.in_progress => f.state \in {"MERIDIAN_FLIP", "ERROR"} \/ left

\* The cooldown and the pier side keep the fields in order.
LEMMA SidedOK ==
  ASSUME NEW f, NEW left, FlipOK(f, left)
  PROVE  /\ FlipOK(Sided(Cooled(f)), left)
         /\ Sided(Cooled(f)).state = f.state
         /\ Sided(Cooled(f)).in_progress = f.in_progress
         /\ FlipOK(Cooled(f), left)
         /\ Cooled(f).in_progress = f.in_progress
<1> DEFINE g == Cooled(f)
<1>1. f.soft_limit_cooldown \in 0 .. FlipCooldown
  BY DEF FlipOK, FlipRecords
<1>2. (IF f.soft_limit_cooldown > 0 THEN f.soft_limit_cooldown - 1
         ELSE f.soft_limit_cooldown) \in 0 .. FlipCooldown
  BY <1>1, FlipAssumption
<1>3. FlipOK(g, left) /\ g.state = f.state /\ g.in_progress = f.in_progress
  BY <1>2 DEF FlipOK, FlipRecords, Cooled
<1> HIDE DEF g
<1>4. FlipOK(Sided(g), left) /\ Sided(g).state = g.state
      /\ Sided(g).in_progress = g.in_progress
  BY <1>3 DEF FlipOK, FlipRecords, Sided
<1> QED BY <1>3, <1>4 DEF g

\* Executing a flip leaves it in progress, or tracks with the flip over.
LEMMA ExecutedOK ==
  ASSUME NEW f, NEW left, FlipOK(f, left), Flipping(f), NEW reached \in BOOLEAN
  PROVE  FlipOK(FlipExecuted(f, reached), left)
<1>1. FlipCooldown \in 0 .. FlipCooldown
  BY FlipAssumption
<1> QED BY <1>1 DEF FlipOK, FlipRecords, Flipping, FlipExecuted

\* A flip that starts is in progress.
LEMMA StartedOK ==
  ASSUME NEW f, NEW left, FlipOK(f, left), NEW sent \in BOOLEAN
  PROVE  FlipOK(FlipStarted(f, sent), left) /\ Flipping(FlipStarted(f, sent))
  BY DEF FlipOK, FlipRecords, FlipStarted, Flipping

\* An iteration of the tracking loop preserves the invariant.
LEMMA IterateKeepsFlipInv == FlipInv /\ Iterate => FlipInv'
<1> SUFFICES ASSUME FlipInv, Iterate PROVE FlipInv'
  OBVIOUS
<1> DEFINE f == Sided(Cooled(flip))
<1>1. FlipOK(flip, left_in_flip)
  BY DEF FlipInv, FlipTypeOK, FlipOK
<1>2. /\ FlipOK(f, left_in_flip) /\ f.state = flip.state
      /\ f.in_progress = flip.in_progress
      /\ FlipOK(Cooled(flip), left_in_flip)
      /\ Cooled(flip).in_progress = flip.in_progress
  BY <1>1, SidedOK
<1>3. /\ FlipOK(flip', left_in_flip) /\ UNCHANGED left_in_flip
      /\ ha_zone' = ha_zone /\ outside_limits' = outside_limits
      /\ delay_over' \in BOOLEAN /\ flip_timed_out' \in BOOLEAN
  <2> USE DEF flipClock, FlipInv, FlipTypeOK
  <2>1. CASE IterateIntoLimit
    <3>1. flip' = [Cooled(flip) EXCEPT !.state = "ERROR"]
      BY <2>1 DEF IterateIntoLimit
    <3>2. FlipOK(flip', left_in_flip)
      BY <1>2, <3>1 DEF FlipOK, FlipRecords
    <3> QED BY <2>1, <3>2 DEF IterateIntoLimit
  <2>2. CASE IterateTracking
    <3>1. PICK feasible \in BOOLEAN :
            /\ flip' = [f EXCEPT !.pending = @ \/ FlipDetected(f, feasible)]
            /\ delay_over' = (delay_over /\ ~FlipDetected(f, feasible))
      BY <2>2 DEF IterateTracking
    <3> DEFINE detected == FlipDetected(f, feasible)
    <3>2. (f.pending \/ detected) \in BOOLEAN /\ (delay_over /\ ~detected) \in BOOLEAN
      OBVIOUS
    <3> HIDE DEF f, detected
    <3>3. FlipOK([f EXCEPT !.pending = f.pending \/ detected], left_in_flip)
      BY <1>2, <3>2 DEF FlipOK, FlipRecords
    <3> QED BY <2>2, <3>1, <3>2, <3>3 DEF IterateTracking, detected
  <2>3. CASE IterateIntoFlip
    <3>1. PICK reached \in BOOLEAN : flip' = FlipExecuted(FlipStarted(f, FALSE), reached)
      BY <2>3 DEF IterateIntoFlip
    <3>2. FlipOK(flip', left_in_flip)
      BY <1>2, <3>1, StartedOK, ExecutedOK
    <3> QED BY <2>3, <3>2 DEF IterateIntoFlip
  <2>4. CASE IterateFlip
    <3>1. Flipping(f)
      BY <1>2, <2>4 DEF IterateFlip, Flipping
    <3>2. CASE flip' = FlipTimedOut(f)
      <4> HIDE DEF f
      <4>1. FlipOK(flip', left_in_flip)
        BY <1>2, <3>2 DEF FlipOK, FlipRecords, FlipTimedOut
      <4> QED BY <2>4, <4>1 DEF IterateFlip
    <3>3. CASE \E reached \in BOOLEAN : flip' = FlipExecuted(f, reached)
      <4>1. FlipOK(flip', left_in_flip)
        BY <1>2, <3>1, <3>3, ExecutedOK
      <4> QED BY <2>4, <4>1 DEF IterateFlip
    <3> QED BY <2>4, <3>2, <3>3 DEF IterateFlip
  <2> QED BY <2>1, <2>2, <2>3, <2>4 DEF Iterate
<1> QED BY <1>3 DEF FlipInv, FlipTypeOK, FlipOK

\* What leaves a flip as it is notes that a flip in progress was left.
LEMMA LeavingKeepsFlipInv ==
  ASSUME FlipInv,
         NEW state \in {"IDLE", "SLEWING", "PARKING"}, LeavesFlip(state)
  PROVE  FlipInv'
BY DEF LeavesFlip, FlipInv, FlipTypeOK, flipClock, FlipRecords

\* A call, a fault, the end of a move or the drift of the axes preserves the invariant.
LEMMA CallKeepsFlipInv ==
  FlipInv /\ (FlipCall \/ MountFails \/ MoveEnds \/ Drift) => FlipInv'
<1> SUFFICES ASSUME FlipInv, FlipCall \/ MountFails \/ MoveEnds \/ Drift PROVE FlipInv'
  OBVIOUS
<1> USE DEF FlipInv, FlipTypeOK, flipClock, FlipRecords
<1>0. 0 \in 0 .. FlipCooldown
  BY FlipAssumption
<1>1. CASE StartsTracking \/ MountFails
  BY <1>1 DEF StartsTracking, MountFails
<1>2. CASE FlipManually
  BY <1>2 DEF FlipManually, FlipStarted
<1>3. CASE SlewsMount \/ ParksMount \/ UnparksMount
  BY <1>3, LeavingKeepsFlipInv DEF SlewsMount, ParksMount, UnparksMount
<1>4. CASE StopsMount
  <2>1. CASE LeavesFlip("IDLE")
    BY <2>1, LeavingKeepsFlipInv
  <2>2. CASE ~LeavesFlip("IDLE")
    BY <1>0, <1>4, <2>2 DEF StopsMount, FlagsReset
  <2> QED BY <2>1, <2>2
<1>5. CASE ClearFlip
  BY <1>0, <1>5 DEF ClearFlip, FlagsReset
<1>6. CASE HomesMount
  BY <1>6 DEF HomesMount
<1>7. CASE MoveEnds
  BY <1>7 DEF MoveEnds
<1>8. CASE Drift
  <2>1. /\ UNCHANGED <<flip, left_in_flip>>
        /\ ha_zone' \in {"east", "near", "west"} /\ outside_limits' \in BOOLEAN
        /\ delay_over' \in BOOLEAN /\ flip_timed_out' \in BOOLEAN
    BY <1>8 DEF Drift
  <2> QED BY <2>1
<1> QED BY <1>1, <1>2, <1>3, <1>4, <1>5, <1>6, <1>7, <1>8 DEF FlipCall

\* No flip is in progress at first.
LEMMA FlipInitInv == FlipInit => FlipInv
<1> SUFFICES ASSUME FlipInit PROVE FlipInv
  OBVIOUS
<1>1. 0 \in 0 .. FlipCooldown
  BY FlipAssumption
<1>2. flip \in FlipRecords /\ flip.state = "IDLE" /\ ~flip.in_progress
  BY <1>1 DEF FlipInit, FlipRecords
<1>3. FlipTypeOK
  BY <1>2 DEF FlipInit, FlipTypeOK
<1> QED BY <1>2, <1>3 DEF FlipInv

\* Every step preserves the invariant.
LEMMA FlipStepInv == FlipInv /\ [FlipNext]_flipVars => FlipInv'
<1>1. FlipInv /\ UNCHANGED flipVars => FlipInv'
  BY DEF flipVars, flipClock, FlipInv, FlipTypeOK
<1> QED BY <1>1, IterateKeepsFlipInv, CallKeepsFlipInv DEF FlipNext


\* A flip that counts as in progress outside MERIDIAN_FLIP, where it suspends the soft
\* limits of whatever the mount does next, has failed and waits for the error to be
\* cleared, or a stop(), a Goto or a park() took the mount out of it.
FlipSuspends ==
  flip.in_progress /\ flip.state \notin {"MERIDIAN_FLIP", "ERROR"} => left_in_flip

\* A flip that completes, times out, fails and is cleared, or is homed away does not keep
\* the soft limits suspended: only the three calls that leave one do, however flips, faults,
\* Gotos, parks, stops and homings follow each other and for any length of the cooldown.
THEOREM FlipSuspendsLimits == FlipSpec => [](FlipTypeOK /\ FlipSuspends)
<1>1. FlipInv => FlipTypeOK /\ FlipSuspends
  BY DEF FlipInv, FlipSuspends
<1> QED BY FlipInitInv, FlipStepInv, <1>1, PTL DEF FlipSpec

-----------------------------------------------------------------------------
(* The components side by side.                                             *)

\* At first every component is as it starts alone.
LEMMA ServicesInitAll ==
  ServicesInit =>
    /\ SeqInit /\ NoteInit /\ WeatherInit /\ CanInit /\ MotorInit /\ FlipInit /\ PadInit
    /\ St4Init /\ PidInit /\ IoInit /\ service \in Services
  BY DEF ServicesInit

\* A step is one of a component's own and none of the others'.
LEMMA ServicesStepAll ==
  [ServicesNext]_servicesVars =>
    /\ [SeqNext]_seqVars /\ [NoteNext]_noteVars /\ [WeatherNext]_weatherVars
    /\ [CanNext]_canVars /\ [MotorNext]_motorVars /\ [FlipNext]_flipVars
    /\ [PadNext]_padVars /\ [St4Next]_guiderVars /\ [PidNext]_pidVars
    /\ [IoNext]_ioVars /\ UNCHANGED service
<1> SUFFICES ASSUME [ServicesNext]_servicesVars
             PROVE  /\ [SeqNext]_seqVars /\ [NoteNext]_noteVars /\ [WeatherNext]_weatherVars
                    /\ [CanNext]_canVars /\ [MotorNext]_motorVars /\ [FlipNext]_flipVars
                    /\ [PadNext]_padVars /\ [St4Next]_guiderVars /\ [PidNext]_pidVars
                    /\ [IoNext]_ioVars /\ UNCHANGED service
  OBVIOUS
<1>1. CASE UNCHANGED servicesVars
  BY <1>1 DEF servicesVars
<1>2. CASE ServicesNext
  BY <1>2 DEF ServicesNext
<1> QED BY <1>1, <1>2

\* Side by side the components implement each of them alone, so that the theorems about
\* one hold of the instance that is checked, too.
THEOREM ServicesImplementAll ==
  ServicesSpec =>
    /\ SeqSpec /\ NoteSpec /\ WeatherSpec /\ CanSpec /\ MotorSpec /\ FlipSpec
    /\ PadSpec /\ St4Spec /\ PidSpec /\ IoSpec
BY ServicesInitAll, ServicesStepAll, PTL
   DEF ServicesSpec, SeqSpec, NoteSpec, WeatherSpec, CanSpec, MotorSpec, FlipSpec, PadSpec,
       St4Spec, PidSpec, IoSpec

\* The variables of the components keep their types, for any values of the constants:
\* queues, streams and counters stay within their bounds. (IoTypeCorrect says it of the
\* tracking session.)
THEOREM ServicesTypes == ServicesSpec => []ServicesTypeOK
<1>1. SeqSpec => []SeqTypeOK
  BY SeqTypes
<1>2. NoteInv => NoteTypeOK
  BY DEF NoteInv
<1>3. WeatherInv => WeatherTypeOK
  BY DEF WeatherInv
<1>4. CanInv => CanTypeOK
  BY DEF CanInv
<1>5. MotorInv => MotorTypeOK
  BY DEF MotorInv
<1>6. FlipInv => FlipTypeOK
  BY DEF FlipInv
<1>7. PadInv => PadTypeOK
  BY DEF PadInv
<1>8. GuiderInv => St4TypeOK
  BY DEF GuiderInv
<1>9. PidInv => PidTypeOK
  BY DEF PidInv
<1>10. ServicesSpec => [](service \in Services)
  <2>1. service \in Services /\ UNCHANGED service => (service \in Services)'
    OBVIOUS
  <2> QED BY <2>1, ServicesInitAll, ServicesStepAll, PTL DEF ServicesSpec
<1>11. /\ service \in Services
       /\ SeqTypeOK /\ NoteTypeOK /\ WeatherTypeOK /\ CanTypeOK /\ MotorTypeOK /\ FlipTypeOK
       /\ PadTypeOK /\ St4TypeOK /\ PidTypeOK
       => ServicesTypeOK
  BY DEF ServicesTypeOK
<1> QED
  BY <1>1, <1>2, <1>3, <1>4, <1>5, <1>6, <1>7, <1>8, <1>9, <1>10, <1>11,
     ServicesImplementAll, NoteInitInv, NoteStepInv, WeatherInitInv, WeatherStepInv,
     CanInitInv, CanStepInv, MotorInitInv, MotorStepInv, FlipInitInv, FlipStepInv,
     PadInitInv, PadStepInv, GuiderInitInv, GuiderStepInv, PidInitInv, PidStepInv, PTL
     DEF NoteSpec, WeatherSpec, CanSpec, MotorSpec, FlipSpec, PadSpec, St4Spec, PidSpec

=============================================================================
