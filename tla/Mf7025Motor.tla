----------------------------- MODULE Mf7025Motor -----------------------------
(***************************************************************************)
(* A motor of the MF7025v2 HAL: the operations of its clients' threads, each *)
(* under the motor's mutex_, the drive at the other end of the CAN bus, and *)
(* the monitor thread, which reads the drive's status without that mutex and *)
(* stores it afterwards.  A request that fails may have reached the drive or *)
(* not.  enable() holds the mutex that the emergency stop it calls takes.    *)
(* The CAN interface is open throughout.                                    *)
(***************************************************************************)
EXTENDS Naturals

CONSTANT
  CanFailureThreshold   \* CAN_FAILURE_THRESHOLD

ASSUME MotorAssumption == CanFailureThreshold \in Nat \ {0}

VARIABLES
  enabled_, error_state_, can_failures_, moving_,
  drive,          \* what the drive does
  off_lost,       \* the last request to switch the drive off did not reach it
  status_read,    \* the status the monitor holds: moving or not, or "none"
  estop_halfway,  \* emergencyStop() is between stop() and disable()
  self_locked     \* mutex_ is waited for by the thread that holds it

motorVars == <<enabled_, error_state_, can_failures_, moving_, drive, off_lost, status_read,
               estop_halfway, self_locked>>

Outcomes == {"ok", "unacknowledged", "lost"}
Reached(outcome) == outcome # "lost"

MotorTypeOK ==
  /\ enabled_ \in BOOLEAN /\ error_state_ \in BOOLEAN /\ moving_ \in BOOLEAN
  /\ can_failures_ \in 0 .. CanFailureThreshold
  /\ drive \in {"off", "still", "positioning", "slow", "fast"}
  /\ off_lost \in BOOLEAN
  /\ status_read \in {"none", "still", "moving"}
  /\ estop_halfway \in BOOLEAN /\ self_locked \in BOOLEAN

MotorInit ==
  /\ enabled_ = FALSE /\ error_state_ = FALSE /\ moving_ = FALSE
  /\ can_failures_ = 0
  /\ drive = "off" /\ off_lost = FALSE
  /\ status_read = "none"
  /\ estop_halfway = FALSE /\ self_locked = FALSE

-----------------------------------------------------------------------------
(* The motor's operations.                                                  *)

DriveDoes(outcome, does) == drive' = IF Reached(outcome) THEN does ELSE drive

\* A failure counts towards the dead-node latch, a success starts the count again.
CountFailure ==
  /\ can_failures_' = can_failures_ + 1
  /\ error_state_' = (can_failures_ + 1 >= CanFailureThreshold)

CountSuccess == can_failures_' = 0 /\ UNCHANGED error_state_

\* At the threshold emergencyStop() is called with mutex_ held: it never returns.
Enable(outcome) ==
  /\ ~error_state_
  /\ DriveDoes(outcome, IF drive = "off" THEN "still" ELSE drive)
  /\ \/ /\ outcome = "ok" /\ CountSuccess
        /\ enabled_' = TRUE /\ UNCHANGED self_locked
     \/ /\ outcome # "ok" /\ CountFailure
        /\ self_locked' = error_state_' /\ UNCHANGED enabled_
  /\ UNCHANGED <<moving_, off_lost, status_read, estop_halfway>>

\* Bug: the request is only sent to a motor that is thought to move.
DisableIfMoving(outcome) ==
  /\ DriveDoes(outcome, IF moving_ THEN "off" ELSE drive)
  /\ off_lost' = ~Reached(outcome)
  /\ enabled_' = FALSE /\ moving_' = FALSE
  /\ UNCHANGED <<error_state_, can_failures_, status_read, self_locked>>

Disable(outcome) ==
  /\ DriveDoes(outcome, "off")
  /\ off_lost' = ~Reached(outcome)
  /\ enabled_' = FALSE /\ moving_' = FALSE
  /\ UNCHANGED <<error_state_, can_failures_, status_read, self_locked>>

\* Bug: a motor with a latched error is still commanded.
SetPositionLatched(outcome) ==
  /\ enabled_
  /\ DriveDoes(outcome, "positioning")
  /\ \/ outcome = "ok" /\ CountSuccess /\ moving_' = TRUE
     \/ outcome # "ok" /\ CountFailure /\ UNCHANGED moving_
  /\ UNCHANGED <<enabled_, off_lost, status_read, estop_halfway, self_locked>>

\* Three attempts have one outcome: refused though the drive moves when each was executed
\* and none acknowledged.
SetPosition(outcome) ==
  /\ enabled_ /\ ~error_state_
  /\ DriveDoes(outcome, "positioning")
  /\ \/ outcome = "ok" /\ CountSuccess /\ moving_' = TRUE
     \/ outcome # "ok" /\ CountFailure /\ UNCHANGED moving_
  /\ UNCHANGED <<enabled_, off_lost, status_read, estop_halfway, self_locked>>

\* Speed control, and position control towards a far target when it fails; a failure of
\* both is not counted.  A zero velocity falls back to motorStop(), whose outcome is
\* not looked at.
SetVelocity(speed, outcome) ==
  /\ enabled_ /\ ~error_state_
  /\ DriveDoes(outcome, speed)
  /\ IF outcome = "ok"
       THEN CountSuccess /\ moving_' = (speed # "still")
       ELSE /\ UNCHANGED <<can_failures_, error_state_>>
            /\ moving_' = (speed # "still" /\ moving_)
  /\ UNCHANGED <<enabled_, off_lost, status_read, estop_halfway, self_locked>>

StopMotor(outcome) ==
  /\ DriveDoes(outcome, IF drive = "off" THEN "off" ELSE "still")
  /\ moving_' = FALSE
  /\ UNCHANGED <<enabled_, error_state_, can_failures_, off_lost, status_read, self_locked>>

ClearMotorErrors ==
  /\ error_state_' = FALSE /\ can_failures_' = 0
  /\ UNCHANGED <<enabled_, moving_, drive, off_lost, status_read, estop_halfway, self_locked>>

\* stop() and disable() each take the mutex: another operation may come between them.
EmergencyStopMotor(outcome) ==
  \/ ~estop_halfway /\ StopMotor(outcome) /\ estop_halfway' = TRUE
  \/ estop_halfway /\ Disable(outcome) /\ estop_halfway' = FALSE

MotorOperation ==
  \/ ClearMotorErrors
  \/ \E outcome \in Outcomes :
       \/ Enable(outcome) \/ SetPosition(outcome) \/ EmergencyStopMotor(outcome)
       \/ \E speed \in {"still", "slow", "fast"} : SetVelocity(speed, outcome)
       \/ (Disable(outcome) \/ StopMotor(outcome)) /\ UNCHANGED estop_halfway

-----------------------------------------------------------------------------
(* The drive and the monitor thread.                                        *)

DriveArrives ==
  /\ drive = "positioning"
  /\ drive' = "still"
  /\ UNCHANGED <<enabled_, error_state_, can_failures_, moving_, off_lost, status_read,
                 estop_halfway, self_locked>>

\* readStatus2(), in whole degrees per second: a slow axis and the ends of a move read 0.
ReadStatus2 ==
  /\ status_read = "none"
  /\ status_read' \in CASE drive = "fast" -> {"moving"}
                        [] drive = "positioning" -> {"moving", "still"}
                        [] OTHER -> {"still"}
  /\ UNCHANGED <<enabled_, error_state_, can_failures_, moving_, drive, off_lost,
                 estop_halfway, self_locked>>

\* Bug: a status is only believed when it says that the motor moves.
UpdateKeepsMoving ==
  /\ ~self_locked
  /\ status_read # "none"
  /\ moving_' = (moving_ \/ status_read = "moving")
  /\ status_read' = "none"
  /\ UNCHANGED <<enabled_, error_state_, can_failures_, drive, off_lost, estop_halfway,
                 self_locked>>

UpdateStatus ==
  /\ ~self_locked
  /\ status_read # "none"
  /\ moving_' = (status_read = "moving")
  /\ status_read' = "none"
  /\ UNCHANGED <<enabled_, error_state_, can_failures_, drive, off_lost, estop_halfway,
                 self_locked>>

MotorNext ==
  \/ ~self_locked /\ MotorOperation
  \/ DriveArrives \/ ReadStatus2 \/ UpdateStatus

MotorSpec == MotorInit /\ [][MotorNext]_motorVars

-----------------------------------------------------------------------------
\* A motor that was disabled cannot be turning, whatever other threads commanded between
\* the halves of an emergency stop and whatever status the monitor stored late, unless
\* the request that switches the drive off was lost.
DisabledIsOff == ~enabled_ /\ ~off_lost => drive \notin {"positioning", "slow", "fast"}

\* isMoving() comes to say what the drive does as long as it goes on doing it, although a
\* stop is reported before it is acknowledged and an old status may be stored late.
ReportFollowsDrive ==
  /\ drive \in {"off", "still"} ~> (~moving_ \/ drive \notin {"off", "still"} \/ self_locked)
  /\ drive = "fast" ~> (moving_ \/ drive # "fast" \/ self_locked)

=============================================================================
