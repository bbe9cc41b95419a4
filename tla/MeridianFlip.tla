----------------------------- MODULE MeridianFlip -----------------------------
(***************************************************************************)
(* What the tracking loop of an equatorial mount does about the meridian     *)
(* and the soft limits, which it does not look at while it flips, and the    *)
(* calls that end, leave, reset or start a flip.  One iteration is one hold  *)
(* of state_mutex_, and so is what a call does to the state; that a call     *)
(* joins the loop first is MountLifecycle's.  Where the drives are is not    *)
(* followed: that they report the flip's targets as reached may happen in    *)
(* any iteration, before the targets were sent or not at all.                *)
(***************************************************************************)
EXTENDS Integers

CONSTANT
  FlipCooldown   \* the iterations without soft limits after a flip, 10 in the code

ASSUME FlipAssumption == FlipCooldown \in Nat

VARIABLES
  flip,             \* state_ and the controller's flip fields
  ha_zone,          \* the hour angle: before, within or past the hysteresis zone
  outside_limits,   \* an axis is past a soft limit
  delay_over,       \* the delay since the flip became pending is over
  flip_timed_out,   \* meridian_flip_timeout_seconds have passed since it started
  left_in_flip      \* a stop(), a Goto or a park() has left a flip "in progress"

flipClock == <<delay_over, flip_timed_out>>
flipVars  == <<flip, ha_zone, outside_limits, flipClock, left_in_flip>>

FlipRecords ==
  [state: {"IDLE", "SLEWING", "TRACKING", "MERIDIAN_FLIP", "PARKING", "PARKED", "ERROR"},
   pending: BOOLEAN, in_progress: BOOLEAN, flipped: BOOLEAN, targets_sent: BOOLEAN,
   soft_limit_cooldown: 0 .. FlipCooldown, pier_side: {-1, 1}]

FlipTypeOK ==
  /\ flip \in FlipRecords
  /\ ha_zone \in {"east", "near", "west"}
  /\ outside_limits \in BOOLEAN
  /\ delay_over \in BOOLEAN /\ flip_timed_out \in BOOLEAN
  /\ left_in_flip \in BOOLEAN

FlipInit ==
  /\ flip = [state |-> "IDLE", pending |-> FALSE, in_progress |-> FALSE, flipped |-> FALSE,
             targets_sent |-> FALSE, soft_limit_cooldown |-> 0, pier_side |-> 1]
  /\ ha_zone = "near"
  /\ outside_limits = FALSE
  /\ delay_over = FALSE /\ flip_timed_out = FALSE
  /\ left_in_flip = FALSE

-----------------------------------------------------------------------------
(* One iteration of the tracking loop, in the order of its code.            *)

\* Bug: the cooldown only runs while a flip is in progress.
CooledInFlip(f) ==
  [f EXCEPT !.soft_limit_cooldown = IF @ > 0 /\ f.in_progress THEN @ - 1 ELSE @]

Cooled(f) == [f EXCEPT !.soft_limit_cooldown = IF @ > 0 THEN @ - 1 ELSE @]

LimitViolated(f) ==
  outside_limits /\ ~f.in_progress /\ f.soft_limit_cooldown <= 0

\* The pier side follows the hour angle; a flipped mount keeps it east of the meridian.
Sided(f) ==
  [f EXCEPT !.pier_side = IF ha_zone = "east" /\ ~f.flipped THEN 1
                          ELSE IF ha_zone = "west" /\ ~f.in_progress THEN -1 ELSE @]

\* feasible: the complementary Dec is inside the Dec limits.
FlipDetected(f, feasible) ==
  /\ f.state = "TRACKING" /\ ~f.pending /\ ~f.flipped
  /\ ha_zone = "west" /\ feasible

FlipDue(f) == f.state = "TRACKING" /\ f.pending /\ ~f.in_progress /\ delay_over

FlipStarted(f, sent) ==
  [f EXCEPT !.state = "MERIDIAN_FLIP", !.in_progress = TRUE, !.targets_sent = sent,
            !.pending = FALSE]

FlipTimedOut(f) == [f EXCEPT !.state = "ERROR", !.in_progress = FALSE]

\* The targets are sent once; reached: the drives report them, or the encoders show them.
FlipExecuted(f, reached) ==
  IF reached
    THEN [f EXCEPT !.targets_sent = TRUE, !.pier_side = -1, !.flipped = TRUE,
                   !.in_progress = FALSE, !.state = "TRACKING",
                   !.soft_limit_cooldown = FlipCooldown]
    ELSE [f EXCEPT !.targets_sent = TRUE]

Flipping(f) == f.state = "MERIDIAN_FLIP" /\ f.in_progress

\* A soft limit is reached: the loop ends with an error.
IterateIntoLimit ==
  /\ flip.state \in {"TRACKING", "MERIDIAN_FLIP"}
  /\ LimitViolated(Cooled(flip))
  /\ flip' = [Cooled(flip) EXCEPT !.state = "ERROR"]
  /\ UNCHANGED <<ha_zone, outside_limits, flipClock, left_in_flip>>

\* Tracking on, or a flip that becomes pending; its delay starts.
IterateTracking ==
  /\ flip.state = "TRACKING"
  /\ ~LimitViolated(Cooled(flip))
  /\ LET f == Sided(Cooled(flip)) IN
       /\ ~FlipDue(f)
       /\ \E feasible \in BOOLEAN :
            /\ flip' = [f EXCEPT !.pending = @ \/ FlipDetected(f, feasible)]
            /\ delay_over' = (delay_over /\ ~FlipDetected(f, feasible))
  /\ UNCHANGED <<ha_zone, outside_limits, flip_timed_out, left_in_flip>>

\* The delay is over: the flip starts and is executed in the same iteration.
IterateIntoFlip ==
  /\ ~LimitViolated(Cooled(flip))
  /\ LET f == Sided(Cooled(flip)) IN
       /\ FlipDue(f)
       /\ \E reached \in BOOLEAN : flip' = FlipExecuted(FlipStarted(f, FALSE), reached)
  /\ flip_timed_out' = FALSE
  /\ UNCHANGED <<ha_zone, outside_limits, delay_over, left_in_flip>>

IterateFlip ==
  /\ Flipping(flip)
  /\ LET f == Sided(Cooled(flip)) IN
       \/ flip_timed_out /\ flip' = FlipTimedOut(f)
       \/ ~flip_timed_out /\ \E reached \in BOOLEAN : flip' = FlipExecuted(f, reached)
  /\ UNCHANGED <<ha_zone, outside_limits, flipClock, left_in_flip>>

Iterate == IterateIntoLimit \/ IterateTracking \/ IterateIntoFlip \/ IterateFlip

\* An error of the loop's own, a watchdog or an emergency stop.
MountFails ==
  /\ flip.state # "ERROR"
  /\ flip' = [flip EXCEPT !.state = "ERROR"]
  /\ UNCHANGED <<ha_zone, outside_limits, flipClock, left_in_flip>>

\* A slew or a park ends.
MoveEnds ==
  /\ \/ flip.state \in {"SLEWING", "PARKING"} /\ flip' = [flip EXCEPT !.state = "IDLE"]
     \/ flip.state = "PARKING" /\ flip' = [flip EXCEPT !.state = "PARKED"]
  /\ UNCHANGED <<ha_zone, outside_limits, flipClock, left_in_flip>>

\* Tracking, or a move before it, brings the axes elsewhere; times pass.
Drift ==
  /\ \/ /\ flip.state \in {"IDLE", "SLEWING", "PARKING", "TRACKING"}
        /\ ha_zone' \in {"east", "near", "west"} /\ outside_limits' \in BOOLEAN
        /\ UNCHANGED flipClock
     \/ /\ flip.state = "MERIDIAN_FLIP" /\ outside_limits' \in BOOLEAN
        /\ flip_timed_out' = TRUE /\ UNCHANGED <<ha_zone, delay_over>>
     \/ /\ flip.pending /\ delay_over' = TRUE
        /\ UNCHANGED <<ha_zone, outside_limits, flip_timed_out>>
  /\ UNCHANGED <<flip, left_in_flip>>

-----------------------------------------------------------------------------
(* The calls.                                                               *)

\* From TRACKING and MERIDIAN_FLIP its stop() comes first.
StartsTracking ==
  /\ flip.state \in {"IDLE", "PARKED"}
  /\ flip' = [flip EXCEPT !.state = "TRACKING"]
  /\ UNCHANGED <<ha_zone, outside_limits, flipClock, left_in_flip>>

\* executeMeridianFlip(): targets_sent is still TRUE after an earlier flip.
FlipManually ==
  /\ flip.state = "TRACKING" /\ ~flip.in_progress
  /\ flip' = FlipStarted(flip, flip.targets_sent)
  /\ flip_timed_out' = FALSE
  /\ UNCHANGED <<ha_zone, outside_limits, delay_over, left_in_flip>>

FlagsReset(f) ==
  [f EXCEPT !.state = "IDLE", !.pending = FALSE, !.in_progress = FALSE,
            !.soft_limit_cooldown = 0]

\* The state changes and the flip's fields stay as they are.
LeavesFlip(state) ==
  /\ flip' = [flip EXCEPT !.state = state]
  /\ left_in_flip' = (left_in_flip \/ flip.in_progress)
  /\ UNCHANGED <<ha_zone, outside_limits, flipClock>>

\* A Goto; IDLE: its target is past a limit, or a drive refuses it.
SlewsMount == flip.state # "ERROR" /\ \E state \in {"SLEWING", "IDLE"} : LeavesFlip(state)

\* park(), which an error does not keep from moving.
ParksMount == flip.state \notin {"PARKING", "PARKED"} /\ LeavesFlip("PARKING")

UnparksMount == flip.state = "PARKED" /\ LeavesFlip("IDLE")

\* stop() resets the flip only when it finds an error.
StopsMount ==
  \/ /\ flip.state \in {"SLEWING", "TRACKING", "MERIDIAN_FLIP", "PARKING"}
     /\ LeavesFlip("IDLE")
  \/ /\ flip.state = "ERROR"
     /\ flip' = FlagsReset(flip)
     /\ left_in_flip' = FALSE
     /\ UNCHANGED <<ha_zone, outside_limits, flipClock>>

\* Bug: the flags are reset whatever the state.
ClearAnyFlip ==
  /\ flip' = [FlagsReset(flip) EXCEPT
                !.state = IF flip.state = "ERROR" THEN "IDLE" ELSE flip.state]
  /\ left_in_flip' = FALSE
  /\ UNCHANGED <<ha_zone, outside_limits, flipClock>>

ClearFlip ==
  /\ flip.state = "ERROR"
  /\ flip' = FlagsReset(flip)
  /\ left_in_flip' = FALSE
  /\ UNCHANGED <<ha_zone, outside_limits, flipClock>>

\* home(), the only call that allows another automatic flip.
HomesMount ==
  /\ flip.state \in {"IDLE", "ERROR"}
  /\ flip' = [flip EXCEPT !.state = "IDLE", !.pending = FALSE, !.in_progress = FALSE,
                          !.flipped = FALSE, !.pier_side = 1]
  /\ left_in_flip' = FALSE
  /\ UNCHANGED <<ha_zone, outside_limits, flipClock>>

FlipCall ==
  \/ SlewsMount \/ StartsTracking \/ FlipManually
  \/ ParksMount \/ UnparksMount
  \/ StopsMount \/ ClearFlip \/ HomesMount

FlipNext == Iterate \/ MountFails \/ MoveEnds \/ Drift \/ FlipCall

FlipSpec == FlipInit /\ [][FlipNext]_flipVars

-----------------------------------------------------------------------------
\* A flip ends, reached or timed out or ended by a call, even if the drives never report
\* it: the loop is not left in MERIDIAN_FLIP without a flip in progress.
FlipEnds == flip.state = "MERIDIAN_FLIP" ~> flip.state # "MERIDIAN_FLIP"

\* A mount that stays outside its soft limits stops tracking, although a flip suspends
\* the check and a completed one some iterations more, unless a stop(), a Goto or a park()
\* has taken the mount out of a flip before: the check then stays suspended.
LimitsWatched ==
  (flip.state = "TRACKING" /\ outside_limits)
    ~> (flip.state # "TRACKING" \/ ~outside_limits \/ left_in_flip)

=============================================================================
