----------------------------- MODULE TrackingIo -----------------------------
(***************************************************************************)
(* One split tracking session seen from its command snapshot: the           *)
(* computational loop publishes velocity, position, flip and stop commands  *)
(* into tracking_command_, the io writer thread copies the snapshot under   *)
(* command_mutex_ every tick and, after releasing it, emits what it copied. *)
(* The session ends by stop(), by the loop's ERROR exit, or goes on under   *)
(* an emergency stop.                                                       *)
(*                                                                          *)
(* A command's data is the sequence number it was published with, so that   *)
(* the model can tell which command a drive is executing.                   *)
(***************************************************************************)
EXTENDS Naturals

CONSTANTS
  MaxSeq,   \* bound on the number of commands published in a session
  Flips     \* BOOLEAN: the tracked object may cross the meridian

ASSUME MaxSeqAssumption == MaxSeq \in Nat
ASSUME FlipsAssumption == Flips \in BOOLEAN

VARIABLES
  tracking_command_,  \* the snapshot the publishers write
  cmd,                \* the io writer's copy of it
  writer,             \* where the io writer is
  last_pos_seq,       \* the io writer's local variables
  stop_latched,
  mode,               \* "velocity" or "position", fixed for the session
  calc,               \* where the computational loop is
  stop_call,          \* where a call of stop() is
  halting,            \* emergencyStop() has latched the stop, the drives still run
  active,             \* io_active_ and tracking_active_
  drives,             \* the command the drives execute: its kind and number
  moved, flown        \* the newest motion and the newest flip they were given

ioVars == <<tracking_command_, cmd, writer, last_pos_seq, stop_latched, mode, calc,
            stop_call, halting, active, drives, moved, flown>>

Numbers == 0 .. MaxSeq

\* motion: the number of the velocity or the position in the snapshot.
TrackingCommand ==
  [seq: Numbers, velocity_mode: BOOLEAN, pos_update_pending: BOOLEAN,
   flip_pending: BOOLEAN, stop_motors: BOOLEAN, motion: Numbers, flip: Numbers]

FreshCommand ==
  [seq |-> 0, velocity_mode |-> FALSE, pos_update_pending |-> FALSE,
   flip_pending |-> FALSE, stop_motors |-> FALSE, motion |-> 0, flip |-> 0]

\* "off": the drives are disabled and ignore every command.
Commands == [kind: {"off", "still", "motion", "flip"}, number: Numbers]

\* No number is newer than the snapshot it comes from.
NoneNewer ==
  /\ tracking_command_.motion <= tracking_command_.seq
  /\ tracking_command_.flip <= tracking_command_.seq
  /\ cmd.seq <= tracking_command_.seq
  /\ last_pos_seq <= cmd.seq

IoTypeOK ==
  /\ tracking_command_ \in TrackingCommand
  /\ NoneNewer
  /\ cmd \in TrackingCommand
  /\ writer \in {"tick", "copied", "latch", "flip", "flipSent", "position",
                 "positionSent", "velocity", "done"}
  /\ last_pos_seq \in Numbers
  /\ stop_latched \in BOOLEAN
  /\ mode \in {"velocity", "position"}
  /\ calc \in {"tracking", "flipping", "error", "halt", "clear", "done"}
  /\ stop_call \in {"no", "join", "halt", "done"}
  /\ halting \in BOOLEAN
  /\ active \in BOOLEAN
  /\ drives \in Commands
  /\ moved \in Numbers
  /\ flown \in Numbers

\* startTracking() has reset the snapshot, given the drives a first motion and
\* spawned the threads.
IoInit ==
  /\ tracking_command_ = FreshCommand
  /\ cmd = FreshCommand
  /\ writer = "tick"
  /\ last_pos_seq = 0
  /\ stop_latched = FALSE
  /\ mode \in {"velocity", "position"}
  /\ calc = "tracking"
  /\ stop_call = "no"
  /\ halting = FALSE
  /\ active = TRUE
  /\ drives = [kind |-> "motion", number |-> 0]
  /\ moved = 0
  /\ flown = 0

-----------------------------------------------------------------------------
(* The publishers.                                                          *)

writerVars == <<cmd, writer, last_pos_seq, stop_latched>>
driveVars  == <<drives, moved, flown>>
haltVars   == <<stop_call, halting>>

Given(command) == IF drives.kind = "off" THEN drives ELSE command

Still == [kind |-> "still", number |-> 0]
Off   == [kind |-> "off", number |-> 0]

NextSeq == tracking_command_.seq + 1

Published(update) ==
  /\ NextSeq <= MaxSeq
  /\ tracking_command_' = update

\* Bug: the velocity is published under the number of its predecessor.
publishVelocityUnnumbered ==
  /\ mode = "velocity"
  /\ Published([tracking_command_ EXCEPT !.velocity_mode = TRUE, !.motion = NextSeq])

publishVelocityCommand ==
  /\ mode = "velocity"
  /\ Published([tracking_command_ EXCEPT !.seq = NextSeq, !.velocity_mode = TRUE,
                                         !.motion = NextSeq])

publishPositionCommand ==
  /\ mode = "position"
  /\ Published([tracking_command_ EXCEPT !.seq = NextSeq, !.velocity_mode = FALSE,
                                         !.pos_update_pending = TRUE, !.motion = NextSeq])

\* One iteration of the computational loop in TRACKING.
CalcTrack ==
  /\ calc = "tracking" /\ active
  /\ publishVelocityCommand \/ publishPositionCommand
  /\ UNCHANGED <<writerVars, driveVars, mode, calc, haltVars, active>>

\* The meridian flip starts: its targets are published once.
CalcFlip ==
  /\ calc = "tracking" /\ active /\ Flips
  /\ calc' = "flipping"
  /\ Published([tracking_command_ EXCEPT !.seq = NextSeq, !.flip_pending = TRUE,
                                         !.flip = NextSeq])
  /\ UNCHANGED <<writerVars, driveVars, mode, haltVars, active>>

\* Both drives report their target reached, which they may do before they have been
\* given the flip's: the loop tracks again.
CalcFlipped ==
  /\ calc = "flipping" /\ active
  /\ calc' = "tracking"
  /\ UNCHANGED <<tracking_command_, writerVars, driveVars, mode, haltVars, active>>

\* ERROR exit: a fault, a soft limit or a flip that timed out.
CalcError ==
  /\ calc \in {"tracking", "flipping"} /\ active
  /\ calc' = "error"
  /\ UNCHANGED <<tracking_command_, writerVars, driveVars, mode, haltVars, active>>

\* publishStop(). At the bound the number stays: no later command is published.
CalcPublishStop ==
  /\ calc = "error"
  /\ calc' = "halt"
  /\ tracking_command_' = [tracking_command_ EXCEPT !.seq = IF NextSeq <= MaxSeq
                                                              THEN NextSeq ELSE @,
                                                    !.stop_motors = TRUE]
  /\ UNCHANGED <<writerVars, driveVars, mode, haltVars, active>>

CalcHalt ==
  /\ calc = "halt"
  /\ calc' = "clear"
  /\ drives' = Given(Still)
  /\ UNCHANGED <<tracking_command_, writerVars, moved, flown, mode, haltVars, active>>

\* The loop leaves: after an ERROR, because the flags were cleared, or because stop()
\* recovered the ERROR before the loop looked at it again.
CalcExit ==
  /\ \/ calc = "clear"
     \/ calc \in {"tracking", "flipping"} /\ ~active
     \/ calc = "error" /\ stop_call # "no"
  /\ calc' = "done"
  /\ active' = FALSE
  /\ UNCHANGED <<tracking_command_, writerVars, driveVars, mode, haltVars>>

Calc ==
  \/ CalcTrack \/ CalcFlip \/ CalcFlipped \/ CalcError \/ CalcPublishStop \/ CalcHalt
  \/ CalcExit

\* emergencyStop(): latch the stop, then disable the drives; the session goes on.
EmergencyStop ==
  /\ ~halting
  /\ halting' = TRUE
  /\ Published([tracking_command_ EXCEPT !.seq = NextSeq, !.stop_motors = TRUE])
  /\ UNCHANGED <<writerVars, driveVars, mode, calc, stop_call, active>>

EmergencyHalt ==
  /\ halting
  /\ halting' = FALSE
  /\ drives' = Off
  /\ UNCHANGED <<tracking_command_, writerVars, moved, flown, mode, calc, stop_call,
                 active>>

\* stop(): clear the flags, join the threads, stop the drives.
StopFlags ==
  /\ stop_call = "no"
  /\ stop_call' = "join"
  /\ active' = FALSE
  /\ UNCHANGED <<tracking_command_, writerVars, driveVars, mode, calc, halting>>

StopJoin ==
  /\ stop_call = "join"
  /\ writer = "done" /\ calc = "done"
  /\ stop_call' = "halt"
  /\ UNCHANGED <<tracking_command_, writerVars, driveVars, mode, calc, halting, active>>

StopHalt ==
  /\ stop_call = "halt"
  /\ stop_call' = "done"
  /\ drives' = Given(Still)
  /\ UNCHANGED <<tracking_command_, writerVars, moved, flown, mode, calc, halting, active>>

Stop == StopFlags \/ StopJoin \/ StopHalt

-----------------------------------------------------------------------------
(* trackingIoWriterLoop(): one tick is a copy under the lock, then a look at *)
(* the flags and an emission without it; a flip or a position is then marked *)
(* as sent under the lock.                                                   *)

publisherVars == <<tracking_command_, mode, calc, haltVars>>

\* What a tick does with the snapshot it has copied.
Chosen(c) ==
  CASE c.stop_motors -> "latch"
    [] ~c.stop_motors /\ ~active -> "done"
    [] ~c.stop_motors /\ active /\ c.flip_pending -> "flip"
    [] ~c.stop_motors /\ active /\ ~c.flip_pending /\ c.velocity_mode -> "velocity"
    [] OTHER -> IF c.pos_update_pending /\ c.seq # last_pos_seq THEN "position" ELSE "tick"

\* Bug: the flags are looked at before the snapshot, as "while (active)" would.
WriterTickFlagsFirst ==
  /\ writer = "tick"
  /\ cmd' = tracking_command_
  /\ writer' = IF active THEN "copied" ELSE "done"
  /\ UNCHANGED <<publisherVars, last_pos_seq, stop_latched, driveVars, active>>

WriterTick ==
  /\ writer = "tick"
  /\ cmd' = tracking_command_
  /\ writer' = "copied"
  /\ UNCHANGED <<publisherVars, last_pos_seq, stop_latched, driveVars, active>>

WriterChoose ==
  /\ writer = "copied"
  /\ writer' = Chosen(cmd)
  /\ UNCHANGED <<publisherVars, cmd, last_pos_seq, stop_latched, driveVars, active>>

WriterLatch ==
  /\ writer = "latch"
  /\ stop_latched' = TRUE
  /\ drives' = IF stop_latched THEN drives ELSE Given(Still)
  /\ writer' = IF active THEN "tick" ELSE "done"
  /\ UNCHANGED <<publisherVars, cmd, last_pos_seq, moved, flown, active>>

WriterFlip ==
  /\ writer = "flip"
  /\ drives' = Given([kind |-> "flip", number |-> cmd.flip])
  /\ flown' = cmd.flip
  /\ writer' = "flipSent"
  /\ UNCHANGED <<publisherVars, cmd, last_pos_seq, stop_latched, moved, active>>

\* Bug: the copy the tick worked on is written back with the flip marked as sent.
WriterFlipSentCopy ==
  /\ writer = "flipSent"
  /\ tracking_command_' = [cmd EXCEPT !.flip_pending = FALSE]
  /\ writer' = "tick"
  /\ UNCHANGED <<mode, calc, haltVars, cmd, last_pos_seq, stop_latched, driveVars, active>>

WriterFlipSent ==
  /\ writer = "flipSent"
  /\ tracking_command_' =
       [tracking_command_ EXCEPT !.flip_pending = @ /\ tracking_command_.seq # cmd.seq]
  /\ writer' = "tick"
  /\ UNCHANGED <<mode, calc, haltVars, cmd, last_pos_seq, stop_latched, driveVars, active>>

WriterVelocity ==
  /\ writer = "velocity"
  /\ drives' = Given([kind |-> "motion", number |-> cmd.motion])
  /\ moved' = cmd.motion
  /\ writer' = "tick"
  /\ UNCHANGED <<publisherVars, cmd, last_pos_seq, stop_latched, flown, active>>

WriterPosition ==
  /\ writer = "position"
  /\ drives' = Given([kind |-> "motion", number |-> cmd.motion])
  /\ moved' = cmd.motion
  /\ last_pos_seq' = cmd.seq
  /\ writer' = "positionSent"
  /\ UNCHANGED <<publisherVars, cmd, stop_latched, flown, active>>

\* Bug: the copy the tick worked on is written back with the position marked as sent.
WriterPositionSentCopy ==
  /\ writer = "positionSent"
  /\ tracking_command_' = [cmd EXCEPT !.pos_update_pending = FALSE]
  /\ writer' = "tick"
  /\ UNCHANGED <<mode, calc, haltVars, cmd, last_pos_seq, stop_latched, driveVars, active>>

\* Bug: the position is marked as sent even when a newer one was published meanwhile.
WriterPositionSentAlways ==
  /\ writer = "positionSent"
  /\ tracking_command_' = [tracking_command_ EXCEPT !.pos_update_pending = FALSE]
  /\ writer' = "tick"
  /\ UNCHANGED <<mode, calc, haltVars, cmd, last_pos_seq, stop_latched, driveVars, active>>

WriterPositionSent ==
  /\ writer = "positionSent"
  /\ tracking_command_' =
       [tracking_command_ EXCEPT !.pos_update_pending = @ /\ tracking_command_.seq # cmd.seq]
  /\ writer' = "tick"
  /\ UNCHANGED <<mode, calc, haltVars, cmd, last_pos_seq, stop_latched, driveVars, active>>

Writer ==
  \/ WriterTick \/ WriterChoose \/ WriterLatch \/ WriterFlip \/ WriterFlipSent
  \/ WriterVelocity \/ WriterPosition \/ WriterPositionSent

IoNext == Calc \/ EmergencyStop \/ EmergencyHalt \/ Stop \/ Writer

IoSpec == IoInit /\ [][IoNext]_ioVars

-----------------------------------------------------------------------------
(* What the snapshot promises.                                              *)

Motion == INSTANCE Mailbox WITH latest <- tracking_command_.motion, executed <- moved
Flip   == INSTANCE Mailbox WITH latest <- tracking_command_.flip, executed <- flown

\* The velocities and positions the drives are given are ever newer: whatever the order
\* of publications, copies, emissions and marks, a superseded one never comes back.
MotionIsMailbox == Motion!Spec

\* The same of the meridian flips.
FlipIsMailbox == Flip!Spec

\* A latched stop is "always honoured, even if the flags were cleared in the same
\* instant": when the threads of the session have ended and no emergencyStop() is still
\* about to disable the drives, they stand still.
StopWins ==
  (tracking_command_.stop_motors /\ writer = "done" /\ calc = "done" /\ ~halting)
    => drives.kind \in {"still", "off"}

\* "The drive's internal profile generator handles acceleration, cruise and
\* deceleration" of a flip whose targets were sent once: while the loop waits for the
\* drives to reach them, no velocity or position takes the drives away.
FlipHolds ==
  [][(calc = "flipping" /\ active /\ drives.kind = "flip") => drives'.kind # "motion"]_ioVars

-----------------------------------------------------------------------------
(* The operating system schedules the writer.                               *)

IoFairSpec == IoSpec /\ WF_ioVars(Writer)

\* No update is lost: a published velocity or position reaches the drives unless a newer
\* one overtakes it, a stop is latched or the session ends.
MotionReaches ==
  \A n \in 1 .. MaxSeq :
    tracking_command_.motion = n
      ~> (moved >= n \/ tracking_command_.motion > n \/ ~active
            \/ tracking_command_.stop_motors)

=============================================================================
