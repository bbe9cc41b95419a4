-------------------------- MODULE TrackingIo_proofs --------------------------
(***************************************************************************)
(* Theorems about TrackingIo for every MaxSeq: type correctness, the        *)
(* refinement of the mailbox by both kinds of command, and StopWins.        *)
(***************************************************************************)
EXTENDS TrackingIo, TLAPS

-----------------------------------------------------------------------------
(* What each update of the snapshot does to its fields.                     *)

\* A snapshot's fields have their types.
LEMMA Fields ==
  ASSUME NEW c \in TrackingCommand
  PROVE  /\ c.seq \in Numbers /\ c.motion \in Numbers /\ c.flip \in Numbers
         /\ c.velocity_mode \in BOOLEAN /\ c.pos_update_pending \in BOOLEAN
         /\ c.flip_pending \in BOOLEAN /\ c.stop_motors \in BOOLEAN
  BY DEF TrackingCommand

\* The empty snapshot.
LEMMA EmptySnapshot ==
  /\ FreshCommand \in TrackingCommand
  /\ FreshCommand.seq = 0 /\ FreshCommand.motion = 0 /\ FreshCommand.flip = 0
  /\ FreshCommand.stop_motors = FALSE
  BY MaxSeqAssumption DEF FreshCommand, TrackingCommand, Numbers

\* Marking the flip or the position as sent changes no number and no stop.
LEMMA MarkUpdate ==
  ASSUME NEW c \in TrackingCommand, NEW b \in BOOLEAN, NEW d,
         d = [c EXCEPT !.flip_pending = b] \/ d = [c EXCEPT !.pos_update_pending = b]
  PROVE  /\ d \in TrackingCommand
         /\ d.seq = c.seq /\ d.motion = c.motion /\ d.flip = c.flip
         /\ d.stop_motors = c.stop_motors
  BY DEF TrackingCommand

\* The numbers of a session.
LEMMA NumbersAreNaturals == Numbers \subseteq Nat /\ 0 \in Numbers
  BY MaxSeqAssumption DEF Numbers

LEMMA NextSeqInRange ==
  ASSUME tracking_command_ \in TrackingCommand, NextSeq <= MaxSeq
  PROVE  NextSeq \in Numbers /\ NextSeq = tracking_command_.seq + 1
  BY Fields, MaxSeqAssumption DEF NextSeq, Numbers

\* What the drives may be doing.
LEMMA CommandTypes ==
  /\ Still \in Commands /\ Off \in Commands
  /\ \A n \in Numbers : /\ [kind |-> "motion", number |-> n] \in Commands
                        /\ [kind |-> "flip", number |-> n] \in Commands
  BY NumbersAreNaturals DEF Still, Off, Commands

LEMMA GivenTypes ==
  ASSUME drives \in Commands, NEW c \in Commands
  PROVE  Given(c) \in Commands
  BY DEF Given

-----------------------------------------------------------------------------
(* The effect of a step on the snapshot and on the writer's copy of it.     *)

\* The fields the theorems speak of, for the snapshot and for the copy.
Sane ==
  /\ tracking_command_ \in TrackingCommand
  /\ cmd \in TrackingCommand

\* A publication gives the snapshot its next number, and that number to at most one of
\* its two kinds of command; a stop once latched stays latched.
Publishes ==
  /\ tracking_command_' \in TrackingCommand
  /\ tracking_command_.seq <= tracking_command_'.seq
  /\ \/ /\ tracking_command_'.motion = tracking_command_.motion
        /\ tracking_command_'.flip = tracking_command_.flip
     \/ /\ tracking_command_'.motion = tracking_command_.motion
        /\ tracking_command_'.flip = tracking_command_'.seq
        /\ tracking_command_'.seq = tracking_command_.seq + 1
     \/ /\ tracking_command_'.motion = tracking_command_'.seq
        /\ tracking_command_'.flip = tracking_command_.flip
        /\ tracking_command_'.seq = tracking_command_.seq + 1

\* The steps of the computational loop and of the calls publish in this sense.
LEMMA PublisherStep ==
  Sane /\ (Calc \/ EmergencyStop \/ EmergencyHalt \/ Stop) => Publishes
<1> SUFFICES ASSUME Sane, Calc \/ EmergencyStop \/ EmergencyHalt \/ Stop PROVE Publishes
  OBVIOUS
<1> DEFINE c == tracking_command_
<1>0. c.seq \in Nat /\ c.motion \in Nat /\ c.flip \in Nat
  BY Fields, NumbersAreNaturals DEF Sane
<1>1. CASE CalcTrack
  <2>1. CASE publishVelocityCommand
    <3> DEFINE n == NextSeq
    <3>1. tracking_command_' = [c EXCEPT !.seq = n, !.velocity_mode = TRUE, !.motion = n]
      BY <2>1 DEF publishVelocityCommand, Published
    <3>2. n \in Numbers /\ n = c.seq + 1
      BY <2>1, NextSeqInRange DEF Sane, publishVelocityCommand, Published
    <3> HIDE DEF n
    <3>3. /\ tracking_command_' \in TrackingCommand
          /\ tracking_command_'.seq = n
          /\ tracking_command_'.motion = n
          /\ tracking_command_'.flip = c.flip
      BY <3>1, <3>2 DEF Sane, TrackingCommand
    <3> QED BY <1>0, <3>2, <3>3 DEF Publishes
  <2>2. CASE publishPositionCommand
    <3> DEFINE n == NextSeq
    <3>1. tracking_command_' = [c EXCEPT !.seq = n, !.velocity_mode = FALSE,
                                               !.pos_update_pending = TRUE, !.motion = n]
      BY <2>2 DEF publishPositionCommand, Published
    <3>2. n \in Numbers /\ n = c.seq + 1
      BY <2>2, NextSeqInRange DEF Sane, publishPositionCommand, Published
    <3> HIDE DEF n
    <3>3. /\ tracking_command_' \in TrackingCommand
          /\ tracking_command_'.seq = n
          /\ tracking_command_'.motion = n
          /\ tracking_command_'.flip = c.flip
      BY <3>1, <3>2 DEF Sane, TrackingCommand
    <3> QED BY <1>0, <3>2, <3>3 DEF Publishes
  <2> QED BY <1>1, <2>1, <2>2 DEF CalcTrack
<1>2. CASE CalcFlip
  <2> DEFINE n == NextSeq
  <2>1. tracking_command_' = [c EXCEPT !.seq = n, !.flip_pending = TRUE, !.flip = n]
    BY <1>2 DEF CalcFlip, Published
  <2>2. n \in Numbers /\ n = c.seq + 1
    BY <1>2, NextSeqInRange DEF Sane, CalcFlip, Published
  <2> HIDE DEF n
  <2>3. /\ tracking_command_' \in TrackingCommand
        /\ tracking_command_'.seq = n
        /\ tracking_command_'.motion = c.motion
        /\ tracking_command_'.flip = n
    BY <2>1, <2>2 DEF Sane, TrackingCommand
  <2> QED BY <1>0, <2>2, <2>3 DEF Publishes
<1>3. CASE CalcPublishStop
  <2> DEFINE n == IF NextSeq <= MaxSeq THEN NextSeq ELSE c.seq
  <2>1. n \in Numbers /\ c.seq <= n
    BY <1>0, Fields, NextSeqInRange DEF Sane
  <2>2. tracking_command_' = [c EXCEPT !.seq = n, !.stop_motors = TRUE]
    BY <1>3 DEF CalcPublishStop
  <2> HIDE DEF n
  <2>3. /\ tracking_command_' \in TrackingCommand
        /\ tracking_command_'.seq = n
        /\ tracking_command_'.motion = c.motion
        /\ tracking_command_'.flip = c.flip
    BY <2>1, <2>2 DEF Sane, TrackingCommand
  <2> QED BY <1>0, <2>1, <2>3 DEF Publishes
<1>4. CASE EmergencyStop
  <2> DEFINE n == NextSeq
  <2>1. tracking_command_' = [c EXCEPT !.seq = n, !.stop_motors = TRUE]
    BY <1>4 DEF EmergencyStop, Published
  <2>2. n \in Numbers /\ n = c.seq + 1
    BY <1>4, NextSeqInRange DEF Sane, EmergencyStop, Published
  <2> HIDE DEF n
  <2>3. /\ tracking_command_' \in TrackingCommand
        /\ tracking_command_'.seq = n
        /\ tracking_command_'.motion = c.motion
        /\ tracking_command_'.flip = c.flip
    BY <2>1, <2>2 DEF Sane, TrackingCommand
  <2> QED BY <1>0, <2>2, <2>3 DEF Publishes
<1>5. CASE UNCHANGED tracking_command_
  BY <1>0, <1>5 DEF Publishes, Sane
<1> QED
  BY <1>1, <1>2, <1>3, <1>4, <1>5
  DEF Calc, Stop, CalcFlipped, CalcError, CalcHalt, CalcExit, EmergencyHalt, StopFlags,
      StopJoin, StopHalt

\* The io writer changes no number of the snapshot and no stop; its copy stays, or
\* becomes the snapshot.
LEMMA WriterSnapshot ==
  ASSUME Sane, Writer
  PROVE  /\ tracking_command_' \in TrackingCommand
         /\ tracking_command_'.seq = tracking_command_.seq
         /\ tracking_command_'.motion = tracking_command_.motion
         /\ tracking_command_'.flip = tracking_command_.flip
         /\ tracking_command_'.stop_motors = tracking_command_.stop_motors
         /\ cmd' = cmd \/ cmd' = tracking_command_
<1>1. CASE WriterFlipSent
  <2> DEFINE b == tracking_command_.flip_pending /\ tracking_command_.seq # cmd.seq
  <2>1. b \in BOOLEAN
    OBVIOUS
  <2>2. tracking_command_' = [tracking_command_ EXCEPT !.flip_pending = b] /\ cmd' = cmd
    BY <1>1 DEF WriterFlipSent
  <2> HIDE DEF b
  <2> QED BY <2>1, <2>2, MarkUpdate DEF Sane
<1>2. CASE WriterPositionSent
  <2> DEFINE b == tracking_command_.pos_update_pending /\ tracking_command_.seq # cmd.seq
  <2>1. b \in BOOLEAN
    OBVIOUS
  <2>2. tracking_command_' = [tracking_command_ EXCEPT !.pos_update_pending = b] /\ cmd' = cmd
    BY <1>2 DEF WriterPositionSent
  <2> HIDE DEF b
  <2> QED BY <2>1, <2>2, MarkUpdate DEF Sane
<1>3. CASE \/ WriterTick \/ WriterChoose \/ WriterLatch
          \/ WriterFlip \/ WriterVelocity \/ WriterPosition
  BY <1>3 DEF Sane, publisherVars, WriterTick, WriterChoose, WriterLatch, WriterFlip,
              WriterVelocity, WriterPosition
<1> QED BY <1>1, <1>2, <1>3 DEF Writer

-----------------------------------------------------------------------------
(* Type correctness.                                                        *)

\* The session starts in a well-typed state.
LEMMA IoInitTypes == IoInit => IoTypeOK
<1> SUFFICES ASSUME IoInit PROVE IoTypeOK
  OBVIOUS
<1>1. /\ tracking_command_ \in TrackingCommand
      /\ cmd \in TrackingCommand
      /\ NoneNewer
  BY EmptySnapshot DEF IoInit, NoneNewer
<1>2. drives \in Commands /\ {moved, flown, last_pos_seq} \subseteq Numbers
  BY CommandTypes, NumbersAreNaturals DEF IoInit
<1> QED BY <1>1, <1>2 DEF IoInit, IoTypeOK

\* A step of the computational loop or of a call keeps the types.
LEMMA PublisherTypes ==
  IoTypeOK /\ (Calc \/ EmergencyStop \/ EmergencyHalt \/ Stop) => IoTypeOK'
<1> SUFFICES ASSUME IoTypeOK, Calc \/ EmergencyStop \/ EmergencyHalt \/ Stop
             PROVE  IoTypeOK'
  OBVIOUS
<1>1. Sane /\ Publishes
  BY PublisherStep DEF Sane, IoTypeOK
<1>2. UNCHANGED writerVars /\ UNCHANGED <<mode, moved, flown>>
  BY DEF Calc, Stop, CalcTrack, CalcFlip, CalcFlipped, CalcError, CalcPublishStop, CalcHalt,
         CalcExit, EmergencyStop, EmergencyHalt, StopFlags, StopJoin, StopHalt,
      driveVars
<1>3. NoneNewer'
  <2>1. /\ tracking_command_.seq \in Nat /\ tracking_command_.motion \in Nat
        /\ tracking_command_.flip \in Nat /\ cmd.seq \in Nat /\ last_pos_seq \in Nat
        /\ tracking_command_'.seq \in Nat
    BY <1>1, Fields, NumbersAreNaturals DEF Sane, IoTypeOK, Publishes
  <2> QED BY <1>1, <1>2, <2>1 DEF Publishes, IoTypeOK, NoneNewer, writerVars
<1>4. drives' \in Commands
  BY CommandTypes, GivenTypes
  DEF IoTypeOK, Calc, Stop, CalcTrack, CalcFlip, CalcFlipped, CalcError, CalcPublishStop,
      CalcHalt, CalcExit, EmergencyStop, EmergencyHalt, StopFlags, StopJoin, StopHalt,
      driveVars
<1>5. /\ calc' \in {"tracking", "flipping", "error", "halt", "clear", "done"}
      /\ stop_call' \in {"no", "join", "halt", "done"}
      /\ halting' \in BOOLEAN /\ active' \in BOOLEAN
  BY DEF IoTypeOK, Calc, Stop, CalcTrack, CalcFlip, CalcFlipped, CalcError, CalcPublishStop,
         CalcHalt, CalcExit, EmergencyStop, EmergencyHalt, StopFlags, StopJoin, StopHalt,
         haltVars
<1> QED BY <1>1, <1>2, <1>3, <1>4, <1>5 DEF IoTypeOK, Publishes, writerVars

\* A step of the io writer keeps the types.
LEMMA WriterTypes == IoTypeOK /\ Writer => IoTypeOK'
<1> SUFFICES ASSUME IoTypeOK, Writer PROVE IoTypeOK'
  OBVIOUS
<1>0. Sane
  BY DEF Sane, IoTypeOK
<1>1. UNCHANGED <<mode, calc, stop_call, halting, active>>
  BY DEF Writer, WriterTick, WriterChoose, WriterLatch, WriterFlip, WriterFlipSent,
         WriterVelocity, WriterPosition, WriterPositionSent, publisherVars, haltVars
<1>2. /\ cmd' \in TrackingCommand
      /\ tracking_command_' \in TrackingCommand
  BY <1>0, WriterSnapshot DEF Sane
<1>3. last_pos_seq' = last_pos_seq \/ (last_pos_seq' = cmd.seq /\ cmd' = cmd)
  BY DEF Writer, WriterTick, WriterChoose, WriterLatch, WriterFlip, WriterFlipSent,
         WriterVelocity, WriterPosition, WriterPositionSent
<1>4. NoneNewer'
  <2>1. /\ tracking_command_.seq \in Nat /\ tracking_command_.motion \in Nat
        /\ tracking_command_.flip \in Nat /\ cmd.seq \in Nat /\ last_pos_seq \in Nat
    BY <1>0, Fields, NumbersAreNaturals DEF Sane, IoTypeOK
  <2> QED BY <1>0, <1>3, <2>1, WriterSnapshot DEF IoTypeOK, NoneNewer
<1>5. /\ last_pos_seq' \in Numbers
      /\ moved' \in Numbers /\ flown' \in Numbers
      /\ drives' \in Commands
  <2>1. cmd.motion \in Numbers /\ cmd.flip \in Numbers /\ cmd.seq \in Numbers
    BY <1>0, Fields DEF Sane
  <2> QED
    BY <2>1, CommandTypes, GivenTypes
    DEF IoTypeOK, Writer, WriterTick, WriterChoose, WriterLatch, WriterFlip, WriterFlipSent,
        WriterVelocity, WriterPosition, WriterPositionSent, driveVars
<1>6. /\ writer' \in {"tick", "copied", "latch", "flip", "flipSent", "position",
                      "positionSent", "velocity", "done"}
      /\ stop_latched' \in BOOLEAN
  BY DEF IoTypeOK, Writer, WriterTick, WriterChoose, WriterLatch, WriterFlip, WriterFlipSent,
         WriterVelocity, WriterPosition, WriterPositionSent, Chosen
<1> QED BY <1>1, <1>2, <1>4, <1>5, <1>6 DEF IoTypeOK

\* Every variable keeps its type, and no number in the session is newer than the
\* snapshot it comes from.
THEOREM IoTypeCorrect == IoSpec => []IoTypeOK
<1>1. IoTypeOK /\ UNCHANGED ioVars => IoTypeOK'
  BY DEF IoTypeOK, NoneNewer, ioVars
<1>2. IoTypeOK /\ [IoNext]_ioVars => IoTypeOK'
  BY <1>1, PublisherTypes, WriterTypes DEF IoNext
<1> QED BY IoInitTypes, <1>2, PTL DEF IoSpec

-----------------------------------------------------------------------------
(* Both kinds of command implement the mailbox.                             *)

\* The inductive invariant: what the drives were given is not newer than the writer's
\* copy, and the copy is not newer than the snapshot.
Ordered ==
  /\ moved <= cmd.motion /\ cmd.motion <= tracking_command_.motion
  /\ flown <= cmd.flip /\ cmd.flip <= tracking_command_.flip

\* The numbers Ordered compares are naturals.
LEMMA NumbersNatural ==
  ASSUME IoTypeOK
  PROVE  /\ tracking_command_.seq \in Nat
         /\ tracking_command_.motion \in Nat /\ tracking_command_.flip \in Nat
         /\ cmd.motion \in Nat /\ cmd.flip \in Nat
         /\ moved \in Nat /\ flown \in Nat
  BY Fields, NumbersAreNaturals DEF IoTypeOK

\* A publication is older than nothing the writer or the drives hold, and is a step of
\* the mailbox of its kind.
LEMMA PublisherOrdered ==
  ASSUME IoTypeOK, Ordered, Calc \/ EmergencyStop \/ EmergencyHalt \/ Stop
  PROVE  /\ Ordered'
         /\ [Motion!Next]_<<tracking_command_.motion, moved>>
         /\ [Flip!Next]_<<tracking_command_.flip, flown>>
<1>1. Publishes /\ Sane /\ IoTypeOK'
  BY PublisherStep, PublisherTypes DEF Sane, IoTypeOK
<1>2. cmd' = cmd /\ moved' = moved /\ flown' = flown
  BY DEF Calc, Stop, CalcTrack, CalcFlip, CalcFlipped, CalcError, CalcPublishStop, CalcHalt,
         CalcExit, EmergencyStop, EmergencyHalt, StopFlags, StopJoin, StopHalt,
      driveVars,
         writerVars
<1>3. /\ tracking_command_.seq \in Nat
      /\ tracking_command_.motion \in Nat /\ tracking_command_.flip \in Nat
      /\ cmd.motion \in Nat /\ cmd.flip \in Nat
      /\ tracking_command_'.motion \in Nat /\ tracking_command_'.flip \in Nat
      /\ tracking_command_.motion <= tracking_command_.seq
      /\ tracking_command_.flip <= tracking_command_.seq
  <2>1. tracking_command_'.motion \in Nat /\ tracking_command_'.flip \in Nat
    BY <1>1, Fields, NumbersAreNaturals DEF Publishes
  <2> QED BY <2>1, NumbersNatural DEF IoTypeOK, NoneNewer
<1>4. /\ tracking_command_'.motion = tracking_command_.motion
           \/ tracking_command_'.motion > tracking_command_.motion
      /\ tracking_command_'.flip = tracking_command_.flip
           \/ tracking_command_'.flip > tracking_command_.flip
  BY <1>1, <1>3 DEF Publishes
<1>5. Ordered'
  BY <1>2, <1>3, <1>4 DEF Ordered
<1>6. [Motion!Next]_<<tracking_command_.motion, moved>>
  BY <1>2, <1>3, <1>4 DEF Motion!Next, Motion!Publish
<1>7. [Flip!Next]_<<tracking_command_.flip, flown>>
  BY <1>2, <1>3, <1>4 DEF Flip!Next, Flip!Publish
<1> QED BY <1>5, <1>6, <1>7

\* An emission gives the drives the writer's copy: a step of the mailbox, or the same
\* velocity or position once more.
LEMMA WriterOrdered ==
  ASSUME IoTypeOK, Ordered, Writer
  PROVE  /\ Ordered'
         /\ [Motion!Next]_<<tracking_command_.motion, moved>>
         /\ [Flip!Next]_<<tracking_command_.flip, flown>>
<1>1. /\ tracking_command_'.motion = tracking_command_.motion
      /\ tracking_command_'.flip = tracking_command_.flip
      /\ cmd' = cmd \/ cmd' = tracking_command_
  BY WriterSnapshot DEF Sane, IoTypeOK
<1>2. \/ moved' = moved /\ flown' = flown
      \/ cmd' = cmd /\ moved' = cmd.motion /\ flown' = flown
      \/ cmd' = cmd /\ moved' = moved /\ flown' = cmd.flip
  BY DEF Writer, WriterTick, WriterChoose, WriterLatch, WriterFlip, WriterFlipSent,
         WriterVelocity, WriterPosition, WriterPositionSent, driveVars
<1>3. Ordered'
  BY <1>1, <1>2, NumbersNatural DEF Ordered
<1>4. [Motion!Next]_<<tracking_command_.motion, moved>>
  BY <1>1, <1>2, NumbersNatural DEF Ordered, Motion!Next, Motion!Execute
<1>5. [Flip!Next]_<<tracking_command_.flip, flown>>
  BY <1>1, <1>2, NumbersNatural DEF Ordered, Flip!Next, Flip!Execute
<1> QED BY <1>3, <1>4, <1>5

\* The three facts of both refinements.
LEMMA OrderedSteps ==
  /\ IoInit => Ordered /\ Motion!Init /\ Flip!Init
  /\ IoTypeOK /\ Ordered /\ [IoNext]_ioVars =>
       /\ Ordered'
       /\ [Motion!Next]_<<tracking_command_.motion, moved>>
       /\ [Flip!Next]_<<tracking_command_.flip, flown>>
<1>1. IoInit => Ordered /\ Motion!Init /\ Flip!Init
  BY EmptySnapshot DEF IoInit, Ordered, Motion!Init, Flip!Init
<1>2. ASSUME IoTypeOK, Ordered, UNCHANGED ioVars
      PROVE  /\ Ordered'
             /\ [Motion!Next]_<<tracking_command_.motion, moved>>
             /\ [Flip!Next]_<<tracking_command_.flip, flown>>
  BY <1>2 DEF Ordered, ioVars
<1> QED BY <1>1, <1>2, PublisherOrdered, WriterOrdered DEF IoNext

\* The velocities and positions the drives are given are ever newer: the session
\* implements the mailbox, with the snapshot's number of the last one published as what
\* is latest and the newest one emitted as what is executed.
THEOREM MotionImplementsMailbox == IoSpec => MotionIsMailbox
  BY IoTypeCorrect, OrderedSteps, PTL DEF IoSpec, MotionIsMailbox, Motion!Spec

\* The meridian flips the drives are given implement the mailbox in the same way.
THEOREM FlipImplementsMailbox == IoSpec => FlipIsMailbox
  BY IoTypeCorrect, OrderedSteps, PTL DEF IoSpec, FlipIsMailbox, Flip!Spec

-----------------------------------------------------------------------------
(* A latched stop wins.                                                     *)

\* The inductive invariant. Once the writer has latched a stop the drives are still and
\* it emits nothing more. A writer that left, or is about to decide, on a copy without
\* the stop has emitted nothing since it copied: the call or the loop that published the
\* stop meanwhile has yet to stop the drives, or has done so.
StopInv ==
  /\ cmd.stop_motors => tracking_command_.stop_motors
  /\ stop_latched => /\ tracking_command_.stop_motors
                     /\ drives.kind \in {"still", "off"}
                     /\ writer \in {"tick", "copied", "latch", "done"}
                     /\ writer = "copied" => cmd.stop_motors
  /\ writer = "latch" => tracking_command_.stop_motors
  /\ writer = "done" \/ (writer = "copied" /\ ~cmd.stop_motors) =>
       /\ tracking_command_.stop_motors =>
            halting \/ calc = "halt" \/ drives.kind \in {"still", "off"}

\* The session starts with no stop.
LEMMA StopInit == IoInit => StopInv
  BY EmptySnapshot DEF IoInit, StopInv

\* Stopping the drives leaves them still or off.
LEMMA Stopped ==
  /\ Off.kind \in {"still", "off"}
  /\ Given(Still).kind \in {"still", "off"}
  /\ \A c : drives.kind = "off" => Given(c).kind = "off"
  BY DEF Given, Still, Off

\* Whatever the loop and the calls publish, a stop stays latched.
LEMMA StopsStay ==
  ASSUME Sane, Calc \/ EmergencyStop \/ EmergencyHalt \/ Stop
  PROVE  /\ tracking_command_.stop_motors => tracking_command_'.stop_motors
         /\ tracking_command_'.stop_motors =>
              tracking_command_.stop_motors \/ CalcPublishStop \/ EmergencyStop
<1>1. CASE CalcTrack \/ CalcFlip
  BY <1>1 DEF Sane, TrackingCommand, CalcTrack, CalcFlip, publishVelocityCommand,
              publishPositionCommand, Published
<1>2. CASE CalcPublishStop
  BY <1>2 DEF Sane, TrackingCommand, CalcPublishStop
<1>3. CASE EmergencyStop
  BY <1>3 DEF Sane, TrackingCommand, EmergencyStop, Published
<1>4. CASE UNCHANGED tracking_command_
  BY <1>4
<1> QED
  BY <1>1, <1>2, <1>3, <1>4
  DEF Calc, Stop, CalcFlipped, CalcError, CalcHalt, CalcExit, EmergencyHalt, StopFlags,
      StopJoin, StopHalt

\* A step of the loop or of a call preserves StopInv.
LEMMA PublisherStops ==
  ASSUME IoTypeOK, StopInv, Calc \/ EmergencyStop \/ EmergencyHalt \/ Stop
  PROVE  StopInv'
<1> USE StopsStay, Stopped DEF StopInv
<1>0. Sane /\ tracking_command_.stop_motors \in BOOLEAN /\ active \in BOOLEAN
  BY Fields DEF Sane, IoTypeOK
<1>1. UNCHANGED <<writer, stop_latched, cmd>>
  BY DEF Calc, Stop, CalcTrack, CalcFlip, CalcFlipped, CalcError, CalcPublishStop, CalcHalt,
         CalcExit, EmergencyStop, EmergencyHalt, StopFlags, StopJoin, StopHalt, writerVars
<1>2. CASE CalcTrack
  BY <1>0, <1>1, <1>2 DEF CalcTrack, CalcPublishStop, EmergencyStop, driveVars, haltVars
<1>3. CASE CalcFlip
  BY <1>0, <1>1, <1>3 DEF CalcFlip, CalcPublishStop, EmergencyStop, driveVars, haltVars
<1>4. CASE CalcFlipped
  BY <1>0, <1>1, <1>4 DEF CalcFlipped, CalcPublishStop, EmergencyStop, driveVars, haltVars
<1>5. CASE CalcError
  BY <1>0, <1>1, <1>5 DEF CalcError, CalcPublishStop, EmergencyStop, driveVars, haltVars
<1>6. CASE CalcPublishStop
  BY <1>0, <1>1, <1>6 DEF CalcPublishStop, driveVars
<1>7. CASE CalcHalt
  BY <1>0, <1>1, <1>7 DEF CalcHalt
<1>8. CASE CalcExit
  BY <1>0, <1>1, <1>8 DEF CalcExit, CalcPublishStop, EmergencyStop, driveVars, haltVars
<1>9. CASE EmergencyStop
  BY <1>0, <1>1, <1>9 DEF EmergencyStop, driveVars
<1>10. CASE EmergencyHalt
  BY <1>0, <1>1, <1>10 DEF EmergencyHalt
<1>11. CASE StopFlags \/ StopJoin
  BY <1>0, <1>1, <1>11 DEF StopFlags, StopJoin, driveVars
<1>12. CASE StopHalt
  BY <1>0, <1>1, <1>12 DEF StopHalt
<1> QED
  BY <1>2, <1>3, <1>4, <1>5, <1>6, <1>7, <1>8, <1>9, <1>10, <1>11, <1>12 DEF Calc, Stop

\* A step of the io writer preserves StopInv.
LEMMA WriterStops ==
  ASSUME IoTypeOK, StopInv, Writer
  PROVE  StopInv'
<1> USE Stopped DEF StopInv
<1>1. /\ tracking_command_'.stop_motors = tracking_command_.stop_motors
      /\ tracking_command_.stop_motors \in BOOLEAN
  BY WriterSnapshot, Fields DEF Sane, IoTypeOK
<1>2. UNCHANGED <<calc, halting>>
  BY DEF IoTypeOK, Writer, WriterTick, WriterChoose, WriterLatch, WriterFlip, WriterFlipSent,
         WriterVelocity, WriterPosition, WriterPositionSent, publisherVars, haltVars
<1>3. CASE WriterTick
  BY <1>1, <1>2, <1>3 DEF WriterTick, driveVars
<1>7. CASE WriterChoose
  BY <1>1, <1>2, <1>7 DEF WriterChoose, Chosen, driveVars
<1>4. CASE WriterLatch
  BY <1>1, <1>2, <1>4 DEF WriterLatch
<1>5. CASE WriterFlip \/ WriterVelocity \/ WriterPosition
  BY <1>1, <1>2, <1>5 DEF WriterFlip, WriterVelocity, WriterPosition
<1>6. CASE WriterFlipSent \/ WriterPositionSent
  BY <1>1, <1>2, <1>6 DEF WriterFlipSent, WriterPositionSent, driveVars
<1> QED BY <1>3, <1>4, <1>5, <1>6, <1>7 DEF Writer

\* When the threads of a session with a latched stop have ended, the drives stand
\* still, whatever the order of the publication, the flags and the writer's ticks.
THEOREM StopAlwaysWins == IoSpec => []StopWins
<1>1. IoTypeOK /\ StopInv /\ [IoNext]_ioVars => StopInv'
  <2>1. ASSUME StopInv, UNCHANGED ioVars PROVE StopInv'
    BY <2>1 DEF StopInv, ioVars
  <2> QED BY <2>1, PublisherStops, WriterStops DEF IoNext
<1>2. StopInv => StopWins
  BY DEF StopInv, StopWins
<1> QED BY IoTypeCorrect, StopInit, <1>1, <1>2, PTL DEF IoSpec

=============================================================================
