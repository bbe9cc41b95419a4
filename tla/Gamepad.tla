-------------------------------- MODULE Gamepad --------------------------------
(***************************************************************************)
(* The gamepad: its thread polls the pad, acts on the button that comes     *)
(* first in its code or steers the axes with the stick, and ends by          *)
(* stopping them; its start and stop RPCs; the mount, whose state the        *)
(* thread looks at before it commands a drive.  One axis is modelled, the    *)
(* other is treated alike.  Its drive does what it is told.                  *)
(***************************************************************************)
EXTENDS Naturals

VARIABLES
  pad,             \* the pad: connected, and the use made of it
  pad_sample,      \* state: the use that the thread has seen in this iteration
  pad_at,          \* where gamepadLoop() is
  gamepad_running_,
  axis_active,     \* gamepad_axis0_active_
  raw_mode,        \* RAW, or a coordinate mode
  es_press,        \* the emergency button: since when it is seen held
  axis,            \* what turns the axis
  mount_state,     \* state_
  pad_stop         \* where stopGamepad() is

mountVars == <<axis, mount_state>>
ctrlVars  == <<pad_at, gamepad_running_, pad_stop>>
padVars   == <<pad, pad_sample, ctrlVars, axis_active, raw_mode, es_press, mountVars>>

Buttons == {"emergency_stop", "stop", "park", "home", "mode_cycle", "clear_errors"}

\* The stick centred, or deflected along this axis or along the other one only; it does
\* not matter while a button is held.
Sticks == {"centred", "this", "other"}
Uses   == Buttons \cup Sticks

PadTypeOK ==
  /\ pad \in [connected: BOOLEAN, use: Uses] /\ pad_sample \in Uses
  /\ pad_at \in {"off", "poll", "act", "steer", "exit"}
  /\ gamepad_running_ \in BOOLEAN /\ axis_active \in BOOLEAN /\ raw_mode \in BOOLEAN
  /\ es_press \in {"released", "pressed", "long", "triggered"}
  /\ axis \in {"still", "pad", "mount", "off"}
  /\ mount_state \in {"IDLE", "BUSY", "ERROR"}
  /\ pad_stop \in {"no", "join", "done"}

PadInit ==
  /\ pad = [connected |-> TRUE, use |-> "centred"] /\ pad_sample = "centred"
  /\ pad_at = "off" /\ gamepad_running_ = FALSE
  /\ axis_active = FALSE /\ raw_mode \in BOOLEAN
  /\ es_press = "released"
  /\ axis = "still" /\ mount_state = "IDLE"
  /\ pad_stop = "no"

-----------------------------------------------------------------------------
(* The user, the mount and the RPCs.                                        *)

UsePad ==
  /\ \/ pad' = [pad EXCEPT !.connected = ~@]
     \/ \E use \in Uses : pad' = [pad EXCEPT !.use = use]
  /\ UNCHANGED <<pad_sample, ctrlVars, axis_active, raw_mode, es_press, mountVars>>

\* A fault ends what the mount does; another client moves it or clears the error.
MountActs ==
  /\ \/ mount_state # "ERROR" /\ mount_state' = "ERROR" /\ axis' = "off"
     \/ mount_state = "ERROR" /\ mount_state' = "IDLE" /\ axis' = "still"
     \/ mount_state = "IDLE" /\ mount_state' = "BUSY" /\ axis' = "mount"
     \/ /\ mount_state = "BUSY" /\ mount_state' = "IDLE"
        /\ axis' = IF axis = "mount" THEN "still" ELSE axis
  /\ UNCHANGED <<pad, pad_sample, ctrlVars, axis_active, raw_mode, es_press>>

StartGamepad ==
  /\ ~gamepad_running_ /\ pad_at = "off" /\ pad_stop # "join"
  /\ gamepad_running_' = TRUE /\ pad_at' = "poll" /\ pad_stop' = "no"
  /\ UNCHANGED <<pad, pad_sample, axis_active, raw_mode, es_press, mountVars>>

SetMode ==
  /\ raw_mode' = ~raw_mode
  /\ UNCHANGED <<pad, pad_sample, ctrlVars, axis_active, es_press, mountVars>>

StopGamepad ==
  /\ \/ /\ pad_stop # "join" /\ pad_stop' = "join"
        /\ gamepad_running_' = FALSE
     \/ /\ pad_stop = "join" /\ pad_at = "off" /\ pad_stop' = "done"
        /\ UNCHANGED gamepad_running_
  /\ UNCHANGED <<pad, pad_sample, pad_at, axis_active, raw_mode, es_press, mountVars>>

-----------------------------------------------------------------------------
(* gamepadLoop().                                                           *)

PadGoes(from, to) ==
  /\ pad_at = from
  /\ pad_at' = to
  /\ UNCHANGED <<pad, gamepad_running_, pad_stop>>

PadEnds(from) == PadGoes(from, "poll") /\ pad_sample' = "centred"

\* A pad that is not connected is not acted upon, whatever it was doing.
Poll ==
  /\ PadGoes("poll", IF ~gamepad_running_ THEN "exit"
                     ELSE IF pad.connected THEN "act" ELSE "poll")
  /\ pad_sample' = IF gamepad_running_ /\ pad.connected THEN pad.use ELSE "centred"
  /\ UNCHANGED <<axis_active, raw_mode, es_press, mountVars>>

HoldTime ==
  /\ es_press = "pressed"
  /\ es_press' = "long"
  /\ UNCHANGED <<pad, pad_sample, ctrlVars, axis_active, raw_mode, mountVars>>

\* Bug: every poll that sees the button starts its time again.
HoldRestarts ==
  /\ pad_sample = "emergency_stop"
  /\ PadEnds("act")
  /\ IF es_press = "long"
       THEN es_press' = "pressed" /\ UNCHANGED mountVars
       ELSE es_press' = (IF es_press = "released" THEN "pressed" ELSE es_press)
            /\ UNCHANGED mountVars
  /\ UNCHANGED <<axis_active, raw_mode>>

\* The button must be held for 500 ms; then the drives are stopped and switched off.
ActEmergency ==
  /\ pad_sample = "emergency_stop"
  /\ PadEnds("act")
  /\ IF es_press = "long"
       THEN es_press' = "triggered" /\ axis' = "off" /\ mount_state' = "ERROR"
       ELSE es_press' = (IF es_press = "released" THEN "pressed" ELSE es_press)
            /\ UNCHANGED mountVars
  /\ UNCHANGED <<axis_active, raw_mode>>

\* The other buttons end the iteration.
ActButton ==
  /\ pad_sample \in Buttons \ {"emergency_stop"}
  /\ PadEnds("act")
  /\ es_press' = "released"
  /\ \/ /\ pad_sample = "stop"
        /\ axis' = IF axis = "off" THEN "off" ELSE "still"
        /\ UNCHANGED <<mount_state, raw_mode>>
     \/ /\ pad_sample = "park"
        /\ IF mount_state = "IDLE" THEN axis' = "mount" /\ mount_state' = "BUSY"
                                   ELSE UNCHANGED mountVars
        /\ UNCHANGED raw_mode
     \/ /\ pad_sample = "home"
        /\ axis' = IF mount_state = "IDLE" /\ axis # "off" THEN "mount" ELSE axis
        /\ UNCHANGED <<mount_state, raw_mode>>
     \/ pad_sample = "mode_cycle" /\ raw_mode' = ~raw_mode /\ UNCHANGED mountVars
     \/ /\ pad_sample = "clear_errors"
        /\ IF mount_state = "ERROR" THEN mount_state' = "IDLE" /\ axis' = "still"
                                    ELSE UNCHANGED mountVars
        /\ UNCHANGED raw_mode
  /\ UNCHANGED axis_active

\* No axis is steered in ERROR; the state is looked at once, before the commands.
ActStick ==
  /\ pad_sample \in Sticks
  /\ \/ mount_state = "ERROR" /\ PadEnds("act")
     \/ mount_state # "ERROR" /\ PadGoes("act", "steer") /\ UNCHANGED pad_sample
  /\ es_press' = "released"
  /\ UNCHANGED <<axis_active, raw_mode, mountVars>>

\* RAW mode turns an axis with its own stick axis, the coordinate modes turn both.
Deflected == pad_sample = "this" \/ (pad_sample = "other" /\ ~raw_mode)

Turned ==
  axis' = IF axis = "off" \/ ~(Deflected \/ axis_active) THEN axis
          ELSE IF Deflected THEN "pad" ELSE "still"

\* Bug: the coordinate modes do not note that they have set the axis in motion.
SteerUnnoted ==
  /\ PadEnds("steer")
  /\ Turned
  /\ axis_active' = (Deflected /\ raw_mode)
  /\ UNCHANGED <<raw_mode, es_press, mount_state>>

\* A deflected stick turns the axis; a released one stops it once.
Steer ==
  /\ PadEnds("steer")
  /\ Turned
  /\ axis_active' = Deflected
  /\ UNCHANGED <<raw_mode, es_press, mount_state>>

\* Bug: the loop ends where it is.
ExitUnstopped ==
  /\ PadGoes("exit", "off")
  /\ UNCHANGED <<pad_sample, axis_active, raw_mode, es_press, mountVars>>

Exit ==
  /\ PadGoes("exit", "off")
  /\ axis' = IF axis = "off" THEN "off" ELSE "still"
  /\ UNCHANGED <<pad_sample, axis_active, raw_mode, es_press, mount_state>>

PadStep == Poll \/ ActEmergency \/ ActButton \/ ActStick \/ Steer \/ Exit

PadNext == UsePad \/ MountActs \/ StartGamepad \/ SetMode \/ StopGamepad \/ HoldTime \/ PadStep

PadSpec == PadInit /\ [][PadNext]_padVars

-----------------------------------------------------------------------------
\* After stopGamepad() no axis turns by the pad, wherever its thread was when it was told
\* to end and whatever the stick does.
PadExitHalts == pad_stop = "done" => axis # "pad"

InUse(use) == gamepad_running_ /\ pad.connected /\ pad.use = use

\* An axis the pad turned stops when the stick is centred and stays so, in whichever mode
\* it was started and whatever buttons were used meanwhile; not when the pad is lost.
ReleaseStops ==
  (axis = "pad" /\ InUse("centred") /\ mount_state # "ERROR")
    ~> (axis # "pad" \/ ~InUse("centred") \/ mount_state = "ERROR")

\* The emergency button works when it is held, in every state of the mount.
EmergencyWorks ==
  (InUse("emergency_stop") /\ es_press # "triggered")
    ~> (~InUse("emergency_stop") \/ es_press = "triggered")

=============================================================================
