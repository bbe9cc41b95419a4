------------------------------ MODULE MCServices ------------------------------
(***************************************************************************)
(* The components that share no state with one another, checked side by      *)
(* side: the first state chooses the one that runs and the others stay as    *)
(* they start.  Fairness is asked of the chosen one only.                    *)
(***************************************************************************)
EXTENDS ObservationSequencer, NotificationEngine, WeatherWatch, CanTransaction,
        Mf7025Motor, MeridianFlip, Gamepad, St4Guider, PidCalibration, TrackingIo

VARIABLE service

Services == {"sequencer", "notifications", "weather", "can", "motor", "flip", "gamepad",
             "guider", "pidcal", "io"}

servicesVars == <<service, seqVars, noteVars, weatherVars, canVars, motorVars, flipVars,
                  padVars, guiderVars, pidVars, ioVars>>

\* Two kinds of events: one event is unlike the others.
KindsOfEvents == [e \in Events |-> IF e = CHOOSE f \in Events : TRUE THEN 2 ELSE 1]

\* The tracking session's variables have an invariant of their own, IoTypeOK.
ServicesTypeOK ==
  /\ service \in Services
  /\ SeqTypeOK /\ NoteTypeOK /\ WeatherTypeOK /\ CanTypeOK /\ MotorTypeOK /\ FlipTypeOK
  /\ PadTypeOK /\ St4TypeOK /\ PidTypeOK

ServicesInit ==
  /\ service \in Services
  /\ SeqInit /\ NoteInit /\ WeatherInit /\ CanInit /\ MotorInit /\ FlipInit /\ PadInit
  /\ St4Init /\ PidInit /\ IoInit
  /\ service = "notifications" \/ aggregate_messages
  /\ service = "gamepad" \/ raw_mode
  /\ service = "io" \/ mode = "velocity"

ServicesNext ==
  \/ /\ service = "sequencer" /\ SeqNext
     /\ UNCHANGED <<service, noteVars, weatherVars, canVars, motorVars, flipVars, padVars,
                    guiderVars, pidVars, ioVars>>
  \/ /\ service = "notifications" /\ NoteNext
     /\ UNCHANGED <<service, seqVars, weatherVars, canVars, motorVars, flipVars, padVars,
                    guiderVars, pidVars, ioVars>>
  \/ /\ service = "weather" /\ WeatherNext
     /\ UNCHANGED <<service, seqVars, noteVars, canVars, motorVars, flipVars, padVars,
                    guiderVars, pidVars, ioVars>>
  \/ /\ service = "can" /\ CanNext
     /\ UNCHANGED <<service, seqVars, noteVars, weatherVars, motorVars, flipVars, padVars,
                    guiderVars, pidVars, ioVars>>
  \/ /\ service = "motor" /\ MotorNext
     /\ UNCHANGED <<service, seqVars, noteVars, weatherVars, canVars, flipVars, padVars,
                    guiderVars, pidVars, ioVars>>
  \/ /\ service = "flip" /\ FlipNext
     /\ UNCHANGED <<service, seqVars, noteVars, weatherVars, canVars, motorVars, padVars,
                    guiderVars, pidVars, ioVars>>
  \/ /\ service = "gamepad" /\ PadNext
     /\ UNCHANGED <<service, seqVars, noteVars, weatherVars, canVars, motorVars, flipVars,
                    guiderVars, pidVars, ioVars>>
  \/ /\ service = "guider" /\ St4Next
     /\ UNCHANGED <<service, seqVars, noteVars, weatherVars, canVars, motorVars, flipVars,
                    padVars, pidVars, ioVars>>
  \/ /\ service = "pidcal" /\ PidNext
     /\ UNCHANGED <<service, seqVars, noteVars, weatherVars, canVars, motorVars, flipVars,
                    padVars, guiderVars, ioVars>>
  \/ /\ service = "io" /\ IoNext
     /\ UNCHANGED <<service, seqVars, noteVars, weatherVars, canVars, motorVars, flipVars,
                    padVars, guiderVars, pidVars>>

\* The threads of the chosen component are scheduled, its clocks run, its mount moves end.
ServicesFairness ==
  /\ WF_seqVars(service = "sequencer" /\ ~seq_crashed /\ WorkerStep)
  /\ WF_seqVars(service = "sequencer" /\ ~seq_crashed /\ StopJoined)
  /\ WF_seqVars(service = "sequencer" /\ ~seq_crashed /\ MountMoves)
  /\ WF_noteVars(service = "notifications" /\ NoteWorkerStep)
  /\ WF_noteVars(service = "notifications" /\ WindowExpires)
  /\ WF_weatherVars(service = "weather" /\ MonitorCycle)
  /\ WF_weatherVars(service = "weather" /\ ReaderStep)
  /\ WF_weatherVars(service = "weather" /\ (TryCancel \/ ReaderJoined))
  /\ SF_weatherVars(service = "weather" /\ weather_running /\ PushStatus)
  /\ SF_weatherVars(service = "weather" /\ ReadStatus)
  /\ WF_motorVars(service = "motor" /\ ReadStatus2)
  /\ WF_motorVars(service = "motor" /\ UpdateStatus)
  /\ WF_flipVars(service = "flip" /\ Iterate)
  /\ WF_flipVars(service = "flip" /\ Drift /\ flip_timed_out')
  /\ WF_padVars(service = "gamepad" /\ PadStep)
  /\ WF_padVars(service = "gamepad" /\ HoldTime)
  /\ WF_ioVars(service = "io" /\ Writer)

ServicesSpec == ServicesInit /\ [][ServicesNext]_servicesVars /\ ServicesFairness

=============================================================================
