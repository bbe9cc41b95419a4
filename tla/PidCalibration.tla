---------------------------- MODULE PidCalibration ----------------------------
(***************************************************************************)
(* The PID calibration service: its RPCs, and the worker that turns the      *)
(* axis for every speed and every set of gains, measures, and stops the axis *)
(* in between.  Two clients may call at once: the thread is assigned after   *)
(* the mutex is released.                                                   *)
(***************************************************************************)
EXTENDS Naturals

CONSTANTS
  Combinations,   \* speeds times sets of gains; a sweep has at least one value
  PidClients      \* calls to start that may be under way at once

ASSUME PidAssumption == Combinations \in Nat \ {0} /\ PidClients \in Nat

VARIABLES
  pid_running,     \* running_
  stop_requested_,
  pid_state,       \* status_.state
  pid_tested,      \* status_.tested_combinations, the points of the result
  pid_cut,         \* some point was measured for less than its time
  pid_worker,      \* where runCalibration() is
  pid_starts,      \* calls to start that have not yet assigned their thread
  pid_handle,      \* worker_ is joinable
  pid_crashed,     \* a thread was assigned over a joinable one
  pid_axis         \* what the axis does: "still", "driven" or "stopping"

resultVars == <<pid_state, pid_tested, pid_cut>>
handleVars == <<pid_starts, pid_handle, pid_crashed>>
pidFlags   == <<pid_running, stop_requested_>>
pidVars    == <<pidFlags, resultVars, pid_worker, handleVars, pid_axis>>

PidTypeOK ==
  /\ pid_running \in BOOLEAN /\ stop_requested_ \in BOOLEAN
  /\ pid_state \in {"IDLE", "RUNNING", "STOPPED", "COMPLETED", "ERROR"}
  /\ pid_tested \in 0..Combinations /\ pid_cut \in BOOLEAN
  /\ pid_worker \in {"off", "next", "measure", "rest", "finish", "settled"}
  /\ pid_starts \in 0..PidClients /\ pid_handle \in BOOLEAN /\ pid_crashed \in BOOLEAN
  /\ pid_axis \in {"still", "driven", "stopping"}

PidInit ==
  /\ pid_running = FALSE /\ stop_requested_ = FALSE
  /\ pid_state = "IDLE" /\ pid_tested = 0 /\ pid_cut = FALSE
  /\ pid_worker = "off"
  /\ pid_starts = 0 /\ pid_handle = FALSE /\ pid_crashed = FALSE
  /\ pid_axis = "still"

-----------------------------------------------------------------------------
(* The RPCs.                                                                *)

\* Bug: the request to stop is forgotten before a second start is refused.
StartForgets ==
  /\ stop_requested_' = FALSE
  /\ IF pid_running THEN UNCHANGED <<pid_running, resultVars, pid_worker, pid_starts, pid_handle>>
       ELSE /\ pid_starts < PidClients /\ pid_handle' = FALSE
            /\ pid_running' = TRUE
            /\ pid_state' = "RUNNING" /\ pid_tested' = 0 /\ pid_cut' = FALSE
            /\ pid_worker' = "next" /\ pid_starts' = pid_starts + 1
  /\ UNCHANGED <<pid_crashed, pid_axis>>

\* A calibration that runs is not disturbed; the thread of one that has ended is joined,
\* if it has been assigned yet.
StartCalibration ==
  /\ ~pid_running /\ pid_starts < PidClients
  /\ pid_running' = TRUE /\ stop_requested_' = FALSE
  /\ pid_state' = "RUNNING" /\ pid_tested' = 0 /\ pid_cut' = FALSE
  /\ pid_handle' = FALSE
  /\ pid_worker' = "next" /\ pid_starts' = pid_starts + 1
  /\ UNCHANGED <<pid_crashed, pid_axis>>

\* The started thread becomes worker_; one that is still joinable there ends the program.
AssignWorker ==
  /\ pid_starts > 0
  /\ pid_starts' = pid_starts - 1
  /\ pid_handle' = TRUE /\ pid_crashed' = (pid_crashed \/ pid_handle)
  /\ UNCHANGED <<pidFlags, resultVars, pid_worker, pid_axis>>

StopCalibration ==
  /\ stop_requested_' = TRUE
  /\ UNCHANGED <<pid_running, resultVars, pid_worker, handleVars, pid_axis>>

-----------------------------------------------------------------------------
(* runCalibration().                                                        *)

WorkerGoes(from, to) ==
  /\ pid_worker = from /\ pid_worker' = to
  /\ UNCHANGED handleVars

\* The gains are written and the axis is told to move: what it answers is not looked at,
\* nor whether the axis still turns from the last one.
TryNext ==
  \/ /\ stop_requested_ \/ pid_tested = Combinations
     /\ WorkerGoes("next", "finish")
     /\ UNCHANGED <<pidFlags, resultVars, pid_axis>>
  \/ /\ ~stop_requested_ /\ pid_tested < Combinations
     /\ WorkerGoes("next", "measure")
     /\ \E moves \in BOOLEAN : pid_axis' = IF moves THEN "driven" ELSE pid_axis
     /\ UNCHANGED <<pidFlags, resultVars>>

\* A stop cuts the measurement short, and its point is kept like the others.
Measure ==
  /\ WorkerGoes("measure", "rest")
  /\ pid_cut' = (pid_cut \/ stop_requested_)
  /\ pid_tested' = pid_tested + 1
  /\ pid_axis' = IF pid_axis = "still" THEN "still" ELSE "stopping"
  /\ UNCHANGED <<pidFlags, pid_state>>

AxisRests ==
  /\ pid_axis = "stopping" /\ pid_axis' = "still"
  /\ UNCHANGED <<pidFlags, resultVars, pid_worker, handleVars>>

\* waitForAxisStop(): at rest, told to stop, or tired of waiting.
WaitForAxisStop ==
  /\ WorkerGoes("rest", "next")
  /\ UNCHANGED <<pidFlags, resultVars, pid_axis>>

\* The worker ends with the state that its flag asks for, under the mutex.
FinishCalibration ==
  /\ WorkerGoes("finish", "settled")
  /\ pid_state' = IF stop_requested_ THEN "STOPPED"
                  ELSE IF pid_tested > 0 THEN "COMPLETED" ELSE "ERROR"
  /\ pid_axis' = IF pid_axis = "still" THEN "still" ELSE "stopping"
  /\ UNCHANGED <<pidFlags, pid_tested, pid_cut>>

\* Only then may another calibration start.
Leave ==
  /\ WorkerGoes("settled", "off")
  /\ pid_running' = FALSE
  /\ UNCHANGED <<stop_requested_, resultVars, pid_axis>>

CalibrationStep == TryNext \/ Measure \/ WaitForAxisStop \/ FinishCalibration \/ Leave

PidNext ==
  /\ ~pid_crashed
  /\ \/ StartCalibration \/ AssignWorker \/ StopCalibration \/ AxisRests \/ CalibrationStep

PidSpec == PidInit /\ [][PidNext]_pidVars

-----------------------------------------------------------------------------
\* A calibration reported as completed has tested every combination, each for its whole
\* time, however starts and stops were mixed with it; one that was stopped early is never
\* mistaken for it, nor its winner for the winner of them all.
CompletedMeansAll == pid_state = "COMPLETED" => pid_tested = Combinations /\ ~pid_cut

=============================================================================
