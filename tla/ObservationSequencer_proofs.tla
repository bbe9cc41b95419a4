---------------------- MODULE ObservationSequencer_proofs ----------------------
(***************************************************************************)
(* The sequencer's plan is only replaced while no worker uses it, and its    *)
(* exposures are taken of a tracked target, for plans of any size.          *)
(***************************************************************************)
EXTENDS ObservationSequencer, TLAPS

\* A worker between the start of a target and its end.
OnPlan == {"slew", "settle", "track", "focus", "expose", "wait"}

\* The inductive invariant.  COMPLETED is as quiet as IDLE, for LoadPlan() makes the one
\* the other; a worker on the plan is at one of its targets; one that is past the check of
\* the track callback has the mount on it.
SeqInv ==
  /\ SeqTypeOK
  /\ seq_state \in {"IDLE", "COMPLETED"} => seq_worker \in Resting
  /\ seq_worker \in OnPlan => current_target \in 0 .. plan.targets - 1
  /\ seq_worker = "next" => current_target \in 0 .. plan.targets
  /\ seq_worker \in {"focus", "expose"} =>
       mount.target = current_target /\ mount.status \in {"tracking", "error"}

\* The fields of a plan are within their bounds.
LEMMA PlanFields ==
  ASSUME NEW p \in Plans
  PROVE  p.targets \in 0 .. MaxTargets /\ p.exposures \in 1 .. MaxExposures
  BY DEF Plans

\* The invariant holds at first.
LEMMA SeqInitInv == SeqInit => SeqInv
<1> SUFFICES ASSUME SeqInit PROVE SeqInv
  OBVIOUS
<1>1. NoTargets \in Plans
  BY SequencerAssumption DEF NoTargets, Plans
<1>2. /\ plan \in Plans /\ seq_state = "IDLE" /\ seq_worker = "none"
      /\ seq_running = FALSE /\ seq_paused = FALSE /\ stopping = FALSE /\ seq_crashed = FALSE
      /\ current_target = -1 /\ taken = 0 /\ mount = [status |-> "idle", target |-> -1]
  BY <1>1 DEF SeqInit
<1>3. current_target \in -1 .. MaxTargets /\ taken \in 0 .. MaxExposures
  BY <1>2, SequencerAssumption
<1>4. mount \in [status: {"idle", "slewing", "tracking", "parking", "parked", "error"},
                target: -1 .. MaxTargets]
  BY <1>2, <1>3
<1> QED BY <1>2, <1>3, <1>4 DEF SeqInv, SeqTypeOK, Resting, OnPlan

\* An RPC preserves the invariant.
LEMMA RpcKeepsSeqInv == SeqInv /\ Rpc => SeqInv'
<1> SUFFICES ASSUME SeqInv, Rpc PROVE SeqInv'
  OBVIOUS
<1> USE SequencerAssumption DEF SeqInv, SeqTypeOK, Resting, OnPlan, flagVars, workerVars
<1>1. CASE LoadPlan
  BY <1>1 DEF LoadPlan
<1>2. CASE StartSequencer
  <2>1. 0 \in 0 .. plan.targets
    BY <1>2, PlanFields DEF StartSequencer
  <2>2. seq_crashed' \in BOOLEAN
    BY <1>2 DEF StartSequencer
  <2>3. 0 \in -1 .. MaxTargets
    OBVIOUS
  <2> QED BY <1>2, <2>1, <2>2, <2>3 DEF StartSequencer
<1>3. CASE PauseSequencer
  BY <1>3 DEF PauseSequencer
<1>4. CASE StopSequencer
  BY <1>4 DEF StopSequencer
<1>5. CASE StopJoined
  BY <1>5 DEF StopJoined
<1> QED BY <1>1, <1>2, <1>3, <1>4, <1>5 DEF Rpc

\* What the mount does by itself preserves the invariant.
LEMMA MountKeepsSeqInv == SeqInv /\ MountMoves => SeqInv'
  BY SequencerAssumption
     DEF MountMoves, Mount, SeqInv, SeqTypeOK, Resting, OnPlan, flagVars, workerVars

\* A step of the worker preserves the invariant.
LEMMA WorkerKeepsSeqInv == SeqInv /\ WorkerStep => SeqInv'
<1> SUFFICES ASSUME SeqInv, WorkerStep PROVE SeqInv'
  OBVIOUS
<1> USE SequencerAssumption DEF SeqInv, SeqTypeOK, Resting, OnPlan, flagVars, Worker
<1>0. /\ plan.targets \in 0 .. MaxTargets /\ plan.exposures \in 1 .. MaxExposures
      /\ MaxTargets \in Nat /\ MaxExposures \in Nat
  BY PlanFields
<1>1. CASE NextTarget
  BY <1>0, <1>1 DEF NextTarget
<1>2. CASE Slew
  <2>1. mount' \in [status: {"idle", "slewing", "tracking", "parking", "parked", "error"},
                    target: -1 .. MaxTargets]
    BY <1>0, <1>2 DEF Slew, Advance, MountSlews, Mount
  <2>2. /\ seq_worker = "slew"
        /\ \/ seq_worker' = "settle" /\ current_target' = current_target
           \/ seq_worker' = "next" /\ current_target' = current_target + 1
        /\ UNCHANGED <<plan, stopping, seq_state, flagVars, taken, seq_crashed>>
    BY <1>2 DEF Slew, Advance
  <2> QED BY <1>0, <2>1, <2>2
<1>3. CASE Settle
  BY <1>0, <1>3 DEF Settle
<1>4. CASE Track
  <2>1. mount' \in [status: {"idle", "slewing", "tracking", "parking", "parked", "error"},
                    target: -1 .. MaxTargets]
    BY <1>0, <1>4 DEF Track, Advance, MountTracks, Mount
  <2>2. seq_worker' = "focus" => mount'.target = current_target /\ mount'.status = "tracking"
    BY <1>4 DEF Track, Advance, MountTracks, Mount
  <2>3. /\ seq_worker = "track"
        /\ \/ seq_worker' = "focus" /\ current_target' = current_target
           \/ seq_worker' = "next" /\ current_target' = current_target + 1
        /\ UNCHANGED <<plan, stopping, seq_state, flagVars, taken, seq_crashed>>
    BY <1>4 DEF Track, Advance
  <2> QED BY <1>0, <2>1, <2>2, <2>3
<1>5. CASE Focus
  BY <1>0, <1>5 DEF Focus
<1>6. CASE Expose
  BY <1>0, <1>6 DEF Expose, Advance
<1>7. CASE Exposed
  BY <1>0, <1>7 DEF Exposed
<1>8. CASE Unpaused
  BY <1>0, <1>8 DEF Unpaused, Advance
<1>9. CASE Finish
  BY <1>0, <1>9 DEF Finish
<1>10. CASE Park
  <2>1. mount' \in [status: {"idle", "slewing", "tracking", "parking", "parked", "error"},
                    target: -1 .. MaxTargets]
    BY <1>0, <1>10 DEF Park, MountParks, Mount
  <2> QED BY <1>0, <1>10, <2>1 DEF Park
<1>11. CASE Ended
  BY <1>0, <1>11 DEF Ended
<1> QED BY <1>1, <1>2, <1>3, <1>4, <1>5, <1>6, <1>7, <1>8, <1>9, <1>10, <1>11 DEF WorkerStep

\* Every step preserves the invariant.
LEMMA SeqStepInv == SeqInv /\ [SeqNext]_seqVars => SeqInv'
<1>1. SeqInv /\ UNCHANGED seqVars => SeqInv'
  BY DEF seqVars, flagVars, workerVars, SeqInv, SeqTypeOK
<1> QED BY <1>1, RpcKeepsSeqInv, MountKeepsSeqInv, WorkerKeepsSeqInv DEF SeqNext

\* The plan, the flags, the worker and the mount keep their types: the current target is
\* one of the plan's, and no target has more exposures than the plan says.
THEOREM SeqTypes == SeqSpec => []SeqTypeOK
<1>1. SeqInv => SeqTypeOK
  BY DEF SeqInv
<1> QED BY SeqInitInv, SeqStepInv, <1>1, PTL DEF SeqSpec

\* A state of IDLE, in which LoadPlan() replaces the plan without a lock, means that no
\* worker reads the plan or commands the mount.
THEOREM SeqIdle == SeqSpec => []IdleIsQuiet
<1>1. SeqInv => IdleIsQuiet
  BY DEF SeqInv, IdleIsQuiet
<1> QED BY SeqInitInv, SeqStepInv, <1>1, PTL DEF SeqSpec

\* No exposure is taken before the mount tracks the target it is taken of.
THEOREM SeqExposes == SeqSpec => ExposesOnTarget
<1> DEFINE OnTarget == taken' > taken => /\ mount.target = current_target
                                         /\ mount.status \in {"tracking", "error"}
<1>1. SeqInv /\ [SeqNext]_seqVars => [OnTarget]_seqVars
  <2> SUFFICES ASSUME SeqInv, SeqNext, taken' > taken PROVE OnTarget
    BY DEF seqVars
  <2>1. taken \in Nat /\ ~(taken > taken) /\ ~(0 > taken)
    BY SequencerAssumption DEF SeqInv, SeqTypeOK
  <2>2. Expose
    BY <2>1 DEF SeqNext, Rpc, LoadPlan, StartSequencer, PauseSequencer, StopSequencer,
                StopJoined, MountMoves, WorkerStep, NextTarget, Slew, Settle, Track, Focus,
                Exposed, Unpaused, Finish, Park, Ended, workerVars
  <2> QED BY <2>2 DEF Expose, Worker, Advance, SeqInv
<1> QED BY SeqInitInv, SeqStepInv, <1>1, PTL DEF SeqSpec, ExposesOnTarget

=============================================================================
