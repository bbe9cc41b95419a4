------------------------ MODULE ObservationSequencer ------------------------
(***************************************************************************)
(* The sequencer service: its RPCs, serialised by the service's mutex_, the *)
(* worker thread that runs the plan target by target, and, seen from there, *)
(* the mount behind mount_stub_, of which the sequencer is the only client. *)
(* A slew RPC is answered when the mount has accepted it, not when it has   *)
(* arrived; nothing tells the worker what becomes of the mount afterwards.  *)
(***************************************************************************)
EXTENDS Integers

CONSTANTS
  MaxTargets,      \* bound on the targets of a plan
  MaxExposures,    \* bound on the exposures of a target
  FocusIntervals   \* the focus_interval a plan may have (0 in a proto that omits it)

ASSUME SequencerAssumption ==
  /\ MaxTargets \in Nat \ {0}
  /\ MaxExposures \in Nat \ {0}
  /\ FocusIntervals \subseteq Nat /\ FocusIntervals # {}

VARIABLES
  plan,               \* plan_: its number of targets, exposures of each, focus interval
  seq_state,          \* state_
  seq_running,        \* running_
  seq_paused,         \* paused_
  current_target,     \* current_target_, and t of sequencerLoop()
  taken,              \* i of executeExposures(): the exposures of the target so far
  seq_worker,         \* worker_thread_: "none", "done" (joinable) or where it is
  stopping,           \* stop() is joining the worker, mutex_ is held
  mount,              \* the mount: what it does and at or towards which target
  seq_crashed         \* the process was ended by std::terminate or SIGFPE

workerVars == <<seq_worker, current_target, taken>>
flagVars   == <<seq_running, seq_paused>>
seqVars == <<plan, seq_state, flagVars, workerVars, stopping, mount, seq_crashed>>

Plans == [targets: 0 .. MaxTargets, exposures: 1 .. MaxExposures,
          focus_interval: FocusIntervals \cup {1}]
NoTargets == [targets |-> 0, exposures |-> 1, focus_interval |-> 1]

Resting == {"none", "ended", "done"}

SeqTypeOK ==
  /\ plan \in Plans
  /\ seq_state \in {"IDLE", "LOADING", "SLEWING", "TRACKING", "FOCUSING", "EXPOSING",
                    "PARKING", "COMPLETED"}
  /\ seq_running \in BOOLEAN /\ seq_paused \in BOOLEAN
  /\ current_target \in -1 .. MaxTargets
  /\ taken \in 0 .. MaxExposures
  /\ seq_worker \in Resting \cup {"next", "slew", "settle", "track", "focus", "expose",
                                  "wait", "finish", "park"}
  /\ stopping \in BOOLEAN
  /\ mount \in [status: {"idle", "slewing", "tracking", "parking", "parked", "error"},
                target: -1 .. MaxTargets]
  /\ seq_crashed \in BOOLEAN

SeqInit ==
  /\ plan = NoTargets
  /\ seq_state = "IDLE"
  /\ seq_running = FALSE /\ seq_paused = FALSE
  /\ current_target = -1
  /\ taken = 0
  /\ seq_worker = "none"
  /\ stopping = FALSE
  /\ mount = [status |-> "idle", target |-> -1]
  /\ seq_crashed = FALSE

-----------------------------------------------------------------------------
(* The RPCs: each holds mutex_, none takes a lock the worker knows of.      *)

LoadPlan ==
  /\ ~stopping
  /\ seq_state \in {"IDLE", "COMPLETED"}
  /\ plan' \in Plans
  /\ current_target' = -1
  /\ seq_state' = "IDLE"
  /\ UNCHANGED <<flagVars, seq_worker, taken, stopping, mount, seq_crashed>>

\* Replacing a thread that was never joined ends the process.
StartSequencer ==
  /\ ~stopping
  /\ plan.targets > 0
  /\ ~seq_running
  /\ seq_running' = TRUE
  /\ seq_paused' = FALSE
  /\ current_target' = 0
  /\ seq_state' = "LOADING"
  /\ seq_worker' = "next"
  /\ seq_crashed' = (seq_worker # "none")
  /\ UNCHANGED <<plan, taken, stopping, mount>>

PauseSequencer ==
  /\ ~stopping
  /\ seq_paused' = TRUE
  /\ UNCHANGED <<plan, seq_state, seq_running, workerVars, stopping, mount, seq_crashed>>

StopSequencer ==
  /\ ~stopping
  /\ stopping' = TRUE
  /\ seq_running' = FALSE
  /\ seq_paused' = FALSE
  /\ UNCHANGED <<plan, seq_state, workerVars, mount, seq_crashed>>

\* Bug: the worker is told to stop and not waited for.
StopDetached ==
  /\ stopping
  /\ stopping' = FALSE
  /\ seq_state' = "IDLE"
  /\ UNCHANGED <<plan, flagVars, workerVars, mount, seq_crashed>>

StopJoined ==
  /\ stopping
  /\ seq_worker \in {"none", "done"}
  /\ stopping' = FALSE
  /\ seq_worker' = "none"
  /\ seq_state' = "IDLE"
  /\ UNCHANGED <<plan, flagVars, current_target, taken, mount, seq_crashed>>

Rpc == LoadPlan \/ StartSequencer \/ PauseSequencer \/ StopSequencer \/ StopJoined

-----------------------------------------------------------------------------
(* What the mount answers and does.                                         *)

Mount(status, target) == [status |-> status, target |-> target]

\* slewToEquatorial(): waits for a slew or a park under way, refuses in ERROR.
MountSlews(t, ok) ==
  /\ mount.status \notin {"slewing", "parking"}
  /\ \/ ok /\ mount.status # "error" /\ mount' = Mount("slewing", t)
     \/ ~ok /\ mount.status = "error" /\ UNCHANGED mount
     \/ ~ok /\ mount.status # "error" /\ mount' = Mount("idle", -1)

\* startTracking(): refused while the mount moves.
MountTracks(t, ok) ==
  \/ ok /\ mount.status \notin {"slewing", "parking", "error"} /\ mount' = Mount("tracking", t)
  \/ ~ok /\ mount.status \notin {"slewing", "parking", "error"} /\ mount' = Mount("idle", -1)
  \/ ~ok /\ mount.status \in {"slewing", "parking", "error"} /\ UNCHANGED mount

\* park(): waits for a slew under way, starts from every other state.
MountParks ==
  /\ mount.status \notin {"slewing", "parking"}
  /\ mount' = IF mount.status = "parked" THEN mount ELSE Mount("parking", -1)

\* A slew or a park ends, or a fault ends what the mount does.
MountMoves ==
  /\ \/ mount.status = "slewing" /\ mount' = Mount("idle", mount.target)
     \/ mount.status = "parking" /\ mount' \in {Mount("parked", -1), Mount("idle", -1)}
     \/ /\ mount.status \in {"slewing", "tracking"}
        /\ mount' = Mount("error", mount.target)
  /\ UNCHANGED <<plan, seq_state, flagVars, workerVars, stopping, seq_crashed>>

-----------------------------------------------------------------------------
(* sequencerLoop(), executeTarget() and executeExposures().                 *)

Worker(from, to) ==
  /\ seq_worker = from
  /\ seq_worker' = to
  /\ UNCHANGED <<plan, stopping>>

\* The loop's condition, then the state set by the next target.
NextTarget ==
  /\ \/ /\ current_target < plan.targets /\ seq_running
        /\ Worker("next", "slew")
        /\ seq_state' = "SLEWING"
     \/ /\ ~(current_target < plan.targets /\ seq_running)
        /\ Worker("next", "finish")
        /\ UNCHANGED seq_state
  /\ taken' = 0
  /\ UNCHANGED <<flagVars, current_target, mount, seq_crashed>>

\* Bug: a target that ends is taken again.
AdvanceNot(from) == Worker(from, "next") /\ UNCHANGED current_target

\* A target that failed or is finished: ++t.
Advance(from) == Worker(from, "next") /\ current_target' = current_target + 1

Slew ==
  /\ \/ Worker("slew", "settle") /\ MountSlews(current_target, TRUE) /\ UNCHANGED current_target
     \/ Advance("slew") /\ MountSlews(current_target, FALSE)
  /\ UNCHANGED <<seq_state, flagVars, taken, seq_crashed>>

Settle ==
  /\ Worker("settle", "track")
  /\ seq_state' = "TRACKING"
  /\ UNCHANGED <<flagVars, current_target, taken, mount, seq_crashed>>

\* Bug: the answer of the track callback is ignored.
TrackUnchecked ==
  /\ Worker("track", "focus") /\ UNCHANGED current_target
  /\ \E ok \in BOOLEAN : MountTracks(current_target, ok)
  /\ UNCHANGED <<seq_state, flagVars, taken, seq_crashed>>

Track ==
  /\ \/ Worker("track", "focus") /\ MountTracks(current_target, TRUE) /\ UNCHANGED current_target
     \/ Advance("track") /\ MountTracks(current_target, FALSE)
  /\ UNCHANGED <<seq_state, flagVars, taken, seq_crashed>>

\* current_target_ % plan_.focus_interval decides; dividing by zero ends the process.
Focus ==
  /\ Worker("focus", "expose")
  /\ IF plan.focus_interval = 0
       THEN seq_crashed' = TRUE /\ UNCHANGED seq_state
       ELSE /\ seq_state' = IF current_target % plan.focus_interval = 0
                            THEN "FOCUSING" ELSE seq_state
            /\ UNCHANGED seq_crashed
  /\ UNCHANGED <<flagVars, current_target, taken, mount>>

\* One exposure; a failed one fails the target.
Expose ==
  /\ taken < plan.exposures /\ seq_running
  /\ seq_state' = "EXPOSING"
  /\ \/ Worker("expose", "expose") /\ taken' = taken + 1 /\ UNCHANGED current_target
     \/ Advance("expose") /\ UNCHANGED taken
  /\ UNCHANGED <<flagVars, mount, seq_crashed>>

Exposed ==
  /\ ~(taken < plan.exposures /\ seq_running)
  /\ Worker("expose", "wait")
  /\ UNCHANGED <<seq_state, flagVars, current_target, taken, mount, seq_crashed>>

\* Bug: the wait of a paused plan looks at paused_ only.
UnpausedForever ==
  /\ ~seq_paused /\ seq_running
  /\ Advance("wait")
  /\ UNCHANGED <<seq_state, flagVars, taken, mount, seq_crashed>>

Unpaused ==
  /\ ~(seq_paused /\ seq_running)
  /\ Advance("wait")
  /\ UNCHANGED <<seq_state, flagVars, taken, mount, seq_crashed>>

\* A plan that was not stopped ends with a park.
Finish ==
  /\ \/ seq_running /\ Worker("finish", "park") /\ seq_state' = "PARKING"
     \/ ~seq_running /\ Worker("finish", "ended") /\ UNCHANGED seq_state
  /\ UNCHANGED <<flagVars, current_target, taken, mount, seq_crashed>>

Park ==
  /\ Worker("park", "ended")
  /\ MountParks
  /\ seq_state' = "COMPLETED"
  /\ UNCHANGED <<flagVars, current_target, taken, seq_crashed>>

Ended ==
  /\ Worker("ended", "done")
  /\ seq_running' = FALSE
  /\ UNCHANGED <<seq_state, seq_paused, current_target, taken, mount, seq_crashed>>

WorkerStep ==
  \/ NextTarget \/ Slew \/ Settle \/ Track \/ Focus \/ Expose \/ Exposed \/ Unpaused
  \/ Finish \/ Park \/ Ended

SeqNext == ~seq_crashed /\ (Rpc \/ WorkerStep \/ MountMoves)

SeqSpec == SeqInit /\ [][SeqNext]_seqVars

\* The operating system schedules the worker and the handler; the mount ends its moves.
SeqFairness ==
  /\ WF_seqVars(~seq_crashed /\ WorkerStep)
  /\ WF_seqVars(~seq_crashed /\ StopJoined)
  /\ WF_seqVars(~seq_crashed /\ MountMoves)

-----------------------------------------------------------------------------
(* IDLE is what LoadPlan() relies on to replace plan_ without a lock: no     *)
(* worker is then about to read the plan or to command the mount.            *)
IdleIsQuiet == seq_state = "IDLE" => seq_worker \in Resting

\* An exposure is taken of the target the plan is at: the mount was tracking it, not
\* still on its way there although the slew was answered a second later.
ExposesOnTarget ==
  [][taken' > taken => /\ mount.target = current_target
                       /\ mount.status \in {"tracking", "error"}]_seqVars

\* StopSequencer returns, wherever the worker was, even paused or behind a slew the
\* mount is waiting for.
StopReturns == stopping ~> (~stopping \/ seq_crashed)

\* A started plan ends, or somebody pauses it, for there is no RPC that resumes it.
PlanEnds == seq_running ~> (~seq_running \/ seq_paused \/ seq_crashed)

=============================================================================
