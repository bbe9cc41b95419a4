# Verification of the astro mount controller

TLA+ models of `astro_mount_control`, checked with TLC and proved about with TLAPS.
The reference is the code under `src/`; line numbers below are of
`src/src/controllers/mount_controller.cpp` unless another file is named. `PROJECT.json`
maps every definition of the models to the lines it stands for.

## 1. The system

`MountController` drives the two axes of a telescope mount. A gRPC service
(`src/src/api/service_impl.cpp`) forwards remote calls to it, each on a handler thread of
its own; INDI, ASCOM, LX200, the web proxy and the ST4 guider are further callers. Below
it hardware abstraction layers talk to the drives.

| Component | State it keeps | Operations | Interacts by |
|---|---|---|---|
| mount lifecycle (`mount_controller.cpp`) | `state_`, `tracking_active_`, `io_active_`, `work_thread_`, `io_writer_thread_`, two mutexes | slew, track, stop, park, unpark, clearErrors, home, emergencyStop, flip | calls from handler threads; one background thread polls `state_` and the flags |
| split tracking session (1209-1384) | `tracking_command_`, the writer's locals | publishVelocity/Position/Flip/Stop, the writer's tick | snapshot under `command_mutex_`, emission after it is released |
| automatic tracking (`service_impl.cpp`, 26-124) | `auto_track_thread_`, its cancel flag and mutex | schedule after a Goto, watch | polls `getStatus()`, calls `startTracking()` |
| meridian flip decision (2520-2850, 7444) | pending, in progress, flipped, targets sent | detect, delay, start, complete, time out | inside the calc loop; manual request from a handler |
| soft limits, shortest path | targets, limits | wrap, check | arithmetic on the request |
| pointing, Kalman, PEC, ephemeris models | real-valued estimates | fit, correct | called by the calc loop |
| MF7025v2 motor (`hal/mf7025v2_hal/`) | error latch, failure counter, `moving_` | enable, set, stop, emergencyStop | mutex of each motor; the HAL's monitor thread |
| MF7025v2 CAN interface (`mf7025v2_interface.cpp`) | one transaction slot per node | executeCommand, readerLoop, open, close | condition variable between callers and the reader |
| gamepad (8497-8959) | mode, active axes, emergency button | poll, steer, start, stop | its own thread commands the drives and the controller |
| observation sequencer (`sequencer/`) | plan, `running_`, `paused_`, worker thread | load, start, pause, stop | RPCs of the mount and the camera |
| weather monitor, service and client | alert level, stream, reader thread | cycle, subscribe, handle, stop | a status stream; parks the mount |
| notifications | event queue, digest, worker thread | push, configure, deliver, stop | any thread pushes; channels |
| ST4 guider and its service | socket, `guiding_`, reader thread | start, stop, connect, handle an event, pulse | RPCs; PHD2's event stream; pulses the drive |
| PID calibration service | `running_`, `stop_requested_`, status, result, worker thread | start, stop, test a combination, finish | RPCs; its worker turns one axis through the controller |
| CANopen drives, configuration, other satellite services, front ends | their own | - | RPC, HTTP, callbacks |

What is hard here:

- **Interleaving.** Nothing serialises the handlers. `slewToEquatorial()` and `park()`
  hold `thread_mutex_` from their join to their spawn; `startTracking()` (1476) releases
  it in between; `stop()` takes it only for its join; `home()`, `unpark()` and the flip
  request never do. The background thread reads and writes `state_` between all of these.
- **Joins.** Every mover joins the previous thread, which leaves only when `state_` or a
  flag tells it to; a forgotten one is a deadlock with `thread_mutex_` held.
- **Ordering.** The io writer emits what it copied earlier; commands, stops, flag changes
  and halts by the calc loop race it.
- **Partial failure and timeouts.** Each axis may refuse a command; the slew watchdog,
  the park timeout, bounded re-issues and `ERROR` exits all end a motion in their own way.
- **Stale decisions.** The watcher and the calc loop read a status under the lock and act
  on it after it is released; so do the motor's monitor thread, the gamepad's thread and
  the sequencer, which asks for tracking a second after its slew was accepted.
- **Threads that end.** The sequencer, the notification engine, the weather client, the
  guider and the gamepad each have a worker that `stop()` must tell to end, wake, join and clean up after.

What makes each part correct: a live `std::thread` is never overwritten; a moving state
always has someone to end it; whatever ends a motion also stops the drives; a parked mount
does not move; calls return; a session's commands reach the drives in order and a stop wins; the
mount follows the last Goto and stays where it was told to stay. Around the controller: the
sequencer exposes only on its target, no notification is lost or sent twice, danger parks
the mount, a CAN slot is always freed and answers its owner, a disabled motor is off, a flip
ends and the soft limits come back after it, the gamepad lets go of what it turned, a guider
that was left off stays off, and a calibration called complete is complete.

## 2. The modules

| Module | Models | Checked by |
|---|---|---|
| `MountLifecycle` | the controller's operations, background thread and io writer, with two drives | `MCLifecycle` (3 passing runs, 3 disagreements) |
| `AutoTrack` | EXTENDS `MountLifecycle`: the watcher thread is one more client of the controller | `MCAutoTrack` (1 passing run, 3 disagreements) |
| `TrackingIo` | one split session seen from its command snapshot | `MCServices`; its own `.cfg` (1 disagreement) |
| `Mailbox` | what the snapshot promises; `TrackingIo` implements it twice | properties `MotionIsMailbox`, `FlipIsMailbox` |
| `ObservationSequencer` | the sequencer's RPCs and worker, with the mount as it answers them | `MCServices` |
| `NotificationEngine` | event queue, digest, worker and shutdown | `MCServices` |
| `WeatherWatch` | monitoring cycle, status stream, the client's reader and its stop | `MCServices` |
| `CanTransaction` | one node's transaction slot, its callers and the reader thread | `MCServices` |
| `Mf7025Motor` | the motor's operations, its drive and the monitor thread | `MCServices` |
| `MeridianFlip` | the flip's and the soft limits' flags through the calc loop and the calls | `MCServices` |
| `Gamepad` | the polling thread, the pad, the RPCs and the mount | `MCServices` |
| `St4Guider` | the guider's RPCs, its reader thread and PHD2 | `MCServices` |
| `PidCalibration` | the calibration's RPCs, its worker and the axis | `MCServices` |
| `*_proofs` (8 modules) | theorems; `Mf7025_proofs` has those of `CanTransaction` and `Mf7025Motor`, `Services_proofs` those of `Gamepad`, `St4Guider`, `PidCalibration`, `MeridianFlip` and the composition `MCServices` | TLAPS |

### MountLifecycle

One action per critical section of an operation; the code between two locks is a step of
the caller's program counter `pc[c]`, so that everything else may run in between.

- `state_`, the flags, `thread_mutex_`, `work_thread_` and `io_writer_thread_` carry the
  names of the code. `thread_mutex_` is a variable because it is held across a join;
  `state_mutex_` is not, because each of its critical sections is one action.
- `work_thread_` is `"none"` (not joinable), `"done"` (finished, still joinable) or where
  the thread is: in the slew monitor (`slew...`, 7732-7957), the calc loop (`track...`,
  2009-3533) or the park thread (`park...`, 3668-3797). Assigning to it when it is
  joinable sets `terminated`, as `std::terminate` would, and nothing happens afterwards.
- `stop()` clears the flags, settles the state, joins, halts the drives: four steps.
  `startTracking()` is a check, a whole `stop()`, a second join, a claim under
  `state_mutex_` and a spawn without the lock.
- The safety status is read before `state_mutex_` is taken and acted on after it is
  released (`trackUnsafe`, `trackFault`); ERROR exits look at the state again
  (`TrackExit`) before they latch the stop and halt.
- `drive[a]` abstracts positions and rates to what an axis is doing: `off`, `still`,
  `starting` (a goto accepted, the motor not yet turning), `goto`, `rate`. Each command may
  be refused by either axis.
- `Env` names what the world may do (refused commands, targets out of limits, stalls, an
  early target-reached report, faults, the meridian). A run picks the events it needs.
- Simplified: the slew monitor calls a slew reached when the drives neither are about to
  move nor move (its settle counters are left out); `emergencyStop` is the both-axes form.

### AutoTrack

`SlewToCoordinates` is a slew followed by `scheduleAutoTrackAfterSlew` (lock and cancel,
join, create), and the watcher is the client `Watcher` whose only call is
`startTracking()`. `aimed` is the object the controller last claimed the mount for; `goal`
is a history variable, the object of the last move of a user that returned true. Service
shutdown is not modelled.

`Serialised` is an assumption about the environment, not about the code: when TRUE, a user
calls nothing while the watcher is between its last look at the status and the end of its
`startTracking()`, and the watcher does not look while a user's call is between its start
and the cancellation. The three disagreement runs show what happens in exactly those
windows (`two_gotos` and `stale` with `Serialised = FALSE`) and that `stop()` is lost even
outside them. The passing run then shows that nothing else goes wrong.

### TrackingIo and Mailbox

A command's data is the sequence number it was published with, so a drive's command tells
which publication it executes. One tick of the writer is a copy under `command_mutex_`, a
look at the flags, an emission, and a mark under the lock. The session ends by `stop()`, by
the loop's own ERROR exit, or goes on under `emergencyStop()`. `velocity` and `position`
mode are fixed for a session, as the tracking configuration fixes them. The loop may see
the flip's target reached at any time, because the drives' reports may concern an earlier
target.

`Mailbox` is the abstract promise: the drives execute ever newer commands, may skip
superseded ones, never return to one and never execute one that was not published. The
refinement mapping takes the number of the newest motion (or flip) in the snapshot for
`latest` and the newest one emitted for `executed`.

### The components around the controller

- **`ObservationSequencer`.** The RPC handlers hold the service's mutex, also while
  `StopSequencer` joins (`stopping`), so one action each; the worker is a program counter
  over `sequencerLoop()`, `executeTarget()` and `executeExposures()`. `mount` is what the
  sequencer's requests meet at the controller: a slew waits for a running one and refuses
  ERROR, tracking is refused while the mount moves. Starting over a thread never joined and
  a zero focus interval end the process (`seq_crashed`).
- **`NotificationEngine`.** One turn of `workerLoop()` is what it does under `mutex_`
  (`Take`), its second look at the setting (`Choose`), and the branches after it. An event
  is one element, its `Bucket` what `matchesAggregate()` compares; `pushed` and `delivered`
  are history variables.
- **`WeatherWatch`.** The client's iteration from the subscription to the back-off, against
  `stop()` in its three steps. `context` is the `ClientContext` the reader owns and
  `active_stream` the pointer to it that `TryCancel()` uses. `parked` stands for the park
  that `main.cpp` (571-580) does on danger.
- **`CanTransaction`.** `pending_[node]`, claimed, sent, answered or timed out by each caller
  and filled by the reader. Replies may be lost or late. `overtaken` is a history variable:
  another caller claimed the slot between the reader's delivery and the caller's look at it.
- **`Mf7025Motor`.** Each operation is one hold of the motor's mutex; a request may be
  executed without being acknowledged (`"unacknowledged"`) or lost. `self_locked` is
  `enable()` waiting for the mutex it holds.
- **`MeridianFlip`.** One action per way an iteration of the loop goes, in the order of its
  code (cooldown, soft limits, pier side, detection, delay, execution), and one per call that
  changes the state: a Goto, `startTracking()`, the manual flip, `park()`, `unpark()`, `stop()`,
  `clearErrors()` and `home()`, with the end of a slew or a park and the faults. The hour angle
  is one of three zones; that the drives report a target is free. `left_in_flip` is a history
  variable: a call took the mount out of a flip that still counts as in progress.
- **`Gamepad`.** One axis and every use of the pad that reaches it; the other axis's stick
  matters because the coordinate modes turn both. The state is looked at in one action and
  the drive commanded in a later one.
- **`St4Guider`.** The service's mutex admits one RPC, whose parts are steps: `stopPHD2()` up
  to the closed socket, its join, the connection, the request. The reader copies the
  descriptor, reads, and handles the messages of a chunk one by one without looking at the
  connection again. A descriptor number that another thread's socket reuses between the copy
  and the read is not modelled.
- **`PidCalibration`.** A sweep is a number of combinations; a point that a stop cut short is
  kept like the others (`pid_cut`). The thread runs from the moment the mutex is released
  and is assigned to `worker_` later, so that two starts may assign in turn (`pid_crashed`).

## 3. The runs

| Run | Shows |
|---|---|
| `lifecycle_movers` | two clients, every operation and event: `NoTerminate`, `Supervised`, `ErrorHalts`, `ParkedStill` (and `TypeOK`) when one of the clients is the only mover |
| `lifecycle_rest` | a client that moves the mount and clears its errors, another that stops, halts, unparks and flips it, drives that accept their commands and arrive but may report it too early, targets within the limits: `QuiescentStill` |
| `lifecycle_liveness` | one client, every event: `CallsReturn`, `MovesEnd` |
| `autotrack_serialised` | one user, the watcher, two objects: `WatcherKept`, `FollowsGoto`, `ParkHolds`, `GotoTracks` |
| `services` | ten components, one per behaviour: 12 invariants and 16 action or temporal properties (below) |
| `lifecycle_clear_errors` | expected violation: `clearErrors()` while tracking ends the io writer of a session that goes on, against "Has no effect if the mount is not in ERROR state" |
| `lifecycle_slew_limits` | expected violation: a slew refused for the limits leaves the drives turning in IDLE |
| `lifecycle_park_early` | expected violation: a drive reports its target reached before it moves, and `park()` declares the mount parked where it stands, against "PARKING --> PARKED: both axes at (0,0)" |
| `autotrack_two_gotos` | expected violation: a second Goto inside the watcher's `startTracking()` ends the process |
| `autotrack_stale` | expected violation: the stale watcher takes the mount back to the previous object |
| `autotrack_stop` | expected violation: `stop()` during a Goto, and the mount starts tracking by itself |
| `tracking_io_flip` | expected violation: a velocity older than the flip takes the drives away from it |

What `services` shows, by component:

| Component | Properties |
|---|---|
| sequencer | `IdleIsQuiet`: no worker behind the IDLE in which a plan is replaced. `ExposesOnTarget`: the mount was tracking the target of every exposure. `StopReturns`, `PlanEnds` |
| notifications | `AccountedOnce`: no event lost or sent twice. `NoneAfterShutdown`. `EventReaches` |
| weather | `DangerParks`: a lasting danger parks the mount through lost streams and an operator's unpark. `QuietAfterStop`. `ContextAlive`, `ClientStops`: a stop cancels a live stream and need not wait for its deadline |
| CAN | `SlotOwned`: an active slot has somebody to free it. `OwnAnswer`: only an overtaken caller gets another's reply |
| motor | `DisabledIsOff`, `ReportFollowsDrive`: between halves of an emergency stop and with statuses stored late |
| flip | `FlipEnds`. `LimitsWatched`: the suspended soft limits come back, unless a stop, a Goto or a park took the mount out of a flip |
| tracking session | `StopWins`, `MotionReaches`, `MotionIsMailbox`, `FlipIsMailbox`: all orders of publication, copy, emission and mark, with flips, ERROR exits, `emergencyStop()` and `stop()` |
| gamepad | `PadExitHalts`, `ReleaseStops`, `EmergencyWorks` |
| guider | `OffIsOff`: no late event switches a stopped guider on again, no pulse, thread or socket remains |
| PID calibration | `CompletedMeansAll`: a completed sweep tested everything for its whole time |

These modules share no variable, so one run checks them side by side: the initial state
chooses which one runs. Its state space is the sum of theirs, not the product. (The session
and the flip decision belong to one program, and so do the motor and its interface; each is
modelled with the other as free as its environment can be.)

Every property of a passing run has a mutant: a plausible bug, written as an operator next
to the definition it replaces (`\* Bug: ...`), that makes that run fail.

**Bounds.** Two clients are what a race between a mover and a caller needs; a third adds
no new pair, and the theorems cover every number. `MaxVerifyRetries = 1` makes both the
re-issue and its exhaustion happen. Two targets distinguish the last Goto from the one
before; one user plus the watcher already issues Gotos in every order relative to the
watchers. `MaxSeq = 3` fits the publication a writer copies, one that overtakes it before the
mark, and one more after both, each a motion or a flip; a stop is published at the bound, too
(`tracking_io_flip` has 4). The safety theorems hold for every `MaxSeq`. Nothing else is
bounded: calls repeat for ever. In `services` two targets of up to two exposures have a first, a next and
a last one of each; three events of two kinds merge, replace and wait; one status on its
way is enough to be stale or lost; two callers contend for a slot; three combinations have one between the first and the last, and
two clients start at once. `CanFailureThreshold` is
2 (5 in the code) and `FlipCooldown` 2 (10 in the code): both are counted to and reset in
between.

**What the passing runs exclude, and why.** `lifecycle_movers` has a single mover because
`startTracking()` against another mover overwrites a live thread (the disagreement of
`autotrack_two_gotos`). `lifecycle_rest` excludes the events after which the code
knowingly leaves drives alone: a refused axis, a target out of limits, a park that times
out; and `home()`, which races an ERROR exit. Nor does its second client clear errors:
`clearErrors()` while the mount is not in ERROR ends the writer of a session (the
disagreement of `lifecycle_clear_errors`). A drive that reports its target reached before it
moves, as the MF7025v2 does, is part of all three passing runs of `MCLifecycle`: what it
breaks is `ParkedAtRest`, in `lifecycle_park_early`, and what holds all the same is
`ParkedStill`.
`lifecycle_liveness` has one client: a `stop()` that races a `startTracking()` waits in its
join for the session that was just started.

**Fairness.** Threads are scheduled by the operating system (weak fairness of the
background thread and the writer); a lock or a join that is possible again and again is
got (strong fairness of a handler's steps); a drive that was commanded moves and arrives.
Strong fairness of `SlewPollReached` and `ParkPollReached` says that a thread polling
every 100 ms does not miss for ever a state that recurs: with a re-issue the drives stop
and start again, and re-issues are bounded. Under `slewStall` and `parkStall` drives need
not arrive before the watchdog fires. Of a tracking session only the io writer is assumed fair. In `services` the worker
threads, a handler in its join and the clocks (a digest's window, the flip's timeout, the
held button) are weakly fair, each for the chosen component only. A status that can be
pushed or read again and again is (strong fairness): a subscription lasts 30 s and the
service pushes far more often. Nothing is assumed of users, operators, CAN replies or
drives; where a property needs the drive to stay as it is, the property says so.

**Deadlock** is checked everywhere except where the system really stops: a session of
`TrackingIo` ends, after `std::terminate` (`autotrack_stale`, the sequencer's crash) nothing
runs, and in `services` a stopped session, engine or client has nothing left to do.

**Disagreements seen, without a run of their own.** The properties above name them as
exceptions where they would otherwise fail, or the model shows them:

- `StartSequencer` after a plan has completed assigns over a thread that was never joined
  (`observation_sequencer.cpp:34`), and a `focus_interval` of 0, which a request that omits
  it has, divides by zero (130). A plan that is paused cannot be resumed by any RPC.
- `enable()` at the failure threshold locks its own mutex again (`mf7025v2_hal.cpp:49`).
  `setPosition()` may be refused although the drive executes it.
- A caller of `executeCommand()` whose slot is claimed between the reader's delivery and
  its own look at it takes the other's reply, or times out and frees the other's slot.
- `stop()`, a Goto (946, or 940 when it is refused) and `park()` take the mount out of a flip
  and leave it in progress; `park()` does so from a failed flip's ERROR, too. The soft limits
  (2320) and later flips are then suspended in all that follows, until an error is cleared or
  the mount is homed, although the comment gives the flip as the only reason to skip them
  (2316-2319). `left_in_flip` records it. A second manual flip sends no targets.
- A digest stays undelivered when the aggregation is switched off; events still queued when
  `stop()` is called are dropped.
- A gamepad that is lost with its stick deflected leaves the axis turning.
- When PHD2 goes away the guider's `guiding_` stays TRUE, and `GetStatus` then reports
  guiding, and the HAL's connection in place of PHD2's (`st4_guider_service_impl.cpp:216-222`).
- `StartCalibration` assigns its thread outside the mutex (73): after a worker that has ended
  in the meantime a second start may assign first, and the first then overwrites a joinable
  thread. A calibration whose axis refuses every motion is `COMPLETED` all the same.
- `isRainSafe()` is called with a rain rate of 0 (`weather_rules.cpp:32`), so that rain alone is
  never a danger.

## 4. The proofs

For every number of clients, any operations and events, any bound:

- `TypeCorrect`: `Spec => []TypeOK`.
- `LockCorrect`: whoever joins, or claims and spawns for a slew or a park, holds
  `thread_mutex_`.
- `NeverTerminates`, `AlwaysSupervised`, `ErrorAlwaysHalts`: under `SoleMover` (if some
  client tracks, no other client slews, tracks or parks), the three safety invariants of
  `lifecycle_movers`.
- `ParkedStaysStill`: `ParkedStill` under `SoleMover`, with drives that may report a target
  early, stall or refuse.
- `AlwaysComesToRest`: `QuiescentStill` under `SoleOperator` (if a client slews, tracks or
  parks, no other does or clears errors), `NeverHome` and `CalmEnv` (no refused command, no
  target out of limits, no park that stalls), the conditions of `lifecycle_rest`. Early
  reports, stalled slews, faults, lost synchrony, refused flips are all allowed.
- `MonitorLostCorrect`: a slew or park monitor whose state was taken away has a client that
  waits to join it: what both `QuiescentStill` and `ParkHolds` rest on.
- `WatcherAlwaysKept`: no watcher is overwritten, with no assumption at all.
- `AutoImplementsLifecycle`: `AutoSpec => Spec`. The composition with the watcher refines
  the lifecycle; `AutoTypeCorrect` uses it.
- `AutoLifecycleHolds`, `ParkAlwaysHolds`: under `Serialised` and `UsersSoleMover` (the users
  alone satisfy `SoleMover`; they may all go to objects), the invariants of
  `lifecycle_movers` hold of the composition and the watcher leaves a parked mount alone.
- `AlwaysFollowsGoto`: under `Serialised` and `SoleGoer` (one user goes to objects, none calls
  `startTracking()`; any number may park, stop, recover), `FollowsGoto`.
- `SeqIdle`, `SeqExposes` (and `SeqTypes`); `NoteAccounted`, `NoteDigests`, `NoteShutdown`;
  `WeatherContext`, `WeatherQuiet`; `SlotAlwaysOwned`, `AnswerOwn`; `DisabledAlwaysOff`;
  `PadAlwaysHalts`, `OffStaysOff`, `CompletedIsComplete`: the safety properties of `services` for plans, streams and events of any
  size, any number of callers and any threshold.
- `FlipSuspendsLimits`: when the mount is neither flipping nor in ERROR, no flip counts as in
  progress unless a `stop()`, a Goto or a `park()` has left one, for any length of the
  cooldown. This is the safety half of `LimitsWatched`, and no run checks it by itself.
- `ServicesImplementAll`: the module that `services` checks refines each of the ten
  components, so that their theorems hold of it; `ServicesTypes` (`ServicesTypeOK`, the types
  of all but the tracking session) uses it.
- `IoTypeCorrect`, `StopAlwaysWins`, `MotionImplementsMailbox`, `FlipImplementsMailbox`:
  the safety of the tracking session, for sessions of any length.

The lifecycle's argument is a chain of invariants, each inductive relative to those
before it. `CallsInv`: a client's step fits its operation. `LockInv`: the holder of
`thread_mutex_` is who joins or claims. `ThreadsInv`: a client between its last join and
its spawn finds no thread; this is where `SoleMover` enters, because `startTracking()` is
there without the lock. From it `NoTerminate` follows, since only `TrackSpawn` assigns
without having joined under the same lock. `Supervised` alone is not inductive: a calc
loop that is leaving no longer supervises TRACKING, and `LeavingInv` adds that then some
handler is on its way to settle the state, and that a timed-out slew has left SLEWING.
`ErrorHalts` needs `LatchInv` (a writer that has seen the stop emits no more) and
`ErrorInv` (whoever enters ERROR halts the drives, and if the writer still holds a
velocity it will meet the latched stop on its next tick, before it looks at the flags).

`SoleMover` enters this chain only through its consequence `Exclusive`: past the joins of a
`startTracking()` no other client is past its own. The theorems are stated for
`Spec /\ []Exclusive`, and those about `Spec` are corollaries (`SoleMoverExcludes`). The
composition needs it so: the watcher tracks and the users slew, `SoleMover` is false of
them, and yet `TurnsExclude` shows `Exclusive`, because they take turns.

`QuiescentStill` speaks of the moment in which everything has ended, and needs to know who
will halt the drives at every moment before it. `RestInv`: when both threads have ended,
the drives are still or some client is about to halt them, to hand them to a thread or to
command them anew. It is inductive only with what makes each thread leave still drives
behind: `PairInv` (the drives are disabled together), `ArrivedInv` (what a slew monitor saw is
still so when it acts; a park thread disables the drives whatever it saw), `MonitorLostInv` and, for a session, `SessionLostInv`: a session
whose state was taken away has a client waiting to join it, unless that happened before
its loop was started, when its drives are stopped and its writer has nothing to send.
`SoleOperator` is where a second client that clears errors would break it.

`ParkedStill` is strengthened to `ParkedInv`: a parked mount has no thread, and nobody is past
a claim. The park thread disables the drives as it ends, and while it ran nobody was
(`ThreadsInv`), so the only commands that could still come need a claim, which leaves PARKED.
It does not say where the mount stands.

`SerialInv`: while the watcher decides or calls, no user is in a call. With it `UnparkedInv`
is inductive: the watcher has seen IDLE and nobody can park since, because a park monitor
left over from a park that was stopped still has its joiner (`MonitorLostInv`), who would
be a user in a call. `GotoInv` follows a Goto through its four stations: the object the
user asked for last is the one it schedules a watcher for, the one a watcher that was not
cancelled waits for, and the one the mount was claimed for. `SoleGoer` is needed: with two
users the slews may be claimed in one order and their watchers scheduled in the other, and
TLC then finds `FollowsGoto` violated. `Serialised` is an assumption about the environment
that the code does not enforce, as the disagreement runs show.

`WatcherInv` says that `auto_track_mutex_` is held across the join and the creation.
`StopInv` says that a writer which left on a copy without the stop has emitted nothing
since it copied, so that the halt by whoever published the stop stands. The refinement
rests on `Ordered`: executed, copied and published numbers are in this order.

The services' invariants, each strengthened with where the threads are. `SeqInv`: from
the accepted track request to the last exposure the mount is at the plan's current target,
tracking or ended by a fault, and IDLE or COMPLETED mean a resting worker. `NoteInv`: the worker
holds an event only between its take and its merge or delivery, the digest is alike as the
deliveries are, and channels are closed only after the worker has ended. `WeatherInv`: the pointer is
set only between publication and clearing, where the context lives, and a joined reader is
done. `CanInv` adds that the slot of a claimer that was not overtaken expects its command
and holds no reply but its own. `MotorInv` adds only that the failures stay below the
threshold while no error is latched: `DisabledIsOff` itself is inductive.
`PadInv`: a thread that is off has halted the axis. `GuiderInv`: a call past its join finds no
reader and no socket until it starts one. `PidInv`: while a calibration has not been told to
stop none of its measurements was cut, and its worker finishes only with nothing left.
`FlipInv`: MERIDIAN_FLIP means a flip in progress, and a flip in progress in another state has
failed into ERROR or was left by a `stop()`, a Goto or a `park()`.

`AutoTypeCorrect` and `NoteDigests` (a digest holds events of one kind) are proved
and not checked by a run of their own.

Every safety invariant and action property of a passing run has a theorem. Only
model-checked is liveness, which the proof system does not handle, as it needs ENABLED:
`CallsReturn`, `MovesEnd`, `GotoTracks`, `MotionReaches`, `StopReturns`, `PlanEnds`,
`EventReaches`, `DangerParks`, `ClientStops`, `ReportFollowsDrive`, `FlipEnds`,
`LimitsWatched`, `ReleaseStops`, `EmergencyWorks`.

## 5. Not modelled

- **Computation over reals**: the astronomy (most of the lines of the repository are the
  vendored `sofa` library and its ephemerides), pointing, Kalman, PEC, ephemeris and
  satellite models, field rotation, focus curves, the statistics of `pidcal`. TLC has no floating point, and
  an abstraction to integers would not be this code. This is also why the models can stand
  for a small share of the repository's lines only, and a third of it is out of reach.
- **I/O and formats**: CAN frame layouts, CANopen object access, serial and Ethernet drivers,
  configuration parsing, logging, HTTP, INDI, ASCOM, LX200 and web front ends, databases.
  The gRPC handlers mostly convert a request and call one operation that is modelled.
- **Configuration reload** (`config_monitor.cpp`): read but not modelled. Two reloads call their
  callback after the lock is released (94-96), so that the last callback need not carry the
  last configuration, and an edit within the second of the recorded time is not noticed (132).
- **Device services** (camera, dome, focuser, derotator, power): each forwards requests to
  one device.
- **The safety watchdog**: a header without an implementation.
- Of modelled components: `initialize()` and `shutdown()`, per-axis control, the guider's
  rate corrections, the slew monitor's settle counters, the sequencer's `resume()` and
  `onWeatherAlert()` (nobody calls them), the motor's torque and zeroing, the notification
  filters, some buttons of the gamepad.

## 6. Plan

Done: the controller (`MountLifecycle`, `AutoTrack`, `TrackingIo` with `Mailbox`), the
components around it, and their proofs. Next:

1. `MountStates`: the documented state machine of the mount as an abstract specification
   that `MountLifecycle` refines; what `stop()` leaves behind.
2. The slew monitor's settle counters; `initialize()`/`shutdown()`; per-axis control.
3. The positions of the axes in `MeridianFlip`: what an early target-reached report means
   for the pier side.
4. The CiA 402 state machine of the CANopen drive.
5. Proofs: the safety halves of the liveness properties (that what they wait for cannot be
   lost), as `FlipSuspendsLimits` is for `LimitsWatched`.
