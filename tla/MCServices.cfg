SPECIFICATION ServicesSpec
CONSTANTS
  MaxTargets = 2
  MaxExposures = 2
  FocusIntervals = {0, 1, 2}
  Events = {e1, e2, e3}
  Bucket <- KindsOfEvents
  NoEvent = NoEvent
  MaxStream = 1
  CanCallers = {monitor, mover}
  NoCommand = NoCommand
  CanFailureThreshold = 2
  FlipCooldown = 2
  Combinations = 3
  PidClients = 2
  MaxSeq = 3
  Flips = TRUE
INVARIANT ServicesTypeOK
INVARIANT IdleIsQuiet
INVARIANT AccountedOnce
INVARIANT ContextAlive
INVARIANT SlotOwned
INVARIANT OwnAnswer
INVARIANT DisabledIsOff
INVARIANT PadExitHalts
INVARIANT OffIsOff
INVARIANT CompletedMeansAll
INVARIANT IoTypeOK
INVARIANT StopWins
PROPERTY ExposesOnTarget
PROPERTY StopReturns
PROPERTY PlanEnds
PROPERTY NoneAfterShutdown
PROPERTY EventReaches
PROPERTY QuietAfterStop
PROPERTY DangerParks
PROPERTY ClientStops
PROPERTY ReportFollowsDrive
PROPERTY FlipEnds
PROPERTY LimitsWatched
PROPERTY ReleaseStops
PROPERTY EmergencyWorks
PROPERTY MotionIsMailbox
PROPERTY FlipIsMailbox
PROPERTY MotionReaches
CHECK_DEADLOCK FALSE
