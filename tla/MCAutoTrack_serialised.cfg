SPECIFICATION AutoFairSpec
CONSTANTS
  user = user
  watcher = watcher
  M31 = M31
  Vega = Vega
  NoTarget = NoTarget
  NoClient = NoClient
  Clients = {user, watcher}
  Watcher = watcher
  Targets = {M31, Vega}
  Ops <- GotoParkOps
  Env <- SlewEvents
  SplitLoop = TRUE
  MaxVerifyRetries = 1
  Serialised = TRUE
INVARIANT WatcherKept
INVARIANT FollowsGoto
PROPERTY ParkHolds
PROPERTY GotoTracks
