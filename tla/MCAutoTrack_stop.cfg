SPECIFICATION AutoSpec
CONSTANTS
  user = user
  watcher = watcher
  M31 = M31
  Vega = Vega
  NoTarget = NoTarget
  NoClient = NoClient
  Clients = {user, watcher}
  Watcher = watcher
  Targets = {M31, Vega}
  Ops <- GotoStopOps
  Env <- NoEvent
  SplitLoop = TRUE
  MaxVerifyRetries = 0
  Serialised = TRUE
INVARIANT StopHolds
