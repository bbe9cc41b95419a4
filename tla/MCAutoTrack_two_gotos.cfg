SPECIFICATION AutoSpec
CONSTANTS
  user = user
  watcher = watcher
  M31 = M31
  Vega = Vega
  NoTarget = NoTarget
  NoClient = NoClient
  Clients = {user, watcher}
  Watcher = watcher
  Targets = {M31, Vega}
  Ops <- GotoOps
  Env <- NoEvent
  SplitLoop = TRUE
  MaxVerifyRetries = 0
  Serialised = FALSE
INVARIANT NoTerminate
