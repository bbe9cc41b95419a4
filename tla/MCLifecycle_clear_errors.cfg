SPECIFICATION Spec
CONSTANTS
  mover = mover
  helper = helper
  NoClient = NoClient
  Clients = {mover}
  Ops <- TrackClearOps
  Env <- NoEvent
  SplitLoop = TRUE
  MaxVerifyRetries = 0
INVARIANT SessionIsEmitted
