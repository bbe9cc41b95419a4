SPECIFICATION Spec
CONSTANTS
  mover = mover
  helper = helper
  NoClient = NoClient
  Clients = {mover}
  Ops <- SlewTrackOps
  Env <- OutOfLimits
  SplitLoop = TRUE
  MaxVerifyRetries = 0
INVARIANT QuiescentStill
