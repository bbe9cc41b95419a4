SPECIFICATION Spec
CONSTANTS
  mover = mover
  helper = helper
  NoClient = NoClient
  Clients = {mover, helper}
  Ops <- SoleOperatorOps
  Env <- ObedientDrives
  SplitLoop = TRUE
  MaxVerifyRetries = 1
INVARIANT QuiescentStill
