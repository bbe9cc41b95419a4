SPECIFICATION FairSpec
CONSTANTS
  mover = mover
  helper = helper
  NoClient = NoClient
  Clients = {mover}
  Ops <- CalmOps
  Env <- EveryEvent
  SplitLoop = TRUE
  MaxVerifyRetries = 1
PROPERTY CallsReturn
PROPERTY MovesEnd
