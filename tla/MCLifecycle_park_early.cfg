SPECIFICATION Spec
CONSTANTS
  mover = mover
  helper = helper
  NoClient = NoClient
  Clients = {mover}
  Ops <- ParkOps
  Env <- EarlyReports
  SplitLoop = TRUE
  MaxVerifyRetries = 0
PROPERTY ParkedAtRest
