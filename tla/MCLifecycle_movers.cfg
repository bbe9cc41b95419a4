SPECIFICATION Spec
CONSTANTS
  mover = mover
  helper = helper
  NoClient = NoClient
  Clients = {mover, helper}
  Ops <- SoleMoverOps
  Env <- EveryEvent
  SplitLoop = TRUE
  MaxVerifyRetries = 1
INVARIANT TypeOK
INVARIANT NoTerminate
INVARIANT Supervised
INVARIANT ErrorHalts
INVARIANT ParkedStill
