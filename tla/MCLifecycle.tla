----------------------------- MODULE MCLifecycle -----------------------------
(* Small instances of MountLifecycle: which clients there are, what each may *)
(* call and what the drives and the requests may do.                         *)
EXTENDS MountLifecycle

CONSTANTS mover, helper

\* Every client may call everything but what the runs' properties exclude.
CalmOps == [c \in Clients |-> OpNames \ {"clearErrors", "home"}]

\* One client moves the mount, another stops it and recovers it.
SoleMoverOps ==
  [c \in Clients |-> IF c = mover THEN {"slew", "track", "park"}
                     ELSE OpNames \ {"slew", "track", "park"}]

\* One client moves the mount and clears its errors, another stops it.
SoleOperatorOps ==
  [c \in Clients |-> IF c = mover THEN OpNames \ {"home"}
                     ELSE {"stop", "unpark", "emergencyStop", "flip"}]

\* The calls of the runs that show one disagreement each.
TrackClearOps == [c \in Clients |-> {"track", "clearErrors"}]
SlewTrackOps  == [c \in Clients |-> {"slew", "track"}]
ParkOps       == [c \in Clients |-> {"park", "unpark"}]

EveryEvent  == EnvNames
NoEvent     == {}
ObedientDrives == EnvNames \ {"axisFailure", "outOfLimits", "parkStall"}
OutOfLimits == {"outOfLimits"}
EarlyReports == {"earlyReached"}
=============================================================================
