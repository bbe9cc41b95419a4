----------------------------- MODULE MCAutoTrack -----------------------------
(* Small instances of AutoTrack: one user, two objects, one watcher thread.  *)
EXTENDS AutoTrack

CONSTANTS user, watcher, M31, Vega

WithOps(ops) == [c \in Clients |-> IF c = Watcher THEN {"track"} ELSE ops]

GotoParkOps == WithOps({"slew", "park", "unpark"})
GotoOps     == WithOps({"slew"})
GotoStopOps == WithOps({"slew", "stop"})

NoEvent    == {}
SlewEvents == {"slewStall", "shortStop", "outOfLimits"}
=============================================================================
