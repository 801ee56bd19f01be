------------------------- MODULE MCScheduledBatches -------------------------
EXTENDS ScheduledBatches
CONSTANTS r1, r2, c1, c2, d1, d2
JobComponentsOf == d1 :> {c1, c2} @@ d2 :> {c1}
B == <<"b">>
BX == <<"b", "x">>
Names == {B, BX}
PayloadsOf == B :> "kept" @@ BX :> "lost"
InitialBatches ==
    B :> [type |-> "batch", component |-> c1, deployment |-> d1, jobs |-> [j \in {"x", "y"} |-> Fresh]] @@
    BX :> NoBatch
OpsOfRequests == r1 :> Ops @@ r2 :> {"RestartBatch"}
==============================================================================
