----------------------------- MODULE MCReading -----------------------------
(***************************************************************************)
(* A pipeline job, a job with an old and a new pod, and a proxy.           *)
(***************************************************************************)
EXTENDS Reading, TLC

CONSTANTS component, job, oldJob, newJob, proxy, step, stepPod

PodKinds == oldJob :> "job" @@ newJob :> "job" @@ proxy :> "oauth" @@ stepPod :> "step"
PodOwners == oldJob :> job @@ newJob :> job @@ proxy :> component @@ stepPod :> step
CreatedAt == oldJob :> 1 @@ newJob :> 2 @@ proxy :> 1 @@ stepPod :> 2
=============================================================================
