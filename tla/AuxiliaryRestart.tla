-------------------------- MODULE AuxiliaryRestart --------------------------
(***************************************************************************)
(* Restarting the OAuth2 proxy of a component: a time stamp is written     *)
(* into the Deployment that the operator keeps for the proxy               *)
(* (RestartComponentAuxiliaryResource, api/environments/component_handler.go). *)
(***************************************************************************)
EXTENDS Naturals, FiniteSets

CONSTANTS
    Requests,     \* concurrent requests
    Retries,      \* retry.DefaultRetry.Steps
    MaxVersion    \* bound on the versions the operator writes

NoStamp == "none"
Missing == [version |-> 0, replicas |-> 0, stamp |-> NoStamp]

VARIABLES
    deployment,   \* the Kubernetes Deployment of the proxy, perhaps missing
    versions,     \* the versions given out so far
    requests      \* the requests under way

vars == <<deployment, versions, requests>>

Idle == [pc |-> "idle", copy |-> Missing, tries |-> 0, answer |-> "none"]

Exists == deployment # Missing
Set(r, q) == requests' = [requests EXCEPT ![r] = q]
Answer(r, a) == Set(r, [Idle EXCEPT !.pc = "done", !.answer = a])
Kept == UNCHANGED <<deployment, versions>>

\* Refused unless the user is an administrator, the environment has a
\* RadixDeployment and that has the component.
RestartOAuthAuxiliaryResource(r) ==
    /\ requests[r].pc = "idle"
    /\ \/ \E a \in {"Error", "Forbidden", "Invalid", "NotFound"} : Answer(r, a)
       \/ Set(r, [Idle EXCEPT !.pc = "list"])
    /\ Kept

\* canDeploymentBeRestarted
CanBeRestarted(d) == d.replicas # 0

ListDeployments(r) ==
    /\ requests[r].pc = "list"
    /\ \/ Answer(r, "Error")
       \/ ~Exists /\ Answer(r, "NotFound")
       \/ Exists /\ ~CanBeRestarted(deployment) /\ Answer(r, "CannotRestart")
       \/ Exists /\ CanBeRestarted(deployment) /\ Set(r, [requests[r] EXCEPT !.pc = "get", !.copy = deployment])
    /\ Kept

\* mutant: the Deployment that was judged is written with the version just read
MutantStamped(r, current) == [requests[r].copy EXCEPT !.stamp = r, !.version = current.version]

Stamped(r, current) == [current EXCEPT !.stamp = r]

GetDeployment(r) ==
    /\ requests[r].pc = "get"
    /\ \/ Exists /\ Set(r, [requests[r] EXCEPT !.pc = "update", !.copy = Stamped(r, deployment)])
       \/ ~Exists /\ Answer(r, "NotFound")
       \/ Answer(r, "Error")
    /\ Kept

\* Only a conflict is tried again; the answer of the API server may be lost.
UpdateDeployment(r) ==
    LET q == requests[r]
    IN  /\ q.pc = "update"
        /\ \/ /\ Exists /\ deployment.version = q.copy.version
              /\ deployment' = [q.copy EXCEPT !.version = versions + 1]
              /\ versions' = versions + 1
              /\ \E a \in {"OK", "Error"} : Answer(r, a)
           \/ /\ Exists /\ deployment.version # q.copy.version /\ q.tries + 1 < Retries
              /\ Set(r, [q EXCEPT !.pc = "get", !.tries = @ + 1])
              /\ Kept
           \/ /\ Exists => deployment.version # q.copy.version /\ q.tries + 1 = Retries
              /\ Answer(r, IF Exists THEN "Conflict" ELSE "NotFound")
              /\ Kept
           \/ Answer(r, "Error") /\ Kept

\* The operator stops, starts, makes and deletes the Deployment.
SyncDeployment ==
    /\ versions < MaxVersion /\ versions' = versions + 1
    /\ \/ \E n \in {0, 1} : deployment' = [version |-> versions + 1, replicas |-> n, stamp |-> deployment.stamp]
       \/ deployment' = Missing
    /\ UNCHANGED requests

Init ==
    /\ deployment \in {Missing, [version |-> 1, replicas |-> 1, stamp |-> NoStamp]}
    /\ versions = 1
    /\ requests = [r \in Requests |-> Idle]

Step(r) == ListDeployments(r) \/ GetDeployment(r) \/ UpdateDeployment(r)
Next == SyncDeployment \/ \E r \in Requests : RestartOAuthAuxiliaryResource(r) \/ Step(r)
Spec == Init /\ [][Next]_vars

\* A restart writes its stamp and nothing else: what the operator did since the
\* Deployment was judged is not undone, and a proxy that was stopped meanwhile
\* is not started (patchDeploymentForRestart).
RestartOnlyStamps ==
    [][\A r \in Requests : UpdateDeployment(r) /\ versions' # versions =>
          deployment' = [deployment EXCEPT !.stamp = r, !.version = versions']]_vars
=============================================================================
