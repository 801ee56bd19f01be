------------------------------ MODULE PodLogs ------------------------------
(***************************************************************************)
(* Which pod's log a request is given, and what becomes of the reader      *)
(* (api/pods/pod_handler.go, api/jobs/log_handler.go, the handlers of the  *)
(* environment and job controllers).                                       *)
(*                                                                         *)
(* The pod is found by its name, by its labels, or in the status of a      *)
(* pipeline job; the log is sent as a file, as a stream of events or       *)
(* plainly, and closed. Pods come and go meanwhile.                        *)
(***************************************************************************)
EXTENDS Naturals, FiniteSets

CONSTANTS
    Requests,   \* concurrent requests
    Pods,       \* pods; a name is not used again
    Owners,     \* components, jobs and steps of pipeline jobs
    Kind,       \* Kind[p]: "component", "oauth", "job" or "step"
    Owner,      \* Owner[p]: what the pod runs for
    Created     \* Created[p]: when it was created

VARIABLES
    alive,      \* the pods there are
    dead,       \* the pods there were
    steps,      \* the pod of each step, in the status of the RadixJob or TaskRun
    requests    \* the requests under way

vars == <<alive, dead, steps, requests>>

NoPod == "none"

Idle == [pc |-> "idle", pod |-> NoPod, kind |-> "none", owner |-> "none", follow |-> FALSE,
         log |-> "none", gone |-> FALSE]

Set(r, q) == requests' = [requests EXCEPT ![r] = q]
Fail(r) == Set(r, [requests[r] EXCEPT !.pc = "done"])
Kept == UNCHANGED <<alive, dead, steps>>

\* GetLogParams: parameters that cannot be read are an error. A file is sent as
\* one, also when the log is to be followed.
GetLogParams(r, kind, owner, pod, pc) ==
    /\ requests[r].pc = "idle"
    /\ \/ Fail(r)
       \/ \E follow \in BOOLEAN :
             Set(r, [Idle EXCEPT !.pc = pc, !.kind = kind, !.owner = owner, !.pod = pod, !.follow = follow])
    /\ Kept

GetPodLog(r) == \E p \in Pods : GetLogParams(r, "any", "none", p, "get")
GetOAuthAuxiliaryResourcePodLog(r) ==
    \E o \in Owners, p \in Pods : GetLogParams(r, "oauth", o, p, "list")
GetScheduledJobLog(r) ==
    \E o \in Owners, p \in Pods \cup {NoPod} : GetLogParams(r, "job", o, p, "list")
GetPipelineJobStepLogs(r) == \E o \in Owners : GetLogParams(r, "step", o, NoPod, "status")
GetTektonPipelineRunTaskStepLogs(r) == \E o \in Owners : GetLogParams(r, "step", o, NoPod, "status")

-----------------------------------------------------------------------------
(* Finding the pod *)

\* The pods with the labels of the proxy and the name of the request.
AuxiliaryPods(q) == {p \in alive : Kind[p] = "oauth" /\ Owner[p] = q.owner /\ p = q.pod}

\* The pods of the job: the replica that was asked for, or the newest.
JobPods(q) ==
    LET all == {p \in alive : Kind[p] = "job" /\ Owner[p] = q.owner}
    IN  IF q.pod # NoPod THEN all \cap {q.pod}
        ELSE {p \in all : \A o \in all : Created[p] >= Created[o]}

ListPods(r) ==
    LET q == requests[r]
        found(S, pc) ==
            \/ S = {} /\ Fail(r)
            \/ \E p \in S : Set(r, [q EXCEPT !.pc = pc, !.pod = p])
    IN  /\ q.pc = "list"
        /\ \/ q.kind = "oauth" /\ found(AuxiliaryPods(q), "get")
           \/ q.kind = "job" /\ found(JobPods(q), "open")
        /\ Kept

\* getPodNameForStep, getTaskPodAndContainerName: a step that has not begun has no pod.
ReadStatus(r) ==
    LET q == requests[r]
    IN  /\ q.pc = "status"
        /\ IF steps[q.owner] = NoPod THEN Fail(r)
           ELSE Set(r, [q EXCEPT !.pc = "get", !.pod = steps[q.owner]])
        /\ Kept

\* Pods of steps are in the namespace of the application, all others in that of
\* the environment.
InNamespace(q, p) == (Kind[p] = "step") = (q.kind = "step")

GetPod(r) ==
    LET q == requests[r]
    IN  /\ q.pc = "get"
        /\ IF q.pod \in alive /\ InNamespace(q, q.pod) THEN Set(r, [q EXCEPT !.pc = "open"]) ELSE Fail(r)
        /\ Kept

-----------------------------------------------------------------------------
(* Reading *)

OpenLog(r) ==
    LET q == requests[r]
    IN  /\ q.pc = "open"
        /\ \/ q.pod \in alive /\ ~q.gone /\ Set(r, [q EXCEPT !.pc = "send", !.log = "open"])
           \/ Fail(r)
        /\ Kept

\* mutant: the reader is closed at the end of the log only
MutantEndOfLog(r) ==
    LET q == requests[r]
    IN  /\ q.pc = "send" /\ (~q.follow \/ q.pod \notin alive \/ q.gone)
        /\ Set(r, [q EXCEPT !.pc = "done", !.log = IF q.gone THEN @ ELSE "closed"])
        /\ Kept

\* The log ends unless it is followed, when its pod ends, or when the client has
\* gone; the deferred call closes it, however the answer ended.
EndOfLog(r) ==
    LET q == requests[r]
    IN  /\ q.pc = "send" /\ (~q.follow \/ q.pod \notin alive \/ q.gone)
        /\ Set(r, [q EXCEPT !.pc = "done", !.log = "closed"])
        /\ Kept

Disconnect(r) ==
    /\ requests[r].pc \notin {"idle", "done"} /\ ~requests[r].gone
    /\ Set(r, [requests[r] EXCEPT !.gone = TRUE])
    /\ Kept

-----------------------------------------------------------------------------
(* The cluster *)

StartPod(p) ==
    /\ p \notin alive \cup dead
    /\ \A o \in alive \cup dead : Created[o] < Created[p]
    /\ alive' = alive \cup {p}
    /\ steps' = IF Kind[p] = "step" THEN [steps EXCEPT ![Owner[p]] = p] ELSE steps
    /\ UNCHANGED <<dead, requests>>

EndPod(p) ==
    /\ p \in alive
    /\ alive' = alive \ {p} /\ dead' = dead \cup {p}
    /\ UNCHANGED <<steps, requests>>

Init ==
    /\ alive = {} /\ dead = {}
    /\ steps = [o \in Owners |-> NoPod]
    /\ requests = [r \in Requests |-> Idle]

Submit(r) ==
    \/ GetPodLog(r) \/ GetOAuthAuxiliaryResourcePodLog(r) \/ GetScheduledJobLog(r)
    \/ GetPipelineJobStepLogs(r) \/ GetTektonPipelineRunTaskStepLogs(r)
Step(r) == ListPods(r) \/ ReadStatus(r) \/ GetPod(r) \/ OpenLog(r) \/ EndOfLog(r)
Next ==
    \/ \E r \in Requests : Submit(r) \/ Step(r) \/ Disconnect(r)
    \/ \E p \in Pods : StartPod(p) \/ EndPod(p)

\* The goroutine of a request takes its steps; pods need not end, and clients
\* need not leave.
Fairness == \A r \in Requests : WF_vars(Step(r))
Spec == Init /\ [][Next]_vars /\ Fairness

-----------------------------------------------------------------------------
(* Properties *)

\* No reader is left open: not when the client leaves in the middle of a log
\* that is followed, and not when its pod ends.
ReadersAreClosed ==
    \A r \in Requests :
        requests[r].gone \/ requests[r].pod \in dead ~> requests[r].log # "open"
=============================================================================
