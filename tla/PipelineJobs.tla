------------------------------ MODULE PipelineJobs ------------------------------
(***************************************************************************)
(* Start, stop and rerun of pipeline jobs                                  *)
(* (api/applications/start_job_handler.go, the triggers in                 *)
(* applications_handler.go, api/jobs/manage_job_handler.go) and the status *)
(* that is shown of them (api/jobs/models/progress_status.go).             *)
(*                                                                         *)
(* A job is a RadixJob: this API writes its spec, the operator its status. *)
(* A stop is a read, two tests and an update that carries the              *)
(* resourceVersion of what was read; a rerun makes a copy under a new name.*)
(***************************************************************************)
EXTENDS Naturals, FiniteSets

CONSTANTS
  MaxJobs,      \* bound on the RadixJobs made
  MaxVersion,   \* bound on the changes of a RadixJob
  Refs,         \* branches and tags of the repository
  ConfigBranch, \* the branch of the radixconfig
  NoRef,        \* no branch or tag given
  Envs, NoEnv,
  UserTags,     \* image tags users ask for
  Deployments,  \* deployments of the environment promotes are made from
  NoDeployment,
  EndingIn,     \* EndingIn[n]: the deployments whose name ends in n
  Requests,
  Commands      \* what requests may ask for

Jobs == 1..MaxJobs
NoTag == 0      \* the tag drawn for job number d is d
Tags == {NoTag} \union Jobs \union UserTags

Kinds == {"build", "promote", "deploy", "apply-config"}
RefTypes == {"branch", "tag", ""}
CommandType ==
  [verb : Kinds \union {"stop", "rerun"}, ref : Refs \union {NoRef}, refType : RefTypes,
   env : Envs \union {NoEnv}, tag : {NoTag} \union UserTags, job : Jobs,
   deployment : DOMAIN EndingIn]

ASSUME ConstantsAssumption ==
  /\ MaxJobs \in Nat /\ MaxVersion \in Nat
  /\ ConfigBranch \in Refs /\ NoRef \notin Refs /\ NoEnv \notin Envs
  /\ UserTags \subseteq Nat /\ \A t \in UserTags : t > MaxJobs
  /\ NoDeployment \notin Deployments /\ Deployments \subseteq DOMAIN EndingIn
  /\ \A n \in DOMAIN EndingIn : EndingIn[n] \subseteq Deployments
  /\ Commands \subseteq CommandType

VARIABLES
  jobs,        \* jobs[d]: the RadixJob made as number d
  made,        \* how many have been made
  registered,  \* the RadixRegistration is there
  mapping,     \* mapping[t][ref]: environments the radixconfig builds ref of type t for
  deployed,    \* the deployments there are to promote
  req          \* req[r]: what the goroutine serving request r knows

vars == <<jobs, made, registered, mapping, deployed, req>>
-----------------------------------------------------------------------------
Conditions ==
  {"", "Waiting", "Queued", "Running", "Succeeded", "Failed", "Stopped", "StoppedNoChanges"}
Final == {"Succeeded", "Failed", "Stopped", "StoppedNoChanges"}

RadixJob ==
  [exists : BOOLEAN, version : Nat, kind : Kinds, refType : RefTypes, tag : Tags,
   deployment : Deployments \union {NoDeployment}, wanted : BOOLEAN, stop : BOOLEAN,
   condition : Conditions, rerunOf : {0} \union Jobs]

NoJob ==
  [exists |-> FALSE, version |-> 0, kind |-> "build", refType |-> "", tag |-> NoTag,
   deployment |-> NoDeployment, wanted |-> FALSE, stop |-> FALSE, condition |-> "",
   rerunOf |-> 0]

Request ==
  [pc : {"idle", "registration", "application", "deployment", "deployments", "start",
         "create", "read", "update", "copy", "ok", "refused", "error"},
   cmd : Commands, refType : RefTypes, deployment : Deployments \union {NoDeployment},
   snap : RadixJob]

Mappings == [{"branch", "tag"} -> [Refs \ {ConfigBranch} -> SUBSET Envs]]

TypeOK ==
  /\ jobs \in [Jobs -> RadixJob]
  /\ made \in 0..MaxJobs
  /\ registered \in BOOLEAN
  /\ mapping \in Mappings
  /\ deployed \subseteq Deployments
  /\ req \in [Requests -> Request]

Init ==
  /\ jobs = [d \in Jobs |-> NoJob]
  /\ made = 0
  /\ registered = TRUE
  /\ mapping \in Mappings
  /\ deployed \in SUBSET Deployments
  /\ req \in [Requests -> {[pc |-> "idle", cmd |-> c, refType |-> "",
                             deployment |-> NoDeployment, snap |-> NoJob] : c \in Commands}]

Become(r, q) == req' = [req EXCEPT ![r] = q]

Goto(r, pc) ==
  /\ Become(r, [req[r] EXCEPT !.pc = pc])
  /\ UNCHANGED <<jobs, made, registered, mapping, deployed>>
-----------------------------------------------------------------------------
(* The triggers.  A build needs a branch or a tag, of which a request that *)
(* names no type means a branch; a deploy needs an environment.            *)
RefType(c) == IF c.refType = "" THEN "branch" ELSE c.refType

Submit(r) ==
  LET c == req[r].cmd IN
  /\ req[r].pc = "idle"
  /\ \/ /\ c.verb \in {"stop", "rerun"}
        /\ Goto(r, "read")
     \/ /\ c.verb = "build" /\ c.ref # NoRef
        /\ Become(r, [req[r] EXCEPT !.pc = "registration", !.refType = RefType(c)])
        /\ UNCHANGED <<jobs, made, registered, mapping, deployed>>
     \/ /\ c.verb = "build" /\ c.ref = NoRef
        /\ Goto(r, "refused")
     \/ /\ c.verb \in {"deploy", "promote"} /\ c.env = NoEnv
        /\ Goto(r, "refused")
     \/ /\ c.verb = "deploy" /\ c.env # NoEnv
        /\ Goto(r, "start")
     \/ /\ c.verb = "promote" /\ c.env # NoEnv
        /\ Goto(r, "deployment")
     \/ /\ c.verb = "apply-config"
        /\ Goto(r, "start")

ReadRegistration(r) ==
  /\ req[r].pc = "registration"
  /\ \/ /\ ~registered
        /\ Goto(r, "error")
     \/ /\ registered /\ req[r].cmd.ref = ConfigBranch
        /\ Goto(r, "start")
     \/ /\ registered /\ req[r].cmd.ref # ConfigBranch
        /\ Goto(r, "application")

TargetEnvironments(ref, refType) ==
  IF refType = "" THEN mapping["branch"][ref] \union mapping["tag"][ref]
  ELSE mapping[refType][ref]

ReadApplication(r) ==
  LET c == req[r].cmd
      targets == TargetEnvironments(c.ref, req[r].refType) IN
  /\ req[r].pc = "application"
  /\ \/ /\ targets = {} \/ c.env \notin targets \union {NoEnv}
        /\ Goto(r, "refused")
     \/ /\ targets # {} /\ c.env \in targets \union {NoEnv}
        /\ Goto(r, "start")

(* The deployment to promote: the one of that name, or else the only one   *)
(* with a name that ends so.                                               *)
Promote(r, d) ==
  /\ Become(r, [req[r] EXCEPT !.pc = "start", !.deployment = d])
  /\ UNCHANGED <<jobs, made, registered, mapping, deployed>>

ReadDeployment(r) ==
  /\ req[r].pc = "deployment"
  /\ \/ /\ req[r].cmd.deployment \in deployed
        /\ Promote(r, req[r].cmd.deployment)
     \/ /\ req[r].cmd.deployment \notin deployed
        /\ Goto(r, "deployments")

ReadDeployments(r) ==
  LET found == deployed \intersect EndingIn[req[r].cmd.deployment] IN
  /\ req[r].pc = "deployments"
  /\ \/ /\ Cardinality(found) # 1
        /\ Goto(r, "error")
     \/ \E d \in Deployments :
          /\ found = {d}
          /\ Promote(r, d)

(* HandleStartPipelineJob reads the registration again before it creates.  *)
StartJob(r) ==
  /\ req[r].pc = "start"
  /\ Goto(r, IF registered THEN "create" ELSE "error")

\* the new job, with a name nothing else has; the answer may be lost
Create(r, job) ==
  /\ made < MaxJobs
  /\ made' = made + 1
  /\ jobs' = [jobs EXCEPT ![made + 1] = [job EXCEPT !.exists = TRUE, !.version = 1]]
  /\ \E pc \in {"ok", "error"} : Become(r, [req[r] EXCEPT !.pc = pc])
  /\ UNCHANGED <<registered, mapping, deployed>>

\* buildPipelineJob: only a build has an image tag, its own unless one was given
PipelineJob(c, refType, d) ==
  [NoJob EXCEPT !.kind = c.verb, !.refType = refType, !.deployment = d,
     !.wanted = c.verb = "build" /\ c.tag # NoTag,
     !.tag = IF c.verb # "build" THEN NoTag ELSE IF c.tag # NoTag THEN c.tag ELSE made + 1]

CreateJob(r) ==
  /\ req[r].pc = "create"
  /\ Create(r, PipelineJob(req[r].cmd, req[r].refType, req[r].deployment))
-----------------------------------------------------------------------------
\* mutant: a job that has finished may be stopped
MutantStopRefused(job) == job.stop

\* mutant: a job that was told to stop may be told again
MutantStopTwice(job) == job.condition \in {"Failed", "Stopped", "StoppedNoChanges"}

StopRefused(job) ==
  job.stop \/ job.condition \in {"Failed", "Stopped", "StoppedNoChanges"}

RerunAllowed(job) == job.condition \in {"Failed", "Stopped"}

ReadJob(r) ==
  LET c == req[r].cmd
      job == jobs[c.job] IN
  /\ req[r].pc = "read"
  /\ \/ /\ ~job.exists
        /\ Goto(r, "error")
     \/ /\ job.exists
        /\ Become(r, [req[r] EXCEPT !.snap = job,
             !.pc = IF c.verb = "stop"
                    THEN IF StopRefused(job) THEN "refused" ELSE "update"
                    ELSE IF RerunAllowed(job) THEN "copy" ELSE "refused"])
        /\ UNCHANGED <<jobs, made, registered, mapping, deployed>>

UnchangedSince(now, copy) == now.exists /\ now.version = copy.version

(* The update of the spec; the status is a subresource and stays.          *)
UpdateJob(r) ==
  LET d == req[r].cmd.job IN
  /\ req[r].pc = "update"
  /\ \/ /\ ~UnchangedSince(jobs[d], req[r].snap)
        /\ Goto(r, "error")
     \/ /\ UnchangedSince(jobs[d], req[r].snap)
        /\ jobs' = [jobs EXCEPT ![d].stop = TRUE, ![d].version = @ + 1]
        /\ \E pc \in {"ok", "error"} : Become(r, [req[r] EXCEPT !.pc = pc])
        /\ UNCHANGED <<made, registered, mapping, deployed>>

\* mutant: the copy keeps the image tag of the job it was made of
MutantRerunOf(job, d) == [NoJob EXCEPT
  !.kind = job.kind, !.refType = job.refType, !.deployment = job.deployment,
  !.tag = job.tag, !.rerunOf = d]

\* mutant: the copy is stopped as the job it was made of
MutantRerunStop(job, d) == [NoJob EXCEPT
  !.kind = job.kind, !.refType = job.refType, !.deployment = job.deployment,
  !.stop = job.stop, !.rerunOf = d, !.tag = IF job.tag = NoTag THEN NoTag ELSE made + 1]

RerunOf(job, d) == [NoJob EXCEPT
  !.kind = job.kind, !.refType = job.refType, !.deployment = job.deployment,
  !.rerunOf = d, !.tag = IF job.tag = NoTag THEN NoTag ELSE made + 1]

CopyJob(r) ==
  /\ req[r].pc = "copy"
  /\ Create(r, RerunOf(req[r].snap, req[r].cmd.job))

CallFails(r) ==
  /\ req[r].pc \notin {"idle", "ok", "refused", "error"}
  /\ Goto(r, "error")
-----------------------------------------------------------------------------
(* The operator and the pipeline move the status on, and what is final     *)
(* stays; a job that was asked to stop may still come to another end.      *)
Progress(d) ==
  /\ jobs[d].exists /\ jobs[d].condition \notin Final
  /\ \E c \in {"Waiting", "Queued", "Running", "Succeeded", "Failed", "StoppedNoChanges"}
          \union (IF jobs[d].stop THEN {"Stopped"} ELSE {}) :
       /\ c # jobs[d].condition
       /\ jobs' = [jobs EXCEPT ![d].condition = c, ![d].version = @ + 1]
  /\ jobs[d].version < MaxVersion
  /\ UNCHANGED <<made, registered, mapping, deployed, req>>

DeleteJob(d) ==
  /\ jobs[d].exists /\ jobs[d].condition \in Final
  /\ jobs' = [jobs EXCEPT ![d].exists = FALSE]
  /\ UNCHANGED <<made, registered, mapping, deployed, req>>

(* The application is deleted or made again, its radixconfig is changed,   *)
(* and deployments come and go.                                            *)
Configure ==
  /\ \/ /\ registered' = ~registered
        /\ UNCHANGED <<mapping, deployed>>
     \/ /\ mapping' \in Mappings
        /\ UNCHANGED <<registered, deployed>>
     \/ /\ deployed' \in SUBSET Deployments
        /\ UNCHANGED <<registered, mapping>>
  /\ UNCHANGED <<jobs, made, req>>

RequestStep(r) ==
  \/ Submit(r) \/ ReadRegistration(r) \/ ReadApplication(r)
  \/ ReadDeployment(r) \/ ReadDeployments(r) \/ StartJob(r) \/ CreateJob(r)
  \/ ReadJob(r) \/ UpdateJob(r) \/ CopyJob(r)

Next ==
  \/ \E r \in Requests : RequestStep(r) \/ CallFails(r)
  \/ \E d \in Jobs : Progress(d) \/ DeleteJob(d)
  \/ Configure

Spec == Init /\ [][Next]_vars
-----------------------------------------------------------------------------
\* mutant: a job that failed is shown as failed even when it was stopped
MutantShownStatus(job) ==
  IF job.stop
  THEN IF job.condition = "Failed" THEN "Failed"
       ELSE IF job.condition \in {"Stopped", "Succeeded"} THEN "Stopped" ELSE "Stopping"
  ELSE IF job.condition # "" THEN job.condition ELSE "Waiting"

ShownStatus(job) ==
  IF job.stop
  THEN IF job.condition \in {"Stopped", "Failed", "Succeeded"} THEN "Stopped" ELSE "Stopping"
  ELSE IF job.condition # "" THEN job.condition ELSE "Waiting"
-----------------------------------------------------------------------------
(* Of all the requests to stop a job only one is answered with success     *)
(* (manage_job_handler.go:30: the test and the update are apart).          *)
StopsOnce ==
  \A r, x \in Requests :
    /\ r # x /\ req[r].cmd.verb = "stop" /\ req[x].cmd.verb = "stop"
    /\ req[r].pc = "ok" /\ req[x].pc = "ok"
    => req[r].cmd.job # req[x].cmd.job

(* A job is never told to stop after it has failed, or stopped by itself:  *)
(* the condition that was tested is the one it has when the stop is stored *)
(* (manage_job_handler.go:33).                                             *)
StopsAreInTime ==
  \A d \in Jobs :
    ~jobs[d].stop /\ jobs'[d].stop =>
      jobs[d].condition \notin {"Failed", "Stopped", "StoppedNoChanges"}

StopInTime == [][StopsAreInTime]_vars

(* A stop that was accepted shows, whatever the operator makes of the job. *)
AcceptedStopShows ==
  \A r \in Requests :
    req[r].cmd.verb = "stop" /\ req[r].pc = "ok" =>
      ShownStatus(jobs[req[r].cmd.job]) \in {"Stopping", "Stopped"}

(* A job is rerun only after it failed or was stopped, and its rerun is    *)
(* not the victim of a stop that was meant for the first                   *)
(* (manage_job_handler.go:96).                                             *)
RerunsAreFresh ==
  \A d \in Jobs :
    jobs[d].rerunOf # 0 =>
      /\ jobs[jobs[d].rerunOf].condition \in {"Failed", "Stopped"}
      /\ jobs[d].stop => \E r \in Requests : req[r].cmd.verb = "stop" /\ req[r].cmd.job = d

(* No two builds push to the same image tag, unless a user gave the tag    *)
(* (manage_job_handler.go:93: the tag of a rerun).                         *)
ImagesAreApart ==
  \A d, e \in Jobs :
    d # e /\ jobs[d].tag # NoTag /\ jobs[d].tag = jobs[e].tag =>
      jobs[d].wanted /\ jobs[e].wanted

(* job_errors.go:22: "only pipeline jobs that have the status Failed or    *)
(* Stopped can be rerun": those that are shown so can be.                  *)
ShownStoppedIsRerun ==
  \A r \in Requests :
    req[r].cmd.verb = "rerun" /\ req[r].pc = "refused" =>
      ShownStatus(req[r].snap) \notin {"Failed", "Stopped"}

(* progress_status.go:23, "Stopping job", of a job that is yet to stop.    *)
StoppingIsUnderway ==
  \A d \in Jobs :
    jobs[d].exists /\ ShownStatus(jobs[d]) = "Stopping" => jobs[d].condition \notin Final

(* pipeline_parameters.go:105 of an empty type: "either branch or tag": it *)
(* is looked up as both.                                                   *)
EmptyTypeIsEither ==
  \A r \in Requests :
    LET c == req[r].cmd IN
    req[r].pc = "application" /\ c.refType = "" =>
      TargetEnvironments(c.ref, req[r].refType) = TargetEnvironments(c.ref, "")
=============================================================================
