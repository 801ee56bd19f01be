-------------------------- MODULE ScheduledBatches --------------------------
(***************************************************************************)
(* The scheduled batches and jobs of the job components of one environment *)
(* (api/environments/job_handler.go, api/models/batch.go,                  *)
(* api/kubequery/batch.go and the handlers of environment_controller.go).  *)
(*                                                                         *)
(* A batch is a RadixBatch; a single job is a RadixBatch of type "job"     *)
(* that holds one job. The name of a scheduled job is the name of its      *)
(* batch, a dash, and the name of the job; names are sequences of the      *)
(* parts between their dashes, because requests are told apart by them.    *)
(*                                                                         *)
(* The calls of the job scheduler's library (stop, restart, copy, delete)  *)
(* are external: each is one step, may fail, and does what the tests of    *)
(* the environment controller show of it.                                  *)
(***************************************************************************)
EXTENDS Naturals, Sequences, FiniteSets, SequencesExt

CONSTANTS
    Requests,       \* concurrent requests to the API
    Components,     \* job components
    JobComponents,  \* the job components of each RadixDeployment
    BatchNames,     \* names of RadixBatches, as sequences of parts
    JobNames,       \* names of the jobs in a batch, one part each
    Payloads,       \* what became of the payload of each batch's jobs
    Initial,        \* the batches there are at first
    OpsOf           \* bound: the operations each request may ask for

Deployments == DOMAIN JobComponents
Types == {"batch", "job"}
None == "none"
NoBatch == [type |-> None]
Deleted == [type |-> "deleted"]

ASSUME NamesAreParts == /\ BatchNames \subseteq Seq(STRING) \ {<<>>}
                        /\ JobNames \subseteq STRING
ASSUME PayloadsAssumption == Payloads \in [BatchNames -> {"none", "lost", "kept"}]
ASSUME DeploymentsAssumption ==
    /\ JobComponents \in [Deployments -> SUBSET Components] /\ None \notin Deployments
    /\ \A d \in Deployments : IsFiniteSet(JobComponents[d])
ASSUME RequestsAssumption == None \notin Requests

VARIABLES
    batches,        \* the RadixBatches of the environment's namespace
    requests        \* the requests under way

vars == <<batches, requests>>

Job == [stop : BOOLEAN, ended : BOOLEAN]
Fresh == [stop |-> FALSE, ended |-> FALSE]
Batch == [type : Types, component : Components, deployment : Deployments,
          jobs : UNION {[J -> Job] : J \in (SUBSET JobNames) \ {{}}}]
Existing == {b \in BatchNames : batches[b].type \in Types}
Unused == {b \in BatchNames : batches[b] = NoBatch}      \* a name is never used again
ASSUME InitialAssumption ==
    /\ Initial \in [BatchNames -> Batch \cup {NoBatch}]
    /\ \A b \in BatchNames : Initial[b].type = "job" => Cardinality(DOMAIN Initial[b].jobs) = 1

Resting(j) == j.stop \/ j.ended

-----------------------------------------------------------------------------
(* Names and queries *)

ScheduledJobName(b, j) == Append(b, j)

\* mutant: split at the first dash instead of the last.
MutantParse(name) == [ok |-> Len(name) >= 2, batch |-> <<Head(name)>>, job |-> Last(name)]

ParseScheduledJobName(name) == [ok |-> Len(name) >= 2, batch |-> Front(name), job |-> Last(name)]

\* An empty type asks for a batch of either type.
GetRadixBatch(c, b, type) ==
    IF /\ b \in Existing
       /\ batches[b].component = c
       /\ type # "" => batches[b].type = type
    THEN batches[b]
    ELSE NoBatch

GetBatchJob(c, name) ==
    LET parsed == ParseScheduledJobName(name)
        batch == GetRadixBatch(c, parsed.batch, "")
    IN  [parsed EXCEPT !.ok = @ /\ batch # NoBatch /\ parsed.job \in DOMAIN batch.jobs]

GetRadixBatches(c, type) == {b \in Existing : batches[b].component = c /\ batches[b].type = type}

\* GetBatchDeployJobComponent: the limits shown are those of the job component
\* the batch was made for, as long as its RadixDeployment still has it.
DeployJobComponent(b) ==
    LET batch == batches[b]
    IN  IF batch.component \in JobComponents[batch.deployment] THEN batch.component ELSE None

\* GetScheduledJobSummary: the status found under the job's full name, or Waiting.
JobSummary(b, j, statuses) ==
    LET name == ScheduledJobName(b, j)
    IN  [name |-> name,
         batchName |-> IF batches[b].type = "batch" THEN b ELSE <<>>,
         deployment |-> batches[b].deployment,
         limits |-> DeployJobComponent(b),
         status |-> IF name \in DOMAIN statuses THEN statuses[name] ELSE "Waiting"]

\* GetRadixBatchStatus of the job scheduler.
StatusesOf(b, batch) ==
    LET named == {ScheduledJobName(b, j) : j \in DOMAIN batch.jobs}
    IN  [n \in named |-> LET j == batch.jobs[Last(n)]
                         IN  IF j.ended THEN IF j.stop THEN "Stopped" ELSE "Succeeded"
                             ELSE IF j.stop THEN "Stopping" ELSE "Running"]

BatchSummary(b) ==
    [name |-> b, jobs |-> {JobSummary(b, j, StatusesOf(b, batches[b])) : j \in DOMAIN batches[b].jobs}]

GetBatches(c) == {BatchSummary(b) : b \in GetRadixBatches(c, "batch")}
GetJobs(c) == UNION {BatchSummary(b).jobs : b \in GetRadixBatches(c, "job")}

GetBatch(c, b) == IF GetRadixBatch(c, b, "batch") = NoBatch THEN {} ELSE {BatchSummary(b)}

GetJob(c, name) ==
    LET found == GetBatchJob(c, name)
    IN  IF found.ok
        THEN {JobSummary(found.batch, found.job, StatusesOf(found.batch, batches[found.batch]))}
        ELSE {}

\* The job has no payload, or one whose secret or key is gone.
GetJobPayload(c, name) ==
    CASE Payloads[GetBatchJob(c, name).batch] = "none" -> {"empty"}
      [] Payloads[GetBatchJob(c, name).batch] = "lost" -> {}
      [] Payloads[GetBatchJob(c, name).batch] = "kept" -> {"payload"}

\* The answers: the listings are empty where there is nothing, the lookups
\* answer Not Found.
ListBatches(c) == [code |-> "OK", body |-> GetBatches(c)]
ListJobs(c) == [code |-> "OK", body |-> GetJobs(c)]
Reply(body) == [code |-> IF body = {} THEN "NotFound" ELSE "OK", body |-> body]
ReadBatch(c, b) == Reply(GetBatch(c, b))
ReadJob(c, name) == Reply(GetJob(c, name))
ReadPayload(c, name) == Reply(IF GetBatchJob(c, name).ok THEN GetJobPayload(c, name) ELSE {})

-----------------------------------------------------------------------------
(* Requests *)

BatchOps == {"RestartBatch", "CopyBatch", "StopBatch", "DeleteBatch"}
JobOps == {"RestartJob", "CopyJob", "StopJob", "DeleteJob"}
LoopOps == {"StopAllJobs", "StopAllBatches", "StopAllForComponent", "StopAllForEnvironment"}
Ops == BatchOps \cup JobOps \cup LoopOps

FullNames == {ScheduledJobName(b, j) : b \in BatchNames, j \in JobNames}

\* todo: the calls of StopAllRadixBatches still to be made; failed: those that
\* failed, which errors.Join reports together; since: the batches that were
\* created or restarted by others since the request came (for the properties).
NewRequest(op, c, name, pc) ==
    [op |-> op, component |-> c, name |-> name, pc |-> pc, seen |-> NoBatch, read |-> None,
     todo |-> <<>>, failed |-> {}, since |-> {}, answer |-> None]

Idle == NewRequest(None, None, <<>>, "idle")

\* What only the properties look at is kept of the loops alone.
Answered(q, a) == [(IF q.op \in LoopOps THEN q ELSE Idle) EXCEPT !.pc = "done", !.answer = a]

\* The batch a request is about, and the type the handler asks for.
TargetBatch(q) == IF q.op \in JobOps THEN ParseScheduledJobName(q.name).batch ELSE q.name

\* mutant: a job may be deleted through a batch of either type.
MutantRequiredType(op) == IF op \in {"RestartBatch", "CopyBatch", "DeleteBatch"} THEN "batch" ELSE ""

RequiredType(op) ==
    CASE op \in {"RestartBatch", "CopyBatch", "DeleteBatch"} -> "batch"
      [] op = "DeleteJob" -> "job"
      [] OTHER -> ""

\* A request and the lookup its handler starts with: the batch, and for the
\* operations on a job, except its deletion, the job in it.
Lookup(q) ==
    LET found == GetRadixBatch(q.component, TargetBatch(q), RequiredType(q.op))
        missing == \/ found = NoBatch
                   \/ q.op \in JobOps \ {"DeleteJob"} /\ ~GetBatchJob(q.component, q.name).ok
        reread == q.op \in {"RestartBatch", "RestartJob", "CopyBatch", "CopyJob"}
    IN  IF missing THEN Answered(q, "NotFound")
        ELSE [q EXCEPT !.seen = IF reread THEN found ELSE @,
                       !.pc = IF q.op \in {"CopyBatch", "CopyJob"} THEN "deployments" ELSE "call"]

Start(r, q) == /\ requests[r].pc = "idle" /\ q.op \in OpsOf[r]
               /\ requests' = [requests EXCEPT ![r] = q]
               /\ UNCHANGED batches

\* Stopping a batch goes to the library at once, which looks it up by itself.
StopBatch(r) == \E c \in Components, b \in BatchNames : Start(r, NewRequest("StopBatch", c, b, "call"))

ForBatch(r, op) == \E c \in Components, b \in BatchNames : Start(r, Lookup(NewRequest(op, c, b, "call")))
RestartBatch(r) == ForBatch(r, "RestartBatch")
CopyBatch(r) == ForBatch(r, "CopyBatch")
DeleteBatch(r) == ForBatch(r, "DeleteBatch")

ForJob(r, op) ==
    \E c \in Components, n \in FullNames \cup BatchNames : Start(r, Lookup(NewRequest(op, c, n, "call")))
StopJob(r) == ForJob(r, "StopJob")
RestartJob(r) == ForJob(r, "RestartJob")
CopyJob(r) == ForJob(r, "CopyJob")
DeleteJob(r) == ForJob(r, "DeleteJob")

ForTypes(r, op, types) ==
    \E c \in Components :
        Start(r, [NewRequest(op, c, <<>>, "loop") EXCEPT !.todo = [i \in DOMAIN types |-> <<c, types[i]>>]])
StopAllJobs(r) == ForTypes(r, "StopAllJobs", <<"job">>)
StopAllBatches(r) == ForTypes(r, "StopAllBatches", <<"batch">>)
StopAllForComponent(r) == ForTypes(r, "StopAllForComponent", <<"batch", "job">>)

StopAllForEnvironment(r) == Start(r, NewRequest("StopAllForEnvironment", None, <<>>, "deployments"))

Submit(r) ==
    \/ StopBatch(r) \/ RestartBatch(r) \/ CopyBatch(r) \/ DeleteBatch(r)
    \/ StopJob(r) \/ RestartJob(r) \/ CopyJob(r) \/ DeleteJob(r)
    \/ StopAllJobs(r) \/ StopAllBatches(r) \/ StopAllForComponent(r) \/ StopAllForEnvironment(r)

\* GetRadixDeploymentsMapForEnvironment and getActiveRadixDeployment: any
\* RadixDeployment, or none, may be active by now. Stopping the environment
\* takes its job components from it: all their batches first, then all their
\* single jobs.
ReadDeployments(r) ==
    LET q == requests[r]
        calls(active, type) == [i \in 1..Cardinality(JobComponents[active]) |->
                                   <<SetToSeq(JobComponents[active])[i], type>>]
    IN  /\ q.pc = "deployments"
        /\ \/ requests' = [requests EXCEPT ![r] = Answered(q, "Error")]
           \/ /\ q.op = "StopAllForEnvironment"
              /\ \E active \in Deployments : requests' = [requests EXCEPT ![r] =
                    [q EXCEPT !.read = active, !.pc = "loop",
                              !.todo = calls(active, "batch") \o calls(active, "job")]]
           \/ /\ q.op # "StopAllForEnvironment"
              /\ requests' = [requests EXCEPT ![r].pc = "call"]
        /\ UNCHANGED batches

-----------------------------------------------------------------------------
(* The calls of the job scheduler's library *)

StoppedBatch(batch) ==
    [batch EXCEPT !.jobs = [j \in DOMAIN @ |-> IF Resting(@[j]) THEN @[j] ELSE [@[j] EXCEPT !.stop = TRUE]]]

StoppedJob(batch, j) == [batch EXCEPT !.jobs[j].stop = TRUE]

RestartedJobs(batch, names) ==
    [batch EXCEPT !.jobs = [j \in DOMAIN @ |->
        IF j \in names THEN Fresh ELSE @[j]]]

CopiedBatch(batch, names, single, d) ==
    [type |-> IF single THEN "job" ELSE batch.type,
     component |-> batch.component, deployment |-> d, jobs |-> [j \in names |-> Fresh]]

\* Others' requests learn which batches were created or restarted meanwhile.
Note(rs, r, b) == [s \in Requests |-> IF s = r \/ rs[s].op \notin LoopOps THEN rs[s]
                                      ELSE [rs[s] EXCEPT !.since = @ \cup {b}]]

\* mutant: the name of the job is not passed on.
MutantChosenJobs(q) == DOMAIN q.seen.jobs

ChosenJobs(q) == IF q.op \in JobOps THEN {ParseScheduledJobName(q.name).job} ELSE DOMAIN q.seen.jobs

CallStop(r) ==
    LET q == requests[r]
        b == TargetBatch(q)
        job == ParseScheduledJobName(q.name).job
        known == IF q.op = "StopJob" THEN b \in Existing ELSE GetRadixBatch(q.component, b, "") # NoBatch
    IN  /\ q.pc = "call" /\ q.op \in {"StopJob", "StopBatch"}
        /\ \/ /\ ~known
              /\ requests' = [requests EXCEPT ![r] = Answered(q, "NotFound")]
              /\ UNCHANGED batches
           \/ /\ known /\ q.op = "StopJob" /\ batches[b].jobs[job].ended
              /\ requests' = [requests EXCEPT ![r] = Answered(q, "BadRequest")]
              /\ UNCHANGED batches
           \/ /\ known /\ (q.op = "StopJob" => ~batches[b].jobs[job].ended)
              /\ batches' = [batches EXCEPT ![b] =
                    IF q.op = "StopJob" THEN StoppedJob(@, job) ELSE StoppedBatch(@)]
              /\ requests' = [requests EXCEPT ![r] = Answered(q, "NoContent")]

\* A restart updates the object the handler read: it is refused when the
\* object has changed since.
CallRestart(r) ==
    LET q == requests[r]
        b == TargetBatch(q)
    IN  /\ q.pc = "call" /\ q.op \in {"RestartBatch", "RestartJob"}
        /\ IF batches[b] = q.seen
           THEN /\ batches' = [batches EXCEPT ![b] = RestartedJobs(q.seen, ChosenJobs(q))]
                /\ requests' = Note([requests EXCEPT ![r] = Answered(q, "NoContent")], r, b)
           ELSE /\ requests' = [requests EXCEPT ![r] = Answered(q, "Error")]
                /\ UNCHANGED batches

\* A copy is made for the deployment the request names, which nothing checks.
CallCopy(r) ==
    LET q == requests[r]
    IN  /\ q.pc = "call" /\ q.op \in {"CopyBatch", "CopyJob"}
        /\ \E b \in Unused, d \in Deployments :
              /\ batches' = [batches EXCEPT ![b] = CopiedBatch(q.seen, ChosenJobs(q), q.op = "CopyJob", d)]
              /\ requests' = Note([requests EXCEPT ![r] = Answered(q, "OK")], r, b)

CallDelete(r) ==
    LET q == requests[r]
        b == TargetBatch(q)
    IN  /\ q.pc = "call" /\ q.op \in {"DeleteBatch", "DeleteJob"}
        /\ batches' = [batches EXCEPT ![b] = IF b \in Existing THEN Deleted ELSE @]
        /\ requests' = [requests EXCEPT ![r] = Answered(q, IF b \in Existing THEN "NoContent" ELSE "NotFound")]

\* Any call of the library may fail and leave everything as it was.
CallFails(r) ==
    /\ requests[r].pc = "call"
    /\ requests' = [requests EXCEPT ![r] = Answered(@, "Error")]
    /\ UNCHANGED batches

\* mutant: the loop ends at the first call that fails.
MutantStopNext(r) ==
    LET q == requests[r]
        call == Head(q.todo)
        stop(S) == [b \in BatchNames |-> IF b \in S THEN StoppedBatch(batches[b]) ELSE batches[b]]
    IN  /\ q.pc = "loop" /\ q.todo # <<>>
        /\ \/ /\ batches' = stop(GetRadixBatches(call[1], call[2]))
              /\ requests' = [requests EXCEPT ![r].todo = Tail(@)]
           \/ /\ requests' = [requests EXCEPT ![r].todo = <<>>, ![r].failed = {call}]
              /\ UNCHANGED batches

\* One round of a loop over StopAllRadixBatches. A call that fails may have
\* stopped some of its batches; the loop goes on and collects the error.
StopNext(r) ==
    LET q == requests[r]
        call == Head(q.todo)
        listed == GetRadixBatches(call[1], call[2])
        stop(S) == [b \in BatchNames |-> IF b \in S THEN StoppedBatch(batches[b]) ELSE batches[b]]
    IN  /\ q.pc = "loop" /\ q.todo # <<>>
        /\ \/ /\ batches' = stop(listed)
              /\ requests' = [requests EXCEPT ![r].todo = Tail(@)]
           \/ /\ \E S \in SUBSET listed : batches' = stop(S)
              /\ requests' = [requests EXCEPT ![r].todo = Tail(@), ![r].failed = @ \cup {call}]

StopEnds(r) ==
    LET q == requests[r]
    IN  /\ q.pc = "loop" /\ q.todo = <<>>
        /\ requests' = [requests EXCEPT ![r] = Answered(q, IF q.failed = {} THEN "NoContent" ELSE "Error")]
        /\ UNCHANGED batches

-----------------------------------------------------------------------------
(* The job scheduler and the operator *)

\* The scheduler of an active deployment creates batches for its components.
ScheduleBatch ==
    /\ \E active \in Deployments : \E b \in Unused, t \in Types, c \in JobComponents[active], j \in JobNames :
          /\ batches' = [batches EXCEPT ![b] =
                [type |-> t, component |-> c, deployment |-> active, jobs |-> [n \in {j} |-> Fresh]]]
          /\ requests' = Note(requests, None, b)

JobEnds ==
    /\ \E b \in Existing : \E j \in DOMAIN batches[b].jobs :
          /\ ~batches[b].jobs[j].ended
          /\ batches' = [batches EXCEPT ![b].jobs[j].ended = TRUE]
    /\ UNCHANGED requests

-----------------------------------------------------------------------------

Init ==
    /\ batches = Initial
    /\ requests = [r \in Requests |-> Idle]

Call(r) == CallStop(r) \/ CallRestart(r) \/ CallCopy(r) \/ CallDelete(r) \/ CallFails(r)
Step(r) == ReadDeployments(r) \/ Call(r) \/ StopNext(r) \/ StopEnds(r)
World == ScheduleBatch \/ JobEnds
Next == World \/ \E r \in Requests : Submit(r) \/ Step(r)

Spec == Init /\ [][Next]_vars

-----------------------------------------------------------------------------
(* Properties *)

\* The types, with what GetScheduledSingleJobSummaryList relies on when it reads
\* the first job: a batch of type "job" holds one.
TypeOK ==
    /\ batches \in [BatchNames -> Batch \cup {NoBatch, Deleted}]
    /\ \A b \in Existing : batches[b].type = "job" => Cardinality(DOMAIN batches[b].jobs) = 1
    /\ \A r \in Requests : requests[r].pc \in {"idle", "deployments", "call", "loop", "done"}

\* What a stop of several components was asked to stop.
Scope(q) ==
    LET ofActive == IF q.read = None THEN {} ELSE JobComponents[q.read]
    IN  CASE q.op = "StopAllForEnvironment" -> ofActive \X Types
          [] q.op = "StopAllForComponent" -> {q.component} \X Types
          [] q.op = "StopAllBatches" -> {<<q.component, "batch">>}
          [] q.op = "StopAllJobs" -> {<<q.component, "job">>}

\* A stop of several components' batches reports exactly what it could not
\* do: once it is answered, every batch of a component it was asked to stop is
\* at rest, unless the error tells of that component and type, or the batch
\* was created or restarted meanwhile (StopAllBatchesAndJobsForEnvironment,
\* StopAllBatchesAndJobsForJobComponent).
StoppedUnlessReported ==
    \A r \in Requests : LET q == requests[r] IN
        (q.pc = "done" /\ q.op \in LoopOps) =>
            \A b \in Existing \ q.since :
                <<batches[b].component, batches[b].type>> \in Scope(q) =>
                    \/ \A j \in DOMAIN batches[b].jobs : Resting(batches[b].jobs[j])
                    \/ q.answer = "Error" /\ <<batches[b].component, batches[b].type>> \in q.failed

SameBut(old, new, names) ==
    /\ [old EXCEPT !.jobs = <<>>] = [new EXCEPT !.jobs = <<>>]
    /\ \A j \in DOMAIN old.jobs \ names : new.jobs[j] = old.jobs[j]

Permitted(q, b, old, new) ==
    LET named == {j \in JobNames \cup {Last(q.name)} : ScheduledJobName(b, j) = q.name}
    IN  CASE q.op \in {"StopBatch", "RestartBatch"} -> b = q.name /\ SameBut(old, new, JobNames)
          [] q.op \in {"StopJob", "RestartJob"} -> named # {} /\ SameBut(old, new, named)
          [] q.op = "DeleteBatch" -> b = q.name /\ old.type = "batch" /\ new = Deleted
          [] q.op = "DeleteJob" -> named # {} /\ old.type = "job" /\ new = Deleted
          [] q.op \in {"CopyBatch", "CopyJob"} -> old = NoBatch
          [] OTHER -> <<old.component, old.type>> \in Scope(q) /\ SameBut(old, new, JobNames)

\* What a request may do to a batch: nothing but its operation, on the batch
\* or the job whose full name it gave, whatever others do meanwhile; a batch of
\* several jobs is not deleted as a job, and a copy does not change its source.
OnlyTheNamed ==
    [][\A r \in Requests : <<requests'[r].pc, requests'[r].todo>> # <<requests[r].pc, requests[r].todo>> =>
          \A b \in BatchNames : batches'[b] # batches[b] =>
              Permitted(requests[r], b, batches[b], batches'[b])]_vars

\* A batch or job that a listing shows is found under the name shown, with
\* what is shown of it, and its payload too if there is one; and every job is
\* listed exactly once (GetJobs, GetBatches against GetBatch, GetJob,
\* GetJobPayload).
ListedIsReachable ==
    \A c \in Components :
        LET listed == ListJobs(c).body \cup UNION {s.jobs : s \in ListBatches(c).body}
            mine == {b \in Existing : batches[b].component = c}
        IN  /\ \A s \in ListBatches(c).body : ReadBatch(c, s.name).body = {s}
            /\ \A s \in listed :
                  /\ ReadJob(c, s.name).body = {s}
                  /\ ReadPayload(c, s.name).code = "NotFound" <=> Payloads[Front(s.name)] = "lost"
            /\ \A b \in mine : \A j \in DOMAIN batches[b].jobs :
                  \E s \in listed : {t \in listed : t.name = ScheduledJobName(b, j)} = {s}

\* What a reader of "Delete a job by name" expects: a job is deleted only
\* under its own name. The code looks up the batch and not the job in it.
DeletedUnderItsName ==
    [][\A r \in Requests : requests[r].op = "DeleteJob" /\ requests'[r].pc # requests[r].pc =>
          \A b \in BatchNames : batches'[b] # batches[b] =>
              Last(requests[r].name) \in DOMAIN batches[b].jobs]_vars
==============================================================================
