-------------------------- MODULE PipelineJobs_proofs --------------------------
(***************************************************************************)
(* Stops, reruns and image tags of pipeline jobs, for any number of jobs,  *)
(* requests, references and environments.                                  *)
(*                                                                         *)
(* All of it follows from one invariant: a job is only ever changed to a   *)
(* later version of itself (Grows), so what a request read of it is either *)
(* current, or of an earlier version, and then the update is refused.      *)
(***************************************************************************)
EXTENDS PipelineJobs, TLAPS

USE ConstantsAssumption

(* A job that is not made yet is nothing; its image tag is its own or was  *)
(* asked for; what it is a rerun of has ended; some request stopped it.    *)
JobInv(d) ==
  /\ d > made => jobs[d] = NoJob
  /\ jobs[d].tag \in {NoTag, d} \/ (jobs[d].wanted /\ jobs[d].tag \in UserTags)
  /\ jobs[d].rerunOf # 0 => RerunAllowed(jobs[jobs[d].rerunOf])
  /\ jobs[d].stop => \E r \in Requests : req[r].cmd.verb = "stop" /\ req[r].cmd.job = d

Triggering == {"registration", "application", "deployment", "deployments", "start", "create"}

(* q.snap is an earlier version of the job, or what still matters of it.   *)
EarlierOrCurrent(q) ==
  LET job == jobs[q.cmd.job] IN
  /\ q.cmd.job <= made
  /\ q.snap.version <= job.version
  /\ q.snap.version = job.version =>
       q.snap.stop = job.stop /\ q.snap.condition = job.condition

RequestInv(q) ==
  /\ q.pc \in Triggering => q.cmd.verb \in Kinds
  /\ q.pc = "read" => q.cmd.verb \in {"stop", "rerun"}
  /\ q.pc = "update" => q.cmd.verb = "stop" /\ ~StopRefused(q.snap) /\ EarlierOrCurrent(q)
  /\ q.pc = "copy" => q.cmd.verb = "rerun" /\ RerunAllowed(jobs[q.cmd.job])
  /\ q.pc = "ok" /\ q.cmd.verb = "stop" => jobs[q.cmd.job].stop

IInv ==
  /\ TypeOK
  /\ \A d \in Jobs : JobInv(d)
  /\ \A r \in Requests : RequestInv(req[r])

(* What every step does to the jobs there are.                             *)
Grows ==
  /\ made <= made'
  /\ \A d \in Jobs : d <= made =>
       /\ jobs[d].version <= jobs'[d].version
       /\ jobs[d].version = jobs'[d].version =>
            jobs[d].stop = jobs'[d].stop /\ jobs[d].condition = jobs'[d].condition
       /\ jobs[d].stop => jobs'[d].stop
       /\ RerunAllowed(jobs[d]) => RerunAllowed(jobs'[d])

CommandsStay == \A r \in Requests : req'[r].cmd = req[r].cmd
-----------------------------------------------------------------------------
(* The job that is not there is typed like the others.                     *)
LEMMA NoJobType == NoJob \in RadixJob
  BY DEF NoJob, RadixJob, Kinds, RefTypes, Tags, NoTag, Conditions, Jobs

(* The job that is not there is not stopped and cannot be rerun.           *)
LEMMA NoJobFacts == ~NoJob.stop /\ ~RerunAllowed(NoJob)
  BY DEF NoJob, RerunAllowed

(* Stopping a job and its progress keep its type.                          *)
LEMMA LaterType ==
  ASSUME NEW job \in RadixJob, NEW v \in Nat
  PROVE  /\ [job EXCEPT !.stop = TRUE, !.version = v] \in RadixJob
         /\ \A c \in Conditions : [job EXCEPT !.condition = c, !.version = v] \in RadixJob
  BY DEF RadixJob

(* The fields of a request have their types.                               *)
LEMMA RequestType ==
  ASSUME TypeOK, NEW r \in Requests
  PROVE  /\ req[r] \in Request /\ req[r].cmd \in CommandType /\ req[r].cmd.job \in Jobs
         /\ req[r].snap \in RadixJob /\ jobs[req[r].cmd.job] \in RadixJob
  <1>1. req[r] \in Request
    BY DEF TypeOK
  <1>2. req[r].cmd \in CommandType /\ req[r].snap \in RadixJob
    BY <1>1 DEF Request
  <1>3. req[r].cmd.job \in Jobs
    BY <1>2 DEF CommandType
  <1> QED
    BY <1>1, <1>2, <1>3 DEF TypeOK

(* One request changes, and keeps its command.                             *)
LEMMA BecomeEffect ==
  ASSUME TypeOK, NEW r \in Requests, NEW q \in Request, Become(r, q), q.cmd = req[r].cmd
  PROVE  /\ req' \in [Requests -> Request] /\ req'[r] = q
         /\ \A x \in Requests : x # r => req'[x] = req[x]
         /\ CommandsStay
  BY DEF TypeOK, Become, CommandsStay

(* What a request knows of the jobs stays true while they grow.            *)
LEMMA GrowthKeepsRequest ==
  ASSUME TypeOK, TypeOK', NEW q \in Request, RequestInv(q), Grows,
         \A d \in Jobs : JobInv(d)
  PROVE  RequestInv(q)'
  <1> DEFINE d == q.cmd.job
  <1>1. d \in Jobs
    BY DEF Request, CommandType
  <1>2. jobs[d] \in RadixJob /\ jobs'[d] \in RadixJob /\ q.snap \in RadixJob
    BY <1>1 DEF TypeOK, Request
  <1>3. d \in Nat /\ made \in Nat /\ made' \in Nat
        /\ jobs[d].version \in Nat /\ jobs'[d].version \in Nat /\ q.snap.version \in Nat
    BY <1>1, <1>2 DEF TypeOK, Jobs, RadixJob
  <1>4. jobs[d].stop \/ RerunAllowed(jobs[d]) => d <= made
    <2>1. JobInv(d)
      BY <1>1
    <2>2. d > made => jobs[d] = NoJob
      BY <2>1 DEF JobInv
    <2> QED
      BY <1>3, <2>2, NoJobFacts
  <1>5. EarlierOrCurrent(q) => EarlierOrCurrent(q)'
    <2>1. SUFFICES ASSUME EarlierOrCurrent(q) PROVE EarlierOrCurrent(q)'
      OBVIOUS
    <2>2. d <= made /\ made <= made' /\ jobs[d].version <= jobs'[d].version
          /\ q.snap.version <= jobs[d].version
      BY <1>1, <2>1 DEF EarlierOrCurrent, Grows
    <2>3. ASSUME q.snap.version = jobs'[d].version
          PROVE  q.snap.stop = jobs'[d].stop /\ q.snap.condition = jobs'[d].condition
      <3>1. q.snap.version = jobs[d].version /\ jobs[d].version = jobs'[d].version
        BY <1>3, <2>2, <2>3
      <3> QED
        BY <1>1, <2>1, <2>2, <3>1 DEF EarlierOrCurrent, Grows
    <2> QED
      BY <1>3, <2>2, <2>3 DEF EarlierOrCurrent
  <1>6. RerunAllowed(jobs[d]) => RerunAllowed(jobs'[d])
    BY <1>1, <1>4 DEF Grows
  <1>7. jobs[d].stop => jobs'[d].stop
    BY <1>1, <1>4 DEF Grows
  <1> QED
    BY <1>5, <1>6, <1>7 DEF RequestInv

(* What a request knows survives the steps of the others.                  *)
LEMMA OthersKeep ==
  ASSUME TypeOK, TypeOK', Grows, \A d \in Jobs : JobInv(d),
         NEW x \in Requests, RequestInv(req[x]), req'[x] = req[x]
  PROVE  RequestInv(req[x])'
  <1>1. PICK c \in Request : c = req[x]
    BY RequestType
  <1>2. RequestInv(c)
    BY <1>1
  <1>3. RequestInv(c)'
    BY <1>2, GrowthKeepsRequest
  <1>4. c = req'[x]
    BY <1>1
  <1> QED
    BY <1>3, <1>4 DEF RequestInv, EarlierOrCurrent

(* A step that only moves one request on.                                  *)
LEMMA RequestMoves ==
  ASSUME IInv, NEW r \in Requests, NEW q \in Request, Become(r, q), q.cmd = req[r].cmd,
         UNCHANGED <<jobs, made, registered, mapping, deployed>>, RequestInv(q)
  PROVE  IInv' /\ Grows
  <1>0. TypeOK
    BY DEF IInv
  <1>1. /\ req' \in [Requests -> Request] /\ req'[r] = q /\ CommandsStay
        /\ \A x \in Requests : x # r => req'[x] = req[x]
    BY <1>0, BecomeEffect
  <1>2. TypeOK'
    BY <1>0, <1>1 DEF TypeOK
  <1>3. ASSUME NEW d \in Jobs PROVE JobInv(d)'
    BY <1>1, <1>3 DEF IInv, JobInv, CommandsStay
  <1>4. ASSUME NEW x \in Requests PROVE RequestInv(req[x])'
    BY <1>1, <1>4 DEF IInv, RequestInv, EarlierOrCurrent
  <1>5. Grows
    BY <1>0 DEF Grows, TypeOK, Jobs, RadixJob
  <1> QED
    BY <1>2, <1>3, <1>4, <1>5 DEF IInv

(* A new job, made by a request that does not stop one.                    *)
LEMMA CreateKeeps ==
  ASSUME IInv, NEW r \in Requests, NEW job \in RadixJob, Create(r, job),
         req[r].cmd.verb # "stop", ~job.stop,
         job.tag \in {NoTag, made + 1} \/ (job.wanted /\ job.tag \in UserTags),
         job.rerunOf # 0 => RerunAllowed(jobs[job.rerunOf])
  PROVE  IInv' /\ Grows
  <1> DEFINE new == [job EXCEPT !.exists = TRUE, !.version = 1]
             n == made + 1
  <1>0. TypeOK /\ (\A d \in Jobs : JobInv(d)) /\ (\A x \in Requests : RequestInv(req[x]))
    BY DEF IInv
  <1>1. n \in Jobs /\ made \in Nat /\ made' = n /\ jobs' = [jobs EXCEPT ![n] = new]
    BY <1>0 DEF Create, TypeOK, Jobs
  <1>2. new \in RadixJob /\ new.stop = job.stop /\ new.tag = job.tag /\ new.wanted = job.wanted
        /\ new.rerunOf = job.rerunOf
    BY DEF RadixJob
  <1>3. PICK pc \in {"ok", "error"} : Become(r, [req[r] EXCEPT !.pc = pc])
    BY DEF Create
  <1> DEFINE q == [req[r] EXCEPT !.pc = pc]
  <1>4. q \in Request /\ q.cmd = req[r].cmd /\ q.pc = pc
    BY <1>0, RequestType DEF Request
  <1>5. /\ req' \in [Requests -> Request] /\ req'[r] = q /\ CommandsStay
        /\ \A x \in Requests : x # r => req'[x] = req[x]
    BY <1>0, <1>3, <1>4, BecomeEffect
  <1>6. jobs' \in [Jobs -> RadixJob] /\ jobs'[n] = new
        /\ \A d \in Jobs : d # n => jobs'[d] = jobs[d]
    BY <1>0, <1>1, <1>2 DEF TypeOK
  <1>7. TypeOK'
    BY <1>0, <1>1, <1>5, <1>6 DEF TypeOK, Create, Jobs
  <1>8. Grows
    <2>1. ASSUME NEW d \in Jobs, d <= made
          PROVE  jobs'[d] = jobs[d] /\ jobs[d].version \in Nat
      <3>1. d # n
        BY <1>1, <2>1 DEF Jobs
      <3> QED
        BY <1>0, <1>6, <3>1 DEF TypeOK, RadixJob
    <2> QED
      BY <1>1, <2>1 DEF Grows
  <1>9. ASSUME NEW d \in Jobs PROVE JobInv(d)'
    <2>1. ASSUME NEW e \in Jobs, RerunAllowed(jobs[e]) PROVE RerunAllowed(jobs'[e])
      <3>1. e # n
        BY <1>0, <1>1, <2>1, NoJobFacts DEF JobInv, Jobs
      <3> QED
        BY <1>6, <2>1, <3>1
    <2>2. CASE d = n
      <3>1. ~(d > made')
        BY <1>1, <2>2
      <3>2. job.rerunOf # 0 => job.rerunOf \in Jobs
        BY DEF RadixJob
      <3> QED
        BY <1>2, <1>6, <2>1, <2>2, <3>1, <3>2 DEF JobInv
    <2>3. CASE d # n
      <3>1. jobs'[d] = jobs[d] /\ JobInv(d) /\ (d > made' => d > made)
        BY <1>0, <1>1, <1>6, <2>3 DEF Jobs
      <3>2. jobs[d].rerunOf # 0 => jobs[d].rerunOf \in Jobs
        BY <1>0 DEF TypeOK, RadixJob
      <3> QED
        BY <1>5, <2>1, <3>1, <3>2 DEF JobInv, CommandsStay
    <2> QED
      BY <2>2, <2>3
  <1>10. ASSUME NEW x \in Requests PROVE RequestInv(req[x])'
    <2>1. CASE x = r
      <3>1. q.pc \notin Triggering \union {"read", "update", "copy"} /\ q.cmd.verb # "stop"
        BY <1>4 DEF Triggering
      <3> QED
        BY <1>5, <2>1, <3>1 DEF RequestInv
    <2>2. CASE x # r
      BY <1>0, <1>5, <1>7, <1>8, <2>2, OthersKeep
    <2> QED
      BY <2>1, <2>2
  <1> QED
    BY <1>7, <1>8, <1>9, <1>10 DEF IInv

(* A step that changes one job, made long ago, and no request's command.   *)
LEMMA JobChanges ==
  ASSUME IInv, NEW d \in Jobs, NEW job \in RadixJob, d <= made,
         jobs' = [jobs EXCEPT ![d] = job], TypeOK', CommandsStay, made' = made,
         job.version > jobs[d].version \/
           (job.version = jobs[d].version /\ job.condition = jobs[d].condition
            /\ job.stop = jobs[d].stop),
         job.tag = jobs[d].tag, job.wanted = jobs[d].wanted, job.rerunOf = jobs[d].rerunOf,
         jobs[d].stop => job.stop,
         job.stop => \E r \in Requests : req[r].cmd.verb = "stop" /\ req[r].cmd.job = d,
         RerunAllowed(jobs[d]) => RerunAllowed(job)
  PROVE  Grows /\ \A e \in Jobs : JobInv(e)'
  <1>0. TypeOK /\ (\A e \in Jobs : JobInv(e))
    BY DEF IInv
  <1>1. /\ jobs'[d] = job /\ made \in Nat
        /\ \A e \in Jobs : e # d => jobs'[e] = jobs[e]
        /\ \A e \in Jobs : jobs[e].version \in Nat
    BY <1>0 DEF TypeOK, RadixJob
  <1>2. job.version \in Nat
    BY DEF RadixJob
  <1>3. Grows
    <2>1. ASSUME NEW e \in Jobs, e # d PROVE jobs'[e] = jobs[e] /\ jobs[e].version \in Nat
      BY <1>1, <2>1
    <2> QED
      BY <1>1, <1>2, <2>1 DEF Grows
  <1>4. ASSUME NEW e \in Jobs, RerunAllowed(jobs[e]) PROVE RerunAllowed(jobs'[e])
    BY <1>1, <1>4
  <1>5. ASSUME NEW e \in Jobs PROVE JobInv(e)'
    <2>1. /\ JobInv(e) /\ jobs'[e].tag = jobs[e].tag /\ jobs'[e].wanted = jobs[e].wanted
          /\ jobs'[e].rerunOf = jobs[e].rerunOf
      BY <1>0, <1>1
    <2>2. jobs[e].rerunOf # 0 => jobs[e].rerunOf \in Jobs
      BY <1>0 DEF TypeOK, RadixJob
    <2>3. e > made' => jobs'[e] = NoJob
      BY <1>1, <2>1 DEF JobInv, Jobs
    <2>4. jobs'[e].stop => \E r \in Requests : req'[r].cmd.verb = "stop" /\ req'[r].cmd.job = e
      BY <1>1, <2>1 DEF JobInv, CommandsStay
    <2> QED
      BY <1>4, <2>1, <2>2, <2>3, <2>4 DEF JobInv
  <1> QED
    BY <1>3, <1>5

(* A job of which anything can be said has been made.                      *)
LEMMA MadeBefore ==
  ASSUME IInv, NEW d \in Jobs, jobs[d].exists \/ RerunAllowed(jobs[d]) \/ jobs[d].stop
  PROVE  d <= made /\ jobs[d] \in RadixJob /\ jobs[d].version \in Nat
  <1>1. d > made => jobs[d] = NoJob
    BY DEF IInv, JobInv
  <1>2. ~NoJob.exists
    BY DEF NoJob
  <1> QED
    BY <1>1, <1>2, NoJobFacts DEF IInv, TypeOK, Jobs, RadixJob

(* The stop itself: the version shows that what was read is still current. *)
LEMMA UpdateJobKeeps ==
  ASSUME IInv, NEW r \in Requests, UpdateJob(r), UnchangedSince(jobs[req[r].cmd.job], req[r].snap)
  PROVE  IInv' /\ Grows
  <1> DEFINE d == req[r].cmd.job
             job == [jobs[d] EXCEPT !.stop = TRUE, !.version = @ + 1]
  <1>0. TypeOK /\ d \in Jobs /\ req[r].pc = "update" /\ RequestInv(req[r])
    BY RequestType DEF IInv, UpdateJob
  <1>1. jobs[d].exists /\ d <= made /\ jobs[d] \in RadixJob /\ jobs[d].version \in Nat
    BY <1>0, MadeBefore DEF UnchangedSince
  <1>2. PICK pc \in {"ok", "error"} : Become(r, [req[r] EXCEPT !.pc = pc])
    BY DEF UpdateJob
  <1>3. jobs' = [jobs EXCEPT ![d].stop = TRUE, ![d].version = @ + 1]
        /\ UNCHANGED <<made, registered, mapping, deployed>>
    BY DEF UpdateJob
  <1> DEFINE q == [req[r] EXCEPT !.pc = pc]
  <1>4. q \in Request /\ q.cmd = req[r].cmd /\ q.pc = pc
    BY <1>0, RequestType DEF Request
  <1>5. /\ req' \in [Requests -> Request] /\ req'[r] = q /\ CommandsStay
        /\ \A x \in Requests : x # r => req'[x] = req[x]
    BY <1>0, <1>2, <1>4, BecomeEffect
  <1>6. /\ job \in RadixJob /\ job.version = jobs[d].version + 1 /\ job.stop
        /\ job.condition = jobs[d].condition /\ job.tag = jobs[d].tag
        /\ job.wanted = jobs[d].wanted /\ job.rerunOf = jobs[d].rerunOf
    <2>0. jobs[d].version + 1 \in Nat
      BY <1>1
    <2>1. job \in RadixJob
      BY <1>1, <2>0, LaterType
    <2>2. job.stop
      BY <1>1 DEF RadixJob
    <2>3. job.version = jobs[d].version + 1
      BY <1>1 DEF RadixJob
    <2> QED
      BY <1>1, <2>1, <2>2, <2>3 DEF RadixJob
  <1>7. jobs' = [jobs EXCEPT ![d] = job] /\ jobs'[d] = job
    BY <1>0, <1>3 DEF TypeOK
  <1>8. TypeOK'
    BY <1>0, <1>3, <1>5, <1>6, <1>7 DEF TypeOK
  <1>9. Grows /\ \A e \in Jobs : JobInv(e)'
    <2>1. req[r].cmd.verb = "stop"
      BY <1>0 DEF RequestInv
    <2>2. job.version > jobs[d].version
      BY <1>1, <1>6
    <2>3. RerunAllowed(jobs[d]) => RerunAllowed(job)
      BY <1>6 DEF RerunAllowed
    <2> HIDE DEF job, d, q
    <2> QED
      BY <1>0, <1>1, <1>3, <1>5, <1>6, <1>7, <1>8, <2>1, <2>2, <2>3, JobChanges DEF d
  <1>10. ASSUME NEW x \in Requests PROVE RequestInv(req[x])'
    <2>1. CASE x = r
      <3>1. q.pc \notin Triggering \union {"read", "update", "copy"}
        BY <1>4 DEF Triggering
      <3>2. jobs'[q.cmd.job].stop
        BY <1>4, <1>6, <1>7
      <3> QED
        BY <1>5, <2>1, <3>1, <3>2 DEF RequestInv
    <2>2. CASE x # r
      BY <1>0, <1>5, <1>8, <1>9, <2>2, OthersKeep DEF IInv
    <2> QED
      BY <2>1, <2>2
  <1> QED
    BY <1>8, <1>9, <1>10 DEF IInv

(* The operator's steps.                                                   *)
LEMMA OperatorKeeps ==
  ASSUME IInv, NEW d \in Jobs, Progress(d) \/ DeleteJob(d)
  PROVE  IInv' /\ Grows
  <1>0. TypeOK /\ UNCHANGED <<made, registered, mapping, deployed, req>> /\ jobs[d].exists
    BY DEF IInv, Progress, DeleteJob
  <1>1. d <= made /\ jobs[d] \in RadixJob /\ jobs[d].version \in Nat
    BY <1>0, MadeBefore
  <1>2. CommandsStay
    BY <1>0 DEF CommandsStay
  <1>3. jobs[d].stop => \E r \in Requests : req[r].cmd.verb = "stop" /\ req[r].cmd.job = d
    BY DEF IInv, JobInv
  <1>4. TypeOK' /\ Grows /\ \A e \in Jobs : JobInv(e)'
    <2>1. CASE Progress(d)
      <3>1. PICK c \in Conditions : jobs' = [jobs EXCEPT ![d].condition = c, ![d].version = @ + 1]
        BY <2>1 DEF Progress, Conditions
      <3> DEFINE job == [jobs[d] EXCEPT !.condition = c, !.version = @ + 1]
      <3>2. /\ job \in RadixJob /\ job.version = jobs[d].version + 1 /\ job.stop = jobs[d].stop
            /\ job.tag = jobs[d].tag /\ job.wanted = jobs[d].wanted
            /\ job.rerunOf = jobs[d].rerunOf
        <4>0. jobs[d].version + 1 \in Nat
          BY <1>1
        <4>1. job \in RadixJob
          BY <1>1, <4>0, LaterType
        <4>2. job.version = jobs[d].version + 1
          BY <1>1 DEF RadixJob
        <4> QED
          BY <1>1, <4>1, <4>2 DEF RadixJob
      <3>3. jobs' = [jobs EXCEPT ![d] = job]
        BY <1>0, <3>1 DEF TypeOK
      <3>4. TypeOK'
        BY <1>0, <3>2, <3>3 DEF TypeOK
      <3>5. ~RerunAllowed(jobs[d])
        BY <2>1 DEF Progress, RerunAllowed, Final
      <3>6. job.version > jobs[d].version
        BY <1>1, <3>2
      <3> HIDE DEF job
      <3> QED
        BY <1>0, <1>1, <1>2, <1>3, <3>2, <3>3, <3>4, <3>5, <3>6, JobChanges
    <2>2. CASE DeleteJob(d)
      <3> DEFINE job == [jobs[d] EXCEPT !.exists = FALSE]
      <3>1. /\ job \in RadixJob /\ job.version = jobs[d].version /\ job.stop = jobs[d].stop
            /\ job.condition = jobs[d].condition /\ job.tag = jobs[d].tag
            /\ job.wanted = jobs[d].wanted /\ job.rerunOf = jobs[d].rerunOf
        BY <1>1 DEF RadixJob
      <3>2. jobs' = [jobs EXCEPT ![d] = job]
        BY <1>0, <2>2 DEF DeleteJob, TypeOK
      <3>3. TypeOK'
        BY <1>0, <3>1, <3>2 DEF TypeOK
      <3>4. RerunAllowed(jobs[d]) => RerunAllowed(job)
        BY <3>1 DEF RerunAllowed
      <3> HIDE DEF job
      <3> QED
        BY <1>0, <1>1, <1>2, <1>3, <3>1, <3>2, <3>3, <3>4, JobChanges
    <2> QED
      BY <2>1, <2>2
  <1>5. ASSUME NEW x \in Requests PROVE RequestInv(req[x])'
    BY <1>0, <1>4, OthersKeep DEF IInv
  <1> QED
    BY <1>4, <1>5 DEF IInv
-----------------------------------------------------------------------------
(* A step to the next call, or to the end of a request that changed nothing. *)
LEMMA GotoKeeps ==
  ASSUME IInv, NEW r \in Requests,
         NEW pc \in Triggering \union {"read", "refused", "error"}, Goto(r, pc),
         pc \in Triggering => req[r].cmd.verb \in Kinds,
         pc = "read" => req[r].cmd.verb \in {"stop", "rerun"}
  PROVE  IInv' /\ Grows
  <1> DEFINE q == [req[r] EXCEPT !.pc = pc]
  <1>0. TypeOK
    BY DEF IInv
  <1>1. q \in Request /\ q.cmd = req[r].cmd /\ q.pc = pc
    BY <1>0, RequestType DEF Request, Triggering
  <1>2. RequestInv(q)
    BY <1>1 DEF RequestInv, Triggering
  <1>3. Become(r, q) /\ UNCHANGED <<jobs, made, registered, mapping, deployed>>
    BY DEF Goto
  <1> HIDE DEF q
  <1> QED
    BY <1>1, <1>2, <1>3, RequestMoves

(* The invariant is kept when a request comes.                             *)
LEMMA SubmitKeeps ==
  ASSUME IInv, NEW r \in Requests, Submit(r)
  PROVE  IInv' /\ Grows
  <1> DEFINE c == req[r].cmd
             q == [req[r] EXCEPT !.pc = "registration", !.refType = RefType(c)]
  <1>0. TypeOK
    BY DEF IInv
  <1>1. CASE c.verb \in {"stop", "rerun"} /\ Goto(r, "read")
    BY <1>1, GotoKeeps DEF Triggering
  <1>2. CASE c.verb = "build" /\ Become(r, q)
             /\ UNCHANGED <<jobs, made, registered, mapping, deployed>>
    <2>1. c.refType \in RefTypes
      BY <1>0, RequestType DEF CommandType
    <2>2. RefType(c) \in RefTypes
      BY <2>1 DEF RefType, RefTypes
    <2>3. q \in Request /\ q.cmd = req[r].cmd /\ q.pc = "registration"
      BY <1>0, <2>2, RequestType DEF Request
    <2>4. RequestInv(q)
      BY <1>2, <2>3 DEF RequestInv, Kinds
    <2> HIDE DEF q
    <2> QED
      BY <1>2, <2>3, <2>4, RequestMoves
  <1>3. CASE Goto(r, "refused")
    BY <1>3, GotoKeeps DEF Triggering
  <1>4. CASE c.verb \in {"deploy", "apply-config"} /\ Goto(r, "start")
    BY <1>4, GotoKeeps DEF Triggering, Kinds
  <1>5. CASE c.verb = "promote" /\ Goto(r, "deployment")
    BY <1>5, GotoKeeps DEF Triggering, Kinds
  <1> QED
    BY <1>1, <1>2, <1>3, <1>4, <1>5 DEF Submit

(* The calls of the triggers, up to the one that creates the job.          *)
LEMMA TriggerKeeps ==
  ASSUME IInv, NEW r \in Requests,
         \/ ReadRegistration(r) \/ ReadApplication(r) \/ StartJob(r)
         \/ ReadDeployment(r) \/ ReadDeployments(r) \/ CallFails(r)
  PROVE  IInv' /\ Grows
  <1>0. TypeOK /\ RequestInv(req[r])
    BY DEF IInv
  <1>1. ASSUME Goto(r, "error") \/ Goto(r, "refused") PROVE IInv' /\ Grows
    BY <1>1, GotoKeeps DEF Triggering
  <1>2. ASSUME req[r].pc \in Triggering, NEW pc \in Triggering, Goto(r, pc)
        PROVE  IInv' /\ Grows
    BY <1>0, <1>2, GotoKeeps DEF RequestInv, Triggering
  <1>3. ASSUME req[r].pc \in Triggering, NEW d \in Deployments, Promote(r, d)
        PROVE  IInv' /\ Grows
    <2> DEFINE q == [req[r] EXCEPT !.pc = "start", !.deployment = d]
    <2>1. q \in Request /\ q.cmd = req[r].cmd /\ q.pc = "start"
      BY <1>0, RequestType DEF Request
    <2>2. RequestInv(q)
      BY <1>0, <1>3, <2>1 DEF RequestInv, Triggering
    <2>3. Become(r, q) /\ UNCHANGED <<jobs, made, registered, mapping, deployed>>
      BY <1>3 DEF Promote
    <2> HIDE DEF q
    <2> QED
      BY <2>1, <2>2, <2>3, RequestMoves
  <1>4. CASE ReadRegistration(r) \/ ReadApplication(r) \/ StartJob(r)
    BY <1>1, <1>2, <1>4 DEF ReadRegistration, ReadApplication, StartJob, Triggering
  <1>5. CASE ReadDeployment(r) \/ ReadDeployments(r)
    BY <1>0, <1>1, <1>2, <1>3, <1>5 DEF ReadDeployment, ReadDeployments, Triggering, TypeOK
  <1>6. CASE CallFails(r)
    BY <1>1, <1>6 DEF CallFails
  <1> QED
    BY <1>4, <1>5, <1>6

(* What a trigger creates (PipelineJob): a job not stopped, a rerun of     *)
(* nothing, whose tag is its own or a user's.                              *)
LEMMA NewJob ==
  ASSUME IInv, NEW r \in Requests, CreateJob(r)
  PROVE  LET job == PipelineJob(req[r].cmd, req[r].refType, req[r].deployment) IN
         /\ Create(r, job) /\ job \in RadixJob /\ ~job.stop /\ job.rerunOf = 0
         /\ job.tag \in {NoTag, made + 1} \/ (job.wanted /\ job.tag \in UserTags)
         /\ req[r].cmd.verb # "stop"
  <1> DEFINE c == req[r].cmd
             job == PipelineJob(c, req[r].refType, req[r].deployment)
  <1>0. TypeOK /\ c \in CommandType /\ req[r] \in Request /\ RequestInv(req[r])
        /\ req[r].pc = "create" /\ Create(r, job) /\ made + 1 \in Jobs
    BY RequestType DEF IInv, CreateJob, Create, TypeOK, Jobs
  <1>1. c.verb \in Kinds /\ c.verb # "stop" /\ c.tag \in {NoTag} \union UserTags
    BY <1>0 DEF RequestInv, Triggering, Kinds, CommandType
  <1>2. job \in RadixJob
    <2>1. req[r].refType \in RefTypes
          /\ req[r].deployment \in Deployments \union {NoDeployment}
      BY <1>0 DEF Request
    <2>2. (IF c.verb # "build" THEN NoTag ELSE IF c.tag # NoTag THEN c.tag ELSE made + 1) \in Tags
      BY <1>0, <1>1 DEF Tags
    <2>3. (c.verb = "build" /\ c.tag # NoTag) \in BOOLEAN
      OBVIOUS
    <2> QED
      BY <1>1, <2>1, <2>2, <2>3, NoJobType DEF PipelineJob, RadixJob
  <1>3. /\ ~job.stop /\ job.rerunOf = 0
        /\ job.tag \in {NoTag, made + 1} \/ (job.wanted /\ job.tag \in UserTags)
    BY <1>1 DEF PipelineJob, NoJob
  <1> HIDE DEF job
  <1> QED
    BY <1>0, <1>1, <1>2, <1>3 DEF job

(* What a rerun creates: a job not stopped, whose original had ended, with *)
(* a tag of its own.                                                       *)
LEMMA NewRerun ==
  ASSUME IInv, NEW r \in Requests, CopyJob(r)
  PROVE  LET job == RerunOf(req[r].snap, req[r].cmd.job) IN
         /\ Create(r, job) /\ job \in RadixJob /\ ~job.stop
         /\ job.rerunOf # 0 => RerunAllowed(jobs[job.rerunOf])
         /\ job.tag \in {NoTag, made + 1}
         /\ req[r].cmd.verb # "stop"
  <1> DEFINE d == req[r].cmd.job
             job == RerunOf(req[r].snap, d)
  <1>0. TypeOK /\ d \in Jobs /\ req[r].snap \in RadixJob /\ RequestInv(req[r])
        /\ req[r].pc = "copy" /\ Create(r, job) /\ made + 1 \in Jobs
    <2>1. TypeOK /\ RequestInv(req[r]) /\ req[r].pc = "copy" /\ Create(r, job)
      BY DEF IInv, CopyJob
    <2>2. made + 1 \in Jobs
      BY <2>1 DEF Create, TypeOK, Jobs
    <2> QED
      BY <2>1, <2>2, RequestType
  <1>1. req[r].cmd.verb # "stop" /\ RerunAllowed(jobs[d])
    BY <1>0 DEF RequestInv
  <1>2. job \in RadixJob
    BY <1>0, NoJobType DEF RerunOf, RadixJob, Tags
  <1>3. ~job.stop /\ job.rerunOf = d /\ job.tag \in {NoTag, made + 1}
    BY DEF RerunOf, NoJob
  <1> HIDE DEF job
  <1> QED
    BY <1>0, <1>1, <1>2, <1>3 DEF job

(* The invariant is kept when a job is created.                            *)
LEMMA CreationKeeps ==
  ASSUME IInv, NEW r \in Requests, CreateJob(r) \/ CopyJob(r)
  PROVE  IInv' /\ Grows
  <1>1. CASE CreateJob(r)
    BY <1>1, NewJob, CreateKeeps
  <1>2. CASE CopyJob(r)
    BY <1>2, NewRerun, CreateKeeps
  <1> QED
    BY <1>1, <1>2

(* The invariant is kept when a job is read.                               *)
LEMMA ReadJobKeeps ==
  ASSUME IInv, NEW r \in Requests, ReadJob(r)
  PROVE  IInv' /\ Grows
  <1> DEFINE c == req[r].cmd
             job == jobs[c.job]
             pc == IF c.verb = "stop"
                   THEN IF StopRefused(job) THEN "refused" ELSE "update"
                   ELSE IF RerunAllowed(job) THEN "copy" ELSE "refused"
             q == [req[r] EXCEPT !.snap = job, !.pc = pc]
  <1>0. TypeOK /\ c.job \in Jobs /\ job \in RadixJob /\ req[r] \in Request
        /\ RequestInv(req[r]) /\ req[r].pc = "read"
    BY RequestType DEF IInv, ReadJob
  <1>1. CASE ~job.exists
    BY <1>1, GotoKeeps DEF ReadJob, Triggering
  <1>2. CASE job.exists
    <2>1. Become(r, q) /\ UNCHANGED <<jobs, made, registered, mapping, deployed>>
      BY <1>2 DEF ReadJob
    <2>2. c.job <= made /\ job.version \in Nat
      BY <1>0, <1>2, MadeBefore
    <2>3. q \in Request /\ q.cmd = c /\ q.pc = pc /\ q.snap = job
      BY <1>0 DEF Request
    <2>4. EarlierOrCurrent(q)
      BY <2>2, <2>3 DEF EarlierOrCurrent
    <2>5. c.verb \in {"stop", "rerun"}
      BY <1>0 DEF RequestInv
    <2>6. RequestInv(q)
      <3> HIDE DEF q
      <3> QED
        BY <2>3, <2>4, <2>5 DEF RequestInv, Triggering
    <2> HIDE DEF q
    <2> QED
      BY <2>1, <2>3, <2>6, RequestMoves
  <1> QED
    BY <1>1, <1>2

(* The invariant is kept when the configuration of the application         *)
(* changes.                                                                *)
LEMMA ConfigureKeeps ==
  ASSUME IInv, Configure \/ UNCHANGED vars
  PROVE  IInv' /\ Grows
  <1>0. TypeOK /\ UNCHANGED <<jobs, made, req>>
    BY DEF IInv, Configure, vars
  <1>1. TypeOK'
    BY <1>0 DEF TypeOK, Configure, vars
  <1>2. Grows
    BY <1>0 DEF Grows, TypeOK, Jobs, RadixJob
  <1>3. ASSUME NEW d \in Jobs PROVE JobInv(d)'
    BY <1>0 DEF IInv, JobInv
  <1>4. ASSUME NEW x \in Requests PROVE RequestInv(req[x])'
    BY <1>0 DEF IInv, RequestInv, EarlierOrCurrent
  <1> QED
    BY <1>1, <1>2, <1>3, <1>4 DEF IInv
-----------------------------------------------------------------------------
(* Every step keeps the invariant, and takes nothing back.                 *)
LEMMA StepKeeps ==
  ASSUME IInv, [Next]_vars
  PROVE  IInv' /\ Grows
  <1>1. CASE Configure \/ UNCHANGED vars
    BY <1>1, ConfigureKeeps
  <1>2. ASSUME NEW d \in Jobs, Progress(d) \/ DeleteJob(d) PROVE IInv' /\ Grows
    BY <1>2, OperatorKeeps
  <1>3. ASSUME NEW r \in Requests, RequestStep(r) \/ CallFails(r) PROVE IInv' /\ Grows
    <2>1. CASE UpdateJob(r)
      <3>1. CASE UnchangedSince(jobs[req[r].cmd.job], req[r].snap)
        BY <2>1, <3>1, UpdateJobKeeps
      <3>2. CASE ~UnchangedSince(jobs[req[r].cmd.job], req[r].snap)
        BY <2>1, <3>2, GotoKeeps DEF UpdateJob, Triggering
      <3> QED
        BY <3>1, <3>2
    <2> QED
      BY <1>3, <2>1, SubmitKeeps, TriggerKeeps, CreationKeeps, ReadJobKeeps
         DEF RequestStep
  <1> QED
    BY <1>1, <1>2, <1>3 DEF Next

(* Initially nothing has been asked for.                                   *)
LEMMA InitIdle ==
  ASSUME Init, NEW r \in Requests
  PROVE  req[r] \in Request /\ req[r].pc = "idle"
  <1>1. PICK c \in Commands : req[r] = [pc |-> "idle", cmd |-> c, refType |-> "",
                                deployment |-> NoDeployment, snap |-> NoJob]
    BY DEF Init
  <1>2. "" \in RefTypes /\ NoDeployment \in Deployments \union {NoDeployment}
    BY DEF RefTypes
  <1>3. [pc |-> "idle", cmd |-> c, refType |-> "", deployment |-> NoDeployment,
         snap |-> NoJob] \in Request
    BY <1>2, NoJobType DEF Request
  <1>4. req[r] \in Request
    BY <1>1, <1>3, Zenon
  <1>5. req[r].pc = "idle"
    <2> DEFINE idle == [pc |-> "idle", cmd |-> c, refType |-> "",
                        deployment |-> NoDeployment, snap |-> NoJob]
    <2>1. idle.pc = "idle"
      OBVIOUS
    <2>2. req[r] = idle
      BY <1>1
    <2> HIDE DEF idle
    <2> QED
      BY <2>1, <2>2
  <1> QED
    BY <1>4, <1>5

(* The invariant holds initially.                                          *)
LEMMA InitInvariant == Init => IInv
  <1> SUFFICES ASSUME Init PROVE IInv
    OBVIOUS
  <1>1. ASSUME NEW d \in Jobs PROVE jobs[d] = NoJob
    BY <1>1 DEF Init
  <1>2. ASSUME NEW r \in Requests PROVE req[r] \in Request /\ req[r].pc = "idle"
    BY <1>2, InitIdle
  <1>3. jobs \in [Jobs -> RadixJob]
    BY NoJobType DEF Init
  <1>4. req \in [Requests -> Request]
    BY <1>2 DEF Init
  <1>5. made = 0 /\ made \in 0..MaxJobs
    <2>1. made = 0
      BY DEF Init
    <2>2. 0 \in 0..MaxJobs
      OBVIOUS
    <2> QED
      BY <2>1, <2>2
  <1>6. TypeOK
    BY <1>3, <1>4, <1>5 DEF Init, TypeOK
  <1>7. ASSUME NEW d \in Jobs PROVE JobInv(d)
    <2>1. NoJob.tag = NoTag /\ NoJob.rerunOf = 0 /\ ~NoJob.stop
      BY DEF NoJob
    <2> QED
      BY <1>1, <1>7, <2>1 DEF JobInv
  <1>8. ASSUME NEW r \in Requests PROVE RequestInv(req[r])
    BY <1>2, <1>8 DEF RequestInv, Triggering
  <1> QED
    BY <1>6, <1>7, <1>8 DEF IInv

(* What is known of jobs and requests holds in every state, whatever the   *)
(* operator, the pipeline and other requests do to a RadixJob between the  *)
(* reading and the writing of it.                                          *)
THEOREM Invariant == Spec => []IInv
  <1>1. IInv /\ [Next]_vars => IInv'
    BY StepKeeps
  <1> QED
    BY <1>1, InitInvariant, PTL DEF Spec
-----------------------------------------------------------------------------
(* Only the update of a request to stop makes a job one that is to stop,   *)
(* and it finds the job as it was when it was read.                        *)
LEMMA StopsByUpdate ==
  ASSUME IInv, [Next]_vars, NEW d \in Jobs, ~jobs[d].stop, jobs'[d].stop
  PROVE  \E r \in Requests : req[r].cmd.job = d /\ ~StopRefused(jobs[d])
  <1>0. TypeOK
    BY DEF IInv
  <1>1. ASSUME NEW r \in Requests, UpdateJob(r) PROVE req[r].cmd.job = d /\ ~StopRefused(jobs[d])
    <2> DEFINE e == req[r].cmd.job
    <2>1. e \in Jobs /\ RequestInv(req[r]) /\ req[r].pc = "update"
      BY <1>0, <1>1, RequestType DEF IInv, UpdateJob
    <2>2. UnchangedSince(jobs[e], req[r].snap)
          /\ jobs' = [jobs EXCEPT ![e].stop = TRUE, ![e].version = @ + 1]
      BY <1>1 DEF UpdateJob, Goto
    <2>3. e = d
      BY <1>0, <2>1, <2>2 DEF TypeOK
    <2>4. ~StopRefused(req[r].snap) /\ req[r].snap.stop = jobs[e].stop
          /\ req[r].snap.condition = jobs[e].condition
      BY <2>1, <2>2 DEF RequestInv, EarlierOrCurrent, UnchangedSince
    <2> QED
      BY <2>3, <2>4 DEF StopRefused
  <1>2. ASSUME NEW r \in Requests, NEW job, Create(r, job), job \in RadixJob, ~job.stop
        PROVE  FALSE
    <2>1. jobs'[d] = jobs[d] \/ jobs'[d] = [job EXCEPT !.exists = TRUE, !.version = 1]
      BY <1>0, <1>2 DEF Create, TypeOK
    <2>2. ~[job EXCEPT !.exists = TRUE, !.version = 1].stop
      BY <1>2 DEF RadixJob
    <2> QED
      BY <2>1, <2>2
  <1>3. ASSUME NEW e \in Jobs, Progress(e) \/ DeleteJob(e) PROVE FALSE
    <2>1. jobs[d] \in RadixJob /\ jobs \in [Jobs -> RadixJob]
      BY <1>0 DEF TypeOK
    <2>2. CASE Progress(e)
      <3>1. PICK c : jobs' = [jobs EXCEPT ![e].condition = c, ![e].version = @ + 1]
        BY <2>2 DEF Progress
      <3>2. jobs'[d] = jobs[d] \/ jobs'[d] = [jobs[d] EXCEPT !.condition = c, !.version = @ + 1]
        BY <2>1, <3>1
      <3>3. ~[jobs[d] EXCEPT !.condition = c, !.version = @ + 1].stop
        BY <2>1 DEF RadixJob
      <3> QED
        BY <3>2, <3>3
    <2>3. CASE DeleteJob(e)
      <3>1. jobs'[d] = jobs[d] \/ jobs'[d] = [jobs[d] EXCEPT !.exists = FALSE]
        BY <2>1, <2>3 DEF DeleteJob
      <3>2. ~[jobs[d] EXCEPT !.exists = FALSE].stop
        BY <2>1 DEF RadixJob
      <3> QED
        BY <3>1, <3>2
    <2> QED
      BY <1>3, <2>2, <2>3
  <1>4. ASSUME UNCHANGED jobs PROVE FALSE
    BY <1>4
  <1>5. PICK r \in Requests : UpdateJob(r)
    <2>1. ASSUME NEW r \in Requests, CreateJob(r) \/ CopyJob(r) PROVE FALSE
      BY <1>2, <2>1, NewJob, NewRerun
    <2> QED
      BY <2>1, <1>3, <1>4 DEF Next, RequestStep, Submit, ReadRegistration, ReadApplication,
         ReadDeployment, ReadDeployments, Promote, StartJob, ReadJob, CallFails, Configure, Goto, vars
  <1> QED
    BY <1>1, <1>5

(* A stop is stored only while the job has not failed or stopped by itself *)
(* (manage_job_handler.go:33).                                             *)
THEOREM StopsInTime == Spec => StopInTime
  <1>1. ASSUME IInv, [Next]_vars PROVE [StopsAreInTime]_vars
    BY <1>1, StopsByUpdate DEF StopsAreInTime, StopRefused
  <1> QED
    BY <1>1, Invariant, PTL DEF Spec, StopInTime

(* A stop that was accepted shows as stopping or stopped.                  *)
THEOREM AcceptedStopsShow == Spec => []AcceptedStopShows
  <1>1. IInv => AcceptedStopShows
    BY DEF IInv, RequestInv, AcceptedStopShows, ShownStatus
  <1> QED
    BY <1>1, Invariant, PTL

(* Jobs are rerun after they failed or were stopped, and a rerun is not    *)
(* born stopped.                                                           *)
THEOREM RerunsStartFresh == Spec => []RerunsAreFresh
  <1>1. IInv => RerunsAreFresh
    BY DEF IInv, JobInv, RerunsAreFresh, RerunAllowed
  <1> QED
    BY <1>1, Invariant, PTL

(* Builds and reruns never push to the tag of another, unless users ask.   *)
THEOREM ImagesStayApart == Spec => []ImagesAreApart
  <1>1. ASSUME IInv, NEW d \in Jobs, NEW e \in Jobs, d # e, jobs[d].tag # NoTag,
               jobs[d].tag = jobs[e].tag
        PROVE  jobs[d].wanted /\ jobs[e].wanted
    <2>1. JobInv(d) /\ JobInv(e)
      BY <1>1 DEF IInv
    <2>2. d \notin UserTags /\ e \notin UserTags
      BY DEF Jobs
    <2> QED
      BY <1>1, <2>1, <2>2 DEF JobInv
  <1>2. IInv => ImagesAreApart
    BY <1>1 DEF ImagesAreApart
  <1> QED
    BY <1>2, Invariant, PTL
-----------------------------------------------------------------------------
(* A step changes one request at most.                                     *)
LEMMA OneRequestMoves ==
  ASSUME TypeOK, [Next]_vars, NEW r \in Requests, req'[r] # req[r]
  PROVE  /\ RequestStep(r) \/ CallFails(r)
         /\ \A x \in Requests : x # r => req'[x] = req[x]
  <1>1. ASSUME NEW x \in Requests, RequestStep(x) \/ CallFails(x)
        PROVE  \E q : req' = [req EXCEPT ![x] = q]
    BY <1>1 DEF RequestStep, CallFails, Submit, ReadRegistration, ReadApplication, ReadDeployment,
       ReadDeployments, Promote, StartJob, CreateJob, CopyJob, Create, ReadJob, UpdateJob, Goto, Become
  <1>2. PICK x \in Requests : RequestStep(x) \/ CallFails(x)
    BY DEF Next, Progress, DeleteJob, Configure, vars
  <1>3. x = r /\ \A y \in Requests : y # r => req'[y] = req[y]
    BY <1>1, <1>2 DEF TypeOK
  <1> QED
    BY <1>2, <1>3

(* A request does not forget its command.                                  *)
LEMMA StepCommands ==
  ASSUME IInv, NEW r \in Requests, RequestStep(r) \/ CallFails(r)
  PROVE  req'[r].cmd = req[r].cmd
  <1>1. req \in [Requests -> Request] /\ req[r] \in Request
    BY DEF IInv, TypeOK
  <1>2. ASSUME NEW q, Become(r, q), q.cmd = req[r].cmd PROVE req'[r].cmd = req[r].cmd
    BY <1>1, <1>2 DEF Become
  <1>3. ASSUME NEW pc, NEW t, NEW q,
               q \in {[req[r] EXCEPT !.pc = pc], [req[r] EXCEPT !.pc = pc, !.refType = t],
                      [req[r] EXCEPT !.pc = pc, !.deployment = t],
                      [req[r] EXCEPT !.snap = t, !.pc = pc]}
        PROVE  q.cmd = req[r].cmd
    BY <1>1, <1>3 DEF Request
  <1>4. ASSUME NEW pc, NEW t, Goto(r, pc) \/ Promote(r, t) PROVE req'[r].cmd = req[r].cmd
    BY <1>2, <1>3, <1>4 DEF Goto, Promote
  <1>5. CASE Submit(r)
    <2> DEFINE q == [req[r] EXCEPT !.pc = "registration", !.refType = RefType(req[r].cmd)]
    <2>1. q.cmd = req[r].cmd
      BY <1>1 DEF Request
    <2>2. Become(r, q) => req'[r].cmd = req[r].cmd
      BY <1>2, <2>1
    <2> QED
      BY <1>4, <1>5, <2>2 DEF Submit
  <1>6. CASE ReadRegistration(r) \/ ReadApplication(r) \/ StartJob(r) \/ CallFails(r)
    BY <1>4, <1>6 DEF ReadRegistration, ReadApplication, StartJob, CallFails
  <1>7. CASE ReadDeployment(r) \/ ReadDeployments(r)
    BY <1>4, <1>7 DEF ReadDeployment, ReadDeployments
  <1>8. CASE ReadJob(r)
    BY <1>2, <1>3, <1>4, <1>8 DEF ReadJob
  <1>9. CASE CreateJob(r) \/ CopyJob(r) \/ UpdateJob(r)
    BY <1>2, <1>3, <1>4, <1>9 DEF CreateJob, CopyJob, Create, UpdateJob
  <1> QED
    BY <1>5, <1>6, <1>7, <1>8, <1>9 DEF RequestStep

(* A request to stop succeeds by storing it, in a job not stopped before.  *)
LEMMA SuccessIsUpdate ==
  ASSUME IInv, NEW r \in Requests, RequestStep(r) \/ CallFails(r), req'[r].pc = "ok",
         req[r].cmd.verb = "stop"
  PROVE  ~jobs[req[r].cmd.job].stop
  <1>0. TypeOK /\ req \in [Requests -> Request] /\ req[r] \in Request /\ RequestInv(req[r])
    BY DEF IInv, TypeOK
  <1>1. ASSUME NEW q, q.pc # "ok", Become(r, q) PROVE FALSE
    BY <1>0, <1>1 DEF Become
  <1>2. ASSUME NEW pc, pc # "ok", Goto(r, pc) PROVE FALSE
    <2>1. [req[r] EXCEPT !.pc = pc].pc = pc
      BY <1>0 DEF Request
    <2> QED
      BY <1>1, <1>2, <2>1 DEF Goto
  <1>3. ~Submit(r) /\ ~CallFails(r) /\ ~StartJob(r) /\ ~ReadRegistration(r) /\ ~ReadApplication(r)
    <2>1. [req[r] EXCEPT !.pc = "registration", !.refType = RefType(req[r].cmd)].pc # "ok"
      BY <1>0 DEF Request
    <2> QED
      BY <1>1, <1>2, <2>1 DEF Submit, CallFails, StartJob, ReadRegistration, ReadApplication
  <1>4. ~ReadDeployment(r) /\ ~ReadDeployments(r)
    <2>1. ASSUME NEW d PROVE [req[r] EXCEPT !.pc = "start", !.deployment = d].pc # "ok"
      BY <1>0 DEF Request
    <2> QED
      BY <1>1, <1>2, <2>1 DEF ReadDeployment, ReadDeployments, Promote
  <1>5. ~ReadJob(r)
    <2>1. ASSUME NEW job, NEW pc, pc # "ok"
          PROVE  [req[r] EXCEPT !.snap = job, !.pc = pc].pc # "ok"
      BY <1>0, <2>1 DEF Request
    <2> QED
      BY <1>1, <1>2, <2>1 DEF ReadJob
  <1>6. ~CreateJob(r) /\ ~CopyJob(r)
    BY NewJob, NewRerun
  <1>7. CASE UpdateJob(r)
    <2>1. UnchangedSince(jobs[req[r].cmd.job], req[r].snap) /\ req[r].pc = "update"
      BY <1>2, <1>7 DEF UpdateJob
    <2> QED
      BY <1>0, <2>1 DEF RequestInv, EarlierOrCurrent, UnchangedSince, StopRefused
  <1> QED
    BY <1>3, <1>4, <1>5, <1>6, <1>7 DEF RequestStep

(* Of all requests to stop a job only one is answered with success.        *)
THEOREM StopsOnlyOnce == Spec => []StopsOnce
  <1>1. Init => StopsOnce
    BY InitIdle DEF StopsOnce
  <1>2. ASSUME IInv, StopsOnce, [Next]_vars PROVE StopsOnce'
    <2>1. SUFFICES ASSUME NEW r \in Requests, NEW x \in Requests, r # x,
                          req'[r].cmd.verb = "stop", req'[x].cmd.verb = "stop",
                          req'[r].pc = "ok", req'[x].pc = "ok",
                          req'[r].cmd.job = req'[x].cmd.job
                   PROVE  FALSE
      BY DEF StopsOnce
    <2>2. ASSUME NEW a \in Requests, NEW b \in Requests, a # b, req'[a] # req[a],
                 req'[a].pc = "ok", req'[b].pc = "ok", req'[a].cmd.verb = "stop",
                 req'[b].cmd.verb = "stop", req'[a].cmd.job = req'[b].cmd.job
          PROVE  FALSE
      <3>1. (RequestStep(a) \/ CallFails(a)) /\ req'[b] = req[b]
        BY <1>2, <2>2, OneRequestMoves DEF IInv
      <3>2. req'[a].cmd = req[a].cmd
        BY <1>2, <3>1, StepCommands
      <3>3. ~jobs[req[a].cmd.job].stop
        BY <1>2, <2>2, <3>1, <3>2, SuccessIsUpdate
      <3>4. jobs[req[b].cmd.job].stop
        BY <1>2, <2>2, <3>1 DEF IInv, RequestInv
      <3> QED
        BY <2>2, <3>1, <3>2, <3>3, <3>4
    <2> QED
      BY <1>2, <2>1, <2>2 DEF StopsOnce
  <1> QED
    BY <1>1, <1>2, Invariant, PTL DEF Spec
=============================================================================
