----------------------- MODULE ScheduledBatches_proofs -----------------------
(***************************************************************************)
(* For any number of requests, components, deployments and batches: the    *)
(* types, what a stop of many leaves unreported, what a request may do to  *)
(* a batch, and that listings and lookups agree.                           *)
(*                                                                         *)
(* The names of batches and jobs are taken apart at their last dash only,  *)
(* and what becomes of a batch is one of four things: nothing, its         *)
(* deletion, a change of its jobs that none of them resumes work by, or a  *)
(* renewal that every stop under way learns of.                            *)
(***************************************************************************)
EXTENDS ScheduledBatches, FiniteSetTheorems, SequenceTheorems, TLAPS

Answers == {None, "OK", "NoContent", "NotFound", "BadRequest", "Error"}
Pairs == Components \X Types
Recent == {"RestartBatch", "RestartJob", "CopyBatch", "CopyJob"}

Request ==
  [op : Ops \cup {None}, component : Components \cup {None}, name : Seq(STRING),
   pc : {"idle", "deployments", "call", "loop", "done"}, seen : Batch \cup {NoBatch},
   read : Deployments \cup {None}, todo : Seq(Pairs), failed : SUBSET Pairs,
   since : SUBSET BatchNames, answer : Answers]

-----------------------------------------------------------------------------
(* Names                                                                   *)

(* The full name of a job is told apart into its batch and itself, and a   *)
(* name that can be told apart is the full name of what it gives.          *)
LEMMA FullName ==
  ASSUME NEW b \in BatchNames, NEW j \in JobNames
  PROVE  /\ ScheduledJobName(b, j) \in Seq(STRING) /\ Len(ScheduledJobName(b, j)) >= 2
         /\ Front(ScheduledJobName(b, j)) = b /\ Last(ScheduledJobName(b, j)) = j
  <1> DEFINE n == Append(b, j)
  <1> DEFINE m == SubSeq(n, 1, Len(n) - 1)
  <1>1. b \in Seq(STRING) /\ b # <<>> /\ j \in STRING
    BY NamesAreParts
  <1>2. n \in Seq(STRING) /\ Len(n) = Len(b) + 1 /\ n[Len(n)] = j /\ \A i \in 1..Len(b) : n[i] = b[i] /\ n[i] \in STRING
    <2>1. /\ n \in Seq(STRING) /\ Len(n) = Len(b) + 1 /\ n[Len(b) + 1] = j
          /\ \A i \in 1..Len(b) : n[i] = b[i]
      <3>1. ASSUME NEW S, b \in Seq(S), j \in S
            PROVE  /\ n \in Seq(S) /\ Len(n) = Len(b) + 1 /\ n[Len(b) + 1] = j
                   /\ \A i \in 1..Len(b) : n[i] = b[i]
        BY <3>1, AppendProperties
      <3> HIDE DEF n
      <3> QED
        BY <1>1, <3>1
    <2>2. \A i \in 1..Len(b) : b[i] \in STRING
      BY <1>1, ElementOfSeq
    <2> HIDE DEF n
    <2> QED
      BY <2>1, <2>2
  <1>3. Len(b) \in Nat /\ Len(b) # 0
    BY <1>1, EmptySeq
  <1>4. Len(n) >= 2 /\ Len(n) - 1 = Len(b) /\ Len(b) \in Int /\ 1 <= Len(b)
    BY <1>2, <1>3
  <1>5. m = SubSeq(n, 1, Len(b))
    BY <1>4
  <1> HIDE DEF n
  <1>6. m \in Seq(STRING) /\ Len(m) = Len(b) /\ \A i \in 1..Len(b) : m[i] = n[i]
    <2>1. /\ SubSeq(n, 1, Len(b)) \in Seq(STRING)
          /\ Len(SubSeq(n, 1, Len(b))) = IF 1 <= Len(b) THEN Len(b) - 1 + 1 ELSE 0
          /\ \A i \in 1..(Len(b) - 1 + 1) : SubSeq(n, 1, Len(b))[i] = n[1 + i - 1]
      BY <1>2, <1>4, SubSeqProperties
    <2> HIDE DEF m
    <2> QED
      BY <1>3, <1>4, <1>5, <2>1
  <1>7. m = b
    <2> HIDE DEF m
    <2> QED
      BY <1>1, <1>2, <1>6, SeqEqual
  <1> QED
    BY <1>2, <1>4, <1>7 DEF ScheduledJobName, Front, Last, n

(* The other way round.                                                    *)
LEMMA NameOfParts ==
  ASSUME NEW n \in Seq(STRING), Len(n) >= 2
  PROVE  ScheduledJobName(Front(n), Last(n)) = n
  <1> DEFINE l == Len(n) - 1
  <1> DEFINE m == SubSeq(n, 1, l)
  <1> DEFINE a == Append(m, n[Len(n)])
  <1>1. Len(n) \in Nat /\ l \in Int /\ l \in Nat /\ 1 <= l /\ Len(n) = l + 1 /\ Len(n) \in 1..Len(n) /\ l - 1 + 1 = l
    OBVIOUS
  <1> HIDE DEF l
  <1>2. \A i \in 1..Len(n) : n[i] \in STRING
    BY ElementOfSeq
  <1>3. \A i \in 1..l : n[i] \in STRING
    BY <1>1, <1>2
  <1>4. m \in Seq(STRING) /\ Len(m) = l /\ \A i \in 1..l : m[i] = n[i]
    <2>1. /\ m \in Seq(STRING) /\ Len(m) = IF 1 <= l THEN l - 1 + 1 ELSE 0
          /\ \A i \in 1..(l - 1 + 1) : m[i] = n[1 + i - 1]
      BY <1>1, <1>3, SubSeqProperties
    <2> HIDE DEF m
    <2> QED
      BY <1>1, <2>1
  <1> HIDE DEF m
  <1>5. n[Len(n)] \in STRING
    BY <1>1, <1>2
  <1>6. a \in Seq(STRING) /\ Len(a) = Len(m) + 1 /\ (\A i \in 1..Len(m) : a[i] = m[i]) /\ a[Len(m) + 1] = n[Len(n)]
    BY <1>4, <1>5, AppendProperties
  <1> HIDE DEF a
  <1>7. Len(a) = Len(n) /\ \A i \in 1..Len(a) : a[i] = n[i]
    BY <1>1, <1>4, <1>6
  <1>8. a = n
    BY <1>6, <1>7, SeqEqual
  <1> QED
    BY <1>8 DEF ScheduledJobName, Front, Last, a, m, l

-----------------------------------------------------------------------------
(* Batches                                                                 *)

JobSets == UNION {[J -> Job] : J \in (SUBSET JobNames) \ {{}}}

(* What there is of a RadixBatch.                                          *)
LEMMA BatchFacts ==
  /\ Batch = [type : Types, component : Components, deployment : Deployments, jobs : JobSets]
  /\ \A x \in Batch : /\ x.type \in Types /\ x.component \in Components /\ x.deployment \in Deployments
                      /\ DOMAIN x.jobs \subseteq JobNames /\ DOMAIN x.jobs # {} /\ x.jobs \in [DOMAIN x.jobs -> Job]
                      /\ x # NoBatch /\ x # Deleted
  <1>1. Batch = [type : Types, component : Components, deployment : Deployments, jobs : JobSets]
    BY DEF Batch, JobSets
  <1>2. \A js \in JobSets : DOMAIN js \subseteq JobNames /\ DOMAIN js # {} /\ js \in [DOMAIN js -> Job]
    <2> SUFFICES ASSUME NEW js \in JobSets PROVE DOMAIN js \subseteq JobNames /\ DOMAIN js # {} /\ js \in [DOMAIN js -> Job]
      OBVIOUS
    <2>1. PICK J \in (SUBSET JobNames) \ {{}} : js \in [J -> Job]
      BY DEF JobSets
    <2>2. DOMAIN js = J
      BY <2>1
    <2> QED
      BY <2>1, <2>2
  <1>3. ASSUME NEW x \in Batch
        PROVE  /\ x.type \in Types /\ x.component \in Components /\ x.deployment \in Deployments /\ x.jobs \in JobSets
               /\ x # NoBatch /\ x # Deleted
    <2>1. /\ x.type \in Types /\ x.component \in Components /\ x.deployment \in Deployments /\ x.jobs \in JobSets
      BY <1>1
    <2>2. x.type # None /\ x.type # "deleted"
      BY <2>1 DEF Types, None
    <2> QED
      BY <2>1, <2>2 DEF NoBatch, Deleted
  <1> QED
    BY <1>1, <1>2, <1>3

WithJobs(x, js) == [x EXCEPT !.jobs = js]

(* The jobs of a batch change, and nothing else.                           *)
LEMMA JobsChange ==
  ASSUME NEW x \in Batch, NEW js \in [DOMAIN x.jobs -> Job], NEW names,
         \A j \in DOMAIN x.jobs \ names : js[j] = x.jobs[j]
  PROVE  /\ WithJobs(x, js) \in Batch
         /\ WithJobs(x, js).type = x.type /\ WithJobs(x, js).component = x.component
         /\ WithJobs(x, js).jobs = js /\ DOMAIN js = DOMAIN x.jobs
         /\ SameBut(x, WithJobs(x, js), names)
  <1>1. x \in [type : Types, component : Components, deployment : Deployments, jobs : JobSets]
    BY BatchFacts
  <1>2. js \in JobSets
    BY BatchFacts DEF JobSets
  <1>3. [x EXCEPT !.jobs = js] \in [type : Types, component : Components, deployment : Deployments, jobs : JobSets]
    BY <1>1, <1>2
  <1> QED
    BY <1>1, <1>3, BatchFacts DEF WithJobs, SameBut

(* What a step may make of a batch.                                        *)
Kept(old, new) ==
  /\ old \in Batch /\ new \in Batch
  /\ new.type = old.type /\ new.component = old.component /\ DOMAIN new.jobs = DOMAIN old.jobs
Calmed(old, new) ==
  Kept(old, new) /\ \A j \in DOMAIN old.jobs : Resting(old.jobs[j]) => Resting(new.jobs[j])
Made(old, new) == old = NoBatch /\ new \in Batch /\ (new.type = "job" => Cardinality(DOMAIN new.jobs) = 1)
Gone(old, new) == old \in Batch /\ new = Deleted

(* All of a batch are stopped, or one job, or some start anew.             *)
LEMMA StoppedFacts ==
  ASSUME NEW x \in Batch
  PROVE  /\ Calmed(x, StoppedBatch(x)) /\ SameBut(x, StoppedBatch(x), JobNames)
         /\ \A j \in DOMAIN x.jobs : Resting(StoppedBatch(x).jobs[j])
  <1> DEFINE js == [j \in DOMAIN x.jobs |-> IF Resting(x.jobs[j]) THEN x.jobs[j] ELSE [x.jobs[j] EXCEPT !.stop = TRUE]]
  <1>1. x.jobs \in [DOMAIN x.jobs -> Job] /\ DOMAIN x.jobs \subseteq JobNames
    BY BatchFacts
  <1>2. js \in [DOMAIN x.jobs -> Job]
    BY <1>1 DEF Job
  <1>3. \A j \in DOMAIN x.jobs : Resting(js[j])
    BY <1>1 DEF Job, Resting
  <1>4. StoppedBatch(x) = WithJobs(x, js)
    BY DEF WithJobs, StoppedBatch
  <1> HIDE DEF js
  <1>5. /\ WithJobs(x, js) \in Batch
        /\ WithJobs(x, js).type = x.type /\ WithJobs(x, js).component = x.component
        /\ WithJobs(x, js).jobs = js /\ DOMAIN js = DOMAIN x.jobs
        /\ SameBut(x, WithJobs(x, js), JobNames)
    BY <1>1, <1>2, <1>3, JobsChange
  <1> QED
    BY <1>1, <1>3, <1>4, <1>5 DEF Calmed, Kept

(* One job.                                                                *)
LEMMA StoppedJobFacts ==
  ASSUME NEW x \in Batch, NEW j \in STRING
  PROVE  Calmed(x, StoppedJob(x, j)) /\ SameBut(x, StoppedJob(x, j), {j})
  <1> DEFINE js == [x.jobs EXCEPT ![j].stop = TRUE]
  <1>1. x.jobs \in [DOMAIN x.jobs -> Job] /\ DOMAIN x.jobs \subseteq JobNames
    BY BatchFacts
  <1>2. js \in [DOMAIN x.jobs -> Job]
    BY <1>1 DEF Job
  <1>3. /\ \A i \in DOMAIN x.jobs : Resting(x.jobs[i]) => Resting(js[i])
        /\ \A i \in DOMAIN x.jobs \ {j} : js[i] = x.jobs[i]
    BY <1>1 DEF Job, Resting
  <1>4. StoppedJob(x, j) = WithJobs(x, js)
    BY DEF WithJobs, StoppedJob
  <1> HIDE DEF js
  <1>5. /\ WithJobs(x, js) \in Batch
        /\ WithJobs(x, js).type = x.type /\ WithJobs(x, js).component = x.component
        /\ WithJobs(x, js).jobs = js /\ DOMAIN js = DOMAIN x.jobs
        /\ SameBut(x, WithJobs(x, js), {j})
    BY <1>1, <1>2, <1>3, JobsChange
  <1> QED
    BY <1>1, <1>3, <1>4, <1>5 DEF Calmed, Kept

(* Some start anew.                                                        *)
LEMMA RestartedFacts ==
  ASSUME NEW x \in Batch, NEW names
  PROVE  Kept(x, RestartedJobs(x, names)) /\ SameBut(x, RestartedJobs(x, names), names)
  <1> DEFINE js == [j \in DOMAIN x.jobs |-> IF j \in names THEN Fresh ELSE x.jobs[j]]
  <1>1. x.jobs \in [DOMAIN x.jobs -> Job] /\ DOMAIN x.jobs \subseteq JobNames
    BY BatchFacts
  <1>2. js \in [DOMAIN x.jobs -> Job]
    BY <1>1 DEF Job, Fresh
  <1>3. \A i \in DOMAIN x.jobs \ names : js[i] = x.jobs[i]
    OBVIOUS
  <1>4. RestartedJobs(x, names) = WithJobs(x, js)
    BY DEF WithJobs, RestartedJobs
  <1> HIDE DEF js
  <1>5. /\ WithJobs(x, js) \in Batch
        /\ WithJobs(x, js).type = x.type /\ WithJobs(x, js).component = x.component
        /\ WithJobs(x, js).jobs = js /\ DOMAIN js = DOMAIN x.jobs
        /\ SameBut(x, WithJobs(x, js), names)
    BY <1>1, <1>2, <1>3, JobsChange
  <1> QED
    BY <1>1, <1>3, <1>4, <1>5 DEF Calmed, Kept

-----------------------------------------------------------------------------
(* The inductive invariant                                                 *)

BatchesOK ==
  /\ batches \in [BatchNames -> Batch \cup {NoBatch, Deleted}]
  /\ \A b \in Existing : batches[b].type = "job" => Cardinality(DOMAIN batches[b].jobs) = 1

(* What the handler of a request knows before it calls the library: the    *)
(* batch has a name of a batch and, for a job, the job that of a job; what *)
(* is to be deleted was, and therefore is, of the kind asked for.          *)
Asked(q) ==
  /\ q.pc = "loop" => q.op \in LoopOps
  /\ q.pc = "deployments" => q.op \in {"CopyBatch", "CopyJob", "StopAllForEnvironment"}
  /\ q.pc \in {"deployments", "call"} =>
       /\ q.op \in BatchOps => q.name \in BatchNames
       /\ q.op \in JobOps => Len(q.name) >= 2 /\ Front(q.name) \in BatchNames
       /\ q.op \in JobOps \ {"DeleteJob"} => Last(q.name) \in JobNames
       /\ q.op \in Recent => q.seen \in Batch
       /\ q.op = "CopyBatch" => q.seen.type = "batch"
       /\ q.op = "DeleteBatch" => batches[q.name].type \in {"batch", "deleted"}
       /\ q.op = "DeleteJob" => batches[Front(q.name)].type \in {"job", "deleted"}

AtRest(b) == \A j \in DOMAIN batches[b].jobs : Resting(batches[b].jobs[j])
KindOf(b) == <<batches[b].component, batches[b].type>>

(* What a stop of several has still to do, has failed to do, or has done:  *)
(* one of the three holds of every batch it did not learn of meanwhile.    *)
Stopping(q) ==
  q.op \in LoopOps =>
    /\ q.pc \in {"deployments", "loop", "done"}
    /\ \A i \in DOMAIN q.todo : q.todo[i] \in Scope(q)
    /\ q.pc = "deployments" => q.op = "StopAllForEnvironment" /\ q.read = None /\ q.todo = <<>>
    /\ \A b \in Existing \ q.since : KindOf(b) \in Scope(q) =>
          AtRest(b) \/ KindOf(b) \in q.failed \/ \E i \in DOMAIN q.todo : q.todo[i] = KindOf(b)
    /\ q.pc = "done" => q.todo = <<>> /\ (q.answer = "Error" \/ q.failed = {})

Sound(q) == q \in Request /\ Asked(q) /\ Stopping(q)

Inv ==
  /\ BatchesOK
  /\ requests = [r \in Requests |-> requests[r]]
  /\ \A r \in Requests : Sound(requests[r])

-----------------------------------------------------------------------------
(* One step                                                                *)

(* A batch is renewed only when every stop under way learns of it.         *)
BatchStep(b) ==
  \/ batches'[b] = batches[b]
  \/ Gone(batches[b], batches'[b])
  \/ Calmed(batches[b], batches'[b])
  \/ /\ Kept(batches[b], batches'[b]) \/ Made(batches[b], batches'[b])
     /\ \A s \in Requests : requests'[s].op \in LoopOps => b \in requests'[s].since

Learns(q, new) == new = q \/ \E b \in BatchNames : new = [q EXCEPT !.since = @ \cup {b}]

StepOf(r) ==
  /\ batches' = [b \in BatchNames |-> batches'[b]]
  /\ \A b \in BatchNames : BatchStep(b)
  /\ requests' = [s \in Requests |-> requests'[s]]
  /\ \A s \in Requests \ {r} : Learns(requests[s], requests'[s])

(* Of a batch that is or was there, the kind does not change.              *)
LEMMA BatchKinds ==
  ASSUME BatchesOK
  PROVE  /\ \A b \in BatchNames : b \in Existing <=> batches[b] \in Batch
         /\ \A b \in BatchNames : b \notin Existing => batches[b] = NoBatch \/ batches[b] = Deleted
         /\ NoBatch.type = "none" /\ Deleted.type = "deleted" /\ NoBatch # Deleted
         /\ Existing \subseteq BatchNames
         /\ \A x \in Batch : x.type \in {"batch", "job"}
         /\ NoBatch \notin Batch /\ Deleted \notin Batch
  <1>1. NoBatch.type = "none" /\ Deleted.type = "deleted"
    BY DEF NoBatch, Deleted, None
  <1>2. \A x \in Batch : x.type \in {"batch", "job"}
    BY BatchFacts DEF Types
  <1> QED
    BY <1>1, <1>2 DEF BatchesOK, Existing, Types

(* The batches stay what they are meant to be.                             *)
LEMMA BatchesStep ==
  ASSUME BatchesOK, NEW r, StepOf(r)
  PROVE  /\ BatchesOK'
         /\ \A b \in BatchNames : batches[b] # NoBatch => batches'[b].type \in {batches[b].type, "deleted"}
  <1>1. ASSUME NEW b \in BatchNames
        PROVE  /\ batches'[b] \in Batch \cup {NoBatch, Deleted}
               /\ batches'[b] \in Batch /\ batches'[b].type = "job" => Cardinality(DOMAIN batches'[b].jobs) = 1
               /\ batches[b] # NoBatch => batches'[b].type \in {batches[b].type, "deleted"}
    <2>1. /\ batches[b] \in Batch \cup {NoBatch, Deleted}
          /\ batches[b] \in Batch /\ batches[b].type = "job" => Cardinality(DOMAIN batches[b].jobs) = 1
      BY BatchKinds DEF BatchesOK
    <2>2. BatchStep(b)
      BY DEF StepOf
    <2>3. CASE batches'[b] = batches[b]
      BY <2>1, <2>3
    <2>4. CASE Gone(batches[b], batches'[b])
      BY <2>4, BatchKinds DEF Gone
    <2>5. CASE Kept(batches[b], batches'[b])
      BY <2>1, <2>5 DEF Kept
    <2>6. CASE Made(batches[b], batches'[b])
      BY <2>6 DEF Made
    <2> QED
      BY <2>2, <2>3, <2>4, <2>5, <2>6 DEF BatchStep, Calmed
  <1>2. batches' \in [BatchNames -> Batch \cup {NoBatch, Deleted}]
    BY <1>1 DEF StepOf
  <1>3. \A b \in BatchNames : batches'[b].type \in Types => batches'[b] \in Batch
    BY <1>1, BatchKinds DEF Types
  <1> QED
    BY <1>1, <1>2, <1>3 DEF BatchesOK, Existing

(* What a request has learnt keeps what else is known of it.               *)
LEMMA LearnsFacts ==
  ASSUME NEW q \in Request, NEW new, Learns(q, new)
  PROVE  /\ new \in Request /\ q.since \subseteq new.since
         /\ new.op = q.op /\ new.component = q.component /\ new.name = q.name /\ new.pc = q.pc
         /\ new.seen = q.seen /\ new.read = q.read /\ new.todo = q.todo /\ new.failed = q.failed
         /\ new.answer = q.answer
  BY DEF Learns, Request

(* What is known of the names of a request stays true.                     *)
LEMMA AskedStays ==
  ASSUME BatchesOK, NEW r, StepOf(r), NEW s \in Requests, requests[s] \in Request, Asked(requests[s]),
         Learns(requests[s], requests'[s])
  PROVE  Asked(requests[s])'
  <1>1. \A b \in BatchNames : batches[b] # NoBatch => batches'[b].type \in {batches[b].type, "deleted"}
    BY BatchesStep
  <1>2. \A b \in BatchNames : batches[b].type # "none" => batches[b] # NoBatch
    BY BatchKinds
  <1>3. /\ requests'[s].op = requests[s].op /\ requests'[s].name = requests[s].name
        /\ requests'[s].pc = requests[s].pc /\ requests'[s].seen = requests[s].seen
    BY LearnsFacts
  <1>4. ASSUME NEW b \in BatchNames, NEW t \in {"batch", "job"}, batches[b].type \in {t, "deleted"}
        PROVE  batches'[b].type \in {t, "deleted"}
    BY <1>1, <1>2, <1>4
  <1> QED
    BY <1>3, <1>4 DEF Asked, BatchOps, JobOps

(* And so does what a stop has done.                                       *)
LEMMA StoppingStays ==
  ASSUME BatchesOK, NEW r, StepOf(r), NEW s \in Requests, requests[s] \in Request, Stopping(requests[s]),
         Learns(requests[s], requests'[s])
  PROVE  Stopping(requests[s])'
  <1> SUFFICES ASSUME requests[s].op \in LoopOps PROVE Stopping(requests[s])'
    BY LearnsFacts DEF Stopping
  <1>1. /\ requests[s].since \subseteq requests'[s].since
        /\ requests'[s].op = requests[s].op /\ requests'[s].component = requests[s].component
        /\ requests'[s].pc = requests[s].pc /\ requests'[s].read = requests[s].read
        /\ requests'[s].todo = requests[s].todo /\ requests'[s].failed = requests[s].failed
        /\ requests'[s].answer = requests[s].answer
    BY LearnsFacts
  <1>2. Scope(requests[s])' = Scope(requests[s])
    BY <1>1 DEF Scope
  <1>3. ASSUME NEW b \in Existing' \ requests'[s].since, KindOf(b)' \in Scope(requests[s])
        PROVE  \/ AtRest(b)' \/ KindOf(b)' \in requests[s].failed
               \/ \E i \in DOMAIN requests[s].todo : requests[s].todo[i] = KindOf(b)'
    <2>1. b \in BatchNames /\ BatchStep(b) /\ batches'[b].type \in Types
      BY DEF Existing, StepOf
    <2>2. ~Gone(batches[b], batches'[b])
      BY <2>1, BatchKinds DEF Gone, Types
    <2>3. batches'[b] = batches[b] \/ Calmed(batches[b], batches'[b])
      BY <1>1, <1>3, <2>1, <2>2 DEF BatchStep
    <2>4. KindOf(b)' = KindOf(b) /\ b \in Existing /\ (AtRest(b) => AtRest(b)')
      BY <2>1, <2>3, BatchKinds DEF KindOf, AtRest, Calmed, Kept, Existing
    <2> QED
      BY <1>1, <1>3, <2>4 DEF Stopping
  <1> QED
    BY <1>1, <1>2, <1>3 DEF Stopping

(* A step whose own request stays sound keeps the invariant.               *)
LEMMA StepKeepsInv ==
  ASSUME Inv, NEW r, StepOf(r), r \in Requests => Sound(requests[r])'
  PROVE  Inv'
  <1>1. BatchesOK'
    BY BatchesStep DEF Inv
  <1>2. ASSUME NEW s \in Requests, s # r PROVE Sound(requests[s])'
    <2>1. Sound(requests[s]) /\ BatchesOK /\ Learns(requests[s], requests'[s])
      BY <1>2 DEF Inv, StepOf
    <2>2. requests'[s] \in Request
      BY <2>1, LearnsFacts DEF Sound
    <2>3. Asked(requests[s])' /\ Stopping(requests[s])'
      BY <2>1, AskedStays, StoppingStays DEF Sound
    <2> QED
      BY <2>2, <2>3 DEF Sound
  <1>3. requests' = [s \in Requests |-> requests'[s]]
    BY DEF StepOf
  <1> QED
    BY <1>1, <1>2, <1>3 DEF Inv

(* What a step of one request does: it reaches no other batch than those   *)
(* it may.                                                                 *)
Changes(r, b) == batches'[b] # batches[b] => Permitted(requests[r], b, batches[b], batches'[b])
StepBy(r) == StepOf(r) /\ Sound(requests[r])' /\ \A b \in BatchNames : Changes(r, b)

(* An answered request that was no stop of several is forgotten.           *)
LEMMA AnsweredFacts ==
  ASSUME NEW q, q.op \notin LoopOps, NEW a \in Answers
  PROVE  /\ Answered(q, a) \in Request /\ Answered(q, a).op = None /\ Answered(q, a).pc = "done"
         /\ None \notin LoopOps
  <1>1. Idle \in Request
    BY EmptySeq DEF Idle, NewRequest, Request, Answers
  <1>2. Answered(q, a) = [Idle EXCEPT !.pc = "done", !.answer = a]
    BY DEF Answered
  <1>3. Idle.op = None
    BY DEF Idle, NewRequest
  <1>4. None \notin LoopOps
    BY DEF None, LoopOps
  <1> QED
    BY <1>1, <1>2, <1>3, <1>4 DEF Request

(* A forgotten request is sound, whatever the batches are.                 *)
LEMMA ForgottenIsSound ==
  ASSUME NEW s \in Requests, requests'[s] \in Request, requests'[s].op = None, requests'[s].pc = "done"
  PROVE  Sound(requests[s])'
  BY DEF Sound, Asked, Stopping, LoopOps, None

(* Only the request changes.                                               *)
LEMMA QuietStep ==
  ASSUME Inv, NEW r \in Requests, NEW q, Sound(q), requests' = [requests EXCEPT ![r] = q], UNCHANGED batches
  PROVE  StepBy(r)
  <1>1. /\ requests' = [s \in Requests |-> requests'[s]] /\ requests'[r] = q
        /\ \A s \in Requests \ {r} : requests'[s] = requests[s]
    BY DEF Inv
  <1>2. batches' = [b \in BatchNames |-> batches'[b]]
    BY DEF Inv, BatchesOK
  <1>3. Sound(requests[r])'
    <2>1. /\ Existing' = Existing /\ Scope(requests[r])' = Scope(q)
          /\ \A b : AtRest(b)' = AtRest(b) /\ KindOf(b)' = KindOf(b)
      BY <1>1 DEF AtRest, KindOf, Existing, Scope
    <2>2. Asked(requests[r])'
      BY <1>1 DEF Sound, Asked
    <2>3. Stopping(requests[r])'
      BY <1>1, <2>1 DEF Sound, Stopping
    <2> QED
      BY <1>1, <2>2, <2>3 DEF Sound
  <1> QED
    BY <1>1, <1>2, <1>3 DEF StepBy, StepOf, BatchStep, Learns, Changes

(* A request that is no stop of several changes one batch, and is answered *)
LEMMA OneBatchStep ==
  ASSUME Inv, NEW r \in Requests, requests[r].op \notin LoopOps, NEW b \in BatchNames, NEW new, NEW a \in Answers,
         batches' = [batches EXCEPT ![b] = new],
         \/ requests' = Note([requests EXCEPT ![r] = Answered(requests[r], a)], r, b)
         \/ requests' = [requests EXCEPT ![r] = Answered(requests[r], a)],
         \/ batches[b] = new \/ Gone(batches[b], new) \/ Calmed(batches[b], new)
         \/ /\ Kept(batches[b], new) \/ Made(batches[b], new)
            /\ requests' = Note([requests EXCEPT ![r] = Answered(requests[r], a)], r, b),
         batches[b] # new => Permitted(requests[r], b, batches[b], new)
  PROVE  StepBy(r)
  <1> DEFINE q == Answered(requests[r], a)
             rs == [requests EXCEPT ![r] = q]
  <1>1. /\ q \in Request /\ q.op = None /\ q.pc = "done" /\ None \notin LoopOps
    BY AnsweredFacts
  <1> HIDE DEF q
  <1>2. /\ rs = [s \in Requests |-> rs[s]] /\ rs[r] = q
        /\ \A s \in Requests \ {r} : rs[s] = requests[s]
    BY DEF Inv
  <1>3. /\ batches' = [c \in BatchNames |-> batches'[c]] /\ batches'[b] = new
        /\ \A c \in BatchNames \ {b} : batches'[c] = batches[c]
    BY DEF Inv, BatchesOK
  <1>4. /\ requests' = [s \in Requests |-> requests'[s]] /\ requests'[r] = q
        /\ \A s \in Requests \ {r} : Learns(requests[s], requests'[s])
        /\ requests' = Note(rs, r, b) => \A s \in Requests : requests'[s].op \in LoopOps => b \in requests'[s].since
    <2>1. CASE requests' = rs /\ requests' # Note(rs, r, b)
      BY <1>2, <2>1 DEF Learns
    <2>2. CASE requests' = Note(rs, r, b)
      <3>1. requests' = [s \in Requests |-> IF s = r \/ rs[s].op \notin LoopOps THEN rs[s]
                                            ELSE [rs[s] EXCEPT !.since = @ \cup {b}]]
        BY <2>2 DEF Note
      <3> HIDE DEF rs
      <3>2. requests' = [s \in Requests |-> requests'[s]] /\ requests'[r] = q
        BY <1>2, <3>1
      <3>3. ASSUME NEW s \in Requests, s # r
            PROVE  Learns(requests[s], requests'[s]) /\ (requests'[s].op \in LoopOps => b \in requests'[s].since)
        <4>1. requests[s] \in Request /\ rs[s] = requests[s]
          BY <1>2, <3>3 DEF Inv, Sound
        <4>2. CASE requests[s].op \notin LoopOps
          BY <3>1, <3>3, <4>1, <4>2 DEF Learns
        <4>3. CASE requests[s].op \in LoopOps
          <5>1. requests'[s] = [requests[s] EXCEPT !.since = @ \cup {b}]
            BY <3>1, <3>3, <4>1, <4>3
          <5>2. b \in requests'[s].since
            BY <4>1, <5>1 DEF Request
          <5> QED
            BY <5>1, <5>2 DEF Learns
        <4> QED
          BY <4>2, <4>3
      <3> QED
        BY <1>1, <3>2, <3>3
    <2> QED
      BY <2>1, <2>2 DEF q
  <1>5. Sound(requests[r])'
    BY <1>1, <1>4, ForgottenIsSound
  <1>6. BatchStep(b)
    BY <1>3, <1>4 DEF BatchStep, q
  <1>7. \A c \in BatchNames : BatchStep(c) /\ Changes(r, c)
    BY <1>3, <1>6 DEF BatchStep, Changes
  <1> QED
    BY <1>3, <1>4, <1>5, <1>7 DEF StepBy, StepOf

-----------------------------------------------------------------------------
(* Submitting a request                                                    *)

(* The types of a new request.                                             *)
LEMMA NewRequestFacts ==
  ASSUME NEW op \in Ops, NEW c \in Components \cup {None}, NEW n \in Seq(STRING),
         NEW pc \in {"idle", "deployments", "call", "loop", "done"}
  PROVE  NewRequest(op, c, n, pc) \in Request
  BY EmptySeq DEF NewRequest, Request, Answers

(* What a lookup finds is of the kind asked for, and has the name given.   *)
LEMMA LookupSound ==
  ASSUME BatchesOK, NEW op \in BatchOps \cup JobOps, NEW c \in Components, NEW n \in Seq(STRING),
         op \in BatchOps => n \in BatchNames
  PROVE  Sound(Lookup(NewRequest(op, c, n, "call")))
  <1> DEFINE q == NewRequest(op, c, n, "call")
             found == GetRadixBatch(c, TargetBatch(q), RequiredType(op))
             missing == found = NoBatch \/ (op \in JobOps \ {"DeleteJob"} /\ ~GetBatchJob(c, n).ok)
             pc == IF op \in {"CopyBatch", "CopyJob"} THEN "deployments" ELSE "call"
             seen == IF op \in Recent THEN found ELSE NoBatch
             new == [q EXCEPT !.seen = seen, !.pc = pc]
  <1>1. op \in Ops /\ op \notin LoopOps /\ q.op = op /\ q.component = c /\ q.name = n /\ q.seen = NoBatch
    BY DEF Ops, BatchOps, JobOps, LoopOps, NewRequest
  <1>5. q \in Request
    BY <1>1, NewRequestFacts
  <1> HIDE DEF q
  <1>2. Lookup(q) = IF missing THEN Answered(q, "NotFound") ELSE new
    <2>1. Lookup(q) = IF missing THEN Answered(q, "NotFound")
                      ELSE [q EXCEPT !.seen = IF op \in Recent THEN found ELSE q.seen, !.pc = pc]
      BY <1>1 DEF Lookup, Recent
    <2> QED
      BY <1>1, <2>1
  <1>3. ASSUME missing PROVE Sound(Lookup(q))
    <2>1. /\ Answered(q, "NotFound") \in Request /\ Answered(q, "NotFound").op = None
          /\ Answered(q, "NotFound").pc = "done" /\ None \notin LoopOps
      BY <1>1, AnsweredFacts DEF Answers
    <2> HIDE DEF missing
    <2> QED
      BY <1>2, <1>3, <2>1 DEF Sound, Asked, Stopping
  <1>4. ASSUME ~missing PROVE Sound(Lookup(q))
    <2>1. /\ TargetBatch(q) \in Existing /\ found = batches[TargetBatch(q)] /\ found \in Batch
          /\ RequiredType(op) # "" => found.type = RequiredType(op)
      <3> DEFINE b == TargetBatch(q)
      <3>1. found # NoBatch
        BY <1>4
      <3>2. /\ b \in Existing /\ found = batches[b]
            /\ RequiredType(op) # "" => batches[b].type = RequiredType(op)
        <4> HIDE DEF b
        <4> QED
          BY <3>1 DEF GetRadixBatch, b
      <3> QED
        BY <3>2, BatchKinds
    <2>2. TargetBatch(q) \in BatchNames
      BY <2>1 DEF Existing
    <2>3. op \in JobOps => TargetBatch(q) = Front(n) /\ Len(n) >= 2
      <3>1. op \in JobOps => TargetBatch(q) = Front(n)
        BY <1>1 DEF TargetBatch, ParseScheduledJobName
      <3>2. Front(n) \in BatchNames => Front(n) # <<>>
        BY NamesAreParts
      <3>3. ~(Len(n) >= 2) => Len(n) - 1 \in Int /\ Len(n) - 1 < 1
        OBVIOUS
      <3>4. ~(Len(n) >= 2) => Front(n) = <<>>
        BY <3>3, SubSeqEmpty DEF Front
      <3> QED
        BY <2>2, <3>1, <3>2, <3>4
    <2>4. op \in BatchOps => TargetBatch(q) = n
      BY <1>1 DEF TargetBatch, BatchOps, JobOps
    <2>5. op \in JobOps \ {"DeleteJob"} => Last(n) \in JobNames
      <3> SUFFICES ASSUME op \in JobOps \ {"DeleteJob"} PROVE Last(n) \in JobNames
        OBVIOUS
      <3> DEFINE batch == GetRadixBatch(c, Front(n), "")
      <3>1. GetBatchJob(c, n).ok
        BY <1>4
      <3>2. batch # NoBatch /\ Last(n) \in DOMAIN batch.jobs
        BY <3>1 DEF GetBatchJob, ParseScheduledJobName
      <3>3. batch \in Batch
        BY <3>2, BatchKinds DEF GetRadixBatch
      <3> HIDE DEF batch
      <3> QED
        BY <3>2, <3>3, BatchFacts
    <2>6. new \in Request /\ new.op = op /\ new.name = n /\ new.pc = pc /\ new.seen = seen
      <3>1. pc \in {"deployments", "call"} /\ seen \in Batch \cup {NoBatch}
        BY <2>1
      <3> HIDE DEF pc, seen, found
      <3> QED
        BY <1>1, <1>5, <3>1 DEF Request
    <2>7. /\ op = "CopyBatch" => seen = found /\ found.type = "batch"
          /\ op = "DeleteBatch" => found.type = "batch"
          /\ op = "DeleteJob" => found.type = "job"
          /\ op \in Recent => seen \in Batch
          /\ pc = "deployments" <=> op \in {"CopyBatch", "CopyJob"}
          /\ pc # "loop"
      BY <2>1 DEF RequiredType, Recent
    <2> HIDE DEF new, pc, seen, found, missing, q
    <2>8. Asked(new)
      BY <1>1, <2>1, <2>2, <2>3, <2>4, <2>5, <2>6, <2>7 DEF Asked, BatchOps, JobOps
    <2>9. Stopping(new)
      BY <1>1, <2>6 DEF Stopping
    <2> QED
      BY <1>2, <1>4, <2>6, <2>8, <2>9 DEF Sound
  <1> QED
    BY <1>3, <1>4 DEF q

(* A request begins, and nothing else happens.                             *)
LEMMA StartStep ==
  ASSUME Inv, NEW r \in Requests, NEW q, Sound(q), Start(r, q)
  PROVE  StepBy(r)
  BY QuietStep DEF Start

(* The full names are names.                                               *)
LEMMA NamesFacts == BatchNames \subseteq Seq(STRING) /\ FullNames \cup BatchNames \subseteq Seq(STRING)
  <1>1. BatchNames \subseteq Seq(STRING)
    BY NamesAreParts
  <1>2. ASSUME NEW n \in FullNames PROVE n \in Seq(STRING)
    <2>1. PICK b \in BatchNames, j \in JobNames : n = ScheduledJobName(b, j)
      BY DEF FullNames
    <2> QED
      BY <2>1, FullName
  <1> QED
    BY <1>1, <1>2

(* The calls of a stop of all of a component are what it was asked for.    *)
LEMMA ForTypesSound ==
  ASSUME BatchesOK, NEW c \in Components, NEW op \in LoopOps, NEW types \in Seq(Types),
         \A p : p \in Scope(NewRequest(op, c, <<>>, "loop")) <=> \E i \in DOMAIN types : p = <<c, types[i]>>
  PROVE  Sound([NewRequest(op, c, <<>>, "loop") EXCEPT !.todo = [i \in DOMAIN types |-> <<c, types[i]>>]])
  <1> DEFINE todo == [i \in DOMAIN types |-> <<c, types[i]>>]
             q == NewRequest(op, c, <<>>, "loop")
             new == [q EXCEPT !.todo = todo]
  <1>1. op \in Ops /\ op \notin BatchOps \cup JobOps
    BY DEF Ops, BatchOps, JobOps, LoopOps
  <1>2. todo \in Seq(Pairs) /\ DOMAIN todo = DOMAIN types /\ \A i \in DOMAIN types : todo[i] = <<c, types[i]>>
    <2>1. types \in [1..Len(types) -> Types] /\ Len(types) \in Nat /\ DOMAIN types = 1..Len(types)
      BY LenProperties
    <2>2. todo \in [1..Len(types) -> Pairs]
      BY <2>1 DEF Pairs
    <2> QED
      BY <2>1, <2>2
  <1> HIDE DEF todo
  <1>3. q \in Request
    BY <1>1, NewRequestFacts, EmptySeq
  <1>4. q.op = op /\ q.component = c /\ q.read = None /\ q.pc = "loop" /\ q.name = <<>>
    BY DEF NewRequest
  <1> HIDE DEF q
  <1>5. /\ new \in Request /\ new.op = op /\ new.component = c /\ new.read = None /\ new.pc = "loop" /\ new.todo = todo
    BY <1>2, <1>3, <1>4 DEF Request
  <1> HIDE DEF new
  <1>6. Scope(new) = Scope(q)
    BY <1>4, <1>5 DEF Scope
  <1>7. Asked(new)
    BY <1>5 DEF Asked
  <1>8. Stopping(new)
    <2>1. \A p \in Scope(new) : \E i \in DOMAIN new.todo : new.todo[i] = p
      BY <1>2, <1>5, <1>6 DEF q
    <2>2. \A i \in DOMAIN new.todo : new.todo[i] \in Scope(new)
      BY <1>2, <1>5, <1>6 DEF q
    <2> QED
      BY <1>5, <2>1, <2>2 DEF Stopping
  <1> QED
    BY <1>5, <1>7, <1>8 DEF Sound, new, q, todo

(* Of each of the three.                                                   *)
LEMMA ForTypesStep ==
  ASSUME Inv, NEW r \in Requests, StopAllJobs(r) \/ StopAllBatches(r) \/ StopAllForComponent(r)
  PROVE  StepBy(r)
  <1>1. ASSUME NEW op \in LoopOps, NEW types \in Seq(Types), ForTypes(r, op, types),
               \A c \in Components : \A p :
                  p \in Scope(NewRequest(op, c, <<>>, "loop")) <=> \E i \in DOMAIN types : p = <<c, types[i]>>
        PROVE  StepBy(r)
    <2>1. PICK c \in Components :
            Start(r, [NewRequest(op, c, <<>>, "loop") EXCEPT !.todo = [i \in DOMAIN types |-> <<c, types[i]>>]])
      BY <1>1 DEF ForTypes
    <2>2. Sound([NewRequest(op, c, <<>>, "loop") EXCEPT !.todo = [i \in DOMAIN types |-> <<c, types[i]>>]])
      BY <1>1, ForTypesSound DEF Inv
    <2> QED
      BY <2>1, <2>2, StartStep
  <1>2. /\ <<"job">> \in Seq(Types) /\ <<"batch">> \in Seq(Types) /\ <<"batch", "job">> \in Seq(Types)
        /\ DOMAIN <<"job">> = {1} /\ DOMAIN <<"batch">> = {1} /\ DOMAIN <<"batch", "job">> = {1, 2}
    BY DEF Types
  <1>3. CASE StopAllJobs(r)
    <2>1. \A c \in Components : Scope(NewRequest("StopAllJobs", c, <<>>, "loop")) = {<<c, "job">>}
      BY DEF Scope, NewRequest
    <2>2. ForTypes(r, "StopAllJobs", <<"job">>) /\ "StopAllJobs" \in LoopOps
      BY <1>3 DEF StopAllJobs, LoopOps
    <2>4. \A c \in Components : \A p :
            p \in Scope(NewRequest("StopAllJobs", c, <<>>, "loop")) <=> \E i \in DOMAIN <<"job">> : p = <<c, <<"job">>[i]>>
      BY <1>2, <2>1
    <2> QED
      BY <1>1, <1>2, <2>2, <2>4
  <1>4. CASE StopAllBatches(r)
    <2>1. \A c \in Components : Scope(NewRequest("StopAllBatches", c, <<>>, "loop")) = {<<c, "batch">>}
      BY DEF Scope, NewRequest
    <2>2. ForTypes(r, "StopAllBatches", <<"batch">>) /\ "StopAllBatches" \in LoopOps
      BY <1>4 DEF StopAllBatches, LoopOps
    <2>4. \A c \in Components : \A p :
            p \in Scope(NewRequest("StopAllBatches", c, <<>>, "loop")) <=> \E i \in DOMAIN <<"batch">> : p = <<c, <<"batch">>[i]>>
      BY <1>2, <2>1
    <2> QED
      BY <1>1, <1>2, <2>2, <2>4
  <1>5. CASE StopAllForComponent(r)
    <2>1. \A c \in Components : Scope(NewRequest("StopAllForComponent", c, <<>>, "loop")) = {<<c, "batch">>, <<c, "job">>}
      BY DEF Scope, NewRequest, Types
    <2>2. ForTypes(r, "StopAllForComponent", <<"batch", "job">>) /\ "StopAllForComponent" \in LoopOps
      BY <1>5 DEF StopAllForComponent, LoopOps
    <2>3. <<"batch", "job">>[1] = "batch" /\ <<"batch", "job">>[2] = "job"
      OBVIOUS
    <2>4. \A c \in Components : \A p :
            p \in Scope(NewRequest("StopAllForComponent", c, <<>>, "loop")) <=> \E i \in DOMAIN <<"batch", "job">> : p = <<c, <<"batch", "job">>[i]>>
      BY <1>2, <2>1, <2>3
    <2> QED
      BY <1>1, <1>2, <2>2, <2>4
  <1> QED
    BY <1>3, <1>4, <1>5

(* Submitting any request.                                                 *)
LEMMA SubmitStep ==
  ASSUME Inv, NEW r \in Requests, Submit(r)
  PROVE  StepBy(r)
  <1>1. BatchesOK
    BY DEF Inv
  <1>2. CASE StopBatch(r)
    <2>1. PICK c \in Components, b \in BatchNames : Start(r, NewRequest("StopBatch", c, b, "call"))
      BY <1>2 DEF StopBatch
    <2> DEFINE q == NewRequest("StopBatch", c, b, "call")
    <2>2. q \in Request
      BY NewRequestFacts, NamesFacts DEF Ops, BatchOps
    <2>3. q.op = "StopBatch" /\ q.pc = "call" /\ q.name = b
      BY DEF NewRequest
    <2> HIDE DEF q
    <2>4. Sound(q)
      BY <2>2, <2>3 DEF Sound, Asked, Stopping, LoopOps, JobOps, Recent
    <2> QED
      BY <2>1, <2>4, StartStep DEF q
  <1>3. ASSUME NEW op \in BatchOps, ForBatch(r, op) PROVE StepBy(r)
    <2>1. PICK c \in Components, b \in BatchNames : Start(r, Lookup(NewRequest(op, c, b, "call")))
      BY <1>3 DEF ForBatch
    <2>2. Sound(Lookup(NewRequest(op, c, b, "call")))
      BY <1>1, LookupSound, NamesFacts
    <2> QED
      BY <2>1, <2>2, StartStep
  <1>4. ASSUME NEW op \in JobOps, ForJob(r, op) PROVE StepBy(r)
    <2>1. PICK c \in Components, n \in FullNames \cup BatchNames : Start(r, Lookup(NewRequest(op, c, n, "call")))
      BY <1>4 DEF ForJob
    <2>2. op \notin BatchOps /\ n \in Seq(STRING)
      BY NamesFacts DEF BatchOps, JobOps
    <2>3. Sound(Lookup(NewRequest(op, c, n, "call")))
      BY <1>1, <2>2, LookupSound
    <2> QED
      BY <2>1, <2>3, StartStep
  <1>5. CASE StopAllForEnvironment(r)
    <2> DEFINE q == NewRequest("StopAllForEnvironment", None, <<>>, "deployments")
    <2>1. q \in Request
      BY NewRequestFacts, EmptySeq DEF Ops, LoopOps
    <2>2. q.op = "StopAllForEnvironment" /\ q.pc = "deployments" /\ q.read = None /\ q.todo = <<>>
      BY DEF NewRequest
    <2> HIDE DEF q
    <2>3. Scope(q) = {}
      BY <2>2 DEF Scope
    <2>4. Sound(q)
      BY <2>1, <2>2, <2>3 DEF Sound, Asked, Stopping, LoopOps, JobOps, BatchOps, Recent
    <2>5. Start(r, q)
      BY <1>5 DEF StopAllForEnvironment, q
    <2> QED
      BY <2>4, <2>5, StartStep
  <1>6. CASE RestartBatch(r) \/ CopyBatch(r) \/ DeleteBatch(r)
    BY <1>3, <1>6 DEF RestartBatch, CopyBatch, DeleteBatch, BatchOps
  <1>7. CASE StopJob(r) \/ RestartJob(r) \/ CopyJob(r) \/ DeleteJob(r)
    BY <1>4, <1>7 DEF StopJob, RestartJob, CopyJob, DeleteJob, JobOps
  <1>8. CASE StopAllJobs(r) \/ StopAllBatches(r) \/ StopAllForComponent(r)
    BY <1>8, ForTypesStep
  <1> QED
    BY <1>2, <1>5, <1>6, <1>7, <1>8 DEF Submit

-----------------------------------------------------------------------------
(* The calls of the library                                                *)

(* A request that is answered without a change.                            *)
LEMMA AnsweredStep ==
  ASSUME Inv, NEW r \in Requests, requests[r].op \notin LoopOps, NEW a \in Answers,
         requests' = [requests EXCEPT ![r] = Answered(requests[r], a)], UNCHANGED batches
  PROVE  StepBy(r)
  <1> DEFINE q == Answered(requests[r], a)
  <1>1. q \in Request /\ q.op = None /\ q.pc = "done" /\ None \notin LoopOps
    BY AnsweredFacts
  <1>2. requests' = [requests EXCEPT ![r] = q]
    OBVIOUS
  <1> HIDE DEF q
  <1>3. Sound(q)
    BY <1>1 DEF Sound, Asked, Stopping
  <1> QED
    BY <1>2, <1>3, QuietStep

(* A call is made for a request on one batch.                              *)
LEMMA CallFacts ==
  ASSUME Inv, NEW r \in Requests, requests[r].pc = "call", NEW op, requests[r].op = op, op \in Ops
  PROVE  /\ op \notin LoopOps /\ requests[r] \in Request
         /\ op \in JobOps => /\ TargetBatch(requests[r]) = Front(requests[r].name)
                             /\ Front(requests[r].name) \in BatchNames /\ Len(requests[r].name) >= 2
         /\ op \in BatchOps => TargetBatch(requests[r]) = requests[r].name /\ requests[r].name \in BatchNames
         /\ op \in JobOps \ {"DeleteJob"} => Last(requests[r].name) \in JobNames
         /\ op \in Recent => requests[r].seen \in Batch
         /\ op = "CopyBatch" => requests[r].seen.type = "batch"
         /\ op = "DeleteBatch" => batches[requests[r].name].type \in {"batch", "deleted"}
         /\ op = "DeleteJob" => batches[Front(requests[r].name)].type \in {"job", "deleted"}
  <1>1. Sound(requests[r])
    BY DEF Inv
  <1>2. op \notin LoopOps /\ ~(op \in BatchOps /\ op \in JobOps)
    BY <1>1 DEF Sound, Stopping, BatchOps, JobOps
  <1>3. /\ op \in JobOps => TargetBatch(requests[r]) = Front(requests[r].name)
        /\ op \in BatchOps => TargetBatch(requests[r]) = requests[r].name
    BY <1>2 DEF TargetBatch, ParseScheduledJobName
  <1> QED
    BY <1>1, <1>2, <1>3 DEF Sound, Asked

(* A change within the batch of a request is one it may make.              *)
LEMMA PermittedOf ==
  ASSUME NEW q \in Request, NEW old, NEW new
  PROVE  /\ q.op \in {"StopBatch", "RestartBatch"} /\ SameBut(old, new, JobNames) => Permitted(q, q.name, old, new)
         /\ /\ q.op \in {"StopJob", "RestartJob"} /\ Len(q.name) >= 2 /\ SameBut(old, new, {Last(q.name)})
            => Permitted(q, Front(q.name), old, new)
         /\ q.op = "DeleteBatch" /\ old.type = "batch" /\ new = Deleted => Permitted(q, q.name, old, new)
         /\ /\ q.op = "DeleteJob" /\ Len(q.name) >= 2 /\ old.type = "job" /\ new = Deleted
            => Permitted(q, Front(q.name), old, new)
         /\ \A b : q.op \in {"CopyBatch", "CopyJob"} /\ old = NoBatch => Permitted(q, b, old, new)
         /\ \A b : /\ q.op \in LoopOps /\ <<old.component, old.type>> \in Scope(q) /\ SameBut(old, new, JobNames)
                   => Permitted(q, b, old, new)
  <1>1. q.name \in Seq(STRING)
    BY DEF Request
  <1>2. Len(q.name) >= 2 => Last(q.name) \in {j \in JobNames \cup {Last(q.name)} : ScheduledJobName(Front(q.name), j) = q.name}
    BY <1>1, NameOfParts
  <1>3. q.op \in LoopOps => q.op \notin {"StopBatch", "RestartBatch", "StopJob", "RestartJob", "DeleteBatch", "DeleteJob",
                                          "CopyBatch", "CopyJob"}
    BY DEF LoopOps
  <1>4. CASE q.op \in {"StopBatch", "RestartBatch"}
    BY <1>3, <1>4 DEF Permitted
  <1>5. CASE q.op \in {"StopJob", "RestartJob"}
    BY <1>2, <1>3, <1>5 DEF Permitted, SameBut
  <1>6. CASE q.op = "DeleteBatch"
    BY <1>3, <1>6 DEF Permitted
  <1>7. CASE q.op = "DeleteJob"
    BY <1>2, <1>3, <1>7 DEF Permitted
  <1>8. CASE q.op \in {"CopyBatch", "CopyJob"}
    BY <1>3, <1>8 DEF Permitted
  <1>9. CASE q.op \in LoopOps
    BY <1>3, <1>9 DEF Permitted
  <1> QED
    BY <1>4, <1>5, <1>6, <1>7, <1>8, <1>9

(* A batch, or one of its jobs, is stopped.                                *)
LEMMA CallStopStep ==
  ASSUME Inv, NEW r \in Requests, CallStop(r)
  PROVE  StepBy(r)
  <1> DEFINE q == requests[r]
             b == TargetBatch(q)
             job == ParseScheduledJobName(q.name).job
             known == IF q.op = "StopJob" THEN b \in Existing ELSE GetRadixBatch(q.component, b, "") # NoBatch
  <1>1. /\ q.pc = "call" /\ q.op \in {"StopJob", "StopBatch"}
        /\ \/ \E a \in {"NotFound", "BadRequest"} : requests' = [requests EXCEPT ![r] = Answered(q, a)] /\ UNCHANGED batches
           \/ /\ known
              /\ batches' = [batches EXCEPT ![b] =
                    IF q.op = "StopJob" THEN StoppedJob(batches[b], job) ELSE StoppedBatch(batches[b])]
              /\ requests' = [requests EXCEPT ![r] = Answered(q, "NoContent")]
    BY DEF CallStop
  <1>2. q.op \in Ops /\ (q.op \in JobOps <=> q.op = "StopJob") /\ (q.op \in BatchOps <=> q.op = "StopBatch")
    BY <1>1 DEF Ops, BatchOps, JobOps
  <1>3. /\ q.op \notin LoopOps /\ q \in Request
        /\ q.op = "StopJob" => b = Front(q.name) /\ b \in BatchNames /\ Len(q.name) >= 2 /\ Last(q.name) \in JobNames
        /\ q.op = "StopBatch" => b = q.name /\ b \in BatchNames
    BY <1>1, <1>2, CallFacts
  <1>4. job = Last(q.name)
    BY DEF ParseScheduledJobName
  <1>5. CASE \E a \in {"NotFound", "BadRequest"} : requests' = [requests EXCEPT ![r] = Answered(q, a)] /\ UNCHANGED batches
    BY <1>3, <1>5, AnsweredStep DEF Answers
  <1>6. ASSUME known,
               batches' = [batches EXCEPT ![b] =
                    IF q.op = "StopJob" THEN StoppedJob(batches[b], job) ELSE StoppedBatch(batches[b])],
               requests' = [requests EXCEPT ![r] = Answered(q, "NoContent")]
        PROVE  StepBy(r)
    <2>1. b \in BatchNames /\ BatchesOK
      BY <1>1, <1>3 DEF Inv
    <2>2. batches[b] \in Batch
      <3>1. b \in Existing
        BY <1>6 DEF GetRadixBatch
      <3> QED
        BY <2>1, <3>1, BatchKinds
    <2> DEFINE new == IF q.op = "StopJob" THEN StoppedJob(batches[b], job) ELSE StoppedBatch(batches[b])
    <2>3. Calmed(batches[b], new) /\ Permitted(q, b, batches[b], new)
      <3>1. CASE q.op = "StopJob"
        <4>1. job \in STRING
          BY <1>3, <1>4, <3>1, NamesAreParts
        <4>2. Calmed(batches[b], new) /\ SameBut(batches[b], new, {job})
          BY <2>2, <3>1, <4>1, StoppedJobFacts
        <4> HIDE DEF new, b, job
        <4> QED
          BY <1>3, <1>4, <3>1, <4>2, PermittedOf
      <3>2. CASE q.op = "StopBatch"
        <4>1. Calmed(batches[b], new) /\ SameBut(batches[b], new, JobNames)
          BY <2>2, <3>2, StoppedFacts
        <4> HIDE DEF new, b, job
        <4> QED
          BY <1>3, <3>2, <4>1, PermittedOf
      <3> QED
        BY <1>1, <3>1, <3>2
    <2>4. batches' = [batches EXCEPT ![b] = new]
      BY <1>6
    <2> HIDE DEF new, b, job
    <2> QED
      BY <1>3, <1>6, <2>1, <2>3, <2>4, OneBatchStep DEF Answers
  <1> QED
    BY <1>1, <1>5, <1>6

(* Jobs of a batch start anew, if it is the one that was read.             *)
LEMMA CallRestartStep ==
  ASSUME Inv, NEW r \in Requests, CallRestart(r)
  PROVE  StepBy(r)
  <1> DEFINE q == requests[r]
             b == TargetBatch(q)
             new == RestartedJobs(q.seen, ChosenJobs(q))
  <1>1. /\ q.pc = "call" /\ q.op \in {"RestartBatch", "RestartJob"}
        /\ \/ /\ batches[b] = q.seen /\ batches' = [batches EXCEPT ![b] = new]
              /\ requests' = Note([requests EXCEPT ![r] = Answered(q, "NoContent")], r, b)
           \/ requests' = [requests EXCEPT ![r] = Answered(q, "Error")] /\ UNCHANGED batches
    BY DEF CallRestart
  <1>2. /\ q.op \in Ops /\ (q.op \in JobOps <=> q.op = "RestartJob") /\ (q.op \in BatchOps <=> q.op = "RestartBatch")
        /\ q.op \in Recent
    BY <1>1 DEF Ops, BatchOps, JobOps, Recent
  <1>3. /\ q.op \notin LoopOps /\ q \in Request /\ q.seen \in Batch /\ b \in BatchNames
        /\ q.op = "RestartJob" => b = Front(q.name) /\ Len(q.name) >= 2
        /\ q.op = "RestartBatch" => b = q.name
    BY <1>1, <1>2, CallFacts
  <1>4. CASE requests' = [requests EXCEPT ![r] = Answered(q, "Error")] /\ UNCHANGED batches
    BY <1>3, <1>4, AnsweredStep DEF Answers
  <1>5. ASSUME batches[b] = q.seen, batches' = [batches EXCEPT ![b] = new],
               requests' = Note([requests EXCEPT ![r] = Answered(q, "NoContent")], r, b)
        PROVE  StepBy(r)
    <2>1. Kept(batches[b], new) /\ SameBut(batches[b], new, ChosenJobs(q))
      BY <1>3, <1>5, RestartedFacts
    <2>2. /\ q.op = "RestartJob" => ChosenJobs(q) = {Last(q.name)}
          /\ q.op = "RestartBatch" => ChosenJobs(q) \subseteq JobNames
      BY <1>2, <1>3, BatchFacts DEF ChosenJobs, ParseScheduledJobName
    <2> HIDE DEF new, b
    <2>3. Permitted(q, b, batches[b], new)
      BY <1>1, <1>3, <2>1, <2>2, PermittedOf DEF SameBut
    <2> QED
      BY <1>3, <1>5, <2>1, <2>3, OneBatchStep DEF Answers
  <1> QED
    BY <1>1, <1>4, <1>5

(* A copy is a batch that was not there, of the jobs that were chosen.     *)
LEMMA CallCopyStep ==
  ASSUME Inv, NEW r \in Requests, CallCopy(r)
  PROVE  StepBy(r)
  <1> DEFINE q == requests[r]
  <1>1. PICK b \in Unused, d \in Deployments :
           /\ q.pc = "call" /\ q.op \in {"CopyBatch", "CopyJob"}
           /\ batches' = [batches EXCEPT ![b] = CopiedBatch(q.seen, ChosenJobs(q), q.op = "CopyJob", d)]
           /\ requests' = Note([requests EXCEPT ![r] = Answered(q, "OK")], r, b)
    BY DEF CallCopy
  <1>2. /\ q.op \in Ops /\ (q.op \in JobOps <=> q.op = "CopyJob") /\ (q.op \in BatchOps <=> q.op = "CopyBatch")
        /\ q.op \in Recent
    BY <1>1 DEF Ops, BatchOps, JobOps, Recent
  <1>3. /\ q.op \notin LoopOps /\ q \in Request /\ q.seen \in Batch
        /\ q.op = "CopyJob" => Last(q.name) \in JobNames
        /\ q.op = "CopyBatch" => q.seen.type = "batch"
    BY <1>1, <1>2, CallFacts
  <1> DEFINE new == CopiedBatch(q.seen, ChosenJobs(q), q.op = "CopyJob", d)
  <1>4. b \in BatchNames /\ batches[b] = NoBatch
    BY DEF Unused
  <1>5. /\ ChosenJobs(q) \subseteq JobNames /\ ChosenJobs(q) # {}
        /\ q.op = "CopyJob" => ChosenJobs(q) = {Last(q.name)}
    BY <1>2, <1>3, BatchFacts DEF ChosenJobs, ParseScheduledJobName
  <1>6. Made(NoBatch, new)
    <2> DEFINE js == [j \in ChosenJobs(q) |-> Fresh]
               t == IF q.op = "CopyJob" THEN "job" ELSE q.seen.type
    <2>1. new = [type |-> t, component |-> q.seen.component, deployment |-> d, jobs |-> js]
      BY DEF CopiedBatch
    <2>2. js \in JobSets
      BY <1>5 DEF JobSets, Job, Fresh
    <2>3. t \in Types /\ q.seen.component \in Components
      BY <1>3, BatchFacts DEF Types
    <2>4. t = "job" => Cardinality(DOMAIN js) = 1
      <3> SUFFICES ASSUME t = "job" PROVE Cardinality(DOMAIN js) = 1
        OBVIOUS
      <3>1. DOMAIN js = {Last(q.name)}
        BY <1>1, <1>3, <1>5
      <3> QED
        BY <3>1, FS_Singleton
    <2> HIDE DEF js, t, new
    <2>5. new \in Batch /\ new.type = t /\ new.jobs = js
      BY <2>1, <2>2, <2>3, BatchFacts
    <2> QED
      BY <2>4, <2>5 DEF Made
  <1> HIDE DEF new
  <1>7. Permitted(q, b, NoBatch, new)
    BY <1>1, <1>3, PermittedOf
  <1> QED
    BY <1>1, <1>3, <1>4, <1>6, <1>7, OneBatchStep DEF Answers, new

(* A batch is deleted.                                                     *)
LEMMA CallDeleteStep ==
  ASSUME Inv, NEW r \in Requests, CallDelete(r)
  PROVE  StepBy(r)
  <1> DEFINE q == requests[r]
             b == TargetBatch(q)
             new == IF b \in Existing THEN Deleted ELSE batches[b]
             a == IF b \in Existing THEN "NoContent" ELSE "NotFound"
  <1>1. /\ q.pc = "call" /\ q.op \in {"DeleteBatch", "DeleteJob"}
        /\ batches' = [batches EXCEPT ![b] = new]
        /\ requests' = [requests EXCEPT ![r] = Answered(q, a)]
    BY DEF CallDelete
  <1>2. q.op \in Ops /\ (q.op \in JobOps <=> q.op = "DeleteJob") /\ (q.op \in BatchOps <=> q.op = "DeleteBatch")
    BY <1>1 DEF Ops, BatchOps, JobOps
  <1>3. /\ q.op \notin LoopOps /\ q \in Request /\ b \in BatchNames
        /\ q.op = "DeleteJob" => b = Front(q.name) /\ Len(q.name) >= 2 /\ batches[b].type \in {"job", "deleted"}
        /\ q.op = "DeleteBatch" => b = q.name /\ batches[b].type \in {"batch", "deleted"}
    BY <1>1, <1>2, CallFacts
  <1>4. a \in Answers
    BY DEF Answers
  <1>5. CASE b \in Existing
    <2>1. batches[b] \in Batch /\ batches[b].type # "deleted" /\ new = Deleted
      BY <1>3, <1>5, BatchKinds DEF Inv
    <2> HIDE DEF b, new, a
    <2>2. Permitted(q, b, batches[b], new)
      BY <1>1, <1>3, <2>1, PermittedOf
    <2> QED
      BY <1>1, <1>3, <1>4, <2>1, <2>2, OneBatchStep DEF Gone
  <1>6. CASE b \notin Existing
    <2>1. batches[b] = new
      BY <1>6
    <2> HIDE DEF b, new, a
    <2> QED
      BY <1>1, <1>3, <1>4, <2>1, OneBatchStep
  <1> QED
    BY <1>5, <1>6

(* Any call of the library.                                                *)
LEMMA CallStep ==
  ASSUME Inv, NEW r \in Requests, Call(r)
  PROVE  StepBy(r)
  <1>1. CASE CallFails(r)
    <2>1. /\ requests[r].pc = "call" /\ UNCHANGED batches
          /\ requests' = [requests EXCEPT ![r] = Answered(requests[r], "Error")]
      BY <1>1 DEF CallFails
    <2>2. requests[r].op \notin LoopOps
      BY <2>1 DEF Inv, Sound, Stopping
    <2> QED
      BY <2>1, <2>2, AnsweredStep DEF Answers
  <1> QED
    BY <1>1, CallStopStep, CallRestartStep, CallCopyStep, CallDeleteStep DEF Call

-----------------------------------------------------------------------------
(* The loops over several components                                       *)

(* The components of a deployment come one after the other, each of them.  *)
LEMMA SetToSeqFacts ==
  ASSUME NEW S, IsFiniteSet(S)
  PROVE  /\ Cardinality(S) \in Nat
         /\ \A i \in 1..Cardinality(S) : SetToSeq(S)[i] \in S
         /\ \A c \in S : \E i \in 1..Cardinality(S) : SetToSeq(S)[i] = c
  <1> DEFINE n == Cardinality(S)
             f == SetToSeq(S)
  <1>1. n \in Nat /\ ExistsBijection(1..n, S)
    BY FS_CardinalityType
  <1>2. \E g \in [1..n -> S] : IsInjective(g)
    BY <1>1 DEF ExistsBijection, Bijection, Injection, IsInjective
  <1>3. f \in [1..n -> S] /\ IsInjective(f)
    BY <1>2 DEF SetToSeq
  <1>4. f \in Injection(1..n, S)
    BY <1>3 DEF Injection, IsInjective
  <1>5. Cardinality(1..n) = n
    BY <1>1, FS_Interval
  <1>6. f \in Surjection(1..n, S)
    BY <1>4, <1>5, FS_Injection
  <1> QED
    BY <1>1, <1>3, <1>6 DEF Surjection

Covers(c, s) == \A i \in DOMAIN s : \E k \in DOMAIN c : c[k] = s[i]

(* Two rounds of the same length, one after the other.                     *)
LEMMA TwoRounds ==
  ASSUME NEW T, NEW s \in Seq(T), NEW t \in Seq(T), NEW c, c = s \o t, Len(t) = Len(s)
  PROVE  /\ c \in Seq(T)
         /\ \A i \in DOMAIN c : c[i] \in T
         /\ Covers(c, s) /\ Covers(c, t)
  <1> DEFINE n == Len(s)
  <1>1. n \in Nat /\ c \in Seq(T) /\ Len(c) = n + n
    <2>1. s \o t \in Seq(T) /\ Len(s \o t) = Len(s) + Len(t)
      BY ConcatProperties
    <2> QED
      BY <2>1, LenProperties
  <1>2. \A i \in 1..(n + n) : c[i] = IF i <= n THEN s[i] ELSE t[i - n]
    <2>1. \A i \in 1..(Len(s) + Len(t)) : (s \o t)[i] = IF i <= Len(s) THEN s[i] ELSE t[i - Len(s)]
      BY ConcatProperties
    <2> QED
      BY <2>1
  <1>3. DOMAIN c = 1..(n + n) /\ \A i \in DOMAIN c : c[i] \in T
    BY <1>1, LenProperties, ElementOfSeq
  <1> HIDE DEF n
  <1>4. ASSUME NEW i \in 1..n PROVE i \in DOMAIN c /\ i + n \in DOMAIN c /\ c[i] = s[i] /\ c[i + n] = t[i]
    <2>1. i \in 1..(n + n) /\ i + n \in 1..(n + n) /\ i <= n /\ ~(i + n <= n) /\ (i + n) - n = i
      BY <1>1
    <2> QED
      BY <1>2, <1>3, <2>1
  <1> QED
    BY <1>1, <1>3, <1>4, LenProperties DEF n, Covers

CallsOf(active, type) ==
  [i \in 1..Cardinality(JobComponents[active]) |-> <<SetToSeq(JobComponents[active])[i], type>>]

AllCallsOf(active) == CallsOf(active, "batch") \o CallsOf(active, "job")

(* Stopping the environment: the calls are what it is asked to stop.       *)
LEMMA EnvironmentCalls ==
  ASSUME NEW active \in Deployments
  PROVE  /\ AllCallsOf(active) \in Seq(Pairs)
         /\ \A i \in DOMAIN AllCallsOf(active) : AllCallsOf(active)[i] \in JobComponents[active] \X Types
         /\ \A p \in JobComponents[active] \X Types : \E i \in DOMAIN AllCallsOf(active) : AllCallsOf(active)[i] = p
  <1> DEFINE S == JobComponents[active]
             n == Cardinality(S)
             calls == AllCallsOf(active)
             ofBatches == CallsOf(active, "batch")
             ofJobs == CallsOf(active, "job")
  <1>1. IsFiniteSet(S) /\ S \subseteq Components
    BY DeploymentsAssumption
  <1>2. /\ n \in Nat
        /\ \A i \in 1..n : SetToSeq(S)[i] \in S
        /\ \A c \in S : \E i \in 1..n : SetToSeq(S)[i] = c
    BY <1>1, SetToSeqFacts
  <1>3. ASSUME NEW type \in Types
        PROVE  /\ CallsOf(active, type) \in Seq(S \X Types) /\ Len(CallsOf(active, type)) = n
               /\ \A i \in 1..n : CallsOf(active, type)[i] = <<SetToSeq(S)[i], type>>
    <2>1. CallsOf(active, type) \in [1..n -> S \X Types]
      BY <1>2 DEF CallsOf
    <2>2. \A i \in 1..n : CallsOf(active, type)[i] = <<SetToSeq(S)[i], type>>
      BY DEF CallsOf
    <2> HIDE DEF n, S
    <2> QED
      BY <1>2, <2>1, <2>2
  <1>4. "batch" \in Types /\ "job" \in Types /\ \A t \in Types : t = "batch" \/ t = "job"
    BY DEF Types
  <1> HIDE DEF n, S
  <1>10. /\ ofBatches \in Seq(S \X Types) /\ Len(ofBatches) = n /\ \A i \in 1..n : ofBatches[i] = <<SetToSeq(S)[i], "batch">>
        /\ ofJobs \in Seq(S \X Types) /\ Len(ofJobs) = n /\ \A i \in 1..n : ofJobs[i] = <<SetToSeq(S)[i], "job">>
    BY <1>3, <1>4
  <1>11. calls = ofBatches \o ofJobs
    BY DEF AllCallsOf
  <1> HIDE DEF ofBatches, ofJobs, calls
  <1>5. /\ calls \in Seq(S \X Types)
        /\ \A i \in DOMAIN calls : calls[i] \in S \X Types
        /\ Covers(calls, ofBatches) /\ Covers(calls, ofJobs)
    <2> DEFINE T == S \X Types
    <2>1. ofBatches \in Seq(T) /\ ofJobs \in Seq(T) /\ Len(ofJobs) = Len(ofBatches) /\ Len(ofBatches) = n
      BY <1>10
    <2> HIDE DEF T
    <2>2. /\ calls \in Seq(T)
          /\ \A i \in DOMAIN calls : calls[i] \in T
          /\ Covers(calls, ofBatches) /\ Covers(calls, ofJobs)
      BY <1>11, <2>1, TwoRounds
    <2> QED
      BY <2>1, <2>2 DEF T
  <1>6. calls \in Seq(Pairs)
    <2>1. S \X Types \subseteq Pairs
      BY <1>1 DEF Pairs
    <2> QED
      BY <1>5, <2>1, SeqMonotonic
  <1>7. ASSUME NEW c \in S, NEW t \in Types PROVE \E i \in DOMAIN calls : calls[i] = <<c, t>>
    <2>1. PICK k \in 1..n : SetToSeq(S)[k] = c
      BY <1>2
    <2>2. k \in DOMAIN ofBatches /\ k \in DOMAIN ofJobs
      BY <1>10, LenProperties
    <2>3. (\E i \in DOMAIN calls : calls[i] = ofBatches[k]) /\ (\E i \in DOMAIN calls : calls[i] = ofJobs[k])
      BY <1>5, <2>2 DEF Covers
    <2> QED
      BY <1>10, <1>4, <2>1, <2>3
  <1>8. \A p \in S \X Types : \E c \in S, t \in Types : p = <<c, t>>
    OBVIOUS
  <1>9. \A p \in S \X Types : \E i \in DOMAIN calls : calls[i] = p
    BY <1>7, <1>8
  <1> QED
    BY <1>5, <1>6, <1>9 DEF S, calls

(* The deployments are read: what is to be stopped is known, or the answer *)
(* is an error.                                                            *)
LEMMA ReadDeploymentsStep ==
  ASSUME Inv, NEW r \in Requests, ReadDeployments(r)
  PROVE  StepBy(r)
  <1> DEFINE q == requests[r]
  <1>1. q.pc = "deployments" /\ UNCHANGED batches
    BY DEF ReadDeployments
  <1>2. /\ q \in Request /\ q.op \in {"CopyBatch", "CopyJob", "StopAllForEnvironment"} /\ Sound(q)
        /\ requests = [s \in Requests |-> requests[s]]
    BY <1>1 DEF Inv, Sound, Asked
  <1>3. CASE requests' = [requests EXCEPT ![r] = Answered(q, "Error")]
    <2>1. CASE q.op \in LoopOps
      <3>1. q.read = None /\ q.todo = <<>> /\ q.op = "StopAllForEnvironment"
        BY <1>1, <1>2, <2>1 DEF Sound, Stopping
      <3> DEFINE new == Answered(q, "Error")
      <3>2. new = [q EXCEPT !.pc = "done", !.answer = "Error"]
        BY <2>1 DEF Answered
      <3> HIDE DEF new
      <3>3. /\ new \in Request /\ new.pc = "done" /\ new.answer = "Error" /\ new.op = q.op
            /\ new.read = None /\ new.todo = <<>>
        BY <1>2, <3>1, <3>2 DEF Request, Answers
      <3>4. Scope(new) = {}
        BY <3>1, <3>3 DEF Scope
      <3>5. Sound(new)
        BY <3>3, <3>4 DEF Sound, Asked, Stopping
      <3> QED
        BY <1>1, <1>3, <3>5, QuietStep DEF new
    <2> QED
      BY <1>1, <1>3, <2>1, AnsweredStep DEF Answers
  <1>4. ASSUME q.op = "StopAllForEnvironment", NEW active \in Deployments,
               requests' = [requests EXCEPT ![r] = [q EXCEPT !.read = active, !.pc = "loop", !.todo = AllCallsOf(active)]]
        PROVE  StepBy(r)
    <2> DEFINE calls == AllCallsOf(active)
    <2>1. /\ calls \in Seq(Pairs)
          /\ \A i \in DOMAIN calls : calls[i] \in JobComponents[active] \X Types
          /\ \A p \in JobComponents[active] \X Types : \E i \in DOMAIN calls : calls[i] = p
      BY EnvironmentCalls
    <2> HIDE DEF calls
    <2> DEFINE new == [q EXCEPT !.read = active, !.pc = "loop", !.todo = calls]
    <2>2. /\ new \in Request /\ new.op = "StopAllForEnvironment" /\ new.pc = "loop" /\ new.read = active
          /\ new.todo = calls
      BY <1>2, <1>4, <2>1 DEF Request
    <2>3. requests' = [requests EXCEPT ![r] = new]
      BY <1>4 DEF calls
    <2> HIDE DEF new
    <2>4. Scope(new) = JobComponents[active] \X Types
      BY <2>2, DeploymentsAssumption DEF Scope
    <2>5. Asked(new)
      BY <2>2 DEF Asked, LoopOps
    <2>6. Stopping(new)
      BY <2>1, <2>2, <2>4 DEF Stopping
    <2>7. Sound(new)
      BY <2>2, <2>5, <2>6 DEF Sound
    <2> QED
      BY <1>1, <2>3, <2>7, QuietStep
  <1>5. CASE q.op # "StopAllForEnvironment" /\ requests' = [requests EXCEPT ![r].pc = "call"]
    <2> DEFINE new == [q EXCEPT !.pc = "call"]
    <2>1. /\ new \in Request /\ new.pc = "call" /\ new.op = q.op /\ new.name = q.name /\ new.seen = q.seen
      BY <1>2 DEF Request
    <2>2. requests' = [requests EXCEPT ![r] = new]
      BY <1>5
    <2> HIDE DEF new
    <2>3. new.op \notin LoopOps
      BY <1>2, <1>5, <2>1 DEF LoopOps
    <2>4. Asked(new)
      BY <1>1, <1>2, <2>1 DEF Sound, Asked
    <2>5. Sound(new)
      BY <2>1, <2>3, <2>4 DEF Sound, Stopping
    <2> QED
      BY <1>1, <2>2, <2>5, QuietStep
  <1> QED
    <2>1. \/ requests' = [requests EXCEPT ![r] = Answered(q, "Error")]
          \/ /\ q.op = "StopAllForEnvironment"
             /\ \E active \in Deployments : requests' = [requests EXCEPT ![r] =
                   [q EXCEPT !.read = active, !.pc = "loop", !.todo = AllCallsOf(active)]]
          \/ q.op # "StopAllForEnvironment" /\ requests' = [requests EXCEPT ![r].pc = "call"]
      BY DEF ReadDeployments, CallsOf, AllCallsOf
    <2>2. ASSUME q.op = "StopAllForEnvironment", NEW active \in Deployments, requests' = [requests EXCEPT ![r] =
                   [q EXCEPT !.read = active, !.pc = "loop", !.todo = AllCallsOf(active)]]
          PROVE  StepBy(r)
      BY <1>4, <2>2
    <2> QED
      BY <1>3, <1>5, <2>1, <2>2

(* One call of a loop: all it listed are stopped, or the error is kept.    *)
LEMMA StopNextStep ==
  ASSUME Inv, NEW r \in Requests, StopNext(r)
  PROVE  StepBy(r)
  <1> DEFINE q == requests[r]
             call == Head(q.todo)
             listed == GetRadixBatches(call[1], call[2])
  <1>1. q \in Request /\ Sound(q) /\ BatchesOK /\ requests = [s \in Requests |-> requests[s]]
    BY DEF Inv, Sound
  <1>2. q.pc = "loop" /\ q.todo # <<>> /\ q.op \in LoopOps
    BY <1>1 DEF StopNext, Sound, Asked
  <1>3. /\ q.todo \in Seq(Pairs) /\ call \in Pairs /\ Tail(q.todo) \in Seq(Pairs)
        /\ \A i \in DOMAIN q.todo : q.todo[i] = call \/ \E k \in DOMAIN Tail(q.todo) : Tail(q.todo)[k] = q.todo[i]
        /\ \A k \in DOMAIN Tail(q.todo) : \E i \in DOMAIN q.todo : Tail(q.todo)[k] = q.todo[i]
        /\ \E i \in DOMAIN q.todo : q.todo[i] = call
    <2>1. q.todo \in Seq(Pairs)
      BY <1>1 DEF Request
    <2> DEFINE t == q.todo
    <2> HIDE DEF q, t
    <2>2. /\ Head(t) \in Pairs /\ Tail(t) \in Seq(Pairs) /\ Len(Tail(t)) = Len(t) - 1
          /\ \A i \in 1..Len(Tail(t)) : Tail(t)[i] = t[i + 1]
      BY <1>2, <2>1, HeadTailProperties DEF t
    <2>3. Len(t) \in Nat /\ Len(t) # 0 /\ DOMAIN t = 1..Len(t) /\ DOMAIN Tail(t) = 1..Len(Tail(t)) /\ Head(t) = t[1]
      BY <1>2, <2>1, <2>2, LenProperties, EmptySeq DEF t
    <2>4. ASSUME NEW i \in 1..Len(t), i # 1
          PROVE  i - 1 \in 1..Len(Tail(t)) /\ Tail(t)[i - 1] = t[i]
      <3>1. i - 1 \in 1..Len(Tail(t)) /\ (i - 1) + 1 = i
        BY <2>2, <2>3, <2>4
      <3> QED
        BY <2>2, <3>1
    <2>5. ASSUME NEW k \in 1..Len(Tail(t)) PROVE k + 1 \in 1..Len(t)
      BY <2>2, <2>3
    <2> QED
      <3>1. \A i \in DOMAIN t : t[i] = Head(t) \/ \E k \in DOMAIN Tail(t) : Tail(t)[k] = t[i]
        BY <2>3, <2>4
      <3>2. \A k \in DOMAIN Tail(t) : \E i \in DOMAIN t : Tail(t)[k] = t[i]
        BY <2>2, <2>3, <2>5
      <3>3. \E i \in DOMAIN t : t[i] = Head(t)
        <4>1. 1 \in DOMAIN t
          BY <2>3
        <4> QED
          BY <2>3, <4>1
      <3> QED
        BY <2>1, <2>2, <3>1, <3>2, <3>3 DEF t
  <1> HIDE DEF call
  <1>4. PICK S \in SUBSET listed, failed \in {q.failed, q.failed \cup {call}} :
           /\ call \in failed \/ S = listed
           /\ batches' = [b \in BatchNames |-> IF b \in S THEN StoppedBatch(batches[b]) ELSE batches[b]]
           /\ requests' = [requests EXCEPT ![r] = [q EXCEPT !.todo = Tail(q.todo), !.failed = failed]]
    <2>1. \/ /\ batches' = [b \in BatchNames |-> IF b \in listed THEN StoppedBatch(batches[b]) ELSE batches[b]]
             /\ requests' = [requests EXCEPT ![r].todo = Tail(@)]
          \/ /\ \E S \in SUBSET listed :
                   batches' = [b \in BatchNames |-> IF b \in S THEN StoppedBatch(batches[b]) ELSE batches[b]]
             /\ requests' = [requests EXCEPT ![r].todo = Tail(@), ![r].failed = @ \cup {call}]
      BY DEF StopNext, call
    <2>2. CASE /\ batches' = [b \in BatchNames |-> IF b \in listed THEN StoppedBatch(batches[b]) ELSE batches[b]]
               /\ requests' = [requests EXCEPT ![r].todo = Tail(@)]
      <3>1. [q EXCEPT !.todo = Tail(q.todo), !.failed = q.failed] = [q EXCEPT !.todo = Tail(q.todo)]
        BY <1>1 DEF Request
      <3> QED
        BY <1>1, <2>2, <3>1
    <2>3. CASE /\ \E S \in SUBSET listed :
                   batches' = [b \in BatchNames |-> IF b \in S THEN StoppedBatch(batches[b]) ELSE batches[b]]
               /\ requests' = [requests EXCEPT ![r].todo = Tail(@), ![r].failed = @ \cup {call}]
      <3>1. requests' = [requests EXCEPT ![r] = [q EXCEPT !.todo = Tail(q.todo), !.failed = q.failed \cup {call}]]
        BY <1>1, <2>3 DEF Request
      <3> QED
        BY <2>3, <3>1
    <2> QED
      BY <2>1, <2>2, <2>3
  <1> DEFINE new == [q EXCEPT !.todo = Tail(q.todo), !.failed = failed]
  <1>5. /\ new \in Request /\ new.pc = "loop" /\ new.op = q.op /\ new.read = q.read /\ new.component = q.component
        /\ new.todo = Tail(q.todo) /\ new.failed = failed /\ new.since = q.since
    <2>1. failed \in SUBSET Pairs
      BY <1>1, <1>3 DEF Request
    <2> QED
      BY <1>1, <1>2, <1>3, <2>1 DEF Request
  <1>6. requests'[r] = new /\ requests' = [s \in Requests |-> requests'[s]] /\ \A s \in Requests \ {r} : requests'[s] = requests[s]
    BY <1>1, <1>4
  <1> HIDE DEF new
  <1>7. ASSUME NEW b \in listed
        PROVE  b \in Existing /\ b \in BatchNames /\ batches[b] \in Batch /\ KindOf(b) = call
    <2>1. b \in Existing /\ batches[b].component = call[1] /\ batches[b].type = call[2]
      BY DEF GetRadixBatches
    <2> QED
      BY <1>1, <1>3, <2>1, BatchKinds DEF KindOf, Pairs
  <1>8. ASSUME NEW b \in BatchNames
        PROVE  /\ batches'[b] = batches[b] /\ b \notin S
               \/ /\ b \in S /\ Calmed(batches[b], batches'[b]) /\ SameBut(batches[b], batches'[b], JobNames)
                  /\ AtRest(b)' /\ batches'[b] \in Batch
    <2>1. CASE b \in S
      <3>1. batches'[b] = StoppedBatch(batches[b]) /\ batches[b] \in Batch
        BY <1>4, <1>7, <2>1
      <3>2. /\ Calmed(batches[b], batches'[b]) /\ SameBut(batches[b], batches'[b], JobNames)
            /\ \A j \in DOMAIN batches[b].jobs : Resting(batches'[b].jobs[j])
        BY <3>1, StoppedFacts
      <3> QED
        BY <2>1, <3>2 DEF Calmed, Kept, AtRest
    <2>2. CASE b \notin S
      BY <1>4, <2>2
    <2> QED
      BY <2>1, <2>2
  <1>9. StepOf(r)
    BY <1>4, <1>6, <1>8 DEF StepOf, BatchStep, Learns
  <1>10. Scope(requests[r])' = Scope(q)
    BY <1>5, <1>6 DEF Scope
  <1>11. \A b \in BatchNames : Changes(r, b)
    <2> SUFFICES ASSUME NEW b \in BatchNames, batches'[b] # batches[b]
                 PROVE  Permitted(q, b, batches[b], batches'[b])
      BY DEF Changes
    <2>1. b \in listed /\ SameBut(batches[b], batches'[b], JobNames)
      BY <1>8
    <2>2. <<batches[b].component, batches[b].type>> \in Scope(q)
      BY <1>1, <1>2, <1>3, <1>7, <2>1 DEF Sound, Stopping, KindOf
    <2> HIDE DEF q
    <2> QED
      BY <1>1, <1>2, <2>1, <2>2, PermittedOf
  <1>12. Asked(requests[r])'
    BY <1>2, <1>5, <1>6 DEF Asked
  <1>13. Stopping(requests[r])'
    <2>1. ASSUME NEW b \in Existing' \ q.since, KindOf(b)' \in Scope(q)
          PROVE  AtRest(b)' \/ KindOf(b)' \in failed \/ \E i \in DOMAIN Tail(q.todo) : Tail(q.todo)[i] = KindOf(b)'
      <3>1. b \in BatchNames
        BY DEF Existing
      <3>2. CASE b \in S
        BY <1>8, <3>1, <3>2
      <3>3. CASE b \notin S
        <4>1. batches'[b] = batches[b]
          BY <1>8, <3>1, <3>3
        <4>2. b \in Existing /\ KindOf(b)' = KindOf(b) /\ (AtRest(b) => AtRest(b)')
          BY <3>1, <4>1 DEF Existing, KindOf, AtRest
        <4>3. AtRest(b) \/ KindOf(b) \in q.failed \/ \E i \in DOMAIN q.todo : q.todo[i] = KindOf(b)
          BY <1>1, <1>2, <2>1, <4>2 DEF Sound, Stopping
        <4>4. CASE KindOf(b) = call
          <5>1. call[1] = batches[b].component /\ call[2] = batches[b].type
            BY <4>4 DEF KindOf
          <5>2. b \in listed
            BY <4>2, <5>1 DEF GetRadixBatches
          <5> QED
            BY <1>4, <3>3, <4>2, <4>4, <5>2
        <4>5. CASE KindOf(b) # call
          BY <1>3, <1>4, <4>2, <4>3, <4>5
        <4> QED
          BY <4>4, <4>5
      <3> QED
        BY <3>2, <3>3
    <2>2. \A i \in DOMAIN Tail(q.todo) : Tail(q.todo)[i] \in Scope(q)
      BY <1>1, <1>2, <1>3 DEF Sound, Stopping
    <2> HIDE DEF q
    <2> QED
      BY <1>5, <1>6, <1>10, <2>1, <2>2 DEF Stopping
  <1> QED
    BY <1>5, <1>6, <1>9, <1>11, <1>12, <1>13 DEF StepBy, Sound

(* The loop is over: an error if a call failed.                            *)
LEMMA StopEndsStep ==
  ASSUME Inv, NEW r \in Requests, StopEnds(r)
  PROVE  StepBy(r)
  <1> DEFINE q == requests[r]
             a == IF q.failed = {} THEN "NoContent" ELSE "Error"
             new == Answered(q, a)
  <1>1. q \in Request /\ Sound(q)
    BY DEF Inv, Sound
  <1>2. q.pc = "loop" /\ q.todo = <<>> /\ q.op \in LoopOps /\ UNCHANGED batches
    BY <1>1 DEF StopEnds, Sound, Asked
  <1>3. requests' = [requests EXCEPT ![r] = new]
    BY DEF StopEnds
  <1>4. new = [q EXCEPT !.pc = "done", !.answer = a]
    BY <1>2 DEF Answered
  <1>5. a \in Answers /\ (a = "Error" \/ q.failed = {})
    BY DEF Answers
  <1> HIDE DEF new, a
  <1>6. /\ new \in Request /\ new.pc = "done" /\ new.op = q.op /\ new.read = q.read /\ new.component = q.component
        /\ new.todo = <<>> /\ new.failed = q.failed /\ new.since = q.since /\ new.answer = a
    BY <1>1, <1>2, <1>4, <1>5 DEF Request
  <1>7. Scope(new) = Scope(q)
    BY <1>6 DEF Scope
  <1>8. Sound(new)
    BY <1>1, <1>2, <1>5, <1>6, <1>7 DEF Sound, Asked, Stopping
  <1> QED
    BY <1>2, <1>3, <1>8, QuietStep

-----------------------------------------------------------------------------
(* Every step                                                              *)

(* Every step of a request.                                                *)
LEMMA RequestStep ==
  ASSUME Inv, NEW r \in Requests, Submit(r) \/ Step(r)
  PROVE  StepBy(r)
  BY SubmitStep, CallStep, ReadDeploymentsStep, StopNextStep, StopEndsStep DEF Step

(* The scheduler creates a batch, of which every stop under way learns.    *)
LEMMA ScheduleBatchStep ==
  ASSUME Inv, ScheduleBatch
  PROVE  StepOf(None)
  <1>12. PICK active \in Deployments :
          \E b \in Unused, t \in Types, c \in JobComponents[active], j \in JobNames :
             /\ batches' = [batches EXCEPT ![b] =
                   [type |-> t, component |-> c, deployment |-> active, jobs |-> [n \in {j} |-> Fresh]]]
             /\ requests' = Note(requests, None, b)
    BY DEF ScheduleBatch
  <1>1. PICK b \in Unused, t \in Types, c \in JobComponents[active], j \in JobNames :
          /\ batches' = [batches EXCEPT ![b] =
                [type |-> t, component |-> c, deployment |-> active, jobs |-> [n \in {j} |-> Fresh]]]
          /\ requests' = Note(requests, None, b)
    BY <1>12
  <1> DEFINE js == [n \in {j} |-> Fresh]
             new == [type |-> t, component |-> c, deployment |-> active, jobs |-> js]
  <1>2. b \in BatchNames /\ batches[b] = NoBatch /\ c \in Components
    BY DeploymentsAssumption DEF Unused
  <1>3. js \in JobSets
    <2>1. {j} \in (SUBSET JobNames) \ {{}} /\ js \in [{j} -> Job]
      BY DEF Job, Fresh
    <2> QED
      BY <2>1 DEF JobSets
  <1>4. Cardinality(DOMAIN js) = 1
    <2>1. DOMAIN js = {j}
      OBVIOUS
    <2> QED
      BY <2>1, FS_Singleton
  <1>5. batches' = [batches EXCEPT ![b] = new]
    BY <1>1
  <1> HIDE DEF js
  <1>6. Made(batches[b], new)
    BY <1>2, <1>3, <1>4, BatchFacts DEF Made
  <1> HIDE DEF new
  <1>7. /\ batches' = [d \in BatchNames |-> batches'[d]] /\ batches'[b] = new
        /\ \A d \in BatchNames \ {b} : batches'[d] = batches[d]
    BY <1>2, <1>5 DEF Inv, BatchesOK
  <1>8. requests' = [s \in Requests |-> IF s = None \/ requests[s].op \notin LoopOps THEN requests[s]
                                        ELSE [requests[s] EXCEPT !.since = @ \cup {b}]]
    BY <1>1 DEF Note
  <1>9. ASSUME NEW s \in Requests
        PROVE  Learns(requests[s], requests'[s]) /\ (requests'[s].op \in LoopOps => b \in requests'[s].since)
    <2>1. requests[s] \in Request /\ s # None
      BY RequestsAssumption DEF Inv, Sound
    <2>2. CASE requests[s].op \notin LoopOps
      BY <1>8, <2>1, <2>2 DEF Learns
    <2>3. CASE requests[s].op \in LoopOps
      <3>1. requests'[s] = [requests[s] EXCEPT !.since = @ \cup {b}]
        BY <1>8, <2>1, <2>3
      <3>2. b \in requests'[s].since
        BY <2>1, <3>1 DEF Request
      <3> QED
        BY <1>2, <3>1, <3>2 DEF Learns
    <2> QED
      BY <2>2, <2>3
  <1>10. requests' = [s \in Requests |-> requests'[s]]
    BY <1>8
  <1>11. \A d \in BatchNames : BatchStep(d)
    BY <1>6, <1>7, <1>9 DEF BatchStep
  <1> QED
    BY <1>7, <1>9, <1>10, <1>11 DEF StepOf

(* A job ends, which only sets it at rest.                                 *)
LEMMA JobEndsStep ==
  ASSUME Inv, JobEnds
  PROVE  StepOf(None)
  <1>1. PICK b \in Existing : \E j \in DOMAIN batches[b].jobs : batches' = [batches EXCEPT ![b].jobs[j].ended = TRUE]
    BY DEF JobEnds
  <1>2. PICK j \in DOMAIN batches[b].jobs : batches' = [batches EXCEPT ![b].jobs[j].ended = TRUE]
    BY <1>1
  <1> DEFINE x == batches[b]
             js == [x.jobs EXCEPT ![j].ended = TRUE]
  <1>3. b \in BatchNames /\ x \in Batch /\ BatchesOK
    BY BatchKinds DEF Inv, Existing
  <1>4. x.jobs \in [DOMAIN x.jobs -> Job]
    BY <1>3, BatchFacts
  <1>5. js \in [DOMAIN x.jobs -> Job] /\ \A i \in DOMAIN x.jobs : Resting(x.jobs[i]) => Resting(js[i])
    BY <1>4 DEF Job, Resting
  <1>6. batches' = [batches EXCEPT ![b] = WithJobs(x, js)]
    BY <1>2, <1>3 DEF WithJobs, BatchesOK
  <1> HIDE DEF js
  <1>7. Calmed(x, WithJobs(x, js))
    <2>1. \A i \in DOMAIN x.jobs \ DOMAIN x.jobs : js[i] = x.jobs[i]
      OBVIOUS
    <2>2. /\ WithJobs(x, js) \in Batch
          /\ WithJobs(x, js).type = x.type /\ WithJobs(x, js).component = x.component
          /\ WithJobs(x, js).jobs = js /\ DOMAIN js = DOMAIN x.jobs
      BY <1>3, <1>5, <2>1, JobsChange
    <2> QED
      BY <1>3, <1>5, <2>2 DEF Calmed, Kept
  <1>8. /\ batches' = [d \in BatchNames |-> batches'[d]] /\ batches'[b] = WithJobs(x, js)
        /\ \A d \in BatchNames \ {b} : batches'[d] = batches[d]
    BY <1>3, <1>6 DEF BatchesOK
  <1>9. UNCHANGED requests
    BY DEF JobEnds
  <1> QED
    BY <1>7, <1>8, <1>9 DEF StepOf, BatchStep, Learns, Inv

(* The inductive invariant holds at first.                                 *)
LEMMA InvInitially == Init => Inv
  <1> SUFFICES ASSUME Init PROVE Inv
    OBVIOUS
  <1>1. BatchesOK
    BY InitialAssumption DEF Init, BatchesOK, Existing
  <1>2. Idle \in Request /\ Idle.op = None /\ Idle.pc = "idle" /\ None \notin LoopOps
    BY EmptySeq DEF Idle, NewRequest, Request, Answers, None, LoopOps
  <1>3. Sound(Idle)
    BY <1>2 DEF Sound, Asked, Stopping
  <1> QED
    BY <1>1, <1>3 DEF Init, Inv

(* Every step keeps it.                                                    *)
LEMMA InvStep == Inv /\ [Next]_vars => Inv'
  <1> SUFFICES ASSUME Inv, [Next]_vars PROVE Inv'
    OBVIOUS
  <1>1. ASSUME NEW r \in Requests, Submit(r) \/ Step(r) PROVE Inv'
    BY <1>1, RequestStep, StepKeepsInv DEF StepBy
  <1>2. CASE World
    BY <1>2, ScheduleBatchStep, JobEndsStep, StepKeepsInv, RequestsAssumption DEF World
  <1>3. CASE UNCHANGED vars
    <2>1. StepOf(None)
      BY <1>3 DEF vars, Inv, BatchesOK, StepOf, BatchStep, Learns
    <2> QED
      BY <2>1, StepKeepsInv, RequestsAssumption
  <1> QED
    BY <1>1, <1>2, <1>3 DEF Next

(* The inductive invariant of batches and requests.                        *)
THEOREM Invariant == Spec => []Inv
  BY InvInitially, InvStep, PTL DEF Spec

-----------------------------------------------------------------------------
(* The properties                                                          *)

(* The types, and that a batch of type "job" holds one job, on which       *)
(* GetScheduledSingleJobSummaryList relies, also after copies and restarts *)
THEOREM TypeTheorem == Spec => []TypeOK
  <1>1. Inv => TypeOK
    BY DEF Inv, BatchesOK, Sound, Request, TypeOK
  <1> QED
    BY <1>1, Invariant, PTL

(* A stop of several components reports exactly what it could not do, for  *)
(* any number of components and batches and however its calls fail half    *)
(* way (StopAllBatchesAndJobsForEnvironment).                              *)
THEOREM StoppedTheorem == Spec => []StoppedUnlessReported
  <1>1. Inv => StoppedUnlessReported
    <2> SUFFICES ASSUME Inv, NEW r \in Requests, requests[r].pc = "done", requests[r].op \in LoopOps,
                        NEW b \in Existing \ requests[r].since, KindOf(b) \in Scope(requests[r])
                 PROVE  AtRest(b) \/ (requests[r].answer = "Error" /\ KindOf(b) \in requests[r].failed)
      BY DEF StoppedUnlessReported, KindOf, AtRest
    <2>1. Stopping(requests[r])
      BY DEF Inv, Sound
    <2>2. /\ requests[r].todo = <<>> /\ (requests[r].answer = "Error" \/ requests[r].failed = {})
          /\ AtRest(b) \/ KindOf(b) \in requests[r].failed
               \/ \E i \in DOMAIN requests[r].todo : requests[r].todo[i] = KindOf(b)
      BY <2>1 DEF Stopping
    <2>3. DOMAIN <<>> = {}
      OBVIOUS
    <2> QED
      BY <2>2, <2>3
  <1> QED
    BY <1>1, Invariant, PTL

(* What a request may do to a batch: its operation, on what it named.      *)
THEOREM NamedTheorem == Spec => OnlyTheNamed
  <1> DEFINE Body == \A r \in Requests : <<requests'[r].pc, requests'[r].todo>> # <<requests[r].pc, requests[r].todo>> =>
                        \A b \in BatchNames : batches'[b] # batches[b] =>
                            Permitted(requests[r], b, batches[b], batches'[b])
  <1>1. Inv /\ [Next]_vars => [Body]_vars
    <2> SUFFICES ASSUME Inv, Next, NEW r \in Requests,
                        <<requests'[r].pc, requests'[r].todo>> # <<requests[r].pc, requests[r].todo>>,
                        NEW b \in BatchNames, batches'[b] # batches[b]
                 PROVE  Permitted(requests[r], b, batches[b], batches'[b])
      OBVIOUS
    <2>1. ASSUME NEW s, StepOf(s), s # r PROVE FALSE
      <3>1. Learns(requests[r], requests'[r]) /\ requests[r] \in Request
        BY <2>1 DEF StepOf, Inv, Sound
      <3> QED
        BY <3>1, LearnsFacts
    <2>2. CASE World
      BY <2>1, <2>2, ScheduleBatchStep, JobEndsStep, RequestsAssumption DEF World
    <2>3. ASSUME NEW s \in Requests, Submit(s) \/ Step(s) PROVE Permitted(requests[r], b, batches[b], batches'[b])
      <3>1. StepBy(s)
        BY <2>3, RequestStep
      <3> QED
        BY <2>1, <3>1 DEF StepBy, Changes
    <2> QED
      BY <2>2, <2>3 DEF Next
  <1> QED
    BY <1>1, Invariant, PTL DEF Spec, OnlyTheNamed

-----------------------------------------------------------------------------
(* Listings and lookups                                                    *)

Shown(b, j) == JobSummary(b, j, StatusesOf(b, batches[b]))
Mine(c) == {b \in Existing : batches[b].component = c}
Listed(c) == ListJobs(c).body \cup UNION {s.jobs : s \in ListBatches(c).body}

(* What a lookup by full name finds.                                       *)
LEMMA FoundByName ==
  ASSUME BatchesOK, NEW c, NEW b \in Mine(c), NEW j \in DOMAIN batches[b].jobs
  PROVE  /\ GetBatchJob(c, ScheduledJobName(b, j)).ok
         /\ GetBatchJob(c, ScheduledJobName(b, j)).batch = b
         /\ GetBatchJob(c, ScheduledJobName(b, j)).job = j
         /\ b \in BatchNames /\ j \in JobNames
  <1> DEFINE name == ScheduledJobName(b, j)
             batch == GetRadixBatch(c, b, "")
  <1>1. b \in Existing /\ b \in BatchNames /\ batches[b] \in Batch /\ batches[b].component = c /\ j \in JobNames
    BY BatchKinds, BatchFacts DEF Mine
  <1>2. Len(name) >= 2 /\ Front(name) = b /\ Last(name) = j
    BY <1>1, FullName
  <1>3. batch = batches[b] /\ batch # NoBatch
    BY <1>1, BatchFacts DEF GetRadixBatch
  <1> HIDE DEF name
  <1>4. ParseScheduledJobName(name) = [ok |-> TRUE, batch |-> b, job |-> j]
    BY <1>2 DEF ParseScheduledJobName
  <1>5. GetBatchJob(c, name) = [[ok |-> TRUE, batch |-> b, job |-> j] EXCEPT
                                  !.ok = @ /\ batch # NoBatch /\ j \in DOMAIN batch.jobs]
    BY <1>4 DEF GetBatchJob
  <1> HIDE DEF batch
  <1>6. GetBatchJob(c, name).batch = b /\ GetBatchJob(c, name).job = j
    BY <1>5
  <1>7. GetBatchJob(c, name).ok = (TRUE /\ batch # NoBatch /\ j \in DOMAIN batch.jobs)
    BY <1>5
  <1> QED
    BY <1>1, <1>3, <1>6, <1>7 DEF name

(* What the listings show: each job of each batch, and nothing else.       *)
LEMMA ListedFacts ==
  ASSUME BatchesOK, NEW c
  PROVE  /\ \A s \in Listed(c) : \E b \in Mine(c) : \E j \in DOMAIN batches[b].jobs : s = Shown(b, j)
         /\ \A b \in Mine(c) : \A j \in DOMAIN batches[b].jobs : Shown(b, j) \in Listed(c)
         /\ \A b, j : Shown(b, j).name = ScheduledJobName(b, j)
  <1>1. \A b, j : Shown(b, j).name = ScheduledJobName(b, j)
    BY DEF Shown, JobSummary
  <1>2. \A b : BatchSummary(b).jobs = {Shown(b, j) : j \in DOMAIN batches[b].jobs}
    BY DEF BatchSummary, Shown
  <1>3. \A b : b \in Mine(c) <=> b \in GetRadixBatches(c, "batch") \/ b \in GetRadixBatches(c, "job")
    BY DEF Mine, GetRadixBatches, Existing, Types
  <1>4. ListJobs(c).body = UNION {BatchSummary(b).jobs : b \in GetRadixBatches(c, "job")}
    BY DEF ListJobs, GetJobs
  <1>5. ListBatches(c).body = {BatchSummary(b) : b \in GetRadixBatches(c, "batch")}
    BY DEF ListBatches, GetBatches
  <1>6. \A s : s \in Listed(c) <=> \E b \in Mine(c) : s \in BatchSummary(b).jobs
    BY <1>3, <1>4, <1>5 DEF Listed
  <1> QED
    BY <1>1, <1>2, <1>6

(* Whatever a listing shows is found under the name it shows, with its     *)
(* payload if there is one, and shown once: names are taken apart at the   *)
(* last dash, and no two jobs have the same full name (GetJobs, GetJob).   *)
THEOREM ListedTheorem == Spec => []ListedIsReachable
  <1>1. Inv => ListedIsReachable
    <2> SUFFICES ASSUME BatchesOK, NEW c \in Components
                 PROVE  /\ \A s \in ListBatches(c).body : ReadBatch(c, s.name).body = {s}
                        /\ \A s \in Listed(c) :
                              /\ ReadJob(c, s.name).body = {s}
                              /\ ReadPayload(c, s.name).code = "NotFound" <=> Payloads[Front(s.name)] = "lost"
                        /\ \A b \in Mine(c) : \A j \in DOMAIN batches[b].jobs :
                              \E s \in Listed(c) : {t \in Listed(c) : t.name = ScheduledJobName(b, j)} = {s}
      BY DEF Inv, ListedIsReachable, Listed, Mine
    <2>1. ASSUME NEW s \in ListBatches(c).body PROVE ReadBatch(c, s.name).body = {s}
      <3>1. PICK b \in GetRadixBatches(c, "batch") : s = BatchSummary(b)
        BY DEF ListBatches, GetBatches
      <3>2. s.name = b
        BY <3>1 DEF BatchSummary
      <3>3. GetRadixBatch(c, b, "batch") # NoBatch
        BY BatchKinds DEF GetRadixBatches, GetRadixBatch
      <3> QED
        BY <3>1, <3>2, <3>3 DEF ReadBatch, Reply, GetBatch
    <2>2. ASSUME NEW b \in Mine(c), NEW j \in DOMAIN batches[b].jobs
          PROVE  /\ ReadJob(c, ScheduledJobName(b, j)).body = {Shown(b, j)}
                 /\ ReadPayload(c, ScheduledJobName(b, j)).code = "NotFound" <=> Payloads[b] = "lost"
                 /\ Front(ScheduledJobName(b, j)) = b /\ Last(ScheduledJobName(b, j)) = j
      <3> DEFINE name == ScheduledJobName(b, j)
      <3>1. /\ GetBatchJob(c, name).ok /\ GetBatchJob(c, name).batch = b /\ GetBatchJob(c, name).job = j
            /\ b \in BatchNames /\ j \in JobNames
        BY FoundByName
      <3>2. Front(name) = b /\ Last(name) = j
        BY <3>1, FullName
      <3> HIDE DEF name
      <3>3. ReadJob(c, name).body = {Shown(b, j)}
        BY <3>1 DEF ReadJob, Reply, GetJob, Shown
      <3>4. Payloads[b] \in {"none", "lost", "kept"}
        BY <3>1, PayloadsAssumption
      <3>5. /\ Payloads[b] = "none" => GetJobPayload(c, name) = {"empty"}
            /\ Payloads[b] = "lost" => GetJobPayload(c, name) = {}
            /\ Payloads[b] = "kept" => GetJobPayload(c, name) = {"payload"}
        BY <3>1 DEF GetJobPayload
      <3>6. GetJobPayload(c, name) = {} <=> Payloads[b] = "lost"
        BY <3>4, <3>5
      <3>7. ReadPayload(c, name).code = "NotFound" <=> GetJobPayload(c, name) = {}
        BY <3>1 DEF ReadPayload, Reply
      <3> QED
        BY <3>2, <3>3, <3>6, <3>7 DEF name
    <2>3. ASSUME NEW s \in Listed(c)
          PROVE  /\ ReadJob(c, s.name).body = {s}
                 /\ ReadPayload(c, s.name).code = "NotFound" <=> Payloads[Front(s.name)] = "lost"
      <3>1. PICK b \in Mine(c) : \E j \in DOMAIN batches[b].jobs : s = Shown(b, j)
        BY ListedFacts
      <3>2. PICK j \in DOMAIN batches[b].jobs : s = Shown(b, j)
        BY <3>1
      <3>3. s.name = ScheduledJobName(b, j)
        BY <3>2, ListedFacts
      <3> QED
        BY <2>2, <3>2, <3>3
    <2>4. ASSUME NEW b \in Mine(c), NEW j \in DOMAIN batches[b].jobs
          PROVE  \E s \in Listed(c) : {t \in Listed(c) : t.name = ScheduledJobName(b, j)} = {s}
      <3>1. Shown(b, j) \in Listed(c) /\ Shown(b, j).name = ScheduledJobName(b, j)
        BY ListedFacts
      <3>2. ASSUME NEW t \in Listed(c), t.name = ScheduledJobName(b, j) PROVE t = Shown(b, j)
        BY <2>2, <2>3, <3>2
      <3> QED
        BY <3>1, <3>2
    <2> QED
      BY <2>1, <2>3, <2>4
  <1> QED
    BY <1>1, Invariant, PTL
=============================================================================
